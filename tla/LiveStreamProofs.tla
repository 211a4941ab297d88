-------------------------- MODULE LiveStreamProofs --------------------------
(***************************************************************************)
(* Proofs about LiveStream, for any chat, limit and number of              *)
(* disturbances: that the mark of a chat that is followed passes over no   *)
(* message the reader is owed, that a listener at rest has caught up, and  *)
(* that a message comes twice only where that is accounted for.            *)
(***************************************************************************)
EXTENDS LiveStream, SequenceTheorems, WellFoundedInduction, TLAPS

Record == [by : {"live", "replay"}, id : Ids]
Asked == fill \in {"replaying", "writing", "written"}
Plain(m) == live[m] \in {"name", "plain", "written"}
Pending(m) == live[m] \in {"name", "gapname", "plain", "gap"}
AtSinkAgain(m) == \E k \in 1 .. Len(queue) : queue[k].by = "replay" /\ queue[k].id = m

\* Nothing is known of a message that was not posted.
Posted ==
  /\ saved <= mark /\ mark <= posted /\ heard <= posted
  /\ \A m \in shownGap \cup todo : m <= posted
  /\ \A m \in Ids : copies[m] > 0 \/ live[m] # "none" => m <= posted

\* What there is of a process that is down, and what goes with a gap.
Process ==
  /\ proc = "down" =>
       /\ queue = <<>> /\ inbox = <<>> /\ shownGap = {} /\ fill = "none"
       /\ openGaps = 0 /\ ~unfilled /\ ~starting /\ mark = saved
       /\ \A m \in Ids : live[m] = "none"
  /\ starting \/ fill # "none" => openGaps > 0 \/ proc = "stopping"
  /\ starting => openGaps > 0
  /\ ~InGap => shownGap = {}
  /\ fill \in {"writing", "written"} => turn \in shownGap

\* The updates come in order, and their handlers have not begun.
InboxOrder ==
  /\ \A i, j \in 1 .. Len(inbox) : i < j => inbox[i] < inbox[j]
  /\ \A i \in 1 .. Len(inbox) : inbox[i] <= posted /\ live[inbox[i]] = "none"

\* The records at the sink: a live one for a handler that waits there, and of
\* the catch-up the one whose turn it is.
QueueShape ==
  /\ \A i, j \in 1 .. Len(queue) : queue[i] = queue[j] => i = j
  /\ \A i \in 1 .. Len(queue) :
       IF queue[i].by = "live" THEN live[queue[i].id] \in {"plain", "gap"}
       ELSE /\ proc # "stopping" => fill = "writing" /\ queue[i].id = turn
            /\ queue[i].id \in shownGap \/ queue[i].id <= mark

\* A handler that began outside a gap and is still at work in one is
\* accounted for; one that began in a gap has noted its message there.
HandlersOfGaps ==
  \A m \in Ids :
    /\ InGap /\ Plain(m) => m \in repeatOK
    /\ live[m] \in {"gap", "gapname"} => m \in shownGap \/ m <= mark

\* What the reader got of this process the mark or the gap knows.
Known ==
  /\ \A m \in Ids :
       copies[m] > 0 /\ m \notin repeatOK => m <= mark \/ m \in shownGap \/ live[m] = "written"
  /\ Asked /\ proc = "up" =>
       \A m \in todo : m \notin shownGap \cup repeatOK => live[m] = "none" /\ copies[m] = 0

\* One of the ways to the reader at most, for a message not accounted for.
OneWay ==
  \A m \in Ids \ repeatOK :
    /\ copies[m] <= 1
    /\ copies[m] = 1 => ~Pending(m) /\ ~AtSinkAgain(m)
    /\ Pending(m) => ~AtSinkAgain(m)

-----------------------------------------------------------------------------
(* What has come of a message of a chat that has a mark.                   *)

Settled(m) ==
  \/ m <= heard \/ Hidden(m) \/ m \in cut \/ m \in dropped
  \/ copies[m] > 0 \/ live[m] # "none"

HasMark == InitMark > 0

\* A handler is written only after the reader has the message.
WrittenIsGiven == \A m \in Ids : live[m] = "written" => copies[m] > 0

\* The mark, and every handler outside a gap, has only settled messages below.
MarkCovers == HasMark => heard = InitMark /\ saved > 0 /\ \A m \in Ids : m <= mark => Settled(m)
PlainCovers == HasMark => \A m, j \in Ids : Plain(m) /\ j < m => Settled(j)

\* While the process is up: what was shown in a gap is settled, or has its turn
\* at the sink; the catch-up leaves nothing behind it.
Turned(j) == fill = "writing" /\ j = turn
ShownIsSettled == HasMark /\ proc = "up" => \A m \in shownGap : Settled(m) \/ Turned(m)
Replayed ==
  HasMark /\ proc = "up" =>
    /\ Asked => \A m \in todo, j \in Ids : j < m => j \in todo \/ Settled(j) \/ Turned(j)
    /\ fill \in {"writing", "written"} =>
         /\ turn \in shownGap /\ \A m \in todo : turn < m
         /\ \A j \in Ids : j < turn => Settled(j)
    /\ fill = "written" => Settled(turn)

\* The frontier: up to h every message is accounted for, from there to r it
\* is in the inbox, and what came after r was posted while the connection was
\* away.
Frontier(h, r) ==
  /\ h <= r /\ r <= posted /\ (online => r = posted)
  /\ \A j \in Ids : h < j /\ j <= r => \E i \in 1 .. Len(inbox) : inbox[i] = j
  /\ \A i \in 1 .. Len(inbox) : inbox[i] <= r
  /\ mark <= h /\ \A m \in Ids : m \in shownGap \cup todo \/ live[m] # "none" => m <= h

\* While the last gap is being filled.
FillingUp ==
  HasMark /\ proc = "up" /\ Asked /\ openGaps = 1 =>
    \E h, r \in 0 .. MaxMsg :
      /\ Frontier(h, r)
      /\ \A j \in Ids : j <= h => j \in todo \/ Settled(j) \/ Turned(j)
      /\ h <= mark \/ h \in shownGap \cup todo

\* Outside any gap.
Following ==
  HasMark /\ proc = "up" /\ ~InGap =>
    \E h, r \in 0 .. MaxMsg :
      /\ Frontier(h, r)
      /\ \A j \in Ids : j <= h => Settled(j)
      /\ h <= mark \/ (h \in Ids /\ Plain(h))
      /\ \A i \in 1 .. Len(inbox) : inbox[i] <= mark \/ inbox[i] > h

IInv ==
  /\ WorldTypes /\ MarkTypes /\ GapTypes /\ FillTypes /\ StreamTypes /\ ReaderTypes
  /\ Posted /\ Process /\ InboxOrder /\ QueueShape /\ HandlersOfGaps /\ Known /\ OneWay
  /\ WrittenIsGiven /\ MarkCovers /\ PlainCovers /\ ShownIsSettled /\ Replayed
  /\ FillingUp /\ Following
-----------------------------------------------------------------------------
(* Sequences: the queue at the sink and the inbox.                         *)

LEMMA Appended ==
  ASSUME NEW S, NEW s \in Seq(S), NEW e \in S
  PROVE  /\ Append(s, e) \in Seq(S) /\ Len(s) \in Nat
         /\ Len(Append(s, e)) = Len(s) + 1
         /\ \A i \in 1 .. Len(s) : Append(s, e)[i] = s[i]
         /\ Append(s, e)[Len(s) + 1] = e
BY AppendProperties, LenProperties

LEMMA Shortened ==
  ASSUME NEW S, NEW s \in Seq(S), s # <<>>
  PROVE  /\ Head(s) = s[1] /\ s[1] \in S
         /\ Tail(s) \in Seq(S) /\ Len(s) \in Nat \ {0}
         /\ Len(Tail(s)) = Len(s) - 1
         /\ \A i \in 1 .. Len(s) - 1 : Tail(s)[i] = s[i + 1]
<1>1. Len(s) \in Nat \ {0}
  BY EmptySeq
<1>2. s[1] \in S
  BY <1>1, ElementOfSeq
<1>3. /\ Tail(s) \in Seq(S) /\ Len(Tail(s)) = Len(s) - 1
      /\ \A i \in 1 .. Len(Tail(s)) : Tail(s)[i] = s[i + 1]
  BY HeadTailProperties
<1> QED BY <1>1, <1>2, <1>3

LEMMA InboxGrows ==
  ASSUME StreamTypes, NEW m \in Ids, inbox' = Append(inbox, m)
  PROVE  /\ inbox' \in Seq(Ids) /\ Len(inbox) \in Nat /\ Len(inbox') = Len(inbox) + 1
         /\ \A i \in 1 .. Len(inbox) : inbox'[i] = inbox[i]
         /\ inbox'[Len(inbox) + 1] = m
BY Appended DEF StreamTypes

LEMMA InboxShrinks ==
  ASSUME StreamTypes, inbox # <<>>, inbox' = Tail(inbox)
  PROVE  /\ Head(inbox) = inbox[1] /\ inbox[1] \in Ids
         /\ inbox' \in Seq(Ids) /\ Len(inbox) \in Nat \ {0} /\ Len(inbox') = Len(inbox) - 1
         /\ \A i \in 1 .. Len(inbox) - 1 : inbox'[i] = inbox[i + 1]
BY Shortened DEF StreamTypes

LEMMA Elements ==
  ASSUME StreamTypes
  PROVE  /\ Len(inbox) \in Nat /\ \A i \in 1 .. Len(inbox) : inbox[i] \in Ids
         /\ Len(queue) \in Nat /\ queue \in Seq(Record)
         /\ \A i \in 1 .. Len(queue) : queue[i] \in Record
<1>1. inbox \in Seq(Ids) /\ queue \in Seq(Record)
  BY DEF StreamTypes, Record
<1> QED BY <1>1, LenProperties, ElementOfSeq

LEMMA QueueGrows ==
  ASSUME StreamTypes, NEW b \in {"live", "replay"}, NEW m \in Ids,
         queue' = Append(queue, [by |-> b, id |-> m])
  PROVE  /\ queue' \in Seq(Record) /\ Len(queue) \in Nat
         /\ Len(queue') = Len(queue) + 1
         /\ \A i \in 1 .. Len(queue) : queue'[i] = queue[i]
         /\ queue'[Len(queue) + 1] = [by |-> b, id |-> m]
<1>1. queue \in Seq(Record)
  BY DEF StreamTypes, Record
<1>2. [by |-> b, id |-> m] \in Record
  BY DEF Record
<1> HIDE DEF Record
<1> DEFINE e == [by |-> b, id |-> m]
<1>3. queue' = Append(queue, e) /\ e \in Record
  BY <1>2
<1> HIDE DEF e
<1>4. /\ queue' \in Seq(Record) /\ Len(queue) \in Nat
      /\ Len(queue') = Len(queue) + 1
      /\ \A i \in 1 .. Len(queue) : queue'[i] = queue[i]
      /\ queue'[Len(queue) + 1] = e
  BY <1>1, <1>3, Appended
<1> QED BY <1>4 DEF e

LEMMA QueueShrinks ==
  ASSUME StreamTypes, queue # <<>>, queue' = Tail(queue)
  PROVE  /\ Head(queue) = queue[1] /\ queue[1] \in Record
         /\ queue' \in Seq(Record) /\ Len(queue) \in Nat \ {0} /\ Len(queue') = Len(queue) - 1
         /\ \A i \in 1 .. Len(queue) - 1 : queue'[i] = queue[i + 1]
<1>1. queue \in Seq(Record)
  BY DEF StreamTypes, Record
<1> QED BY <1>1, Shortened

LEMMA QueueLoses ==
  ASSUME StreamTypes, NEW k \in 1 .. Len(queue), queue' = Without(k)
  PROVE  /\ queue' \in Seq(Record) /\ Len(queue) \in Nat /\ Len(queue') = Len(queue) - 1
         /\ \A i \in 1 .. Len(queue) - 1 :
              queue'[i] = IF i < k THEN queue[i] ELSE queue[i + 1]
<1> DEFINE n == Len(queue)
           a == SubSeq(queue, 1, k - 1)
           b == SubSeq(queue, k + 1, n)
<1>1. /\ queue \in Seq(Record) /\ n \in Nat /\ \A i \in 1 .. n : queue[i] \in Record
  BY Elements
<1>2. /\ a \in Seq(Record) /\ Len(a) = k - 1
      /\ \A i \in 1 .. k - 1 : a[i] = queue[i]
  <2>1. 1 \in Int /\ k - 1 \in Int /\ \A i \in 1 .. k - 1 : queue[i] \in Record
    BY <1>1
  <2>2. /\ a \in Seq(Record)
        /\ Len(a) = IF 1 <= k - 1 THEN (k - 1) - 1 + 1 ELSE 0
        /\ \A i \in 1 .. (k - 1) - 1 + 1 : a[i] = queue[1 + i - 1]
    BY <2>1, SubSeqProperties
  <2> HIDE DEF a
  <2> QED BY <1>1, <2>2
<1>3. /\ b \in Seq(Record) /\ Len(b) = n - k
      /\ \A i \in 1 .. n - k : b[i] = queue[k + i]
  <2>1. k + 1 \in Int /\ n \in Int /\ \A i \in k + 1 .. n : queue[i] \in Record
    BY <1>1
  <2>2. /\ b \in Seq(Record)
        /\ Len(b) = IF k + 1 <= n THEN n - (k + 1) + 1 ELSE 0
        /\ \A i \in 1 .. n - (k + 1) + 1 : b[i] = queue[(k + 1) + i - 1]
    BY <2>1, SubSeqProperties
  <2> HIDE DEF b
  <2> QED BY <1>1, <2>2
<1>4. queue' = a \o b
  BY DEF Without
<1> HIDE DEF a, b
<1>5. /\ queue' \in Seq(Record) /\ Len(queue') = (k - 1) + (n - k)
      /\ \A i \in 1 .. (k - 1) + (n - k) :
           queue'[i] = IF i <= k - 1 THEN a[i] ELSE b[i - (k - 1)]
  <2>1. /\ a \o b \in Seq(Record) /\ Len(a \o b) = Len(a) + Len(b)
        /\ \A i \in 1 .. Len(a) + Len(b) :
             (a \o b)[i] = IF i <= Len(a) THEN a[i] ELSE b[i - Len(a)]
    BY <1>2, <1>3, ConcatProperties
  <2> QED BY <2>1, <1>2, <1>3, <1>4
<1>6. ASSUME NEW i \in 1 .. n - 1
      PROVE  queue'[i] = IF i < k THEN queue[i] ELSE queue[i + 1]
  <2>1. i \in 1 .. (k - 1) + (n - k) /\ (i < k <=> i <= k - 1)
    BY <1>1
  <2>2. CASE i < k
    BY <1>2, <1>5, <2>1, <2>2
  <2>3. CASE ~(i < k)
    <3>1. i - (k - 1) \in 1 .. n - k /\ k + (i - (k - 1)) = i + 1
      BY <1>1, <2>3
    <3>2. b[i - (k - 1)] = queue[i + 1]
      BY <1>3, <3>1
    <3> QED BY <1>5, <2>1, <2>3, <3>2
  <2> QED BY <2>2, <2>3
<1>7. (k - 1) + (n - k) = n - 1
  BY <1>1
<1> QED BY <1>1, <1>5, <1>6, <1>7
-----------------------------------------------------------------------------
(* What a step leaves alone, and what it cannot take back.                 *)

LEMMA Kept ==
  /\ UNCHANGED <<posted, online, proc, titled, faults>> => WorldTypes' = WorldTypes
  /\ UNCHANGED <<mark, saved, heard>> => MarkTypes' = MarkTypes
  /\ UNCHANGED <<shownGap, openGaps, unfilled>> => GapTypes' = GapTypes
  /\ UNCHANGED <<fill, starting, todo, turn>> => FillTypes' = FillTypes
  /\ UNCHANGED <<inbox, live, queue>> => StreamTypes' = StreamTypes
  /\ UNCHANGED <<copies, repeatOK, cut, dropped>> => ReaderTypes' = ReaderTypes
  /\ UNCHANGED <<posted, mark, saved, shownGap, todo, live, copies, heard>> => Posted' = Posted
  /\ UNCHANGED <<proc, mark, saved, shownGap, openGaps, unfilled, fill, starting, turn, inbox,
                 live, queue>> => Process' = Process
  /\ UNCHANGED <<posted, inbox, live>> => InboxOrder' = InboxOrder
  /\ UNCHANGED <<proc, mark, shownGap, fill, turn, live, queue>> => QueueShape' = QueueShape
  /\ UNCHANGED <<mark, shownGap, openGaps, unfilled, live, repeatOK>>
       => HandlersOfGaps' = HandlersOfGaps
  /\ UNCHANGED <<proc, mark, shownGap, fill, todo, live, copies, repeatOK>> => Known' = Known
  /\ UNCHANGED <<live, queue, copies, repeatOK>> => OneWay' = OneWay
  /\ UNCHANGED <<live, copies>> => WrittenIsGiven' = WrittenIsGiven
  /\ UNCHANGED <<mark, saved, live, copies, cut, dropped, heard>> => MarkCovers' = MarkCovers
  /\ UNCHANGED <<live, copies, cut, dropped, heard>> => PlainCovers' = PlainCovers
  /\ UNCHANGED <<proc, shownGap, fill, turn, live, copies, cut, dropped, heard>>
       => ShownIsSettled' = ShownIsSettled
  /\ UNCHANGED <<proc, shownGap, fill, todo, turn, live, copies, cut, dropped, heard>>
       => Replayed' = Replayed
BY DEF WorldTypes, MarkTypes, GapTypes, FillTypes, StreamTypes, ReaderTypes, Posted, Process,
       InboxOrder, QueueShape, HandlersOfGaps, Known, OneWay, WrittenIsGiven, MarkCovers,
       PlainCovers, ShownIsSettled, Replayed, Asked, AtSinkAgain, InGap, Pending, Plain, Settled,
       Turned

LEMMA KeptSame ==
  /\ UNCHANGED <<posted, online, proc, mark, shownGap, openGaps, fill, todo, turn, inbox, live,
                 copies, cut, dropped, heard>> => FillingUp' = FillingUp
  /\ UNCHANGED <<posted, online, proc, mark, shownGap, openGaps, unfilled, todo, inbox, live,
                 copies, cut, dropped, heard>> => Following' = Following
BY DEF FillingUp, Following, Frontier, Asked, InGap, Plain, Settled, Turned

\* While the process lives, a message that is settled stays so.
LEMMA SettledStays ==
  ASSUME heard' = heard, cut \subseteq cut', dropped \subseteq dropped',
         \A j \in Ids : copies[j] > 0 => copies'[j] > 0,
         \A j \in Ids : live[j] # "none" => live'[j] # "none" \/ copies'[j] > 0 \/ j \in dropped'
  PROVE  \A j \in Ids : Settled(j) => Settled(j)'
BY DEF Settled

LEMMA QuietSettles ==
  ASSUME UNCHANGED <<heard, cut, dropped, copies, live>>
  PROVE  \A j \in Ids : Settled(j) <=> Settled(j)'
BY DEF Settled
LEMMA Settles ==
  ASSUME IInv, HasMark,
         \/ Post \/ Disconnect \/ Reconnect \/ Handle \/ Emit \/ AcquireFilling \/ Ask
         \/ NoteReplayed \/ FillDone \/ FillFail \/ Start \/ Stop
         \/ \E m \in Ids : Title(m) \/ NoteLive(m) \/ ReplayNext(m)
  PROVE  \A j \in Ids : Settled(j) => Settled(j)'
<1> DEFINE Stays ==
      /\ heard' = heard /\ cut \subseteq cut' /\ dropped \subseteq dropped'
      /\ \A j \in Ids : copies[j] > 0 => copies'[j] > 0
      /\ \A j \in Ids : live[j] # "none" => live'[j] # "none" \/ copies'[j] > 0
<1>1. heard # 0
  BY DEF IInv, MarkCovers, HasMark
<1>2. CASE Handle
  <2>1. heard' = heard /\ UNCHANGED <<copies, cut, dropped>>
    BY <1>1, <1>2 DEF Handle
  <2>2. \/ UNCHANGED live
        \/ \E m \in Ids, stage \in {"plain", "gap"} : Send(m, stage)
    <3>1. Head(inbox) \in Ids
      BY <1>2, InboxShrinks DEF Handle, IInv
    <3> QED BY <1>2, <3>1 DEF Handle
  <2>3. ASSUME NEW m \in Ids, NEW stage \in {"plain", "gap"}, Send(m, stage),
               NEW j \in Ids, live[j] # "none"
        PROVE  live'[j] # "none"
    BY <2>3 DEF Send, IInv, StreamTypes
  <2>4. Stays
    BY <2>1, <2>2, <2>3
  <2> QED BY <2>4, SettledStays
<1>3. CASE Emit
  <2>1. queue[1] \in Record /\ Head(queue) = queue[1]
    BY <1>3, QueueShrinks DEF Emit, IInv
  <2>2. PICK r \in Record : r = Head(queue)
    BY <2>1
  <2>3. r.id \in Ids
    BY DEF Record
  <2>4. /\ heard' = heard /\ UNCHANGED <<cut, dropped>>
        /\ copies' = [copies EXCEPT ![r.id] = @ + 1]
        /\ \/ live' = live
           \/ live' = [live EXCEPT ![r.id] = IF @ = "gap" THEN "none" ELSE "written"]
    BY <1>3, <2>2 DEF Emit
  <2>5. \A j \in Ids : copies'[j] = IF j = r.id THEN copies[j] + 1 ELSE copies[j]
    BY <2>3, <2>4 DEF IInv, ReaderTypes
  <2>6. \A j \in Ids : copies[j] \in Nat
    BY DEF IInv, ReaderTypes
  <2>7. \A j \in Ids : j # r.id => live'[j] = live[j]
    BY <2>4 DEF IInv, StreamTypes
  <2>8. Stays
    BY <2>3, <2>4, <2>5, <2>6, <2>7
  <2> QED BY <2>8, SettledStays
<1>4. ASSUME NEW m \in Ids, Title(m) PROVE Stays
  BY <1>4 DEF Title, reader, IInv, StreamTypes
<1>5. ASSUME NEW m \in Ids, NoteLive(m) PROVE Stays
  BY <1>5 DEF NoteLive, reader, IInv, StreamTypes, WrittenIsGiven
<1>6. ASSUME NEW m \in Ids, ReplayNext(m) PROVE Stays
  BY <1>6 DEF ReplayNext, reader
<1>7. ASSUME Ask PROVE Stays
  BY <1>7 DEF Ask
<1>8. ASSUME Post \/ Disconnect \/ Reconnect \/ AcquireFilling PROVE Stays
  BY <1>8 DEF Post, Disconnect, Reconnect, AcquireFilling, reader, OpenGap
<1>9. ASSUME NoteReplayed \/ FillDone \/ FillFail \/ Start \/ Stop PROVE Stays
  BY <1>9 DEF NoteReplayed, FillDone, FillFail, Start, Stop, reader, OpenGap
<1> QED BY <1>2, <1>3, <1>4, <1>5, <1>6, <1>7, <1>8, <1>9, SettledStays

-----------------------------------------------------------------------------
(* What the larger steps come to.                                          *)

\* A record takes its place at the end of the queue, or leaves its head.
Joins(b, m) ==
  /\ queue' \in Seq(Record) /\ Len(queue) \in Nat /\ Len(queue') = Len(queue) + 1
  /\ \A i \in 1 .. Len(queue) : queue'[i] = queue[i]
  /\ queue'[Len(queue) + 1] = [by |-> b, id |-> m]

Leaves ==
  /\ queue' \in Seq(Record) /\ Len(queue) \in Nat \ {0} /\ Len(queue') = Len(queue) - 1
  /\ \A i \in 1 .. Len(queue) - 1 : queue'[i] = queue[i + 1]

LEMMA JoinsSink ==
  ASSUME NEW b, NEW m \in Ids, Joins(b, m)
  PROVE  \A j \in Ids : AtSinkAgain(j)' <=> AtSinkAgain(j) \/ (b = "replay" /\ j = m)
<1> SUFFICES ASSUME NEW j \in Ids
             PROVE  AtSinkAgain(j)' <=> AtSinkAgain(j) \/ (b = "replay" /\ j = m)
  OBVIOUS
<1> DEFINE n == Len(queue)
<1>1. n \in Nat /\ Len(queue') = n + 1 /\ \A i \in 1 .. n : queue'[i] = queue[i]
  BY DEF Joins
<1>2. queue'[n + 1].by = b /\ queue'[n + 1].id = m
  BY DEF Joins
<1>3. ASSUME AtSinkAgain(j)' PROVE AtSinkAgain(j) \/ (b = "replay" /\ j = m)
  <2>1. PICK k \in 1 .. Len(queue') : queue'[k].by = "replay" /\ queue'[k].id = j
    BY <1>3 DEF AtSinkAgain
  <2>2. k \in 1 .. n \/ k = n + 1
    BY <1>1
  <2> QED BY <1>1, <1>2, <2>1, <2>2 DEF AtSinkAgain
<1>4. ASSUME AtSinkAgain(j) PROVE AtSinkAgain(j)'
  <2>1. PICK k \in 1 .. n : queue[k].by = "replay" /\ queue[k].id = j
    BY <1>4 DEF AtSinkAgain
  <2>2. k \in 1 .. Len(queue') /\ queue'[k] = queue[k]
    BY <1>1
  <2> QED BY <2>1, <2>2 DEF AtSinkAgain
<1>5. ASSUME b = "replay", j = m PROVE AtSinkAgain(j)'
  <2>1. n + 1 \in 1 .. Len(queue')
    BY <1>1
  <2> QED BY <1>2, <1>5, <2>1 DEF AtSinkAgain
<1> QED BY <1>3, <1>4, <1>5

LEMMA LeavesSink ==
  ASSUME Leaves
  PROVE  \A j \in Ids : AtSinkAgain(j)' => AtSinkAgain(j)
<1> SUFFICES ASSUME NEW j \in Ids, AtSinkAgain(j)' PROVE AtSinkAgain(j)
  OBVIOUS
<1>1. PICK k \in 1 .. Len(queue') : queue'[k].by = "replay" /\ queue'[k].id = j
  BY DEF AtSinkAgain
<1>2. k + 1 \in 1 .. Len(queue) /\ queue'[k] = queue[k + 1]
  BY DEF Leaves
<1> QED BY <1>1, <1>2 DEF AtSinkAgain

\* A handler runs up to its first wait: m is known already, or passed over, or
\* noted in the gap, and on its way to the reader when it is not hidden.
Handled(m, s) ==
  /\ m = inbox[1] /\ m <= posted /\ live[m] = "none"
  /\ inbox' \in Seq(Ids) /\ Len(inbox) \in Nat \ {0} /\ Len(inbox') = Len(inbox) - 1
  /\ \A i \in 1 .. Len(inbox) - 1 : inbox'[i] = inbox[i + 1]
  /\ heard' = IF heard = 0 THEN m ELSE heard
  /\ live' = [live EXCEPT ![m] = s]
  /\ \/ UNCHANGED <<mark, saved>>
     \/ m > mark /\ mark' = m /\ saved' \in {saved, m} /\ Hidden(m) /\ ~InGap /\ s = "none"
  /\ \/ UNCHANGED shownGap
     \/ InGap /\ m > mark /\ m \notin shownGap /\ shownGap' = shownGap \cup {m}
        /\ (Hidden(m) \/ s \in {"gap", "gapname"})
  /\ s = "none" => m <= mark' \/ m \in shownGap'
  /\ s \in {"gap", "gapname"} => InGap /\ m > mark /\ m \notin shownGap /\ m \in shownGap'
  /\ s \in {"plain", "name"} => ~InGap /\ m > mark /\ m \notin shownGap
  /\ IF s \in {"plain", "gap"} THEN Joins("live", m) ELSE UNCHANGED queue
  /\ UNCHANGED <<posted, online, proc, titled, openGaps, unfilled, fill, starting, todo, turn,
                 copies, repeatOK, cut, dropped, faults>>

LEMMA HandleMoves ==
  ASSUME IInv, Handle
  PROVE  /\ proc = "up" /\ inbox[1] \in Ids
         /\ \E s \in {"none", "name", "gapname", "plain", "gap"} : Handled(inbox[1], s)
<1> DEFINE m == inbox[1]
<1>1. /\ proc = "up" /\ Head(inbox) = m /\ m \in Ids
      /\ inbox' \in Seq(Ids) /\ Len(inbox) \in Nat \ {0} /\ Len(inbox') = Len(inbox) - 1
      /\ \A i \in 1 .. Len(inbox) - 1 : inbox'[i] = inbox[i + 1]
  BY InboxShrinks DEF Handle, IInv
<1>2. m <= posted /\ live[m] = "none"
  BY <1>1 DEF IInv, InboxOrder
<1>3. /\ m \in Nat /\ mark \in Nat /\ live \in [Ids -> {"none", "name", "gapname", "plain", "gap", "written"}]
      /\ heard' = IF heard = 0 THEN m ELSE heard
  BY <1>1, WatchAssumption DEF Handle, IInv, MarkTypes, StreamTypes, Ids
<1>4. UNCHANGED <<posted, online, proc, titled, openGaps, unfilled, fill, starting, todo, turn,
                  copies, repeatOK, cut, dropped, faults>>
  BY DEF Handle, world, replay
<1>5. ~Seen(m) => m > mark
  BY <1>1, <1>3 DEF Seen, Ids
<1>6. ~InGap => shownGap = {}
  BY DEF IInv, Process
<1>7. ASSUME NEW stage \in {"plain", "gap"}, Send(m, stage)
      PROVE  \/ /\ live' = [live EXCEPT ![m] = stage] /\ Joins("live", m)
             \/ /\ live' = [live EXCEPT ![m] = IF stage = "gap" THEN "gapname" ELSE "name"]
                /\ UNCHANGED queue
  <2>1. CASE titled
    <3>1. queue' = Append(queue, [by |-> "live", id |-> m]) /\ live' = [live EXCEPT ![m] = stage]
      BY <1>7, <2>1 DEF Send
    <3>2. StreamTypes
      BY DEF IInv
    <3> HIDE DEF m
    <3>3. Joins("live", m)
      BY <1>1, <3>1, <3>2, QueueGrows DEF Joins
    <3> QED BY <3>1, <3>3
  <2>2. CASE ~titled
    BY <1>7, <2>2 DEF Send
  <2> QED BY <2>1, <2>2
<1>8. UNCHANGED live => live' = [live EXCEPT ![m] = "none"]
  BY <1>1, <1>2, <1>3
<1>9. CASE (Seen(m) \/ (InGap /\ m \in shownGap)) /\ UNCHANGED <<marks, shownGap, live, queue>>
  <2>1. m <= mark \/ m \in shownGap
    BY <1>9 DEF Seen
  <2>2. Handled(m, "none")
    BY <1>1, <1>2, <1>3, <1>4, <1>8, <1>9, <2>1 DEF Handled, marks
  <2> QED BY <1>1, <2>2
<1>10. CASE /\ ~Seen(m) /\ InGap /\ m \notin shownGap /\ shownGap' = shownGap \cup {m}
            /\ Hidden(m) /\ UNCHANGED <<live, queue, marks>>
  <2>1. Handled(m, "none")
    BY <1>1, <1>2, <1>3, <1>4, <1>5, <1>8, <1>10 DEF Handled, marks
  <2> QED BY <1>1, <2>1
<1>11. CASE /\ ~Seen(m) /\ InGap /\ m \notin shownGap /\ shownGap' = shownGap \cup {m}
            /\ Send(m, "gap") /\ UNCHANGED marks
  <2>1. Handled(m, "gap") \/ Handled(m, "gapname")
    BY <1>1, <1>2, <1>3, <1>4, <1>5, <1>7, <1>11 DEF Handled, marks
  <2> QED BY <1>1, <2>1
<1>12. CASE ~Seen(m) /\ ~InGap /\ Hidden(m) /\ PassOver(m) /\ UNCHANGED <<shownGap, live, queue>>
  <2>1. mark' = m /\ saved' \in {saved, m}
    BY <1>3, <1>5, <1>12 DEF PassOver, MaybeSave, Noted, Later
  <2>2. Handled(m, "none")
    BY <1>1, <1>2, <1>3, <1>4, <1>5, <1>8, <1>12, <2>1 DEF Handled
  <2> QED BY <1>1, <2>2
<1>13. CASE ~Seen(m) /\ ~InGap /\ ~Hidden(m) /\ Send(m, "plain") /\ UNCHANGED <<marks, shownGap>>
  <2>1. Handled(m, "plain") \/ Handled(m, "name")
    BY <1>1, <1>2, <1>3, <1>4, <1>5, <1>6, <1>7, <1>13 DEF Handled, marks
  <2> QED BY <1>1, <2>1
<1> QED BY <1>1, <1>9, <1>10, <1>11, <1>12, <1>13 DEF Handle

\* A message arrives, with an update when the listener is connected.
LEMMA PostMoves ==
  ASSUME IInv, Post
  PROVE  /\ posted' = posted + 1 /\ posted' \in Ids /\ posted \in Nat
         /\ UNCHANGED <<online, proc, mark, saved, titled, shownGap, openGaps, unfilled, fill,
                        starting, todo, turn, live, queue, copies, repeatOK, cut, dropped, heard,
                        faults>>
         /\ \/ /\ proc = "up" /\ online
               /\ inbox' \in Seq(Ids) /\ Len(inbox) \in Nat /\ Len(inbox') = Len(inbox) + 1
               /\ \A i \in 1 .. Len(inbox) : inbox'[i] = inbox[i]
               /\ inbox'[Len(inbox) + 1] = posted'
            \/ ~(proc = "up" /\ online) /\ UNCHANGED inbox
<1>1. posted' = posted + 1 /\ posted' \in Ids /\ posted \in Nat
  BY WatchAssumption DEF Post, IInv, WorldTypes, Ids
<1>2. UNCHANGED <<online, proc, mark, saved, titled, shownGap, openGaps, unfilled, fill,
                  starting, todo, turn, live, queue, copies, repeatOK, cut, dropped, heard, faults>>
  BY DEF Post, marks, gap, replay, reader
<1>3. CASE proc = "up" /\ online
  <2>1. PICK m \in Ids : m = posted + 1
    BY <1>1
  <2>2. inbox' = Append(inbox, m)
    BY <1>3, <2>1 DEF Post
  <2> QED BY <1>1, <1>2, <1>3, <2>1, <2>2, InboxGrows DEF IInv
<1>4. CASE ~(proc = "up" /\ online)
  BY <1>1, <1>2, <1>4 DEF Post
<1> QED BY <1>3, <1>4

\* A record reaches the reader.
Emitted(r) ==
  /\ r = queue[1] /\ Leaves
  /\ copies' = [copies EXCEPT ![r.id] = @ + 1]
  /\ \/ /\ r.by = "live" /\ live[r.id] \in {"plain", "gap"}
        /\ live' = [live EXCEPT ![r.id] = IF live[r.id] = "gap" THEN "none" ELSE "written"]
        /\ UNCHANGED fill
     \/ /\ r.by = "replay" /\ UNCHANGED live
        /\ fill' = IF fill = "writing" THEN "written" ELSE fill
        /\ proc = "up" => fill = "writing" /\ turn = r.id
        /\ r.id \in shownGap \/ r.id <= mark
        /\ AtSinkAgain(r.id) /\ ~AtSinkAgain(r.id)'
  /\ UNCHANGED <<posted, online, proc, mark, saved, titled, shownGap, openGaps, unfilled, starting,
                 todo, turn, inbox, repeatOK, cut, dropped, heard, faults>>

LEMMA EmitMoves ==
  ASSUME IInv, Emit
  PROVE  /\ proc \in {"up", "stopping"}
         /\ \E r \in Record : r.by \in {"live", "replay"} /\ r.id \in Ids /\ Emitted(r)
<1>1. queue[1] \in Record /\ Head(queue) = queue[1] /\ Leaves
  BY QueueShrinks DEF Emit, IInv, Leaves
<1>2. PICK r \in Record : r = queue[1]
  BY <1>1
<1>3. r.id \in Ids /\ r.by \in {"live", "replay"}
  BY DEF Record
<1>4. /\ proc \in {"up", "stopping"}
      /\ copies' = [copies EXCEPT ![r.id] = @ + 1]
      /\ UNCHANGED <<posted, online, proc, mark, saved, titled, shownGap, openGaps, unfilled,
                     starting, todo, turn, inbox, repeatOK, cut, dropped, heard, faults>>
  BY <1>1, <1>2 DEF Emit, world, marks, gap, IInv, WorldTypes
<1>5. 1 \in 1 .. Len(queue)
  BY <1>1 DEF Leaves
<1>6. CASE r.by = "live"
  <2>1. live[r.id] \in {"plain", "gap"}
    BY <1>2, <1>5, <1>6 DEF IInv, QueueShape
  <2>2. live' = [live EXCEPT ![r.id] = IF live[r.id] = "gap" THEN "none" ELSE "written"]
        /\ UNCHANGED fill
    BY <1>1, <1>2, <1>3, <1>6 DEF Emit
  <2> QED BY <1>1, <1>2, <1>3, <1>4, <1>6, <2>1, <2>2 DEF Emitted
<1>7. CASE r.by = "replay"
  <2>1. /\ proc = "up" => fill = "writing" /\ turn = r.id
        /\ r.id \in shownGap \/ r.id <= mark
    BY <1>2, <1>5, <1>7 DEF IInv, QueueShape
  <2>2. UNCHANGED live /\ fill' = IF fill = "writing" THEN "written" ELSE fill
    BY <1>1, <1>2, <1>7 DEF Emit
  <2>3. AtSinkAgain(r.id)
    BY <1>2, <1>5, <1>7 DEF AtSinkAgain
  <2>4. ~AtSinkAgain(r.id)'
    <3> SUFFICES ASSUME AtSinkAgain(r.id)' PROVE FALSE
      OBVIOUS
    <3>1. PICK k \in 1 .. Len(queue') : queue'[k].by = "replay" /\ queue'[k].id = r.id
      BY DEF AtSinkAgain
    <3>2. k + 1 \in 1 .. Len(queue) /\ queue'[k] = queue[k + 1] /\ k + 1 # 1 /\ k \in Nat
      BY <1>1 DEF Leaves
    <3>3. queue[k + 1] \in Record
      BY <3>2, Elements DEF IInv
    <3>4. queue[k + 1] = r
      <4>1. PICK q \in Record : q = queue[k + 1]
        BY <3>3
      <4>2. q.by = r.by /\ q.id = r.id
        BY <1>7, <3>1, <3>2, <4>1
      <4>3. q = r
        BY <4>2 DEF Record
      <4> QED BY <4>1, <4>3
    <3>5. k + 1 = 1
      BY <1>2, <1>5, <3>2, <3>4 DEF IInv, QueueShape
    <3> QED BY <3>2, <3>5
  <2> QED BY <1>1, <1>2, <1>3, <1>4, <1>7, <2>1, <2>2, <2>3, <2>4 DEF Emitted
<1> QED BY <1>3, <1>4, <1>6, <1>7

\* The catch-up takes the oldest message it has left.
Replays(m) ==
  /\ proc = "up" /\ fill = "replaying" /\ m \in todo /\ \A i \in todo : m <= i
  /\ todo' = todo \ {m} /\ turn' = m
  /\ \/ /\ m \in shownGap /\ mark' = Later(mark, m)
        /\ UNCHANGED <<saved, shownGap, fill, queue>>
     \/ /\ m \notin shownGap /\ Hidden(m) /\ shownGap' = shownGap \cup {m}
        /\ mark' = Later(mark, m) /\ saved' \in {saved, mark'}
        /\ UNCHANGED <<fill, queue>>
     \/ /\ m \notin shownGap /\ ~Hidden(m) /\ shownGap' = shownGap \cup {m}
        /\ Joins("replay", m) /\ fill' = "writing"
        /\ UNCHANGED <<mark, saved>>
  /\ UNCHANGED <<posted, online, proc, titled, openGaps, unfilled, starting, inbox, live, copies,
                 repeatOK, cut, dropped, heard, faults>>

LEMMA ReplayMoves ==
  ASSUME IInv, NEW m \in Ids, ReplayNext(m)
  PROVE  Replays(m)
<1>1. queue' = Append(queue, [by |-> "replay", id |-> m]) => Joins("replay", m)
  BY QueueGrows DEF IInv, Joins
<1>2. /\ proc = "up" /\ fill = "replaying" /\ m \in todo /\ \A i \in todo : m <= i
      /\ todo' = todo \ {m} /\ turn' = m
      /\ UNCHANGED <<posted, online, proc, titled, openGaps, unfilled, starting, inbox, live,
                     copies, repeatOK, cut, dropped, heard, faults>>
  BY DEF ReplayNext, world, reader
<1>3. CASE m \in shownGap
  BY <1>2, <1>3 DEF ReplayNext, Replays, Noted
<1>4. CASE m \notin shownGap /\ Hidden(m)
  BY <1>2, <1>4 DEF ReplayNext, Replays, Noted, PassOver, MaybeSave
<1>5. CASE m \notin shownGap /\ ~Hidden(m)
  BY <1>1, <1>2, <1>5 DEF ReplayNext, Replays, marks
<1> QED BY <1>3, <1>4, <1>5

\* The newest of a set of messages.
LEMMA NewestIs ==
  ASSUME NEW S \in SUBSET Ids, S # {}
  PROVE  Newest(S) \in S /\ \A j \in S : j <= Newest(S)
<1> DEFINE D == {MaxMsg - i : i \in S}
<1>1. MaxMsg \in Nat /\ \A i \in S : i \in 1 .. MaxMsg
  BY WatchAssumption DEF Ids
<1>2. D \in SUBSET Nat /\ D # {}
  BY <1>1
<1>3. PICK d \in D : \A e \in D : ~(<<e, d>> \in OpToRel(<, Nat))
  BY <1>2, WFMin, NatLessThanWellFounded
<1>4. PICK i \in S : d = MaxMsg - i
  OBVIOUS
<1>5. ASSUME NEW j \in S PROVE j <= i
  <2>1. MaxMsg - j \in D /\ MaxMsg - j \in Nat /\ d \in Nat
    BY <1>1, <1>2
  <2>2. ~(MaxMsg - j < d)
    BY <1>3, <2>1 DEF OpToRel
  <2> QED BY <1>1, <1>4, <2>2
<1> QED BY <1>4, <1>5 DEF Newest

\* A catch-up ends; with the last one the marks move over what was shown.
Done ==
  /\ proc = "up" /\ fill = "replaying" /\ todo = {} /\ fill' = "none" /\ turn' = 0
  /\ starting' = FALSE /\ unfilled' = FALSE
  /\ openGaps \in Nat \ {0} /\ openGaps' = openGaps - 1
  /\ \/ openGaps # 1 /\ UNCHANGED <<mark, saved, shownGap>>
     \/ openGaps = 1 /\ shownGap = {} /\ UNCHANGED <<mark, saved, shownGap>>
     \/ /\ openGaps = 1 /\ shownGap' = {}
        /\ \E n \in shownGap : (\A i \in shownGap : i <= n) /\ mark' = Later(mark, n)
        /\ saved' \in {saved, mark'}
  /\ UNCHANGED <<posted, online, proc, titled, todo, inbox, live, queue, copies, repeatOK, cut,
                 dropped, heard, faults>>

LEMMA DoneMoves == IInv /\ FillDone => Done
<1> SUFFICES ASSUME IInv, FillDone PROVE Done
  OBVIOUS
<1>1. openGaps \in Nat \ {0} /\ openGaps' = openGaps - 1
  BY DEF IInv, GapTypes, Process, FillDone
<1>2. /\ proc = "up" /\ fill = "replaying" /\ todo = {} /\ fill' = "none" /\ turn' = 0
      /\ starting' = FALSE /\ unfilled' = FALSE
      /\ UNCHANGED <<posted, online, proc, titled, todo, inbox, live, queue, copies, repeatOK, cut,
                     dropped, heard, faults>>
  BY DEF FillDone, world, reader
<1>3. CASE openGaps # 1
  BY <1>1, <1>2, <1>3 DEF Done, FillDone, marks
<1>4. CASE openGaps = 1 /\ shownGap = {}
  BY <1>1, <1>2, <1>4 DEF Done, FillDone, CloseGaps, marks
<1>5. CASE openGaps = 1 /\ shownGap # {}
  <2>1. Newest(shownGap) \in shownGap /\ \A j \in shownGap : j <= Newest(shownGap)
    BY <1>5, NewestIs DEF IInv, GapTypes
  <2>2. PICK n \in shownGap : n = Newest(shownGap)
    BY <2>1
  <2>3. mark' = Later(mark, n) /\ saved' \in {saved, mark'} /\ shownGap' = {}
    BY <1>5, <2>2 DEF FillDone, CloseGaps, PassOver, MaybeSave, Noted
  <2> QED BY <1>1, <1>2, <1>5, <2>1, <2>2, <2>3 DEF Done
<1> QED BY <1>3, <1>4, <1>5

\* A stop may take the record of the catch-up from the queue, and nothing else.
Thinned ==
  /\ queue' \in Seq(Record) /\ Len(queue') \in Nat /\ Len(queue) \in Nat
  /\ \A j \in Ids : AtSinkAgain(j)' => AtSinkAgain(j)
  /\ \E f \in [1 .. Len(queue') -> 1 .. Len(queue)] :
       /\ \A i, j \in 1 .. Len(queue') : f[i] = f[j] => i = j
       /\ \A i \in 1 .. Len(queue') : queue'[i] = queue[f[i]]

LEMMA StopMoves == IInv /\ Stop => Thinned
<1> SUFFICES ASSUME IInv, Stop PROVE Thinned
  OBVIOUS
<1>1. Len(queue) \in Nat /\ queue \in Seq(Record)
  BY Elements DEF IInv
<1>2. CASE UNCHANGED queue
  <2> DEFINE f == [i \in 1 .. Len(queue) |-> i]
  <2>1. f \in [1 .. Len(queue') -> 1 .. Len(queue)]
    BY <1>2
  <2>2. \A i \in 1 .. Len(queue) : f[i] = i
    OBVIOUS
  <2> HIDE DEF f
  <2>3. \A j \in Ids : AtSinkAgain(j)' => AtSinkAgain(j)
    BY <1>2 DEF AtSinkAgain
  <2> QED BY <1>1, <1>2, <2>1, <2>2, <2>3 DEF Thinned
<1>3. CASE \E k \in 1 .. Len(queue) : queue' = Without(k)
  <2>1. PICK k \in 1 .. Len(queue) : queue' = Without(k)
    BY <1>3
  <2>2. /\ queue' \in Seq(Record) /\ Len(queue') = Len(queue) - 1
        /\ \A i \in 1 .. Len(queue) - 1 :
             queue'[i] = IF i < k THEN queue[i] ELSE queue[i + 1]
    BY <2>1, QueueLoses DEF IInv
  <2> DEFINE f == [i \in 1 .. Len(queue') |-> IF i < k THEN i ELSE i + 1]
  <2>3. f \in [1 .. Len(queue') -> 1 .. Len(queue)]
    BY <1>1, <2>2
  <2>4. \A i \in 1 .. Len(queue') : f[i] = IF i < k THEN i ELSE i + 1
    OBVIOUS
  <2> HIDE DEF f
  <2>5. \A i \in 1 .. Len(queue') : queue'[i] = queue[f[i]]
    BY <1>1, <2>2, <2>4
  <2>6. \A i, j \in 1 .. Len(queue') : f[i] = f[j] => i = j
    BY <1>1, <2>2, <2>4
  <2>7. \A j \in Ids : AtSinkAgain(j)' => AtSinkAgain(j)
    BY <2>3, <2>5 DEF AtSinkAgain
  <2>8. Len(queue') \in Nat
    BY <1>1, <2>2
  <2> QED BY <1>1, <2>2, <2>3, <2>5, <2>6, <2>7, <2>8 DEF Thinned
<1> QED BY <1>2, <1>3 DEF Stop

\* While the last gap is filled the frontier stays where it is in every step
\* that neither receives nor begins to handle anything.
LEMMA FillingStays ==
  ASSUME IInv, FillingUp, proc' = proc, openGaps' = openGaps, fill \in {"replaying", "writing", "written"},
         UNCHANGED <<posted, inbox>>, online' => online,
         mark <= mark', mark' \in Nat,
         mark' = mark \/ mark' \in shownGap \cup todo \/ \E m \in Ids : m = mark' /\ live[m] # "none",
         \A j \in Ids : j \in shownGap' \cup todo' <=> j \in shownGap \cup todo,
         \A j \in Ids : live'[j] # "none" => live[j] # "none",
         HasMark => \A j \in Ids : Settled(j) => Settled(j)',
         HasMark => \A j \in Ids : j \in todo \/ Turned(j) => j \in todo' \/ Settled(j)' \/ Turned(j)'
  PROVE  FillingUp'
<1> SUFFICES ASSUME HasMark, proc' = "up", openGaps' = 1
             PROVE  \E h, r \in 0 .. MaxMsg :
                      /\ Frontier(h, r)'
                      /\ \A j \in Ids : j <= h => (j \in todo \/ Settled(j) \/ Turned(j))'
                      /\ h <= mark' \/ h \in (shownGap \cup todo)'
  BY DEF FillingUp
<1>1. PICK h \in 0 .. MaxMsg, r \in 0 .. MaxMsg :
        /\ Frontier(h, r)
        /\ \A j \in Ids : j <= h => j \in todo \/ Settled(j) \/ Turned(j)
        /\ h <= mark \/ h \in shownGap \cup todo
  BY DEF FillingUp, Asked
<1>2. /\ h \in Nat /\ mark \in Nat /\ \A j \in Ids : j \in Nat
      /\ shownGap \subseteq Ids /\ todo \subseteq Ids
  BY WatchAssumption DEF IInv, MarkTypes, GapTypes, FillTypes, Ids
<1>3. Frontier(h, r)'
  <2>1. mark' <= h
    BY <1>1, <1>2 DEF Frontier
  <2>2. \A m \in Ids : m \in shownGap' \cup todo' \/ live'[m] # "none" => m <= h
    BY <1>1 DEF Frontier
  <2> QED BY <1>1, <2>1, <2>2 DEF Frontier
<1>4. \A j \in Ids : j <= h => (j \in todo \/ Settled(j) \/ Turned(j))'
  BY <1>1
<1>5. h <= mark' \/ h \in (shownGap \cup todo)'
  <2>1. CASE h <= mark
    BY <1>2, <2>1
  <2>2. CASE h \in shownGap \cup todo
    BY <1>2, <2>2
  <2> QED BY <1>1, <2>1, <2>2
<1> QED BY <1>3, <1>4, <1>5

\* Outside any gap likewise.
LEMMA FollowingStays ==
  ASSUME IInv, Following, proc' = proc, UNCHANGED <<openGaps, unfilled>>,
         UNCHANGED <<posted, inbox>>, online' => online,
         mark <= mark', mark' \in Nat,
         mark' = mark \/ \E m \in Ids : m = mark' /\ live[m] # "none",
         UNCHANGED <<shownGap, todo>>,
         \A j \in Ids : live'[j] # "none" => live[j] # "none",
         \A j \in Ids : Plain(j) => Plain(j)' \/ j <= mark',
         HasMark => \A j \in Ids : Settled(j) => Settled(j)'
  PROVE  Following'
<1> SUFFICES ASSUME HasMark, proc' = "up", ~InGap'
             PROVE  \E h, r \in 0 .. MaxMsg :
                      /\ Frontier(h, r)'
                      /\ \A j \in Ids : j <= h => Settled(j)'
                      /\ h <= mark' \/ (h \in Ids /\ Plain(h)')
                      /\ \A i \in 1 .. Len(inbox') : inbox'[i] <= mark' \/ inbox'[i] > h
  BY DEF Following
<1>1. PICK h \in 0 .. MaxMsg, r \in 0 .. MaxMsg :
        /\ Frontier(h, r)
        /\ \A j \in Ids : j <= h => Settled(j)
        /\ h <= mark \/ (h \in Ids /\ Plain(h))
        /\ \A i \in 1 .. Len(inbox) : inbox[i] <= mark \/ inbox[i] > h
  BY DEF Following, InGap
<1>2. h \in Nat /\ mark \in Nat /\ \A j \in Ids : j \in Nat
  BY WatchAssumption DEF IInv, MarkTypes, Ids
<1>3. \A i \in 1 .. Len(inbox) : inbox[i] \in Nat
  BY <1>2, Elements DEF IInv
<1>4. Frontier(h, r)'
  <2>1. mark' <= h
    BY <1>1, <1>2 DEF Frontier
  <2> QED BY <1>1, <2>1 DEF Frontier
<1>5. h <= mark' \/ (h \in Ids /\ Plain(h)')
  BY <1>1, <1>2
<1>6. \A i \in 1 .. Len(inbox') : inbox'[i] <= mark' \/ inbox'[i] > h
  BY <1>1, <1>2, <1>3
<1> QED BY <1>1, <1>4, <1>5, <1>6

-----------------------------------------------------------------------------
(* The other steps: what each of them disturbs.                            *)

LEMMA PostStep ==
  ASSUME IInv, Post
  PROVE  IInv'
<1>1. MarkTypes' /\ GapTypes' /\ FillTypes' /\ ReaderTypes' /\ QueueShape' /\ HandlersOfGaps' /\ Known' /\ OneWay' /\ WrittenIsGiven' /\ MarkCovers' /\ PlainCovers' /\ ShownIsSettled' /\ Replayed'
  BY Kept DEF IInv, Post, marks, gap, replay, reader
<1>2. WorldTypes'
  BY WatchAssumption DEF IInv, Post, WorldTypes
<1>3. StreamTypes'
  BY PostMoves DEF IInv, StreamTypes
<1>4. Posted'
  BY WatchAssumption DEF IInv, Post, marks, gap, replay, reader, Posted,
     Ids, WorldTypes, MarkTypes, GapTypes
<1>5. Process'
  BY DEF IInv, Post, marks, gap, replay, Process, InGap
<1>6. InboxOrder'
  <2>1. Len(inbox) \in Nat
    BY Elements DEF IInv
  <2>2. posted' = posted + 1 /\ posted' \in Ids /\ posted \in Nat /\ UNCHANGED live
    BY PostMoves
  <2>3. live[posted'] = "none"
    BY <2>2 DEF IInv, Posted
  <2>4. CASE UNCHANGED inbox
    <3>1. \A i \in 1 .. Len(inbox) : inbox[i] \in Nat
      BY WatchAssumption, Elements DEF IInv, Ids
    <3> QED BY <2>2, <2>4, <3>1 DEF IInv, InboxOrder
  <2>5. CASE /\ Len(inbox') = Len(inbox) + 1 /\ \A i \in 1 .. Len(inbox) : inbox'[i] = inbox[i]
             /\ inbox'[Len(inbox) + 1] = posted'
    <3>1. \A i \in 1 .. Len(inbox) : inbox[i] \in Nat
      BY WatchAssumption, Elements DEF IInv, Ids
    <3>2. \A i \in 1 .. Len(inbox') : i \in 1 .. Len(inbox) \/ i = Len(inbox) + 1
      BY <2>1, <2>5
    <3>3. \A i \in 1 .. Len(inbox') : inbox'[i] <= posted' /\ live'[inbox'[i]] = "none"
      BY <2>2, <2>3, <2>5, <3>1, <3>2 DEF IInv, InboxOrder
    <3>4. \A i, j \in 1 .. Len(inbox') : i < j => inbox'[i] < inbox'[j]
      <4> SUFFICES ASSUME NEW i \in 1 .. Len(inbox'), NEW j \in 1 .. Len(inbox'), i < j
                   PROVE  inbox'[i] < inbox'[j]
        OBVIOUS
      <4>1. i \in 1 .. Len(inbox)
        BY <2>1, <2>5
      <4>2. inbox'[i] = inbox[i] /\ inbox[i] <= posted /\ inbox[i] \in Nat
        BY <2>5, <3>1, <4>1 DEF IInv, InboxOrder
      <4>3. CASE j \in 1 .. Len(inbox)
        BY <2>5, <4>1, <4>2, <4>3 DEF IInv, InboxOrder
      <4>4. CASE j = Len(inbox) + 1
        BY <2>2, <2>5, <4>2, <4>4
      <4> QED BY <3>2, <4>3, <4>4
    <3> QED BY <3>3, <3>4 DEF InboxOrder
  <2> QED BY <2>4, <2>5, PostMoves
<1>7. FillingUp'
  <2> SUFFICES ASSUME HasMark, proc' = "up", Asked', openGaps' = 1
               PROVE  \E h, r \in 0 .. MaxMsg :
                        /\ Frontier(h, r)'
                        /\ \A j \in Ids : j <= h => (j \in todo \/ Settled(j) \/ Turned(j))'
                        /\ h <= mark' \/ h \in (shownGap \cup todo)'
    BY DEF FillingUp
  <2>1. PICK q \in Ids : q = posted' /\ q = posted + 1
    BY PostMoves
  <2>2. posted \in Nat /\ q \in 0 .. MaxMsg
    BY WatchAssumption, PostMoves DEF Ids
  <2>3. PICK h \in 0 .. MaxMsg, r \in 0 .. MaxMsg :
          /\ Frontier(h, r)
          /\ \A j \in Ids : j <= h => j \in todo \/ Settled(j) \/ Turned(j)
          /\ h <= mark \/ h \in shownGap \cup todo
    BY PostMoves DEF IInv, FillingUp, Asked
  <2>4. Frontier(h, r)' \/ Frontier(h, q)'
    <3>1. q \in Nat /\ h \in Nat /\ r \in Nat /\ r <= posted /\ (online => r = posted) /\ mark <= h
          /\ mark \in Nat /\ \A m \in Ids : m \in Nat
      BY WatchAssumption, <2>1, <2>2, <2>3 DEF Frontier, IInv, MarkTypes, Ids
    <3>2. UNCHANGED <<online, mark, shownGap, todo, live>>
      BY PostMoves
    <3>3. CASE UNCHANGED inbox /\ ~online
      BY <2>1, <2>2, <2>3, <3>1, <3>2, <3>3 DEF Frontier
    <3>4. CASE online /\ Len(inbox) \in Nat /\ Len(inbox') = Len(inbox) + 1
               /\ (\A i \in 1 .. Len(inbox) : inbox'[i] = inbox[i]) /\ inbox'[Len(inbox) + 1] = q
      <4>1. \A j \in Ids : h < j /\ j <= q => \E i \in 1 .. Len(inbox') : inbox'[i] = j
        <5> SUFFICES ASSUME NEW j \in Ids, h < j, j <= q
                     PROVE  \E i \in 1 .. Len(inbox') : inbox'[i] = j
          OBVIOUS
        <5>1. CASE j = q
          BY <3>4, <5>1
        <5>2. CASE j # q
          <6>1. j <= r
            BY <2>1, <3>1, <3>4, <5>2
          <6>2. PICK i \in 1 .. Len(inbox) : inbox[i] = j
            BY <2>3, <6>1 DEF Frontier
          <6> QED BY <3>4, <6>2
        <5> QED BY <5>1, <5>2
      <4>2. \A i \in 1 .. Len(inbox') : inbox'[i] <= q
        <5>1. \A i \in 1 .. Len(inbox') : i \in 1 .. Len(inbox) \/ i = Len(inbox) + 1
          BY <3>4
        <5>2. \A i \in 1 .. Len(inbox) : inbox[i] <= r /\ inbox[i] \in Nat
          BY WatchAssumption, <2>3, Elements DEF IInv, Frontier, Ids
        <5> QED BY <2>1, <3>1, <3>4, <5>1, <5>2
      <4> QED BY <2>1, <2>3, <3>1, <3>2, <3>4, <4>1, <4>2 DEF Frontier
    <3> QED BY <2>1, <3>1, <3>2, <3>3, <3>4, PostMoves
  <2>5. \A j \in Ids : j <= h => (j \in todo \/ Settled(j) \/ Turned(j))'
    BY <2>3, PostMoves, QuietSettles DEF Turned
  <2>6. h <= mark' \/ h \in (shownGap \cup todo)'
    BY <2>3, PostMoves
  <2> QED BY <2>2, <2>4, <2>5, <2>6
<1>8. Following'
  <2> SUFFICES ASSUME HasMark, proc' = "up", ~InGap'
               PROVE  \E h, r \in 0 .. MaxMsg :
                        /\ Frontier(h, r)'
                        /\ \A j \in Ids : j <= h => Settled(j)'
                        /\ h <= mark' \/ (h \in Ids /\ Plain(h)')
                        /\ \A i \in 1 .. Len(inbox') : inbox'[i] <= mark' \/ inbox'[i] > h
    BY DEF Following
  <2>1. PICK q \in Ids : q = posted' /\ q = posted + 1
    BY PostMoves
  <2>2. posted \in Nat /\ q \in 0 .. MaxMsg
    BY WatchAssumption, PostMoves DEF Ids
  <2>3. PICK h \in 0 .. MaxMsg, r \in 0 .. MaxMsg :
          /\ Frontier(h, r)
          /\ \A j \in Ids : j <= h => Settled(j)
          /\ h <= mark \/ (h \in Ids /\ Plain(h))
          /\ \A i \in 1 .. Len(inbox) : inbox[i] <= mark \/ inbox[i] > h
    BY PostMoves DEF IInv, Following, InGap
  <2>4. Frontier(h, r)' \/ Frontier(h, q)'
    <3>1. q \in Nat /\ h \in Nat /\ r \in Nat /\ r <= posted /\ (online => r = posted) /\ mark <= h
          /\ mark \in Nat /\ \A m \in Ids : m \in Nat
      BY WatchAssumption, <2>1, <2>2, <2>3 DEF Frontier, IInv, MarkTypes, Ids
    <3>2. UNCHANGED <<online, mark, shownGap, todo, live>>
      BY PostMoves
    <3>3. CASE UNCHANGED inbox /\ ~online
      BY <2>1, <2>2, <2>3, <3>1, <3>2, <3>3 DEF Frontier
    <3>4. CASE online /\ Len(inbox) \in Nat /\ Len(inbox') = Len(inbox) + 1
               /\ (\A i \in 1 .. Len(inbox) : inbox'[i] = inbox[i]) /\ inbox'[Len(inbox) + 1] = q
      <4>1. \A j \in Ids : h < j /\ j <= q => \E i \in 1 .. Len(inbox') : inbox'[i] = j
        <5> SUFFICES ASSUME NEW j \in Ids, h < j, j <= q
                     PROVE  \E i \in 1 .. Len(inbox') : inbox'[i] = j
          OBVIOUS
        <5>1. CASE j = q
          BY <3>4, <5>1
        <5>2. CASE j # q
          <6>1. j <= r
            BY <2>1, <3>1, <3>4, <5>2
          <6>2. PICK i \in 1 .. Len(inbox) : inbox[i] = j
            BY <2>3, <6>1 DEF Frontier
          <6> QED BY <3>4, <6>2
        <5> QED BY <5>1, <5>2
      <4>2. \A i \in 1 .. Len(inbox') : inbox'[i] <= q
        <5>1. \A i \in 1 .. Len(inbox') : i \in 1 .. Len(inbox) \/ i = Len(inbox) + 1
          BY <3>4
        <5>2. \A i \in 1 .. Len(inbox) : inbox[i] <= r /\ inbox[i] \in Nat
          BY WatchAssumption, <2>3, Elements DEF IInv, Frontier, Ids
        <5> QED BY <2>1, <3>1, <3>4, <5>1, <5>2
      <4> QED BY <2>1, <2>3, <3>1, <3>2, <3>4, <4>1, <4>2 DEF Frontier
    <3> QED BY <2>1, <3>1, <3>2, <3>3, <3>4, PostMoves
  <2>5. \A j \in Ids : j <= h => Settled(j)'
    BY <2>3, PostMoves, QuietSettles
  <2>6. h <= mark' \/ (h \in Ids /\ Plain(h)')
    BY <2>3, PostMoves DEF Plain
  <2>7. \A i \in 1 .. Len(inbox') : inbox'[i] <= mark' \/ inbox'[i] > h
    <3>1. CASE UNCHANGED inbox
      BY <2>3, <3>1, PostMoves
    <3>2. CASE /\ Len(inbox) \in Nat /\ Len(inbox') = Len(inbox) + 1 /\ inbox'[Len(inbox) + 1] = q
               /\ \A i \in 1 .. Len(inbox) : inbox'[i] = inbox[i]
      <4>1. \A i \in 1 .. Len(inbox') : i \in 1 .. Len(inbox) \/ i = Len(inbox) + 1
        BY <3>2
      <4>2. q > h
        BY <2>1, <2>2, <2>3 DEF Frontier
      <4> QED BY <2>3, <3>2, <4>1, <4>2, PostMoves
    <3> QED BY <2>1, <3>1, <3>2, PostMoves
  <2> QED BY <2>2, <2>4, <2>5, <2>6, <2>7
<1> QED BY <1>1, <1>2, <1>3, <1>4, <1>5, <1>6, <1>7, <1>8 DEF IInv

LEMMA DisconnectStep ==
  ASSUME IInv, Disconnect
  PROVE  IInv'
<1>1. MarkTypes' /\ GapTypes' /\ FillTypes' /\ StreamTypes' /\ ReaderTypes' /\ Posted' /\ Process' /\ InboxOrder' /\ QueueShape' /\ HandlersOfGaps' /\ Known' /\ OneWay' /\ WrittenIsGiven' /\ MarkCovers' /\ PlainCovers' /\ ShownIsSettled' /\ Replayed'
  BY Kept DEF IInv, Disconnect, marks, gap, replay, reader
<1>2. WorldTypes'
  <2>1. faults' \in Nat
    BY DEF IInv, WorldTypes, Disconnect, Disturb
  <2>2. UNCHANGED <<posted, proc, titled>> /\ online' = FALSE
    BY DEF Disconnect
  <2> QED BY <2>1, <2>2 DEF IInv, WorldTypes
<1>3. FillingUp'
  <2>1. /\ proc' = proc /\ online /\ online' = FALSE
        /\ UNCHANGED <<posted, mark, shownGap, openGaps, unfilled, fill, todo, turn, inbox, live,
                       copies, cut, dropped, heard>>
    BY DEF Disconnect, marks, gap, replay, reader
  <2>2. mark \in Nat
    BY DEF IInv, MarkTypes

  <2>3. CASE Asked
    <3>1. FillingUp /\ IInv
      BY DEF IInv
    <3> QED BY <2>1, <2>2, <2>3, <3>1, QuietSettles, FillingStays DEF Asked, Turned
  <2>4. CASE ~Asked
    BY <2>1, <2>4 DEF FillingUp, Asked
  <2> QED BY <2>3, <2>4
<1>4. Following'
  <2>1. /\ proc' = proc /\ online /\ online' = FALSE
        /\ UNCHANGED <<posted, mark, shownGap, openGaps, unfilled, fill, todo, turn, inbox, live,
                       copies, cut, dropped, heard>>
    BY DEF Disconnect, marks, gap, replay, reader
  <2>2. mark \in Nat
    BY DEF IInv, MarkTypes

  <2>3. Following /\ IInv
    BY DEF IInv
  <2> QED BY <2>1, <2>2, <2>3, QuietSettles, FollowingStays DEF Plain
<1> QED BY <1>1, <1>2, <1>3, <1>4 DEF IInv

LEMMA ReconnectStep ==
  ASSUME IInv, Reconnect
  PROVE  IInv'
<1> USE DEF IInv, Reconnect, OpenGap, marks, replay, InFlight
<1>1. MarkTypes' /\ FillTypes' /\ StreamTypes' /\ Posted' /\ InboxOrder' /\ QueueShape' /\ WrittenIsGiven' /\ MarkCovers' /\ PlainCovers' /\ ShownIsSettled' /\ Replayed'
  BY Kept
<1>2. WorldTypes'
  BY DEF WorldTypes
<1>3. GapTypes'
  BY DEF GapTypes
<1>4. ReaderTypes'
  BY DEF ReaderTypes
<1>5. Process'
  BY DEF Process, InGap, GapTypes
<1>6. HandlersOfGaps'
  BY DEF HandlersOfGaps, Plain
<1>7. Known'
  BY DEF Known, Asked
<1>8. OneWay'
  BY DEF OneWay, Pending, AtSinkAgain
<1>9. FillingUp'
  BY DEF FillingUp, Asked, GapTypes, Process
<1>10. Following'
  BY DEF Following, InGap, GapTypes
<1> QED BY <1>1, <1>2, <1>3, <1>4, <1>5, <1>6, <1>7, <1>8, <1>9, <1>10

LEMMA HandleStep ==
  ASSUME IInv, Handle
  PROVE  IInv'
<1>1. WorldTypes' /\ FillTypes' /\ ReaderTypes'
  BY Kept DEF IInv, Handle, world, replay
<1>2. MarkTypes'
  <2>1. proc = "up" /\ \E m \in Ids, s \in {"none", "name", "gapname", "plain", "gap"} : Handled(m, s)
    BY HandleMoves
  <2>2. PICK m \in Ids, s \in {"none", "name", "gapname", "plain", "gap"} : Handled(m, s)
    BY <2>1
  <2>3. \A j \in Ids : live'[j] = IF j = m THEN s ELSE live[j]
    BY <2>2 DEF Handled, IInv, StreamTypes
  <2>4. m \in Nat /\ mark \in Nat /\ (mark' = mark \/ (mark' = m /\ m > mark)) /\ \A j \in Ids : j \in Nat
    BY <2>2, WatchAssumption DEF Handled, IInv, MarkTypes, Ids
  <2>5. m \in 0 .. MaxMsg
    BY WatchAssumption DEF Ids
  <2> QED BY <2>2, <2>4, <2>5 DEF Handled, IInv, MarkTypes
<1>3. GapTypes'
  <2>1. proc = "up" /\ \E m \in Ids, s \in {"none", "name", "gapname", "plain", "gap"} : Handled(m, s)
    BY HandleMoves
  <2>2. PICK m \in Ids, s \in {"none", "name", "gapname", "plain", "gap"} : Handled(m, s)
    BY <2>1
  <2>3. \A j \in Ids : live'[j] = IF j = m THEN s ELSE live[j]
    BY <2>2 DEF Handled, IInv, StreamTypes
  <2>4. m \in Nat /\ mark \in Nat /\ (mark' = mark \/ (mark' = m /\ m > mark)) /\ \A j \in Ids : j \in Nat
    BY <2>2, WatchAssumption DEF Handled, IInv, MarkTypes, Ids
  <2> QED BY <2>2 DEF Handled, IInv, GapTypes
<1>4. StreamTypes'
  <2>1. proc = "up" /\ \E m \in Ids, s \in {"none", "name", "gapname", "plain", "gap"} : Handled(m, s)
    BY HandleMoves
  <2>2. PICK m \in Ids, s \in {"none", "name", "gapname", "plain", "gap"} : Handled(m, s)
    BY <2>1
  <2>3. \A j \in Ids : live'[j] = IF j = m THEN s ELSE live[j]
    BY <2>2 DEF Handled, IInv, StreamTypes
  <2>4. m \in Nat /\ mark \in Nat /\ (mark' = mark \/ (mark' = m /\ m > mark)) /\ \A j \in Ids : j \in Nat
    BY <2>2, WatchAssumption DEF Handled, IInv, MarkTypes, Ids
  <2>5. live' \in [Ids -> {"none", "name", "gapname", "plain", "gap", "written"}]
    BY <2>2 DEF Handled, IInv, StreamTypes
  <2>6. queue' \in Seq(Record) /\ inbox' \in Seq(Ids)
    BY <2>2, Elements DEF Handled, Joins, IInv
  <2> QED BY <2>5, <2>6 DEF StreamTypes, Record
<1>5. Posted'
  <2>1. proc = "up" /\ \E m \in Ids, s \in {"none", "name", "gapname", "plain", "gap"} : Handled(m, s)
    BY HandleMoves
  <2>2. PICK m \in Ids, s \in {"none", "name", "gapname", "plain", "gap"} : Handled(m, s)
    BY <2>1
  <2>3. \A j \in Ids : live'[j] = IF j = m THEN s ELSE live[j]
    BY <2>2 DEF Handled, IInv, StreamTypes
  <2>4. m \in Nat /\ mark \in Nat /\ (mark' = mark \/ (mark' = m /\ m > mark)) /\ \A j \in Ids : j \in Nat
    BY <2>2, WatchAssumption DEF Handled, IInv, MarkTypes, Ids
  <2> QED BY <2>2, <2>3, <2>4 DEF Handled, IInv, Posted, MarkTypes
<1>6. Process'
  BY DEF IInv, Handle, InGap, replay, Process
<1>7. InboxOrder'
  <2>1. proc = "up" /\ \E m \in Ids, s \in {"none", "name", "gapname", "plain", "gap"} : Handled(m, s)
    BY HandleMoves
  <2>2. PICK m \in Ids, s \in {"none", "name", "gapname", "plain", "gap"} : Handled(m, s)
    BY <2>1
  <2>3. \A j \in Ids : live'[j] = IF j = m THEN s ELSE live[j]
    BY <2>2 DEF Handled, IInv, StreamTypes
  <2>4. m \in Nat /\ mark \in Nat /\ (mark' = mark \/ (mark' = m /\ m > mark)) /\ \A j \in Ids : j \in Nat
    BY <2>2, WatchAssumption DEF Handled, IInv, MarkTypes, Ids
  <2>5. /\ Len(inbox) \in Nat \ {0} /\ Len(inbox') = Len(inbox) - 1 /\ m = inbox[1] /\ posted' = posted
        /\ \A i \in 1 .. Len(inbox) - 1 : inbox'[i] = inbox[i + 1]
    BY <2>2 DEF Handled
  <2>6. \A i \in 1 .. Len(inbox) - 1 : i + 1 \in 1 .. Len(inbox) /\ 1 < i + 1 /\ 1 \in 1 .. Len(inbox)
    BY <2>5
  <2>7. \A i \in 1 .. Len(inbox) : inbox[i] \in Ids
    BY Elements DEF IInv
  <2>8. \A i \in 1 .. Len(inbox') : inbox'[i] <= posted' /\ inbox'[i] > m /\ inbox'[i] \in Ids
    BY <2>4, <2>5, <2>6, <2>7 DEF IInv, InboxOrder
  <2>9. \A i \in 1 .. Len(inbox') : live'[inbox'[i]] = "none"
    <3> SUFFICES ASSUME NEW i \in 1 .. Len(inbox') PROVE live'[inbox'[i]] = "none"
      OBVIOUS
    <3>1. PICK q \in Ids : q = inbox'[i]
      BY <2>8
    <3>2. q > m /\ q = inbox[i + 1] /\ i + 1 \in 1 .. Len(inbox)
      BY <2>5, <2>6, <2>8, <3>1
    <3>3. live[q] = "none" /\ q # m
      BY <2>4, <3>2 DEF IInv, InboxOrder
    <3> QED BY <2>3, <3>1, <3>3
  <2>10. \A i, j \in 1 .. Len(inbox') : i < j => inbox'[i] < inbox'[j]
    BY <2>5, <2>6 DEF IInv, InboxOrder
  <2> QED BY <2>8, <2>9, <2>10 DEF InboxOrder
<1>8. QueueShape'
  <2>1. proc = "up" /\ \E m \in Ids, s \in {"none", "name", "gapname", "plain", "gap"} : Handled(m, s)
    BY HandleMoves
  <2>2. PICK m \in Ids, s \in {"none", "name", "gapname", "plain", "gap"} : Handled(m, s)
    BY <2>1
  <2>3. \A j \in Ids : live'[j] = IF j = m THEN s ELSE live[j]
    BY <2>2 DEF Handled, IInv, StreamTypes
  <2>4. m \in Nat /\ mark \in Nat /\ (mark' = mark \/ (mark' = m /\ m > mark)) /\ \A j \in Ids : j \in Nat
    BY <2>2, WatchAssumption DEF Handled, IInv, MarkTypes, Ids
  <2>5. /\ live[m] = "none" /\ UNCHANGED <<proc, fill, turn>>
        /\ \A j \in Ids : j \in shownGap \/ j <= mark => j \in shownGap' \/ j <= mark'
    BY <2>2, <2>4 DEF Handled
  <2>6. /\ Len(queue) \in Nat
        /\ \A i \in 1 .. Len(queue) : queue[i].id \in Ids /\ queue[i].by \in {"live", "replay"}
    BY Elements DEF IInv, Record
  <2>7. \A i \in 1 .. Len(queue) :
          IF queue[i].by = "live" THEN queue[i].id # m /\ live'[queue[i].id] \in {"plain", "gap"}
          ELSE /\ proc' # "stopping" => fill' = "writing" /\ queue[i].id = turn'
               /\ queue[i].id \in shownGap' \/ queue[i].id <= mark'
    BY <2>3, <2>5, <2>6 DEF IInv, QueueShape
  <2>8. CASE s \in {"plain", "gap"} /\ Joins("live", m)
    <3>1. \A i \in 1 .. Len(queue') : i \in 1 .. Len(queue) \/ i = Len(queue) + 1
      BY <2>8 DEF Joins
    <3>2. queue'[Len(queue) + 1].by = "live" /\ queue'[Len(queue) + 1].id = m
      BY <2>8 DEF Joins
    <3>3. \A i \in 1 .. Len(queue) : queue'[i] = queue[i]
      BY <2>8 DEF Joins
    <3>4. \A i \in 1 .. Len(queue) : queue'[i] # queue'[Len(queue) + 1]
      BY <2>7, <3>2, <3>3
    <3>5. \A i, j \in 1 .. Len(queue') : queue'[i] = queue'[j] => i = j
      BY <3>1, <3>3, <3>4 DEF IInv, QueueShape
    <3>6. live'[m] \in {"plain", "gap"}
      BY <2>3, <2>8
    <3> QED BY <2>7, <3>1, <3>2, <3>3, <3>5, <3>6 DEF QueueShape
  <2>9. CASE UNCHANGED queue
    BY <2>7, <2>9 DEF IInv, QueueShape
  <2> QED BY <2>2, <2>8, <2>9 DEF Handled
<1>9. HandlersOfGaps'
  <2>1. proc = "up" /\ \E m \in Ids, s \in {"none", "name", "gapname", "plain", "gap"} : Handled(m, s)
    BY HandleMoves
  <2>2. PICK m \in Ids, s \in {"none", "name", "gapname", "plain", "gap"} : Handled(m, s)
    BY <2>1
  <2>3. \A j \in Ids : live'[j] = IF j = m THEN s ELSE live[j]
    BY <2>2 DEF Handled, IInv, StreamTypes
  <2>4. m \in Nat /\ mark \in Nat /\ (mark' = mark \/ (mark' = m /\ m > mark)) /\ \A j \in Ids : j \in Nat
    BY <2>2, WatchAssumption DEF Handled, IInv, MarkTypes, Ids
  <2>5. /\ live[m] = "none" /\ UNCHANGED <<openGaps, unfilled, repeatOK>>
        /\ \A j \in Ids : j \in shownGap \/ j <= mark => j \in shownGap' \/ j <= mark'
    BY <2>2, <2>4 DEF Handled
  <2>6. /\ s \in {"gap", "gapname"} => m \in shownGap'
        /\ s \in {"plain", "name"} => ~InGap
    BY <2>2 DEF Handled
  <2> SUFFICES ASSUME NEW j \in Ids
               PROVE  /\ InGap' /\ Plain(j)' => j \in repeatOK'
                      /\ live'[j] \in {"gap", "gapname"} => j \in shownGap' \/ j <= mark'
    BY DEF HandlersOfGaps
  <2>7. CASE j = m
    BY <2>3, <2>5, <2>6, <2>7 DEF InGap, Plain
  <2>8. CASE j # m
    BY <2>3, <2>5, <2>8 DEF IInv, HandlersOfGaps, InGap, Plain
  <2> QED BY <2>7, <2>8
<1>10. Known'
  <2>1. proc = "up" /\ \E m \in Ids, s \in {"none", "name", "gapname", "plain", "gap"} : Handled(m, s)
    BY HandleMoves
  <2>2. PICK m \in Ids, s \in {"none", "name", "gapname", "plain", "gap"} : Handled(m, s)
    BY <2>1
  <2>3. \A j \in Ids : live'[j] = IF j = m THEN s ELSE live[j]
    BY <2>2 DEF Handled, IInv, StreamTypes
  <2>4. m \in Nat /\ mark \in Nat /\ (mark' = mark \/ (mark' = m /\ m > mark)) /\ \A j \in Ids : j \in Nat
    BY <2>2, WatchAssumption DEF Handled, IInv, MarkTypes, Ids
  <2>5. /\ live[m] = "none" /\ UNCHANGED <<copies, repeatOK, fill, todo, proc>>
        /\ shownGap \subseteq shownGap'
        /\ \A j \in Ids : j <= mark => j <= mark'
    BY <2>2, <2>4 DEF Handled
  <2>6. /\ s \in {"gap", "gapname"} => m \in shownGap' /\ InGap
        /\ s \in {"plain", "name"} => ~InGap
    BY <2>2 DEF Handled
  <2>7. \A j \in Ids : copies'[j] > 0 /\ j \notin repeatOK' =>
                         j <= mark' \/ j \in shownGap' \/ live'[j] = "written"
    BY <2>3, <2>5 DEF IInv, Known
  <2>8. ASSUME Asked', proc' = "up", NEW j \in todo', j \notin shownGap' \cup repeatOK'
        PROVE  live'[j] = "none" /\ copies'[j] = 0
    <3>1. Asked /\ j \in todo /\ j \notin shownGap \cup repeatOK /\ j \in Ids
      BY <2>5, <2>8 DEF Asked, IInv, FillTypes
    <3>2. InGap
      BY <2>1, <3>1 DEF Asked, InGap, IInv, Process, FillTypes, GapTypes
    <3>3. j = m => s = "none"
      BY <2>6, <2>8, <3>2
    <3> QED BY <2>1, <2>3, <2>5, <3>1, <3>3 DEF IInv, Known
  <2> QED BY <2>7, <2>8 DEF Known
<1>11. OneWay'
  <2>1. proc = "up" /\ \E m \in Ids, s \in {"none", "name", "gapname", "plain", "gap"} : Handled(m, s)
    BY HandleMoves
  <2>2. PICK m \in Ids, s \in {"none", "name", "gapname", "plain", "gap"} : Handled(m, s)
    BY <2>1
  <2>3. \A j \in Ids : live'[j] = IF j = m THEN s ELSE live[j]
    BY <2>2 DEF Handled, IInv, StreamTypes
  <2>4. m \in Nat /\ mark \in Nat /\ (mark' = mark \/ (mark' = m /\ m > mark)) /\ \A j \in Ids : j \in Nat
    BY <2>2, WatchAssumption DEF Handled, IInv, MarkTypes, Ids
  <2>5. UNCHANGED <<copies, repeatOK>> /\ live[m] = "none" /\ copies \in [Ids -> Nat]
    BY <2>2 DEF Handled, IInv, ReaderTypes
  <2>6. \A j \in Ids : AtSinkAgain(j)' <=> AtSinkAgain(j)
    <3>1. Joins("live", m) \/ UNCHANGED queue
      BY <2>2 DEF Handled
    <3>2. CASE Joins("live", m)
      BY <3>2, JoinsSink
    <3>3. CASE UNCHANGED queue
      BY <3>3 DEF AtSinkAgain
    <3> QED BY <3>1, <3>2, <3>3
  <2>7. ASSUME s # "none", m \notin repeatOK PROVE copies[m] = 0 /\ ~AtSinkAgain(m)
    <3>1. m > mark /\ m \notin shownGap
      BY <2>2, <2>7 DEF Handled
    <3>2. copies[m] = 0
      BY <2>4, <2>5, <2>7, <3>1 DEF IInv, Known
    <3>3. ~AtSinkAgain(m)
      BY <2>4, <3>1 DEF AtSinkAgain, IInv, QueueShape
    <3> QED BY <3>2, <3>3
  <2> SUFFICES ASSUME NEW j \in Ids \ repeatOK
               PROVE  /\ copies'[j] <= 1
                      /\ copies'[j] = 1 => ~Pending(j)' /\ ~AtSinkAgain(j)'
                      /\ Pending(j)' => ~AtSinkAgain(j)'
    BY <2>5 DEF OneWay
  <2>8. CASE j # m
    BY <2>3, <2>5, <2>6, <2>8 DEF IInv, OneWay, Pending
  <2>9. CASE j = m /\ s = "none"
    BY <2>3, <2>5, <2>6, <2>9 DEF IInv, OneWay, Pending
  <2>10. CASE j = m /\ s # "none"
    BY <2>5, <2>6, <2>7, <2>10
  <2> QED BY <2>8, <2>9, <2>10
<1>12. WrittenIsGiven'
  BY DEF IInv, Handle, Send, WrittenIsGiven, StreamTypes
<1>13. MarkCovers'
  <2>1. proc = "up" /\ \E m \in Ids, s \in {"none", "name", "gapname", "plain", "gap"} : Handled(m, s)
    BY HandleMoves
  <2>2. PICK m \in Ids, s \in {"none", "name", "gapname", "plain", "gap"} : Handled(m, s)
    BY <2>1
  <2>3. \A j \in Ids : live'[j] = IF j = m THEN s ELSE live[j]
    BY <2>2 DEF Handled, IInv, StreamTypes
  <2>4. m \in Nat /\ mark \in Nat /\ (mark' = mark \/ (mark' = m /\ m > mark)) /\ \A j \in Ids : j \in Nat
    BY <2>2, WatchAssumption DEF Handled, IInv, MarkTypes, Ids
  <2>5. HasMark => \A j \in Ids : Settled(j) => Settled(j)'
    BY Settles
  <2>6. ASSUME HasMark, ~InGap, m > mark
        PROVE  \A j \in Ids : j < m => Settled(j)
    <3>1. PICK f \in 0 .. MaxMsg, r \in 0 .. MaxMsg :
            /\ Frontier(f, r)
            /\ \A j \in Ids : j <= f => Settled(j)
            /\ \A i \in 1 .. Len(inbox) : inbox[i] <= mark \/ inbox[i] > f
      BY <2>1, <2>6 DEF IInv, Following
    <3>2. m = inbox[1] /\ 1 \in 1 .. Len(inbox) /\ f \in Nat /\ r \in Nat
      BY <2>2 DEF Handled
    <3>3. m > f /\ m <= r
      BY <2>4, <2>6, <3>1, <3>2 DEF Frontier
    <3>4. ASSUME NEW j \in Ids, f < j PROVE m <= j
      <4>1. CASE r < j
        BY <2>4, <3>2, <3>3, <4>1
      <4>2. CASE j <= r
        <5>1. PICK i \in 1 .. Len(inbox) : inbox[i] = j
          BY <3>1, <3>4, <4>2 DEF Frontier
        <5>2. i = 1 \/ 1 < i
          OBVIOUS
        <5> QED BY <2>4, <3>2, <5>1, <5>2 DEF IInv, InboxOrder
      <4> QED BY <2>4, <3>2, <4>1, <4>2
    <3> QED BY <2>4, <3>1, <3>2, <3>4
  <2> SUFFICES ASSUME HasMark
               PROVE  heard' = InitMark /\ saved' > 0 /\ \A j \in Ids : j <= mark' => Settled(j)'
    BY DEF MarkCovers
  <2>7. heard' = InitMark
    BY <2>2 DEF Handled, IInv, MarkCovers, HasMark
  <2>8. CASE UNCHANGED <<mark, saved>>
    BY <2>5, <2>7, <2>8 DEF IInv, MarkCovers
  <2>9. CASE m > mark /\ mark' = m /\ saved' \in {saved, m} /\ Hidden(m) /\ ~InGap
    <3>1. saved' > 0
      BY <2>4, <2>9 DEF IInv, MarkCovers, Ids
    <3>2. Settled(m)'
      BY <2>9 DEF Settled, Hidden
    <3>3. \A j \in Ids : j <= m => j < m \/ j = m
      BY <2>4
    <3> QED BY <2>5, <2>6, <2>7, <2>9, <3>1, <3>2, <3>3
  <2> QED BY <2>2, <2>8, <2>9 DEF Handled
<1>14. PlainCovers'
  <2>1. proc = "up" /\ \E m \in Ids, s \in {"none", "name", "gapname", "plain", "gap"} : Handled(m, s)
    BY HandleMoves
  <2>2. PICK m \in Ids, s \in {"none", "name", "gapname", "plain", "gap"} : Handled(m, s)
    BY <2>1
  <2>3. \A j \in Ids : live'[j] = IF j = m THEN s ELSE live[j]
    BY <2>2 DEF Handled, IInv, StreamTypes
  <2>4. m \in Nat /\ mark \in Nat /\ (mark' = mark \/ (mark' = m /\ m > mark)) /\ \A j \in Ids : j \in Nat
    BY <2>2, WatchAssumption DEF Handled, IInv, MarkTypes, Ids
  <2>5. HasMark => \A j \in Ids : Settled(j) => Settled(j)'
    BY Settles
  <2>6. ASSUME HasMark, ~InGap, m > mark
        PROVE  \A j \in Ids : j < m => Settled(j)
    <3>1. PICK f \in 0 .. MaxMsg, r \in 0 .. MaxMsg :
            /\ Frontier(f, r)
            /\ \A j \in Ids : j <= f => Settled(j)
            /\ \A i \in 1 .. Len(inbox) : inbox[i] <= mark \/ inbox[i] > f
      BY <2>1, <2>6 DEF IInv, Following
    <3>2. m = inbox[1] /\ 1 \in 1 .. Len(inbox) /\ f \in Nat /\ r \in Nat
      BY <2>2 DEF Handled
    <3>3. m > f /\ m <= r
      BY <2>4, <2>6, <3>1, <3>2 DEF Frontier
    <3>4. ASSUME NEW j \in Ids, f < j PROVE m <= j
      <4>1. CASE r < j
        BY <2>4, <3>2, <3>3, <4>1
      <4>2. CASE j <= r
        <5>1. PICK i \in 1 .. Len(inbox) : inbox[i] = j
          BY <3>1, <3>4, <4>2 DEF Frontier
        <5>2. i = 1 \/ 1 < i
          OBVIOUS
        <5> QED BY <2>4, <3>2, <5>1, <5>2 DEF IInv, InboxOrder
      <4> QED BY <2>4, <3>2, <4>1, <4>2
    <3> QED BY <2>4, <3>1, <3>2, <3>4
  <2> SUFFICES ASSUME HasMark, NEW n \in Ids, NEW j \in Ids, Plain(n)', j < n
               PROVE  Settled(j)'
    BY DEF PlainCovers
  <2>7. CASE n # m
    BY <2>3, <2>5, <2>7 DEF IInv, PlainCovers, Plain
  <2>8. CASE n = m
    <3>1. s \in {"plain", "name"}
      BY <2>3, <2>8 DEF Plain
    <3>2. ~InGap /\ m > mark
      BY <2>2, <3>1 DEF Handled
    <3> QED BY <2>5, <2>6, <2>8, <3>2
  <2> QED BY <2>7, <2>8
<1>15. ShownIsSettled'
  <2>1. proc = "up" /\ \E m \in Ids, s \in {"none", "name", "gapname", "plain", "gap"} : Handled(m, s)
    BY HandleMoves
  <2>2. PICK m \in Ids, s \in {"none", "name", "gapname", "plain", "gap"} : Handled(m, s)
    BY <2>1
  <2>3. \A j \in Ids : live'[j] = IF j = m THEN s ELSE live[j]
    BY <2>2 DEF Handled, IInv, StreamTypes
  <2>4. m \in Nat /\ mark \in Nat /\ (mark' = mark \/ (mark' = m /\ m > mark)) /\ \A j \in Ids : j \in Nat
    BY <2>2, WatchAssumption DEF Handled, IInv, MarkTypes, Ids
  <2>5. HasMark => \A j \in Ids : Settled(j) => Settled(j)'
    BY Settles

  <2> SUFFICES ASSUME HasMark, NEW n \in shownGap' PROVE Settled(n)' \/ Turned(n)'
    BY DEF ShownIsSettled
  <2>6. UNCHANGED <<fill, turn>>
    BY <2>2 DEF Handled
  <2>7. CASE n \in shownGap
    <3>1. n \in Ids
      BY <2>7 DEF IInv, GapTypes
    <3> QED BY <2>1, <2>5, <2>6, <2>7, <3>1 DEF IInv, ShownIsSettled, Turned
  <2>8. CASE n = m /\ (Hidden(m) \/ s \in {"gap", "gapname"})
    BY <2>3, <2>8 DEF Settled, Hidden
  <2> QED BY <2>2, <2>7, <2>8 DEF Handled
<1>16. Replayed'
  BY Settles DEF IInv, Handle, replay, Replayed, Asked, Turned, GapTypes
<1>17. FillingUp'
  <2>1. proc = "up" /\ \E m \in Ids, s \in {"none", "name", "gapname", "plain", "gap"} : Handled(m, s)
    BY HandleMoves
  <2>2. PICK m \in Ids, s \in {"none", "name", "gapname", "plain", "gap"} : Handled(m, s)
    BY <2>1
  <2>3. \A j \in Ids : live'[j] = IF j = m THEN s ELSE live[j]
    BY <2>2 DEF Handled, IInv, StreamTypes
  <2>4. m \in Nat /\ mark \in Nat /\ (mark' = mark \/ (mark' = m /\ m > mark)) /\ \A j \in Ids : j \in Nat
    BY <2>2, WatchAssumption DEF Handled, IInv, MarkTypes, Ids
  <2>5. HasMark => \A j \in Ids : Settled(j) => Settled(j)'
    BY Settles

  <2> SUFFICES ASSUME HasMark, proc' = "up", Asked', openGaps' = 1
               PROVE  \E h, r \in 0 .. MaxMsg :
                        /\ Frontier(h, r)'
                        /\ \A j \in Ids : j <= h => (j \in todo \/ Settled(j) \/ Turned(j))'
                        /\ h <= mark' \/ h \in (shownGap \cup todo)'
    BY DEF FillingUp
  <2>6. Asked /\ openGaps = 1 /\ InGap
    BY <2>2 DEF Handled, Asked, InGap
  <2>7. PICK h \in 0 .. MaxMsg, r \in 0 .. MaxMsg :
          /\ Frontier(h, r)
          /\ \A j \in Ids : j <= h => j \in todo \/ Settled(j) \/ Turned(j)
          /\ h <= mark \/ h \in shownGap \cup todo
    BY <2>1, <2>6 DEF IInv, FillingUp
  <2>8. h \in Nat /\ r \in Nat /\ m <= r /\ mark <= h /\ m = inbox[1] /\ 1 \in 1 .. Len(inbox)
    BY <2>2, <2>7 DEF Handled, Frontier
  <2>9. /\ Len(inbox) \in Nat \ {0} /\ Len(inbox') = Len(inbox) - 1
        /\ \A i \in 1 .. Len(inbox) - 1 : inbox'[i] = inbox[i + 1]
        /\ UNCHANGED <<posted, online, todo, fill, turn>> /\ shownGap' \subseteq shownGap \cup {m}
    BY <2>2 DEF Handled
  <2>10. \A i \in 1 .. Len(inbox) : i # 1 => inbox[i] \in Nat /\ m < inbox[i]
    <3>1. \A i \in 1 .. Len(inbox) : inbox[i] \in Nat
      BY <2>4, Elements DEF IInv
    <3> QED BY <2>8, <3>1 DEF IInv, InboxOrder
  <2>11. \A j \in Ids : h < j /\ j <= r /\ j # m => \E i \in 1 .. Len(inbox') : inbox'[i] = j
    <3> SUFFICES ASSUME NEW j \in Ids, h < j, j <= r, j # m
                 PROVE  \E i \in 1 .. Len(inbox') : inbox'[i] = j
      OBVIOUS
    <3>1. PICK i \in 1 .. Len(inbox) : inbox[i] = j
      BY <2>7 DEF Frontier
    <3>2. i - 1 \in 1 .. Len(inbox) - 1 /\ (i - 1) + 1 = i
      BY <2>8, <2>9, <3>1
    <3> QED BY <2>9, <3>1, <3>2
  <2>12. \A i \in 1 .. Len(inbox') : inbox'[i] <= r /\ m < inbox'[i] /\ inbox'[i] = inbox[i + 1]
                                       /\ i + 1 \in 1 .. Len(inbox)
    BY <2>7, <2>9, <2>10 DEF Frontier
  <2>13. mark' <= h \/ mark' = m
    BY <2>4, <2>8
  <2>14. \A j \in Ids : j \in shownGap' \cup todo' \/ live'[j] # "none" => j <= h \/ (j = m /\ j \notin todo' /\ ~(m <= mark)) \/ (j = m /\ j <= h)
    <3> SUFFICES ASSUME NEW j \in Ids, j \in shownGap' \cup todo' \/ live'[j] # "none", ~(j <= h)
                 PROVE  j = m /\ j \notin todo' /\ ~(m <= mark)
      OBVIOUS
    <3>1. j \notin todo /\ j \notin shownGap /\ live[j] = "none"
      BY <2>7 DEF Frontier
    <3>2. j = m
      BY <2>3, <2>9, <3>1
    <3> QED BY <2>4, <2>8, <2>9, <3>1, <3>2
  <2>15. r <= posted' /\ (online' => r = posted')
    BY <2>7, <2>9 DEF Frontier
  <2>16. CASE m <= h
    <3>1. Frontier(h, r)'
      <4>1. \A j \in Ids : h < j /\ j <= r => \E i \in 1 .. Len(inbox') : inbox'[i] = j
        BY <2>4, <2>8, <2>11, <2>16
      <4>2. mark' <= h /\ \A j \in Ids : j \in shownGap' \cup todo' \/ live'[j] # "none" => j <= h
        BY <2>4, <2>8, <2>13, <2>14, <2>16
      <4> QED BY <2>7, <2>12, <2>15, <4>1, <4>2 DEF Frontier
    <3>2. \A j \in Ids : j <= h => (j \in todo \/ Settled(j) \/ Turned(j))'
      BY <2>5, <2>7, <2>9 DEF Turned
    <3>3. h <= mark' \/ h \in (shownGap \cup todo)'
      <4>1. shownGap \subseteq shownGap'
        BY <2>2 DEF Handled
      <4> QED BY <2>4, <2>7, <2>8, <2>9, <2>16, <4>1
    <3> QED BY <3>1, <3>2, <3>3
  <2>17. CASE h < m
    <3>1. h + 1 = m
      <4> SUFFICES ASSUME h + 1 # m PROVE FALSE
        OBVIOUS
      <4>1. h + 1 \in Ids /\ h < h + 1 /\ h + 1 <= r /\ h + 1 < m
        BY <2>4, <2>8, <2>17, WatchAssumption DEF Ids
      <4>2. PICK i \in 1 .. Len(inbox) : inbox[i] = h + 1
        BY <2>7, <4>1 DEF Frontier
      <4> QED BY <2>4, <2>8, <2>10, <4>1, <4>2
    <3>2. Frontier(m, r)'
      <4>1. \A j \in Ids : m < j /\ j <= r => \E i \in 1 .. Len(inbox') : inbox'[i] = j
        BY <2>4, <2>8, <2>11, <2>17
      <4>2. mark' <= m
        BY <2>4, <2>8, <2>13, <2>17
      <4>3. \A j \in Ids : j \in shownGap' \cup todo' \/ live'[j] # "none" => j <= m
        BY <2>4, <2>8, <2>14, <2>17
      <4> QED BY <2>8, <2>12, <2>15, <4>1, <4>2, <4>3 DEF Frontier
    <3>3. \A j \in Ids : j <= m => j <= h \/ j = m
      BY <2>4, <2>8, <3>1
    <3>4. m > mark /\ m \notin shownGap /\ m \notin todo /\ m \in 0 .. MaxMsg
      BY <2>4, <2>7, <2>8, <2>17, WatchAssumption DEF Frontier, Ids
    <3>5. Settled(m)' /\ m \in shownGap'
      <4>1. s \in {"gap", "gapname"} \/ (s = "none" /\ m \in shownGap' /\ Hidden(m))
        <5>1. mark' = mark /\ ~(s \in {"plain", "name"})
          BY <2>2, <2>6 DEF Handled
        <5>2. s = "none" => m \in shownGap'
          BY <2>2, <2>4, <3>4, <5>1 DEF Handled
        <5> QED BY <2>2, <3>4, <5>1, <5>2 DEF Handled
      <4>2. s \in {"gap", "gapname"} => m \in shownGap'
        BY <2>2 DEF Handled
      <4> QED BY <2>3, <4>1, <4>2 DEF Settled, Hidden
    <3>6. \A j \in Ids : j <= m => (j \in todo \/ Settled(j) \/ Turned(j))'
      BY <2>5, <2>7, <2>9, <3>3, <3>5 DEF Turned
    <3> QED BY <3>2, <3>4, <3>5, <3>6
  <2> QED BY <2>4, <2>8, <2>16, <2>17
<1>18. Following'
  <2>1. proc = "up" /\ \E m \in Ids, s \in {"none", "name", "gapname", "plain", "gap"} : Handled(m, s)
    BY HandleMoves
  <2>2. PICK m \in Ids, s \in {"none", "name", "gapname", "plain", "gap"} : Handled(m, s)
    BY <2>1
  <2>3. \A j \in Ids : live'[j] = IF j = m THEN s ELSE live[j]
    BY <2>2 DEF Handled, IInv, StreamTypes
  <2>4. m \in Nat /\ mark \in Nat /\ (mark' = mark \/ (mark' = m /\ m > mark)) /\ \A j \in Ids : j \in Nat
    BY <2>2, WatchAssumption DEF Handled, IInv, MarkTypes, Ids
  <2>5. HasMark => \A j \in Ids : Settled(j) => Settled(j)'
    BY Settles

  <2> SUFFICES ASSUME HasMark, proc' = "up", ~InGap'
               PROVE  \E h, r \in 0 .. MaxMsg :
                        /\ Frontier(h, r)'
                        /\ \A j \in Ids : j <= h => Settled(j)'
                        /\ h <= mark' \/ (h \in Ids /\ Plain(h)')
                        /\ \A i \in 1 .. Len(inbox') : inbox'[i] <= mark' \/ inbox'[i] > h
    BY DEF Following
  <2>6. ~InGap
    BY <2>2 DEF Handled, InGap
  <2>7. PICK h \in 0 .. MaxMsg, r \in 0 .. MaxMsg :
          /\ Frontier(h, r)
          /\ \A j \in Ids : j <= h => Settled(j)
          /\ h <= mark \/ (h \in Ids /\ Plain(h))
          /\ \A i \in 1 .. Len(inbox) : inbox[i] <= mark \/ inbox[i] > h
    BY <2>1, <2>6 DEF IInv, Following
  <2>8. h \in Nat /\ r \in Nat /\ m <= r /\ mark <= h /\ m = inbox[1] /\ 1 \in 1 .. Len(inbox)
    BY <2>2, <2>7 DEF Handled, Frontier
  <2>9. /\ Len(inbox) \in Nat \ {0} /\ Len(inbox') = Len(inbox) - 1
        /\ \A i \in 1 .. Len(inbox) - 1 : inbox'[i] = inbox[i + 1]
        /\ UNCHANGED <<posted, online, todo, fill, turn>> /\ shownGap' \subseteq shownGap \cup {m}
    BY <2>2 DEF Handled
  <2>10. \A i \in 1 .. Len(inbox) : i # 1 => inbox[i] \in Nat /\ m < inbox[i]
    <3>1. \A i \in 1 .. Len(inbox) : inbox[i] \in Nat
      BY <2>4, Elements DEF IInv
    <3> QED BY <2>8, <3>1 DEF IInv, InboxOrder
  <2>11. \A j \in Ids : h < j /\ j <= r /\ j # m => \E i \in 1 .. Len(inbox') : inbox'[i] = j
    <3> SUFFICES ASSUME NEW j \in Ids, h < j, j <= r, j # m
                 PROVE  \E i \in 1 .. Len(inbox') : inbox'[i] = j
      OBVIOUS
    <3>1. PICK i \in 1 .. Len(inbox) : inbox[i] = j
      BY <2>7 DEF Frontier
    <3>2. i - 1 \in 1 .. Len(inbox) - 1 /\ (i - 1) + 1 = i
      BY <2>8, <2>9, <3>1
    <3> QED BY <2>9, <3>1, <3>2
  <2>12. \A i \in 1 .. Len(inbox') : inbox'[i] <= r /\ m < inbox'[i] /\ inbox'[i] = inbox[i + 1]
                                       /\ i + 1 \in 1 .. Len(inbox)
    BY <2>7, <2>9, <2>10 DEF Frontier
  <2>13. mark' <= h \/ mark' = m
    BY <2>4, <2>8
  <2>14. \A j \in Ids : j \in shownGap' \cup todo' \/ live'[j] # "none" => j <= h \/ (j = m /\ j \notin todo' /\ ~(m <= mark)) \/ (j = m /\ j <= h)
    <3> SUFFICES ASSUME NEW j \in Ids, j \in shownGap' \cup todo' \/ live'[j] # "none", ~(j <= h)
                 PROVE  j = m /\ j \notin todo' /\ ~(m <= mark)
      OBVIOUS
    <3>1. j \notin todo /\ j \notin shownGap /\ live[j] = "none"
      BY <2>7 DEF Frontier
    <3>2. j = m
      BY <2>3, <2>9, <3>1
    <3> QED BY <2>4, <2>8, <2>9, <3>1, <3>2
  <2>15. r <= posted' /\ (online' => r = posted')
    BY <2>7, <2>9 DEF Frontier
  <2>16. CASE m <= h
    <3>1. Frontier(h, r)'
      <4>1. \A j \in Ids : h < j /\ j <= r => \E i \in 1 .. Len(inbox') : inbox'[i] = j
        BY <2>4, <2>8, <2>11, <2>16
      <4>2. mark' <= h /\ \A j \in Ids : j \in shownGap' \cup todo' \/ live'[j] # "none" => j <= h
        BY <2>4, <2>8, <2>13, <2>14, <2>16
      <4> QED BY <2>7, <2>12, <2>15, <4>1, <4>2 DEF Frontier
    <3>2. \A j \in Ids : j <= h => Settled(j)'
      BY <2>5, <2>7
    <3>3. h <= mark' \/ (h \in Ids /\ Plain(h)')
      <4>1. live[m] = "none"
        BY <2>2 DEF Handled
      <4> QED BY <2>3, <2>4, <2>7, <2>8, <4>1 DEF Plain
    <3>4. \A i \in 1 .. Len(inbox') : inbox'[i] <= mark' \/ inbox'[i] > h
      <4>1. \A i \in 1 .. Len(inbox') : inbox'[i] <= mark \/ inbox'[i] > h
        BY <2>7, <2>12
      <4>2. \A i \in 1 .. Len(inbox') : inbox'[i] \in Nat
        BY <2>10, <2>12
      <4> QED BY <2>4, <4>1, <4>2
    <3> QED BY <3>1, <3>2, <3>3, <3>4
  <2>17. CASE h < m
    <3>1. h + 1 = m
      <4> SUFFICES ASSUME h + 1 # m PROVE FALSE
        OBVIOUS
      <4>1. h + 1 \in Ids /\ h < h + 1 /\ h + 1 <= r /\ h + 1 < m
        BY <2>4, <2>8, <2>17, WatchAssumption DEF Ids
      <4>2. PICK i \in 1 .. Len(inbox) : inbox[i] = h + 1
        BY <2>7, <4>1 DEF Frontier
      <4> QED BY <2>4, <2>8, <2>10, <4>1, <4>2
    <3>2. Frontier(m, r)'
      <4>1. \A j \in Ids : m < j /\ j <= r => \E i \in 1 .. Len(inbox') : inbox'[i] = j
        BY <2>4, <2>8, <2>11, <2>17
      <4>2. mark' <= m
        BY <2>4, <2>8, <2>13, <2>17
      <4>3. \A j \in Ids : j \in shownGap' \cup todo' \/ live'[j] # "none" => j <= m
        BY <2>4, <2>8, <2>14, <2>17
      <4> QED BY <2>8, <2>12, <2>15, <4>1, <4>2, <4>3 DEF Frontier
    <3>3. \A j \in Ids : j <= m => j <= h \/ j = m
      BY <2>4, <2>8, <3>1
    <3>4. m > mark /\ m \notin shownGap /\ m \notin todo /\ m \in 0 .. MaxMsg
      BY <2>4, <2>7, <2>8, <2>17, WatchAssumption DEF Frontier, Ids
    <3>5. Settled(m)' /\ (m <= mark' \/ Plain(m)')
      <4>1. shownGap = {} /\ ~(s \in {"gap", "gapname"}) /\ UNCHANGED shownGap
        BY <2>2, <2>6 DEF Handled, IInv, Process
      <4>2. CASE s = "none"
        <5>1. m <= mark' /\ Hidden(m)
          BY <2>2, <2>4, <3>4, <4>1, <4>2 DEF Handled
        <5> QED BY <5>1 DEF Settled, Hidden
      <4>3. CASE s \in {"plain", "name"}
        BY <2>3, <4>3 DEF Settled, Plain
      <4> QED BY <4>1, <4>2, <4>3
    <3>6. \A j \in Ids : j <= m => Settled(j)'
      BY <2>5, <2>7, <3>3, <3>5
    <3>7. \A i \in 1 .. Len(inbox') : inbox'[i] > m
      BY <2>12
    <3> QED BY <3>2, <3>4, <3>5, <3>6, <3>7
  <2> QED BY <2>4, <2>8, <2>16, <2>17
<1> QED BY <1>1, <1>2, <1>3, <1>4, <1>5, <1>6, <1>7, <1>8, <1>9, <1>10, <1>11, <1>12, <1>13,
     <1>14, <1>15, <1>16, <1>17, <1>18 DEF IInv

LEMMA TitleStep ==
  ASSUME IInv, NEW m \in Ids, Title(m)
  PROVE  IInv'
<1>1. MarkTypes' /\ GapTypes' /\ FillTypes' /\ ReaderTypes'
  BY Kept DEF IInv, Title, marks, gap, replay, reader
<1>2. WorldTypes'
  BY DEF IInv, Title, world, WorldTypes
<1>3. StreamTypes'
  BY DEF IInv, Title, StreamTypes
<1>4. Posted'
  BY DEF IInv, Title, world, marks, gap, replay, reader, Posted
<1>5. Process'
  BY DEF IInv, Title, gap, replay, Process, InGap
<1>6. InboxOrder'
  BY DEF IInv, Title, world, InboxOrder
<1>7. QueueShape'
  <2>1. /\ live[m] \in {"name", "gapname"} /\ Joins("live", m)
        /\ live' = [live EXCEPT ![m] = IF live[m] = "gapname" THEN "gap" ELSE "plain"]
        /\ UNCHANGED <<posted, online, proc, mark, saved, shownGap, openGaps, unfilled, fill,
                       starting, todo, turn, inbox, copies, repeatOK, cut, dropped, heard, faults>>
    <3>1. queue' = Append(queue, [by |-> "live", id |-> m])
      BY DEF Title
    <3>2. Joins("live", m)
      BY <3>1, QueueGrows DEF IInv, Joins
    <3> QED BY <3>2 DEF Title, world, marks, gap, replay, reader
  <2>2. \A j \in Ids : live'[j] = IF j # m THEN live[j] ELSE IF live[m] = "gapname" THEN "gap" ELSE "plain"
    BY <2>1 DEF IInv, StreamTypes

  <2>3. /\ Len(queue) \in Nat
        /\ \A i \in 1 .. Len(queue) : queue[i].id \in Ids /\ queue[i].by \in {"live", "replay"}
    BY Elements DEF IInv, Record
  <2>4. \A i \in 1 .. Len(queue) :
          IF queue[i].by = "live" THEN queue[i].id # m /\ live'[queue[i].id] \in {"plain", "gap"}
          ELSE /\ proc' # "stopping" => fill' = "writing" /\ queue[i].id = turn'
               /\ queue[i].id \in shownGap' \/ queue[i].id <= mark'
    BY <2>1, <2>2, <2>3 DEF IInv, QueueShape
  <2>5. \A i \in 1 .. Len(queue') : i \in 1 .. Len(queue) \/ i = Len(queue) + 1
    BY <2>1 DEF Joins
  <2>6. queue'[Len(queue) + 1].by = "live" /\ queue'[Len(queue) + 1].id = m
    BY <2>1 DEF Joins
  <2>7. \A i \in 1 .. Len(queue) : queue'[i] = queue[i]
    BY <2>1 DEF Joins
  <2>8. \A i \in 1 .. Len(queue) : queue'[i] # queue'[Len(queue) + 1]
    BY <2>4, <2>6, <2>7
  <2>9. \A i, j \in 1 .. Len(queue') : queue'[i] = queue'[j] => i = j
    BY <2>5, <2>7, <2>8 DEF IInv, QueueShape
  <2>10. live'[m] \in {"plain", "gap"}
    BY <2>2
  <2> QED BY <2>4, <2>5, <2>6, <2>7, <2>9, <2>10 DEF QueueShape
<1>8. HandlersOfGaps'
  BY DEF IInv, Title, marks, gap, reader, HandlersOfGaps, InGap, Plain
<1>9. Known'
  BY DEF IInv, Title, marks, gap, replay, reader, Known, Asked
<1>10. OneWay'
  BY DEF IInv, Title, reader, OneWay, Pending, AtSinkAgain
<1>11. WrittenIsGiven'
  BY DEF IInv, Title, reader, WrittenIsGiven
<1>12. MarkCovers'
  BY Settles DEF IInv, Title, marks, reader, MarkCovers
<1>13. PlainCovers'
  BY Settles DEF IInv, Title, PlainCovers, Plain, StreamTypes
<1>14. ShownIsSettled'
  BY Settles DEF IInv, Title, gap, replay, ShownIsSettled, Turned, GapTypes
<1>15. Replayed'
  BY Settles DEF IInv, Title, gap, replay, Replayed, Asked, Turned, GapTypes
<1>16. FillingUp'
  <2>1. /\ live[m] \in {"name", "gapname"} /\ Joins("live", m)
        /\ live' = [live EXCEPT ![m] = IF live[m] = "gapname" THEN "gap" ELSE "plain"]
        /\ UNCHANGED <<posted, online, proc, mark, saved, shownGap, openGaps, unfilled, fill,
                       starting, todo, turn, inbox, copies, repeatOK, cut, dropped, heard, faults>>
    <3>1. queue' = Append(queue, [by |-> "live", id |-> m])
      BY DEF Title
    <3>2. Joins("live", m)
      BY <3>1, QueueGrows DEF IInv, Joins
    <3> QED BY <3>2 DEF Title, world, marks, gap, replay, reader
  <2>2. \A j \in Ids : live'[j] = IF j # m THEN live[j] ELSE IF live[m] = "gapname" THEN "gap" ELSE "plain"
    BY <2>1 DEF IInv, StreamTypes
  <2>3. mark \in Nat /\ (HasMark => \A j \in Ids : Settled(j) => Settled(j)')
    BY Settles DEF IInv, MarkTypes
  <2>4. CASE Asked
    <3>1. FillingUp /\ IInv
      BY DEF IInv
    <3>2. \A j \in Ids : live'[j] # "none" => live[j] # "none"
      BY <2>1, <2>2
    <3> QED BY <2>1, <2>3, <2>4, <3>1, <3>2, FillingStays DEF Asked, Turned
  <2>5. CASE ~Asked
    BY <2>1, <2>5 DEF FillingUp, Asked
  <2> QED BY <2>4, <2>5
<1>17. Following'
  <2>1. /\ live[m] \in {"name", "gapname"} /\ Joins("live", m)
        /\ live' = [live EXCEPT ![m] = IF live[m] = "gapname" THEN "gap" ELSE "plain"]
        /\ UNCHANGED <<posted, online, proc, mark, saved, shownGap, openGaps, unfilled, fill,
                       starting, todo, turn, inbox, copies, repeatOK, cut, dropped, heard, faults>>
    <3>1. queue' = Append(queue, [by |-> "live", id |-> m])
      BY DEF Title
    <3>2. Joins("live", m)
      BY <3>1, QueueGrows DEF IInv, Joins
    <3> QED BY <3>2 DEF Title, world, marks, gap, replay, reader
  <2>2. \A j \in Ids : live'[j] = IF j # m THEN live[j] ELSE IF live[m] = "gapname" THEN "gap" ELSE "plain"
    BY <2>1 DEF IInv, StreamTypes
  <2>3. mark \in Nat /\ (HasMark => \A j \in Ids : Settled(j) => Settled(j)')
    BY Settles DEF IInv, MarkTypes
  <2>4. Following /\ IInv
    BY DEF IInv
  <2>5. \A j \in Ids : live'[j] # "none" => live[j] # "none"
    BY <2>1, <2>2
  <2>6. \A j \in Ids : Plain(j) => Plain(j)'
    BY <2>1, <2>2 DEF Plain
  <2> QED BY <2>1, <2>3, <2>4, <2>5, <2>6, FollowingStays
<1> QED BY <1>1, <1>2, <1>3, <1>4, <1>5, <1>6, <1>7, <1>8, <1>9, <1>10, <1>11, <1>12, <1>13,
     <1>14, <1>15, <1>16, <1>17 DEF IInv

LEMMA EmitStep ==
  ASSUME IInv, Emit
  PROVE  IInv'
<1>1. WorldTypes' /\ MarkTypes' /\ GapTypes'
  BY Kept DEF IInv, Emit, world, marks, gap
<1>2. FillTypes'
  BY DEF IInv, Emit, FillTypes
<1>3. StreamTypes'
  <2>1. proc \in {"up", "stopping"} /\ \E r \in Record : r.by \in {"live", "replay"} /\ r.id \in Ids /\ Emitted(r)
    BY EmitMoves
  <2>2. PICK r \in Record : r.by \in {"live", "replay"} /\ r.id \in Ids /\ Emitted(r)
    BY <2>1
  <2>3. PICK m \in Ids : m = r.id
    BY <2>2
  <2>4. /\ \A j \in Ids : copies'[j] = IF j = m THEN copies[j] + 1 ELSE copies[j]
        /\ \A j \in Ids : copies[j] \in Nat
    BY <2>2, <2>3 DEF Emitted, IInv, ReaderTypes
  <2>5. \A j \in Ids : live'[j] = IF j = m /\ r.by = "live" THEN IF live[m] = "gap" THEN "none" ELSE "written"
                                  ELSE live[j]
    BY <2>2, <2>3 DEF Emitted, IInv, StreamTypes
  <2>6. /\ r.by = "live" => live[m] \in {"plain", "gap"} /\ UNCHANGED fill
        /\ r.by = "replay" => /\ fill' = IF fill = "writing" THEN "written" ELSE fill
                              /\ proc = "up" => fill = "writing" /\ turn = m
                              /\ m \in shownGap \/ m <= mark
        /\ UNCHANGED <<posted, online, proc, mark, saved, titled, shownGap, openGaps, unfilled,
                       starting, todo, turn, inbox, repeatOK, cut, dropped, heard, faults>>
    BY <2>2, <2>3 DEF Emitted
  <2>7. live' \in [Ids -> {"none", "name", "gapname", "plain", "gap", "written"}]
    BY <2>2 DEF Emitted, IInv, StreamTypes
  <2>8. queue' \in Seq(Record)
    BY <2>2 DEF Emitted, Leaves
  <2> QED BY <2>6, <2>7, <2>8 DEF IInv, StreamTypes, Record
<1>4. ReaderTypes'
  <2>1. proc \in {"up", "stopping"} /\ \E r \in Record : r.by \in {"live", "replay"} /\ r.id \in Ids /\ Emitted(r)
    BY EmitMoves
  <2>2. PICK r \in Record : r.by \in {"live", "replay"} /\ r.id \in Ids /\ Emitted(r)
    BY <2>1
  <2>3. PICK m \in Ids : m = r.id
    BY <2>2
  <2>4. /\ \A j \in Ids : copies'[j] = IF j = m THEN copies[j] + 1 ELSE copies[j]
        /\ \A j \in Ids : copies[j] \in Nat
    BY <2>2, <2>3 DEF Emitted, IInv, ReaderTypes
  <2>5. \A j \in Ids : live'[j] = IF j = m /\ r.by = "live" THEN IF live[m] = "gap" THEN "none" ELSE "written"
                                  ELSE live[j]
    BY <2>2, <2>3 DEF Emitted, IInv, StreamTypes
  <2>6. /\ r.by = "live" => live[m] \in {"plain", "gap"} /\ UNCHANGED fill
        /\ r.by = "replay" => /\ fill' = IF fill = "writing" THEN "written" ELSE fill
                              /\ proc = "up" => fill = "writing" /\ turn = m
                              /\ m \in shownGap \/ m <= mark
        /\ UNCHANGED <<posted, online, proc, mark, saved, titled, shownGap, openGaps, unfilled,
                       starting, todo, turn, inbox, repeatOK, cut, dropped, heard, faults>>
    BY <2>2, <2>3 DEF Emitted
  <2>7. copies' \in [Ids -> Nat]
    BY <2>2, <2>3, <2>4 DEF Emitted, IInv, ReaderTypes
  <2> QED BY <2>6, <2>7 DEF IInv, ReaderTypes
<1>5. Posted'
  <2>1. proc \in {"up", "stopping"} /\ \E r \in Record : r.by \in {"live", "replay"} /\ r.id \in Ids /\ Emitted(r)
    BY EmitMoves
  <2>2. PICK r \in Record : r.by \in {"live", "replay"} /\ r.id \in Ids /\ Emitted(r)
    BY <2>1
  <2>3. PICK m \in Ids : m = r.id
    BY <2>2
  <2>4. /\ \A j \in Ids : copies'[j] = IF j = m THEN copies[j] + 1 ELSE copies[j]
        /\ \A j \in Ids : copies[j] \in Nat
    BY <2>2, <2>3 DEF Emitted, IInv, ReaderTypes
  <2>5. \A j \in Ids : live'[j] = IF j = m /\ r.by = "live" THEN IF live[m] = "gap" THEN "none" ELSE "written"
                                  ELSE live[j]
    BY <2>2, <2>3 DEF Emitted, IInv, StreamTypes
  <2>6. /\ r.by = "live" => live[m] \in {"plain", "gap"} /\ UNCHANGED fill
        /\ r.by = "replay" => /\ fill' = IF fill = "writing" THEN "written" ELSE fill
                              /\ proc = "up" => fill = "writing" /\ turn = m
                              /\ m \in shownGap \/ m <= mark
        /\ UNCHANGED <<posted, online, proc, mark, saved, titled, shownGap, openGaps, unfilled,
                       starting, todo, turn, inbox, repeatOK, cut, dropped, heard, faults>>
    BY <2>2, <2>3 DEF Emitted
  <2>7. m <= posted
    <3>1. CASE r.by = "live"
      BY <2>6, <3>1 DEF IInv, Posted
    <3>2. CASE r.by = "replay"
      <4>1. posted \in Nat /\ mark \in Nat /\ mark <= posted /\ m \in Nat
        BY WatchAssumption DEF IInv, WorldTypes, MarkTypes, Posted, Ids
      <4>2. m \in shownGap => m <= posted
        BY DEF IInv, Posted
      <4> QED BY <2>6, <3>2, <4>1, <4>2
    <3> QED BY <2>2, <3>1, <3>2
  <2> QED BY <2>4, <2>5, <2>6, <2>7 DEF IInv, Posted
<1>6. Process'
  BY DEF IInv, Emit, gap, Process, InGap
<1>7. InboxOrder'
  <2>1. proc \in {"up", "stopping"} /\ \E r \in Record : r.by \in {"live", "replay"} /\ r.id \in Ids /\ Emitted(r)
    BY EmitMoves
  <2>2. PICK r \in Record : r.by \in {"live", "replay"} /\ r.id \in Ids /\ Emitted(r)
    BY <2>1
  <2>3. PICK m \in Ids : m = r.id
    BY <2>2
  <2>4. /\ \A j \in Ids : copies'[j] = IF j = m THEN copies[j] + 1 ELSE copies[j]
        /\ \A j \in Ids : copies[j] \in Nat
    BY <2>2, <2>3 DEF Emitted, IInv, ReaderTypes
  <2>5. \A j \in Ids : live'[j] = IF j = m /\ r.by = "live" THEN IF live[m] = "gap" THEN "none" ELSE "written"
                                  ELSE live[j]
    BY <2>2, <2>3 DEF Emitted, IInv, StreamTypes
  <2>6. /\ r.by = "live" => live[m] \in {"plain", "gap"} /\ UNCHANGED fill
        /\ r.by = "replay" => /\ fill' = IF fill = "writing" THEN "written" ELSE fill
                              /\ proc = "up" => fill = "writing" /\ turn = m
                              /\ m \in shownGap \/ m <= mark
        /\ UNCHANGED <<posted, online, proc, mark, saved, titled, shownGap, openGaps, unfilled,
                       starting, todo, turn, inbox, repeatOK, cut, dropped, heard, faults>>
    BY <2>2, <2>3 DEF Emitted
  <2>7. \A i \in 1 .. Len(inbox) : inbox[i] \in Ids
    BY Elements DEF IInv
  <2>8. \A j \in Ids : live[j] = "none" => live'[j] = "none"
    BY <2>5, <2>6
  <2> QED BY <2>6, <2>7, <2>8 DEF IInv, InboxOrder
<1>8. QueueShape'
  <2>1. proc \in {"up", "stopping"} /\ \E r \in Record : r.by \in {"live", "replay"} /\ r.id \in Ids /\ Emitted(r)
    BY EmitMoves
  <2>2. PICK r \in Record : r.by \in {"live", "replay"} /\ r.id \in Ids /\ Emitted(r)
    BY <2>1
  <2>3. PICK m \in Ids : m = r.id
    BY <2>2
  <2>4. /\ \A j \in Ids : copies'[j] = IF j = m THEN copies[j] + 1 ELSE copies[j]
        /\ \A j \in Ids : copies[j] \in Nat
    BY <2>2, <2>3 DEF Emitted, IInv, ReaderTypes
  <2>5. \A j \in Ids : live'[j] = IF j = m /\ r.by = "live" THEN IF live[m] = "gap" THEN "none" ELSE "written"
                                  ELSE live[j]
    BY <2>2, <2>3 DEF Emitted, IInv, StreamTypes
  <2>6. /\ r.by = "live" => live[m] \in {"plain", "gap"} /\ UNCHANGED fill
        /\ r.by = "replay" => /\ fill' = IF fill = "writing" THEN "written" ELSE fill
                              /\ proc = "up" => fill = "writing" /\ turn = m
                              /\ m \in shownGap \/ m <= mark
        /\ UNCHANGED <<posted, online, proc, mark, saved, titled, shownGap, openGaps, unfilled,
                       starting, todo, turn, inbox, repeatOK, cut, dropped, heard, faults>>
    BY <2>2, <2>3 DEF Emitted
  <2>7. /\ Len(queue) \in Nat \ {0} /\ Len(queue') = Len(queue) - 1 /\ queue[1] = r
        /\ \A i \in 1 .. Len(queue) - 1 : queue'[i] = queue[i + 1]
    BY <2>2 DEF Emitted, Leaves
  <2>8. \A i \in 1 .. Len(queue') : i + 1 \in 1 .. Len(queue) /\ i + 1 # 1 /\ queue'[i] = queue[i + 1]
    BY <2>7
  <2>9. \A i, j \in 1 .. Len(queue') : queue'[i] = queue'[j] => i = j
    BY <2>8 DEF IInv, QueueShape
  <2> SUFFICES ASSUME NEW i \in 1 .. Len(queue')
               PROVE  IF queue'[i].by = "live" THEN live'[queue'[i].id] \in {"plain", "gap"}
                      ELSE /\ proc' # "stopping" => fill' = "writing" /\ queue'[i].id = turn'
                           /\ queue'[i].id \in shownGap' \/ queue'[i].id <= mark'
    BY <2>9 DEF QueueShape
  <2>10. PICK q \in Record : q = queue'[i] /\ q = queue[i + 1]
    BY <2>8, Elements DEF IInv
  <2>11. q # r
    BY <2>7, <2>8, <2>10 DEF IInv, QueueShape
  <2>12. q.by = r.by => q.id # r.id
    BY <2>11 DEF Record
  <2>13. q.id \in Ids /\ q.by \in {"live", "replay"}
    BY DEF Record
  <2>14. IF q.by = "live" THEN live[q.id] \in {"plain", "gap"}
         ELSE /\ proc # "stopping" => fill = "writing" /\ q.id = turn
              /\ q.id \in shownGap \/ q.id <= mark
    BY <2>8, <2>10 DEF IInv, QueueShape
  <2>15. CASE q.by = "live"
    BY <2>3, <2>5, <2>10, <2>12, <2>13, <2>14, <2>15
  <2>16. CASE q.by = "replay"
    <3>1. proc # "stopping" => r.by = "live"
      BY <2>1, <2>2, <2>3, <2>6, <2>12, <2>14, <2>16
    <3> QED BY <2>6, <2>10, <2>14, <2>16, <3>1
  <2> QED BY <2>13, <2>15, <2>16
<1>9. HandlersOfGaps'
  <2>1. proc \in {"up", "stopping"} /\ \E r \in Record : r.by \in {"live", "replay"} /\ r.id \in Ids /\ Emitted(r)
    BY EmitMoves
  <2>2. PICK r \in Record : r.by \in {"live", "replay"} /\ r.id \in Ids /\ Emitted(r)
    BY <2>1
  <2>3. PICK m \in Ids : m = r.id
    BY <2>2
  <2>4. /\ \A j \in Ids : copies'[j] = IF j = m THEN copies[j] + 1 ELSE copies[j]
        /\ \A j \in Ids : copies[j] \in Nat
    BY <2>2, <2>3 DEF Emitted, IInv, ReaderTypes
  <2>5. \A j \in Ids : live'[j] = IF j = m /\ r.by = "live" THEN IF live[m] = "gap" THEN "none" ELSE "written"
                                  ELSE live[j]
    BY <2>2, <2>3 DEF Emitted, IInv, StreamTypes
  <2>6. /\ r.by = "live" => live[m] \in {"plain", "gap"} /\ UNCHANGED fill
        /\ r.by = "replay" => /\ fill' = IF fill = "writing" THEN "written" ELSE fill
                              /\ proc = "up" => fill = "writing" /\ turn = m
                              /\ m \in shownGap \/ m <= mark
        /\ UNCHANGED <<posted, online, proc, mark, saved, titled, shownGap, openGaps, unfilled,
                       starting, todo, turn, inbox, repeatOK, cut, dropped, heard, faults>>
    BY <2>2, <2>3 DEF Emitted
  <2> QED BY <2>5, <2>6 DEF IInv, HandlersOfGaps, InGap, Plain
<1>10. Known'
  <2>1. proc \in {"up", "stopping"} /\ \E r \in Record : r.by \in {"live", "replay"} /\ r.id \in Ids /\ Emitted(r)
    BY EmitMoves
  <2>2. PICK r \in Record : r.by \in {"live", "replay"} /\ r.id \in Ids /\ Emitted(r)
    BY <2>1
  <2>3. PICK m \in Ids : m = r.id
    BY <2>2
  <2>4. /\ \A j \in Ids : copies'[j] = IF j = m THEN copies[j] + 1 ELSE copies[j]
        /\ \A j \in Ids : copies[j] \in Nat
    BY <2>2, <2>3 DEF Emitted, IInv, ReaderTypes
  <2>5. \A j \in Ids : live'[j] = IF j = m /\ r.by = "live" THEN IF live[m] = "gap" THEN "none" ELSE "written"
                                  ELSE live[j]
    BY <2>2, <2>3 DEF Emitted, IInv, StreamTypes
  <2>6. /\ r.by = "live" => live[m] \in {"plain", "gap"} /\ UNCHANGED fill
        /\ r.by = "replay" => /\ fill' = IF fill = "writing" THEN "written" ELSE fill
                              /\ proc = "up" => fill = "writing" /\ turn = m
                              /\ m \in shownGap \/ m <= mark
        /\ UNCHANGED <<posted, online, proc, mark, saved, titled, shownGap, openGaps, unfilled,
                       starting, todo, turn, inbox, repeatOK, cut, dropped, heard, faults>>
    BY <2>2, <2>3 DEF Emitted
  <2>7. ASSUME NEW j \in Ids, copies'[j] > 0, j \notin repeatOK
        PROVE  j <= mark \/ j \in shownGap \/ live'[j] = "written"
    <3>1. CASE j # m
      BY <2>4, <2>5, <2>7, <3>1 DEF IInv, Known
    <3>2. CASE j = m /\ r.by = "live"
      <4>1. live[m] = "gap" => m \in shownGap \/ m <= mark
        BY DEF IInv, HandlersOfGaps
      <4> QED BY <2>5, <3>2, <4>1
    <3>3. CASE j = m /\ r.by = "replay"
      BY <2>6, <3>3
    <3> QED BY <2>2, <3>1, <3>2, <3>3
  <2>8. ASSUME Asked', proc = "up", NEW j \in todo, j \notin shownGap \cup repeatOK
        PROVE  live'[j] = "none" /\ copies'[j] = 0
    <3>1. Asked /\ j \in Ids
      BY <2>2, <2>6, <2>8 DEF Asked, IInv, FillTypes
    <3>2. live[j] = "none" /\ copies[j] = 0
      BY <2>8, <3>1 DEF IInv, Known
    <3>3. j # m
      <4>1. r.by = "live" => j # m
        BY <2>6, <3>2
      <4>2. CASE r.by = "replay" /\ j = m
        <5>1. m <= mark
          BY <2>6, <2>8, <4>2
        <5>2. fill = "writing" /\ turn = m
          BY <2>6, <2>8, <4>2
        <5> QED BY <2>8, <4>2, <5>2 DEF IInv, Process
      <4> QED BY <2>2, <4>1, <4>2
    <3> QED BY <2>4, <2>5, <3>1, <3>2, <3>3
  <2> QED BY <2>6, <2>7, <2>8 DEF Known
<1>11. OneWay'
  <2>1. proc \in {"up", "stopping"} /\ \E r \in Record : r.by \in {"live", "replay"} /\ r.id \in Ids /\ Emitted(r)
    BY EmitMoves
  <2>2. PICK r \in Record : r.by \in {"live", "replay"} /\ r.id \in Ids /\ Emitted(r)
    BY <2>1
  <2>3. PICK m \in Ids : m = r.id
    BY <2>2
  <2>4. /\ \A j \in Ids : copies'[j] = IF j = m THEN copies[j] + 1 ELSE copies[j]
        /\ \A j \in Ids : copies[j] \in Nat
    BY <2>2, <2>3 DEF Emitted, IInv, ReaderTypes
  <2>5. \A j \in Ids : live'[j] = IF j = m /\ r.by = "live" THEN IF live[m] = "gap" THEN "none" ELSE "written"
                                  ELSE live[j]
    BY <2>2, <2>3 DEF Emitted, IInv, StreamTypes
  <2>6. /\ r.by = "live" => live[m] \in {"plain", "gap"} /\ UNCHANGED fill
        /\ r.by = "replay" => /\ fill' = IF fill = "writing" THEN "written" ELSE fill
                              /\ proc = "up" => fill = "writing" /\ turn = m
                              /\ m \in shownGap \/ m <= mark
        /\ UNCHANGED <<posted, online, proc, mark, saved, titled, shownGap, openGaps, unfilled,
                       starting, todo, turn, inbox, repeatOK, cut, dropped, heard, faults>>
    BY <2>2, <2>3 DEF Emitted
  <2>7. \A j \in Ids : AtSinkAgain(j)' => AtSinkAgain(j)
    BY <2>2, LeavesSink DEF Emitted
  <2>8. r.by = "replay" => AtSinkAgain(m) /\ ~AtSinkAgain(m)'
    BY <2>2, <2>3 DEF Emitted
  <2> SUFFICES ASSUME NEW j \in Ids \ repeatOK
               PROVE  /\ copies'[j] <= 1
                      /\ copies'[j] = 1 => ~Pending(j)' /\ ~AtSinkAgain(j)'
                      /\ Pending(j)' => ~AtSinkAgain(j)'
    BY <2>6 DEF OneWay
  <2>9. CASE j # m
    BY <2>4, <2>5, <2>7, <2>9 DEF IInv, OneWay, Pending
  <2>10. CASE j = m
    <3>1. copies[m] <= 1 /\ (copies[m] = 1 => ~Pending(m) /\ ~AtSinkAgain(m)) /\ (Pending(m) => ~AtSinkAgain(m))
      BY <2>10 DEF IInv, OneWay
    <3>2. CASE r.by = "live"
      <4>1. Pending(m) /\ ~Pending(m)'
        BY <2>5, <2>6, <3>2 DEF Pending
      <4>2. copies[m] = 0 /\ copies'[m] = 1
        BY <2>4, <3>1, <4>1
      <4> QED BY <2>7, <2>10, <3>1, <4>1, <4>2
    <3>3. CASE r.by = "replay"
      <4>1. ~Pending(m) /\ live'[m] = live[m]
        BY <2>5, <2>8, <3>1, <3>3
      <4>2. ~Pending(m)'
        BY <4>1 DEF Pending
      <4>3. copies[m] = 0 /\ copies'[m] = 1
        BY <2>4, <2>8, <3>1, <3>3
      <4> QED BY <2>8, <2>10, <3>3, <4>2, <4>3
    <3> QED BY <2>2, <3>2, <3>3
  <2> QED BY <2>9, <2>10
<1>12. WrittenIsGiven'
  <2>1. proc \in {"up", "stopping"} /\ \E r \in Record : r.by \in {"live", "replay"} /\ r.id \in Ids /\ Emitted(r)
    BY EmitMoves
  <2>2. PICK r \in Record : r.by \in {"live", "replay"} /\ r.id \in Ids /\ Emitted(r)
    BY <2>1
  <2>3. PICK m \in Ids : m = r.id
    BY <2>2
  <2>4. /\ \A j \in Ids : copies'[j] = IF j = m THEN copies[j] + 1 ELSE copies[j]
        /\ \A j \in Ids : copies[j] \in Nat
    BY <2>2, <2>3 DEF Emitted, IInv, ReaderTypes
  <2>5. \A j \in Ids : live'[j] = IF j = m /\ r.by = "live" THEN IF live[m] = "gap" THEN "none" ELSE "written"
                                  ELSE live[j]
    BY <2>2, <2>3 DEF Emitted, IInv, StreamTypes
  <2>6. /\ r.by = "live" => live[m] \in {"plain", "gap"} /\ UNCHANGED fill
        /\ r.by = "replay" => /\ fill' = IF fill = "writing" THEN "written" ELSE fill
                              /\ proc = "up" => fill = "writing" /\ turn = m
                              /\ m \in shownGap \/ m <= mark
        /\ UNCHANGED <<posted, online, proc, mark, saved, titled, shownGap, openGaps, unfilled,
                       starting, todo, turn, inbox, repeatOK, cut, dropped, heard, faults>>
    BY <2>2, <2>3 DEF Emitted
  <2> QED BY <2>4, <2>5 DEF IInv, WrittenIsGiven
<1>13. MarkCovers'
  BY Settles DEF IInv, Emit, marks, MarkCovers
<1>14. PlainCovers'
  <2>1. proc \in {"up", "stopping"} /\ \E r \in Record : r.by \in {"live", "replay"} /\ r.id \in Ids /\ Emitted(r)
    BY EmitMoves
  <2>2. PICK r \in Record : r.by \in {"live", "replay"} /\ r.id \in Ids /\ Emitted(r)
    BY <2>1
  <2>3. PICK m \in Ids : m = r.id
    BY <2>2
  <2>4. /\ \A j \in Ids : copies'[j] = IF j = m THEN copies[j] + 1 ELSE copies[j]
        /\ \A j \in Ids : copies[j] \in Nat
    BY <2>2, <2>3 DEF Emitted, IInv, ReaderTypes
  <2>5. \A j \in Ids : live'[j] = IF j = m /\ r.by = "live" THEN IF live[m] = "gap" THEN "none" ELSE "written"
                                  ELSE live[j]
    BY <2>2, <2>3 DEF Emitted, IInv, StreamTypes
  <2>6. /\ r.by = "live" => live[m] \in {"plain", "gap"} /\ UNCHANGED fill
        /\ r.by = "replay" => /\ fill' = IF fill = "writing" THEN "written" ELSE fill
                              /\ proc = "up" => fill = "writing" /\ turn = m
                              /\ m \in shownGap \/ m <= mark
        /\ UNCHANGED <<posted, online, proc, mark, saved, titled, shownGap, openGaps, unfilled,
                       starting, todo, turn, inbox, repeatOK, cut, dropped, heard, faults>>
    BY <2>2, <2>3 DEF Emitted
  <2>7. HasMark => \A j \in Ids : Settled(j) => Settled(j)'
    BY Settles

  <2>8. \A j \in Ids : Plain(j)' => Plain(j)
    BY <2>5, <2>6 DEF Plain
  <2> QED BY <2>7, <2>8 DEF IInv, PlainCovers
<1>15. ShownIsSettled'
  <2>1. proc \in {"up", "stopping"} /\ \E r \in Record : r.by \in {"live", "replay"} /\ r.id \in Ids /\ Emitted(r)
    BY EmitMoves
  <2>2. PICK r \in Record : r.by \in {"live", "replay"} /\ r.id \in Ids /\ Emitted(r)
    BY <2>1
  <2>3. PICK m \in Ids : m = r.id
    BY <2>2
  <2>4. /\ \A j \in Ids : copies'[j] = IF j = m THEN copies[j] + 1 ELSE copies[j]
        /\ \A j \in Ids : copies[j] \in Nat
    BY <2>2, <2>3 DEF Emitted, IInv, ReaderTypes
  <2>5. \A j \in Ids : live'[j] = IF j = m /\ r.by = "live" THEN IF live[m] = "gap" THEN "none" ELSE "written"
                                  ELSE live[j]
    BY <2>2, <2>3 DEF Emitted, IInv, StreamTypes
  <2>6. /\ r.by = "live" => live[m] \in {"plain", "gap"} /\ UNCHANGED fill
        /\ r.by = "replay" => /\ fill' = IF fill = "writing" THEN "written" ELSE fill
                              /\ proc = "up" => fill = "writing" /\ turn = m
                              /\ m \in shownGap \/ m <= mark
        /\ UNCHANGED <<posted, online, proc, mark, saved, titled, shownGap, openGaps, unfilled,
                       starting, todo, turn, inbox, repeatOK, cut, dropped, heard, faults>>
    BY <2>2, <2>3 DEF Emitted
  <2>7. HasMark => \A j \in Ids : Settled(j) => Settled(j)'
    BY Settles

  <2>8. HasMark /\ proc = "up" => \A j \in Ids : Turned(j) => Turned(j)' \/ Settled(j)'
    <3> SUFFICES ASSUME proc = "up", NEW j \in Ids, Turned(j) PROVE Turned(j)' \/ Settled(j)'
      OBVIOUS
    <3>1. CASE r.by = "live"
      BY <2>6, <3>1 DEF Turned
    <3>2. CASE r.by = "replay"
      <4>1. j = m
        BY <2>6, <3>2 DEF Turned
      <4>2. copies'[m] > 0
        BY <2>4
      <4> QED BY <4>1, <4>2 DEF Settled
    <3> QED BY <2>2, <3>1, <3>2

  <2> QED BY <2>6, <2>7, <2>8 DEF IInv, ShownIsSettled, GapTypes
<1>16. Replayed'
  <2>1. proc \in {"up", "stopping"} /\ \E r \in Record : r.by \in {"live", "replay"} /\ r.id \in Ids /\ Emitted(r)
    BY EmitMoves
  <2>2. PICK r \in Record : r.by \in {"live", "replay"} /\ r.id \in Ids /\ Emitted(r)
    BY <2>1
  <2>3. PICK m \in Ids : m = r.id
    BY <2>2
  <2>4. /\ \A j \in Ids : copies'[j] = IF j = m THEN copies[j] + 1 ELSE copies[j]
        /\ \A j \in Ids : copies[j] \in Nat
    BY <2>2, <2>3 DEF Emitted, IInv, ReaderTypes
  <2>5. \A j \in Ids : live'[j] = IF j = m /\ r.by = "live" THEN IF live[m] = "gap" THEN "none" ELSE "written"
                                  ELSE live[j]
    BY <2>2, <2>3 DEF Emitted, IInv, StreamTypes
  <2>6. /\ r.by = "live" => live[m] \in {"plain", "gap"} /\ UNCHANGED fill
        /\ r.by = "replay" => /\ fill' = IF fill = "writing" THEN "written" ELSE fill
                              /\ proc = "up" => fill = "writing" /\ turn = m
                              /\ m \in shownGap \/ m <= mark
        /\ UNCHANGED <<posted, online, proc, mark, saved, titled, shownGap, openGaps, unfilled,
                       starting, todo, turn, inbox, repeatOK, cut, dropped, heard, faults>>
    BY <2>2, <2>3 DEF Emitted
  <2>7. HasMark => \A j \in Ids : Settled(j) => Settled(j)'
    BY Settles

  <2>8. HasMark /\ proc = "up" => \A j \in Ids : Turned(j) => Turned(j)' \/ Settled(j)'
    <3> SUFFICES ASSUME proc = "up", NEW j \in Ids, Turned(j) PROVE Turned(j)' \/ Settled(j)'
      OBVIOUS
    <3>1. CASE r.by = "live"
      BY <2>6, <3>1 DEF Turned
    <3>2. CASE r.by = "replay"
      <4>1. j = m
        BY <2>6, <3>2 DEF Turned
      <4>2. copies'[m] > 0
        BY <2>4
      <4> QED BY <4>1, <4>2 DEF Settled
    <3> QED BY <2>2, <3>1, <3>2

  <2> SUFFICES ASSUME HasMark, proc = "up"
               PROVE  /\ Asked' => \A n \in todo', j \in Ids : j < n => (j \in todo \/ Settled(j) \/ Turned(j))'
                      /\ fill' \in {"writing", "written"} =>
                           /\ turn' \in shownGap' /\ \A n \in todo' : turn' < n
                           /\ \A j \in Ids : j < turn' => Settled(j)'
                      /\ fill' = "written" => Settled(turn)'
    BY <2>6 DEF Replayed
  <2>9. fill' = fill \/ (fill = "writing" /\ fill' = "written" /\ turn = m /\ r.by = "replay")
    BY <2>2, <2>6
  <2>10. Asked' => Asked
    BY <2>9 DEF Asked
  <2>11. Asked' => \A n \in todo', j \in Ids : j < n => (j \in todo \/ Settled(j) \/ Turned(j))'
    BY <2>6, <2>7, <2>8, <2>10 DEF IInv, Replayed
  <2>12. fill' \in {"writing", "written"} =>
           /\ turn' \in shownGap' /\ \A n \in todo' : turn' < n
           /\ \A j \in Ids : j < turn' => Settled(j)'
    BY <2>6, <2>7, <2>9 DEF IInv, Replayed
  <2>13. fill' = "written" => Settled(turn)'
    <3>1. CASE fill = "written"
      <4>1. Settled(turn) /\ turn \in Ids
        BY <3>1 DEF IInv, Replayed, GapTypes
      <4>2. PICK q \in Ids : q = turn
        BY <4>1
      <4> QED BY <2>6, <2>7, <4>1, <4>2
    <3>2. CASE fill # "written" /\ fill' = "written"
      <4>1. turn' = m /\ copies'[m] > 0
        BY <2>4, <2>6, <2>9, <3>2
      <4> QED BY <4>1 DEF Settled
    <3> QED BY <3>1, <3>2
  <2> QED BY <2>11, <2>12, <2>13
<1>17. FillingUp'
  <2>1. proc \in {"up", "stopping"} /\ \E r \in Record : r.by \in {"live", "replay"} /\ r.id \in Ids /\ Emitted(r)
    BY EmitMoves
  <2>2. PICK r \in Record : r.by \in {"live", "replay"} /\ r.id \in Ids /\ Emitted(r)
    BY <2>1
  <2>3. PICK m \in Ids : m = r.id
    BY <2>2
  <2>4. /\ \A j \in Ids : copies'[j] = IF j = m THEN copies[j] + 1 ELSE copies[j]
        /\ \A j \in Ids : copies[j] \in Nat
    BY <2>2, <2>3 DEF Emitted, IInv, ReaderTypes
  <2>5. \A j \in Ids : live'[j] = IF j = m /\ r.by = "live" THEN IF live[m] = "gap" THEN "none" ELSE "written"
                                  ELSE live[j]
    BY <2>2, <2>3 DEF Emitted, IInv, StreamTypes
  <2>6. /\ r.by = "live" => live[m] \in {"plain", "gap"} /\ UNCHANGED fill
        /\ r.by = "replay" => /\ fill' = IF fill = "writing" THEN "written" ELSE fill
                              /\ proc = "up" => fill = "writing" /\ turn = m
                              /\ m \in shownGap \/ m <= mark
        /\ UNCHANGED <<posted, online, proc, mark, saved, titled, shownGap, openGaps, unfilled,
                       starting, todo, turn, inbox, repeatOK, cut, dropped, heard, faults>>
    BY <2>2, <2>3 DEF Emitted
  <2>7. HasMark => \A j \in Ids : Settled(j) => Settled(j)'
    BY Settles

  <2>8. HasMark /\ proc = "up" => \A j \in Ids : Turned(j) => Turned(j)' \/ Settled(j)'
    <3> SUFFICES ASSUME proc = "up", NEW j \in Ids, Turned(j) PROVE Turned(j)' \/ Settled(j)'
      OBVIOUS
    <3>1. CASE r.by = "live"
      BY <2>6, <3>1 DEF Turned
    <3>2. CASE r.by = "replay"
      <4>1. j = m
        BY <2>6, <3>2 DEF Turned
      <4>2. copies'[m] > 0
        BY <2>4
      <4> QED BY <4>1, <4>2 DEF Settled
    <3> QED BY <2>2, <3>1, <3>2

  <2>9. mark \in Nat
    BY DEF IInv, MarkTypes
  <2>10. CASE Asked /\ proc = "up"
    <3>1. FillingUp /\ IInv
      BY DEF IInv
    <3>2. \A j \in Ids : live'[j] # "none" => live[j] # "none"
      BY <2>5, <2>6
    <3> QED BY <2>6, <2>7, <2>8, <2>9, <2>10, <3>1, <3>2, FillingStays DEF Asked
  <2>11. CASE ~(Asked /\ proc = "up")
    BY <2>2, <2>6, <2>11 DEF FillingUp, Asked
  <2> QED BY <2>10, <2>11
<1>18. Following'
  <2>1. proc \in {"up", "stopping"} /\ \E r \in Record : r.by \in {"live", "replay"} /\ r.id \in Ids /\ Emitted(r)
    BY EmitMoves
  <2>2. PICK r \in Record : r.by \in {"live", "replay"} /\ r.id \in Ids /\ Emitted(r)
    BY <2>1
  <2>3. PICK m \in Ids : m = r.id
    BY <2>2
  <2>4. /\ \A j \in Ids : copies'[j] = IF j = m THEN copies[j] + 1 ELSE copies[j]
        /\ \A j \in Ids : copies[j] \in Nat
    BY <2>2, <2>3 DEF Emitted, IInv, ReaderTypes
  <2>5. \A j \in Ids : live'[j] = IF j = m /\ r.by = "live" THEN IF live[m] = "gap" THEN "none" ELSE "written"
                                  ELSE live[j]
    BY <2>2, <2>3 DEF Emitted, IInv, StreamTypes
  <2>6. /\ r.by = "live" => live[m] \in {"plain", "gap"} /\ UNCHANGED fill
        /\ r.by = "replay" => /\ fill' = IF fill = "writing" THEN "written" ELSE fill
                              /\ proc = "up" => fill = "writing" /\ turn = m
                              /\ m \in shownGap \/ m <= mark
        /\ UNCHANGED <<posted, online, proc, mark, saved, titled, shownGap, openGaps, unfilled,
                       starting, todo, turn, inbox, repeatOK, cut, dropped, heard, faults>>
    BY <2>2, <2>3 DEF Emitted
  <2>7. HasMark => \A j \in Ids : Settled(j) => Settled(j)'
    BY Settles

  <2>8. Following /\ IInv /\ mark \in Nat
    BY DEF IInv, MarkTypes
  <2>9. \A j \in Ids : live'[j] # "none" => live[j] # "none"
    BY <2>5, <2>6
  <2>10. \A j \in Ids : Plain(j) => Plain(j)'
    BY <2>5, <2>6 DEF Plain
  <2> QED BY <2>6, <2>7, <2>8, <2>9, <2>10, FollowingStays
<1> QED BY <1>1, <1>2, <1>3, <1>4, <1>5, <1>6, <1>7, <1>8, <1>9, <1>10, <1>11, <1>12, <1>13,
     <1>14, <1>15, <1>16, <1>17, <1>18 DEF IInv

LEMMA NoteLiveStep ==
  ASSUME IInv, NEW m \in Ids, NoteLive(m)
  PROVE  IInv'
<1>1. WorldTypes' /\ GapTypes' /\ FillTypes' /\ ReaderTypes'
  BY Kept DEF IInv, NoteLive, world, gap, replay, reader
<1>2. MarkTypes'
  BY DEF IInv, NoteLive, PassOver, reader, Noted, MaybeSave, Later,
     MarkTypes, Ids
<1>3. StreamTypes'
  BY DEF IInv, NoteLive, StreamTypes
<1>4. Posted'
  BY DEF IInv, NoteLive, PassOver, world, gap, replay, reader, Noted,
     MaybeSave, Later, Posted, MarkTypes
<1>5. Process'
  BY DEF IInv, NoteLive, gap, replay, Process, InGap
<1>6. InboxOrder'
  BY DEF IInv, NoteLive, world, InboxOrder
<1>7. QueueShape'
  <2>1. /\ live[m] = "written" /\ live' = [live EXCEPT ![m] = "none"]
        /\ mark' = Later(mark, m) /\ saved' \in {saved, mark'}
        /\ UNCHANGED <<posted, online, proc, shownGap, openGaps, unfilled, fill, starting, todo, turn,
                       inbox, queue, copies, repeatOK, cut, dropped, heard>>
    BY DEF NoteLive, PassOver, MaybeSave, Noted, world, gap, replay, reader
  <2>2. /\ mark \in Nat /\ mark' \in Nat /\ mark <= mark' /\ m <= mark' /\ mark' \in {mark, m}
        /\ \A j \in Ids : j \in Nat
    BY <2>1, WatchAssumption DEF Later, IInv, MarkTypes, Ids
  <2>3. \A j \in Ids : live'[j] = IF j = m THEN "none" ELSE live[j]
    BY <2>1 DEF IInv, StreamTypes

  <2>4. \A i \in 1 .. Len(queue) : queue[i].id \in Ids
    BY Elements DEF IInv, Record
  <2>5. \A j \in Ids : live[j] \in {"plain", "gap"} => live'[j] \in {"plain", "gap"}
    BY <2>1, <2>3
  <2>6. \A j \in Ids : j \in shownGap \/ j <= mark => j \in shownGap' \/ j <= mark'
    BY <2>1, <2>2
  <2> QED BY <2>1, <2>4, <2>5, <2>6 DEF IInv, QueueShape
<1>8. HandlersOfGaps'
  BY DEF IInv, NoteLive, PassOver, gap, reader, Noted, Later,
     HandlersOfGaps, Ids, InGap, Plain, MarkTypes
<1>9. Known'
  BY DEF IInv, NoteLive, PassOver, gap, replay, reader, Noted, Later, Known,
     Ids, Asked, MarkTypes
<1>10. OneWay'
  BY DEF IInv, NoteLive, reader, OneWay, Pending, AtSinkAgain
<1>11. WrittenIsGiven'
  BY DEF IInv, NoteLive, reader, WrittenIsGiven
<1>12. MarkCovers'
  <2>1. /\ live[m] = "written" /\ live' = [live EXCEPT ![m] = "none"]
        /\ mark' = Later(mark, m) /\ saved' \in {saved, mark'}
        /\ UNCHANGED <<posted, online, proc, shownGap, openGaps, unfilled, fill, starting, todo, turn,
                       inbox, queue, copies, repeatOK, cut, dropped, heard>>
    BY DEF NoteLive, PassOver, MaybeSave, Noted, world, gap, replay, reader
  <2>2. /\ mark \in Nat /\ mark' \in Nat /\ mark <= mark' /\ m <= mark' /\ mark' \in {mark, m}
        /\ \A j \in Ids : j \in Nat
    BY <2>1, WatchAssumption DEF Later, IInv, MarkTypes, Ids
  <2>3. \A j \in Ids : live'[j] = IF j = m THEN "none" ELSE live[j]
    BY <2>1 DEF IInv, StreamTypes

  <2>4. HasMark => \A j \in Ids : Settled(j) => Settled(j)'
    BY Settles

  <2> SUFFICES ASSUME HasMark
               PROVE  heard' = InitMark /\ saved' > 0 /\ \A j \in Ids : j <= mark' => Settled(j)'
    BY DEF MarkCovers
  <2>5. heard' = InitMark /\ saved' > 0
    BY <2>1, <2>2 DEF IInv, MarkCovers, Ids, MarkTypes, Posted
  <2>6. Settled(m)
    BY <2>1 DEF Settled
  <2>7. \A j \in Ids : j <= mark' => j <= mark \/ j < m \/ j = m
    BY <2>2
  <2>8. \A j \in Ids : j < m => Settled(j)
    BY <2>1 DEF IInv, PlainCovers, Plain
  <2> QED BY <2>4, <2>5, <2>6, <2>7, <2>8 DEF IInv, MarkCovers
<1>13. PlainCovers'
  BY Settles DEF IInv, NoteLive, PlainCovers, Plain, StreamTypes
<1>14. ShownIsSettled'
  BY Settles DEF IInv, NoteLive, gap, replay, ShownIsSettled, Turned,
     GapTypes
<1>15. Replayed'
  BY Settles DEF IInv, NoteLive, gap, replay, Replayed, Asked, Turned,
     GapTypes
<1>16. FillingUp'
  <2>1. /\ live[m] = "written" /\ live' = [live EXCEPT ![m] = "none"]
        /\ mark' = Later(mark, m) /\ saved' \in {saved, mark'}
        /\ UNCHANGED <<posted, online, proc, shownGap, openGaps, unfilled, fill, starting, todo, turn,
                       inbox, queue, copies, repeatOK, cut, dropped, heard>>
    BY DEF NoteLive, PassOver, MaybeSave, Noted, world, gap, replay, reader
  <2>2. /\ mark \in Nat /\ mark' \in Nat /\ mark <= mark' /\ m <= mark' /\ mark' \in {mark, m}
        /\ \A j \in Ids : j \in Nat
    BY <2>1, WatchAssumption DEF Later, IInv, MarkTypes, Ids
  <2>3. \A j \in Ids : live'[j] = IF j = m THEN "none" ELSE live[j]
    BY <2>1 DEF IInv, StreamTypes

  <2>4. HasMark => \A j \in Ids : Settled(j) => Settled(j)'
    BY Settles

  <2>5. CASE Asked
    <3>1. FillingUp /\ IInv
      BY DEF IInv
    <3>2. \A j \in Ids : live'[j] # "none" => live[j] # "none"
      BY <2>3
    <3>3. mark' = mark \/ \E n \in Ids : n = mark' /\ live[n] # "none"
      BY <2>1, <2>2
    <3> QED BY <2>1, <2>2, <2>4, <2>5, <3>1, <3>2, <3>3, FillingStays DEF Asked, Turned
  <2>6. CASE ~Asked
    BY <2>1, <2>6 DEF FillingUp, Asked
  <2> QED BY <2>5, <2>6
<1>17. Following'
  <2>1. /\ live[m] = "written" /\ live' = [live EXCEPT ![m] = "none"]
        /\ mark' = Later(mark, m) /\ saved' \in {saved, mark'}
        /\ UNCHANGED <<posted, online, proc, shownGap, openGaps, unfilled, fill, starting, todo, turn,
                       inbox, queue, copies, repeatOK, cut, dropped, heard>>
    BY DEF NoteLive, PassOver, MaybeSave, Noted, world, gap, replay, reader
  <2>2. /\ mark \in Nat /\ mark' \in Nat /\ mark <= mark' /\ m <= mark' /\ mark' \in {mark, m}
        /\ \A j \in Ids : j \in Nat
    BY <2>1, WatchAssumption DEF Later, IInv, MarkTypes, Ids
  <2>3. \A j \in Ids : live'[j] = IF j = m THEN "none" ELSE live[j]
    BY <2>1 DEF IInv, StreamTypes

  <2>4. HasMark => \A j \in Ids : Settled(j) => Settled(j)'
    BY Settles

  <2>5. Following /\ IInv
    BY DEF IInv
  <2>6. \A j \in Ids : live'[j] # "none" => live[j] # "none"
    BY <2>3
  <2>7. mark' = mark \/ \E n \in Ids : n = mark' /\ live[n] # "none"
    BY <2>1, <2>2
  <2>8. \A j \in Ids : Plain(j) => Plain(j)' \/ j <= mark'
    BY <2>2, <2>3 DEF Plain
  <2> QED BY <2>1, <2>2, <2>4, <2>5, <2>6, <2>7, <2>8, FollowingStays
<1> QED BY <1>1, <1>2, <1>3, <1>4, <1>5, <1>6, <1>7, <1>8, <1>9, <1>10, <1>11, <1>12, <1>13,
     <1>14, <1>15, <1>16, <1>17 DEF IInv

LEMMA AcquireFillingStep ==
  ASSUME IInv, AcquireFilling
  PROVE  IInv'
<1>1. WorldTypes' /\ MarkTypes' /\ GapTypes' /\ StreamTypes' /\ ReaderTypes' /\ Posted' /\ InboxOrder' /\ HandlersOfGaps' /\ OneWay' /\ WrittenIsGiven' /\ MarkCovers' /\ PlainCovers' /\ Following'
  BY Kept, KeptSame DEF IInv, AcquireFilling, world, marks, gap, reader
<1>2. FillTypes'
  BY DEF IInv, AcquireFilling, FillTypes
<1>3. Process'
  BY DEF AcquireFilling, gap, Process, InGap
<1>4. QueueShape'
  BY DEF IInv, AcquireFilling, QueueShape
<1>5. Known'
  BY DEF IInv, AcquireFilling, marks, gap, reader, Known, Asked
<1>6. ShownIsSettled'
  BY Settles DEF IInv, AcquireFilling, gap, ShownIsSettled, Turned, GapTypes
<1>7. Replayed'
  BY DEF AcquireFilling, Replayed, Asked
<1>8. FillingUp'
  BY DEF AcquireFilling, FillingUp, Asked
<1> QED BY <1>1, <1>2, <1>3, <1>4, <1>5, <1>6, <1>7, <1>8 DEF IInv

LEMMA AskStep ==
  ASSUME IInv, Ask
  PROVE  IInv'
<1>1. MarkTypes' /\ GapTypes' /\ StreamTypes' /\ InboxOrder' /\ HandlersOfGaps' /\ OneWay' /\ WrittenIsGiven'
  BY Kept DEF IInv, Ask, world, marks, gap
<1>2. WorldTypes'
  BY DEF IInv, Ask, world, WorldTypes
<1>3. FillTypes'
  <2>1. /\ proc = "up" /\ online /\ fill = "asking" /\ fill' = "replaying"
        /\ todo' = Latest /\ cut' = cut \cup (Missed \ Latest)
        /\ UNCHANGED <<posted, online, proc, mark, saved, shownGap, openGaps, unfilled, starting, turn,
                       inbox, live, queue, copies, repeatOK, dropped, heard>>
    BY DEF Ask, world, marks, gap
  <2>2. mark \in Nat /\ posted \in 0 .. MaxMsg /\ posted \in Nat /\ \A j \in Ids : j \in Nat
    BY WatchAssumption DEF IInv, MarkTypes, WorldTypes, Ids
  <2>3. /\ Missed \subseteq Ids /\ Latest \subseteq Missed
        /\ \A j \in Missed : mark < j /\ j <= posted
    BY <2>2, WatchAssumption DEF Missed, Latest, Ids
  <2>4. todo' \subseteq Ids
    BY <2>1, <2>3
  <2> QED BY <2>1, <2>4 DEF IInv, FillTypes
<1>4. ReaderTypes'
  <2>1. /\ proc = "up" /\ online /\ fill = "asking" /\ fill' = "replaying"
        /\ todo' = Latest /\ cut' = cut \cup (Missed \ Latest)
        /\ UNCHANGED <<posted, online, proc, mark, saved, shownGap, openGaps, unfilled, starting, turn,
                       inbox, live, queue, copies, repeatOK, dropped, heard>>
    BY DEF Ask, world, marks, gap
  <2>2. mark \in Nat /\ posted \in 0 .. MaxMsg /\ posted \in Nat /\ \A j \in Ids : j \in Nat
    BY WatchAssumption DEF IInv, MarkTypes, WorldTypes, Ids
  <2>3. /\ Missed \subseteq Ids /\ Latest \subseteq Missed
        /\ \A j \in Missed : mark < j /\ j <= posted
    BY <2>2, WatchAssumption DEF Missed, Latest, Ids
  <2>4. cut' \subseteq Ids
    BY <2>1, <2>3 DEF IInv, ReaderTypes
  <2> QED BY <2>1, <2>4 DEF IInv, ReaderTypes
<1>5. Posted'
  BY DEF IInv, Ask, Latest, Missed, world, marks, gap, Posted
<1>6. Process'
  BY DEF IInv, Ask, gap, Process, InGap
<1>7. QueueShape'
  BY DEF IInv, Ask, QueueShape
<1>8. Known'
  <2>1. /\ proc = "up" /\ online /\ fill = "asking" /\ fill' = "replaying"
        /\ todo' = Latest /\ cut' = cut \cup (Missed \ Latest)
        /\ UNCHANGED <<posted, online, proc, mark, saved, shownGap, openGaps, unfilled, starting, turn,
                       inbox, live, queue, copies, repeatOK, dropped, heard>>
    BY DEF Ask, world, marks, gap
  <2>2. mark \in Nat /\ posted \in 0 .. MaxMsg /\ posted \in Nat /\ \A j \in Ids : j \in Nat
    BY WatchAssumption DEF IInv, MarkTypes, WorldTypes, Ids
  <2>3. /\ Missed \subseteq Ids /\ Latest \subseteq Missed
        /\ \A j \in Missed : mark < j /\ j <= posted
    BY <2>2, WatchAssumption DEF Missed, Latest, Ids
  <2>4. ASSUME NEW m \in Latest, m \notin shownGap \cup repeatOK
        PROVE  live[m] = "none" /\ copies[m] = 0
    <3>1. m \in Ids /\ m > mark /\ mark \in Nat /\ m \in Nat
      BY <2>2, <2>3
    <3>2. copies[m] \in Nat
      BY <3>1 DEF IInv, ReaderTypes
    <3>3. InGap
      BY <2>1 DEF InGap, IInv, Process, GapTypes
    <3>4. live[m] = "none"
      <4>1. ~Plain(m)
        BY <2>4, <3>1, <3>3 DEF IInv, HandlersOfGaps
      <4>2. live[m] \notin {"gap", "gapname"}
        BY <2>4, <3>1 DEF IInv, HandlersOfGaps
      <4> QED BY <3>1, <4>1, <4>2 DEF Plain, IInv, StreamTypes
    <3>5. copies[m] = 0
      BY <2>4, <3>1, <3>2, <3>4 DEF IInv, Known
    <3> QED BY <3>4, <3>5
  <2> QED BY <2>1, <2>4 DEF IInv, Known, Asked
<1>9. MarkCovers'
  BY Settles DEF IInv, Ask, marks, MarkCovers
<1>10. PlainCovers'
  BY Settles DEF IInv, Ask, PlainCovers, Plain
<1>11. ShownIsSettled'
  BY Settles DEF IInv, Ask, gap, ShownIsSettled, Turned, GapTypes
<1>12. Replayed'
  <2>1. /\ proc = "up" /\ online /\ fill = "asking" /\ fill' = "replaying"
        /\ todo' = Latest /\ cut' = cut \cup (Missed \ Latest)
        /\ UNCHANGED <<posted, online, proc, mark, saved, shownGap, openGaps, unfilled, starting, turn,
                       inbox, live, queue, copies, repeatOK, dropped, heard>>
    BY DEF Ask, world, marks, gap
  <2>2. mark \in Nat /\ posted \in 0 .. MaxMsg /\ posted \in Nat /\ \A j \in Ids : j \in Nat
    BY WatchAssumption DEF IInv, MarkTypes, WorldTypes, Ids
  <2>3. /\ Missed \subseteq Ids /\ Latest \subseteq Missed
        /\ \A j \in Missed : mark < j /\ j <= posted
    BY <2>2, WatchAssumption DEF Missed, Latest, Ids
  <2>4. HasMark => \A j \in Ids : Settled(j) => Settled(j)'
    BY Settles
  <2>5. HasMark => \A j \in Ids : j <= posted => j \in todo' \/ Settled(j)'
    <3> SUFFICES ASSUME HasMark, NEW j \in Ids, j <= posted PROVE j \in todo' \/ Settled(j)'
      OBVIOUS
    <3>1. CASE j <= mark
      BY <2>4, <3>1 DEF IInv, MarkCovers
    <3>2. CASE ~(j <= mark)
      <4>1. mark # 0
        BY <2>2 DEF IInv, MarkCovers, MarkTypes, Posted
      <4>2. j \in Missed
        BY <2>2, <3>2, <4>1 DEF Missed
      <4>3. j \in Latest \/ j \in cut'
        BY <2>1, <4>2
      <4> QED BY <2>1, <4>3 DEF Settled
    <3> QED BY <3>1, <3>2

  <2>6. HasMark => \A n \in todo', j \in Ids : j < n => j \in todo' \/ Settled(j)'
    BY <2>1, <2>2, <2>3, <2>5
  <2> QED BY <2>1, <2>6 DEF Replayed
<1>13. FillingUp'
  <2>1. /\ proc = "up" /\ online /\ fill = "asking" /\ fill' = "replaying"
        /\ todo' = Latest /\ cut' = cut \cup (Missed \ Latest)
        /\ UNCHANGED <<posted, online, proc, mark, saved, shownGap, openGaps, unfilled, starting, turn,
                       inbox, live, queue, copies, repeatOK, dropped, heard>>
    BY DEF Ask, world, marks, gap
  <2>2. mark \in Nat /\ posted \in 0 .. MaxMsg /\ posted \in Nat /\ \A j \in Ids : j \in Nat
    BY WatchAssumption DEF IInv, MarkTypes, WorldTypes, Ids
  <2>3. /\ Missed \subseteq Ids /\ Latest \subseteq Missed
        /\ \A j \in Missed : mark < j /\ j <= posted
    BY <2>2, WatchAssumption DEF Missed, Latest, Ids
  <2>4. HasMark => \A j \in Ids : Settled(j) => Settled(j)'
    BY Settles
  <2>5. HasMark => \A j \in Ids : j <= posted => j \in todo' \/ Settled(j)'
    <3> SUFFICES ASSUME HasMark, NEW j \in Ids, j <= posted PROVE j \in todo' \/ Settled(j)'
      OBVIOUS
    <3>1. CASE j <= mark
      BY <2>4, <3>1 DEF IInv, MarkCovers
    <3>2. CASE ~(j <= mark)
      <4>1. mark # 0
        BY <2>2 DEF IInv, MarkCovers, MarkTypes, Posted
      <4>2. j \in Missed
        BY <2>2, <3>2, <4>1 DEF Missed
      <4>3. j \in Latest \/ j \in cut'
        BY <2>1, <4>2
      <4> QED BY <2>1, <4>3 DEF Settled
    <3> QED BY <3>1, <3>2

  <2> SUFFICES ASSUME HasMark
               PROVE  \E h, r \in 0 .. MaxMsg :
                        /\ Frontier(h, r)'
                        /\ \A j \in Ids : j <= h => (j \in todo \/ Settled(j) \/ Turned(j))'
                        /\ h <= mark' \/ h \in (shownGap \cup todo)'
    BY DEF FillingUp
  <2>6. PICK h \in 0 .. MaxMsg : h = posted
    BY <2>2
  <2>7. Frontier(h, h)'
    <3>1. h <= posted' /\ h = posted' /\ mark' <= h
      BY <2>1, <2>2, <2>6 DEF IInv, Posted
    <3>2. \A j \in Ids : ~(h < j /\ j <= h)
      BY <2>2, <2>6
    <3>3. \A i \in 1 .. Len(inbox') : inbox'[i] <= h
      BY <2>1, <2>6 DEF IInv, InboxOrder
    <3>4. \A j \in Ids : j \in shownGap' \cup todo' \/ live'[j] # "none" => j <= h
      BY <2>1, <2>3, <2>6 DEF IInv, Posted
    <3> QED BY <2>1, <2>6, <3>1, <3>2, <3>3, <3>4 DEF Frontier
  <2>8. h <= mark' \/ h \in todo'
    <3>1. mark # 0
      BY <2>2 DEF IInv, MarkCovers, MarkTypes, Posted
    <3>2. CASE h <= mark
      BY <2>1, <3>2
    <3>3. CASE ~(h <= mark)
      <4>1. h \in Missed /\ h + CatchupLimit > posted
        BY <2>2, <2>6, <3>1, <3>3, WatchAssumption DEF Missed
      <4> QED BY <2>1, <4>1 DEF Latest
    <3> QED BY <3>2, <3>3
  <2> QED BY <2>5, <2>6, <2>7, <2>8
<1>14. Following'
  BY DEF IInv, Ask, gap, Following, InGap, Process
<1> QED BY <1>1, <1>2, <1>3, <1>4, <1>5, <1>6, <1>7, <1>8, <1>9, <1>10, <1>11, <1>12, <1>13,
     <1>14 DEF IInv

LEMMA ReplayNextStep ==
  ASSUME IInv, NEW m \in Ids, ReplayNext(m)
  PROVE  IInv'
<1>1. WorldTypes' /\ ReaderTypes' /\ InboxOrder' /\ WrittenIsGiven' /\ PlainCovers'
  BY Kept DEF IInv, ReplayNext, world, reader
<1>2. MarkTypes'
  <2>1. Replays(m)
    BY ReplayMoves
  <2>2. /\ mark \in Nat /\ mark' \in Nat /\ mark <= mark' /\ (mark' = mark \/ (mark' = m /\ mark < m))
        /\ \A j \in Ids : j \in Nat
    BY <2>1, WatchAssumption DEF Replays, Later, IInv, MarkTypes, Ids
  <2>3. /\ proc = "up" /\ fill = "replaying" /\ m \in todo /\ \A i \in todo : m <= i
        /\ todo' = todo \ {m} /\ turn' = m
        /\ shownGap \subseteq shownGap' /\ shownGap' \subseteq shownGap \cup {m} /\ m \in shownGap'
        /\ UNCHANGED <<posted, online, proc, titled, openGaps, unfilled, starting, inbox, live, copies,
                       repeatOK, cut, dropped, heard>>
    BY <2>1 DEF Replays
  <2>4. m \in 0 .. MaxMsg /\ saved' \in {saved, mark'}
    BY <2>1, WatchAssumption DEF Replays, Ids
  <2> QED BY <2>2, <2>3, <2>4 DEF IInv, MarkTypes
<1>3. GapTypes'
  BY DEF IInv, ReplayNext, GapTypes
<1>4. FillTypes'
  BY DEF IInv, ReplayNext, FillTypes, Ids
<1>5. StreamTypes'
  <2>1. Replays(m)
    BY ReplayMoves
  <2>2. /\ mark \in Nat /\ mark' \in Nat /\ mark <= mark' /\ (mark' = mark \/ (mark' = m /\ mark < m))
        /\ \A j \in Ids : j \in Nat
    BY <2>1, WatchAssumption DEF Replays, Later, IInv, MarkTypes, Ids
  <2>3. /\ proc = "up" /\ fill = "replaying" /\ m \in todo /\ \A i \in todo : m <= i
        /\ todo' = todo \ {m} /\ turn' = m
        /\ shownGap \subseteq shownGap' /\ shownGap' \subseteq shownGap \cup {m} /\ m \in shownGap'
        /\ UNCHANGED <<posted, online, proc, titled, openGaps, unfilled, starting, inbox, live, copies,
                       repeatOK, cut, dropped, heard>>
    BY <2>1 DEF Replays
  <2>4. queue' \in Seq(Record)
    BY <2>1, Elements DEF Replays, Joins, IInv
  <2> QED BY <2>3, <2>4 DEF IInv, StreamTypes, Record
<1>6. Posted'
  <2>1. Replays(m)
    BY ReplayMoves
  <2>2. /\ mark \in Nat /\ mark' \in Nat /\ mark <= mark' /\ (mark' = mark \/ (mark' = m /\ mark < m))
        /\ \A j \in Ids : j \in Nat
    BY <2>1, WatchAssumption DEF Replays, Later, IInv, MarkTypes, Ids
  <2>3. /\ proc = "up" /\ fill = "replaying" /\ m \in todo /\ \A i \in todo : m <= i
        /\ todo' = todo \ {m} /\ turn' = m
        /\ shownGap \subseteq shownGap' /\ shownGap' \subseteq shownGap \cup {m} /\ m \in shownGap'
        /\ UNCHANGED <<posted, online, proc, titled, openGaps, unfilled, starting, inbox, live, copies,
                       repeatOK, cut, dropped, heard>>
    BY <2>1 DEF Replays
  <2>4. m <= posted /\ posted \in Nat
    BY <2>3 DEF IInv, Posted, WorldTypes
  <2>5. saved' \in {saved, mark'} /\ saved \in Nat /\ saved <= mark
    BY <2>1 DEF Replays, IInv, MarkTypes, Posted
  <2>6. saved' <= mark' /\ mark' <= posted'
    BY <2>2, <2>3, <2>4, <2>5 DEF IInv, Posted
  <2> QED BY <2>3, <2>4, <2>6 DEF IInv, Posted
<1>7. Process'
  BY DEF IInv, ReplayNext, Process, InGap
<1>8. QueueShape'
  <2>1. Replays(m)
    BY ReplayMoves
  <2>2. /\ mark \in Nat /\ mark' \in Nat /\ mark <= mark' /\ (mark' = mark \/ (mark' = m /\ mark < m))
        /\ \A j \in Ids : j \in Nat
    BY <2>1, WatchAssumption DEF Replays, Later, IInv, MarkTypes, Ids
  <2>3. /\ proc = "up" /\ fill = "replaying" /\ m \in todo /\ \A i \in todo : m <= i
        /\ todo' = todo \ {m} /\ turn' = m
        /\ shownGap \subseteq shownGap' /\ shownGap' \subseteq shownGap \cup {m} /\ m \in shownGap'
        /\ UNCHANGED <<posted, online, proc, titled, openGaps, unfilled, starting, inbox, live, copies,
                       repeatOK, cut, dropped, heard>>
    BY <2>1 DEF Replays
  <2>4. Len(queue) \in Nat /\ \A i \in 1 .. Len(queue) : queue[i].id \in Ids /\ queue[i].by \in {"live", "replay"}
    BY Elements DEF IInv, Record
  <2>5. \A i \in 1 .. Len(queue) : queue[i].by = "live" /\ live[queue[i].id] \in {"plain", "gap"}
    BY <2>3, <2>4 DEF IInv, QueueShape
  <2>6. CASE UNCHANGED queue
    BY <2>3, <2>5, <2>6 DEF IInv, QueueShape
  <2>7. CASE Joins("replay", m) /\ fill' = "writing"
    <3>1. \A i \in 1 .. Len(queue') : i \in 1 .. Len(queue) \/ i = Len(queue) + 1
      BY <2>7 DEF Joins
    <3>2. queue'[Len(queue) + 1].by = "replay" /\ queue'[Len(queue) + 1].id = m
      BY <2>7 DEF Joins
    <3>3. \A i \in 1 .. Len(queue) : queue'[i] = queue[i]
      BY <2>7 DEF Joins
    <3>4. \A i \in 1 .. Len(queue) : queue'[i] # queue'[Len(queue) + 1]
      BY <2>5, <3>2, <3>3
    <3>5. \A i, j \in 1 .. Len(queue') : queue'[i] = queue'[j] => i = j
      BY <3>1, <3>3, <3>4 DEF IInv, QueueShape
    <3> QED BY <2>3, <2>5, <2>7, <3>1, <3>2, <3>3, <3>5 DEF QueueShape
  <2> QED BY <2>1, <2>6, <2>7 DEF Replays
<1>9. HandlersOfGaps'
  <2>1. Replays(m)
    BY ReplayMoves
  <2>2. /\ mark \in Nat /\ mark' \in Nat /\ mark <= mark' /\ (mark' = mark \/ (mark' = m /\ mark < m))
        /\ \A j \in Ids : j \in Nat
    BY <2>1, WatchAssumption DEF Replays, Later, IInv, MarkTypes, Ids
  <2>3. /\ proc = "up" /\ fill = "replaying" /\ m \in todo /\ \A i \in todo : m <= i
        /\ todo' = todo \ {m} /\ turn' = m
        /\ shownGap \subseteq shownGap' /\ shownGap' \subseteq shownGap \cup {m} /\ m \in shownGap'
        /\ UNCHANGED <<posted, online, proc, titled, openGaps, unfilled, starting, inbox, live, copies,
                       repeatOK, cut, dropped, heard>>
    BY <2>1 DEF Replays
  <2>4. \A j \in Ids : j \in shownGap \/ j <= mark => j \in shownGap' \/ j <= mark'
    BY <2>2, <2>3
  <2> QED BY <2>3, <2>4 DEF IInv, HandlersOfGaps, InGap, Plain
<1>10. Known'
  <2>1. Replays(m)
    BY ReplayMoves
  <2>2. /\ mark \in Nat /\ mark' \in Nat /\ mark <= mark' /\ (mark' = mark \/ (mark' = m /\ mark < m))
        /\ \A j \in Ids : j \in Nat
    BY <2>1, WatchAssumption DEF Replays, Later, IInv, MarkTypes, Ids
  <2>3. /\ proc = "up" /\ fill = "replaying" /\ m \in todo /\ \A i \in todo : m <= i
        /\ todo' = todo \ {m} /\ turn' = m
        /\ shownGap \subseteq shownGap' /\ shownGap' \subseteq shownGap \cup {m} /\ m \in shownGap'
        /\ UNCHANGED <<posted, online, proc, titled, openGaps, unfilled, starting, inbox, live, copies,
                       repeatOK, cut, dropped, heard>>
    BY <2>1 DEF Replays
  <2>4. \A j \in Ids : j \in shownGap \/ j <= mark => j \in shownGap' \/ j <= mark'
    BY <2>2, <2>3
  <2>5. \A j \in todo' : j \in todo /\ (j \notin shownGap' => j \notin shownGap)
    BY <2>3
  <2> QED BY <2>3, <2>4, <2>5 DEF IInv, Known, Asked
<1>11. OneWay'
  <2>1. Replays(m)
    BY ReplayMoves
  <2>2. /\ mark \in Nat /\ mark' \in Nat /\ mark <= mark' /\ (mark' = mark \/ (mark' = m /\ mark < m))
        /\ \A j \in Ids : j \in Nat
    BY <2>1, WatchAssumption DEF Replays, Later, IInv, MarkTypes, Ids
  <2>3. /\ proc = "up" /\ fill = "replaying" /\ m \in todo /\ \A i \in todo : m <= i
        /\ todo' = todo \ {m} /\ turn' = m
        /\ shownGap \subseteq shownGap' /\ shownGap' \subseteq shownGap \cup {m} /\ m \in shownGap'
        /\ UNCHANGED <<posted, online, proc, titled, openGaps, unfilled, starting, inbox, live, copies,
                       repeatOK, cut, dropped, heard>>
    BY <2>1 DEF Replays
  <2>4. ASSUME m \notin shownGap, m \notin repeatOK PROVE ~Pending(m) /\ copies[m] = 0
    BY <2>3, <2>4 DEF IInv, Known, Asked, Pending
  <2>5. ASSUME NEW j \in Ids, AtSinkAgain(j)' PROVE AtSinkAgain(j) \/ (j = m /\ m \notin shownGap)
    <3>1. CASE UNCHANGED queue
      BY <2>5, <3>1 DEF AtSinkAgain
    <3>2. CASE Joins("replay", m) /\ m \notin shownGap
      BY <2>5, <3>2, JoinsSink
    <3> QED BY <2>1, <3>1, <3>2 DEF Replays
  <2> SUFFICES ASSUME NEW j \in Ids \ repeatOK
               PROVE  /\ copies'[j] <= 1
                      /\ copies'[j] = 1 => ~Pending(j)' /\ ~AtSinkAgain(j)'
                      /\ Pending(j)' => ~AtSinkAgain(j)'
    BY <2>3 DEF OneWay
  <2>6. copies' = copies /\ Pending(j)' = Pending(j)
    BY <2>3 DEF Pending
  <2> QED BY <2>4, <2>5, <2>6 DEF IInv, OneWay
<1>12. MarkCovers'
  <2>1. Replays(m)
    BY ReplayMoves
  <2>2. /\ mark \in Nat /\ mark' \in Nat /\ mark <= mark' /\ (mark' = mark \/ (mark' = m /\ mark < m))
        /\ \A j \in Ids : j \in Nat
    BY <2>1, WatchAssumption DEF Replays, Later, IInv, MarkTypes, Ids
  <2>3. /\ proc = "up" /\ fill = "replaying" /\ m \in todo /\ \A i \in todo : m <= i
        /\ todo' = todo \ {m} /\ turn' = m
        /\ shownGap \subseteq shownGap' /\ shownGap' \subseteq shownGap \cup {m} /\ m \in shownGap'
        /\ UNCHANGED <<posted, online, proc, titled, openGaps, unfilled, starting, inbox, live, copies,
                       repeatOK, cut, dropped, heard>>
    BY <2>1 DEF Replays

  <2>4. HasMark => \A j \in Ids : Settled(j) => Settled(j)'
    BY Settles
  <2>5. HasMark => \A j \in Ids : j < m => Settled(j)
    <3> SUFFICES ASSUME HasMark, NEW j \in Ids, j < m PROVE Settled(j)
      OBVIOUS
    <3>1. j \notin todo
      BY <2>2, <2>3
    <3> QED BY <2>3, <3>1 DEF IInv, Replayed, Asked, Turned
  <2>6. \/ fill' = "replaying" /\ (HasMark => Settled(m)) /\ saved' \in {saved, mark'}
        \/ fill' = "writing" /\ UNCHANGED <<mark, saved>>
    <3>1. CASE m \in shownGap
      <4>1. HasMark => Settled(m)
        BY <2>3, <3>1 DEF IInv, ShownIsSettled, Turned
      <4> QED BY <2>1, <2>3, <3>1, <4>1 DEF Replays
    <3>2. CASE m \notin shownGap /\ Hidden(m)
      <4>1. Settled(m)
        BY <3>2 DEF Settled
      <4> QED BY <2>1, <2>3, <3>2, <4>1 DEF Replays
    <3>3. CASE m \notin shownGap /\ ~Hidden(m)
      BY <2>1, <3>3 DEF Replays
    <3> QED BY <3>1, <3>2, <3>3
  <2> SUFFICES ASSUME HasMark
               PROVE  heard' = InitMark /\ saved' > 0 /\ \A j \in Ids : j <= mark' => Settled(j)'
    BY DEF MarkCovers
  <2>7. heard' = InitMark
    BY <2>3 DEF IInv, MarkCovers
  <2>8. saved' > 0
    BY <2>2, <2>6 DEF IInv, MarkCovers, MarkTypes, Posted, Ids
  <2>9. ASSUME NEW j \in Ids, j <= mark' PROVE Settled(j)'
    <3>1. CASE j <= mark
      BY <2>4, <3>1 DEF IInv, MarkCovers
    <3>2. CASE ~(j <= mark)
      <4>1. mark' = m /\ mark < m /\ (j < m \/ j = m)
        BY <2>2, <2>9, <3>2
      <4>2. Settled(m)
        BY <2>2, <2>6, <4>1
      <4> QED BY <2>4, <2>5, <4>1, <4>2
    <3> QED BY <3>1, <3>2
  <2> QED BY <2>7, <2>8, <2>9
<1>13. ShownIsSettled'
  <2>1. Replays(m)
    BY ReplayMoves
  <2>2. /\ mark \in Nat /\ mark' \in Nat /\ mark <= mark' /\ (mark' = mark \/ (mark' = m /\ mark < m))
        /\ \A j \in Ids : j \in Nat
    BY <2>1, WatchAssumption DEF Replays, Later, IInv, MarkTypes, Ids
  <2>3. /\ proc = "up" /\ fill = "replaying" /\ m \in todo /\ \A i \in todo : m <= i
        /\ todo' = todo \ {m} /\ turn' = m
        /\ shownGap \subseteq shownGap' /\ shownGap' \subseteq shownGap \cup {m} /\ m \in shownGap'
        /\ UNCHANGED <<posted, online, proc, titled, openGaps, unfilled, starting, inbox, live, copies,
                       repeatOK, cut, dropped, heard>>
    BY <2>1 DEF Replays

  <2>4. HasMark => \A j \in Ids : Settled(j) => Settled(j)'
    BY Settles
  <2>5. HasMark => \A j \in Ids : j < m => Settled(j)
    <3> SUFFICES ASSUME HasMark, NEW j \in Ids, j < m PROVE Settled(j)
      OBVIOUS
    <3>1. j \notin todo
      BY <2>2, <2>3
    <3> QED BY <2>3, <3>1 DEF IInv, Replayed, Asked, Turned
  <2>6. \/ fill' = "replaying" /\ (HasMark => Settled(m)) /\ saved' \in {saved, mark'}
        \/ fill' = "writing" /\ UNCHANGED <<mark, saved>>
    <3>1. CASE m \in shownGap
      <4>1. HasMark => Settled(m)
        BY <2>3, <3>1 DEF IInv, ShownIsSettled, Turned
      <4> QED BY <2>1, <2>3, <3>1, <4>1 DEF Replays
    <3>2. CASE m \notin shownGap /\ Hidden(m)
      <4>1. Settled(m)
        BY <3>2 DEF Settled
      <4> QED BY <2>1, <2>3, <3>2, <4>1 DEF Replays
    <3>3. CASE m \notin shownGap /\ ~Hidden(m)
      BY <2>1, <3>3 DEF Replays
    <3> QED BY <3>1, <3>2, <3>3
  <2> SUFFICES ASSUME HasMark, NEW n \in shownGap' PROVE Settled(n)' \/ Turned(n)'
    BY DEF ShownIsSettled
  <2>7. n \in Ids /\ m \in Ids
    BY <2>3 DEF IInv, GapTypes
  <2>8. CASE n \in shownGap
    BY <2>3, <2>4, <2>7, <2>8 DEF IInv, ShownIsSettled, Turned
  <2>9. CASE n = m
    BY <2>3, <2>4, <2>6, <2>7, <2>9 DEF Turned
  <2> QED BY <2>3, <2>8, <2>9
<1>14. Replayed'
  <2>1. Replays(m)
    BY ReplayMoves
  <2>2. /\ mark \in Nat /\ mark' \in Nat /\ mark <= mark' /\ (mark' = mark \/ (mark' = m /\ mark < m))
        /\ \A j \in Ids : j \in Nat
    BY <2>1, WatchAssumption DEF Replays, Later, IInv, MarkTypes, Ids
  <2>3. /\ proc = "up" /\ fill = "replaying" /\ m \in todo /\ \A i \in todo : m <= i
        /\ todo' = todo \ {m} /\ turn' = m
        /\ shownGap \subseteq shownGap' /\ shownGap' \subseteq shownGap \cup {m} /\ m \in shownGap'
        /\ UNCHANGED <<posted, online, proc, titled, openGaps, unfilled, starting, inbox, live, copies,
                       repeatOK, cut, dropped, heard>>
    BY <2>1 DEF Replays

  <2>4. HasMark => \A j \in Ids : Settled(j) => Settled(j)'
    BY Settles
  <2>5. HasMark => \A j \in Ids : j < m => Settled(j)
    <3> SUFFICES ASSUME HasMark, NEW j \in Ids, j < m PROVE Settled(j)
      OBVIOUS
    <3>1. j \notin todo
      BY <2>2, <2>3
    <3> QED BY <2>3, <3>1 DEF IInv, Replayed, Asked, Turned
  <2>6. \/ fill' = "replaying" /\ (HasMark => Settled(m)) /\ saved' \in {saved, mark'}
        \/ fill' = "writing" /\ UNCHANGED <<mark, saved>>
    <3>1. CASE m \in shownGap
      <4>1. HasMark => Settled(m)
        BY <2>3, <3>1 DEF IInv, ShownIsSettled, Turned
      <4> QED BY <2>1, <2>3, <3>1, <4>1 DEF Replays
    <3>2. CASE m \notin shownGap /\ Hidden(m)
      <4>1. Settled(m)
        BY <3>2 DEF Settled
      <4> QED BY <2>1, <2>3, <3>2, <4>1 DEF Replays
    <3>3. CASE m \notin shownGap /\ ~Hidden(m)
      BY <2>1, <3>3 DEF Replays
    <3> QED BY <3>1, <3>2, <3>3
  <2>7. HasMark => \A j \in Ids : j \in todo \/ Turned(j) => j \in todo' \/ Settled(j)' \/ Turned(j)'
    <3> SUFFICES ASSUME HasMark, NEW j \in Ids, j \in todo PROVE j \in todo' \/ Settled(j)' \/ Turned(j)'
      BY <2>3 DEF Turned
    <3>1. CASE j # m
      BY <2>3, <3>1
    <3>2. CASE j = m
      BY <2>3, <2>4, <2>6, <3>2 DEF Turned
    <3> QED BY <3>1, <3>2

  <2> SUFFICES ASSUME HasMark
               PROVE  /\ \A n \in todo', j \in Ids : j < n => (j \in todo \/ Settled(j) \/ Turned(j))'
                      /\ fill' = "writing" =>
                           /\ turn' \in shownGap' /\ \A n \in todo' : turn' < n
                           /\ \A j \in Ids : j < turn' => Settled(j)'
    BY <2>6 DEF Replayed
  <2>8. \A n \in todo', j \in Ids : j < n => (j \in todo \/ Settled(j) \/ Turned(j))'
    BY <2>3, <2>4, <2>7 DEF IInv, Replayed, Asked
  <2>9. \A n \in todo' : turn' < n
    <3>1. \A n \in todo : n \in Nat
      BY <2>2 DEF IInv, FillTypes
    <3> QED BY <2>2, <2>3, <3>1
  <2>10. \A j \in Ids : j < turn' => Settled(j)'
    BY <2>3, <2>4, <2>5
  <2> QED BY <2>3, <2>8, <2>9, <2>10
<1>15. FillingUp'
  <2>1. Replays(m)
    BY ReplayMoves
  <2>2. /\ mark \in Nat /\ mark' \in Nat /\ mark <= mark' /\ (mark' = mark \/ (mark' = m /\ mark < m))
        /\ \A j \in Ids : j \in Nat
    BY <2>1, WatchAssumption DEF Replays, Later, IInv, MarkTypes, Ids
  <2>3. /\ proc = "up" /\ fill = "replaying" /\ m \in todo /\ \A i \in todo : m <= i
        /\ todo' = todo \ {m} /\ turn' = m
        /\ shownGap \subseteq shownGap' /\ shownGap' \subseteq shownGap \cup {m} /\ m \in shownGap'
        /\ UNCHANGED <<posted, online, proc, titled, openGaps, unfilled, starting, inbox, live, copies,
                       repeatOK, cut, dropped, heard>>
    BY <2>1 DEF Replays

  <2>4. HasMark => \A j \in Ids : Settled(j) => Settled(j)'
    BY Settles
  <2>5. HasMark => \A j \in Ids : j < m => Settled(j)
    <3> SUFFICES ASSUME HasMark, NEW j \in Ids, j < m PROVE Settled(j)
      OBVIOUS
    <3>1. j \notin todo
      BY <2>2, <2>3
    <3> QED BY <2>3, <3>1 DEF IInv, Replayed, Asked, Turned
  <2>6. \/ fill' = "replaying" /\ (HasMark => Settled(m)) /\ saved' \in {saved, mark'}
        \/ fill' = "writing" /\ UNCHANGED <<mark, saved>>
    <3>1. CASE m \in shownGap
      <4>1. HasMark => Settled(m)
        BY <2>3, <3>1 DEF IInv, ShownIsSettled, Turned
      <4> QED BY <2>1, <2>3, <3>1, <4>1 DEF Replays
    <3>2. CASE m \notin shownGap /\ Hidden(m)
      <4>1. Settled(m)
        BY <3>2 DEF Settled
      <4> QED BY <2>1, <2>3, <3>2, <4>1 DEF Replays
    <3>3. CASE m \notin shownGap /\ ~Hidden(m)
      BY <2>1, <3>3 DEF Replays
    <3> QED BY <3>1, <3>2, <3>3
  <2>7. HasMark => \A j \in Ids : j \in todo \/ Turned(j) => j \in todo' \/ Settled(j)' \/ Turned(j)'
    <3> SUFFICES ASSUME HasMark, NEW j \in Ids, j \in todo PROVE j \in todo' \/ Settled(j)' \/ Turned(j)'
      BY <2>3 DEF Turned
    <3>1. CASE j # m
      BY <2>3, <3>1
    <3>2. CASE j = m
      BY <2>3, <2>4, <2>6, <3>2 DEF Turned
    <3> QED BY <3>1, <3>2

  <2>8. FillingUp /\ IInv
    BY DEF IInv
  <2>9. \A j \in Ids : j \in shownGap' \cup todo' <=> j \in shownGap \cup todo
    BY <2>3
  <2> QED BY <2>2, <2>3, <2>4, <2>7, <2>8, <2>9, FillingStays
<1>16. Following'
  BY DEF IInv, ReplayNext, Following, InGap, Process
<1> QED BY <1>1, <1>2, <1>3, <1>4, <1>5, <1>6, <1>7, <1>8, <1>9, <1>10, <1>11, <1>12, <1>13,
     <1>14, <1>15, <1>16 DEF IInv

LEMMA NoteReplayedStep ==
  ASSUME IInv, NoteReplayed
  PROVE  IInv'
<1>1. WorldTypes' /\ GapTypes' /\ StreamTypes' /\ ReaderTypes' /\ InboxOrder' /\ OneWay' /\ WrittenIsGiven' /\ PlainCovers'
  BY Kept DEF IInv, NoteReplayed, world, gap, reader
<1>2. MarkTypes'
  BY DEF IInv, NoteReplayed, PassOver, reader, Noted, MaybeSave, Later,
     MarkTypes, FillTypes
<1>3. FillTypes'
  BY DEF IInv, NoteReplayed, FillTypes
<1>4. Posted'
  <2>1. /\ proc = "up" /\ fill = "written" /\ fill' = "replaying" /\ mark' = Later(mark, turn)
        /\ saved' \in {saved, mark'}
        /\ UNCHANGED <<posted, online, proc, titled, shownGap, openGaps, unfilled, starting, todo, turn,
                       inbox, live, queue, copies, repeatOK, cut, dropped, heard>>
    BY DEF NoteReplayed, PassOver, MaybeSave, Noted, world, gap, reader
  <2>2. turn \in shownGap /\ turn \in Ids
    BY <2>1 DEF IInv, Process, GapTypes
  <2>3. /\ mark \in Nat /\ mark' \in Nat /\ mark <= mark' /\ (mark' = mark \/ (mark' = turn /\ mark < turn))
        /\ \A j \in Ids : j \in Nat
    BY <2>1, <2>2, WatchAssumption DEF Later, IInv, MarkTypes, Ids
  <2>4. turn <= posted
    BY <2>2 DEF IInv, Posted
  <2>5. saved' \in {saved, mark'} /\ saved \in Nat /\ saved <= mark
    BY <2>1 DEF IInv, MarkTypes, Posted
  <2>6. saved' <= mark' /\ mark' <= posted'
    BY <2>1, <2>3, <2>4, <2>5 DEF IInv, Posted
  <2> QED BY <2>1, <2>6 DEF IInv, Posted
<1>5. Process'
  BY DEF IInv, NoteReplayed, gap, Process, InGap
<1>6. QueueShape'
  BY DEF IInv, NoteReplayed, QueueShape
<1>7. HandlersOfGaps'
  <2>1. /\ proc = "up" /\ fill = "written" /\ fill' = "replaying" /\ mark' = Later(mark, turn)
        /\ saved' \in {saved, mark'}
        /\ UNCHANGED <<posted, online, proc, titled, shownGap, openGaps, unfilled, starting, todo, turn,
                       inbox, live, queue, copies, repeatOK, cut, dropped, heard>>
    BY DEF NoteReplayed, PassOver, MaybeSave, Noted, world, gap, reader
  <2>2. turn \in shownGap /\ turn \in Ids
    BY <2>1 DEF IInv, Process, GapTypes
  <2>3. /\ mark \in Nat /\ mark' \in Nat /\ mark <= mark' /\ (mark' = mark \/ (mark' = turn /\ mark < turn))
        /\ \A j \in Ids : j \in Nat
    BY <2>1, <2>2, WatchAssumption DEF Later, IInv, MarkTypes, Ids
  <2>4. \A j \in Ids : j \in shownGap \/ j <= mark => j \in shownGap' \/ j <= mark'
    BY <2>1, <2>3
  <2> QED BY <2>1, <2>4 DEF IInv, HandlersOfGaps, InGap, Plain
<1>8. Known'
  BY DEF IInv, NoteReplayed, PassOver, gap, reader, Noted, Later, Known,
     Ids, Asked, MarkTypes
<1>9. MarkCovers'
  <2>1. /\ proc = "up" /\ fill = "written" /\ fill' = "replaying" /\ mark' = Later(mark, turn)
        /\ saved' \in {saved, mark'}
        /\ UNCHANGED <<posted, online, proc, titled, shownGap, openGaps, unfilled, starting, todo, turn,
                       inbox, live, queue, copies, repeatOK, cut, dropped, heard>>
    BY DEF NoteReplayed, PassOver, MaybeSave, Noted, world, gap, reader
  <2>2. turn \in shownGap /\ turn \in Ids
    BY <2>1 DEF IInv, Process, GapTypes
  <2>3. /\ mark \in Nat /\ mark' \in Nat /\ mark <= mark' /\ (mark' = mark \/ (mark' = turn /\ mark < turn))
        /\ \A j \in Ids : j \in Nat
    BY <2>1, <2>2, WatchAssumption DEF Later, IInv, MarkTypes, Ids
  <2>4. HasMark => \A j \in Ids : Settled(j) => Settled(j)'
    BY Settles
  <2> SUFFICES ASSUME HasMark
               PROVE  heard' = InitMark /\ saved' > 0 /\ \A j \in Ids : j <= mark' => Settled(j)'
    BY DEF MarkCovers
  <2>5. heard' = InitMark
    BY <2>1 DEF IInv, MarkCovers
  <2>6. saved' > 0
    BY <2>1, <2>3 DEF IInv, MarkCovers, MarkTypes, Posted
  <2>7. Settled(turn) /\ \A j \in Ids : j < turn => Settled(j)
    BY <2>1 DEF IInv, Replayed
  <2>8. \A j \in Ids : j <= mark' => j <= mark \/ j < turn \/ j = turn
    BY <2>2, <2>3
  <2> QED BY <2>2, <2>4, <2>5, <2>6, <2>7, <2>8 DEF IInv, MarkCovers
<1>10. ShownIsSettled'
  BY Settles DEF IInv, NoteReplayed, gap, ShownIsSettled, Turned, GapTypes
<1>11. Replayed'
  BY Settles DEF IInv, NoteReplayed, Replayed, Asked, Turned
<1>12. FillingUp'
  <2>1. /\ proc = "up" /\ fill = "written" /\ fill' = "replaying" /\ mark' = Later(mark, turn)
        /\ saved' \in {saved, mark'}
        /\ UNCHANGED <<posted, online, proc, titled, shownGap, openGaps, unfilled, starting, todo, turn,
                       inbox, live, queue, copies, repeatOK, cut, dropped, heard>>
    BY DEF NoteReplayed, PassOver, MaybeSave, Noted, world, gap, reader
  <2>2. turn \in shownGap /\ turn \in Ids
    BY <2>1 DEF IInv, Process, GapTypes
  <2>3. /\ mark \in Nat /\ mark' \in Nat /\ mark <= mark' /\ (mark' = mark \/ (mark' = turn /\ mark < turn))
        /\ \A j \in Ids : j \in Nat
    BY <2>1, <2>2, WatchAssumption DEF Later, IInv, MarkTypes, Ids
  <2>4. HasMark => \A j \in Ids : Settled(j) => Settled(j)'
    BY Settles
  <2>5. FillingUp /\ IInv
    BY DEF IInv
  <2>6. mark' = mark \/ mark' \in shownGap \cup todo
    BY <2>2, <2>3
  <2>7. \A j \in Ids : j \in todo \/ Turned(j) => j \in todo' \/ Settled(j)' \/ Turned(j)'
    BY <2>1 DEF Turned
  <2> QED BY <2>1, <2>3, <2>4, <2>5, <2>6, <2>7, FillingStays
<1>13. Following'
  BY DEF IInv, NoteReplayed, gap, Following, InGap, Process
<1> QED BY <1>1, <1>2, <1>3, <1>4, <1>5, <1>6, <1>7, <1>8, <1>9, <1>10, <1>11, <1>12, <1>13
     DEF IInv

LEMMA FillDoneStep ==
  ASSUME IInv, FillDone
  PROVE  IInv'
<1>1. WorldTypes' /\ StreamTypes' /\ ReaderTypes' /\ InboxOrder' /\ OneWay' /\ WrittenIsGiven' /\ PlainCovers'
  BY Kept DEF IInv, FillDone, world, reader
<1>2. MarkTypes'
  <2>1. Done
    BY DoneMoves
  <2>2. /\ proc = "up" /\ fill = "replaying" /\ todo = {} /\ fill' = "none" /\ turn' = 0
        /\ starting' = FALSE /\ unfilled' = FALSE /\ openGaps \in Nat \ {0} /\ openGaps' = openGaps - 1
        /\ UNCHANGED <<posted, online, proc, titled, todo, inbox, live, queue, copies, repeatOK, cut,
                       dropped, heard>>
    BY <2>1 DEF Done
  <2>3. mark \in Nat /\ saved \in Nat /\ saved <= mark /\ shownGap \subseteq Ids /\ \A j \in Ids : j \in 1 .. MaxMsg /\ j \in Nat
    BY WatchAssumption DEF IInv, MarkTypes, GapTypes, Posted, Ids
  <2>4. \/ openGaps # 1 /\ UNCHANGED <<mark, saved, shownGap>>
        \/ openGaps = 1 /\ shownGap = {} /\ UNCHANGED <<mark, saved, shownGap>>
        \/ /\ openGaps = 1 /\ shownGap' = {} /\ saved' \in {saved, mark'} /\ mark <= mark' /\ mark' \in Nat
           /\ (mark' = mark \/ mark' \in shownGap) /\ \A i \in shownGap : i <= mark'
    <3>1. CASE openGaps # 1 \/ shownGap = {}
      BY <2>1, <3>1 DEF Done
    <3>2. CASE openGaps = 1 /\ shownGap # {}
      <4>1. PICK n \in shownGap : (\A i \in shownGap : i <= n) /\ mark' = Later(mark, n) /\ shownGap' = {} /\ saved' \in {saved, mark'}
        BY <2>1, <3>2 DEF Done
      <4>2. n \in Nat /\ \A i \in shownGap : i \in Nat
        BY <2>3
      <4> QED BY <2>3, <3>2, <4>1, <4>2 DEF Later
    <3> QED BY <3>1, <3>2
  <2>5. mark' \in 0 .. MaxMsg
    BY <2>3, <2>4 DEF IInv, MarkTypes
  <2> QED BY <2>2, <2>4, <2>5 DEF IInv, MarkTypes
<1>3. GapTypes'
  <2>1. Done
    BY DoneMoves
  <2>2. /\ proc = "up" /\ fill = "replaying" /\ todo = {} /\ fill' = "none" /\ turn' = 0
        /\ starting' = FALSE /\ unfilled' = FALSE /\ openGaps \in Nat \ {0} /\ openGaps' = openGaps - 1
        /\ UNCHANGED <<posted, online, proc, titled, todo, inbox, live, queue, copies, repeatOK, cut,
                       dropped, heard>>
    BY <2>1 DEF Done
  <2>3. mark \in Nat /\ saved \in Nat /\ saved <= mark /\ shownGap \subseteq Ids /\ \A j \in Ids : j \in 1 .. MaxMsg /\ j \in Nat
    BY WatchAssumption DEF IInv, MarkTypes, GapTypes, Posted, Ids
  <2>4. \/ openGaps # 1 /\ UNCHANGED <<mark, saved, shownGap>>
        \/ openGaps = 1 /\ shownGap = {} /\ UNCHANGED <<mark, saved, shownGap>>
        \/ /\ openGaps = 1 /\ shownGap' = {} /\ saved' \in {saved, mark'} /\ mark <= mark' /\ mark' \in Nat
           /\ (mark' = mark \/ mark' \in shownGap) /\ \A i \in shownGap : i <= mark'
    <3>1. CASE openGaps # 1 \/ shownGap = {}
      BY <2>1, <3>1 DEF Done
    <3>2. CASE openGaps = 1 /\ shownGap # {}
      <4>1. PICK n \in shownGap : (\A i \in shownGap : i <= n) /\ mark' = Later(mark, n) /\ shownGap' = {} /\ saved' \in {saved, mark'}
        BY <2>1, <3>2 DEF Done
      <4>2. n \in Nat /\ \A i \in shownGap : i \in Nat
        BY <2>3
      <4> QED BY <2>3, <3>2, <4>1, <4>2 DEF Later
    <3> QED BY <3>1, <3>2
  <2>5. shownGap' \subseteq Ids
    BY <2>3, <2>4
  <2>6. openGaps' \in Nat
    BY <2>2
  <2> QED BY <2>2, <2>5, <2>6 DEF GapTypes
<1>4. FillTypes'
  <2>1. Done
    BY DoneMoves
  <2>2. /\ proc = "up" /\ fill = "replaying" /\ todo = {} /\ fill' = "none" /\ turn' = 0
        /\ starting' = FALSE /\ unfilled' = FALSE /\ openGaps \in Nat \ {0} /\ openGaps' = openGaps - 1
        /\ UNCHANGED <<posted, online, proc, titled, todo, inbox, live, queue, copies, repeatOK, cut,
                       dropped, heard>>
    BY <2>1 DEF Done
  <2>3. mark \in Nat /\ saved \in Nat /\ saved <= mark /\ shownGap \subseteq Ids /\ \A j \in Ids : j \in 1 .. MaxMsg /\ j \in Nat
    BY WatchAssumption DEF IInv, MarkTypes, GapTypes, Posted, Ids
  <2>4. \/ openGaps # 1 /\ UNCHANGED <<mark, saved, shownGap>>
        \/ openGaps = 1 /\ shownGap = {} /\ UNCHANGED <<mark, saved, shownGap>>
        \/ /\ openGaps = 1 /\ shownGap' = {} /\ saved' \in {saved, mark'} /\ mark <= mark' /\ mark' \in Nat
           /\ (mark' = mark \/ mark' \in shownGap) /\ \A i \in shownGap : i <= mark'
    <3>1. CASE openGaps # 1 \/ shownGap = {}
      BY <2>1, <3>1 DEF Done
    <3>2. CASE openGaps = 1 /\ shownGap # {}
      <4>1. PICK n \in shownGap : (\A i \in shownGap : i <= n) /\ mark' = Later(mark, n) /\ shownGap' = {} /\ saved' \in {saved, mark'}
        BY <2>1, <3>2 DEF Done
      <4>2. n \in Nat /\ \A i \in shownGap : i \in Nat
        BY <2>3
      <4> QED BY <2>3, <3>2, <4>1, <4>2 DEF Later
    <3> QED BY <3>1, <3>2
  <2>5. turn' \in 0 .. MaxMsg
    BY <2>2, WatchAssumption
  <2> QED BY <2>2, <2>5 DEF IInv, FillTypes
<1>5. Posted'
  <2>1. Done
    BY DoneMoves
  <2>2. /\ proc = "up" /\ fill = "replaying" /\ todo = {} /\ fill' = "none" /\ turn' = 0
        /\ starting' = FALSE /\ unfilled' = FALSE /\ openGaps \in Nat \ {0} /\ openGaps' = openGaps - 1
        /\ UNCHANGED <<posted, online, proc, titled, todo, inbox, live, queue, copies, repeatOK, cut,
                       dropped, heard>>
    BY <2>1 DEF Done
  <2>3. mark \in Nat /\ saved \in Nat /\ saved <= mark /\ shownGap \subseteq Ids /\ \A j \in Ids : j \in 1 .. MaxMsg /\ j \in Nat
    BY WatchAssumption DEF IInv, MarkTypes, GapTypes, Posted, Ids
  <2>4. \/ openGaps # 1 /\ UNCHANGED <<mark, saved, shownGap>>
        \/ openGaps = 1 /\ shownGap = {} /\ UNCHANGED <<mark, saved, shownGap>>
        \/ /\ openGaps = 1 /\ shownGap' = {} /\ saved' \in {saved, mark'} /\ mark <= mark' /\ mark' \in Nat
           /\ (mark' = mark \/ mark' \in shownGap) /\ \A i \in shownGap : i <= mark'
    <3>1. CASE openGaps # 1 \/ shownGap = {}
      BY <2>1, <3>1 DEF Done
    <3>2. CASE openGaps = 1 /\ shownGap # {}
      <4>1. PICK n \in shownGap : (\A i \in shownGap : i <= n) /\ mark' = Later(mark, n) /\ shownGap' = {} /\ saved' \in {saved, mark'}
        BY <2>1, <3>2 DEF Done
      <4>2. n \in Nat /\ \A i \in shownGap : i \in Nat
        BY <2>3
      <4> QED BY <2>3, <3>2, <4>1, <4>2 DEF Later
    <3> QED BY <3>1, <3>2
  <2>5. mark' <= posted
    BY <2>3, <2>4 DEF IInv, Posted
  <2>6. saved' <= mark' /\ \A j \in shownGap' : j <= posted
    BY <2>3, <2>4 DEF IInv, Posted
  <2> QED BY <2>2, <2>5, <2>6 DEF IInv, Posted
<1>6. Process'
  <2>1. Done
    BY DoneMoves
  <2>2. /\ proc = "up" /\ fill = "replaying" /\ todo = {} /\ fill' = "none" /\ turn' = 0
        /\ starting' = FALSE /\ unfilled' = FALSE /\ openGaps \in Nat \ {0} /\ openGaps' = openGaps - 1
        /\ UNCHANGED <<posted, online, proc, titled, todo, inbox, live, queue, copies, repeatOK, cut,
                       dropped, heard>>
    BY <2>1 DEF Done
  <2>3. mark \in Nat /\ saved \in Nat /\ saved <= mark /\ shownGap \subseteq Ids /\ \A j \in Ids : j \in 1 .. MaxMsg /\ j \in Nat
    BY WatchAssumption DEF IInv, MarkTypes, GapTypes, Posted, Ids
  <2>4. \/ openGaps # 1 /\ UNCHANGED <<mark, saved, shownGap>>
        \/ openGaps = 1 /\ shownGap = {} /\ UNCHANGED <<mark, saved, shownGap>>
        \/ /\ openGaps = 1 /\ shownGap' = {} /\ saved' \in {saved, mark'} /\ mark <= mark' /\ mark' \in Nat
           /\ (mark' = mark \/ mark' \in shownGap) /\ \A i \in shownGap : i <= mark'
    <3>1. CASE openGaps # 1 \/ shownGap = {}
      BY <2>1, <3>1 DEF Done
    <3>2. CASE openGaps = 1 /\ shownGap # {}
      <4>1. PICK n \in shownGap : (\A i \in shownGap : i <= n) /\ mark' = Later(mark, n) /\ shownGap' = {} /\ saved' \in {saved, mark'}
        BY <2>1, <3>2 DEF Done
      <4>2. n \in Nat /\ \A i \in shownGap : i \in Nat
        BY <2>3
      <4> QED BY <2>3, <3>2, <4>1, <4>2 DEF Later
    <3> QED BY <3>1, <3>2
  <2>5. ~InGap' => shownGap' = {}
    <3>1. ~InGap' => openGaps = 1
      BY <2>2 DEF InGap
    <3> QED BY <2>4, <3>1
  <2> QED BY <2>2, <2>5 DEF Process
<1>7. QueueShape'
  BY DEF IInv, FillDone, QueueShape
<1>8. HandlersOfGaps'
  <2>1. Done
    BY DoneMoves
  <2>2. /\ proc = "up" /\ fill = "replaying" /\ todo = {} /\ fill' = "none" /\ turn' = 0
        /\ starting' = FALSE /\ unfilled' = FALSE /\ openGaps \in Nat \ {0} /\ openGaps' = openGaps - 1
        /\ UNCHANGED <<posted, online, proc, titled, todo, inbox, live, queue, copies, repeatOK, cut,
                       dropped, heard>>
    BY <2>1 DEF Done
  <2>3. mark \in Nat /\ saved \in Nat /\ saved <= mark /\ shownGap \subseteq Ids /\ \A j \in Ids : j \in 1 .. MaxMsg /\ j \in Nat
    BY WatchAssumption DEF IInv, MarkTypes, GapTypes, Posted, Ids
  <2>4. \/ openGaps # 1 /\ UNCHANGED <<mark, saved, shownGap>>
        \/ openGaps = 1 /\ shownGap = {} /\ UNCHANGED <<mark, saved, shownGap>>
        \/ /\ openGaps = 1 /\ shownGap' = {} /\ saved' \in {saved, mark'} /\ mark <= mark' /\ mark' \in Nat
           /\ (mark' = mark \/ mark' \in shownGap) /\ \A i \in shownGap : i <= mark'
    <3>1. CASE openGaps # 1 \/ shownGap = {}
      BY <2>1, <3>1 DEF Done
    <3>2. CASE openGaps = 1 /\ shownGap # {}
      <4>1. PICK n \in shownGap : (\A i \in shownGap : i <= n) /\ mark' = Later(mark, n) /\ shownGap' = {} /\ saved' \in {saved, mark'}
        BY <2>1, <3>2 DEF Done
      <4>2. n \in Nat /\ \A i \in shownGap : i \in Nat
        BY <2>3
      <4> QED BY <2>3, <3>2, <4>1, <4>2 DEF Later
    <3> QED BY <3>1, <3>2
  <2>5. \A j \in Ids : j \in shownGap \/ j <= mark => j \in shownGap' \/ j <= mark'
    BY <2>3, <2>4

  <2>6. InGap
    BY <2>2 DEF InGap
  <2> QED BY <2>2, <2>5, <2>6 DEF IInv, HandlersOfGaps, Plain
<1>9. Known'
  <2>1. Done
    BY DoneMoves
  <2>2. /\ proc = "up" /\ fill = "replaying" /\ todo = {} /\ fill' = "none" /\ turn' = 0
        /\ starting' = FALSE /\ unfilled' = FALSE /\ openGaps \in Nat \ {0} /\ openGaps' = openGaps - 1
        /\ UNCHANGED <<posted, online, proc, titled, todo, inbox, live, queue, copies, repeatOK, cut,
                       dropped, heard>>
    BY <2>1 DEF Done
  <2>3. mark \in Nat /\ saved \in Nat /\ saved <= mark /\ shownGap \subseteq Ids /\ \A j \in Ids : j \in 1 .. MaxMsg /\ j \in Nat
    BY WatchAssumption DEF IInv, MarkTypes, GapTypes, Posted, Ids
  <2>4. \/ openGaps # 1 /\ UNCHANGED <<mark, saved, shownGap>>
        \/ openGaps = 1 /\ shownGap = {} /\ UNCHANGED <<mark, saved, shownGap>>
        \/ /\ openGaps = 1 /\ shownGap' = {} /\ saved' \in {saved, mark'} /\ mark <= mark' /\ mark' \in Nat
           /\ (mark' = mark \/ mark' \in shownGap) /\ \A i \in shownGap : i <= mark'
    <3>1. CASE openGaps # 1 \/ shownGap = {}
      BY <2>1, <3>1 DEF Done
    <3>2. CASE openGaps = 1 /\ shownGap # {}
      <4>1. PICK n \in shownGap : (\A i \in shownGap : i <= n) /\ mark' = Later(mark, n) /\ shownGap' = {} /\ saved' \in {saved, mark'}
        BY <2>1, <3>2 DEF Done
      <4>2. n \in Nat /\ \A i \in shownGap : i \in Nat
        BY <2>3
      <4> QED BY <2>3, <3>2, <4>1, <4>2 DEF Later
    <3> QED BY <3>1, <3>2
  <2>5. \A j \in Ids : j \in shownGap \/ j <= mark => j \in shownGap' \/ j <= mark'
    BY <2>3, <2>4

  <2>6. ~Asked'
    BY <2>2 DEF Asked
  <2> QED BY <2>2, <2>5, <2>6 DEF IInv, Known
<1>10. MarkCovers'
  <2>1. Done
    BY DoneMoves
  <2>2. /\ proc = "up" /\ fill = "replaying" /\ todo = {} /\ fill' = "none" /\ turn' = 0
        /\ starting' = FALSE /\ unfilled' = FALSE /\ openGaps \in Nat \ {0} /\ openGaps' = openGaps - 1
        /\ UNCHANGED <<posted, online, proc, titled, todo, inbox, live, queue, copies, repeatOK, cut,
                       dropped, heard>>
    BY <2>1 DEF Done
  <2>3. mark \in Nat /\ saved \in Nat /\ saved <= mark /\ shownGap \subseteq Ids /\ \A j \in Ids : j \in 1 .. MaxMsg /\ j \in Nat
    BY WatchAssumption DEF IInv, MarkTypes, GapTypes, Posted, Ids
  <2>4. \/ openGaps # 1 /\ UNCHANGED <<mark, saved, shownGap>>
        \/ openGaps = 1 /\ shownGap = {} /\ UNCHANGED <<mark, saved, shownGap>>
        \/ /\ openGaps = 1 /\ shownGap' = {} /\ saved' \in {saved, mark'} /\ mark <= mark' /\ mark' \in Nat
           /\ (mark' = mark \/ mark' \in shownGap) /\ \A i \in shownGap : i <= mark'
    <3>1. CASE openGaps # 1 \/ shownGap = {}
      BY <2>1, <3>1 DEF Done
    <3>2. CASE openGaps = 1 /\ shownGap # {}
      <4>1. PICK n \in shownGap : (\A i \in shownGap : i <= n) /\ mark' = Later(mark, n) /\ shownGap' = {} /\ saved' \in {saved, mark'}
        BY <2>1, <3>2 DEF Done
      <4>2. n \in Nat /\ \A i \in shownGap : i \in Nat
        BY <2>3
      <4> QED BY <2>3, <3>2, <4>1, <4>2 DEF Later
    <3> QED BY <3>1, <3>2
  <2>5. HasMark => \A j \in Ids : Settled(j) => Settled(j)'
    BY Settles
  <2>6. ASSUME HasMark, openGaps = 1
        PROVE  \E h, r \in 0 .. MaxMsg :
                 /\ Frontier(h, r)
                 /\ \A j \in Ids : j <= h => Settled(j)
                 /\ h <= mark \/ h \in shownGap
    BY <2>2, <2>6 DEF IInv, FillingUp, Asked, Turned

  <2> SUFFICES ASSUME HasMark
               PROVE  heard' = InitMark /\ saved' > 0 /\ \A j \in Ids : j <= mark' => Settled(j)'
    BY DEF MarkCovers
  <2>7. heard' = InitMark
    BY <2>2 DEF IInv, MarkCovers
  <2>8. saved' > 0
    BY <2>3, <2>4 DEF IInv, MarkCovers
  <2>9. CASE UNCHANGED mark
    BY <2>5, <2>7, <2>8, <2>9 DEF IInv, MarkCovers
  <2>10. CASE openGaps = 1 /\ mark' \in shownGap
    <3>1. PICK h \in 0 .. MaxMsg, r \in 0 .. MaxMsg : Frontier(h, r) /\ \A j \in Ids : j <= h => Settled(j)
      BY <2>6, <2>10
    <3>2. mark' <= h /\ h \in Nat /\ mark' \in Nat
      BY <2>3, <2>10, <3>1 DEF Frontier
    <3>3. \A j \in Ids : j <= mark' => j <= h
      BY <2>3, <3>2
    <3> QED BY <2>5, <2>7, <2>8, <3>1, <3>3
  <2> QED BY <2>4, <2>9, <2>10
<1>11. ShownIsSettled'
  <2>1. Done
    BY DoneMoves
  <2>2. /\ proc = "up" /\ fill = "replaying" /\ todo = {} /\ fill' = "none" /\ turn' = 0
        /\ starting' = FALSE /\ unfilled' = FALSE /\ openGaps \in Nat \ {0} /\ openGaps' = openGaps - 1
        /\ UNCHANGED <<posted, online, proc, titled, todo, inbox, live, queue, copies, repeatOK, cut,
                       dropped, heard>>
    BY <2>1 DEF Done
  <2>3. mark \in Nat /\ saved \in Nat /\ saved <= mark /\ shownGap \subseteq Ids /\ \A j \in Ids : j \in 1 .. MaxMsg /\ j \in Nat
    BY WatchAssumption DEF IInv, MarkTypes, GapTypes, Posted, Ids
  <2>4. \/ openGaps # 1 /\ UNCHANGED <<mark, saved, shownGap>>
        \/ openGaps = 1 /\ shownGap = {} /\ UNCHANGED <<mark, saved, shownGap>>
        \/ /\ openGaps = 1 /\ shownGap' = {} /\ saved' \in {saved, mark'} /\ mark <= mark' /\ mark' \in Nat
           /\ (mark' = mark \/ mark' \in shownGap) /\ \A i \in shownGap : i <= mark'
    <3>1. CASE openGaps # 1 \/ shownGap = {}
      BY <2>1, <3>1 DEF Done
    <3>2. CASE openGaps = 1 /\ shownGap # {}
      <4>1. PICK n \in shownGap : (\A i \in shownGap : i <= n) /\ mark' = Later(mark, n) /\ shownGap' = {} /\ saved' \in {saved, mark'}
        BY <2>1, <3>2 DEF Done
      <4>2. n \in Nat /\ \A i \in shownGap : i \in Nat
        BY <2>3
      <4> QED BY <2>3, <3>2, <4>1, <4>2 DEF Later
    <3> QED BY <3>1, <3>2
  <2>5. HasMark => \A j \in Ids : Settled(j) => Settled(j)'
    BY Settles
  <2>6. \A j \in shownGap' : j \in shownGap /\ j \in Ids
    BY <2>3, <2>4
  <2>7. \A j \in Ids : ~Turned(j)
    BY <2>2 DEF Turned
  <2> QED BY <2>2, <2>5, <2>6, <2>7 DEF IInv, ShownIsSettled
<1>12. Replayed'
  BY DEF FillDone, Replayed
<1>13. FillingUp'
  BY DEF FillDone, FillingUp, Asked
<1>14. Following'
  <2>1. Done
    BY DoneMoves
  <2>2. /\ proc = "up" /\ fill = "replaying" /\ todo = {} /\ fill' = "none" /\ turn' = 0
        /\ starting' = FALSE /\ unfilled' = FALSE /\ openGaps \in Nat \ {0} /\ openGaps' = openGaps - 1
        /\ UNCHANGED <<posted, online, proc, titled, todo, inbox, live, queue, copies, repeatOK, cut,
                       dropped, heard>>
    BY <2>1 DEF Done
  <2>3. mark \in Nat /\ saved \in Nat /\ saved <= mark /\ shownGap \subseteq Ids /\ \A j \in Ids : j \in 1 .. MaxMsg /\ j \in Nat
    BY WatchAssumption DEF IInv, MarkTypes, GapTypes, Posted, Ids
  <2>4. \/ openGaps # 1 /\ UNCHANGED <<mark, saved, shownGap>>
        \/ openGaps = 1 /\ shownGap = {} /\ UNCHANGED <<mark, saved, shownGap>>
        \/ /\ openGaps = 1 /\ shownGap' = {} /\ saved' \in {saved, mark'} /\ mark <= mark' /\ mark' \in Nat
           /\ (mark' = mark \/ mark' \in shownGap) /\ \A i \in shownGap : i <= mark'
    <3>1. CASE openGaps # 1 \/ shownGap = {}
      BY <2>1, <3>1 DEF Done
    <3>2. CASE openGaps = 1 /\ shownGap # {}
      <4>1. PICK n \in shownGap : (\A i \in shownGap : i <= n) /\ mark' = Later(mark, n) /\ shownGap' = {} /\ saved' \in {saved, mark'}
        BY <2>1, <3>2 DEF Done
      <4>2. n \in Nat /\ \A i \in shownGap : i \in Nat
        BY <2>3
      <4> QED BY <2>3, <3>2, <4>1, <4>2 DEF Later
    <3> QED BY <3>1, <3>2
  <2>5. HasMark => \A j \in Ids : Settled(j) => Settled(j)'
    BY Settles
  <2>6. ASSUME HasMark, openGaps = 1
        PROVE  \E h, r \in 0 .. MaxMsg :
                 /\ Frontier(h, r)
                 /\ \A j \in Ids : j <= h => Settled(j)
                 /\ h <= mark \/ h \in shownGap
    BY <2>2, <2>6 DEF IInv, FillingUp, Asked, Turned

  <2> SUFFICES ASSUME HasMark, ~InGap'
               PROVE  \E h, r \in 0 .. MaxMsg :
                        /\ Frontier(h, r)'
                        /\ \A j \in Ids : j <= h => Settled(j)'
                        /\ h <= mark' \/ (h \in Ids /\ Plain(h)')
                        /\ \A i \in 1 .. Len(inbox') : inbox'[i] <= mark' \/ inbox'[i] > h
    BY DEF Following
  <2>7. openGaps = 1
    BY <2>2 DEF InGap
  <2>8. PICK h \in 0 .. MaxMsg, r \in 0 .. MaxMsg :
          /\ Frontier(h, r)
          /\ \A j \in Ids : j <= h => Settled(j)
          /\ h <= mark \/ h \in shownGap
    BY <2>6, <2>7
  <2>9. h \in Nat /\ mark' \in Nat /\ mark <= mark' /\ h <= mark' /\ mark' <= h /\ shownGap' = {}
    BY <2>3, <2>4, <2>7, <2>8 DEF Frontier
  <2>10. Frontier(h, r)'
    BY <2>2, <2>8, <2>9 DEF Frontier
  <2>11. \A i \in 1 .. Len(inbox) : inbox[i] \in Nat
    BY <2>3, Elements DEF IInv
  <2>12. \A i \in 1 .. Len(inbox') : inbox'[i] <= mark' \/ inbox'[i] > h
    BY <2>2, <2>9, <2>11
  <2>13. \A j \in Ids : j <= h => Settled(j)'
    BY <2>5, <2>8
  <2> QED BY <2>9, <2>10, <2>12, <2>13
<1> QED BY <1>1, <1>2, <1>3, <1>4, <1>5, <1>6, <1>7, <1>8, <1>9, <1>10, <1>11, <1>12, <1>13,
     <1>14 DEF IInv

LEMMA FillFailStep ==
  ASSUME IInv, FillFail
  PROVE  IInv'
<1>1. StreamTypes' /\ ReaderTypes' /\ InboxOrder' /\ OneWay' /\ WrittenIsGiven' /\ PlainCovers'
  BY Kept DEF IInv, FillFail, world, reader
<1>2. WorldTypes'
  BY DEF IInv, FillFail, Disturb, world, WorldTypes
<1>3. MarkTypes'
  BY DEF IInv, FillFail, reader, MarkTypes
<1>4. GapTypes'
  BY DEF IInv, FillFail, GapTypes, Process
<1>5. FillTypes'
  BY DEF IInv, FillFail, FillTypes
<1>6. Posted'
  BY DEF IInv, FillFail, world, reader, Posted, MarkTypes
<1>7. Process'
  BY DEF FillFail, Process, InGap
<1>8. QueueShape'
  BY DEF IInv, FillFail, QueueShape
<1>9. HandlersOfGaps'
  BY DEF IInv, FillFail, reader, HandlersOfGaps, InGap, Plain, Process
<1>10. Known'
  BY DEF IInv, FillFail, reader, Known, Asked
<1>11. MarkCovers'
  <2>1. HasMark => \A j \in Ids : Settled(j) => Settled(j)'
    BY Settles
  <2> SUFFICES ASSUME HasMark
               PROVE  heard' = InitMark /\ saved' > 0 /\ \A j \in Ids : j <= mark' => Settled(j)'
    BY DEF MarkCovers
  <2>2. heard = InitMark /\ saved > 0 /\ saved <= mark /\ saved \in Nat /\ mark \in Nat
        /\ \A j \in Ids : j \in Nat /\ (j <= mark => Settled(j))
    BY WatchAssumption DEF IInv, MarkCovers, MarkTypes, Posted, Ids

  <2>3. heard' = heard /\ mark' = mark /\ saved' \in {saved, mark}
    BY DEF FillFail, reader
  <2> QED BY <2>1, <2>2, <2>3
<1>12. ShownIsSettled'
  BY Settles DEF IInv, FillFail, ShownIsSettled, Turned, GapTypes
<1>13. Replayed'
  BY DEF FillFail, Replayed, Asked
<1>14. FillingUp'
  BY DEF FillFail, FillingUp, Asked
<1>15. Following'
  BY DEF FillFail, Following, InGap
<1> QED BY <1>1, <1>2, <1>3, <1>4, <1>5, <1>6, <1>7, <1>8, <1>9, <1>10, <1>11, <1>12, <1>13,
     <1>14, <1>15 DEF IInv

LEMMA StartStep ==
  ASSUME IInv, Start
  PROVE  IInv'
<1>1. StreamTypes' /\ InboxOrder' /\ WrittenIsGiven' /\ PlainCovers'
  BY Kept DEF IInv, Start
<1>2. WorldTypes'
  BY DEF IInv, Start, WorldTypes
<1>3. MarkTypes'
  BY DEF IInv, Start, MarkTypes
<1>4. GapTypes'
  BY DEF IInv, Start, OpenGap, GapTypes
<1>5. FillTypes'
  BY DEF IInv, Start, FillTypes
<1>6. ReaderTypes'
  BY DEF IInv, Start, OpenGap, InFlight, ReaderTypes
<1>7. Posted'
  BY DEF IInv, Start, Posted, WorldTypes, MarkTypes
<1>8. Process'
  BY DEF IInv, Start, OpenGap, Process
<1>9. QueueShape'
  BY DEF IInv, Start, QueueShape, Process
<1>10. HandlersOfGaps'
  BY DEF IInv, Start, HandlersOfGaps, Plain, Process
<1>11. Known'
  BY DEF IInv, Start, OpenGap, Known, Asked, Process
<1>12. OneWay'
  BY DEF IInv, Start, OpenGap, OneWay, Pending, AtSinkAgain
<1>13. MarkCovers'
  <2>1. HasMark => \A j \in Ids : Settled(j) => Settled(j)'
    BY Settles
  <2> SUFFICES ASSUME HasMark
               PROVE  heard' = InitMark /\ saved' > 0 /\ \A j \in Ids : j <= mark' => Settled(j)'
    BY DEF MarkCovers
  <2>2. heard = InitMark /\ saved > 0 /\ saved <= mark /\ saved \in Nat /\ mark \in Nat
        /\ \A j \in Ids : j \in Nat /\ (j <= mark => Settled(j))
    BY WatchAssumption DEF IInv, MarkCovers, MarkTypes, Posted, Ids

  <2>3. heard' = heard /\ mark' = saved /\ saved' = saved
    BY DEF Start
  <2>4. \A j \in Ids : j <= saved => j <= mark
    BY <2>2
  <2> QED BY <2>1, <2>2, <2>3, <2>4
<1>14. ShownIsSettled'
  BY DEF IInv, Start, ShownIsSettled, Process
<1>15. Replayed'
  BY DEF IInv, Start, Replayed, Asked, Process
<1>16. FillingUp'
  BY DEF IInv, Start, FillingUp, Asked, Process
<1>17. Following'
  BY DEF IInv, Start, OpenGap, Following, InGap, GapTypes
<1> QED BY <1>1, <1>2, <1>3, <1>4, <1>5, <1>6, <1>7, <1>8, <1>9, <1>10, <1>11, <1>12, <1>13,
     <1>14, <1>15, <1>16, <1>17 DEF IInv

LEMMA StopStep ==
  ASSUME IInv, Stop
  PROVE  IInv'
<1>1. ReaderTypes' /\ InboxOrder' /\ WrittenIsGiven' /\ PlainCovers'
  BY Kept DEF IInv, Stop, world, reader
<1>2. WorldTypes'
  BY DEF IInv, Stop, Disturb, world, WorldTypes
<1>3. MarkTypes'
  BY DEF IInv, Stop, reader, MarkTypes
<1>4. GapTypes'
  <2>1. starting => openGaps \in Nat \ {0}
    BY DEF IInv, Process, GapTypes
  <2>2. /\ shownGap' = shownGap
        /\ (starting /\ openGaps' = openGaps - 1 /\ unfilled' = TRUE) \/ UNCHANGED <<openGaps, unfilled>>
    BY DEF Stop
  <2>3. openGaps' \in Nat
    BY <2>1, <2>2 DEF IInv, GapTypes
  <2> QED BY <2>2, <2>3 DEF IInv, GapTypes
<1>5. FillTypes'
  BY DEF IInv, Stop, FillTypes
<1>6. StreamTypes'
  <2>1. queue' \in Seq(Record)
    BY StopMoves DEF Thinned
  <2>2. UNCHANGED <<inbox, live>>
    BY DEF Stop
  <2> QED BY <2>1, <2>2 DEF IInv, StreamTypes, Record
<1>7. Posted'
  BY DEF IInv, Stop, world, reader, Posted, MarkTypes
<1>8. Process'
  BY DEF IInv, Stop, Process, InGap
<1>9. QueueShape'
  <2>1. PICK f \in [1 .. Len(queue') -> 1 .. Len(queue)] :
          /\ \A i, j \in 1 .. Len(queue') : f[i] = f[j] => i = j
          /\ \A i \in 1 .. Len(queue') : queue'[i] = queue[f[i]]
    BY StopMoves DEF Thinned
  <2>2. proc' = "stopping" /\ UNCHANGED <<mark, shownGap, live>>
    BY DEF Stop
  <2>3. \A i \in 1 .. Len(queue') : f[i] \in 1 .. Len(queue)
    BY <2>1
  <2>4. \A i, j \in 1 .. Len(queue') : queue'[i] = queue'[j] => i = j
    BY <2>1, <2>3 DEF IInv, QueueShape
  <2>5. ASSUME NEW i \in 1 .. Len(queue')
        PROVE  IF queue'[i].by = "live"
               THEN live'[queue'[i].id] \in {"plain", "gap"}
               ELSE queue'[i].id \in shownGap' \/ queue'[i].id <= mark'
    <3>1. queue'[i] = queue[f[i]]
      BY <2>1
    <3>2. f[i] \in 1 .. Len(queue)
      BY <2>3
    <3>3. IF queue[f[i]].by = "live"
          THEN live[queue[f[i]].id] \in {"plain", "gap"}
          ELSE queue[f[i]].id \in shownGap \/ queue[f[i]].id <= mark
      BY <3>2 DEF IInv, QueueShape
    <3> QED BY <3>1, <3>3, <2>2
  <2> QED BY <2>2, <2>4, <2>5 DEF QueueShape
<1>10. HandlersOfGaps'
  BY WatchAssumption, Settles, Elements, InboxGrows, QueueShrinks,
     QueueLoses DEF IInv, Stop, reader, HandlersOfGaps, InGap, Plain,
     Process
<1>11. Known'
  BY DEF IInv, Stop, reader, Known
<1>12. OneWay'
  <2>1. \A j \in Ids : AtSinkAgain(j)' => AtSinkAgain(j)
    BY StopMoves DEF Thinned
  <2>2. UNCHANGED <<live, copies, repeatOK>>
    BY DEF Stop, reader
  <2> QED BY <2>1, <2>2 DEF IInv, OneWay, Pending
<1>13. MarkCovers'
  <2>1. HasMark => \A j \in Ids : Settled(j) => Settled(j)'
    BY Settles
  <2> SUFFICES ASSUME HasMark
               PROVE  heard' = InitMark /\ saved' > 0 /\ \A j \in Ids : j <= mark' => Settled(j)'
    BY DEF MarkCovers
  <2>2. heard = InitMark /\ saved > 0 /\ saved <= mark /\ saved \in Nat /\ mark \in Nat
        /\ \A j \in Ids : j \in Nat /\ (j <= mark => Settled(j))
    BY WatchAssumption DEF IInv, MarkCovers, MarkTypes, Posted, Ids

  <2>3. heard' = heard /\ mark' = mark /\ saved' = mark
    BY DEF Stop, reader
  <2>4. mark > 0
    BY <2>2
  <2> QED BY <2>1, <2>2, <2>3, <2>4
<1>14. ShownIsSettled'
  BY DEF Stop, ShownIsSettled
<1>15. Replayed'
  BY DEF Stop, Replayed
<1>16. FillingUp'
  BY DEF Stop, FillingUp
<1>17. Following'
  BY DEF Stop, Following
<1> QED BY <1>1, <1>2, <1>3, <1>4, <1>5, <1>6, <1>7, <1>8, <1>9, <1>10, <1>11, <1>12, <1>13,
     <1>14, <1>15, <1>16, <1>17 DEF IInv

LEMMA ExitStep ==
  ASSUME IInv, Exit
  PROVE  IInv'
<1>1. WorldTypes'
  BY WatchAssumption DEF IInv, Exit, Forget, world, WorldTypes
<1>2. MarkTypes'
  BY DEF IInv, Exit, Forget, MarkTypes
<1>3. GapTypes'
  BY DEF Exit, Forget, GapTypes
<1>4. FillTypes'
  <2>1. fill' = "none" /\ starting' = FALSE /\ todo' = {} /\ turn' = 0
    BY DEF Exit, Forget
  <2>2. turn' \in 0 .. MaxMsg
    BY <2>1, WatchAssumption
  <2> QED BY <2>1, <2>2 DEF FillTypes
<1>5. StreamTypes'
  BY DEF Exit, Forget, StreamTypes
<1>6. ReaderTypes'
  BY DEF IInv, Exit, Forget, InFlight, ReaderTypes
<1>7. Posted'
  BY DEF IInv, Exit, Forget, world, Posted, WorldTypes, MarkTypes
<1>8. Process'
  BY DEF Exit, Forget, Process
<1>9. InboxOrder'
  BY DEF Exit, Forget, InboxOrder
<1>10. QueueShape'
  BY DEF Exit, Forget, QueueShape
<1>11. HandlersOfGaps'
  BY DEF Exit, Forget, HandlersOfGaps, InGap
<1>12. Known'
  BY DEF IInv, Exit, Forget, Ids, Known, MarkTypes
<1>13. OneWay'
  BY DEF IInv, Exit, Forget, OneWay, Pending, AtSinkAgain
<1>14. WrittenIsGiven'
  BY DEF Exit, Forget, WrittenIsGiven
<1>15. MarkCovers'
  <2> SUFFICES ASSUME HasMark
               PROVE  heard' = InitMark /\ saved' > 0 /\ \A j \in Ids : j <= mark' => Settled(j)'
    BY DEF MarkCovers
  <2>1. heard = InitMark /\ saved > 0 /\ saved <= mark /\ saved \in Nat /\ mark \in Nat
        /\ \A j \in Ids : j \in Nat /\ (j <= mark => Settled(j))
    BY WatchAssumption DEF IInv, MarkCovers, MarkTypes, Posted, Ids
  <2>2. mark' = saved /\ UNCHANGED <<saved, copies, cut, heard>>
        /\ dropped' = dropped \cup {m \in InFlight : m <= saved}
    BY DEF Exit, Forget
  <2>3. ASSUME NEW j \in Ids, j <= saved PROVE Settled(j)'
    <3>1. Settled(j)
      BY <2>1, <2>3
    <3>2. live[j] # "none" => j \in dropped'
      BY <2>2, <2>3 DEF InFlight
    <3> QED BY <2>2, <3>1, <3>2 DEF Settled
  <2> QED BY <2>1, <2>2, <2>3
<1>16. PlainCovers'
  BY DEF Exit, Forget, PlainCovers, Plain
<1>17. ShownIsSettled'
  BY DEF Exit, Forget, ShownIsSettled
<1>18. Replayed'
  BY DEF Exit, Forget, Replayed
<1>19. FillingUp'
  BY DEF Exit, Forget, FillingUp
<1>20. Following'
  BY DEF Exit, Forget, Following
<1> QED BY <1>1, <1>2, <1>3, <1>4, <1>5, <1>6, <1>7, <1>8, <1>9, <1>10, <1>11, <1>12, <1>13,
     <1>14, <1>15, <1>16, <1>17, <1>18, <1>19, <1>20 DEF IInv

LEMMA KillStep ==
  ASSUME IInv, Kill
  PROVE  IInv'
<1>1. WorldTypes'
  BY WatchAssumption DEF IInv, Kill, Disturb, Forget, world, WorldTypes
<1>2. MarkTypes'
  BY DEF IInv, Kill, Forget, MarkTypes
<1>3. GapTypes'
  BY DEF Kill, Forget, GapTypes
<1>4. FillTypes'
  <2>1. fill' = "none" /\ starting' = FALSE /\ todo' = {} /\ turn' = 0
    BY DEF Kill, Forget
  <2>2. turn' \in 0 .. MaxMsg
    BY <2>1, WatchAssumption
  <2> QED BY <2>1, <2>2 DEF FillTypes
<1>5. StreamTypes'
  BY DEF Kill, Forget, StreamTypes
<1>6. ReaderTypes'
  BY DEF IInv, Kill, Forget, InFlight, ReaderTypes
<1>7. Posted'
  BY WatchAssumption DEF IInv, Kill, Forget, world, Posted, WorldTypes,
     MarkTypes
<1>8. Process'
  BY DEF Kill, Forget, Process
<1>9. InboxOrder'
  BY DEF Kill, Forget, InboxOrder
<1>10. QueueShape'
  BY DEF Kill, Forget, QueueShape
<1>11. HandlersOfGaps'
  BY DEF Kill, Forget, HandlersOfGaps, InGap
<1>12. Known'
  BY DEF IInv, Kill, Forget, Ids, Known, MarkTypes
<1>13. OneWay'
  BY DEF IInv, Kill, Forget, OneWay, Pending, AtSinkAgain
<1>14. WrittenIsGiven'
  BY DEF Kill, Forget, WrittenIsGiven
<1>15. MarkCovers'
  <2> SUFFICES ASSUME HasMark
               PROVE  heard' = InitMark /\ saved' > 0 /\ \A j \in Ids : j <= mark' => Settled(j)'
    BY DEF MarkCovers
  <2>1. heard = InitMark /\ saved > 0 /\ saved <= mark /\ saved \in Nat /\ mark \in Nat
        /\ \A j \in Ids : j \in Nat /\ (j <= mark => Settled(j))
    BY WatchAssumption DEF IInv, MarkCovers, MarkTypes, Posted, Ids
  <2>2. mark' = saved /\ UNCHANGED <<saved, copies, cut, heard>>
        /\ dropped' = dropped \cup {m \in InFlight : m <= saved}
    BY DEF Kill, Forget
  <2>3. ASSUME NEW j \in Ids, j <= saved PROVE Settled(j)'
    <3>1. Settled(j)
      BY <2>1, <2>3
    <3>2. live[j] # "none" => j \in dropped'
      BY <2>2, <2>3 DEF InFlight
    <3> QED BY <2>2, <3>1, <3>2 DEF Settled
  <2> QED BY <2>1, <2>2, <2>3
<1>16. PlainCovers'
  BY DEF Kill, Forget, PlainCovers, Plain
<1>17. ShownIsSettled'
  BY DEF Kill, Forget, ShownIsSettled
<1>18. Replayed'
  BY DEF Kill, Forget, Replayed
<1>19. FillingUp'
  BY DEF Kill, Forget, FillingUp
<1>20. Following'
  BY DEF Kill, Forget, Following
<1> QED BY <1>1, <1>2, <1>3, <1>4, <1>5, <1>6, <1>7, <1>8, <1>9, <1>10, <1>11, <1>12, <1>13,
     <1>14, <1>15, <1>16, <1>17, <1>18, <1>19, <1>20 DEF IInv

-----------------------------------------------------------------------------
(* The invariant.                                                          *)

LEMMA InitInv == Init => IInv
<1> SUFFICES ASSUME Init PROVE IInv
  OBVIOUS
<1>1. WorldTypes /\ MarkTypes /\ GapTypes /\ FillTypes
  <2>1. WorldTypes
    BY WatchAssumption DEF Init, WorldTypes
  <2>2. MarkTypes
    BY WatchAssumption DEF Init, MarkTypes
  <2>3. 0 \in 0 .. MaxMsg
    BY WatchAssumption
  <2>4. GapTypes /\ FillTypes
    BY <2>3 DEF Init, GapTypes, FillTypes
  <2> QED BY <2>1, <2>2, <2>4
<1>2. inbox = <<>> /\ queue = <<>> /\ Len(inbox) = 0 /\ Len(queue) = 0
  BY DEF Init
<1>3. StreamTypes
  <2>1. inbox \in Seq(Ids) /\ queue \in Seq(Record)
    BY <1>2, EmptySeq
  <2>2. live \in [Ids -> {"none", "name", "gapname", "plain", "gap", "written"}]
    BY DEF Init
  <2> QED BY <2>1, <2>2 DEF StreamTypes, Record
<1>4. ReaderTypes
  BY DEF Init, ReaderTypes
<1>5. /\ posted = InitMark /\ mark = InitMark /\ saved = InitMark /\ heard = InitMark
      /\ proc = "down" /\ fill = "none" /\ shownGap = {} /\ todo = {} /\ openGaps = 0
      /\ ~unfilled /\ ~starting /\ InitMark \in Nat
      /\ \A m \in Ids : m \in Nat /\ live[m] = "none" /\ copies[m] = 0
  BY WatchAssumption DEF Init, Ids
<1>6. Posted /\ Process /\ HandlersOfGaps /\ Known /\ WrittenIsGiven /\ PlainCovers
  BY <1>2, <1>5 DEF Posted, Process, HandlersOfGaps, Known, Asked, WrittenIsGiven,
       PlainCovers, Plain, InGap
<1>7. InboxOrder /\ QueueShape
  BY <1>2 DEF InboxOrder, QueueShape
<1>8. OneWay
  BY <1>5 DEF OneWay, Pending
<1>9. MarkCovers
  BY <1>5 DEF MarkCovers, HasMark, Settled
<1>10. ShownIsSettled /\ Replayed /\ FillingUp /\ Following
  BY <1>5 DEF ShownIsSettled, Replayed, FillingUp, Following
<1> QED BY <1>1, <1>3, <1>4, <1>6, <1>7, <1>8, <1>9, <1>10 DEF IInv

LEMMA StepInv == IInv /\ [Next]_vars => IInv'
<1> SUFFICES ASSUME IInv, [Next]_vars PROVE IInv'
  OBVIOUS
<1>1. CASE Reconnect \/ Handle \/ Emit \/ AcquireFilling \/ Ask \/ NoteReplayed \/ FillDone
           \/ Start \/ Exit
  BY <1>1, ReconnectStep, HandleStep, EmitStep, AcquireFillingStep, AskStep,
       NoteReplayedStep,
     FillDoneStep, StartStep, ExitStep
<1>2. ASSUME NEW m \in Ids, Title(m) \/ NoteLive(m) \/ ReplayNext(m) PROVE IInv'
  BY <1>2, TitleStep, NoteLiveStep, ReplayNextStep
<1>3. CASE Work
  BY <1>1, <1>2, <1>3 DEF Work
<1>4. CASE Post \/ Disturbance
  BY <1>4, PostStep, DisconnectStep, FillFailStep, StopStep, KillStep DEF Disturbance
<1>5. CASE UNCHANGED vars
  BY <1>5, Kept, KeptSame DEF IInv, vars, world, marks, gap, replay, reader
<1> QED BY <1>3, <1>4, <1>5 DEF Next

LEMMA Invariant == Spec => []IInv
BY InitInv, StepInv, PTL DEF Spec

\* Every variable has its type.
THEOREM TypeCorrect == Spec => []TypeOK
<1>1. IInv => TypeOK
  BY DEF IInv, TypeOK
<1> QED BY <1>1, Invariant, PTL

\* The reader gets a message twice only where that is accounted for: after a
\* restart, or when it was on its way to the reader as the connection came back.
THEOREM RepeatsAreAccountedFor == Spec => []RepeatsAccountedFor
<1>1. IInv => RepeatsAccountedFor
  BY DEF IInv, ReaderTypes, OneWay, RepeatsAccountedFor
<1> QED BY <1>1, Invariant, PTL

\* The mark of a chat that has one passes over no message the reader is owed:
\* what lies below it was handed over, is on its way, or was on its way below
\* the saved mark when a process died.
THEOREM NothingIsPassedOver ==
  ASSUME InitMark > 0
  PROVE  Spec => []LossAccountedFor
<1>1. IInv => LossAccountedFor
  <2> SUFFICES ASSUME IInv, NEW m \in Ids, Owed(m), m <= mark
               PROVE  copies[m] > 0 \/ m \in InFlight \/ m \in dropped
    BY DEF LossAccountedFor
  <2>1. Settled(m)
    BY DEF IInv, MarkCovers, HasMark
  <2>2. ~(m <= heard)
    BY WatchAssumption DEF Owed, IInv, MarkTypes, Ids
  <2> QED BY <2>1, <2>2 DEF Settled, Owed, InFlight
<1> QED BY <1>1, Invariant, PTL

\* A listener of such a chat that is connected and at rest, with no gap open,
\* has its mark at the newest message and has handed over all before it.
THEOREM RestIsCaughtUp ==
  ASSUME InitMark > 0
  PROVE  Spec => []CaughtUp
<1>1. IInv => CaughtUp
  <2> SUFFICES ASSUME IInv, proc = "up", online, ~InGap, inbox = <<>>, InFlight = {}
               PROVE  /\ mark = posted
                      /\ \A m \in 1 .. posted : Owed(m) => copies[m] > 0 \/ m \in dropped
    BY DEF CaughtUp
  <2>1. PICK h \in 0 .. MaxMsg, r \in 0 .. MaxMsg :
          /\ Frontier(h, r)
          /\ \A j \in Ids : j <= h => Settled(j)
          /\ h <= mark \/ (h \in Ids /\ Plain(h))
    BY DEF IInv, Following, HasMark
  <2>2. mark \in Nat /\ posted \in 0 .. MaxMsg /\ MaxMsg \in Nat /\ h \in Nat
    BY WatchAssumption DEF IInv, MarkTypes, WorldTypes
  <2>3. \A j \in Ids : live[j] = "none"
    BY DEF InFlight
  <2>4. r = posted /\ h <= posted /\ mark <= h
    BY <2>1 DEF Frontier
  <2>5. h = posted
    <3> SUFFICES ASSUME h # posted PROVE FALSE
      OBVIOUS
    <3>1. h + 1 \in Ids /\ h < h + 1 /\ h + 1 <= r
      BY <2>2, <2>4 DEF Ids
    <3>2. Len(inbox) = 0
      OBVIOUS
    <3> QED BY <2>1, <3>1, <3>2 DEF Frontier
  <2>6. mark = posted
    BY <2>1, <2>2, <2>3, <2>4, <2>5 DEF Plain
  <2>7. ASSUME NEW m \in 1 .. posted, Owed(m) PROVE copies[m] > 0 \/ m \in dropped
    <3>1. m \in Ids /\ m <= h
      BY <2>2, <2>5 DEF Ids
    <3>2. ~(m <= heard)
      BY <2>7, <3>1, WatchAssumption DEF Owed, IInv, MarkTypes, Ids
    <3> QED BY <2>1, <2>3, <2>7, <3>1, <3>2 DEF Settled, Owed
  <2> QED BY <2>6, <2>7
<1> QED BY <1>1, Invariant, PTL
=============================================================================
