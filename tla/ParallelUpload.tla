--------------------------- MODULE ParallelUpload ---------------------------
(***************************************************************************)
(* upload.py: one file sent over several connections.  The send loop fills *)
(* the connections with parts, waits for answers, settles them, opens the  *)
(* broken connections again and adjusts the width to the answers.          *)
(*                                                                         *)
(* Simplifications.  Sizes are small numbers in the proportions of the     *)
(* code.  The order of the parts waiting for another attempt is any order. *)
(* An answer is fast, middling or slow; a pause is running or over.        *)
(* Opening a connection may take for ever, closing one does not; a failure *)
(* to open one ends the upload.                                            *)
(***************************************************************************)
EXTENDS Naturals, Sequences, FiniteSets, FiniteSetsExt

CONSTANTS
  FileSizes,                  \* sizes a file may have
  PartSizes, MaxParts,        \* PART_SIZES and MAX_PARTS
  SmallUpTo, MediumUpTo,      \* SMALL_FILE_UP_TO, MEDIUM_FILE_UP_TO
  BigFrom,                    \* BIG_FILE_FROM
  MinWidth, MaxWidth,         \* min_connections, max_connections
  Room,                       \* in_flight_per_connection
  FastLoad,                   \* accept_as_fast_from
  Attempts,                   \* part_attempts
  None,                       \* no size, no task
  MaxFaults                   \* bound on the answers that are not a success

ASSUME UploadAssumption ==
  /\ FileSizes \subseteq Nat \ {0}
  /\ PartSizes \in Seq(Nat \ {0}) /\ Len(PartSizes) >= 2
  /\ MaxParts \in Nat \ {0} /\ SmallUpTo \in Nat /\ MediumUpTo \in Nat /\ BigFrom \in Nat
  /\ MinWidth \in Nat \ {0} /\ MaxWidth \in Nat /\ MinWidth <= MaxWidth
  /\ Room \in Nat /\ \A i \in DOMAIN PartSizes : PartSizes[i] <= Room
  /\ FastLoad \in Nat /\ Attempts \in Nat \ {0} /\ MaxFaults \in Nat
  /\ None \notin Nat /\ None \notin [conn : Nat, answer : {"none", "ok", "bad"}]

-----------------------------------------------------------------------------
(* Cutting a file into parts.                                              *)

PartCount(size, part) == (size + part - 1) \div part

AllowedSizes(size) ==
  CASE size < SmallUpTo -> DOMAIN PartSizes
    [] size >= SmallUpTo /\ size <= MediumUpTo -> DOMAIN PartSizes \ {1}
    [] OTHER -> {Len(PartSizes)}

\* None stands for the ValueError.
ChoosePartSize(size) ==
  LET fit == {i \in AllowedSizes(size) : PartCount(size, PartSizes[i]) <= MaxParts}
  IN IF fit = {} THEN None ELSE PartSizes[Min(fit)]

Parts == 0 .. MaxParts - 1

VARIABLES
  file,      \* its size in bytes
  pc,        \* where the loop stands
  conns,     \* pool.connections: bytes in flight and whether it is broken
  healing,   \* the connection being opened again
  next,      \* reader._next_index
  exhausted, \* reader.exhausted
  task,      \* part -> its task in in_flight, or None
  retries,   \* part -> how many times it is in the list of retries
  attempts,  \* part -> part.attempts
  credit,    \* part -> how many times it was added to sent_bytes
  acked,     \* parts the server acknowledged
  count,     \* policy._count
  fast,      \* policy._fast
  settling,  \* settle_after_shrink is not over
  paused,    \* _pause_until is ahead
  faults

source == <<file, next, exhausted>>
work == <<task, retries, attempts, credit, acked>>
policy == <<count, fast, settling>>
vars == <<source, pc, conns, healing, work, policy, paused, faults>>

Size == ChoosePartSize(file)
Total == PartCount(file, Size)
Bytes(p) == IF p = Total - 1 THEN file - p * Size ELSE Size

Indices == DOMAIN conns
InFlight == {p \in Parts : task[p] # None}
Answered == {p \in InFlight : task[p].answer # "none"}
On(c) == {p \in InFlight : task[p].conn = c}
Sum(ps) == MapThenSumSet(Bytes, ps)
SentBytes == MapThenSumSet(LAMBDA p : credit[p] * Bytes(p), Parts)

-----------------------------------------------------------------------------
(* The pool and the width.                                                 *)

\* pool.free: the first connection with room for one more part.
HasRoom(c) == ~conns[c].broken /\ conns[c].load + Size <= Room
Free == {c \in Indices : HasRoom(c)}

\* policy.record: `speed` is the answer's time, `load` what it came back under.
\* Mutant: a slow answer drops a connection whatever the width is.
ShrinkBelowFloor ==
  IF settling THEN UNCHANGED <<count, settling>> ELSE count' = count - 1 /\ settling' = TRUE

Shrink ==
  IF count <= MinWidth \/ settling THEN UNCHANGED <<count, settling>>
  ELSE count' = count - 1 /\ settling' = TRUE

Record(c, speed, load) ==
  CASE speed = "slow" -> Shrink /\ fast' = {}
    [] speed = "middling" -> fast' = {} /\ UNCHANGED <<count, settling>>
    [] speed = "fast" -> /\ fast' = IF load >= FastLoad THEN fast \cup {c} ELSE fast
                         /\ UNCHANGED <<count, settling>>

AllFast == Cardinality(fast) >= count

\* grow_if_all_fast, and what the width is wanted to be.
Adjust ==
  /\ pc = "adjust"
  /\ pc' = "resize"
  /\ IF count < MaxWidth /\ AllFast
     THEN count' = count + 1 /\ fast' = {}
     ELSE UNCHANGED <<count, fast>>
  /\ UNCHANGED <<source, conns, healing, work, settling, paused, faults>>

Open ==
  /\ pc = "resize" /\ Len(conns) < count
  /\ conns' = Append(conns, [load |-> 0, broken |-> FALSE])
  /\ UNCHANGED <<source, pc, healing, work, policy, paused, faults>>

\* Mutant: the last connection is closed whatever it carries.
TailOpen == TRUE

\* idle_tail
IdleTail == conns[Len(conns)].load = 0

CloseTail ==
  /\ pc = "resize" /\ Len(conns) > count /\ IdleTail
  /\ conns' = SubSeq(conns, 1, Len(conns) - 1)
  /\ UNCHANGED <<source, pc, healing, work, policy, paused, faults>>

Resized ==
  /\ pc = "resize" /\ Len(conns) >= count
  /\ Len(conns) = count \/ ~IdleTail
  /\ pc' = "pause"
  /\ UNCHANGED <<source, conns, healing, work, policy, paused, faults>>

-----------------------------------------------------------------------------
(* The loop: upload_file, upload, _run, _fill.                             *)

\* A small file goes the library's way, one too large is refused.
Begin ==
  /\ pc = "begin"
  /\ pc' = CASE file <= BigFrom -> "library"
             [] file > BigFrom /\ Size = None -> "refused"
             [] OTHER -> "resize"
  /\ UNCHANGED <<source, conns, healing, work, policy, paused, faults>>

\* _wait_out_the_pause sleeps only when nothing is on its way; the event loop
\* may wake it a tick of the clock before the pause is over.
WaitOutThePause ==
  /\ pc = "pause"
  /\ pc' = "fill"
  /\ paused' \in IF InFlight = {} THEN {paused, FALSE} ELSE {paused}
  /\ UNCHANGED <<source, conns, healing, work, policy, faults>>

Send(c, p) ==
  /\ task' = [task EXCEPT ![p] = [conn |-> c, answer |-> "none"]]
  /\ conns' = [conns EXCEPT ![c].load = @ + Bytes(p)]

\* A part waiting for another attempt goes first.
SendAgain ==
  /\ pc = "fill" /\ ~paused /\ Free # {}
  /\ \E p \in Parts :
       /\ retries[p] > 0
       /\ Send(Min(Free), p)
       /\ retries' = [retries EXCEPT ![p] = @ - 1]
  /\ UNCHANGED <<source, pc, healing, attempts, credit, acked, policy, paused, faults>>

NoRetries == \A p \in Parts : retries[p] = 0

\* The next part is read in a thread.
Read ==
  /\ pc = "fill" /\ ~paused /\ Free # {} /\ NoRetries /\ ~exhausted
  /\ pc' = "reading"
  /\ UNCHANGED <<source, conns, healing, work, policy, paused, faults>>

SendNext ==
  /\ pc = "reading" /\ next < Total
  /\ pc' = "fill"
  /\ Send(Min(Free), next)
  /\ next' = next + 1
  /\ UNCHANGED <<file, exhausted, healing, retries, attempts, credit, acked, policy, paused, faults>>

ReadOut ==
  /\ pc = "reading" /\ next = Total
  /\ pc' = "wait"
  /\ exhausted' = TRUE
  /\ UNCHANGED <<file, next, conns, healing, work, policy, paused, faults>>

Filled ==
  /\ pc = "fill"
  /\ paused \/ Free = {} \/ (NoRetries /\ exhausted)
  /\ pc' = "wait"
  /\ UNCHANGED <<source, conns, healing, work, policy, paused, faults>>

\* Mutant: nothing on its way ends the upload.
AnythingRead == TRUE

\* The upload is over when the file is read and no part waits.
NothingLeft == exhausted /\ NoRetries

GoRound ==
  /\ pc = "wait" /\ InFlight = {}
  /\ pc' = IF NothingLeft THEN "done" ELSE "pause"
  /\ conns' = IF NothingLeft THEN <<>> ELSE conns
  /\ UNCHANGED <<source, healing, work, policy, paused, faults>>

Wake ==
  /\ pc = "wait" /\ Answered # {}
  /\ pc' = "settle"
  /\ UNCHANGED <<source, conns, healing, work, policy, paused, faults>>

-----------------------------------------------------------------------------
(* _settle: what an answer does.  All that were there when the loop woke   *)
(* are settled, in any order, before anything else runs.                   *)

Landed(p) == [task EXCEPT ![p] = None]
Lighter(p) == [conns EXCEPT ![task[p].conn].load = @ - Bytes(p)]

\* The time of an answer and the kind of a failure are chosen where they are
\* looked at.
Succeeded(p) ==
  /\ task[p].answer = "ok"
  /\ credit' = [credit EXCEPT ![p] = @ + 1]
  /\ conns' = Lighter(p)
  /\ \E speed \in {"fast", "middling", "slow"} :
       Record(task[p].conn, speed, conns[task[p].conn].load)
  /\ UNCHANGED <<pc, retries, attempts, paused>>

Flooded(p) ==
  /\ task[p].answer = "bad"
  /\ Record(task[p].conn, "slow", 0)
  /\ paused' = TRUE
  /\ retries' = [retries EXCEPT ![p] = @ + 1]
  /\ conns' = Lighter(p)
  /\ UNCHANGED <<pc, attempts, credit>>

\* After a timeout or a broken link the connection takes nothing more; any
\* other error is the part's own.
TriedAgain(p) ==
  /\ task[p].answer = "bad" /\ attempts[p] + 1 < Attempts
  /\ attempts' = [attempts EXCEPT ![p] = @ + 1]
  /\ retries' = [retries EXCEPT ![p] = @ + 1]
  /\ \E lost \in BOOLEAN :
       conns' = [Lighter(p) EXCEPT ![task[p].conn].broken = @ \/ lost]
  /\ UNCHANGED <<pc, credit, policy, paused>>

Settle ==
  /\ pc = "settle"
  /\ \E p \in Answered :
       /\ task' = Landed(p)
       /\ Succeeded(p) \/ Flooded(p) \/ TriedAgain(p)
  /\ UNCHANGED <<source, healing, acked, faults>>

\* What is on its way is cancelled and the pool closed.
GiveUp ==
  /\ pc' = "failed" /\ conns' = <<>> /\ healing' = None
  /\ task' = [p \in Parts |-> None]

\* The last attempt failed, or a flood wait is past max_flood_wait.
SettleFails ==
  /\ pc = "settle" /\ \E p \in Answered : task[p].answer = "bad"
  /\ GiveUp
  /\ UNCHANGED <<source, retries, attempts, credit, acked, policy, paused, faults>>

Settled ==
  /\ pc = "settle" /\ Answered = {}
  /\ pc' = "heal"
  /\ UNCHANGED <<source, conns, healing, work, policy, paused, faults>>

-----------------------------------------------------------------------------
(* _heal: a fresh connection in place of every broken one.                 *)

\* Mutant: the parts a broken connection carried are left where they are.
RequeuedNot(c) == UNCHANGED <<task, retries>>

\* Mutant: a part that has its answer already is not sent again.
RequeuedUnanswered(c) ==
  /\ task' = [p \in Parts |-> IF p \in On(c) THEN None ELSE task[p]]
  /\ retries' = [p \in Parts |-> IF p \in On(c) \ Answered THEN retries[p] + 1 ELSE retries[p]]

Requeued(c) ==
  /\ task' = [p \in Parts |-> IF p \in On(c) THEN None ELSE task[p]]
  /\ retries' = [p \in Parts |-> IF p \in On(c) THEN retries[p] + 1 ELSE retries[p]]

\* Mutant: no connection is opened again.
NoneBroken == {}

Broken == {c \in Indices : conns[c].broken}

Heal ==
  /\ pc = "heal" /\ Broken # {}
  /\ healing' = Min(Broken)
  /\ Requeued(Min(Broken))
  /\ conns' = [conns EXCEPT ![Min(Broken)].load = 0]
  /\ pc' = "reopen"
  /\ UNCHANGED <<source, attempts, credit, acked, policy, paused, faults>>

Reopened ==
  /\ pc = "reopen"
  /\ conns' = [conns EXCEPT ![healing].broken = FALSE]
  /\ healing' = None
  /\ pc' = "heal"
  /\ UNCHANGED <<source, work, policy, paused, faults>>

Healed ==
  /\ pc = "heal" /\ Broken = {}
  /\ pc' = "adjust"
  /\ UNCHANGED <<source, conns, healing, work, policy, paused, faults>>

-----------------------------------------------------------------------------
(* The server, the line and the clock, while the loop awaits.              *)

Awaiting == pc \in {"reading", "wait", "reopen", "resize"}

Answer(p) ==
  /\ Awaiting /\ p \in InFlight \ Answered
  /\ task' = [task EXCEPT ![p].answer = "ok"]
  /\ acked' = acked \cup {p}
  /\ UNCHANGED <<source, pc, conns, healing, retries, attempts, credit, policy, paused, faults>>

\* A flood wait, a timeout, a broken link or an error; whether the server has
\* the part makes no difference to the code.
Trouble(p) ==
  /\ Awaiting /\ p \in InFlight \ Answered /\ faults < MaxFaults
  /\ faults' = faults + 1
  /\ task' = [task EXCEPT ![p].answer = "bad"]
  /\ UNCHANGED <<source, pc, conns, healing, retries, attempts, credit, acked, policy, paused>>

\* Opening or closing a connection, or reading the file, raises.
PoolFails ==
  /\ pc \in {"reading", "reopen"} \/ (pc = "resize" /\ Len(conns) # count)
  /\ faults < MaxFaults /\ faults' = faults + 1
  /\ GiveUp
  /\ UNCHANGED <<source, retries, attempts, credit, acked, policy, paused>>

PauseOver ==
  /\ paused /\ paused' = FALSE
  /\ UNCHANGED <<source, pc, conns, healing, work, policy, faults>>

SettleOver ==
  /\ settling /\ settling' = FALSE
  /\ UNCHANGED <<source, pc, conns, healing, work, count, fast, paused, faults>>

Init ==
  /\ file \in FileSizes /\ pc = "begin"
  /\ conns = <<>> /\ healing = None
  /\ next = 0 /\ exhausted = FALSE
  /\ task = [p \in Parts |-> None]
  /\ retries = [p \in Parts |-> 0]
  /\ attempts = [p \in Parts |-> 0]
  /\ credit = [p \in Parts |-> 0]
  /\ acked = {}
  /\ count = MinWidth /\ fast = {} /\ settling = FALSE
  /\ paused = FALSE /\ faults = 0

Loop ==
  \/ Begin \/ WaitOutThePause \/ SendAgain \/ Read \/ SendNext \/ ReadOut \/ Filled
  \/ GoRound \/ Wake \/ Settle \/ SettleFails \/ Settled \/ Heal \/ Healed
  \/ Adjust \/ CloseTail \/ Resized

\* The loop awaits a new connection, which is up once GetConfig is answered.
Connecting == pc = "reopen" \/ (pc = "resize" /\ Len(conns) < count)
Connected == Open \/ Reopened

Next ==
  \/ Loop \/ Connected
  \/ \E p \in Parts : Answer(p) \/ Trouble(p)
  \/ PoolFails \/ PauseOver \/ SettleOver

Spec == Init /\ [][Next]_vars

\* The event loop runs what is ready, time passes, a part is answered or times
\* out.  Nothing bounds the wait for a new connection (connect_upload_sender has
\* no timeout): Connected has no fairness.
FairSpec ==
  /\ Spec /\ WF_vars(Loop) /\ WF_vars(PauseOver)
  /\ \A p \in Parts : WF_vars(Answer(p) \/ Trouble(p))

-----------------------------------------------------------------------------
Ends == {"library", "refused", "done", "failed"}

\* Every part that was read is on its way, waits for another attempt or was
\* counted, and is so once: whatever _settle and _heal do with a part whose
\* connection breaks, the progress counts it once and no part is dropped.
\* A failed upload gives everything up.
Places(p) == retries[p] + credit[p] + (IF task[p] # None THEN 1 ELSE 0)

PartsInOnePlace ==
  pc \notin Ends => \A p \in Parts : Places(p) = IF p < next THEN 1 ELSE 0

\* upload() returns a handle for the whole file: every part was acknowledged
\* and the progress reached the size of the file.
DoneIsWhole ==
  pc = "done" => /\ \A p \in Parts : p < Total => p \in acked
                 /\ SentBytes = file
                 /\ Total <= MaxParts

\* The pool keeps its books: the counter of a connection is what its tasks
\* carry, across retries, cancelled parts and a shrinking pool, and stays within
\* in_flight_per_connection; no task is left on a connection that was closed
\* (_adjust: "a sender disconnected under a pending request loses the part with
\* it"); the width stays between its floor and its ceiling.
LoadIsReal ==
  \A c \in Indices : conns[c].load = Sum(On(c)) /\ conns[c].load <= Room

NoOrphan == \A p \in InFlight : task[p].conn \in Indices

PoolInOrder == LoadIsReal /\ NoOrphan /\ count \in MinWidth .. MaxWidth

\* Every upload ends, in the handle or in an error, whatever its parts and
\* connections run into; only a new connection that is never up, nor fails to
\* be, can keep it waiting (upload.py:253).
UploadEnds == <>(pc \in Ends) \/ <>[]Connecting
=============================================================================
