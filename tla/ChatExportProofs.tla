-------------------------- MODULE ChatExportProofs --------------------------
(***************************************************************************)
(* Proofs about ChatExport, for every chat, configuration and history of   *)
(* faults: its types, that no message is given up without being stored,    *)
(* that it implements Archive, and what a run that ends by itself leaves:  *)
(* the right count, pages that show the database, a complete chat.         *)
(*                                                                         *)
(* The theorems about lost and missing messages assume NeverEmpty.         *)
(* Without it they are false: a chat that a first run finds empty is       *)
(* recorded as read to the end.  The theorem about the pages assumes       *)
(* NoAbort.  Without it, it is false: a run torn away after its commit     *)
(* leaves old pages that the next run keeps (see the README).              *)
(***************************************************************************)
EXTENDS ChatExport, FiniteSetTheorems, TLAPS

\* The chat has a message that stays.
NeverEmpty == InitTop > 0 /\ 1 \notin Deletable

Walking == pc \in {"walk", "flush", "store", "mark"}
InPhaseTwo == Walking /\ phase = 2
Handled == db \cup batch \cup pending

\* What the row of export_state and the server always agree on.
RowOK ==
  /\ server \subseteq 1 .. top
  /\ 1 \in server
  /\ last <= top
  /\ oldest <= last
  /\ last > 0 => oldest > 0
  /\ last = 0 => ~full

\* The pointers a run works from are those of the row, except that phase 1
\* may have moved the newest one.
SnapshotOK ==
  /\ (pc = "phase1" \/ (Walking /\ phase = 1)) =>
       (last0 = last /\ oldest0 = oldest /\ full0 = full)
  /\ (pc = "gate" \/ InPhaseTwo) =>
       /\ oldest0 = oldest /\ full0 = full
       /\ last0 <= last
       /\ last0 = 0 => last = 0
       /\ last0 > 0 => oldest0 > 0
       /\ oldest0 <= last0
  /\ pc # "idle" => dateFrom \in DateFroms

\* Phase 1: what it has walked over is in hand; at its end, all of it unless
\* it was stopped.
PhaseOneOK ==
  Walking /\ phase = 1 =>
    /\ last0 > 0 /\ floor = last0
    /\ last0 <= newest /\ newest <= top
    /\ \A i \in server \cap Wanted :
         /\ last0 < i /\ i <= newest /\ i >= cursor => i \in Handled
         /\ pc \in {"store", "mark"} /\ ~shutdown =>
              (last0 < i /\ i <= newest => i \in Handled)

\* What phase 2 is responsible for.
BelowPhaseOne(i) == IF oldest0 > 0 THEN i < oldest0 ELSE i <= newest

\* Phase 2: the same, downward from the oldest message, and an iterator that
\* ended by itself has seen the beginning of the chat.
PhaseTwoOK ==
  InPhaseTwo =>
    /\ floor = 0 /\ ~full0
    /\ cursor > 0
    /\ newest <= top /\ lowest <= newest
    /\ oldest0 > 0 => lowest = cursor /\ lowest <= oldest0 /\ newest = last0
    /\ oldest0 = 0 =>
         /\ lowest = 0 => newest = 0 /\ cursor > 1 /\ ~exhausted
         /\ lowest > 0 => lowest = cursor
    /\ \A i \in server \cap Wanted :
         (lowest > 0 /\ lowest <= i /\ BelowPhaseOne(i)) => i \in Handled
    /\ exhausted => \A i \in server : lowest <= i

\* Nothing waits in the pipeline once the loop is left, and nothing outside
\* the database once the rest is stored.
InHandOK ==
  /\ pc \in {"store", "mark"} => pending = {}
  /\ pc = "mark" => batch = {}

\* NothingLost, with Claimed spelled out for a row that is RowOK.
CoveredStored ==
  \A i \in server \cap Wanted :
    (last > 0 /\ i <= last /\ (full \/ oldest <= i)) => i \in db

IInv == RowOK /\ SnapshotOK /\ PhaseOneOK /\ PhaseTwoOK /\ InHandOK
          /\ CoveredStored

-----------------------------------------------------------------------------
(* Type correctness.                                                       *)

\* Only finitely many messages are ever stored.
LEMMA StoredIsFinite == ASSUME TypeOK PROVE Cardinality(db) \in Nat
<1>1. IsFiniteSet(Ids)
  BY FS_Interval, BoundsAssumption DEF Ids
<1>2. IsFiniteSet(db)
  BY <1>1, FS_Subset DEF TypeOK
<1> QED BY <1>2, FS_CardinalityType

\* Ids without its interval.
LEMMA IdFacts ==
  /\ MaxId \in Nat /\ MaxId >= 1 /\ 0 \in 0 .. MaxId
  /\ \A i : i \in Ids <=> i \in Nat /\ 1 <= i /\ i <= MaxId
BY BoundsAssumption DEF Ids

\* Ending a run resets what the process knew to values of the right types.
LEMMA EndRunTypes ==
  ASSUME TypeOK, NEW how \in {"ok", "stopped", "forced", "failed", "killed"},
         EndRun(how),
         server' \subseteq Ids, top' \in 0 .. MaxId, db' \subseteq Ids,
         UNCHANGED durable, pages' \subseteq Ids, redirect' \in BOOLEAN,
         faults' \in Nat
  PROVE  TypeOK'
<1>1. pc' = "idle" /\ phase' = 1 /\ outcome' = how /\ pending' = {} /\ batch' = {}
  BY DEF EndRun
<1>2. shutdown' \in BOOLEAN /\ full0' \in BOOLEAN /\ exhausted' \in BOOLEAN
        /\ wrote' \in BOOLEAN
  BY DEF EndRun
<1> QED
  BY <1>1, <1>2, IdFacts DEF TypeOK, EndRun, durable

\* Every variable keeps its type, in particular no pointer leaves 0..MaxId
\* and every pointer a message moved is the id of a message.
THEOREM TypeCorrect == Spec => []TypeOK
<1>1. Init => TypeOK
  <2> SUFFICES ASSUME Init PROVE TypeOK
    OBVIOUS
  <2>1. /\ full \in BOOLEAN /\ redirect \in BOOLEAN /\ shutdown \in BOOLEAN
        /\ full0 \in BOOLEAN /\ exhausted \in BOOLEAN /\ wrote \in BOOLEAN
    BY DEF Init
  <2> QED
    BY <2>1, IdFacts, ChatAssumption DEF Init, TypeOK
<1>2. TypeOK /\ [Next]_vars => TypeOK'
  <2> SUFFICES ASSUME TypeOK, [Next]_vars PROVE TypeOK'
    OBVIOUS
  <2> USE IdFacts, ChatAssumption
  <2>a. Cardinality(db) \in Nat
    BY StoredIsFinite
  <2>1. CASE Post
    BY <2>1 DEF Post, TypeOK, durable, disk, process, snapshot, walk
  <2>2. CASE Run
    BY <2>2, <2>a DEF Run, Start, TypeOK, env, durable, disk, walk
  <2>3. CASE FetchNewMessages
    <3>1. exhausted' \in BOOLEAN
      BY <2>3 DEF FetchNewMessages, BeginWalk
    <3> QED
      BY <2>3, <3>1 DEF FetchNewMessages, BeginWalk, TypeOK, env, durable, disk,
                  snapshot
  <2>4. CASE SkipNewMessages
    BY <2>4 DEF SkipNewMessages, TypeOK, env, durable, disk, snapshot, walk
  <2>5. CASE FetchOldMessages
    <3>1. exhausted' \in BOOLEAN
      BY <2>5 DEF FetchOldMessages, BeginWalk
    <3> QED
      BY <2>5, <3>1 DEF FetchOldMessages, PhaseTwoStart, Anchor, BeginWalk, TypeOK,
                  env, durable, disk, snapshot
  <2>6. CASE SkipOldMessages
    BY <2>6, <2>a DEF SkipOldMessages, MessageCount, TypeOK, env, disk,
                      snapshot, walk
  <2>7. ASSUME NEW m \in Ids, TakeMessage(m) PROVE TypeOK'
    BY <2>7 DEF TakeMessage, Yields, Between, Note, Max2, HandedOver, TypeOK,
                env, durable, disk, snapshot
  <2>8. ASSUME NEW m \in Ids, SkipMessage(m) PROVE TypeOK'
    BY <2>8 DEF SkipMessage, Yields, Between, Note, Max2, TypeOK,
                env, durable, disk, snapshot
  <2>9. ASSUME NEW m \in Ids, Break(m) PROVE TypeOK'
    BY <2>9 DEF Break, LeaveLoop, TypeOK, env, durable, disk, snapshot
  <2>10. CASE StoreBatch
    BY <2>10 DEF StoreBatch, TypeOK, env, durable, disk, snapshot
  <2>11. CASE Exhaust
    BY <2>11 DEF Exhaust, LeaveLoop, TypeOK, env, durable, disk, snapshot
  <2>12. CASE StoreRest
    BY <2>12 DEF StoreRest, TypeOK, env, durable, disk, snapshot
  <2>13. CASE MarkNewest
    BY <2>13 DEF MarkNewest, MergeLast, Max2, TypeOK, env, disk, snapshot, walk
  <2>14. CASE MarkPhaseTwo
    BY <2>14, <2>a DEF MarkPhaseTwo, CommitPhaseProgress, MergeLast, MergeOldest,
                 MergeFull, Max2, Min2, NewFull, MessageCount, TypeOK, env,
                 disk, snapshot, walk
  <2>15. CASE KeepPages
    BY <2>15, EndRunTypes DEF KeepPages, Finish, TypeOK, env, disk
  <2>16. CASE BeginRender
    BY <2>16 DEF BeginRender, TypeOK, env, durable, disk, snapshot, walk
  <2>17. CASE Unlink
    BY <2>17 DEF Unlink, TypeOK, env, durable, process, snapshot, walk
  <2>18. CASE UnlinkDone
    BY <2>18 DEF UnlinkDone, TypeOK, env, durable, disk, snapshot, walk
  <2>19. ASSUME NEW k \in Months, RenderMonth(k) PROVE TypeOK'
    BY <2>19 DEF RenderMonth, TypeOK, env, durable, process, snapshot, walk
  <2>20. CASE RenderEnd
    <3>1. redirect' \in BOOLEAN
      BY <2>20 DEF RenderEnd, TypeOK
    <3> QED
      BY <2>20, <3>1, EndRunTypes DEF RenderEnd, Finish, TypeOK, env
  <2>21. ASSUME NEW m \in Ids, DeleteMessage(m) PROVE TypeOK'
    BY <2>21 DEF DeleteMessage, Disturb, TypeOK, durable, disk, process,
                 snapshot, walk
  <2>22. ASSUME NEW d \in BOOLEAN, ResetProgress(d) PROVE TypeOK'
    <3>1. full' \in BOOLEAN
      BY <2>22 DEF ResetProgress
    <3> QED
      BY <2>22, <3>1 DEF ResetProgress, Disturb, TypeOK, env, disk, snapshot, walk
  <2>23. CASE PurgeChat
    <3>1. full' \in BOOLEAN /\ redirect' \in BOOLEAN
      BY <2>23 DEF PurgeChat
    <3> QED
      BY <2>23, <3>1 DEF PurgeChat, Disturb, TypeOK, env, snapshot, walk
  <2>24. CASE Signal
    BY <2>24 DEF Signal, Disturb, TypeOK, env, durable, disk, snapshot, walk
  <2>25. CASE ForceQuit
    BY <2>25, EndRunTypes DEF ForceQuit, Disturb, TypeOK, env, disk
  <2>26. CASE Fail
    BY <2>26, EndRunTypes DEF Fail, Disturb, TypeOK, env, disk
  <2>27. CASE Kill
    BY <2>27, EndRunTypes DEF Kill, Disturb, TypeOK, env, disk
  <2>28. CASE UNCHANGED vars
    BY <2>28 DEF vars, TypeOK, env, durable, disk, process, snapshot, walk
  <2> QED
    BY <2>1, <2>2, <2>3, <2>4, <2>5, <2>6, <2>7, <2>8, <2>9, <2>10, <2>11,
       <2>12, <2>13, <2>14, <2>15, <2>16, <2>17, <2>18, <2>19, <2>20, <2>21,
       <2>22, <2>23, <2>24, <2>25, <2>26, <2>27, <2>28
       DEF Next, Step, Walk, Disturbance
<1> QED
  BY <1>1, <1>2, PTL DEF Spec

-----------------------------------------------------------------------------
(* Nothing is lost.                                                        *)

\* Once no process runs, only the row matters.
LEMMA IdleInv ==
  ASSUME pc' = "idle", RowOK', CoveredStored' PROVE IInv'
BY DEF IInv, SnapshotOK, PhaseOneOK, PhaseTwoOK, InHandOK, InPhaseTwo, Walking

\* A database that grows under an unchanged row keeps what the row promises.
LEMMA RowKept ==
  ASSUME RowOK, CoveredStored, UNCHANGED <<server, top, last, oldest, full>>,
         db \subseteq db'
  PROVE  RowOK' /\ CoveredStored'
BY DEF RowOK, CoveredStored

LEMMA RunEnds ==
  ASSUME IInv, NEW how, EndRun(how), UNCHANGED <<env, durable>>, db \subseteq db'
  PROVE  IInv'
BY RowKept, IdleInv DEF IInv, EndRun, env, durable

LEMMA InitInv == ASSUME NeverEmpty, Init PROVE IInv
<1>1. server = 1 .. InitTop /\ top = InitTop /\ pc = "idle"
      /\ last = 0 /\ oldest = 0 /\ full = FALSE
  BY DEF Init
<1>2. RowOK
  BY <1>1, ChatAssumption DEF RowOK, NeverEmpty
<1>3. CoveredStored
  BY <1>1 DEF CoveredStored
<1> QED
  BY <1>1, <1>2, <1>3
     DEF IInv, SnapshotOK, PhaseOneOK, PhaseTwoOK, InHandOK, InPhaseTwo, Walking

LEMMA StepInv ==
  ASSUME NeverEmpty, TypeOK, TypeOK', IInv, [Next]_vars PROVE IInv'
<1> USE IdFacts, ChatAssumption
<1>1. CASE Post
  BY <1>1 DEF Post, IInv, TypeOK, RowOK, SnapshotOK, PhaseOneOK, PhaseTwoOK,
     InHandOK, CoveredStored, Handled, BelowPhaseOne, InPhaseTwo, Walking,
     durable, disk, process, snapshot, walk
<1>2. CASE Run
  BY <1>2 DEF Run, Start, IInv, TypeOK, RowOK, SnapshotOK, PhaseOneOK,
     PhaseTwoOK, InHandOK, CoveredStored, InPhaseTwo, Walking, env, durable,
     disk, walk
<1>3. CASE FetchNewMessages
  BY <1>3 DEF FetchNewMessages, BeginWalk, IInv, TypeOK, RowOK, SnapshotOK,
     PhaseOneOK, PhaseTwoOK, InHandOK, CoveredStored, InPhaseTwo, Walking, env,
     durable, disk, snapshot
<1>4. CASE SkipNewMessages
  BY <1>4 DEF SkipNewMessages, IInv, TypeOK, RowOK, SnapshotOK, PhaseOneOK,
     PhaseTwoOK, InHandOK, CoveredStored, InPhaseTwo, Walking, env, durable,
     disk, snapshot, walk
<1>5. CASE FetchOldMessages
  BY <1>5 DEF FetchOldMessages, PhaseTwoStart, Anchor, BeginWalk, IInv, TypeOK,
     RowOK, SnapshotOK, PhaseOneOK, PhaseTwoOK, InHandOK, CoveredStored,
     BelowPhaseOne, InPhaseTwo, Walking, env, durable, disk, snapshot
<1>6. CASE SkipOldMessages
  BY <1>6 DEF SkipOldMessages, IInv, TypeOK, RowOK, SnapshotOK, PhaseOneOK,
     PhaseTwoOK, InHandOK, CoveredStored, InPhaseTwo, Walking, env, disk,
     snapshot, walk
<1>7. ASSUME NEW m \in Ids, TakeMessage(m) PROVE IInv'
  BY <1>7 DEF TakeMessage, Yields, Between, Note, Max2, HandedOver, IInv,
     TypeOK, RowOK, SnapshotOK, PhaseOneOK, PhaseTwoOK, InHandOK,
     CoveredStored, Handled, BelowPhaseOne, InPhaseTwo, Walking, env, durable,
     disk, snapshot
<1>8. ASSUME NEW m \in Ids, SkipMessage(m) PROVE IInv'
  BY <1>8 DEF SkipMessage, Wanted, Yields, Between, Note, Max2, IInv,
     TypeOK, RowOK, SnapshotOK, PhaseOneOK, PhaseTwoOK, InHandOK,
     CoveredStored, Handled, BelowPhaseOne, InPhaseTwo, Walking, env, durable,
     disk, snapshot
<1>9. ASSUME NEW m \in Ids, Break(m) PROVE IInv'
  BY <1>9 DEF Break, LeaveLoop, Wanted, Yields, Between, IInv,
     TypeOK, RowOK, SnapshotOK, PhaseOneOK, PhaseTwoOK, InHandOK,
     CoveredStored, Handled, BelowPhaseOne, InPhaseTwo, Walking, env, durable,
     disk, snapshot
<1>10. CASE Exhaust
  BY <1>10 DEF Exhaust, LeaveLoop, Between, IInv,
     TypeOK, RowOK, SnapshotOK, PhaseOneOK, PhaseTwoOK, InHandOK,
     CoveredStored, Handled, BelowPhaseOne, InPhaseTwo, Walking, env, durable,
     disk, snapshot
<1>11. CASE StoreBatch \/ StoreRest
  BY <1>11 DEF StoreBatch, StoreRest, IInv,
     TypeOK, RowOK, SnapshotOK, PhaseOneOK, PhaseTwoOK, InHandOK,
     CoveredStored, Handled, BelowPhaseOne, InPhaseTwo, Walking, env, durable,
     disk, snapshot
<1>12. CASE MarkNewest
  BY <1>12 DEF MarkNewest, PointerMayMove, MergeLast, Max2, IInv,
     TypeOK, RowOK, SnapshotOK, PhaseOneOK, PhaseTwoOK, InHandOK,
     CoveredStored, Handled, InPhaseTwo, Walking, env, disk, snapshot, walk
<1>13. CASE MarkPhaseTwo
  BY <1>13 DEF MarkPhaseTwo, CommitPhaseProgress, MergeLast, MergeOldest,
     MergeFull, Max2, Min2, NewFull, IInv,
     TypeOK, RowOK, SnapshotOK, PhaseOneOK, PhaseTwoOK, InHandOK,
     CoveredStored, Handled, BelowPhaseOne, InPhaseTwo, Walking, env, disk,
     snapshot, walk
<1>14. CASE KeepPages \/ RenderEnd
  BY <1>14, RunEnds DEF KeepPages, RenderEnd, Finish
<1>15. CASE BeginRender \/ Unlink \/ UnlinkDone
            \/ \E k \in Months : RenderMonth(k)
  <2>1. UNCHANGED <<env, db, durable, dateFrom>>
    BY <1>15 DEF BeginRender, Unlink, UnlinkDone, RenderMonth, process, snapshot
  <2>2. pc' \in {"unlink", "pages"} /\ pc # "idle"
    BY <1>15 DEF BeginRender, Unlink, UnlinkDone, RenderMonth, process
  <2> QED
    BY <2>1, <2>2 DEF IInv, RowOK, SnapshotOK, PhaseOneOK, PhaseTwoOK,
       InHandOK, CoveredStored, InPhaseTwo, Walking, env, durable
<1>16. ASSUME NEW m \in Ids, DeleteMessage(m) PROVE IInv'
  BY <1>16 DEF DeleteMessage, NeverEmpty, IInv, RowOK, SnapshotOK, PhaseOneOK,
     PhaseTwoOK, InHandOK, CoveredStored, Handled, BelowPhaseOne, InPhaseTwo,
     Walking, durable, disk, process, snapshot, walk
<1>17. ASSUME NEW d \in BOOLEAN, ResetProgress(d) PROVE IInv'
  BY <1>17, IdleInv DEF ResetProgress, IInv, TypeOK, RowOK, CoveredStored, env
<1>18. CASE PurgeChat
  BY <1>18, IdleInv DEF PurgeChat, IInv, TypeOK, RowOK, CoveredStored, env
<1>19. CASE Signal
  BY <1>19 DEF Signal, IInv, RowOK, SnapshotOK, PhaseOneOK, PhaseTwoOK,
     InHandOK, CoveredStored, Handled, BelowPhaseOne, InPhaseTwo, Walking, env,
     durable, disk, snapshot, walk
<1>20. CASE ForceQuit \/ Fail \/ Kill
  BY <1>20, RunEnds DEF ForceQuit, Fail, Kill
<1>21. CASE UNCHANGED vars
  BY <1>21 DEF vars, IInv, RowOK, SnapshotOK, PhaseOneOK, PhaseTwoOK,
     InHandOK, CoveredStored, Handled, BelowPhaseOne, InPhaseTwo, Walking, env,
     durable, disk, process, snapshot, walk
<1> QED
  BY <1>1, <1>2, <1>3, <1>4, <1>5, <1>6, <1>7, <1>8, <1>9, <1>10, <1>11,
     <1>12, <1>13, <1>14, <1>15, <1>16, <1>17, <1>18, <1>19, <1>20, <1>21
     DEF Next, Step, Walk, Disturbance

\* Under RowOK the claim is the interval between the two marks, or all of it
\* up to the newer mark once the beginning of the chat was seen.
LEMMA ClaimIs ==
  ASSUME TypeOK, RowOK
  PROVE  Claimed = {i \in Ids : last > 0 /\ i <= last /\ (full \/ oldest <= i)}
BY IdFacts DEF TypeOK, RowOK, Claimed, AskedByPhase1, AskedByPhase2, Anchor

LEMMA ReachableInv == ASSUME NeverEmpty PROVE Spec => []IInv
<1>1. Init => IInv
  BY InitInv
<1>2. TypeOK /\ TypeOK' /\ IInv /\ [Next]_vars => IInv'
  BY StepInv
<1> QED
  BY <1>1, <1>2, TypeCorrect, PTL DEF Spec

\* No interleaving of runs, stops, failures, kills, deletions and rewinds
\* makes the exporter give up a wanted message it has not stored.
THEOREM NoMessageLost == ASSUME NeverEmpty PROVE Spec => []NothingLost
<1>1. TypeOK /\ IInv => NothingLost
  BY ClaimIs DEF IInv, CoveredStored, NothingLost
<1> QED
  BY <1>1, ReachableInv, TypeCorrect, PTL

-----------------------------------------------------------------------------
(* Progress is kept, and the archive's promise is implemented.             *)

LEMMA ClaimIsNext ==
  ASSUME TypeOK', RowOK'
  PROVE  Claimed' =
           {i \in Ids : last' > 0 /\ i <= last' /\ (full' \/ oldest' <= i)}
BY IdFacts DEF TypeOK, RowOK, Claimed, AskedByPhase1, AskedByPhase2, Anchor

LEMMA ClaimUnchanged ==
  ASSUME UNCHANGED <<last, oldest, full>> PROVE Claimed' = Claimed
BY DEF Claimed, AskedByPhase1, AskedByPhase2

\* The two commits of the pointers.
LEMMA CommitsClaimMore ==
  ASSUME TypeOK, TypeOK', IInv, IInv', MarkNewest \/ MarkPhaseTwo
  PROVE  Claimed \subseteq Claimed'
<1>1. /\ Claimed = {i \in Ids : last > 0 /\ i <= last /\ (full \/ oldest <= i)}
      /\ Claimed' =
           {i \in Ids : last' > 0 /\ i <= last' /\ (full' \/ oldest' <= i)}
  BY ClaimIs, ClaimIsNext DEF IInv
<1>2. last <= last' /\ (full => full')
  BY IdFacts DEF MarkNewest, MarkPhaseTwo, CommitPhaseProgress, MergeLast,
     MergeFull, Max2, TypeOK
<1>3. last > 0 => oldest' <= oldest
  BY IdFacts DEF MarkNewest, MarkPhaseTwo, CommitPhaseProgress, MergeOldest,
     Min2, TypeOK, IInv, RowOK
<1> QED
  BY <1>1, <1>2, <1>3, IdFacts DEF TypeOK

\* The steps that leave the row of the chat and the server alone.
Quiet ==
  \/ Run \/ FetchNewMessages \/ SkipNewMessages
  \/ FetchOldMessages \/ SkipOldMessages
  \/ \E m \in Ids : TakeMessage(m) \/ SkipMessage(m) \/ Break(m)
  \/ Exhaust
  \/ KeepPages \/ BeginRender \/ Unlink \/ UnlinkDone
  \/ (\E k \in Months : RenderMonth(k)) \/ RenderEnd
  \/ Signal \/ Kill
  \/ UNCHANGED vars

LEMMA QuietLeavesArchive ==
  ASSUME Quiet PROVE UNCHANGED <<server, db, last, oldest, full>>
BY DEF Quiet, Run, Start, FetchNewMessages, SkipNewMessages, FetchOldMessages,
   SkipOldMessages, BeginWalk, TakeMessage, SkipMessage, Break, Exhaust,
   LeaveLoop, KeepPages, BeginRender, Unlink, UnlinkDone, RenderMonth,
   RenderEnd, Signal, Kill, vars, env, durable

\* The steps that store messages and leave the row alone.
Storing == StoreBatch \/ StoreRest \/ ForceQuit \/ Fail

LEMMA StoringOnlyStores ==
  ASSUME TypeOK, Storing
  PROVE  /\ UNCHANGED <<server, last, oldest, full>>
         /\ \E new \in SUBSET Ids : db' = db \cup new
<1>1. UNCHANGED <<server, last, oldest, full>>
  BY DEF Storing, StoreBatch, StoreRest, ForceQuit, Fail, env, durable
<1>2. batch \in SUBSET Ids /\ {} \in SUBSET Ids
  BY DEF TypeOK
<1>3. CASE StoreBatch \/ StoreRest
  BY <1>1, <1>2, <1>3 DEF StoreBatch, StoreRest
<1>4. CASE ForceQuit
  BY <1>1, <1>2, <1>4 DEF ForceQuit
<1>5. CASE Fail
  <2>1. PICK part \in SUBSET (IF pc \in {"flush", "store"} THEN batch ELSE {}) :
          db' = db \cup part
    BY <1>5 DEF Fail
  <2>2. part \in SUBSET Ids
    BY <2>1, <1>2
  <2> QED BY <1>1, <2>1, <2>2
<1> QED BY <1>3, <1>4, <1>5 DEF Storing

\* Nothing but a rewind makes a later run ask again for what is done.
THEOREM ProgressIsKept == ASSUME NeverEmpty PROVE Spec => ProgressKept
<1>1. TypeOK /\ TypeOK' /\ IInv /\ IInv' /\ [Next]_vars
        => [Rewind \/ Claimed \subseteq Claimed']_vars
  <2> SUFFICES ASSUME TypeOK, TypeOK', IInv, IInv', [Next]_vars
               PROVE  Rewind \/ Claimed \subseteq Claimed'
    OBVIOUS
  <2>1. CASE Quiet
    BY <2>1, QuietLeavesArchive, ClaimUnchanged
  <2>2. CASE Storing
    BY <2>2, StoringOnlyStores, ClaimUnchanged
  <2>3. CASE MarkNewest \/ MarkPhaseTwo
    BY <2>3, CommitsClaimMore
  <2>4. CASE Post \/ \E m \in Ids : DeleteMessage(m)
    BY <2>4, ClaimUnchanged DEF Post, DeleteMessage, durable
  <2>5. CASE PurgeChat \/ \E d \in BOOLEAN : ResetProgress(d)
    BY <2>5 DEF PurgeChat, ResetProgress, Rewind
  <2> QED
    BY <2>1, <2>2, <2>3, <2>4, <2>5
       DEF Next, Step, Walk, Disturbance, Quiet, Storing
<1> QED
  BY <1>1, ReachableInv, TypeCorrect, PTL DEF Spec, ProgressKept

\* The pointers, the message table and the two phases implement the archive:
\* every step of the exporter is a step of Archive or leaves it alone.
THEOREM Refinement == ASSUME NeverEmpty PROVE Spec => ImplementsArchive
<1>1. Init => Archived!Init
  <2> SUFFICES ASSUME Init PROVE Archived!Init
    OBVIOUS
  <2>1. server \in SUBSET Ids
    BY IdFacts, ChatAssumption DEF Init
  <2>2. Claimed = {}
    BY DEF Init, Claimed, AskedByPhase1, AskedByPhase2, Anchor
  <2> QED
    BY <2>1, <2>2 DEF Init, Archived!Init
<1>2. TypeOK /\ TypeOK' /\ IInv /\ IInv' /\ [Next]_vars
        => [Archived!Next]_<<server, db, Claimed>>
  <2> SUFFICES ASSUME TypeOK, TypeOK', IInv, IInv', [Next]_vars
               PROVE  [Archived!Next]_<<server, db, Claimed>>
    OBVIOUS
  <2>1. CASE Quiet
    BY <2>1, QuietLeavesArchive, ClaimUnchanged
  <2>2. CASE Storing
    <3>1. PICK new \in SUBSET Ids : db' = db \cup new
      BY <2>2, StoringOnlyStores
    <3>2. Archived!Store(new)
      BY <2>2, <3>1, StoringOnlyStores, ClaimUnchanged DEF Archived!Store
    <3> QED BY <3>2 DEF Archived!Next
  <2>3. CASE MarkNewest \/ MarkPhaseTwo
    <3>1. UNCHANGED <<server, db>>
      BY <2>3 DEF MarkNewest, MarkPhaseTwo, env
    <3>2. Claimed' = Claimed \cup Claimed' /\ Claimed' \in SUBSET Ids
      BY <2>3, CommitsClaimMore DEF Claimed
    <3>3. server' \cap Wanted \cap Claimed' \subseteq db'
      BY ClaimIsNext DEF IInv, CoveredStored
    <3>4. Archived!Claim(Claimed')
      BY <3>1, <3>2, <3>3 DEF Archived!Claim, Archived!Promise
    <3> QED BY <3>2, <3>4 DEF Archived!Next
  <2>4. CASE Post
    <3>1. top + 1 \in Ids /\ UNCHANGED <<db, last, oldest, full>>
          /\ server' = server \cup {top + 1}
      BY <2>4, IdFacts DEF Post, TypeOK, durable
    <3>2. top + 1 \notin server \cup Claimed
      BY ClaimIs, IdFacts DEF IInv, RowOK, TypeOK
    <3>3. Archived!Post(top + 1)
      BY <3>1, <3>2, ClaimUnchanged DEF Archived!Post
    <3> QED BY <3>1, <3>3 DEF Archived!Next
  <2>5. ASSUME NEW m \in Ids, DeleteMessage(m)
        PROVE  Archived!Next
    <3>1. Archived!Delete(m)
      BY <2>5, ClaimUnchanged DEF DeleteMessage, Archived!Delete, durable
    <3> QED BY <3>1 DEF Archived!Next
  <2>6. CASE PurgeChat \/ \E d \in BOOLEAN : ResetProgress(d)
    <3>1. Claimed' = {} /\ UNCHANGED server
      BY <2>6 DEF PurgeChat, ResetProgress, Claimed, AskedByPhase1,
         AskedByPhase2, Anchor, env
    <3>2. db' = {} \/ db' = db
      BY <2>6 DEF PurgeChat, ResetProgress
    <3>3. db' \in SUBSET Ids /\ db' = db \cap db'
      BY <3>2 DEF TypeOK
    <3>4. Archived!Forget(db')
      BY <3>1, <3>3 DEF Archived!Forget
    <3> QED BY <3>3, <3>4 DEF Archived!Next
  <2> QED
    BY <2>1, <2>2, <2>3, <2>4, <2>5, <2>6
       DEF Next, Step, Walk, Disturbance, Quiet, Storing
<1> QED
  BY <1>1, <1>2, ReachableInv, TypeCorrect, PTL
     DEF Spec, ImplementsArchive, Archived!Spec, Archived!archiveVars

-----------------------------------------------------------------------------
(* The count.                                                              *)

Rendering == pc \in {"render", "unlink", "pages"}

\* A run that took no message has none to store, and the number it remembers
\* is still right; the commit that ends the walks writes the right one.
CountOK ==
  /\ pc = "idle" => ~wrote
  /\ ~wrote => batch = {} /\ pending = {}
  /\ pc # "idle" /\ ~wrote => stored0 = Cardinality(db)
  /\ Rendering /\ db # {} => count = Cardinality(db)

LEMMA StoredSome == ASSUME TypeOK, db # {} PROVE Cardinality(db) > 0
<1>1. IsFiniteSet(Ids) /\ db \in SUBSET Ids
  BY FS_Interval, BoundsAssumption DEF Ids, TypeOK
<1>2. IsFiniteSet(db)
  BY <1>1, FS_Subset
<1>3. Cardinality(db) \in Nat /\ Cardinality(db) # 0
  BY <1>2, FS_EmptySet, FS_CardinalityType
<1> QED BY <1>3

\* The steps within a run that neither walk nor commit.
Turning ==
  \/ FetchNewMessages \/ SkipNewMessages \/ FetchOldMessages
  \/ BeginRender \/ Unlink \/ UnlinkDone
  \/ (\E k \in Months : RenderMonth(k)) \/ Signal \/ UNCHANGED vars

Ending == KeepPages \/ RenderEnd \/ ForceQuit \/ Fail \/ Kill

LEMMA CountStep == ASSUME TypeOK, CountOK, [Next]_vars PROVE CountOK'
<1>1. CASE Run
  BY <1>1 DEF Run, Start, CountOK, Rendering, walk
<1>2. CASE Turning
  <2>1. UNCHANGED <<db, count, wrote, stored0>>
    BY <1>2 DEF Turning, FetchNewMessages, SkipNewMessages, FetchOldMessages,
       BeginWalk, BeginRender, Unlink, UnlinkDone, RenderMonth, Signal, vars,
       durable, process, snapshot
  <2>2. /\ pc' = "idle" <=> pc = "idle"
        /\ Rendering' => Rendering
        /\ (batch' = {} \/ batch' = batch) /\ (pending' = {} \/ pending' = pending)
    BY <1>2 DEF Turning, FetchNewMessages, SkipNewMessages, FetchOldMessages,
       BeginWalk, BeginRender, Unlink, UnlinkDone, RenderMonth, Signal, vars,
       durable, process, snapshot, walk, Rendering
  <2> QED BY <2>1, <2>2 DEF CountOK
<1>3. CASE \E m \in Ids : TakeMessage(m)
  <2>1. wrote' /\ pc' \in {"walk", "flush"}
    BY <1>3 DEF TakeMessage
  <2> QED BY <2>1 DEF CountOK, Rendering
<1>4. CASE Exhaust \/ \E m \in Ids : SkipMessage(m) \/ Break(m)
  <2>1. /\ UNCHANGED <<db, wrote, stored0>> /\ pc # "idle" /\ pc' \in {"walk", "store"}
        /\ batch' \subseteq batch \cup pending /\ (pending' = {} \/ pending' = pending)
    BY <1>4 DEF Exhaust, SkipMessage, Break, LeaveLoop, snapshot
  <2> QED BY <2>1 DEF CountOK, Rendering
<1>5. CASE StoreBatch \/ StoreRest
  <2>1. /\ UNCHANGED <<wrote, stored0, pending>> /\ pc # "idle" /\ pc' \in {"walk", "mark"}
        /\ db' = db \cup batch /\ batch' = {}
    BY <1>5 DEF StoreBatch, StoreRest, snapshot
  <2>2. ~wrote => db' = db
    BY <2>1 DEF CountOK
  <2> QED BY <2>1, <2>2 DEF CountOK, Rendering
<1>6. CASE MarkNewest
  BY <1>6 DEF MarkNewest, CountOK, Rendering, snapshot, walk
<1>7. CASE MarkPhaseTwo \/ SkipOldMessages
  <2>1. /\ UNCHANGED <<db, wrote, stored0, batch, pending>> /\ pc # "idle" /\ pc' = "render"
        /\ count' = MessageCount \/ (count' = IF MessageCount > 0 THEN MessageCount ELSE count)
    BY <1>7 DEF MarkPhaseTwo, SkipOldMessages, CommitPhaseProgress, snapshot,
       walk
  <2>2. MessageCount = Cardinality(db)
    BY <2>1 DEF CountOK, MessageCount
  <2> QED BY <2>1, <2>2, StoredSome DEF CountOK
<1>8. CASE Ending
  BY <1>8 DEF Ending, KeepPages, RenderEnd, Finish, ForceQuit, Fail, Kill,
     EndRun, CountOK, Rendering
<1>9. CASE PurgeChat \/ \E d \in BOOLEAN : ResetProgress(d)
  <2>1. UNCHANGED <<pc, wrote, batch, pending>> /\ pc = "idle"
    BY <1>9 DEF PurgeChat, ResetProgress, walk
  <2> QED BY <2>1 DEF CountOK, Rendering
<1>10. CASE Post \/ \E m \in Ids : DeleteMessage(m)
  <2>1. UNCHANGED <<db, count, pc, wrote, stored0, batch, pending>>
    BY <1>10 DEF Post, DeleteMessage, durable, process, snapshot, walk
  <2> QED BY <2>1 DEF CountOK, Rendering
<1> QED
  BY <1>1, <1>2, <1>3, <1>4, <1>5, <1>6, <1>7, <1>8, <1>9, <1>10 DEF Next,
     Step, Walk, Disturbance, Turning, Ending

LEMMA CountCorrect == Spec => []CountOK
<1>1. Init => CountOK
  BY DEF Init, CountOK, Rendering
<1> QED BY <1>1, CountStep, TypeCorrect, PTL DEF Spec

\* Only the last step of a rendering ends a run as one nobody interrupted.
LEMMA CleanEndings ==
  ASSUME [Next]_vars, CleanExit PROVE ~shutdown /\ (KeepPages \/ RenderEnd)
<1>1. ~(ForceQuit \/ Fail \/ Kill)
  BY DEF ForceQuit, Fail, Kill, EndRun, CleanExit
<1>2. CASE Ending
  <2>1. Finish
    BY <1>1, <1>2 DEF Ending, KeepPages, RenderEnd
  <2> QED BY <1>1, <1>2, <2>1 DEF Ending, Finish, EndRun, CleanExit
<1>3. CASE ~Ending
  <2>1. pc' # "idle" \/ pc = "idle"
    BY <1>3 DEF Next, Ending, Step, Walk, Disturbance, Post, Run, Start,
       FetchNewMessages, SkipNewMessages, FetchOldMessages, SkipOldMessages,
       BeginWalk, TakeMessage, SkipMessage, Break, Exhaust, LeaveLoop,
       StoreBatch, StoreRest, MarkNewest, MarkPhaseTwo, BeginRender, Unlink,
       UnlinkDone, RenderMonth, DeleteMessage, ResetProgress, PurgeChat,
       Signal, vars, process
  <2> QED BY <2>1 DEF CleanExit
<1> QED BY <1>2, <1>3

\* A run that ends by itself leaves in export_state the number of messages in
\* the database, whatever the runs before it stored and died over.
THEOREM CountIsHonest == Spec => CountHonest
<1>1. ASSUME TypeOK, CountOK, [Next]_vars, CleanExit, db # {}
      PROVE  count' = Cardinality(db)
  BY <1>1, CleanEndings DEF KeepPages, RenderEnd, CountOK, Rendering, durable
<1> QED BY <1>1, CountCorrect, TypeCorrect, PTL DEF Spec, CountHonest

-----------------------------------------------------------------------------
(* The pages.                                                              *)

\* Nothing tears a run away before its pages are written.  A stop on request
\* is not a tear.
NoAbort == Faults \cap {"force", "fail", "kill"} = {}

\* messages.html is on disk only when the pages show the whole database,
\* unless this run has taken messages since.
PagesOK ==
  /\ redirect /\ ~wrote => db \subseteq pages
  /\ pc = "unlink" => wrote \/ ~redirect
  /\ pc = "pages" => ~redirect

LEMMA AllMonthsShown == ASSUME TypeOK, MonthsToRender = {} PROVE db \subseteq pages
<1> SUFFICES ASSUME NEW i \in db PROVE i \in pages
  OBVIOUS
<1>1. i \in Ids
  BY DEF TypeOK
<1> DEFINE k == (i - 1) \div PageSize
<1>2. k \in Months /\ i \in MonthIds(k)
  BY <1>1 DEF Months, MonthIds
<1> HIDE DEF k
<1>3. db \cap MonthIds(k) \subseteq pages
  BY <1>2 DEF MonthsToRender
<1> QED BY <1>2, <1>3

LEMMA PagesStep ==
  ASSUME NoAbort, TypeOK, CountOK, PagesOK, [Next]_vars PROVE PagesOK'
<1>1. CASE Run
  BY <1>1 DEF Run, Start, CountOK, PagesOK, disk
<1>2. CASE FetchNewMessages \/ SkipNewMessages \/ FetchOldMessages \/ SkipOldMessages
           \/ MarkNewest \/ MarkPhaseTwo \/ Exhaust
           \/ \E m \in Ids : SkipMessage(m) \/ Break(m)
  <2>1. UNCHANGED <<db, disk, wrote>>
    BY <1>2 DEF FetchNewMessages, SkipNewMessages, FetchOldMessages,
       SkipOldMessages, MarkNewest, MarkPhaseTwo, Exhaust, SkipMessage, Break,
       BeginWalk, LeaveLoop
  <2>2. pc' \notin {"unlink", "pages"}
    BY <1>2 DEF FetchNewMessages, SkipNewMessages, FetchOldMessages,
       SkipOldMessages, MarkNewest, MarkPhaseTwo, Exhaust, SkipMessage, Break,
       BeginWalk, LeaveLoop
  <2> QED BY <2>1, <2>2 DEF PagesOK, disk
<1>3. CASE \E m \in Ids : TakeMessage(m)
  <2>1. wrote' /\ pc' \in {"walk", "flush"}
    BY <1>3 DEF TakeMessage
  <2> QED BY <2>1 DEF PagesOK
<1>4. CASE StoreBatch \/ StoreRest
  <2>1. /\ UNCHANGED <<wrote, disk>> /\ pc' \notin {"unlink", "pages"}
        /\ ~wrote => db' = db
    BY <1>4 DEF StoreBatch, StoreRest, CountOK
  <2> QED BY <2>1 DEF PagesOK, disk
<1>5. CASE BeginRender
  BY <1>5 DEF BeginRender, PagesAreCurrent, PagesOK, disk
<1>6. CASE Unlink \/ UnlinkDone
  BY <1>6 DEF Unlink, UnlinkDone, PagesOK, process, disk
<1>7. CASE \E k \in Months : RenderMonth(k)
  BY <1>7 DEF RenderMonth, PagesOK, process
<1>8. CASE KeepPages
  BY <1>8 DEF KeepPages, PagesAreCurrent, Finish, EndRun, PagesOK, disk
<1>9. CASE RenderEnd
  BY <1>9, AllMonthsShown DEF RenderEnd, Finish, EndRun, PagesOK
<1>10. CASE Post \/ Signal \/ UNCHANGED vars \/ \E m \in Ids : DeleteMessage(m)
  BY <1>10 DEF Post, Signal, DeleteMessage, vars, process, disk, PagesOK
<1>11. CASE PurgeChat \/ \E d \in BOOLEAN : ResetProgress(d)
  BY <1>11 DEF PurgeChat, ResetProgress, PagesOK, disk
<1>12. ~(ForceQuit \/ Fail \/ Kill)
  BY DEF NoAbort, ForceQuit, Fail, Kill, Disturb
<1> QED
  BY <1>1, <1>2, <1>3, <1>4, <1>5, <1>6, <1>7, <1>8, <1>9,
     <1>10, <1>11, <1>12 DEF Next, Step, Walk, Disturbance

\* As long as no run is torn away, every run that ends by itself leaves pages
\* that show the whole database and messages.html to reach them, also the run
\* that decides from messages.html alone that there is nothing to render.
THEOREM PagesAreShown == ASSUME NoAbort PROVE Spec => PagesShowDatabase
<1>1. Init => PagesOK
  BY DEF Init, PagesOK
<1>2. Spec => []PagesOK
  BY <1>1, PagesStep, CountCorrect, TypeCorrect, PTL DEF Spec
<1>3. ASSUME TypeOK, PagesOK, [Next]_vars, CleanExit, db # {}
      PROVE  db \subseteq pages' /\ redirect'
  <2>1. ~shutdown /\ (KeepPages \/ RenderEnd)
    BY <1>3, CleanEndings
  <2> QED
    BY <1>3, <2>1, AllMonthsShown DEF KeepPages, RenderEnd, PagesAreCurrent,
       PagesOK, disk
<1> QED BY <1>2, <1>3, TypeCorrect, PTL DEF Spec, PagesShowDatabase

-----------------------------------------------------------------------------
(* A clean run is complete.                                                *)

\* What a run owes.
Due == {i \in server \cap Wanted : i <= goal /\ i <= dateTo}

\* Where the iterator of the phase began.
WalkTop == IF phase = 1 THEN dateTo + 1 ELSE PhaseTwoStart

\* A run nobody stopped has in hand what it has walked over, has stored after
\* phase 1 what is newer than the pointer, and after phase 2 everything.
RunOK ==
  /\ pc # "idle" => goal <= top
  /\ (pc = "gate" \/ InPhaseTwo) /\ ~shutdown =>
       \A i \in Due : last0 > 0 /\ last0 < i => i \in db
  /\ Walking /\ ~shutdown =>
       \A i \in server \cap Wanted :
         floor < i /\ i <= goal /\ i < WalkTop
           /\ (i >= cursor \/ pc \in {"store", "mark"}) => i \in Handled
  /\ Rendering /\ ~shutdown => Due \subseteq db

LEMMA RunStep ==
  ASSUME TypeOK, TypeOK', IInv, RunOK, [Next]_vars PROVE RunOK'
<1> USE IdFacts
<1>1. CASE Post
  BY <1>1 DEF Post, RunOK, Due, WalkTop, PhaseTwoStart, Walking, InPhaseTwo,
     Handled, Rendering, TypeOK, IInv, RowOK, durable, disk, process, snapshot,
     walk
<1>2. CASE Run
  BY <1>2 DEF Run, Start, RunOK, Walking, InPhaseTwo, Rendering, TypeOK, env
<1>3. CASE FetchNewMessages
  BY <1>3 DEF FetchNewMessages, BeginWalk, RunOK, Walking, InPhaseTwo, WalkTop,
     Rendering, TypeOK, env, snapshot
<1>4. CASE SkipNewMessages
  BY <1>4 DEF SkipNewMessages, RunOK, Walking, InPhaseTwo, Rendering, TypeOK,
     env, snapshot
<1>5. CASE FetchOldMessages
  BY <1>5 DEF FetchOldMessages, BeginWalk, RunOK, Due, Walking, InPhaseTwo,
     WalkTop, PhaseTwoStart, Rendering, TypeOK, env, snapshot
<1>6. CASE SkipOldMessages
  <2>1. UNCHANGED <<env, db, shutdown, snapshot>> /\ pc = "gate" /\ pc' = "render"
        /\ (full0 \/ shutdown)
    BY <1>6 DEF SkipOldMessages
  <2>2. ASSUME NEW i \in Due, ~shutdown PROVE i \in db
    BY <2>1, <2>2 DEF IInv, SnapshotOK, RowOK, CoveredStored, RunOK, Due,
       TypeOK
  <2> QED BY <2>1, <2>2 DEF RunOK, Due, Walking, InPhaseTwo, Rendering, env,
     snapshot
<1>7. ASSUME NEW m \in Ids, TakeMessage(m) PROVE RunOK'
  BY <1>7 DEF TakeMessage, Yields, Between, Note, HandedOver, RunOK, Due,
     Walking, InPhaseTwo, WalkTop, PhaseTwoStart, Handled, Rendering, TypeOK,
     env, snapshot
<1>8. ASSUME NEW m \in Ids, SkipMessage(m) PROVE RunOK'
  BY <1>8 DEF SkipMessage, Wanted, Yields, Between, Note, RunOK, Due, Walking,
     InPhaseTwo, WalkTop, PhaseTwoStart, Handled, Rendering, TypeOK, env,
     snapshot
<1>9. ASSUME NEW m \in Ids, Break(m) PROVE RunOK'
  BY <1>9 DEF Break, LeaveLoop, Wanted, Yields, Between, IInv, SnapshotOK,
     RunOK, Due, Walking, InPhaseTwo, WalkTop, PhaseTwoStart, Handled,
     Rendering, TypeOK, env, snapshot
<1>10. CASE Exhaust
  BY <1>10 DEF Exhaust, LeaveLoop, Between, RunOK, Due, Walking, InPhaseTwo,
     WalkTop, PhaseTwoStart, Handled, Rendering, TypeOK, env, snapshot
<1>11. CASE StoreBatch \/ StoreRest
  BY <1>11 DEF StoreBatch, StoreRest, RunOK, Due, Walking, InPhaseTwo, WalkTop,
     PhaseTwoStart, Handled, Rendering, TypeOK, env, snapshot
<1>12. CASE MarkNewest
  BY <1>12 DEF MarkNewest, IInv, PhaseOneOK, InHandOK, RunOK, Due, Walking,
     InPhaseTwo, WalkTop, Handled, Rendering, TypeOK, env, snapshot, walk
<1>13. CASE MarkPhaseTwo
  <2>1. /\ UNCHANGED <<env, db, shutdown, snapshot>> /\ pc = "mark" /\ phase = 2 /\ pc' = "render"
    BY <1>13 DEF MarkPhaseTwo
  <2>2. ASSUME NEW i \in Due, ~shutdown PROVE i \in db
    <3>1. batch = {} /\ pending = {} /\ floor = 0 /\ i > 0
      BY <2>1 DEF IInv, InHandOK, PhaseTwoOK, InPhaseTwo, Walking, Due, Wanted,
         TypeOK
    <3>2. i < PhaseTwoStart => i \in db
      BY <2>1, <2>2, <3>1 DEF RunOK, Due, Walking, WalkTop, Handled
    <3>3. oldest0 = 0 => PhaseTwoStart = dateTo + 1
      BY <2>1 DEF IInv, SnapshotOK, InPhaseTwo, Walking, PhaseTwoStart, Anchor,
         TypeOK
    <3>4. oldest0 > 0 => PhaseTwoStart = oldest0
      BY DEF PhaseTwoStart, Anchor, TypeOK
    <3>5. oldest0 > 0 /\ oldest0 <= i /\ i <= last0 => i \in db
      BY <2>1 DEF IInv, SnapshotOK, CoveredStored, InPhaseTwo, Walking, Due,
         TypeOK
    <3>6. oldest0 > 0 /\ last0 < i => i \in db
      BY <2>1, <2>2 DEF IInv, SnapshotOK, RunOK, InPhaseTwo, Walking, TypeOK
    <3> QED BY <3>2, <3>3, <3>4, <3>5, <3>6 DEF Due, Wanted, TypeOK
  <2> QED
    BY <2>1, <2>2 DEF RunOK, Due, Walking, InPhaseTwo, Rendering, env, snapshot
<1>14. CASE Ending
  BY <1>14 DEF Ending, KeepPages, RenderEnd, Finish, ForceQuit, Fail, Kill,
     EndRun, RunOK, Walking, InPhaseTwo, Rendering
<1>15. CASE BeginRender \/ Unlink \/ UnlinkDone \/ \E k \in Months : RenderMonth(k)
  <2>1. /\ UNCHANGED <<env, db, shutdown, snapshot>>
        /\ Rendering /\ pc # "idle" /\ pc' \in {"unlink", "pages"}
    BY <1>15 DEF BeginRender, Unlink, UnlinkDone, RenderMonth, process,
       Rendering
  <2> QED BY <2>1 DEF RunOK, Due, Walking, InPhaseTwo, Rendering, env, snapshot
<1>16. CASE Signal
  BY <1>16 DEF Signal, RunOK, env, snapshot
<1>17. ASSUME NEW m \in Ids, DeleteMessage(m) PROVE RunOK'
  BY <1>17 DEF DeleteMessage, RunOK, Due, Walking, InPhaseTwo, WalkTop,
     PhaseTwoStart, Handled, Rendering, process, snapshot, walk
<1>18. CASE PurgeChat \/ \E d \in BOOLEAN : ResetProgress(d)
  BY <1>18 DEF PurgeChat, ResetProgress, RunOK, Walking, InPhaseTwo, Rendering
<1>19. CASE UNCHANGED vars
  BY <1>19 DEF vars, RunOK, Due, Walking, InPhaseTwo, WalkTop, PhaseTwoStart,
     Handled, Rendering, env, process, snapshot, walk
<1> QED
  BY <1>1, <1>2, <1>3, <1>4, <1>5, <1>6, <1>7, <1>8, <1>9, <1>10, <1>11, <1>12,
     <1>13, <1>14, <1>15, <1>16, <1>17, <1>18, <1>19 DEF Next, Step, Walk,
     Disturbance, Ending

\* A run that ends by itself has stored every wanted message that was on the
\* server when it began, up to its date_to and if it is still there: phase 1
\* and phase 2 leave no gap between them, whatever the earlier runs left.
THEOREM CleanRunIsComplete == ASSUME NeverEmpty PROVE Spec => CleanRunComplete
<1>1. Init => RunOK
  BY DEF Init, RunOK, Walking, InPhaseTwo, Rendering
<1>2. Spec => []RunOK
  BY <1>1, RunStep, ReachableInv, TypeCorrect, PTL DEF Spec
<1>3. ASSUME TypeOK, RunOK, [Next]_vars, CleanExit
      PROVE  \A i \in server \cap Wanted : i <= goal /\ i <= dateTo => i \in db
  BY <1>3, CleanEndings DEF KeepPages, RenderEnd, RunOK, Rendering, Due
<1> QED BY <1>2, <1>3, TypeCorrect, PTL DEF Spec, CleanRunComplete

=============================================================================
