--------------------------- MODULE ExportRunProofs ---------------------------
(***************************************************************************)
(* Proofs about ExportRun, for any number of chats, messages, broken files,*)
(* signals and faults and any set of sections: the types and the window of *)
(* the pipeline, what exit code 0 promises, that no download outlives its  *)
(* walk, and that a stop stops.                                            *)
(***************************************************************************)
EXTENDS ExportRun, TLAPS, FiniteSetTheorems

Before == Opening \cup {"prepare", "loop", "entry", "leave"} \cup Walking
Reported == {"report", "index", "summary", "close", "exit"}
After == {"section", "request", "gather", "settle"} \cup Reported

Interrupted == sig # 0 \/ runner > 0

\* Every flag of a stop goes back to a signal, and the exporter handles the
\* signals from the start of its run on.
Flags ==
  /\ shutdown => sig # 0
  /\ cancel \/ force \/ raised = "cancel" \/ cause = "cancel" => Interrupted
  /\ force => handlers
  /\ pc \notin Opening \cup {"prepare", "close"} \cup Ended => handlers

\* What is held, at every point of the run.
HeldShape ==
  /\ pc = "open" => held = {}
  /\ pc = "connect" => held = {"state"}
  /\ pc = "takeout" => held = {"state", "api"}
  /\ pc \notin {"open", "connect", "takeout", "close"} \cup Ended =>
       held = {"state", "api", "downloader"}

OnlyInWalk == Running # {} => pc \in Walking \cup {"leave"}

\* The messages taken are the first ones; the window has room where the next
\* one is asked for; a full disk is not forgotten before it is looked at.
Pipeline ==
  /\ Taken \in 0..Messages /\ Len(queue) <= Taken
  /\ \A n \in Msgs : task[n] # "none" <=> n <= Taken
  /\ pc = "walk" => Cardinality(Running) < Limit
  /\ pc \in Walking => \A n \in Msgs : task[n] = "disk" => \E i \in 1..Len(queue) : queue[i] = n
  /\ pc = "leave" => cause # "none"
  /\ pc = "leave" /\ cause = "ok" => \A n \in Msgs : task[n] # "disk"

\* A section that has begun is the next one in the order.
Midway == step # "fetch" => \E i \in DOMAIN Table : Due(i)

\* Whatever went wrong by itself, and is not only logged, is known where the run
\* stands.
Accounted ==
  faults > logged =>
    \/ errors # {} \/ raised = "error" \/ Interrupted
    \/ pc = "section" /\ step = "last page"
    \/ pc = "leave" /\ cause \in {"failed", "unauthorized", "disk"}
    \/ pc \in Walking /\ \E n \in Msgs : task[n] = "disk"
    \/ pc \in {"request", "gather"} /\ \E f \in Files : file[f] = "failed"
    \/ pc = "settle" /\ cause = "failed"

\* Where the statistics and what was raised stand.
Outcome ==
  /\ pc \in {"report", "index", "summary"} => stats
  /\ pc \in {"close", "exit"} /\ raised = "none" => stats
  /\ pc \notin {"close"} \cup Ended => raised = "none"
  /\ pc = "exit" => code = ExitCode

\* A run that nothing disturbed so far.
Clean == ~Interrupted /\ errors = {} /\ raised = "none"

\* What such a run has done by the time it has come to a point.
Complete ==
  /\ pc \in Before => section = 0
  /\ pc \in Before \cup {"section", "request", "gather"} => \A f \in Files : file[f] # "cancelled"
  /\ \A f \in Files : file[f] = "net" => pc \in {"request", "gather", "settle"}
  /\ Clean =>
       /\ pc \in After => chat = Chats
       /\ pc = "section" => \A i \in 1..6 : i <= section /\ Table[i] \in Sections => Table[i] \in pages
       /\ pc \in After \ {"section"} => options.dryRun \/ pages = Sections
       /\ pc = "gather" => \A f \in Files : file[f] # "broken"
       /\ pc \in Reported /\ options.verify => \A f \in Files : file[f] = "fixed"

\* After a forced stop a cancellation is on its way, or was taken.
ForceLeads ==
  force => \/ cancel /\ pc \in Awaits
           \/ pc \in {"leave", "settle"} /\ cause = "cancel"
           \/ pc \in {"report", "close", "exit"}

IInv ==
  /\ MainTypes /\ WalkTypes /\ SectionTypes /\ FileTypes /\ FlagTypes /\ FaultTypes /\ ResultTypes
  /\ Deque /\ Flags /\ HeldShape /\ OnlyInWalk /\ Pipeline
  /\ Midway /\ Accounted /\ Outcome /\ Complete /\ ForceLeads

-----------------------------------------------------------------------------
(* The downloads of a walk, and the table of the sections.                 *)

\* What a step leaves alone keeps what is said of it.
LEMMA Kept ==
  /\ UNCHANGED <<options, pc, held, chat>> => MainTypes' = MainTypes
  /\ UNCHANGED <<queue, task, cause>> => WalkTypes' = WalkTypes
  /\ UNCHANGED <<section, step, pages>> => SectionTypes' = SectionTypes
  /\ UNCHANGED <<file>> => FileTypes' = FileTypes
  /\ UNCHANGED <<handlers, shutdown, force, sig, runner, cancel, signals>> => FlagTypes' = FlagTypes
  /\ UNCHANGED <<faults, logged>> => FaultTypes' = FaultTypes
  /\ UNCHANGED <<stats, errors, raised, code>> => ResultTypes' = ResultTypes
  /\ UNCHANGED <<queue, task>> => Deque' = Deque
  /\ UNCHANGED <<pc, cause, handlers, shutdown, force, sig, runner, cancel, raised>> => Flags' = Flags
  /\ UNCHANGED <<pc, held>> => HeldShape' = HeldShape
  /\ UNCHANGED <<pc, task>> => OnlyInWalk' = OnlyInWalk
  /\ UNCHANGED <<pc, queue, task, cause>> => Pipeline' = Pipeline
  /\ UNCHANGED <<section, step>> => Midway' = Midway
  /\ UNCHANGED <<pc, task, cause, step, file, sig, runner, errors, raised, faults, logged>> => Accounted' = Accounted
  /\ UNCHANGED <<pc, sig, runner, stats, errors, raised, code>> => Outcome' = Outcome
  /\ UNCHANGED <<options, pc, chat, section, pages, file, sig, runner, errors, raised>> => Complete' = Complete
  /\ UNCHANGED <<pc, cause, force, cancel>> => ForceLeads' = ForceLeads
<1>1. UNCHANGED <<options, pc, held, chat>> => MainTypes' = MainTypes
  BY DEF MainTypes, Awaits, Ended, Opening, Walking
<1>2. UNCHANGED <<queue, task, cause>> => WalkTypes' = WalkTypes
  BY DEF WalkTypes
<1>3. UNCHANGED <<section, step, pages>> => SectionTypes' = SectionTypes
  BY DEF SectionTypes
<1>4. UNCHANGED <<file>> => FileTypes' = FileTypes
  BY DEF FileTypes
<1>5. UNCHANGED <<handlers, shutdown, force, sig, runner, cancel, signals>> => FlagTypes' = FlagTypes
  BY DEF FlagTypes
<1>6. UNCHANGED <<faults, logged>> => FaultTypes' = FaultTypes
  BY DEF FaultTypes
<1>7. UNCHANGED <<stats, errors, raised, code>> => ResultTypes' = ResultTypes
  BY DEF ResultTypes
<1>8. UNCHANGED <<queue, task>> => Deque' = Deque
  BY DEF Deque, Taken, Running, Alive
<1>9. UNCHANGED <<pc, cause, handlers, shutdown, force, sig, runner, cancel, raised>> => Flags' = Flags
  BY DEF Flags, Interrupted, Opening, Ended
<1>10. UNCHANGED <<pc, held>> => HeldShape' = HeldShape
  BY DEF HeldShape, Ended
<1>11. UNCHANGED <<pc, task>> => OnlyInWalk' = OnlyInWalk
  BY DEF OnlyInWalk, Running, Walking, Alive
<1>12. UNCHANGED <<pc, queue, task, cause>> => Pipeline' = Pipeline
  BY DEF Pipeline, Taken, Running, Walking, Alive
<1>13. UNCHANGED <<section, step>> => Midway' = Midway
  BY DEF Midway, Due
<1>14. UNCHANGED <<pc, task, cause, step, file, sig, runner, errors, raised, faults, logged>> => Accounted' = Accounted
  BY DEF Accounted, Interrupted, Walking
<1>15. UNCHANGED <<pc, sig, runner, stats, errors, raised, code>> => Outcome' = Outcome
  BY DEF Outcome, Ended, ExitCode
<1>16. UNCHANGED <<options, pc, chat, section, pages, file, sig, runner, errors, raised>> => Complete' = Complete
  BY DEF Complete, Before, Clean, After, Reported, Opening, Walking,
     Interrupted
<1>17. UNCHANGED <<pc, cause, force, cancel>> => ForceLeads' = ForceLeads
  BY DEF ForceLeads, Awaits, Opening, Walking
<1> QED BY <1>1, <1>2, <1>3, <1>4, <1>5, <1>6, <1>7, <1>8, <1>9, <1>10, <1>11,
       <1>12, <1>13, <1>14, <1>15, <1>16, <1>17, Zenon

LEMMA FaultsCounted == ASSUME FaultTypes, Fine \/ Fault \/ Logged PROVE FaultTypes'
BY BoundsAreNaturals DEF FaultTypes, Fine, Fault, Logged

\* A failure that is logged leaves the others as many as they were.
LEMMA OthersCounted ==
  ASSUME FaultTypes, Fine \/ Logged
  PROVE  (faults' > logged') <=> (faults > logged)
BY BoundsAreNaturals DEF FaultTypes, Fine, Logged

LEMMA FirstNumbers ==
  ASSUME NEW k \in Nat
  PROVE  IsFiniteSet(1..k) /\ Cardinality(1..k) = k
<1>1. \A a, b \in Int :
        IsFiniteSet(a..b) /\ Cardinality(a..b) = IF a > b THEN 0 ELSE b - a + 1
  BY FS_Interval
<1>2. 1 \in Int /\ k \in Int /\ (IF 1 > k THEN 0 ELSE k - 1 + 1) = k
  OBVIOUS
<1> QED BY <1>1, <1>2

LEMMA QuietTasks == ASSUME UNCHANGED task PROVE Taken' = Taken /\ Running' = Running
BY DEF Taken, Running

LEMMA TheTable ==
  /\ DOMAIN Table = 1..6 /\ Len(Table) = 6
  /\ Table[1] = "personal info" /\ Table[2] = "contacts" /\ Table[3] = "sessions"
  /\ Table[4] = "userpics" /\ Table[5] = "stories" /\ Table[6] = "other data"
BY DEF Table

\* No section is left out once none is due.
LEMMA AllPassed ==
  ASSUME SectionTypes, \A i \in DOMAIN Table : ~Due(i)
  PROVE  \A i \in 1..6 : Table[i] \in Sections => i <= section
<1>1. section \in 0..6 /\ DOMAIN Table = 1..6
  BY TheTable DEF SectionTypes
<1>2. \A i \in 1..6 : i > section /\ Table[i] \in Sections =>
         \E j \in 1..6 : section < j /\ j < i /\ Table[j] \in Sections
  BY <1>1 DEF Due
<1>3. Table[1] \in Sections => 1 <= section
  BY <1>1, <1>2
<1>4. Table[2] \in Sections => 2 <= section
  BY <1>1, <1>2, <1>3
<1>5. Table[3] \in Sections => 3 <= section
  BY <1>1, <1>2, <1>3, <1>4
<1>6. Table[4] \in Sections => 4 <= section
  BY <1>1, <1>2, <1>3, <1>4, <1>5
<1>7. Table[5] \in Sections => 5 <= section
  BY <1>1, <1>2, <1>3, <1>4, <1>5, <1>6
<1>8. Table[6] \in Sections => 6 <= section
  BY <1>1, <1>2, <1>3, <1>4, <1>5, <1>6, <1>7
<1> QED BY <1>3, <1>4, <1>5, <1>6, <1>7, <1>8

\* There are finitely many messages and as many downloads at most.
LEMMA RunningIsFinite ==
  /\ IsFiniteSet(Msgs) /\ IsFiniteSet(Running) /\ Running \subseteq Msgs
  /\ Cardinality(Running) \in Nat
<1>1. Messages \in Nat
  BY BoundsAreNaturals
<1>2. IsFiniteSet(Msgs)
  BY <1>1, FirstNumbers DEF Msgs
<1>3. Running \subseteq Msgs
  BY DEF Running
<1> QED BY <1>2, <1>3, FS_Subset, FS_CardinalityType

\* What runs can only become less while no message is taken.
LEMMA RunningLess ==
  ASSUME Running' \subseteq Running
  PROVE  Cardinality(Running') \in Nat /\ Cardinality(Running') <= Cardinality(Running)
BY RunningIsFinite, FS_Subset, FS_CardinalityType

\* A download that changes its state is still a message taken.
LEMMA SameTaken ==
  ASSUME \A n \in Msgs : task'[n] # "none" <=> task[n] # "none"
  PROVE  Taken' = Taken
<1>1. {n \in Msgs : task'[n] # "none"} = {n \in Msgs : task[n] # "none"}
  OBVIOUS
<1> QED BY <1>1 DEF Taken

LEMMA FirstMessages ==
  ASSUME NEW k \in 0..Messages
  PROVE  k \in Nat /\ \A n : n \in 1..k <=> n \in Msgs /\ n <= k
<1>1. k \in Nat /\ k <= Messages /\ Messages \in Nat
  BY BoundsAreNaturals
<1>2. ASSUME NEW n PROVE n \in 1..k <=> n \in 1..Messages /\ n <= k
  BY <1>1
<1> QED BY <1>1, <1>2 DEF Msgs

\* Taking the first k messages makes k messages taken.
LEMMA FirstTaken ==
  ASSUME NEW k \in 0..Messages, NEW t, \A n \in Msgs : t[n] # "none" <=> n <= k
  PROVE  Cardinality({n \in Msgs : t[n] # "none"}) = k
<1>1. {n \in Msgs : t[n] # "none"} = {n \in Msgs : n <= k}
  OBVIOUS
<1>2. {n \in Msgs : n <= k} = 1..k
  BY FirstMessages, Zenon
<1>3. Cardinality(1..k) = k
  BY FirstMessages, FirstNumbers
<1> QED BY <1>1, <1>2, <1>3, Zenon

LEMMA NoneTaken ==
  ASSUME task' = [n \in Msgs |-> "none"]
  PROVE  Taken' = 0 /\ Running' = {} /\ Cardinality(Running') = 0
<1>1. 0 \in 0..Messages /\ \A n \in Msgs : task'[n] # "none" <=> n <= 0
  BY BoundsAreNaturals DEF Msgs
<1>2. Taken' = 0
  BY <1>1, FirstTaken DEF Taken
<1>3. Running' = {}
  BY DEF Running, Alive
<1> QED BY <1>2, <1>3, FS_EmptySet

\* The next message taken.
LEMMA TakeNext ==
  ASSUME WalkTypes, Pipeline, Taken < Messages, NEW s \in {"net", "plain"},
         task' = [task EXCEPT ![Taken + 1] = s]
  PROVE  /\ Taken + 1 \in Msgs /\ Taken' = Taken + 1
         /\ \A n \in Msgs : task'[n] # "none" <=> n <= Taken + 1
         /\ Running' \subseteq Running \cup {Taken + 1}
         /\ Cardinality(Running') \in Nat /\ Cardinality(Running') <= Cardinality(Running) + 1
<1>1. Taken + 1 \in 0..Messages /\ Taken + 1 \in Msgs /\ Taken \in Nat
  BY BoundsAreNaturals DEF Pipeline, Msgs
<1>2. \A n \in Msgs : n # Taken + 1 => task'[n] = task[n]
  BY DEF WalkTypes
<1>3. task'[Taken + 1] = s
  BY <1>1 DEF WalkTypes
<1>4. \A n \in Msgs : task'[n] # "none" <=> n <= Taken + 1
  <2>1. \A n \in Msgs : task[n] # "none" <=> n <= Taken
    BY DEF Pipeline
  <2>2. \A n \in Msgs : n \in Nat
    BY BoundsAreNaturals DEF Msgs
  <2> QED BY <1>1, <1>2, <1>3, <2>1, <2>2
<1>5. Taken' = Taken + 1
  BY <1>1, <1>4, FirstTaken DEF Taken
<1>6. Running' \subseteq Running \cup {Taken + 1}
  BY <1>2 DEF Running
<1>7. /\ IsFiniteSet(Running \cup {Taken + 1})
      /\ Cardinality(Running \cup {Taken + 1}) <= Cardinality(Running) + 1
  BY RunningIsFinite, FS_AddElement
<1>8. Cardinality(Running') \in Nat /\ Cardinality(Running') <= Cardinality(Running \cup {Taken + 1})
  BY <1>6, <1>7, FS_Subset, FS_CardinalityType
<1>9. Cardinality(Running \cup {Taken + 1}) \in Nat
  BY <1>7, FS_CardinalityType
<1> QED BY <1>1, <1>4, <1>5, <1>6, <1>7, <1>8, <1>9, RunningIsFinite

\* A message taken whose download moves on without starting anew.
LEMMA TaskMoves ==
  ASSUME WalkTypes, Deque, Pipeline, NEW n \in Msgs, task[n] \in Alive,
         NEW s \in {"write", "disk", "failed", "done", "cancelled"},
         task' = [task EXCEPT ![n] = s], UNCHANGED queue
  PROVE  /\ Deque' /\ Taken' = Taken /\ Running' \subseteq Running
         /\ Cardinality(Running') \in Nat /\ Cardinality(Running') <= Cardinality(Running)
         /\ \A m \in Msgs : task'[m] # "none" <=> m <= Taken
         /\ \E i \in 1..Len(queue) : queue[i] = n
<1>1. \A m \in Msgs : task'[m] = IF m = n THEN s ELSE task[m]
  BY DEF WalkTypes
<1>2. \A m \in Msgs : task'[m] # "none" <=> task[m] # "none"
  BY <1>1 DEF Alive
<1>3. Taken' = Taken
  BY <1>2, SameTaken
<1>4. Running' \subseteq Running
  BY <1>1 DEF Running
<1>5. Cardinality(Running') \in Nat /\ Cardinality(Running') <= Cardinality(Running)
  BY <1>4, RunningLess
<1>6. Limit \in Nat /\ Cardinality(Running) \in Nat
  BY BoundsAreNaturals, RunningIsFinite
<1>7. Deque'
  BY <1>3, <1>4, <1>5, <1>6 DEF Deque
<1>8. \E i \in 1..Len(queue) : queue[i] = n
  BY DEF Deque, Running
<1> QED BY <1>2, <1>3, <1>4, <1>5, <1>7, <1>8 DEF Pipeline

\* The head handed back: the rest keeps its order, and nothing that runs or
\* met a full disk has left.
LEMMA HeadLeaves ==
  ASSUME WalkTypes, Deque, Pipeline, HeadReady, queue' = Tail(queue), UNCHANGED task
  PROVE  /\ Deque' /\ queue' \in Seq(Msgs)
         /\ Len(queue') <= Taken /\ Taken' = Taken /\ Running' = Running
         /\ \A n \in Msgs : n # Head(queue) /\ (\E i \in 1..Len(queue) : queue[i] = n) =>
               (\E i \in 1..Len(queue') : queue'[i] = n)
<1>1. Len(queue) \in Nat /\ Len(queue) > 0 /\ Len(queue') = Len(queue) - 1
  BY DEF WalkTypes, HeadReady
<1>2. \A i \in 1..Len(queue') : queue'[i] = queue[i + 1] /\ i + 1 \in 1..Len(queue)
  BY <1>1 DEF WalkTypes, HeadReady
<1>3. Head(queue) = queue[1]
  BY <1>1 DEF WalkTypes
<1>4. \A n \in Msgs : n # Head(queue) /\ (\E i \in 1..Len(queue) : queue[i] = n) =>
          (\E i \in 1..Len(queue') : queue'[i] = n)
  <2> SUFFICES ASSUME NEW n \in Msgs, n # Head(queue), NEW i \in 1..Len(queue), queue[i] = n
               PROVE  \E j \in 1..Len(queue') : queue'[j] = n
    OBVIOUS
  <2>1. i - 1 \in 1..Len(queue') /\ i - 1 + 1 = i
    BY <1>1, <1>3
  <2> QED BY <1>2, <2>1
<1>5. Taken' = Taken /\ Running' = Running
  BY QuietTasks
<1>6. Taken \in Nat /\ Len(queue) <= Taken
  BY BoundsAreNaturals DEF Pipeline
<1>7. \A i \in 1..Len(queue') : queue'[i] = Taken' - Len(queue') + i
  <2> SUFFICES ASSUME NEW i \in 1..Len(queue')
               PROVE  queue'[i] = Taken' - Len(queue') + i
    OBVIOUS
  <2>1. queue'[i] = Taken - Len(queue) + (i + 1)
    BY <1>2 DEF Deque
  <2>2. i \in Nat
    BY <1>1
  <2>3. Taken - Len(queue) + (i + 1) = Taken - (Len(queue) - 1) + i
    BY <1>1, <1>6, <2>2
  <2> QED BY <1>1, <1>5, <2>1, <2>3
<1>8. \A n \in Running' : \E i \in 1..Len(queue') : queue'[i] = n
  BY <1>4, <1>5, RunningIsFinite DEF Deque, HeadReady
<1>9. Deque'
  BY <1>5, <1>7, <1>8 DEF Deque
<1>10. queue' \in Seq(Msgs)
  BY <1>1 DEF WalkTypes, HeadReady
<1> QED BY <1>1, <1>4, <1>5, <1>6, <1>9, <1>10

-----------------------------------------------------------------------------
(* The other steps: what each of them disturbs.                            *)

LEMMA OpenStep ==
  ASSUME IInv, Open
  PROVE  IInv'
<1> USE DEF IInv, Open, At, Raise, walkVars, sectionVars, flagVars
<1>1. WalkTypes' /\ SectionTypes' /\ FileTypes' /\ FlagTypes' /\ Deque' /\ Midway'
  BY Kept
<1>2. MainTypes'
  BY DEF MainTypes, Awaits, Opening
<1>3. FaultTypes'
  BY FaultsCounted
<1>4. ResultTypes'
  BY DEF ResultTypes
<1>5. Flags'
  BY DEF Flags, Interrupted, Opening
<1>6. HeldShape'
  BY DEF HeldShape
<1>7. OnlyInWalk'
  BY QuietTasks DEF OnlyInWalk, Walking
<1>8. Pipeline'
  BY QuietTasks DEF Pipeline, Walking
<1>9. Accounted'
  BY DEF Fine, Accounted, Interrupted, Walking
<1>10. Outcome'
  BY DEF Outcome, Ended
<1>11. Complete'
  BY DEF Complete, Before, Clean, After, Reported, Opening
<1>12. ForceLeads'
  BY DEF ForceLeads
<1> QED BY <1>1, <1>2, <1>3, <1>4, <1>5, <1>6, <1>7, <1>8, <1>9, <1>10, <1>11, <1>12

LEMMA ConnectStep ==
  ASSUME IInv, Connect
  PROVE  IInv'
<1>1. WalkTypes' /\ SectionTypes' /\ FileTypes' /\ FlagTypes' /\ Deque' /\ Midway'
  BY Kept DEF IInv, Connect, walkVars, sectionVars, flagVars
<1>2. MainTypes'
  <2>1. pc' \in {"takeout", "catalog", "close"} /\ UNCHANGED <<options, chat>>
    BY DEF Connect, Takeout, Raise
  <2>2. held' \in {held, {"state", "api"}, {"state", "api", "downloader"}}
    BY DEF IInv, HeldShape, Connect, Takeout, At
  <2> QED BY <2>1, <2>2 DEF IInv, MainTypes, Awaits, Opening
<1>3. FaultTypes'
  BY FaultsCounted DEF IInv, Connect
<1>4. ResultTypes'
  BY DEF IInv, Connect, Raise, ResultTypes
<1>5. Flags'
  BY DEF IInv, Connect, Raise, walkVars, flagVars, Flags, Interrupted,
     Opening
<1>6. HeldShape'
  BY DEF IInv, Connect, At, Raise, HeldShape
<1>7. OnlyInWalk'
  BY QuietTasks DEF IInv, Connect, At, walkVars, OnlyInWalk, Walking
<1>8. Pipeline'
  BY QuietTasks DEF IInv, Connect, Raise, walkVars, Pipeline, Walking
<1>9. Accounted'
  BY DEF IInv, Connect, At, Fine, Raise, flagVars, Accounted, Interrupted,
     Walking
<1>10. Outcome'
  BY DEF IInv, Connect, At, Raise, Outcome, Ended
<1>11. Complete'
  BY DEF IInv, Connect, At, Raise, sectionVars, Complete, Before, Clean,
     After, Reported, Opening
<1>12. ForceLeads'
  BY DEF IInv, Connect, At, ForceLeads
<1> QED BY <1>1, <1>2, <1>3, <1>4, <1>5, <1>6, <1>7, <1>8, <1>9, <1>10, <1>11, <1>12 DEF
     IInv

LEMMA TakeoutStep ==
  ASSUME IInv, Takeout
  PROVE  IInv'
<1>1. WalkTypes' /\ SectionTypes' /\ FileTypes' /\ FlagTypes' /\ Deque' /\ Midway'
  BY Kept DEF IInv, Takeout, walkVars, sectionVars, flagVars
<1>2. MainTypes'
  <2>1. pc' \in {"takeout", "catalog", "close"} /\ UNCHANGED <<options, chat>>
    BY DEF Connect, Takeout, Raise
  <2>2. held' \in {held, {"state", "api"}, {"state", "api", "downloader"}}
    BY DEF IInv, HeldShape, Connect, Takeout, At
  <2> QED BY <2>1, <2>2 DEF IInv, MainTypes, Awaits, Opening
<1>3. FaultTypes'
  BY FaultsCounted DEF IInv, Takeout
<1>4. ResultTypes'
  BY DEF IInv, Takeout, Raise, ResultTypes
<1>5. Flags'
  BY DEF IInv, Takeout, Raise, walkVars, flagVars, Flags, Interrupted,
     Opening
<1>6. HeldShape'
  BY DEF IInv, Takeout, At, Raise, HeldShape
<1>7. OnlyInWalk'
  BY QuietTasks DEF IInv, Takeout, At, walkVars, OnlyInWalk, Walking
<1>8. Pipeline'
  BY QuietTasks DEF IInv, Takeout, Raise, walkVars, Pipeline, Walking
<1>9. Accounted'
  BY DEF IInv, Takeout, At, Fine, Raise, flagVars, Accounted, Interrupted,
     Walking
<1>10. Outcome'
  BY DEF IInv, Takeout, At, Raise, Outcome, Ended
<1>11. Complete'
  BY DEF IInv, Takeout, At, Raise, sectionVars, Complete, Before, Clean,
     After, Reported, Opening
<1>12. ForceLeads'
  BY DEF IInv, Takeout, At, ForceLeads
<1> QED BY <1>1, <1>2, <1>3, <1>4, <1>5, <1>6, <1>7, <1>8, <1>9, <1>10, <1>11, <1>12 DEF
     IInv

LEMMA FetchCatalogStep ==
  ASSUME IInv, FetchCatalog
  PROVE  IInv'
<1> USE DEF IInv, FetchCatalog, At, Raise, walkVars, sectionVars, flagVars
<1>1. WalkTypes' /\ SectionTypes' /\ FileTypes' /\ FlagTypes' /\ Deque' /\ Midway'
  BY Kept
<1>2. MainTypes'
  BY DEF MainTypes, Awaits
<1>3. FaultTypes'
  BY FaultsCounted
<1>4. ResultTypes'
  BY DEF ResultTypes
<1>5. Flags'
  BY DEF Flags, Interrupted
<1>6. HeldShape'
  BY DEF HeldShape, Ended
<1>7. OnlyInWalk'
  BY QuietTasks DEF OnlyInWalk, Walking
<1>8. Pipeline'
  BY QuietTasks DEF Pipeline, Walking
<1>9. Accounted'
  BY OthersCounted DEF Accounted, Interrupted, Walking
<1>10. Outcome'
  BY DEF Outcome, Ended
<1>11. Complete'
  BY DEF Complete, Before, Clean, After, Reported, Opening
<1>12. ForceLeads'
  BY DEF ForceLeads
<1> QED BY <1>1, <1>2, <1>3, <1>4, <1>5, <1>6, <1>7, <1>8, <1>9, <1>10, <1>11, <1>12

LEMMA OpeningCancelledStep ==
  ASSUME IInv, OpeningCancelled
  PROVE  IInv'
<1> USE DEF IInv, OpeningCancelled, Opening, CancelledAt, Raise, walkVars,
       sectionVars, flagVars
<1>1. WalkTypes' /\ SectionTypes' /\ FileTypes' /\ FaultTypes' /\ Deque' /\ Midway'
  BY Kept
<1>2. MainTypes'
  BY DEF MainTypes, Awaits
<1>3. FlagTypes'
  BY DEF FlagTypes
<1>4. ResultTypes'
  BY DEF ResultTypes
<1>5. Flags'
  BY DEF Flags, Interrupted
<1>6. HeldShape'
  BY DEF HeldShape
<1>7. OnlyInWalk'
  BY QuietTasks DEF OnlyInWalk, Walking
<1>8. Pipeline'
  BY QuietTasks DEF Pipeline, Walking
<1>9. Accounted'
  BY DEF Accounted, Interrupted, Walking, Outcome, Ended
<1>10. Outcome'
  BY DEF Outcome
<1>11. Complete'
  BY DEF Complete, Before, Clean
<1>12. ForceLeads'
  BY DEF ForceLeads
<1> QED BY <1>1, <1>2, <1>3, <1>4, <1>5, <1>6, <1>7, <1>8, <1>9, <1>10, <1>11, <1>12

LEMMA InstallHandlersStep ==
  ASSUME IInv, InstallHandlers
  PROVE  IInv'
<1> USE DEF IInv, InstallHandlers, walkVars, sectionVars, resultVars
<1>1. WalkTypes' /\ SectionTypes' /\ FileTypes' /\ FaultTypes' /\ ResultTypes' /\ Deque' /\ Midway'
  BY Kept
<1>2. MainTypes'
  BY DEF MainTypes
<1>3. FlagTypes'
  BY DEF FlagTypes
<1>4. Flags'
  BY DEF Flags, Interrupted
<1>5. HeldShape'
  BY DEF HeldShape, Ended
<1>6. OnlyInWalk'
  BY QuietTasks DEF OnlyInWalk, Walking
<1>7. Pipeline'
  BY QuietTasks DEF Pipeline, Walking
<1>8. Accounted'
  BY DEF Accounted, Interrupted, Walking
<1>9. Outcome'
  BY DEF Outcome, Ended
<1>10. Complete'
  BY DEF Complete, Before, After, Reported
<1>11. ForceLeads'
  BY DEF ForceLeads, Awaits, Opening, Walking
<1> QED BY <1>1, <1>2, <1>3, <1>4, <1>5, <1>6, <1>7, <1>8, <1>9, <1>10, <1>11

LEMMA LoopStep ==
  ASSUME IInv, Loop
  PROVE  IInv'
<1> USE DEF IInv, Loop, AfterLoop, walkVars, sectionVars, flagVars,
       VerifyOrReturn
<1>1. WalkTypes' /\ SectionTypes' /\ FileTypes' /\ FlagTypes' /\ FaultTypes' /\ Deque' /\ Midway'
  BY Kept
<1>2. MainTypes'
  BY BoundsAreNaturals DEF MainTypes, Awaits
<1>3. ResultTypes'
  BY DEF ResultTypes
<1>4. Flags'
  BY DEF Flags, Interrupted, Opening, Ended
<1>5. HeldShape'
  BY DEF HeldShape, Ended
<1>6. OnlyInWalk'
  BY QuietTasks DEF OnlyInWalk, Walking
<1>7. Pipeline'
  BY QuietTasks DEF Pipeline, Walking
<1>8. Accounted'
  BY DEF Accounted, Interrupted, Walking
<1>9. Outcome'
  BY DEF Outcome, Ended
<1>10. Complete'
  BY DEF Complete, Before, Clean, After, Reported, Interrupted, Flags
<1>11. ForceLeads'
  BY DEF ForceLeads, Awaits
<1> QED BY <1>1, <1>2, <1>3, <1>4, <1>5, <1>6, <1>7, <1>8, <1>9, <1>10, <1>11

LEMMA CacheCatalogStep ==
  ASSUME IInv, CacheCatalog
  PROVE  IInv'
<1>1. SectionTypes' /\ FileTypes' /\ FlagTypes' /\ Midway'
  BY Kept DEF IInv, CacheCatalog, sectionVars, flagVars
<1>2. MainTypes'
  BY DEF IInv, CacheCatalog, Raise, MainTypes, Awaits, Walking
<1>3. WalkTypes' /\ Deque' /\ Pipeline'
  <2>1. CASE UNCHANGED walkVars /\ pc' = "close"
    BY <2>1, Kept, QuietTasks DEF IInv, walkVars, Pipeline, Walking
  <2>2. CASE /\ queue' = <<>> /\ task' = [n \in Msgs |-> "none"] /\ cause' = "none"
             /\ pc' = "walk"
    <3>1. queue' \in Seq(Msgs) /\ Len(queue') = 0
      BY <2>2
    <3>2. Taken' = 0 /\ Running' = {} /\ Cardinality(Running') = 0
      BY <2>2, NoneTaken
    <3> QED BY <2>2, <3>1, <3>2, BoundsAreNaturals DEF WalkTypes, Deque, Pipeline, Msgs
  <2> QED BY <2>1, <2>2 DEF CacheCatalog, Raise
<1>4. FaultTypes'
  BY FaultsCounted DEF IInv, CacheCatalog
<1>5. ResultTypes'
  BY DEF IInv, CacheCatalog, Raise, ResultTypes
<1>6. Flags'
  BY DEF IInv, CacheCatalog, At, Raise, walkVars, flagVars, Flags,
     Interrupted, Opening, Ended
<1>7. HeldShape'
  BY DEF IInv, CacheCatalog, At, Raise, HeldShape, Ended
<1>8. OnlyInWalk'
  BY QuietTasks DEF IInv, CacheCatalog, At, walkVars, OnlyInWalk, Walking
<1>9. Accounted'
  BY DEF IInv, CacheCatalog, At, Fine, Raise, flagVars, Accounted,
     Interrupted, Walking
<1>10. Outcome'
  BY DEF IInv, CacheCatalog, At, Raise, Outcome, Ended
<1>11. Complete'
  BY DEF IInv, CacheCatalog, At, Raise, sectionVars, Complete, Before,
     Clean, After, Reported
<1>12. ForceLeads'
  BY DEF IInv, CacheCatalog, At, ForceLeads
<1> QED BY <1>1, <1>2, <1>3, <1>4, <1>5, <1>6, <1>7, <1>8, <1>9, <1>10, <1>11, <1>12 DEF
     IInv

LEMMA EntryCancelledStep ==
  ASSUME IInv, EntryCancelled
  PROVE  IInv'
<1> USE DEF IInv, EntryCancelled, CancelledAt, ForcedOut, walkVars,
       sectionVars, flagVars, VerifyOrReturn
<1>1. WalkTypes' /\ SectionTypes' /\ FileTypes' /\ FaultTypes' /\ Deque' /\ Midway'
  BY Kept
<1>2. MainTypes'
  BY DEF MainTypes
<1>3. FlagTypes'
  BY DEF FlagTypes
<1>4. ResultTypes'
  BY DEF ResultTypes
<1>5. Flags'
  BY DEF Flags, Interrupted, Opening, Ended
<1>6. HeldShape'
  BY DEF HeldShape, Ended
<1>7. OnlyInWalk'
  BY QuietTasks DEF OnlyInWalk, Walking
<1>8. Pipeline'
  BY QuietTasks DEF Pipeline, Walking
<1>9. Accounted'
  BY DEF Accounted, Interrupted, Walking
<1>10. Outcome'
  BY DEF Outcome, Ended
<1>11. Complete'
  BY DEF Complete, Before, Clean, Interrupted, Flags
<1>12. ForceLeads'
  BY DEF ForceLeads
<1> QED BY <1>1, <1>2, <1>3, <1>4, <1>5, <1>6, <1>7, <1>8, <1>9, <1>10, <1>11, <1>12

LEMMA SubmitStep ==
  ASSUME IInv, Submit
  PROVE  IInv'
<1>1. SectionTypes' /\ FileTypes' /\ FlagTypes' /\ FaultTypes' /\ ResultTypes' /\ Midway'
  BY Kept DEF IInv, Submit, sectionVars, flagVars, resultVars
<1>2. MainTypes'
  BY DEF IInv, Submit, MainTypes, Awaits, Walking
<1>3. WalkTypes'
  <2>1. PICK s \in {"net", "plain"} : task' = [task EXCEPT ![Taken + 1] = s]
    BY DEF Submit
  <2>2. /\ pc = "walk" /\ pc' = "submit" /\ queue' = Append(queue, Taken + 1) /\ Taken < Messages
        /\ WalkTypes /\ Deque /\ Pipeline /\ UNCHANGED <<cause, faults, logged, errors, raised, sig, runner>>
    BY DEF Submit, At, IInv, resultVars, flagVars
  <2>3. /\ Taken + 1 \in Msgs /\ Taken' = Taken + 1
        /\ \A n \in Msgs : task'[n] # "none" <=> n <= Taken + 1
        /\ Running' \subseteq Running \cup {Taken + 1}
        /\ Cardinality(Running') \in Nat /\ Cardinality(Running') <= Cardinality(Running) + 1
    BY <2>1, <2>2, TakeNext
  <2>4. Taken \in Nat /\ Len(queue) \in Nat /\ Len(queue) <= Taken /\ Len(queue') = Len(queue) + 1
    BY <2>2, BoundsAreNaturals DEF WalkTypes, Pipeline
  <2>5. /\ \A i \in 1..Len(queue) : queue'[i] = queue[i]
        /\ queue'[Len(queue) + 1] = Taken + 1
    BY <2>2, <2>3 DEF WalkTypes
  <2>6. \A n \in Msgs : task'[n] = "disk" <=> task[n] = "disk"
    BY <2>1, <2>2, <2>3 DEF WalkTypes, Pipeline
  <2> QED BY <2>1, <2>2, <2>3 DEF WalkTypes
<1>4. Deque'
  <2>1. PICK s \in {"net", "plain"} : task' = [task EXCEPT ![Taken + 1] = s]
    BY DEF Submit
  <2>2. /\ pc = "walk" /\ pc' = "submit" /\ queue' = Append(queue, Taken + 1) /\ Taken < Messages
        /\ WalkTypes /\ Deque /\ Pipeline /\ UNCHANGED <<cause, faults, logged, errors, raised, sig, runner>>
    BY DEF Submit, At, IInv, resultVars, flagVars
  <2>3. /\ Taken + 1 \in Msgs /\ Taken' = Taken + 1
        /\ \A n \in Msgs : task'[n] # "none" <=> n <= Taken + 1
        /\ Running' \subseteq Running \cup {Taken + 1}
        /\ Cardinality(Running') \in Nat /\ Cardinality(Running') <= Cardinality(Running) + 1
    BY <2>1, <2>2, TakeNext
  <2>4. Taken \in Nat /\ Len(queue) \in Nat /\ Len(queue) <= Taken /\ Len(queue') = Len(queue) + 1
    BY <2>2, BoundsAreNaturals DEF WalkTypes, Pipeline
  <2>5. /\ \A i \in 1..Len(queue) : queue'[i] = queue[i]
        /\ queue'[Len(queue) + 1] = Taken + 1
    BY <2>2, <2>3 DEF WalkTypes
  <2>6. \A n \in Msgs : task'[n] = "disk" <=> task[n] = "disk"
    BY <2>1, <2>2, <2>3 DEF WalkTypes, Pipeline
  <2>7. \A i \in 1..Len(queue') : queue'[i] = Taken' - Len(queue') + i
    <3> SUFFICES ASSUME NEW i \in 1..Len(queue') PROVE queue'[i] = Taken' - Len(queue') + i
      OBVIOUS
    <3>1. CASE i = Len(queue) + 1
      BY <2>3, <2>4, <2>5, <3>1
    <3>2. CASE i \in 1..Len(queue)
      <4>1. queue[i] = Taken - Len(queue) + i
        BY <2>2, <3>2 DEF Deque
      <4>2. Taken - Len(queue) + i = Taken + 1 - (Len(queue) + 1) + i
        BY <2>4, <3>2
      <4> QED BY <2>3, <2>4, <2>5, <3>2, <4>1, <4>2
    <3> QED BY <2>4, <3>1, <3>2
  <2>8. \A n \in Running' : \E i \in 1..Len(queue') : queue'[i] = n
    <3> SUFFICES ASSUME NEW n \in Running' PROVE \E i \in 1..Len(queue') : queue'[i] = n
      OBVIOUS
    <3>1. CASE n = Taken + 1
      <4>1. Len(queue) + 1 \in 1..Len(queue')
        BY <2>4
      <4> QED BY <2>5, <3>1, <4>1
    <3>2. CASE n \in Running
      <4>1. PICK i \in 1..Len(queue) : queue[i] = n
        BY <2>2, <3>2 DEF Deque
      <4>2. i \in 1..Len(queue')
        BY <2>4
      <4> QED BY <2>5, <4>1, <4>2
    <3> QED BY <2>3, <3>1, <3>2
  <2>9. Cardinality(Running') <= Limit
    <3>1. Cardinality(Running) < Limit
      BY <2>2 DEF Pipeline
    <3> QED BY <2>3, <3>1, RunningIsFinite, BoundsAreNaturals
  <2> QED BY <2>7, <2>8, <2>9 DEF Deque
<1>5. Flags'
  BY DEF IInv, Submit, At, flagVars, resultVars, Flags, Interrupted,
     Opening, Ended
<1>6. HeldShape'
  BY DEF IInv, Submit, At, HeldShape, Ended
<1>7. OnlyInWalk'
  BY DEF Submit, OnlyInWalk, Walking
<1>8. Pipeline'
  <2>1. PICK s \in {"net", "plain"} : task' = [task EXCEPT ![Taken + 1] = s]
    BY DEF Submit
  <2>2. /\ pc = "walk" /\ pc' = "submit" /\ queue' = Append(queue, Taken + 1) /\ Taken < Messages
        /\ WalkTypes /\ Deque /\ Pipeline /\ UNCHANGED <<cause, faults, logged, errors, raised, sig, runner>>
    BY DEF Submit, At, IInv, resultVars, flagVars
  <2>3. /\ Taken + 1 \in Msgs /\ Taken' = Taken + 1
        /\ \A n \in Msgs : task'[n] # "none" <=> n <= Taken + 1
        /\ Running' \subseteq Running \cup {Taken + 1}
        /\ Cardinality(Running') \in Nat /\ Cardinality(Running') <= Cardinality(Running) + 1
    BY <2>1, <2>2, TakeNext
  <2>4. Taken \in Nat /\ Len(queue) \in Nat /\ Len(queue) <= Taken /\ Len(queue') = Len(queue) + 1
    BY <2>2, BoundsAreNaturals DEF WalkTypes, Pipeline
  <2>5. /\ \A i \in 1..Len(queue) : queue'[i] = queue[i]
        /\ queue'[Len(queue) + 1] = Taken + 1
    BY <2>2, <2>3 DEF WalkTypes
  <2>6. \A n \in Msgs : task'[n] = "disk" <=> task[n] = "disk"
    BY <2>1, <2>2, <2>3 DEF WalkTypes, Pipeline
  <2>7. ASSUME NEW n \in Msgs, task'[n] = "disk" PROVE \E i \in 1..Len(queue') : queue'[i] = n
    <3>1. PICK i \in 1..Len(queue) : queue[i] = n
      BY <2>2, <2>6, <2>7 DEF Pipeline, Walking
    <3>2. i \in 1..Len(queue')
      BY <2>4
    <3> QED BY <2>5, <3>1, <3>2
  <2>8. Taken + 1 \in 0..Messages
    BY <2>2, <2>4, BoundsAreNaturals
  <2> QED BY <2>2, <2>3, <2>4, <2>7, <2>8 DEF Pipeline
<1>9. Accounted'
  <2>1. PICK s \in {"net", "plain"} : task' = [task EXCEPT ![Taken + 1] = s]
    BY DEF Submit
  <2>2. /\ pc = "walk" /\ pc' = "submit" /\ queue' = Append(queue, Taken + 1) /\ Taken < Messages
        /\ WalkTypes /\ Deque /\ Pipeline /\ UNCHANGED <<cause, faults, logged, errors, raised, sig, runner>>
    BY DEF Submit, At, IInv, resultVars, flagVars
  <2>3. /\ Taken + 1 \in Msgs /\ Taken' = Taken + 1
        /\ \A n \in Msgs : task'[n] # "none" <=> n <= Taken + 1
        /\ Running' \subseteq Running \cup {Taken + 1}
        /\ Cardinality(Running') \in Nat /\ Cardinality(Running') <= Cardinality(Running) + 1
    BY <2>1, <2>2, TakeNext
  <2>4. Taken \in Nat /\ Len(queue) \in Nat /\ Len(queue) <= Taken /\ Len(queue') = Len(queue) + 1
    BY <2>2, BoundsAreNaturals DEF WalkTypes, Pipeline
  <2>5. /\ \A i \in 1..Len(queue) : queue'[i] = queue[i]
        /\ queue'[Len(queue) + 1] = Taken + 1
    BY <2>2, <2>3 DEF WalkTypes
  <2>6. \A n \in Msgs : task'[n] = "disk" <=> task[n] = "disk"
    BY <2>1, <2>2, <2>3 DEF WalkTypes, Pipeline
  <2> QED BY <2>2, <2>6 DEF IInv, Accounted, Interrupted, Walking
<1>10. Outcome'
  BY DEF IInv, Submit, At, resultVars, Outcome, Ended
<1>11. Complete'
  BY DEF IInv, Submit, At, sectionVars, Complete, Before, After, Reported,
     Walking
<1>12. ForceLeads'
  BY DEF IInv, Submit, At, ForceLeads
<1> QED BY <1>1, <1>2, <1>3, <1>4, <1>5, <1>6, <1>7, <1>8, <1>9, <1>10, <1>11, <1>12 DEF
     IInv

LEMMA StopWalkStep ==
  ASSUME IInv, StopWalk
  PROVE  IInv'
<1> USE DEF IInv, StopWalk, At, walkVars, sectionVars, flagVars, resultVars
<1>1. WalkTypes' /\ SectionTypes' /\ FileTypes' /\ FlagTypes' /\ FaultTypes' /\ ResultTypes' /\ Deque' /\ Midway'
  BY Kept
<1>2. MainTypes'
  BY DEF MainTypes, Awaits, Walking
<1>3. Flags'
  BY DEF Flags, Interrupted, Opening, Ended
<1>4. HeldShape'
  BY DEF HeldShape, Ended
<1>5. OnlyInWalk'
  BY DEF OnlyInWalk, Walking
<1>6. Pipeline'
  BY QuietTasks DEF Pipeline, Walking
<1>7. Accounted'
  BY DEF Accounted, Interrupted, Walking
<1>8. Outcome'
  BY DEF Outcome, Ended
<1>9. Complete'
  BY DEF Complete, Before, After, Reported, Walking
<1>10. ForceLeads'
  BY DEF ForceLeads
<1> QED BY <1>1, <1>2, <1>3, <1>4, <1>5, <1>6, <1>7, <1>8, <1>9, <1>10

LEMMA WalkFailsStep ==
  ASSUME IInv, WalkFails
  PROVE  IInv'
<1> USE DEF IInv, WalkFails, At, LeavePipeline, sectionVars, flagVars,
       resultVars
<1>1. SectionTypes' /\ FileTypes' /\ FlagTypes' /\ ResultTypes' /\ Deque' /\ Midway'
  BY Kept
<1>2. MainTypes'
  BY DEF MainTypes, Awaits
<1>3. WalkTypes'
  BY DEF WalkTypes
<1>4. FaultTypes'
  BY FaultsCounted
<1>5. Flags'
  BY DEF Flags, Interrupted, Opening, Ended
<1>6. HeldShape'
  BY DEF HeldShape, Ended
<1>7. OnlyInWalk'
  BY DEF OnlyInWalk
<1>8. Pipeline'
  BY QuietTasks DEF Pipeline, Walking
<1>9. Accounted'
  BY DEF Accounted
<1>10. Outcome'
  BY DEF Outcome, Ended
<1>11. Complete'
  BY DEF Complete, Before, After, Reported, Walking
<1>12. ForceLeads'
  BY DEF ForceLeads
<1> QED BY <1>1, <1>2, <1>3, <1>4, <1>5, <1>6, <1>7, <1>8, <1>9, <1>10, <1>11, <1>12

LEMMA SubmitTakesStep ==
  ASSUME IInv, SubmitTakes
  PROVE  IInv'
<1>1. SectionTypes' /\ FileTypes' /\ FlagTypes' /\ FaultTypes' /\ ResultTypes' /\ Midway'
  BY Kept DEF IInv, SubmitTakes, sectionVars, flagVars, resultVars
<1>2. MainTypes'
  BY DEF IInv, SubmitTakes, TakeOldest, LeavePipeline, MainTypes, Awaits
<1>3. WalkTypes'
  BY DEF IInv, SubmitTakes, At, TakeOldest, flagVars, HeadReady,
     LeavePipeline, WalkTypes, Msgs
<1>4. Deque'
  <2>1. CASE cause' = "disk" /\ pc' = "leave" /\ UNCHANGED <<queue, task>>
    BY <2>1, Kept, QuietTasks DEF IInv, Pipeline, Walking
  <2>2. CASE queue' = Tail(queue) /\ UNCHANGED <<task, cause>> /\ HeadReady /\ task[Head(queue)] # "disk"
    <3>1. /\ Deque' /\ queue' \in Seq(Msgs)
          /\ Len(queue') <= Taken /\ Taken' = Taken /\ Running' = Running
          /\ \A n \in Msgs : n # Head(queue) /\ (\E i \in 1..Len(queue) : queue[i] = n) =>
                (\E i \in 1..Len(queue') : queue'[i] = n)
      BY <2>2, HeadLeaves DEF IInv
    <3> QED BY <3>1
  <2> QED BY <2>1, <2>2 DEF SubmitTakes, At, TakeOldest, LeavePipeline
<1>5. Flags'
  BY DEF IInv, SubmitTakes, At, TakeOldest, flagVars, resultVars,
     LeavePipeline, Flags, Interrupted, Opening, Ended
<1>6. HeldShape'
  BY DEF IInv, SubmitTakes, At, TakeOldest, LeavePipeline, HeldShape, Ended
<1>7. OnlyInWalk'
  BY DEF SubmitTakes, At, TakeOldest, LeavePipeline, OnlyInWalk, Walking
<1>8. Pipeline'
  <2>1. CASE cause' = "disk" /\ pc' = "leave" /\ UNCHANGED <<queue, task>>
    BY <2>1, Kept, QuietTasks DEF IInv, Pipeline, Walking
  <2>2. CASE queue' = Tail(queue) /\ UNCHANGED <<task, cause>> /\ HeadReady /\ task[Head(queue)] # "disk"
    <3>1. /\ Deque' /\ queue' \in Seq(Msgs)
          /\ Len(queue') <= Taken /\ Taken' = Taken /\ Running' = Running
          /\ \A n \in Msgs : n # Head(queue) /\ (\E i \in 1..Len(queue) : queue[i] = n) =>
                (\E i \in 1..Len(queue') : queue'[i] = n)
      BY <2>2, HeadLeaves DEF IInv
    <3>2. pc = "submit" /\ pc' = pc
      BY <2>2 DEF SubmitTakes, At, TakeOldest, LeavePipeline
    <3>3. ASSUME NEW n \in Msgs, task[n] = "disk" PROVE \E i \in 1..Len(queue') : queue'[i] = n
      BY <2>2, <3>1, <3>2, <3>3 DEF IInv, Pipeline, Walking
    <3> QED BY <2>2, <3>1, <3>2, <3>3 DEF IInv, Pipeline, Walking
  <2> QED BY <2>1, <2>2 DEF SubmitTakes, At, TakeOldest, LeavePipeline
<1>9. Accounted'
  BY DEF IInv, SubmitTakes, At, TakeOldest, flagVars, resultVars,
     LeavePipeline, Accounted, Interrupted
<1>10. Outcome'
  BY DEF IInv, SubmitTakes, At, TakeOldest, resultVars, LeavePipeline,
     Outcome, Ended
<1>11. Complete'
  BY DEF IInv, SubmitTakes, At, TakeOldest, sectionVars, LeavePipeline,
     Complete, Before, After, Reported, Walking
<1>12. ForceLeads'
  BY DEF IInv, SubmitTakes, At, ForceLeads
<1> QED BY <1>1, <1>2, <1>3, <1>4, <1>5, <1>6, <1>7, <1>8, <1>9, <1>10, <1>11, <1>12 DEF
     IInv

LEMMA SubmitReturnsStep ==
  ASSUME IInv, SubmitReturns
  PROVE  IInv'
<1> USE DEF IInv, SubmitReturns, At, walkVars, sectionVars, flagVars,
       resultVars
<1>1. WalkTypes' /\ SectionTypes' /\ FileTypes' /\ FlagTypes' /\ FaultTypes' /\ ResultTypes' /\ Deque' /\ Midway'
  BY Kept
<1>2. MainTypes'
  BY DEF MainTypes, Awaits, Walking
<1>3. Flags'
  BY DEF Flags, Interrupted, Opening, Ended
<1>4. HeldShape'
  BY DEF HeldShape, Ended
<1>5. OnlyInWalk'
  BY DEF OnlyInWalk, Walking
<1>6. Pipeline'
  BY QuietTasks DEF Room, Pipeline, Walking
<1>7. Accounted'
  BY DEF Accounted, Interrupted, Walking
<1>8. Outcome'
  BY DEF Outcome, Ended
<1>9. Complete'
  BY DEF Complete, Before, After, Reported, Walking
<1>10. ForceLeads'
  BY DEF ForceLeads
<1> QED BY <1>1, <1>2, <1>3, <1>4, <1>5, <1>6, <1>7, <1>8, <1>9, <1>10

LEMMA WindowTakesStep ==
  ASSUME IInv, WindowTakes
  PROVE  IInv'
<1>1. SectionTypes' /\ FileTypes' /\ FlagTypes' /\ FaultTypes' /\ ResultTypes' /\ Midway'
  BY Kept DEF IInv, WindowTakes, sectionVars, flagVars, resultVars
<1>2. MainTypes'
  BY DEF IInv, WindowTakes, LeavePipeline, MainTypes, Awaits, Walking
<1>3. WalkTypes'
  BY DEF IInv, WindowTakes, HeadReady, LeavePipeline, flagVars, WalkTypes
<1>4. Deque'
  <2>1. CASE cause' = "disk" /\ pc' = "leave" /\ UNCHANGED <<queue, task>>
    BY <2>1, Kept, QuietTasks DEF IInv, Pipeline, Walking
  <2>2. CASE queue' = Tail(queue) /\ UNCHANGED <<task, cause>> /\ HeadReady /\ task[Head(queue)] # "disk"
    <3>1. /\ Deque' /\ queue' \in Seq(Msgs)
          /\ Len(queue') <= Taken /\ Taken' = Taken /\ Running' = Running
          /\ \A n \in Msgs : n # Head(queue) /\ (\E i \in 1..Len(queue) : queue[i] = n) =>
                (\E i \in 1..Len(queue') : queue'[i] = n)
      BY <2>2, HeadLeaves DEF IInv
    <3> QED BY <3>1
  <2> QED BY <2>1, <2>2 DEF WindowTakes, At, LeavePipeline
<1>5. Flags'
  BY DEF IInv, WindowTakes, At, LeavePipeline, flagVars, resultVars, Flags,
     Interrupted, Opening, Ended
<1>6. HeldShape'
  BY DEF IInv, WindowTakes, At, LeavePipeline, HeldShape, Ended
<1>7. OnlyInWalk'
  BY DEF WindowTakes, LeavePipeline, OnlyInWalk, Walking
<1>8. Pipeline'
  <2>1. CASE cause' = "disk" /\ pc' = "leave" /\ UNCHANGED <<queue, task>>
    BY <2>1, Kept, QuietTasks DEF IInv, Pipeline, Walking
  <2>2. CASE queue' = Tail(queue) /\ UNCHANGED <<task, cause>> /\ HeadReady /\ task[Head(queue)] # "disk"
    <3>1. /\ Deque' /\ queue' \in Seq(Msgs)
          /\ Len(queue') <= Taken /\ Taken' = Taken /\ Running' = Running
          /\ \A n \in Msgs : n # Head(queue) /\ (\E i \in 1..Len(queue) : queue[i] = n) =>
                (\E i \in 1..Len(queue') : queue'[i] = n)
      BY <2>2, HeadLeaves DEF IInv
    <3>2. pc = "window" /\ (pc' = "window" \/ (pc' = "walk" /\ Cardinality(Running) < Limit))
      <4>1. pc = "window" /\ pc' = IF Room THEN "walk" ELSE "window"
        BY <2>2 DEF WindowTakes, At
      <4> QED BY <4>1 DEF Room
    <3>3. ASSUME NEW n \in Msgs, task[n] = "disk" PROVE \E i \in 1..Len(queue') : queue'[i] = n
      BY <2>2, <3>1, <3>2, <3>3 DEF IInv, Pipeline, Walking
    <3> QED BY <2>2, <3>1, <3>2, <3>3 DEF IInv, Pipeline, Walking
  <2> QED BY <2>1, <2>2 DEF WindowTakes, At, LeavePipeline
<1>9. Accounted'
  BY DEF IInv, WindowTakes, At, LeavePipeline, flagVars, resultVars,
     Accounted, Interrupted, Walking
<1>10. Outcome'
  BY DEF IInv, WindowTakes, At, LeavePipeline, resultVars, Outcome, Ended
<1>11. Complete'
  BY DEF IInv, WindowTakes, At, LeavePipeline, sectionVars, Complete,
     Before, After, Reported, Walking
<1>12. ForceLeads'
  BY DEF IInv, WindowTakes, At, ForceLeads
<1> QED BY <1>1, <1>2, <1>3, <1>4, <1>5, <1>6, <1>7, <1>8, <1>9, <1>10, <1>11, <1>12 DEF
     IInv

LEMMA DrainStep ==
  ASSUME IInv, Drain
  PROVE  IInv'
<1>1. SectionTypes' /\ FileTypes' /\ FlagTypes' /\ FaultTypes' /\ ResultTypes' /\ Midway'
  BY Kept DEF IInv, Drain, sectionVars, flagVars, resultVars
<1>2. MainTypes'
  BY DEF IInv, Drain, TakeOldest, LeavePipeline, MainTypes, Awaits
<1>3. WalkTypes'
  BY DEF IInv, Drain, At, TakeOldest, flagVars, HeadReady, LeavePipeline,
     WalkTypes, Msgs
<1>4. Deque'
  <2>1. CASE cause' = "disk" /\ pc' = "leave" /\ UNCHANGED <<queue, task>>
    BY <2>1, Kept, QuietTasks DEF IInv, Pipeline, Walking
  <2>2. CASE queue' = Tail(queue) /\ UNCHANGED <<task, cause>> /\ HeadReady /\ task[Head(queue)] # "disk"
    <3>1. /\ Deque' /\ queue' \in Seq(Msgs)
          /\ Len(queue') <= Taken /\ Taken' = Taken /\ Running' = Running
          /\ \A n \in Msgs : n # Head(queue) /\ (\E i \in 1..Len(queue) : queue[i] = n) =>
                (\E i \in 1..Len(queue') : queue'[i] = n)
      BY <2>2, HeadLeaves DEF IInv
    <3> QED BY <3>1
  <2> QED BY <2>1, <2>2 DEF Drain, At, TakeOldest, LeavePipeline
<1>5. Flags'
  BY DEF IInv, Drain, At, TakeOldest, flagVars, resultVars, LeavePipeline,
     Flags, Interrupted, Opening, Ended
<1>6. HeldShape'
  BY DEF IInv, Drain, At, TakeOldest, LeavePipeline, HeldShape, Ended
<1>7. OnlyInWalk'
  BY DEF Drain, At, TakeOldest, LeavePipeline, OnlyInWalk, Walking
<1>8. Pipeline'
  <2>1. CASE cause' = "disk" /\ pc' = "leave" /\ UNCHANGED <<queue, task>>
    BY <2>1, Kept, QuietTasks DEF IInv, Pipeline, Walking
  <2>2. CASE queue' = Tail(queue) /\ UNCHANGED <<task, cause>> /\ HeadReady /\ task[Head(queue)] # "disk"
    <3>1. /\ Deque' /\ queue' \in Seq(Msgs)
          /\ Len(queue') <= Taken /\ Taken' = Taken /\ Running' = Running
          /\ \A n \in Msgs : n # Head(queue) /\ (\E i \in 1..Len(queue) : queue[i] = n) =>
                (\E i \in 1..Len(queue') : queue'[i] = n)
      BY <2>2, HeadLeaves DEF IInv
    <3>2. pc = "drain" /\ pc' = pc
      BY <2>2 DEF Drain, At, TakeOldest, LeavePipeline
    <3>3. ASSUME NEW n \in Msgs, task[n] = "disk" PROVE \E i \in 1..Len(queue') : queue'[i] = n
      BY <2>2, <3>1, <3>2, <3>3 DEF IInv, Pipeline, Walking
    <3> QED BY <2>2, <3>1, <3>2, <3>3 DEF IInv, Pipeline, Walking
  <2> QED BY <2>1, <2>2 DEF Drain, At, TakeOldest, LeavePipeline
<1>9. Accounted'
  BY DEF IInv, Drain, At, TakeOldest, flagVars, resultVars, LeavePipeline,
     Accounted, Interrupted
<1>10. Outcome'
  BY DEF IInv, Drain, At, TakeOldest, resultVars, LeavePipeline, Outcome,
     Ended
<1>11. Complete'
  BY DEF IInv, Drain, At, TakeOldest, sectionVars, LeavePipeline, Complete,
     Before, After, Reported, Walking
<1>12. ForceLeads'
  BY DEF IInv, Drain, At, ForceLeads
<1> QED BY <1>1, <1>2, <1>3, <1>4, <1>5, <1>6, <1>7, <1>8, <1>9, <1>10, <1>11, <1>12 DEF
     IInv

LEMMA DrainedStep ==
  ASSUME IInv, Drained
  PROVE  IInv'
<1>1. SectionTypes' /\ FileTypes' /\ FlagTypes' /\ FaultTypes' /\ ResultTypes' /\ Deque' /\ Midway'
  BY Kept DEF IInv, Drained, LeavePipeline, sectionVars, flagVars,
     resultVars
<1>2. MainTypes'
  BY DEF IInv, Drained, LeavePipeline, MainTypes, Awaits
<1>3. WalkTypes'
  BY DEF IInv, Drained, LeavePipeline, WalkTypes
<1>4. Flags'
  BY DEF IInv, Drained, At, LeavePipeline, flagVars, resultVars, Flags,
     Interrupted, Opening, Ended
<1>5. HeldShape'
  BY DEF IInv, Drained, At, LeavePipeline, HeldShape, Ended
<1>6. OnlyInWalk'
  BY DEF Drained, LeavePipeline, OnlyInWalk
<1>7. Pipeline'
  BY QuietTasks DEF IInv, Drained, At, LeavePipeline, Pipeline, Walking
<1>8. Accounted'
  <2>1. Len(queue) = 0 /\ pc \in Walking
    BY DEF Drained, At, Walking
  <2>2. \A n \in Msgs : task[n] # "disk"
    BY <2>1 DEF IInv, Pipeline
  <2> QED BY <2>1, <2>2 DEF IInv, Accounted, Drained, At, LeavePipeline, resultVars,
       flagVars, Walking, Interrupted
<1>9. Outcome'
  BY DEF IInv, Drained, At, LeavePipeline, resultVars, Outcome, Ended
<1>10. Complete'
  BY DEF IInv, Drained, At, LeavePipeline, sectionVars, Complete, Before,
     After, Reported, Walking
<1>11. ForceLeads'
  BY DEF IInv, Drained, At, ForceLeads
<1> QED BY <1>1, <1>2, <1>3, <1>4, <1>5, <1>6, <1>7, <1>8, <1>9, <1>10, <1>11 DEF IInv

LEMMA WalkCancelledStep ==
  ASSUME IInv, WalkCancelled
  PROVE  IInv'
<1> USE DEF IInv, WalkCancelled, Walking, CancelledAt, LeavePipeline,
       sectionVars, flagVars, resultVars
<1>1. SectionTypes' /\ FileTypes' /\ FaultTypes' /\ ResultTypes' /\ Deque' /\ Midway'
  BY Kept
<1>2. MainTypes'
  BY DEF MainTypes, Awaits
<1>3. WalkTypes'
  BY DEF WalkTypes
<1>4. FlagTypes'
  BY DEF FlagTypes
<1>5. Flags'
  BY DEF Flags, Interrupted, Opening, Ended
<1>6. HeldShape'
  BY DEF HeldShape, Ended
<1>7. OnlyInWalk'
  BY DEF OnlyInWalk
<1>8. Pipeline'
  BY QuietTasks DEF Pipeline
<1>9. Accounted'
  BY DEF Accounted, Interrupted, Flags
<1>10. Outcome'
  BY DEF Outcome, Ended
<1>11. Complete'
  BY DEF Complete, Before, After, Reported
<1>12. ForceLeads'
  BY DEF ForceLeads
<1> QED BY <1>1, <1>2, <1>3, <1>4, <1>5, <1>6, <1>7, <1>8, <1>9, <1>10, <1>11, <1>12

LEMMA LeaveCancelledStep ==
  ASSUME IInv, LeaveCancelled
  PROVE  IInv'
<1> USE DEF IInv, LeaveCancelled, CancelledAt, flagVars
<1>1. MainTypes' /\ SectionTypes' /\ FileTypes' /\ FaultTypes' /\ ResultTypes' /\ Deque' /\ HeldShape' /\ OnlyInWalk' /\ Midway' /\ Outcome' /\ Complete'
  BY Kept DEF sectionVars, resultVars
<1>2. WalkTypes'
  BY DEF WalkTypes
<1>3. FlagTypes'
  BY DEF FlagTypes
<1>4. Flags'
  BY DEF Flags, Interrupted
<1>5. Pipeline'
  BY QuietTasks DEF Pipeline
<1>6. Accounted'
  BY DEF Accounted, Interrupted, Flags
<1>7. ForceLeads'
  BY DEF ForceLeads
<1> QED BY <1>1, <1>2, <1>3, <1>4, <1>5, <1>6, <1>7

LEMMA ChatLeftStep ==
  ASSUME IInv, ChatLeft
  PROVE  IInv'
<1>1. WalkTypes' /\ SectionTypes' /\ FileTypes' /\ FaultTypes' /\ Deque' /\ Midway'
  BY Kept DEF IInv, ChatLeft, walkVars, sectionVars
<1>2. MainTypes'
  <2>1. /\ pc = "leave" /\ ~cancel /\ Running = {} /\ cause \in {"ok", "failed", "unauthorized", "disk", "cancel"}
        /\ errors' = IF Recorded(cause) THEN errors \cup {"chat"} ELSE errors
        /\ UNCHANGED <<options, held, chat, queue, task, cause, section, step, pages, file, handlers, shutdown,
                       sig, runner, signals, cancel, raised, code, faults, logged>>
    BY DEF IInv, WalkTypes, Pipeline, ChatLeft, At, WaitOver, walkVars, sectionVars,
         flagVars
  <2>2. \/ cause \in {"ok", "failed"} /\ pc' = "loop" /\ UNCHANGED <<stats, force>>
        \/ cause \in {"disk", "unauthorized"} /\ AfterLoop(FALSE) /\ UNCHANGED force
        \/ cause = "cancel" /\ force' = TRUE /\ VerifyOrReturn(TRUE)
    BY <2>1 DEF ChatLeft, ForcedOut
  <2>3. \/ cause \in {"ok", "failed"} /\ pc' = "loop" /\ UNCHANGED <<stats, force>>
        \/ /\ cause \in {"disk", "unauthorized"} /\ UNCHANGED force
           /\ \/ pc' \in {"section", "request"} /\ UNCHANGED stats
              \/ pc' = "report" /\ stats' = TRUE
        \/ cause = "cancel" /\ force' = TRUE /\ pc' = "report" /\ stats' = TRUE
    BY <2>2 DEF AfterLoop, VerifyOrReturn

  <2> QED BY <2>1, <2>3 DEF IInv, MainTypes, Awaits
<1>3. FlagTypes'
  <2>1. /\ pc = "leave" /\ ~cancel /\ Running = {} /\ cause \in {"ok", "failed", "unauthorized", "disk", "cancel"}
        /\ errors' = IF Recorded(cause) THEN errors \cup {"chat"} ELSE errors
        /\ UNCHANGED <<options, held, chat, queue, task, cause, section, step, pages, file, handlers, shutdown,
                       sig, runner, signals, cancel, raised, code, faults, logged>>
    BY DEF IInv, WalkTypes, Pipeline, ChatLeft, At, WaitOver, walkVars, sectionVars,
         flagVars
  <2>2. \/ cause \in {"ok", "failed"} /\ pc' = "loop" /\ UNCHANGED <<stats, force>>
        \/ cause \in {"disk", "unauthorized"} /\ AfterLoop(FALSE) /\ UNCHANGED force
        \/ cause = "cancel" /\ force' = TRUE /\ VerifyOrReturn(TRUE)
    BY <2>1 DEF ChatLeft, ForcedOut
  <2>3. \/ cause \in {"ok", "failed"} /\ pc' = "loop" /\ UNCHANGED <<stats, force>>
        \/ /\ cause \in {"disk", "unauthorized"} /\ UNCHANGED force
           /\ \/ pc' \in {"section", "request"} /\ UNCHANGED stats
              \/ pc' = "report" /\ stats' = TRUE
        \/ cause = "cancel" /\ force' = TRUE /\ pc' = "report" /\ stats' = TRUE
    BY <2>2 DEF AfterLoop, VerifyOrReturn

  <2> QED BY <2>1, <2>3 DEF IInv, FlagTypes
<1>4. ResultTypes'
  <2>1. /\ pc = "leave" /\ ~cancel /\ Running = {} /\ cause \in {"ok", "failed", "unauthorized", "disk", "cancel"}
        /\ errors' = IF Recorded(cause) THEN errors \cup {"chat"} ELSE errors
        /\ UNCHANGED <<options, held, chat, queue, task, cause, section, step, pages, file, handlers, shutdown,
                       sig, runner, signals, cancel, raised, code, faults, logged>>
    BY DEF IInv, WalkTypes, Pipeline, ChatLeft, At, WaitOver, walkVars, sectionVars,
         flagVars
  <2>2. \/ cause \in {"ok", "failed"} /\ pc' = "loop" /\ UNCHANGED <<stats, force>>
        \/ cause \in {"disk", "unauthorized"} /\ AfterLoop(FALSE) /\ UNCHANGED force
        \/ cause = "cancel" /\ force' = TRUE /\ VerifyOrReturn(TRUE)
    BY <2>1 DEF ChatLeft, ForcedOut
  <2>3. \/ cause \in {"ok", "failed"} /\ pc' = "loop" /\ UNCHANGED <<stats, force>>
        \/ /\ cause \in {"disk", "unauthorized"} /\ UNCHANGED force
           /\ \/ pc' \in {"section", "request"} /\ UNCHANGED stats
              \/ pc' = "report" /\ stats' = TRUE
        \/ cause = "cancel" /\ force' = TRUE /\ pc' = "report" /\ stats' = TRUE
    BY <2>2 DEF AfterLoop, VerifyOrReturn

  <2> QED BY <2>1, <2>3 DEF IInv, ResultTypes
<1>5. Flags'
  <2>1. /\ pc = "leave" /\ ~cancel /\ Running = {} /\ cause \in {"ok", "failed", "unauthorized", "disk", "cancel"}
        /\ errors' = IF Recorded(cause) THEN errors \cup {"chat"} ELSE errors
        /\ UNCHANGED <<options, held, chat, queue, task, cause, section, step, pages, file, handlers, shutdown,
                       sig, runner, signals, cancel, raised, code, faults, logged>>
    BY DEF IInv, WalkTypes, Pipeline, ChatLeft, At, WaitOver, walkVars, sectionVars,
         flagVars
  <2>2. \/ cause \in {"ok", "failed"} /\ pc' = "loop" /\ UNCHANGED <<stats, force>>
        \/ cause \in {"disk", "unauthorized"} /\ AfterLoop(FALSE) /\ UNCHANGED force
        \/ cause = "cancel" /\ force' = TRUE /\ VerifyOrReturn(TRUE)
    BY <2>1 DEF ChatLeft, ForcedOut
  <2>3. \/ cause \in {"ok", "failed"} /\ pc' = "loop" /\ UNCHANGED <<stats, force>>
        \/ /\ cause \in {"disk", "unauthorized"} /\ UNCHANGED force
           /\ \/ pc' \in {"section", "request"} /\ UNCHANGED stats
              \/ pc' = "report" /\ stats' = TRUE
        \/ cause = "cancel" /\ force' = TRUE /\ pc' = "report" /\ stats' = TRUE
    BY <2>2 DEF AfterLoop, VerifyOrReturn

  <2> QED BY <2>1, <2>3 DEF IInv, Flags, Interrupted, Opening, Ended
<1>6. HeldShape'
  <2>1. /\ pc = "leave" /\ ~cancel /\ Running = {} /\ cause \in {"ok", "failed", "unauthorized", "disk", "cancel"}
        /\ errors' = IF Recorded(cause) THEN errors \cup {"chat"} ELSE errors
        /\ UNCHANGED <<options, held, chat, queue, task, cause, section, step, pages, file, handlers, shutdown,
                       sig, runner, signals, cancel, raised, code, faults, logged>>
    BY DEF IInv, WalkTypes, Pipeline, ChatLeft, At, WaitOver, walkVars, sectionVars,
         flagVars
  <2>2. \/ cause \in {"ok", "failed"} /\ pc' = "loop" /\ UNCHANGED <<stats, force>>
        \/ cause \in {"disk", "unauthorized"} /\ AfterLoop(FALSE) /\ UNCHANGED force
        \/ cause = "cancel" /\ force' = TRUE /\ VerifyOrReturn(TRUE)
    BY <2>1 DEF ChatLeft, ForcedOut
  <2>3. \/ cause \in {"ok", "failed"} /\ pc' = "loop" /\ UNCHANGED <<stats, force>>
        \/ /\ cause \in {"disk", "unauthorized"} /\ UNCHANGED force
           /\ \/ pc' \in {"section", "request"} /\ UNCHANGED stats
              \/ pc' = "report" /\ stats' = TRUE
        \/ cause = "cancel" /\ force' = TRUE /\ pc' = "report" /\ stats' = TRUE
    BY <2>2 DEF AfterLoop, VerifyOrReturn

  <2> QED BY <2>1, <2>3 DEF IInv, HeldShape, Ended
<1>7. OnlyInWalk'
  BY QuietTasks DEF ChatLeft, WaitOver, walkVars, OnlyInWalk
<1>8. Pipeline'
  <2>1. /\ pc = "leave" /\ ~cancel /\ Running = {} /\ cause \in {"ok", "failed", "unauthorized", "disk", "cancel"}
        /\ errors' = IF Recorded(cause) THEN errors \cup {"chat"} ELSE errors
        /\ UNCHANGED <<options, held, chat, queue, task, cause, section, step, pages, file, handlers, shutdown,
                       sig, runner, signals, cancel, raised, code, faults, logged>>
    BY DEF IInv, WalkTypes, Pipeline, ChatLeft, At, WaitOver, walkVars, sectionVars,
         flagVars
  <2>2. \/ cause \in {"ok", "failed"} /\ pc' = "loop" /\ UNCHANGED <<stats, force>>
        \/ cause \in {"disk", "unauthorized"} /\ AfterLoop(FALSE) /\ UNCHANGED force
        \/ cause = "cancel" /\ force' = TRUE /\ VerifyOrReturn(TRUE)
    BY <2>1 DEF ChatLeft, ForcedOut
  <2>3. \/ cause \in {"ok", "failed"} /\ pc' = "loop" /\ UNCHANGED <<stats, force>>
        \/ /\ cause \in {"disk", "unauthorized"} /\ UNCHANGED force
           /\ \/ pc' \in {"section", "request"} /\ UNCHANGED stats
              \/ pc' = "report" /\ stats' = TRUE
        \/ cause = "cancel" /\ force' = TRUE /\ pc' = "report" /\ stats' = TRUE
    BY <2>2 DEF AfterLoop, VerifyOrReturn

  <2> QED BY <2>1, <2>3, QuietTasks DEF IInv, Pipeline, Walking
<1>9. Accounted'
  BY DEF IInv, ChatLeft, At, Recorded, flagVars, Accounted, Interrupted,
     Walking
<1>10. Outcome'
  <2>1. /\ pc = "leave" /\ ~cancel /\ Running = {} /\ cause \in {"ok", "failed", "unauthorized", "disk", "cancel"}
        /\ errors' = IF Recorded(cause) THEN errors \cup {"chat"} ELSE errors
        /\ UNCHANGED <<options, held, chat, queue, task, cause, section, step, pages, file, handlers, shutdown,
                       sig, runner, signals, cancel, raised, code, faults, logged>>
    BY DEF IInv, WalkTypes, Pipeline, ChatLeft, At, WaitOver, walkVars, sectionVars,
         flagVars
  <2>2. \/ cause \in {"ok", "failed"} /\ pc' = "loop" /\ UNCHANGED <<stats, force>>
        \/ cause \in {"disk", "unauthorized"} /\ AfterLoop(FALSE) /\ UNCHANGED force
        \/ cause = "cancel" /\ force' = TRUE /\ VerifyOrReturn(TRUE)
    BY <2>1 DEF ChatLeft, ForcedOut
  <2>3. \/ cause \in {"ok", "failed"} /\ pc' = "loop" /\ UNCHANGED <<stats, force>>
        \/ /\ cause \in {"disk", "unauthorized"} /\ UNCHANGED force
           /\ \/ pc' \in {"section", "request"} /\ UNCHANGED stats
              \/ pc' = "report" /\ stats' = TRUE
        \/ cause = "cancel" /\ force' = TRUE /\ pc' = "report" /\ stats' = TRUE
    BY <2>2 DEF AfterLoop, VerifyOrReturn

  <2> QED BY <2>1, <2>3 DEF IInv, Outcome, Ended
<1>11. Complete'
  <2>1. /\ pc = "leave" /\ ~cancel /\ Running = {} /\ cause \in {"ok", "failed", "unauthorized", "disk", "cancel"}
        /\ errors' = IF Recorded(cause) THEN errors \cup {"chat"} ELSE errors
        /\ UNCHANGED <<options, held, chat, queue, task, cause, section, step, pages, file, handlers, shutdown,
                       sig, runner, signals, cancel, raised, code, faults, logged>>
    BY DEF IInv, WalkTypes, Pipeline, ChatLeft, At, WaitOver, walkVars, sectionVars,
         flagVars
  <2>2. \/ cause \in {"ok", "failed"} /\ pc' = "loop" /\ UNCHANGED <<stats, force>>
        \/ cause \in {"disk", "unauthorized"} /\ AfterLoop(FALSE) /\ UNCHANGED force
        \/ cause = "cancel" /\ force' = TRUE /\ VerifyOrReturn(TRUE)
    BY <2>1 DEF ChatLeft, ForcedOut
  <2>3. \/ cause \in {"ok", "failed"} /\ pc' = "loop" /\ UNCHANGED <<stats, force>>
        \/ /\ cause \in {"disk", "unauthorized"} /\ UNCHANGED force
           /\ \/ pc' \in {"section", "request"} /\ UNCHANGED stats
              \/ pc' = "report" /\ stats' = TRUE
        \/ cause = "cancel" /\ force' = TRUE /\ pc' = "report" /\ stats' = TRUE
    BY <2>2 DEF AfterLoop, VerifyOrReturn
  <2>4. Clean' => cause = "ok"
    BY <2>1 DEF IInv, Flags, Clean, Interrupted, Recorded, flagVars
  <2> QED BY <2>1, <2>3, <2>4 DEF IInv, Complete, Before, After, Reported, Opening, Walking
<1>12. ForceLeads'
  <2>1. /\ pc = "leave" /\ ~cancel /\ Running = {} /\ cause \in {"ok", "failed", "unauthorized", "disk", "cancel"}
        /\ errors' = IF Recorded(cause) THEN errors \cup {"chat"} ELSE errors
        /\ UNCHANGED <<options, held, chat, queue, task, cause, section, step, pages, file, handlers, shutdown,
                       sig, runner, signals, cancel, raised, code, faults, logged>>
    BY DEF IInv, WalkTypes, Pipeline, ChatLeft, At, WaitOver, walkVars, sectionVars,
         flagVars
  <2>2. \/ cause \in {"ok", "failed"} /\ pc' = "loop" /\ UNCHANGED <<stats, force>>
        \/ cause \in {"disk", "unauthorized"} /\ AfterLoop(FALSE) /\ UNCHANGED force
        \/ cause = "cancel" /\ force' = TRUE /\ VerifyOrReturn(TRUE)
    BY <2>1 DEF ChatLeft, ForcedOut
  <2>3. \/ cause \in {"ok", "failed"} /\ pc' = "loop" /\ UNCHANGED <<stats, force>>
        \/ /\ cause \in {"disk", "unauthorized"} /\ UNCHANGED force
           /\ \/ pc' \in {"section", "request"} /\ UNCHANGED stats
              \/ pc' = "report" /\ stats' = TRUE
        \/ cause = "cancel" /\ force' = TRUE /\ pc' = "report" /\ stats' = TRUE
    BY <2>2 DEF AfterLoop, VerifyOrReturn

  <2> QED BY <2>1, <2>3 DEF IInv, ForceLeads, Awaits
<1> QED BY <1>1, <1>2, <1>3, <1>4, <1>5, <1>6, <1>7, <1>8, <1>9, <1>10, <1>11, <1>12 DEF
     IInv

LEMMA SectionStep ==
  ASSUME IInv, Section
  PROVE  IInv'
<1>1. MainTypes' /\ WalkTypes' /\ FileTypes' /\ FlagTypes' /\ Deque' /\ Flags' /\ HeldShape' /\ OnlyInWalk' /\ Pipeline' /\ ForceLeads'
  BY Kept DEF IInv, Section, walkVars, flagVars
<1>2. SectionTypes'
  <2>1. PICK i \in DOMAIN Table : Due(i) /\ (FetchSection(i) \/ DownloadBatch \/ RenderSection(i) \/ RenderAndRaise(i))
    BY DEF Section
  <2>2. i \in 0..Len(Table) /\ Table[i] \in Sections
    <3>1. i \in 1..6 /\ Len(Table) = 6
      BY <2>1, TheTable
    <3> QED BY <2>1, <3>1 DEF Due
  <2>3. section' \in {section, i} /\ step' \in {"fetch", "files", "page", "last page"}
    BY <2>1 DEF FetchSection, DownloadBatch, RenderSection, RenderAndRaise, SectionOver,
         SectionRaises, IInv, SectionTypes
  <2>4. pages' \in {pages, pages \cup {Table[i]}}
    BY <2>1 DEF FetchSection, DownloadBatch, RenderSection, RenderAndRaise
  <2> QED BY <2>2, <2>3, <2>4 DEF IInv, SectionTypes
<1>3. FaultTypes'
  BY FaultsCounted DEF IInv, Section, FetchSection, DownloadBatch,
     RenderSection, RenderAndRaise
<1>4. ResultTypes'
  BY DEF IInv, Section, FetchSection, DownloadBatch, RenderSection,
     RenderAndRaise, SectionRaises, ResultTypes
<1>5. Midway'
  BY DEF Section, Due, FetchSection, DownloadBatch, RenderSection,
     RenderAndRaise, SectionRaises, SectionOver, Midway
<1>6. Accounted'
  <2>1. \/ Fine \/ Logged
        \/ errors' # {}
        \/ step' = "last page"
    BY DEF Section, FetchSection, DownloadBatch, RenderSection, RenderAndRaise, SectionRaises
  <2>2. /\ pc = "section" /\ pc' = pc /\ errors \subseteq errors'
        /\ UNCHANGED <<raised, sig, runner>>
        /\ step = "last page" => errors' # {}
    BY DEF Section, At, FetchSection, DownloadBatch, RenderSection, RenderAndRaise,
         SectionRaises, flagVars
  <2> QED BY <2>1, <2>2, OthersCounted DEF IInv, Accounted, Interrupted, Walking
<1>7. Outcome'
  BY DEF IInv, Section, At, Outcome
<1>8. Complete'
  <2>1. PICK i \in DOMAIN Table : Due(i) /\ (FetchSection(i) \/ DownloadBatch \/ RenderSection(i) \/ RenderAndRaise(i))
    BY DEF Section
  <2>2. /\ pc = "section" /\ pc' = pc /\ pages \subseteq pages'
        /\ UNCHANGED <<options, chat, file, sig, runner, raised>> /\ errors \subseteq errors'
    BY <2>1 DEF Section, At, FetchSection, DownloadBatch, RenderSection, RenderAndRaise,
         SectionOver, SectionRaises, flagVars
  <2>3. section' = section \/ errors' # {} \/ (section' = i /\ Table[i] \in pages')
    <3>1. CASE FetchSection(i)
      BY <3>1 DEF FetchSection, SectionOver, SectionRaises
    <3>2. CASE DownloadBatch
      BY <3>2 DEF DownloadBatch
    <3>3. CASE RenderSection(i)
      BY <3>3 DEF RenderSection, SectionOver, SectionRaises
    <3>4. CASE RenderAndRaise(i)
      BY <3>4 DEF RenderAndRaise, SectionRaises
    <3> QED BY <2>1, <3>1, <3>2, <3>3, <3>4
  <2>4. i \in 1..6 /\ section \in 0..6
    BY <2>1, TheTable DEF IInv, SectionTypes
  <2>5. \A j \in 1..6 : section < j /\ j < i => Table[j] \notin Sections
    BY <2>1, <2>4 DEF Due
  <2>6. Clean' => Clean
    BY <2>2 DEF Clean, Interrupted
  <2>7. Clean' => \A j \in 1..6 : j <= section' /\ Table[j] \in Sections => Table[j] \in pages'
    <3> SUFFICES ASSUME Clean', NEW j \in 1..6, j <= section', Table[j] \in Sections
                 PROVE  Table[j] \in pages'
      OBVIOUS
    <3>1. CASE j <= section
      BY <2>2, <2>6, <3>1 DEF IInv, Complete
    <3>2. CASE section < j
      <4>1. section' = i /\ Table[i] \in pages'
        BY <2>3, <2>4, <3>2 DEF Clean
      <4>2. j = i
        BY <2>4, <2>5, <3>2, <4>1
      <4> QED BY <4>1, <4>2
    <3> QED BY <2>4, <3>1, <3>2
  <2> QED BY <2>2, <2>6, <2>7 DEF IInv, Complete, Before, After, Reported, Opening, Walking
<1> QED BY <1>1, <1>2, <1>3, <1>4, <1>5, <1>6, <1>7, <1>8 DEF IInv

LEMMA SectionsOverStep ==
  ASSUME IInv, SectionsOver
  PROVE  IInv'
<1>1. WalkTypes' /\ SectionTypes' /\ FileTypes' /\ FlagTypes' /\ FaultTypes' /\ Deque' /\ Midway'
  BY Kept DEF IInv, SectionsOver, walkVars, sectionVars, flagVars
<1>2. MainTypes'
  BY DEF IInv, SectionsOver, VerifyOrReturn, MainTypes, Awaits
<1>3. ResultTypes'
  BY DEF IInv, SectionsOver, VerifyOrReturn, ResultTypes
<1>4. Flags'
  BY DEF IInv, SectionsOver, At, walkVars, flagVars, Flags, Interrupted,
     Opening, Ended
<1>5. HeldShape'
  BY DEF IInv, SectionsOver, At, VerifyOrReturn, HeldShape, Ended
<1>6. OnlyInWalk'
  BY QuietTasks DEF IInv, SectionsOver, At, walkVars, OnlyInWalk, Walking
<1>7. Pipeline'
  BY QuietTasks DEF IInv, SectionsOver, VerifyOrReturn, walkVars, Pipeline,
     Walking
<1>8. Accounted'
  <2>1. step = "fetch"
    BY DEF IInv, Midway, SectionsOver
  <2> QED BY <2>1 DEF IInv, Accounted, SectionsOver, At, Interrupted, sectionVars, flagVars,
       walkVars, VerifyOrReturn, Walking
<1>9. Outcome'
  BY DEF IInv, SectionsOver, At, VerifyOrReturn, Outcome, Ended
<1>10. Complete'
  <2>1. /\ pc = "section" /\ pc' \in {"request", "report"} /\ (pc' = "report" => ~options.verify)
        /\ UNCHANGED <<options, chat, section, pages, file, sig, runner, errors, raised>>
    BY DEF SectionsOver, At, VerifyOrReturn, sectionVars, flagVars
  <2>2. Clean' = Clean
    BY <2>1 DEF Clean, Interrupted
  <2>3. Clean => pages = Sections
    <3> SUFFICES ASSUME Clean PROVE pages = Sections
      OBVIOUS
    <3>1. \A i \in 1..6 : Table[i] \in Sections => Table[i] \in pages
      BY <2>1, AllPassed DEF IInv, Complete, SectionsOver
    <3>2. \A s \in Sections : \E i \in 1..6 : s = Table[i]
      <4> SUFFICES ASSUME NEW s \in Sections PROVE \E i \in 1..6 : s = Table[i]
        OBVIOUS
      <4>1. \/ s = Table[1] \/ s = Table[2] \/ s = Table[3]
            \/ s = Table[4] \/ s = Table[5] \/ s = Table[6]
        BY SectionsAreKnown, TheTable
      <4> QED BY <4>1
    <3> QED BY <3>1, <3>2 DEF IInv, SectionTypes
  <2> QED BY <2>1, <2>2, <2>3 DEF IInv, Complete, Before, After, Reported, Opening, Walking
<1>11. ForceLeads'
  BY DEF IInv, SectionsOver, At, ForceLeads
<1> QED BY <1>1, <1>2, <1>3, <1>4, <1>5, <1>6, <1>7, <1>8, <1>9, <1>10, <1>11 DEF IInv

LEMMA RaisedOutOfRunStep ==
  ASSUME IInv, RaisedOutOfRun
  PROVE  IInv'
<1> USE DEF IInv, RaisedOutOfRun, CancelledAt, Raise, walkVars, flagVars
<1>1. WalkTypes' /\ SectionTypes' /\ FileTypes' /\ FaultTypes' /\ Deque' /\ Midway'
  BY Kept DEF sectionVars
<1>2. MainTypes'
  BY DEF MainTypes, Awaits
<1>3. FlagTypes'
  BY DEF FlagTypes
<1>4. ResultTypes'
  BY DEF ResultTypes
<1>5. Flags'
  BY DEF Flags, Interrupted
<1>6. HeldShape'
  BY DEF HeldShape
<1>7. OnlyInWalk'
  BY QuietTasks DEF OnlyInWalk, Walking
<1>8. Pipeline'
  BY QuietTasks DEF Pipeline, Walking
<1>9. Accounted'
  BY DEF Accounted, Interrupted, Flags
<1>10. Outcome'
  BY DEF Outcome
<1>11. Complete'
  BY DEF Complete, Before, Clean, Opening, Walking
<1>12. ForceLeads'
  BY DEF ForceLeads
<1> QED BY <1>1, <1>2, <1>3, <1>4, <1>5, <1>6, <1>7, <1>8, <1>9, <1>10, <1>11, <1>12

LEMMA RequestStep ==
  ASSUME IInv, Request
  PROVE  IInv'
<1> USE DEF IInv, Request, At, walkVars, sectionVars, flagVars, resultVars
<1>1. MainTypes' /\ WalkTypes' /\ SectionTypes' /\ FlagTypes' /\ ResultTypes' /\ Deque' /\ Flags' /\ HeldShape' /\ OnlyInWalk' /\ Pipeline' /\ Midway' /\ Outcome' /\ ForceLeads'
  BY Kept
<1>2. FileTypes'
  BY DEF FileTypes
<1>3. FaultTypes'
  BY FaultsCounted
<1>4. Accounted'
  BY DEF Fine, Accounted, Interrupted, FileTypes
<1>5. Complete'
  BY DEF Complete, Clean, Interrupted, FileTypes
<1> QED BY <1>1, <1>2, <1>3, <1>4, <1>5

LEMMA AllAskedStep ==
  ASSUME IInv, AllAsked
  PROVE  IInv'
<1> USE DEF IInv, AllAsked, At, walkVars, sectionVars, flagVars, resultVars
<1>1. WalkTypes' /\ SectionTypes' /\ FileTypes' /\ FlagTypes' /\ FaultTypes' /\ ResultTypes' /\ Deque' /\ Midway'
  BY Kept
<1>2. MainTypes'
  BY DEF MainTypes, Awaits
<1>3. Flags'
  BY DEF Flags, Interrupted, Opening, Ended
<1>4. HeldShape'
  BY DEF HeldShape, Ended
<1>5. OnlyInWalk'
  BY QuietTasks DEF OnlyInWalk, Walking
<1>6. Pipeline'
  BY QuietTasks DEF Pipeline, Walking
<1>7. Accounted'
  BY DEF Accounted, Interrupted, Walking
<1>8. Outcome'
  BY DEF Outcome, Ended
<1>9. Complete'
  BY DEF Complete, Before, Clean, After, Reported, Opening, Walking,
     Interrupted, Flags
<1>10. ForceLeads'
  BY DEF ForceLeads
<1> QED BY <1>1, <1>2, <1>3, <1>4, <1>5, <1>6, <1>7, <1>8, <1>9, <1>10

LEMMA RequestFailsStep ==
  ASSUME IInv, RequestFails
  PROVE  IInv'
<1> USE DEF IInv, RequestFails, At, sectionVars, flagVars, resultVars
<1>1. SectionTypes' /\ FileTypes' /\ FlagTypes' /\ ResultTypes' /\ Deque' /\ Midway'
  BY Kept
<1>2. MainTypes'
  BY DEF MainTypes, Awaits
<1>3. WalkTypes'
  BY DEF WalkTypes
<1>4. FaultTypes'
  BY FaultsCounted
<1>5. Flags'
  BY DEF Flags, Interrupted, Opening, Ended
<1>6. HeldShape'
  BY DEF HeldShape, Ended
<1>7. OnlyInWalk'
  BY QuietTasks DEF OnlyInWalk, Walking
<1>8. Pipeline'
  BY QuietTasks DEF Pipeline, Walking
<1>9. Accounted'
  BY DEF Accounted
<1>10. Outcome'
  BY DEF Outcome, Ended
<1>11. Complete'
  BY DEF Complete, Before, Clean, After, Reported, Opening, Walking,
     Interrupted
<1>12. ForceLeads'
  BY DEF ForceLeads
<1> QED BY <1>1, <1>2, <1>3, <1>4, <1>5, <1>6, <1>7, <1>8, <1>9, <1>10, <1>11, <1>12

LEMMA PassCancelledStep ==
  ASSUME IInv, PassCancelled
  PROVE  IInv'
<1> USE DEF IInv, PassCancelled, CancelledAt, sectionVars, flagVars,
       resultVars
<1>1. SectionTypes' /\ FileTypes' /\ FaultTypes' /\ ResultTypes' /\ Deque' /\ Midway'
  BY Kept
<1>2. MainTypes'
  BY DEF MainTypes, Awaits
<1>3. WalkTypes'
  BY DEF WalkTypes
<1>4. FlagTypes'
  BY DEF FlagTypes
<1>5. Flags'
  BY DEF Flags, Interrupted, Opening, Ended
<1>6. HeldShape'
  BY DEF HeldShape, Ended
<1>7. OnlyInWalk'
  BY QuietTasks DEF OnlyInWalk, Walking
<1>8. Pipeline'
  BY QuietTasks DEF Pipeline, Walking
<1>9. Accounted'
  BY DEF Accounted, Interrupted, Flags
<1>10. Outcome'
  BY DEF Outcome, Ended
<1>11. Complete'
  BY DEF Complete, Before, Clean, After, Reported, Opening, Walking,
     Interrupted
<1>12. ForceLeads'
  BY DEF ForceLeads
<1> QED BY <1>1, <1>2, <1>3, <1>4, <1>5, <1>6, <1>7, <1>8, <1>9, <1>10, <1>11, <1>12

LEMMA SettledStep ==
  ASSUME IInv, Settled
  PROVE  IInv'
<1> USE DEF IInv, Settled, At, Raise, walkVars, flagVars
<1>1. WalkTypes' /\ SectionTypes' /\ FileTypes' /\ FlagTypes' /\ FaultTypes' /\ Deque' /\ Midway'
  BY Kept DEF sectionVars
<1>2. MainTypes'
  BY DEF MainTypes, Awaits
<1>3. ResultTypes'
  BY DEF ResultTypes
<1>4. Flags'
  BY DEF Flags, Interrupted, Opening, Ended
<1>5. HeldShape'
  BY DEF HeldShape, Ended
<1>6. OnlyInWalk'
  BY QuietTasks DEF OnlyInWalk, Walking
<1>7. Pipeline'
  BY QuietTasks DEF Pipeline, Walking
<1>8. Accounted'
  BY DEF Accounted, Interrupted, Walking, Outcome, Ended
<1>9. Outcome'
  BY DEF Outcome, Ended
<1>10. Complete'
  BY DEF Mending, Alive, Complete, Before, Clean, Opening, Walking
<1>11. ForceLeads'
  BY DEF ForceLeads
<1> QED BY <1>1, <1>2, <1>3, <1>4, <1>5, <1>6, <1>7, <1>8, <1>9, <1>10, <1>11

LEMMA GatheredStep ==
  ASSUME IInv, Gathered
  PROVE  IInv'
<1> USE DEF IInv, Gathered, At, walkVars, sectionVars, flagVars
<1>1. WalkTypes' /\ SectionTypes' /\ FileTypes' /\ FlagTypes' /\ FaultTypes' /\ Deque' /\ Midway'
  BY Kept
<1>2. MainTypes'
  BY DEF MainTypes
<1>3. ResultTypes'
  BY DEF ResultTypes
<1>4. Flags'
  BY DEF Flags, Interrupted, Opening, Ended
<1>5. HeldShape'
  BY DEF HeldShape, Ended
<1>6. OnlyInWalk'
  BY QuietTasks DEF OnlyInWalk, Walking
<1>7. Pipeline'
  BY QuietTasks DEF Pipeline, Walking
<1>8. Accounted'
  BY DEF Accounted, Interrupted, Walking
<1>9. Outcome'
  BY DEF Outcome, Ended
<1>10. Complete'
  BY DEF Mending, Alive, Complete, Before, Clean, After, Opening, Walking,
     Interrupted, FileTypes
<1>11. ForceLeads'
  BY DEF ForceLeads
<1> QED BY <1>1, <1>2, <1>3, <1>4, <1>5, <1>6, <1>7, <1>8, <1>9, <1>10, <1>11

LEMMA GatherCancelledStep ==
  ASSUME IInv, GatherCancelled
  PROVE  IInv'
<1> USE DEF IInv, GatherCancelled, CancelledAt, Raise, walkVars, flagVars
<1>1. WalkTypes' /\ SectionTypes' /\ FaultTypes' /\ Deque' /\ Midway'
  BY Kept DEF sectionVars
<1>2. MainTypes'
  BY DEF MainTypes, Awaits
<1>3. FileTypes'
  BY DEF FileTypes
<1>4. FlagTypes'
  BY DEF FlagTypes
<1>5. ResultTypes'
  BY DEF ResultTypes
<1>6. Flags'
  BY DEF Flags, Interrupted
<1>7. HeldShape'
  BY DEF HeldShape
<1>8. OnlyInWalk'
  BY QuietTasks DEF OnlyInWalk, Walking
<1>9. Pipeline'
  BY QuietTasks DEF Pipeline, Walking
<1>10. Accounted'
  BY DEF Accounted, Interrupted, Flags
<1>11. Outcome'
  BY DEF Outcome
<1>12. Complete'
  BY DEF Mending, Alive, Complete, Before, Clean, Opening, Walking,
     FileTypes
<1>13. ForceLeads'
  BY DEF ForceLeads
<1> QED BY <1>1, <1>2, <1>3, <1>4, <1>5, <1>6, <1>7, <1>8, <1>9, <1>10, <1>11, <1>12, <1>13

LEMMA ReportStep ==
  ASSUME IInv, Report
  PROVE  IInv'
<1> USE DEF IInv, Report, walkVars, sectionVars, flagVars, resultVars
<1>1. WalkTypes' /\ SectionTypes' /\ FileTypes' /\ FlagTypes' /\ FaultTypes' /\ ResultTypes' /\ Deque' /\ Midway'
  BY Kept
<1>2. MainTypes'
  BY DEF MainTypes, Awaits
<1>3. Flags'
  BY DEF Flags, Interrupted, Opening, Ended
<1>4. HeldShape'
  BY DEF HeldShape, Ended
<1>5. OnlyInWalk'
  BY QuietTasks DEF OnlyInWalk, Walking
<1>6. Pipeline'
  BY QuietTasks DEF Pipeline, Walking
<1>7. Accounted'
  BY DEF Accounted, Interrupted, Walking
<1>8. Outcome'
  BY DEF Outcome, Ended
<1>9. Complete'
  BY DEF Complete, Before, Clean, After, Reported, Opening, Walking,
     Interrupted
<1>10. ForceLeads'
  BY DEF ForceLeads
<1> QED BY <1>1, <1>2, <1>3, <1>4, <1>5, <1>6, <1>7, <1>8, <1>9, <1>10

LEMMA RenderIndexStep ==
  ASSUME IInv, RenderIndex
  PROVE  IInv'
<1> USE DEF IInv, RenderIndex, At, Raise, walkVars, sectionVars, flagVars
<1>1. WalkTypes' /\ SectionTypes' /\ FileTypes' /\ FlagTypes' /\ Deque' /\ Midway'
  BY Kept
<1>2. MainTypes'
  BY DEF MainTypes, Awaits
<1>3. FaultTypes'
  BY FaultsCounted
<1>4. ResultTypes'
  BY DEF ResultTypes
<1>5. Flags'
  BY DEF Flags, Interrupted, Opening, Ended
<1>6. HeldShape'
  BY DEF HeldShape, Ended
<1>7. OnlyInWalk'
  BY QuietTasks DEF OnlyInWalk, Walking
<1>8. Pipeline'
  BY QuietTasks DEF Pipeline, Walking
<1>9. Accounted'
  BY DEF Fine, Accounted, Interrupted, Walking
<1>10. Outcome'
  BY DEF Outcome, Ended
<1>11. Complete'
  BY DEF Complete, Before, Clean, After, Reported, Opening, Walking,
     Interrupted
<1>12. ForceLeads'
  BY DEF ForceLeads
<1> QED BY <1>1, <1>2, <1>3, <1>4, <1>5, <1>6, <1>7, <1>8, <1>9, <1>10, <1>11, <1>12

LEMMA PrintSummaryStep ==
  ASSUME IInv, PrintSummary
  PROVE  IInv'
<1> USE DEF IInv, PrintSummary, At, Raise, walkVars, sectionVars, flagVars
<1>1. WalkTypes' /\ SectionTypes' /\ FileTypes' /\ FlagTypes' /\ Deque' /\ Midway'
  BY Kept
<1>2. MainTypes'
  BY DEF MainTypes, Awaits
<1>3. FaultTypes'
  BY FaultsCounted
<1>4. ResultTypes'
  BY DEF ResultTypes
<1>5. Flags'
  BY DEF Flags, Interrupted
<1>6. HeldShape'
  BY DEF HeldShape
<1>7. OnlyInWalk'
  BY QuietTasks DEF OnlyInWalk, Walking
<1>8. Pipeline'
  BY QuietTasks DEF Pipeline, Walking
<1>9. Accounted'
  BY DEF Fine, Accounted, Interrupted, Walking
<1>10. Outcome'
  BY DEF Outcome
<1>11. Complete'
  BY DEF Complete, Before, Clean, After, Reported, Opening, Walking,
     Interrupted
<1>12. ForceLeads'
  BY DEF ForceLeads
<1> QED BY <1>1, <1>2, <1>3, <1>4, <1>5, <1>6, <1>7, <1>8, <1>9, <1>10, <1>11, <1>12

LEMMA ReleaseStep ==
  ASSUME IInv, Release
  PROVE  IInv'
<1>1. WalkTypes' /\ SectionTypes' /\ FileTypes' /\ FlagTypes' /\ Deque' /\ Flags' /\ OnlyInWalk' /\ Pipeline' /\ Midway' /\ ForceLeads'
  BY Kept DEF IInv, Release, walkVars, sectionVars, flagVars
<1>2. MainTypes'
  BY DEF IInv, Release, ReleaseLast, MainTypes
<1>3. FaultTypes'
  BY FaultsCounted DEF IInv, Release
<1>4. ResultTypes'
  BY DEF IInv, Release, Unreleased, ResultTypes
<1>5. HeldShape'
  BY DEF Release, At, HeldShape
<1>6. Accounted'
  <2>1. pc = "close" /\ UNCHANGED <<pc, raised, sig, runner>> /\ ((Fine /\ UNCHANGED errors) \/ errors' = Unreleased)
    BY DEF Release, At, flagVars
  <2>2. stats \/ raised # "none"
    BY <2>1 DEF IInv, Outcome
  <2> QED BY <2>1, <2>2 DEF IInv, Accounted, Flags, ResultTypes, Unreleased, Fine,
       Interrupted, Walking
<1>7. Outcome'
  BY DEF IInv, Release, At, Outcome
<1>8. Complete'
  BY DEF IInv, Release, Unreleased, sectionVars, flagVars, Complete, Clean,
     Interrupted
<1> QED BY <1>1, <1>2, <1>3, <1>4, <1>5, <1>6, <1>7, <1>8 DEF IInv

LEMMA ReleaseCancelledStep ==
  ASSUME IInv, ReleaseCancelled
  PROVE  IInv'
<1> USE DEF IInv, ReleaseCancelled, CancelledAt, Unreleased, walkVars,
       sectionVars, flagVars
<1>1. WalkTypes' /\ SectionTypes' /\ FileTypes' /\ FaultTypes' /\ Deque' /\ OnlyInWalk' /\ Pipeline' /\ Midway'
  BY Kept
<1>2. MainTypes'
  BY DEF ReleaseLast, MainTypes
<1>3. FlagTypes'
  BY DEF FlagTypes
<1>4. ResultTypes'
  BY DEF ResultTypes
<1>5. Flags'
  BY DEF Flags, Interrupted
<1>6. HeldShape'
  BY DEF HeldShape
<1>7. Accounted'
  BY DEF Accounted, Interrupted
<1>8. Outcome'
  BY DEF Outcome
<1>9. Complete'
  BY DEF Complete, Clean, Interrupted
<1>10. ForceLeads'
  BY DEF ForceLeads
<1> QED BY <1>1, <1>2, <1>3, <1>4, <1>5, <1>6, <1>7, <1>8, <1>9, <1>10

LEMMA ExitStep ==
  ASSUME IInv, Exit
  PROVE  IInv'
<1> USE DEF IInv, Exit, ExitCode, walkVars, sectionVars, flagVars
<1>1. WalkTypes' /\ SectionTypes' /\ FileTypes' /\ FlagTypes' /\ FaultTypes' /\ Deque' /\ Midway'
  BY Kept
<1>2. MainTypes'
  BY DEF MainTypes, Ended
<1>3. ResultTypes'
  BY DEF ResultTypes, FlagTypes
<1>4. Flags'
  BY DEF Flags, Interrupted, Ended
<1>5. HeldShape'
  BY DEF HeldShape, Ended
<1>6. OnlyInWalk'
  BY QuietTasks DEF OnlyInWalk, Walking
<1>7. Pipeline'
  BY QuietTasks DEF Pipeline, Walking
<1>8. Accounted'
  BY DEF Accounted, Interrupted, Walking
<1>9. Outcome'
  BY DEF Outcome, Ended
<1>10. Complete'
  BY DEF Complete, Before, Clean, After, Reported, Opening, Walking,
     Interrupted
<1>11. ForceLeads'
  BY DEF ForceLeads
<1> QED BY <1>1, <1>2, <1>3, <1>4, <1>5, <1>6, <1>7, <1>8, <1>9, <1>10, <1>11

LEMMA RunnerInterruptStep ==
  ASSUME IInv, RunnerInterrupt
  PROVE  IInv'
<1>1. MainTypes' /\ WalkTypes' /\ SectionTypes' /\ FileTypes' /\ FaultTypes' /\ ResultTypes' /\ Deque' /\ HeldShape' /\ OnlyInWalk' /\ Pipeline' /\ Midway'
  BY Kept DEF IInv, RunnerInterrupt, walkVars, sectionVars, resultVars
<1>2. FlagTypes'
  BY BoundsAreNaturals DEF IInv, RunnerInterrupt, FlagTypes
<1>3. Flags'
  BY DEF IInv, RunnerInterrupt, Flags, Interrupted, FlagTypes
<1>4. Accounted'
  <2>1. Interrupted' /\ ~Clean'
    BY DEF IInv, FlagTypes, RunnerInterrupt, Interrupted, Clean
  <2> QED BY <2>1 DEF Accounted
<1>5. Outcome'
  BY DEF IInv, RunnerInterrupt, Ended, resultVars, Outcome
<1>6. Complete'
  <2>1. Interrupted' /\ ~Clean'
    BY DEF IInv, FlagTypes, RunnerInterrupt, Interrupted, Clean
  <2> QED BY <2>1 DEF IInv, Complete, RunnerInterrupt, sectionVars
<1>7. ForceLeads'
  BY DEF IInv, RunnerInterrupt, walkVars, ForceLeads
<1> QED BY <1>1, <1>2, <1>3, <1>4, <1>5, <1>6, <1>7 DEF IInv

LEMMA TerminatedStep ==
  ASSUME IInv, Terminated
  PROVE  IInv'
<1>1. WalkTypes' /\ SectionTypes' /\ FileTypes' /\ FaultTypes' /\ Deque' /\ Midway'
  BY Kept DEF IInv, Terminated, walkVars, sectionVars
<1>2. MainTypes'
  BY DEF IInv, Terminated, Ended, MainTypes
<1>3. FlagTypes'
  BY BoundsAreNaturals DEF IInv, Terminated, FlagTypes
<1>4. ResultTypes'
  BY DEF IInv, Terminated, ResultTypes
<1>5. Flags'
  BY DEF IInv, Terminated, Ended, walkVars, Flags, Interrupted
<1>6. HeldShape'
  BY DEF Terminated, Ended, HeldShape
<1>7. OnlyInWalk'
  <2>1. pc \in Opening \cup {"prepare", "close"}
    BY DEF IInv, Flags, Terminated
  <2>2. Running = {}
    BY <2>1 DEF IInv, OnlyInWalk, Opening, Walking
  <2> QED BY <2>2, QuietTasks DEF OnlyInWalk, Terminated, walkVars
<1>8. Pipeline'
  BY QuietTasks DEF IInv, Terminated, walkVars, Pipeline, Walking
<1>9. Accounted'
  BY DEF IInv, Terminated, Accounted, Interrupted, Walking, Flags, Opening
<1>10. Outcome'
  BY DEF Terminated, Ended, Outcome
<1>11. Complete'
  BY DEF IInv, Terminated, Complete, Before, After, Reported, Opening,
     Walking, Flags
<1>12. ForceLeads'
  BY DEF IInv, Terminated, ForceLeads, Flags
<1> QED BY <1>1, <1>2, <1>3, <1>4, <1>5, <1>6, <1>7, <1>8, <1>9, <1>10, <1>11, <1>12 DEF
     IInv

LEMMA FetchedStep ==
  ASSUME IInv, NEW n \in Msgs, Fetched(n)
  PROVE  IInv'
<1>1. MainTypes' /\ SectionTypes' /\ FileTypes' /\ FlagTypes' /\ Flags' /\ HeldShape' /\ Midway' /\ ForceLeads'
  BY Kept DEF IInv, Fetched, sectionVars, flagVars
<1>2. WalkTypes'
  BY DEF IInv, Fetched, WalkTypes
<1>3. FaultTypes'
  BY FaultsCounted DEF IInv, Fetched
<1>4. ResultTypes'
  BY DEF IInv, Fetched, ResultTypes
<1>5. Deque'
  <2>1. PICK s \in {"write", "disk", "failed"} : task' = [task EXCEPT ![n] = s]
    BY DEF Fetched
  <2>2. /\ WalkTypes /\ Deque /\ Pipeline /\ task[n] \in Alive
        /\ UNCHANGED <<pc, queue, cause>>
    BY DEF IInv, Fetched, Alive
  <2>3. /\ Deque' /\ Taken' = Taken /\ Running' \subseteq Running
        /\ Cardinality(Running') \in Nat /\ Cardinality(Running') <= Cardinality(Running)
        /\ \A m \in Msgs : task'[m] # "none" <=> m <= Taken
        /\ \E i \in 1..Len(queue) : queue[i] = n
    BY <2>1, <2>2, TaskMoves
  <2> QED BY <2>3
<1>6. OnlyInWalk'
  <2>1. PICK s \in {"write", "disk", "failed"} : task' = [task EXCEPT ![n] = s]
    BY DEF Fetched
  <2>2. /\ WalkTypes /\ Deque /\ Pipeline /\ task[n] \in Alive
        /\ UNCHANGED <<pc, queue, cause>>
    BY DEF IInv, Fetched, Alive
  <2>3. /\ Deque' /\ Taken' = Taken /\ Running' \subseteq Running
        /\ Cardinality(Running') \in Nat /\ Cardinality(Running') <= Cardinality(Running)
        /\ \A m \in Msgs : task'[m] # "none" <=> m <= Taken
        /\ \E i \in 1..Len(queue) : queue[i] = n
    BY <2>1, <2>2, TaskMoves
  <2> QED BY <2>2, <2>3 DEF IInv, OnlyInWalk
<1>7. Pipeline'
  <2>1. PICK s \in {"write", "disk", "failed"} : task' = [task EXCEPT ![n] = s]
    BY DEF Fetched
  <2>2. /\ WalkTypes /\ Deque /\ Pipeline /\ task[n] \in Alive
        /\ UNCHANGED <<pc, queue, cause>>
    BY DEF IInv, Fetched, Alive
  <2>3. /\ Deque' /\ Taken' = Taken /\ Running' \subseteq Running
        /\ Cardinality(Running') \in Nat /\ Cardinality(Running') <= Cardinality(Running)
        /\ \A m \in Msgs : task'[m] # "none" <=> m <= Taken
        /\ \E i \in 1..Len(queue) : queue[i] = n
    BY <2>1, <2>2, TaskMoves
  <2>4. \A m \in Msgs : task'[m] = IF m = n THEN s ELSE task[m]
    BY <2>1, <2>2 DEF WalkTypes
  <2>5. pc' = "walk" => Cardinality(Running') < Limit
    BY <2>2, <2>3, RunningIsFinite, BoundsAreNaturals DEF Pipeline
  <2>6. pc \in Walking \/ s # "disk"
    BY <2>1, <2>2, RunningIsFinite DEF IInv, OnlyInWalk, Running, Fetched
  <2> QED BY <2>2, <2>3, <2>4, <2>5, <2>6 DEF Pipeline, Walking
<1>8. Accounted'
  <2>1. pc \in Walking
    BY DEF IInv, OnlyInWalk, Running, Alive, Fetched
  <2>2. /\ pc' = pc /\ UNCHANGED <<raised, sig, runner, cause, step>> /\ errors \subseteq errors'
        /\ Fine \/ errors' # {} \/ task'[n] = "disk"
    BY DEF IInv, WalkTypes, Fetched, flagVars, sectionVars
  <2>3. \A m \in Msgs : task[m] = "disk" => task'[m] = "disk"
    BY DEF IInv, WalkTypes, Fetched
  <2> QED BY <2>1, <2>2, <2>3 DEF IInv, Accounted, Interrupted, Walking, Fine
<1>9. Outcome'
  <2>1. pc \in Walking
    BY DEF IInv, OnlyInWalk, Running, Alive, Fetched
  <2>2. pc' = pc /\ UNCHANGED <<stats, raised>>
    BY DEF Fetched
  <2> QED BY <2>1, <2>2 DEF IInv, Outcome, Walking, Ended
<1>10. Complete'
  BY DEF IInv, Fetched, sectionVars, flagVars, Complete, Clean, Interrupted
<1> QED BY <1>1, <1>2, <1>3, <1>4, <1>5, <1>6, <1>7, <1>8, <1>9, <1>10 DEF IInv

LEMMA RegisteredStep ==
  ASSUME IInv, NEW n \in Msgs, Registered(n)
  PROVE  IInv'
<1>1. MainTypes' /\ SectionTypes' /\ FileTypes' /\ FlagTypes' /\ FaultTypes' /\ ResultTypes' /\ Flags' /\ HeldShape' /\ Midway' /\ Outcome' /\ Complete' /\ ForceLeads'
  BY Kept DEF IInv, Registered, sectionVars, flagVars, resultVars
<1>2. WalkTypes'
  BY DEF IInv, Registered, WalkTypes
<1>3. Deque'
  <2>1. PICK s \in {"done"} : task' = [task EXCEPT ![n] = s]
    BY DEF Registered
  <2>2. /\ WalkTypes /\ Deque /\ Pipeline /\ task[n] \in Alive
        /\ UNCHANGED <<pc, queue, cause>>
    BY DEF IInv, Registered, Alive
  <2>3. /\ Deque' /\ Taken' = Taken /\ Running' \subseteq Running
        /\ Cardinality(Running') \in Nat /\ Cardinality(Running') <= Cardinality(Running)
        /\ \A m \in Msgs : task'[m] # "none" <=> m <= Taken
        /\ \E i \in 1..Len(queue) : queue[i] = n
    BY <2>1, <2>2, TaskMoves
  <2> QED BY <2>3
<1>4. OnlyInWalk'
  <2>1. PICK s \in {"done"} : task' = [task EXCEPT ![n] = s]
    BY DEF Registered
  <2>2. /\ WalkTypes /\ Deque /\ Pipeline /\ task[n] \in Alive
        /\ UNCHANGED <<pc, queue, cause>>
    BY DEF IInv, Registered, Alive
  <2>3. /\ Deque' /\ Taken' = Taken /\ Running' \subseteq Running
        /\ Cardinality(Running') \in Nat /\ Cardinality(Running') <= Cardinality(Running)
        /\ \A m \in Msgs : task'[m] # "none" <=> m <= Taken
        /\ \E i \in 1..Len(queue) : queue[i] = n
    BY <2>1, <2>2, TaskMoves
  <2> QED BY <2>2, <2>3 DEF IInv, OnlyInWalk
<1>5. Pipeline'
  <2>1. PICK s \in {"done"} : task' = [task EXCEPT ![n] = s]
    BY DEF Registered
  <2>2. /\ WalkTypes /\ Deque /\ Pipeline /\ task[n] \in Alive
        /\ UNCHANGED <<pc, queue, cause>>
    BY DEF IInv, Registered, Alive
  <2>3. /\ Deque' /\ Taken' = Taken /\ Running' \subseteq Running
        /\ Cardinality(Running') \in Nat /\ Cardinality(Running') <= Cardinality(Running)
        /\ \A m \in Msgs : task'[m] # "none" <=> m <= Taken
        /\ \E i \in 1..Len(queue) : queue[i] = n
    BY <2>1, <2>2, TaskMoves
  <2>4. \A m \in Msgs : task'[m] = IF m = n THEN s ELSE task[m]
    BY <2>1, <2>2 DEF WalkTypes
  <2>5. pc' = "walk" => Cardinality(Running') < Limit
    BY <2>2, <2>3, RunningIsFinite, BoundsAreNaturals DEF Pipeline
  <2>6. pc \in Walking \/ s # "disk"
    BY <2>1, <2>2
  <2> QED BY <2>2, <2>3, <2>4, <2>5, <2>6 DEF Pipeline, Walking
<1>6. Accounted'
  BY DEF IInv, Registered, sectionVars, flagVars, resultVars, Accounted,
     Interrupted, WalkTypes
<1> QED BY <1>1, <1>2, <1>3, <1>4, <1>5, <1>6 DEF IInv

LEMMA DownloadCancelledStep ==
  ASSUME IInv, NEW n \in Msgs, DownloadCancelled(n)
  PROVE  IInv'
<1>1. MainTypes' /\ SectionTypes' /\ FileTypes' /\ FlagTypes' /\ FaultTypes' /\ ResultTypes' /\ Flags' /\ HeldShape' /\ Midway' /\ Outcome' /\ Complete' /\ ForceLeads'
  BY Kept DEF IInv, DownloadCancelled, sectionVars, flagVars, resultVars
<1>2. WalkTypes'
  BY DEF IInv, DownloadCancelled, WalkTypes
<1>3. Deque'
  <2>1. PICK s \in {"cancelled"} : task' = [task EXCEPT ![n] = s]
    BY DEF DownloadCancelled
  <2>2. /\ WalkTypes /\ Deque /\ Pipeline /\ task[n] \in Alive
        /\ UNCHANGED <<pc, queue, cause>>
    BY DEF IInv, DownloadCancelled, Alive
  <2>3. /\ Deque' /\ Taken' = Taken /\ Running' \subseteq Running
        /\ Cardinality(Running') \in Nat /\ Cardinality(Running') <= Cardinality(Running)
        /\ \A m \in Msgs : task'[m] # "none" <=> m <= Taken
        /\ \E i \in 1..Len(queue) : queue[i] = n
    BY <2>1, <2>2, TaskMoves
  <2> QED BY <2>3
<1>4. OnlyInWalk'
  <2>1. PICK s \in {"cancelled"} : task' = [task EXCEPT ![n] = s]
    BY DEF DownloadCancelled
  <2>2. /\ WalkTypes /\ Deque /\ Pipeline /\ task[n] \in Alive
        /\ UNCHANGED <<pc, queue, cause>>
    BY DEF IInv, DownloadCancelled, Alive
  <2>3. /\ Deque' /\ Taken' = Taken /\ Running' \subseteq Running
        /\ Cardinality(Running') \in Nat /\ Cardinality(Running') <= Cardinality(Running)
        /\ \A m \in Msgs : task'[m] # "none" <=> m <= Taken
        /\ \E i \in 1..Len(queue) : queue[i] = n
    BY <2>1, <2>2, TaskMoves
  <2> QED BY <2>2, <2>3 DEF IInv, OnlyInWalk
<1>5. Pipeline'
  <2>1. PICK s \in {"cancelled"} : task' = [task EXCEPT ![n] = s]
    BY DEF DownloadCancelled
  <2>2. /\ WalkTypes /\ Deque /\ Pipeline /\ task[n] \in Alive
        /\ UNCHANGED <<pc, queue, cause>>
    BY DEF IInv, DownloadCancelled, Alive
  <2>3. /\ Deque' /\ Taken' = Taken /\ Running' \subseteq Running
        /\ Cardinality(Running') \in Nat /\ Cardinality(Running') <= Cardinality(Running)
        /\ \A m \in Msgs : task'[m] # "none" <=> m <= Taken
        /\ \E i \in 1..Len(queue) : queue[i] = n
    BY <2>1, <2>2, TaskMoves
  <2>4. \A m \in Msgs : task'[m] = IF m = n THEN s ELSE task[m]
    BY <2>1, <2>2 DEF WalkTypes
  <2>5. pc' = "walk" => Cardinality(Running') < Limit
    BY <2>2, <2>3, RunningIsFinite, BoundsAreNaturals DEF Pipeline
  <2>6. pc \in Walking \/ s # "disk"
    BY <2>1, <2>2
  <2> QED BY <2>2, <2>3, <2>4, <2>5, <2>6 DEF Pipeline, Walking
<1>6. Accounted'
  BY DEF IInv, DownloadCancelled, flagVars, resultVars, Accounted,
     Interrupted
<1> QED BY <1>1, <1>2, <1>3, <1>4, <1>5, <1>6 DEF IInv

LEMMA RepairedStep ==
  ASSUME IInv, NEW f \in Files, Repaired(f)
  PROVE  IInv'
<1>1. MainTypes' /\ WalkTypes' /\ SectionTypes' /\ FlagTypes' /\ ResultTypes' /\ Deque' /\ Flags' /\ HeldShape' /\ OnlyInWalk' /\ Pipeline' /\ Midway' /\ Outcome' /\ ForceLeads'
  BY Kept DEF IInv, Repaired, walkVars, sectionVars, flagVars, resultVars
<1>2. FileTypes'
  BY DEF IInv, Repaired, FileTypes
<1>3. FaultTypes'
  BY FaultsCounted DEF IInv, Repaired
<1>4. Accounted'
  <2>1. /\ UNCHANGED <<options, pc, chat, section, pages, step, task, cause, sig, runner, errors, raised>>
        /\ file[f] \in {"net", "write"}
        /\ \/ file' = [file EXCEPT ![f] = "write"] /\ Fine /\ file[f] = "net" /\ pc # "settle"
           \/ file' = [file EXCEPT ![f] = "failed"] /\ Fault /\ file[f] = "net" /\ pc # "settle"
           \/ file' = [file EXCEPT ![f] = "fixed"] /\ Fine /\ file[f] = "write"
           \/ file' = [file EXCEPT ![f] = "cancelled"] /\ Fine /\ pc = "settle"
    BY DEF Repaired, walkVars, sectionVars, flagVars, resultVars
  <2>2. \A g \in Files : g # f => file'[g] = file[g]
    BY <2>1 DEF IInv, FileTypes
  <2>3. file'[f] = "failed" \/ Fine
    BY <2>1 DEF IInv, FileTypes
  <2>4. file'[f] = "failed" => pc \in {"request", "gather"}
    BY <2>1 DEF IInv, FileTypes, Complete
  <2> QED BY <2>1, <2>2, <2>3, <2>4 DEF IInv, Accounted, Interrupted, Fine
<1>5. Complete'
  <2>1. /\ UNCHANGED <<options, pc, chat, section, pages, step, task, cause, sig, runner, errors, raised>>
        /\ file[f] \in {"net", "write"}
        /\ \/ file' = [file EXCEPT ![f] = "write"] /\ Fine /\ file[f] = "net" /\ pc # "settle"
           \/ file' = [file EXCEPT ![f] = "failed"] /\ Fault /\ file[f] = "net" /\ pc # "settle"
           \/ file' = [file EXCEPT ![f] = "fixed"] /\ Fine /\ file[f] = "write"
           \/ file' = [file EXCEPT ![f] = "cancelled"] /\ Fine /\ pc = "settle"
    BY DEF Repaired, walkVars, sectionVars, flagVars, resultVars
  <2>2. \A g \in Files : g # f => file'[g] = file[g]
    BY <2>1 DEF IInv, FileTypes
  <2>3. Clean' = Clean
    BY <2>1 DEF Clean, Interrupted
  <2>4. file'[f] \in {"write", "failed", "fixed", "cancelled"} /\ (file'[f] = "cancelled" => pc = "settle")
    BY <2>1 DEF IInv, FileTypes
  <2>5. pc \in Reported /\ options.verify /\ Clean => file[f] = "fixed"
    BY DEF IInv, Complete
  <2> QED BY <2>1, <2>2, <2>3, <2>4, <2>5 DEF IInv, Complete, Before, After, Reported,
       Opening, Walking
<1> QED BY <1>1, <1>2, <1>3, <1>4, <1>5 DEF IInv

LEMMA HandleShutdownStep ==
  ASSUME IInv, NEW signum \in {SIGINT, SIGTERM}, NEW within \in BOOLEAN, HandleShutdown(signum, within)
  PROVE  IInv'
<1>1. MainTypes' /\ WalkTypes' /\ SectionTypes' /\ FileTypes' /\ FaultTypes' /\ ResultTypes' /\ Deque' /\ HeldShape' /\ OnlyInWalk' /\ Pipeline' /\ Midway'
  BY Kept DEF IInv, HandleShutdown, walkVars, sectionVars, resultVars
<1>2. FlagTypes'
  <2>1. signals' \in 0..MaxSignals /\ sig' \in {0, SIGINT, SIGTERM} /\ UNCHANGED <<handlers, runner>>
    BY BoundsAreNaturals DEF IInv, FlagTypes, HandleShutdown
  <2>2. shutdown' \in BOOLEAN /\ force' \in BOOLEAN /\ cancel' \in BOOLEAN
    BY DEF IInv, FlagTypes, HandleShutdown
  <2> QED BY <2>1, <2>2 DEF IInv, FlagTypes
<1>3. Flags'
  BY DEF HandleShutdown, Flags, Interrupted, SIGINT, SIGTERM
<1>4. Accounted'
  <2>1. Interrupted' /\ ~Clean'
    BY DEF HandleShutdown, Interrupted, Clean, SIGINT, SIGTERM
  <2> QED BY <2>1 DEF Accounted
<1>5. Outcome'
  BY DEF IInv, HandleShutdown, Awaits, resultVars, Opening, Walking, Outcome
<1>6. Complete'
  <2>1. Interrupted' /\ ~Clean'
    BY DEF HandleShutdown, Interrupted, Clean, SIGINT, SIGTERM
  <2> QED BY <2>1 DEF IInv, Complete, HandleShutdown, sectionVars
<1>7. ForceLeads'
  BY DEF IInv, HandleShutdown, walkVars, ForceLeads
<1> QED BY <1>1, <1>2, <1>3, <1>4, <1>5, <1>6, <1>7 DEF IInv

-----------------------------------------------------------------------------
(* The invariant. *)

LEMMA InitInv == Init => IInv
<1> SUFFICES ASSUME Init PROVE IInv
  OBVIOUS
<1>1. task = [n \in Msgs |-> "none"] /\ queue = <<>>
  BY DEF Init
<1>2. Taken = 0 /\ Running = {} /\ Cardinality(Running) = 0
  <2>1. 0 \in 0..Messages /\ \A n \in Msgs : task[n] # "none" <=> n <= 0
    BY <1>1, BoundsAreNaturals DEF Msgs
  <2>2. Running = {}
    BY <1>1 DEF Running, Alive
  <2> QED BY <2>1, <2>2, FirstTaken, FS_EmptySet DEF Taken
<1>3. queue \in Seq(Msgs) /\ Len(queue) = 0
  BY <1>1
<1>4. MainTypes /\ WalkTypes /\ FileTypes
  BY <1>1, <1>3, BoundsAreNaturals DEF Init, MainTypes, WalkTypes, FileTypes, Awaits,
       Opening
<1>5. SectionTypes /\ FlagTypes /\ FaultTypes /\ ResultTypes
  <2>1. SectionTypes
    <3>1. Len(Table) = 6
      BY TheTable
    <3>2. 0 \in 0..Len(Table)
      BY <3>1
    <3> QED BY <3>2 DEF Init, SectionTypes
  <2>2. FlagTypes /\ FaultTypes
    <3>1. 0 \in 0..MaxSignals /\ 0 \in 0..MaxFaults /\ 0 \in 0..2 /\ 0 \in 0..0
      BY BoundsAreNaturals
    <3> QED BY <3>1 DEF Init, FlagTypes, FaultTypes
  <2>3. ResultTypes
    BY DEF Init, ResultTypes, NoCode
  <2> QED BY <2>1, <2>2, <2>3
<1>6. Deque /\ OnlyInWalk
  BY <1>2, <1>3, BoundsAreNaturals DEF Deque, OnlyInWalk
<1>7. Pipeline
  BY <1>1, <1>2, <1>3, BoundsAreNaturals DEF Init, Pipeline, Walking, Msgs
<1>8. Flags /\ HeldShape /\ Midway /\ Accounted /\ Outcome /\ ForceLeads
  BY DEF Init, Flags, Interrupted, HeldShape, Midway, Accounted, Outcome, ForceLeads,
       Opening, Ended
<1>9. Complete
  BY DEF Init, Complete, Clean, Before, After, Reported, Opening, Walking
<1> QED BY <1>4, <1>5, <1>6, <1>7, <1>8, <1>9 DEF IInv

LEMMA StepInv == IInv /\ [Next]_vars => IInv'
<1> SUFFICES ASSUME IInv, [Next]_vars PROVE IInv'
  OBVIOUS
<1>1. CASE Online
  BY <1>1, ConnectStep, TakeoutStep, FetchCatalogStep, SubmitStep,
     StopWalkStep, WalkFailsStep, SectionStep, SectionsOverStep,
     RequestStep, AllAskedStep, RequestFailsStep, FetchedStep DEF Online
<1>2. CASE Local
  BY <1>2, OpenStep, OpeningCancelledStep, InstallHandlersStep, LoopStep,
     CacheCatalogStep, EntryCancelledStep, SubmitTakesStep,
     SubmitReturnsStep, WindowTakesStep, DrainStep, DrainedStep,
     WalkCancelledStep, LeaveCancelledStep, ChatLeftStep,
     RaisedOutOfRunStep, PassCancelledStep, SettledStep, GatheredStep,
     GatherCancelledStep, ReportStep, RenderIndexStep, PrintSummaryStep,
     ReleaseStep, ReleaseCancelledStep, ExitStep DEF Local
<1>3. CASE Signal
  BY <1>3, HandleShutdownStep, RunnerInterruptStep, TerminatedStep DEF
     Signal
<1>4. CASE \E n \in Msgs : Settling(n)
  BY <1>4, RegisteredStep, DownloadCancelledStep DEF Settling
<1>5. CASE \E f \in Files : Repaired(f)
  BY <1>5, RepairedStep
<1>6. CASE UNCHANGED vars
  BY <1>6, Kept DEF vars, walkVars, sectionVars, flagVars, resultVars, IInv
<1> QED BY <1>1, <1>2, <1>3, <1>4, <1>5, <1>6 DEF Next, Done

LEMMA Invariant == Spec => []IInv
<1> QED BY InitInv, StepInv, PTL DEF Spec

-----------------------------------------------------------------------------
(* The theorems. *)

\* Types, and the window: the deque holds the latest messages taken, in order,
\* every download that runs belongs to one of them, and there are no more of
\* them than concurrent_downloads allows.
THEOREM TypeCorrect == Spec => []TypeOK
<1>1. IInv => TypeOK
  BY DEF IInv, TypeOK, Types
<1> QED BY <1>1, Invariant, PTL

\* No download of a walk runs once its pipeline is left, and everything it
\* needs is still open while one does.
THEOREM NothingOutlivesItsWalk == Spec => []WalkLeavesNothing
<1>1. IInv => WalkLeavesNothing
  BY DEF IInv, OnlyInWalk, HeldShape, WalkLeavesNothing, Walking, Ended
<1> QED BY <1>1, Invariant, PTL

\* Exit code 0 without an interrupt before the start says that every chat,
\* section and repair asked for is done and nothing failed but what the code
\* only logs: a file of a section, the frequent contacts, the left channels.
THEOREM ExitIsHonest == Spec => []HonestExit
<1>1. ASSUME IInv PROVE HonestExit
  <2> SUFFICES ASSUME pc = "exit", code = 0, runner = 0
               PROVE  /\ faults = logged /\ sig = 0 /\ chat = Chats
                      /\ options.dryRun \/ pages = Sections
                      /\ options.verify => \A f \in Files : file[f] = "fixed"
    BY DEF HonestExit
  <2>1. code = ExitCode
    BY <1>1 DEF IInv, Outcome
  <2>2. sig = 0 /\ raised # "error"
    BY <1>1, <2>1 DEF IInv, FlagTypes, ExitCode, SIGINT, SIGTERM
  <2>3. raised = "none"
    BY <1>1, <2>2 DEF IInv, Flags, Interrupted, ResultTypes
  <2>4. errors = {}
    BY <1>1, <2>1, <2>2, <2>3 DEF IInv, Outcome, ExitCode
  <2>5. Clean
    BY <2>2, <2>3, <2>4 DEF Clean, Interrupted
  <2>6. faults = logged
    BY <1>1, <2>2, <2>3, <2>4, BoundsAreNaturals DEF IInv, Accounted, Interrupted,
         FaultTypes, Walking
  <2> QED BY <1>1, <2>2, <2>5, <2>6 DEF IInv, Complete, After, Reported
<1> QED BY <1>1, Invariant, PTL

\* What a step may never do once a stop was asked for.
Fetching == {n \in Msgs : task[n] = "net"}
Stopped ==
  /\ shutdown => chat' = chat /\ Fetching' \subseteq Fetching
  /\ shutdown /\ pc # "section" => pc' # "section"
  /\ force /\ pc' # pc => pc' \in {"leave", "settle", "report", "close", "exit"}

LEMMA StopHolds == ASSUME IInv, Next PROVE Stopped
<1> USE DEF Stopped, Fetching, IInv, ForceLeads, Awaits, Opening, Walking
<1>1. CASE Connect
  BY <1>1 DEF Connect, At, Fine, Raise, Fault, walkVars, sectionVars,
     flagVars
<1>2. CASE Takeout
  BY <1>2 DEF Takeout, At, Fine, Raise, Fault, walkVars, sectionVars,
     flagVars
<1>3. CASE FetchCatalog
  BY <1>3 DEF FetchCatalog, At, Fine, Raise, Fault, walkVars, sectionVars,
     flagVars
<1>4. CASE Submit
  BY <1>4 DEF Submit, At, sectionVars, flagVars, resultVars
<1>5. CASE StopWalk
  BY <1>5 DEF StopWalk, At, walkVars, sectionVars, flagVars, resultVars
<1>6. CASE WalkFails
  BY <1>6 DEF WalkFails, At, LeavePipeline, Fault, sectionVars, flagVars,
     resultVars
<1>7. CASE Section
  BY <1>7 DEF Section, At, Table, Due, FetchSection, DownloadBatch,
     RenderSection, RenderAndRaise, walkVars, flagVars, WithFiles, Fine,
     Fault, PageKept, SectionRaises, SectionOver
<1>8. CASE SectionsOver
  BY <1>8 DEF SectionsOver, At, Table, Due, VerifyOrReturn, walkVars,
     sectionVars, flagVars
<1>9. CASE Request
  BY <1>9 DEF Request, At, Files, Fine, Fault, walkVars, sectionVars,
     flagVars, resultVars
<1>10. CASE AllAsked
  BY <1>10 DEF AllAsked, At, Files, walkVars, sectionVars, flagVars,
     resultVars
<1>11. CASE RequestFails
  BY <1>11 DEF RequestFails, At, Fault, sectionVars, flagVars, resultVars
<1>12. CASE \E n \in Msgs : Fetched(n)
  BY <1>12 DEF Fetched, Fine, Fault, sectionVars, flagVars, WalkTypes
<1>13. CASE Open
  BY <1>13 DEF Open, At, Fine, Raise, Fault, walkVars, sectionVars, flagVars
<1>14. CASE OpeningCancelled
  BY <1>14 DEF OpeningCancelled, CancelledAt, Raise, walkVars, sectionVars,
     flagVars
<1>15. CASE InstallHandlers
  BY <1>15 DEF InstallHandlers, walkVars, sectionVars, resultVars
<1>16. CASE Loop
  BY <1>16 DEF Loop, AfterLoop, walkVars, sectionVars, flagVars,
     VerifyOrReturn
<1>17. CASE CacheCatalog
  BY <1>17 DEF CacheCatalog, At, Fine, Msgs, Raise, Fault, walkVars,
     sectionVars, flagVars
<1>18. CASE EntryCancelled
  BY <1>18 DEF EntryCancelled, CancelledAt, ForcedOut, walkVars,
     sectionVars, flagVars, VerifyOrReturn
<1>19. CASE SubmitTakes
  BY <1>19 DEF SubmitTakes, At, TakeOldest, sectionVars, flagVars,
     resultVars, HeadReady, LeavePipeline
<1>20. CASE SubmitReturns
  BY <1>20 DEF SubmitReturns, At, HeadReady, Room, walkVars, sectionVars,
     flagVars, resultVars
<1>21. CASE WindowTakes
  BY <1>21 DEF WindowTakes, At, HeadReady, LeavePipeline, Room, sectionVars,
     flagVars, resultVars
<1>22. CASE Drain
  BY <1>22 DEF Drain, At, TakeOldest, sectionVars, flagVars, resultVars,
     HeadReady, LeavePipeline
<1>23. CASE Drained
  BY <1>23 DEF Drained, At, LeavePipeline, sectionVars, flagVars, resultVars
<1>24. CASE WalkCancelled
  BY <1>24 DEF WalkCancelled, CancelledAt, LeavePipeline, sectionVars,
     flagVars, resultVars
<1>25. CASE LeaveCancelled
  BY <1>25 DEF LeaveCancelled, CancelledAt, sectionVars, flagVars,
     resultVars
<1>26. CASE ChatLeft
  BY <1>26 DEF ChatLeft, At, WaitOver, Recorded, AfterLoop, ForcedOut,
     walkVars, sectionVars, flagVars, VerifyOrReturn, WalkTypes, Pipeline
<1>27. CASE RaisedOutOfRun
  BY <1>27 DEF RaisedOutOfRun, CancelledAt, Raise, walkVars, sectionVars,
     flagVars
<1>28. CASE PassCancelled
  BY <1>28 DEF PassCancelled, CancelledAt, sectionVars, flagVars, resultVars
<1>29. CASE Settled
  BY <1>29 DEF Settled, At, Mending, Raise, walkVars, sectionVars, flagVars,
     Files, Alive
<1>30. CASE Gathered
  BY <1>30 DEF Gathered, At, Mending, Files, walkVars, sectionVars,
     flagVars, Alive
<1>31. CASE GatherCancelled
  BY <1>31 DEF GatherCancelled, CancelledAt, Mending, Files, Raise,
     walkVars, sectionVars, flagVars, Alive
<1>32. CASE Report
  BY <1>32 DEF Report, walkVars, sectionVars, flagVars, resultVars
<1>33. CASE RenderIndex
  BY <1>33 DEF RenderIndex, At, Fine, Raise, Fault, walkVars, sectionVars,
     flagVars
<1>34. CASE PrintSummary
  BY <1>34 DEF PrintSummary, At, Fine, Raise, Fault, walkVars, sectionVars,
     flagVars
<1>35. CASE Release
  BY <1>35 DEF Release, At, ReleaseLast, Fine, Fault, Unreleased, walkVars,
     sectionVars, flagVars
<1>36. CASE ReleaseCancelled
  BY <1>36 DEF ReleaseCancelled, CancelledAt, ReleaseLast, Unreleased,
     walkVars, sectionVars, flagVars
<1>37. CASE Exit
  BY <1>37 DEF Exit, ExitCode, walkVars, sectionVars, flagVars, SIGINT
<1>38. CASE \E signum \in {SIGINT, SIGTERM}, within \in BOOLEAN : HandleShutdown(signum, within)
  BY <1>38 DEF HandleShutdown, walkVars, sectionVars, resultVars
<1>39. CASE RunnerInterrupt
  BY <1>39 DEF RunnerInterrupt, Ended, walkVars, sectionVars, resultVars
<1>40. CASE Terminated
  BY <1>40 DEF Terminated, Ended, SIGTERM, walkVars, sectionVars, Flags
<1>41. CASE \E n \in Msgs : Registered(n)
  BY <1>41 DEF Registered, sectionVars, flagVars, resultVars
<1>42. CASE \E n \in Msgs : DownloadCancelled(n)
  BY <1>42 DEF DownloadCancelled, sectionVars, flagVars, resultVars
<1>43. CASE \E f \in Files : Repaired(f)
  BY <1>43 DEF Repaired, Fine, Fault, walkVars, sectionVars, flagVars,
     resultVars
<1>44. CASE Done
  BY <1>44 DEF Done, vars, walkVars
<1> HIDE DEF Stopped, IInv
<1>45. CASE Online
  BY <1>45, <1>1, <1>2, <1>3, <1>4, <1>5, <1>6, <1>7, <1>8, <1>9, <1>10,
     <1>11, <1>12 DEF Online
<1>46. CASE Local
  BY <1>46, <1>13, <1>14, <1>15, <1>16, <1>17, <1>18, <1>19, <1>20, <1>21,
     <1>22, <1>23, <1>24, <1>25, <1>26, <1>27, <1>28, <1>29, <1>30, <1>31,
     <1>32, <1>33, <1>34, <1>35, <1>36, <1>37 DEF Local
<1>47. CASE Signal
  BY <1>47, <1>38, <1>39, <1>40 DEF Signal
<1>48. CASE \E n \in Msgs : Settling(n)
  BY <1>48, <1>41, <1>42 DEF Settling
<1> QED BY <1>43, <1>44, <1>45, <1>46, <1>47, <1>48 DEF Next

\* After a signal was handled no chat and no download of a walk begins and the
\* global data is not begun; after a forced stop nothing of the run begins.
THEOREM StopIsRespected == Spec => StopRespected
<1>1. IsFiniteSet(Fetching)
  BY RunningIsFinite, FS_Subset DEF Fetching
<1>2. ASSUME IInv, [Next]_vars
      PROVE  [ /\ shutdown => chat' = chat /\ Cardinality({n \in Msgs : task'[n] = "net"})
                                                <= Cardinality({n \in Msgs : task[n] = "net"})
               /\ shutdown /\ pc # "section" => pc' # "section"
               /\ force /\ pc' # pc => pc' \in {"leave", "settle", "report", "close", "exit"}
             ]_vars
  <2>1. CASE Next
    <3>1. Stopped
      BY <1>2, <2>1, StopHolds
    <3>2. shutdown => Cardinality(Fetching') <= Cardinality(Fetching)
      BY <1>1, <3>1, FS_Subset DEF Stopped
    <3> QED BY <3>1, <3>2 DEF Stopped, Fetching
  <2> QED BY <1>2, <2>1
<1> QED BY <1>2, Invariant, PTL DEF Spec, StopRespected


=============================================================================
