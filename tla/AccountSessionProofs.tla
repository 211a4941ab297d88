------------------------ MODULE AccountSessionProofs ------------------------
(***************************************************************************)
(* Proofs about AccountSession, for any number of processes, takeouts,     *)
(* logins and faults: its types, that a saved takeout id stays in the file *)
(* and is used again, and that no login takes the file from a command or   *)
(* from the account.                                                       *)
(***************************************************************************)
EXTENDS AccountSession, TLAPS

\* p has rescued the id and not closed the file.
Holds(p) == at[p] = "rescued" \/ Connected(p)

\* Only one command is at work: the one with the lock.
OneAtWork == \A p \in Procs : at[p] # "idle" => lock = p

\* What a process knows of the ids: all that must survive is in its hands,
\* nothing when it is about to open another takeout or its file is gone.
InHand ==
  \A p \in Procs :
    /\ Holds(p) => Kept \subseteq {mem[p]}
    /\ at[p] = "rescued" => mem[p] \in saved \cup {None}
    /\ at[p] = "discard" => mem[p] \notin alive
    /\ at[p] = "enter" => mem[p] = None
    /\ at[p] \in {"probe", "doubt"} => mem[p] # None
    /\ mem[p] # None => mem[p] <= opened

\* Its file is there unless it was unlinked, and then nothing must survive.
FileOpen ==
  \A p \in Procs :
    /\ orphan[p] => Connected(p) /\ removed /\ Kept = {}
    /\ Connected(p) /\ ~orphan[p] => target # None

\* What the next rescue takes from the file is the id that must survive, and
\* the file has no id that was not saved.
InFile ==
  /\ \A t \in Kept : target # None /\ t = Rescued(target)
  /\ target # None => {target.live, target.backup} \cap Ids \subseteq saved
  /\ \A t \in alive \cup saved : t <= opened

\* A login has its own file ready before the old one goes.
LoginReady ==
  /\ \A p \in Procs : /\ at[p] \in {"swap", "replace"} => staging # None
                      /\ at[p] = "replace" => target = None
  /\ staging # None => staging.live = None /\ staging.backup = None

IInv == TypeOK /\ OneAtWork /\ InHand /\ FileOpen /\ InFile /\ LoginReady /\ SessionKept

-----------------------------------------------------------------------------
(* The session file.                                                       *)

\* A file is not None, and has an id, None or Junk in its columns.
LEMMA FileParts ==
  ASSUME NEW f \in FileType
  PROVE  /\ f # None
         /\ f.live \in Values /\ f.backup \in Ids \cup {None}
         /\ Rescued(f) \in Ids \cup {None}
BY SessionAssumption DEF FileType, Values, Ids, Rescued, Usable

\* f with both columns written.
Written(f, id, copy) == [f EXCEPT !.live = id, !.backup = copy]

\* Writing both columns gives a file again.
LEMMA FileWritten ==
  ASSUME NEW f \in FileType, NEW id \in Values, NEW copy \in Ids \cup {None}
  PROVE  /\ Written(f, id, copy) \in FileType
         /\ Written(f, id, copy).live = id /\ Written(f, id, copy).backup = copy
BY DEF FileType, Written

LEMMA NewFileType ==
  ASSUME NEW login \in 0 .. MaxLogin
  PROVE  /\ NewFile(login) \in FileType
         /\ NewFile(login).live = None /\ NewFile(login).backup = None
BY DEF NewFile, FileType, Values

\* The file a command opens: the account's, or an empty one.
LEMMA ExistingFile ==
  ASSUME TypeOK
  PROVE  /\ Existing \in FileType
         /\ target # None => Existing = target
         /\ target = None => Existing.live = None /\ Existing.backup = None
BY NewFileType, SessionAssumption DEF Existing, TypeOK

\* No id is None or Junk.
LEMMA NoIds == None \notin Ids /\ Junk \notin Ids /\ None # Junk
BY SessionAssumption DEF Ids

\* What the next rescue takes: the id in the column, or else the copy.
LEMMA RescuedFrom ==
  ASSUME NEW f
  PROVE  /\ f.live \in Ids => Rescued(f) = f.live
         /\ f.live \in {None, Junk} => Rescued(f) = f.backup
BY NoIds DEF Rescued, Usable

\* What a commit does, to a file that is there.
LEMMA Committed ==
  ASSUME IInv, NEW p \in Procs, Connected(p), NEW id \in Ids \cup {None},
         Commit(p, id, IF target = None THEN None ELSE target.backup)
  PROVE  /\ orphan[p] => UNCHANGED <<target, saved>>
         /\ ~orphan[p] => /\ target \in FileType /\ target' \in FileType
                          /\ target'.live = id /\ target'.backup = target.backup
                          /\ saved' = saved \cup ({id} \cap Ids)
<1>1. CASE orphan[p]
  BY <1>1 DEF Commit
<1>2. CASE ~orphan[p]
  <2>1. target # None /\ target \in FileType
    BY <1>2 DEF IInv, FileOpen, TypeOK
  <2>2. id \in Values /\ target.backup \in Ids \cup {None}
    BY <2>1, FileParts DEF Values
  <2>3. /\ target' = Written(target, id, target.backup)
        /\ saved' = saved \cup ({id} \cap Ids)
    <3>1. (IF target = None THEN None ELSE target.backup) = target.backup
      BY <2>1
    <3> QED BY <1>2, <3>1, Zenon DEF Commit, Written
  <2> QED BY <1>2, <2>1, <2>2, <2>3, FileWritten
<1> QED BY <1>1, <1>2

\* A commit of the id in hand keeps what is said of the file.
LEMMA CommitKeeps ==
  ASSUME IInv, NEW p \in Procs, Connected(p), NEW id \in Ids \cup {None},
         Commit(p, id, IF target = None THEN None ELSE target.backup),
         alive' = alive, opened' = opened, lost' = lost, givenUp \subseteq givenUp',
         Kept \subseteq {id} \cup givenUp', id # None => id <= opened
  PROVE  /\ target' \in FileType \cup {None} /\ saved' \in SUBSET Ids
         /\ Kept' \subseteq {id} /\ (orphan[p] => Kept' = {})
         /\ target = None <=> target' = None
         /\ InFile'
<1> USE NoIds, FileParts
<1>1. CASE orphan[p]
  <2>1. UNCHANGED <<target, saved>> /\ Kept = {}
    BY <1>1, Committed DEF IInv, FileOpen
  <2>2. Kept' = {}
    BY <2>1 DEF Kept
  <2> QED BY <1>1, <2>1, <2>2 DEF IInv, TypeOK, InFile
<1>2. CASE ~orphan[p]
  <2>1. /\ target \in FileType /\ target' \in FileType
        /\ target'.live = id /\ target'.backup = target.backup
        /\ saved' = saved \cup ({id} \cap Ids)
    BY <1>2, Committed
  <2>2. Kept' \subseteq {id} \cap Ids
    BY <2>1 DEF Kept, IInv, TypeOK
  <2>3. \A t \in Kept' : t = Rescued(target')
    BY <2>1, <2>2, RescuedFrom
  <2>4. {target'.live, target'.backup} \cap Ids \subseteq saved'
    BY <2>1 DEF IInv, InFile
  <2>5. \A t \in alive' \cup saved' : t <= opened'
    BY <2>1 DEF IInv, InFile
  <2>6. saved' \in SUBSET Ids
    BY <2>1 DEF IInv, TypeOK
  <2> QED BY <1>2, <2>1, <2>2, <2>3, <2>4, <2>5, <2>6 DEF InFile
<1> QED BY <1>1, <1>2

-----------------------------------------------------------------------------
(* The steps that write the columns of the file.                           *)

LEMMA SaveStep == ASSUME IInv, NEW p \in Procs, Save(p) PROVE IInv'
<1>1. /\ Connected(p) /\ mem[p] \in Ids \cup {None} /\ Kept \subseteq {mem[p]}
      /\ mem[p] # None => mem[p] <= opened
  BY DEF IInv, TypeOK, InHand, Holds, Save
<1>2. /\ target' \in FileType \cup {None} /\ saved' \in SUBSET Ids
      /\ Kept' \subseteq {mem[p]} /\ (orphan[p] => Kept' = {})
      /\ target = None <=> target' = None
      /\ InFile'
  BY <1>1, CommitKeeps DEF Save, server
<1>3. \A q \in Procs : q # p => at[q] = "idle" /\ ~Holds(q)
  BY <1>1 DEF IInv, OneAtWork, Connected, Holds
<1>4. TypeOK'
  BY <1>2 DEF IInv, TypeOK, Save, server
<1>5. OneAtWork' /\ LoginReady' /\ SessionKept'
  BY <1>1, <1>2, <1>3 DEF IInv, OneAtWork, LoginReady, SessionKept, Save, Connected
<1>6. InHand'
  BY <1>1, <1>2, <1>3 DEF IInv, InHand, Save, Connected, Holds, server
<1>7. FileOpen'
  BY <1>1, <1>2, <1>3 DEF IInv, FileOpen, Save, Connected
<1> QED BY <1>2, <1>4, <1>5, <1>6, <1>7 DEF IInv

LEMMA DisconnectStep == ASSUME IInv, NEW p \in Procs, Disconnect(p) PROVE IInv'
<1>1. /\ Connected(p) /\ mem[p] \in Ids \cup {None} /\ Kept \subseteq {mem[p]}
      /\ mem[p] # None => mem[p] <= opened
  BY DEF IInv, TypeOK, InHand, Holds, Disconnect, Connected
<1>2. /\ target' \in FileType \cup {None} /\ saved' \in SUBSET Ids
      /\ target = None <=> target' = None
      /\ InFile'
  <2>1. CASE dirty[p]
    BY <1>1, <2>1, CommitKeeps DEF Disconnect
  <2>2. CASE ~dirty[p]
    <3>1. UNCHANGED <<target, saved, alive, opened, givenUp, lost>>
      BY <2>2 DEF Disconnect
    <3> QED BY <3>1 DEF IInv, TypeOK, InFile, Kept, Rescued, Usable
  <2> QED BY <2>1, <2>2 DEF IInv, TypeOK, Disconnect
<1>3. \A q \in Procs : q # p => at[q] = "idle" /\ ~Holds(q)
  BY <1>1 DEF IInv, OneAtWork, Connected, Holds
<1>4. TypeOK'
  BY <1>2, SessionAssumption DEF IInv, TypeOK, Disconnect, Over
<1>5. OneAtWork' /\ LoginReady' /\ SessionKept'
  BY <1>1, <1>2, <1>3 DEF IInv, TypeOK, OneAtWork, LoginReady, SessionKept, Disconnect,
     Over, Connected
<1>6. \A q \in Procs : at'[q] = "idle" /\ (mem'[q] # None => mem'[q] <= opened')
  BY <1>3 DEF IInv, TypeOK, InHand, Disconnect, Over
<1>7. InHand'
  BY <1>6 DEF InHand, Holds, Connected
<1>8. FileOpen'
  BY <1>3, <1>6 DEF IInv, TypeOK, FileOpen, Disconnect, Over, Connected, Holds
<1> QED BY <1>2, <1>4, <1>5, <1>7, <1>8 DEF IInv

LEMMA ClearLocallyStep == ASSUME IInv, NEW p \in Procs, ClearLocally(p) PROVE IInv'
<1>1. /\ Connected(p) /\ mem[p] \in Ids /\ Kept \subseteq {mem[p]}
      /\ givenUp' = givenUp \cup {mem[p]}
      /\ UNCHANGED <<alive, opened, lost>>
  BY DEF IInv, TypeOK, InHand, Holds, ClearLocally, Connected, server
<1>2. /\ target' \in FileType \cup {None} /\ saved' \in SUBSET Ids
      /\ Kept' \subseteq {None}
      /\ target = None <=> target' = None
      /\ InFile'
  BY <1>1, CommitKeeps DEF ClearLocally
<1>3. \A q \in Procs : q # p => at[q] = "idle" /\ ~Holds(q)
  BY <1>1 DEF IInv, OneAtWork, Connected, Holds
<1>4. TypeOK'
  BY <1>1, <1>2 DEF IInv, TypeOK, ClearLocally, Goes, server
<1>5. Kept' = {}
  BY <1>2, <1>4, NoIds DEF Kept, TypeOK
<1>6. OneAtWork' /\ LoginReady' /\ SessionKept'
  BY <1>1, <1>2, <1>3 DEF IInv, TypeOK, OneAtWork, LoginReady, SessionKept, ClearLocally, Goes
<1>7. InHand'
  BY <1>1, <1>3, <1>5 DEF IInv, TypeOK, InHand, ClearLocally, Goes
<1>8. FileOpen'
  BY <1>1, <1>2, <1>3, <1>5 DEF IInv, TypeOK, FileOpen, ClearLocally, Goes, Connected, Holds
<1> QED BY <1>2, <1>4, <1>6, <1>7, <1>8 DEF IInv

\* The transaction of the rescue leaves the id where the next one finds it.
LEMMA StagedFile ==
  ASSUME NEW f \in FileType
  PROVE  /\ Staged(f) \in FileType
         /\ Staged(f).live = None /\ Staged(f).backup = Rescued(f)
         /\ Rescued(Staged(f)) = Rescued(f)
<1>1. Rescued(f) \in Ids \cup {None}
  BY FileParts
<1>2. /\ Staged(f) \in FileType
      /\ Staged(f).live = None /\ Staged(f).backup = Rescued(f)
  <2> HIDE DEF Rescued
  <2> QED BY <1>1 DEF Staged, FileType, Values
<1> QED BY <1>2, RescuedFrom

LEMMA RescueStep == ASSUME IInv, NEW p \in Procs, Rescue(p) PROVE IInv'
<1>1. /\ at[p] = "locked" /\ target' = Staged(Existing)
      /\ mem' = [mem EXCEPT ![p] = Rescued(Existing)]
      /\ at' = [at EXCEPT ![p] = "rescued"]
      /\ UNCHANGED <<lock, cmd, dirty, orphan, staging, server, ghosts, faults>>
  BY DEF Rescue, Goes
<1>2. /\ Existing \in FileType /\ target' \in FileType /\ target' # None
      /\ Rescued(Existing) \in Ids \cup {None}
      /\ target'.live = None /\ target'.backup = Rescued(Existing)
      /\ Rescued(target') = Rescued(Existing)
  BY <1>1, ExistingFile, StagedFile, FileParts DEF IInv
<1>3. \A q \in Procs : q # p => at[q] = "idle" /\ ~Holds(q)
  BY <1>1 DEF IInv, OneAtWork, Connected, Holds
<1>4. Rescued(Existing) \in saved \cup {None}
  <2>1. CASE target = None
    BY <2>1, <1>2, ExistingFile, RescuedFrom DEF IInv
  <2>2. CASE target # None
    BY <2>2, <1>2, ExistingFile, FileParts, RescuedFrom, NoIds DEF IInv, InFile, Values
  <2> QED BY <2>1, <2>2
<1>5. Kept \subseteq {Rescued(Existing)} /\ Kept' = Kept
  BY <1>1, ExistingFile DEF IInv, InFile, Kept, server, ghosts
<1>6. TypeOK'
  BY <1>1, <1>2 DEF IInv, TypeOK, server, ghosts
<1>7. OneAtWork' /\ LoginReady' /\ SessionKept'
  BY <1>1, <1>2, <1>3 DEF IInv, TypeOK, OneAtWork, LoginReady, SessionKept
<1>8. InFile'
  BY <1>1, <1>2, <1>4, <1>5, NoIds DEF IInv, InFile, server, ghosts
<1>9. InHand'
  BY <1>1, <1>3, <1>4, <1>5 DEF IInv, TypeOK, InHand, InFile, Connected, Holds, server, ghosts
<1>10. FileOpen'
  BY <1>1, <1>3 DEF IInv, TypeOK, FileOpen, Connected, Holds
<1> QED BY <1>6, <1>7, <1>8, <1>9, <1>10 DEF IInv

LEMMA RestoreStep == ASSUME IInv, NEW p \in Procs, Restore(p) PROVE IInv'
<1>1. /\ at[p] = "rescued" /\ Holds(p) /\ mem[p] \in Ids \cup {None}
      /\ mem[p] \in saved \cup {None} /\ Kept \subseteq {mem[p]}
      /\ at' = [at EXCEPT ![p] = "built"]
      /\ saved' = saved \cup ({mem[p]} \cap Ids)
      /\ UNCHANGED <<lock, cmd, mem, dirty, orphan, staging, server, givenUp, lost, removed, cut, faults>>
  BY DEF IInv, TypeOK, InHand, Holds, Restore, Goes
<1>2. target' = Written(Existing, mem[p], None)
  BY Zenon DEF Restore, BackupAfter, Written
<1>3. /\ target' \in FileType /\ target' # None
      /\ target'.live = mem[p] /\ target'.backup = None
  <2>1. mem[p] \in Values
    BY <1>1 DEF Values
  <2>2. Existing \in FileType
    BY ExistingFile DEF IInv
  <2>3. None \in Ids \cup {None}
    OBVIOUS
  <2>4. /\ Written(Existing, mem[p], None) \in FileType
        /\ Written(Existing, mem[p], None).live = mem[p]
        /\ Written(Existing, mem[p], None).backup = None
    BY <2>1, <2>2, <2>3, FileWritten
  <2> QED BY <1>2, <2>4, FileParts
<1>4. saved' = saved /\ Kept' = Kept
  <2>1. {mem[p]} \cap Ids \subseteq saved
    BY <1>1, NoIds
  <2> QED BY <1>1, <2>1 DEF Kept, server
<1>5. \A q \in Procs : q # p => at[q] = "idle" /\ ~Holds(q)
  BY <1>1 DEF IInv, OneAtWork, Connected, Holds
<1>6. TypeOK'
  BY <1>1, <1>3, <1>4 DEF IInv, TypeOK, server
<1>7. OneAtWork' /\ LoginReady' /\ SessionKept'
  BY <1>1, <1>3, <1>5 DEF IInv, TypeOK, OneAtWork, LoginReady, SessionKept
<1>8. \A t \in Kept : t = Rescued(target')
  BY <1>1, <1>3, RescuedFrom DEF Kept, IInv, TypeOK
<1>9. InFile'
  BY <1>1, <1>3, <1>4, <1>8, NoIds DEF IInv, InFile, server
<1>10. InHand'
  BY <1>1, <1>4, <1>5 DEF IInv, TypeOK, InHand, Connected, Holds, server
<1>11. FileOpen'
  BY <1>1, <1>3, <1>5 DEF IInv, TypeOK, FileOpen, Connected, Holds
<1> QED BY <1>6, <1>7, <1>9, <1>10, <1>11 DEF IInv

-----------------------------------------------------------------------------
(* The other steps: what each of them disturbs.                            *)

LEMMA AcquireStep ==
  ASSUME IInv, NEW p \in Procs, Acquire(p)
  PROVE  IInv'
<1> USE DEF IInv, Acquire, LockFree, Goes, files, server, ghosts
<1>1. InFile'
  BY DEF InFile, Kept
<1>2. TypeOK'
  BY DEF TypeOK
<1>3. OneAtWork'
  BY SessionAssumption DEF OneAtWork
<1>4. InHand'
  BY DEF InHand, Holds, Kept, Connected
<1>5. FileOpen'
  BY DEF FileOpen, Connected, Kept
<1>6. LoginReady'
  BY DEF LoginReady
<1>7. SessionKept'
  BY DEF SessionKept
<1> QED BY <1>1, <1>2, <1>3, <1>4, <1>5, <1>6, <1>7

LEMMA ConnectStep ==
  ASSUME IInv, NEW p \in Procs, Connect(p)
  PROVE  IInv'
<1> USE DEF IInv, Connect, Goes, files, server, ghosts
<1>1. InFile'
  BY DEF InFile, Kept
<1>2. TypeOK'
  BY DEF TypeOK
<1>3. OneAtWork'
  BY DEF OneAtWork
<1>4. InHand'
  BY DEF InHand, Holds, Kept, Connected
<1>5. FileOpen'
  BY DEF FileOpen, Connected, Kept
<1>6. LoginReady'
  BY DEF LoginReady
<1>7. SessionKept'
  BY DEF SessionKept
<1> QED BY <1>1, <1>2, <1>3, <1>4, <1>5, <1>6, <1>7

LEMMA StartTakeoutStep ==
  ASSUME IInv, NEW p \in Procs, StartTakeout(p)
  PROVE  IInv'
<1> USE DEF IInv, StartTakeout, Goes, files, server, ghosts
<1>1. InFile'
  BY DEF InFile, Kept
<1>2. TypeOK'
  BY DEF TypeOK
<1>3. OneAtWork'
  BY DEF OneAtWork
<1>4. InHand'
  BY DEF InHand, Holds, Kept, Connected
<1>5. FileOpen'
  BY DEF FileOpen, Connected, Kept
<1>6. LoginReady'
  BY DEF LoginReady
<1>7. SessionKept'
  BY DEF SessionKept
<1> QED BY <1>1, <1>2, <1>3, <1>4, <1>5, <1>6, <1>7

LEMMA NoTakeoutStep ==
  ASSUME IInv, NEW p \in Procs, NoTakeout(p)
  PROVE  IInv'
<1> USE DEF IInv, NoTakeout, Goes, files, server, ghosts
<1>1. InFile'
  BY DEF InFile, Kept
<1>2. TypeOK'
  BY DEF TypeOK
<1>3. OneAtWork'
  BY DEF OneAtWork
<1>4. InHand'
  BY DEF InHand, Holds, Kept, Connected
<1>5. FileOpen'
  BY DEF FileOpen, Connected, Kept
<1>6. LoginReady'
  BY DEF LoginReady
<1>7. SessionKept'
  BY DEF SessionKept
<1> QED BY <1>1, <1>2, <1>3, <1>4, <1>5, <1>6, <1>7

LEMMA ResumeStep ==
  ASSUME IInv, NEW p \in Procs, Resume(p)
  PROVE  IInv'
<1> USE DEF IInv, Resume, Goes, files, server, ghosts
<1>1. InFile'
  BY DEF InFile, Kept
<1>2. TypeOK'
  BY DEF TypeOK
<1>3. OneAtWork'
  BY DEF OneAtWork
<1>4. InHand'
  BY DEF InHand, Holds, Kept, Connected
<1>5. FileOpen'
  BY DEF FileOpen, Connected, Kept
<1>6. LoginReady'
  BY DEF LoginReady
<1>7. SessionKept'
  BY DEF SessionKept
<1> QED BY <1>1, <1>2, <1>3, <1>4, <1>5, <1>6, <1>7

LEMMA ProbeRefusedStep ==
  ASSUME IInv, NEW p \in Procs, ProbeRefused(p)
  PROVE  IInv'
<1> USE DEF IInv, ProbeRefused, Unusable, Goes, files, server, ghosts
<1>1. InFile'
  BY DEF InFile, Kept
<1>2. TypeOK'
  BY DEF TypeOK
<1>3. OneAtWork'
  BY DEF OneAtWork
<1>4. InHand'
  BY DEF InHand, Holds, Kept, Connected
<1>5. FileOpen'
  BY DEF FileOpen, Connected, Kept
<1>6. LoginReady'
  BY DEF LoginReady
<1>7. SessionKept'
  BY DEF SessionKept
<1> QED BY <1>1, <1>2, <1>3, <1>4, <1>5, <1>6, <1>7

LEMMA DiscardStep ==
  ASSUME IInv, NEW p \in Procs, Discard(p)
  PROVE  IInv'
<1> USE DEF IInv, Discard, Goes, files, ghosts
<1>1. TypeOK'
  BY DEF TypeOK, InHand
<1>2. OneAtWork'
  BY DEF OneAtWork
<1>3. InHand'
  BY DEF InHand, Holds, Kept, Connected, TypeOK
<1>4. FileOpen'
  BY DEF FileOpen, Connected, Kept
<1>5. InFile'
  BY DEF InFile, Kept
<1>6. LoginReady'
  BY DEF LoginReady
<1>7. SessionKept'
  BY DEF SessionKept
<1> QED BY <1>1, <1>2, <1>3, <1>4, <1>5, <1>6, <1>7

LEMMA DiscardRefusedStep ==
  ASSUME IInv, NEW p \in Procs, DiscardRefused(p)
  PROVE  IInv'
<1> USE DEF IInv, DiscardRefused, Fault, Goes, files, ghosts
<1>1. TypeOK'
  BY SessionAssumption DEF TypeOK
<1>2. OneAtWork'
  BY DEF OneAtWork
<1>3. InHand'
  BY DEF InHand, Holds, Kept, Connected
<1>4. FileOpen'
  BY DEF FileOpen, Connected, Kept
<1>5. InFile'
  BY DEF InFile, Kept
<1>6. LoginReady'
  BY DEF LoginReady
<1>7. SessionKept'
  BY DEF SessionKept
<1> QED BY <1>1, <1>2, <1>3, <1>4, <1>5, <1>6, <1>7

LEMMA ProbeUnansweredStep ==
  ASSUME IInv, NEW p \in Procs, ProbeUnanswered(p)
  PROVE  IInv'
<1> USE DEF IInv, ProbeUnanswered, Fault, Goes, files, server, ghosts
<1>1. InFile'
  BY DEF InFile, Kept
<1>2. TypeOK'
  BY SessionAssumption DEF TypeOK
<1>3. OneAtWork'
  BY DEF OneAtWork
<1>4. InHand'
  BY DEF InHand, Holds, Kept, Connected
<1>5. FileOpen'
  BY DEF FileOpen, Connected, Kept
<1>6. LoginReady'
  BY DEF LoginReady
<1>7. SessionKept'
  BY DEF SessionKept
<1> QED BY <1>1, <1>2, <1>3, <1>4, <1>5, <1>6, <1>7

LEMMA EnterTakeoutStep ==
  ASSUME IInv, NEW p \in Procs, EnterTakeout(p)
  PROVE  IInv'
<1> USE DEF IInv, EnterTakeout, Goes, files, ghosts
<1>1. TypeOK'
  BY SessionAssumption DEF TypeOK, Ids
<1>2. OneAtWork'
  BY DEF OneAtWork
<1>3. InHand'
  BY SessionAssumption DEF InHand, Holds, Kept, Connected, TypeOK, Ids,
     Values, OneAtWork
<1>4. FileOpen'
  BY DEF FileOpen, Connected, Kept, TypeOK, Ids, InFile
<1>5. InFile'
  BY DEF InFile, Kept, Rescued, Ids, TypeOK
<1>6. LoginReady'
  BY DEF LoginReady
<1>7. SessionKept'
  BY DEF SessionKept
<1> QED BY <1>1, <1>2, <1>3, <1>4, <1>5, <1>6, <1>7

LEMMA TakeoutDelayedStep ==
  ASSUME IInv, NEW p \in Procs, TakeoutDelayed(p)
  PROVE  IInv'
<1> USE DEF IInv, TakeoutDelayed, Goes, files, server, ghosts
<1>1. InFile'
  BY DEF InFile, Kept
<1>2. TypeOK'
  BY DEF TypeOK
<1>3. OneAtWork'
  BY DEF OneAtWork
<1>4. InHand'
  BY DEF InHand, Holds, Kept, Connected
<1>5. FileOpen'
  BY DEF FileOpen, Connected, Kept
<1>6. LoginReady'
  BY DEF LoginReady
<1>7. SessionKept'
  BY DEF SessionKept
<1> QED BY <1>1, <1>2, <1>3, <1>4, <1>5, <1>6, <1>7

LEMMA NothingToClearStep ==
  ASSUME IInv, NEW p \in Procs, NothingToClear(p)
  PROVE  IInv'
<1> USE DEF IInv, NothingToClear, Goes, files, server, ghosts
<1>1. InFile'
  BY DEF InFile, Kept
<1>2. TypeOK'
  BY DEF TypeOK
<1>3. OneAtWork'
  BY DEF OneAtWork
<1>4. InHand'
  BY DEF InHand, Holds, Kept, Connected
<1>5. FileOpen'
  BY DEF FileOpen, Connected, Kept
<1>6. LoginReady'
  BY DEF LoginReady
<1>7. SessionKept'
  BY DEF SessionKept
<1> QED BY <1>1, <1>2, <1>3, <1>4, <1>5, <1>6, <1>7

LEMMA FinishStep ==
  ASSUME IInv, NEW p \in Procs, Finish(p)
  PROVE  IInv'
<1> USE DEF IInv, Finish, Goes, files
<1>1. TypeOK'
  BY DEF TypeOK
<1>2. OneAtWork'
  BY DEF OneAtWork
<1>3. InHand'
  BY DEF InHand, Holds, Kept, Connected
<1>4. FileOpen'
  BY DEF FileOpen, Connected, Kept
<1>5. InFile'
  BY DEF InFile, Kept
<1>6. LoginReady'
  BY DEF LoginReady
<1>7. SessionKept'
  BY DEF SessionKept
<1> QED BY <1>1, <1>2, <1>3, <1>4, <1>5, <1>6, <1>7

LEMMA BeginLoginStep ==
  ASSUME IInv, NEW p \in Procs, BeginLogin(p)
  PROVE  IInv'
<1> USE DEF IInv, BeginLogin, NewFile, OldKept, Goes, server, ghosts
<1>1. TypeOK'
  BY SessionAssumption DEF TypeOK, FileType, Values
<1>2. OneAtWork'
  BY DEF OneAtWork
<1>3. InHand'
  BY DEF InHand, Holds, Kept, Connected
<1>4. FileOpen'
  BY DEF FileOpen, Connected, Kept
<1>5. InFile'
  BY DEF InFile, Kept
<1>6. LoginReady'
  BY DEF LoginReady, OneAtWork
<1>7. SessionKept'
  BY DEF SessionKept
<1> QED BY <1>1, <1>2, <1>3, <1>4, <1>5, <1>6, <1>7

LEMMA LoginFailsStep ==
  ASSUME IInv, NEW p \in Procs, LoginFails(p)
  PROVE  IInv'
<1> USE DEF IInv, LoginFails, Over, server, ghosts
<1>1. InFile'
  BY DEF InFile, Kept
<1>2. TypeOK'
  BY DEF TypeOK
<1>3. OneAtWork'
  BY DEF OneAtWork, TypeOK
<1>4. InHand'
  BY DEF InHand, Holds, Kept, Connected
<1>5. FileOpen'
  BY DEF FileOpen, Connected, Kept
<1>6. LoginReady'
  BY DEF LoginReady, OneAtWork
<1>7. SessionKept'
  BY DEF SessionKept
<1> QED BY <1>1, <1>2, <1>3, <1>4, <1>5, <1>6, <1>7

LEMMA SignInStep ==
  ASSUME IInv, NEW p \in Procs, SignIn(p)
  PROVE  IInv'
<1> USE DEF IInv, SignIn, NewFile, Goes, ghosts
<1>1. InFile'
  BY DEF InFile, Kept
<1>2. TypeOK'
  BY SessionAssumption DEF TypeOK, FileType, Values
<1>3. OneAtWork'
  BY DEF OneAtWork
<1>4. InHand'
  BY DEF InHand, Holds, Kept, Connected
<1>5. FileOpen'
  BY DEF FileOpen, Connected, Kept
<1>6. LoginReady'
  BY SessionAssumption DEF LoginReady, TypeOK
<1>7. SessionKept'
  BY DEF SessionKept
<1> QED BY <1>1, <1>2, <1>3, <1>4, <1>5, <1>6, <1>7

LEMMA RemoveOldStep ==
  ASSUME IInv, NEW p \in Procs, RemoveOld(p)
  PROVE  IInv'
<1> USE DEF IInv, RemoveOld, Unlink, Goes, server, Connected
<1>1. TypeOK'
  BY DEF TypeOK
<1>2. OneAtWork'
  BY DEF OneAtWork
<1>3. InHand'
  BY DEF InHand, Kept
<1>4. FileOpen'
  BY DEF FileOpen, Kept, TypeOK, OneAtWork
<1>5. InFile'
  BY DEF InFile, Kept
<1>6. LoginReady'
  BY DEF LoginReady
<1>7. SessionKept'
  BY DEF SessionKept, TypeOK
<1> QED BY <1>1, <1>2, <1>3, <1>4, <1>5, <1>6, <1>7

LEMMA ReplaceStep ==
  ASSUME IInv, NEW p \in Procs, Replace(p)
  PROVE  IInv'
<1> USE DEF IInv, Replace, Over, server
<1>1. TypeOK'
  BY DEF TypeOK
<1>2. OneAtWork'
  BY DEF OneAtWork, TypeOK
<1>3. InHand'
  BY DEF InHand, Holds, Kept, Connected
<1>4. FileOpen'
  BY DEF FileOpen, Connected, OneAtWork
<1>5. InFile'
  BY SessionAssumption DEF InFile, Kept, Ids, LoginReady
<1>6. LoginReady'
  BY DEF LoginReady, TypeOK, OneAtWork
<1>7. SessionKept'
  BY DEF SessionKept, LoginReady
<1> QED BY <1>1, <1>2, <1>3, <1>4, <1>5, <1>6, <1>7

LEMMA BusyStep ==
  ASSUME IInv, NEW p \in Procs, Busy(p)
  PROVE  IInv'
<1> USE DEF IInv, Busy, Fault, Over, files, server, ghosts
<1>1. InFile'
  BY DEF InFile, Kept
<1>2. TypeOK'
  BY SessionAssumption DEF TypeOK
<1>3. OneAtWork'
  BY DEF OneAtWork, TypeOK
<1>4. InHand'
  BY DEF InHand, Holds, Kept, Connected
<1>5. FileOpen'
  BY DEF FileOpen, Connected, Kept
<1>6. LoginReady'
  BY DEF LoginReady
<1>7. SessionKept'
  BY DEF SessionKept
<1> QED BY <1>1, <1>2, <1>3, <1>4, <1>5, <1>6, <1>7

\* Where the start goes on without the id, the id is written off: nothing that
\* must survive is left in the file.
LEMMA UnreadStep ==
  ASSUME IInv, NEW p \in Procs, Unread(p)
  PROVE  IInv'
<1>1. CASE Over(p) /\ UNCHANGED <<files, lost>>
  <2> USE <1>1 DEF IInv, Unread, Fault, Over, files, server
  <2>1. InFile'
    BY DEF InFile, Kept
  <2>2. TypeOK'
    BY SessionAssumption DEF TypeOK
  <2>3. OneAtWork'
    BY DEF OneAtWork, TypeOK
  <2>4. InHand' /\ FileOpen'
    BY DEF InHand, FileOpen, Holds, Kept, Connected
  <2>5. LoginReady' /\ SessionKept'
    BY DEF LoginReady, SessionKept
  <2> QED BY <2>1, <2>2, <2>3, <2>4, <2>5
<1>2. CASE ~(Over(p) /\ UNCHANGED <<files, lost>>)
  <2>1. /\ at[p] = "locked" /\ at' = [at EXCEPT ![p] = "built"]
        /\ Existing.live \notin Ids
        /\ lost' = lost \cup ({Existing.backup} \cap Ids)
        /\ faults' \in 0 .. MaxFaults
        /\ UNCHANGED <<lock, cmd, mem, dirty, orphan, staging, server, saved, givenUp, removed, cut>>
    BY <1>2, SessionAssumption DEF Unread, Fault, Goes, IInv, TypeOK
  <2>2. target' \in {Existing, Written(Existing, Existing.live, None)}
    BY <1>2, ExistingFile DEF Unread, Written, FileType, IInv
  <2>3. Existing \in FileType /\ Existing.live \in {None, Junk}
        /\ Existing.backup \in Ids \cup {None}
    BY <2>1, ExistingFile, FileParts DEF IInv, Values
  <2>4. /\ target' \in FileType /\ target' # None
        /\ target'.live \in {None, Junk}
        /\ target'.backup \in {Existing.backup, None}
    <3>1. CASE target' = Existing
      BY <3>1, <2>3, FileParts
    <3>2. CASE target' = Written(Existing, Existing.live, None)
      <4>1. Existing.live \in Values /\ None \in Ids \cup {None}
        BY <2>3 DEF Values
      <4>2. /\ target' \in FileType
            /\ target'.live = Existing.live /\ target'.backup = None
        BY <3>2, <4>1, <2>3, FileWritten
      <4> QED BY <4>2, <2>3, FileParts
    <3> QED BY <2>2, <3>1, <3>2
  <2>5. Kept' = {}
    <3>1. SUFFICES ASSUME NEW t \in Kept' PROVE FALSE
      OBVIOUS
    <3>2. t \in Kept /\ t \in Ids /\ t \notin {Existing.backup}
      BY <2>1, <3>1 DEF Kept, server, IInv, TypeOK
    <3>3. t = Existing.backup
      BY <2>3, <3>2, ExistingFile, RescuedFrom DEF IInv, InFile
    <3> QED BY <3>2, <3>3
  <2>6. {Existing.backup} \cap Ids \subseteq saved
    BY ExistingFile, NoIds DEF IInv, InFile
  <2>7. \A q \in Procs : q # p => at[q] = "idle" /\ ~Holds(q)
    BY <2>1 DEF IInv, OneAtWork, Connected, Holds
  <2>8. TypeOK'
    BY <2>1, <2>4 DEF IInv, TypeOK, server
  <2>9. OneAtWork' /\ LoginReady' /\ SessionKept'
    BY <2>1, <2>4, <2>7 DEF IInv, TypeOK, OneAtWork, LoginReady, SessionKept
  <2>10. InFile'
    BY <2>1, <2>4, <2>5, <2>6, NoIds DEF IInv, InFile, server
  <2>11. InHand'
    BY <2>1, <2>5, <2>7 DEF IInv, TypeOK, InHand, Connected, Holds, server
  <2>12. FileOpen'
    BY <2>1, <2>4, <2>5, <2>7 DEF IInv, TypeOK, FileOpen, Connected, Holds
  <2> QED BY <2>8, <2>9, <2>10, <2>11, <2>12 DEF IInv
<1> QED BY <1>1, <1>2

LEMMA RestoreFailsStep ==
  ASSUME IInv, NEW p \in Procs, RestoreFails(p)
  PROVE  IInv'
<1> USE DEF IInv, RestoreFails, Fault, Over, files, server, ghosts
<1>1. InFile'
  BY DEF InFile, Kept
<1>2. TypeOK'
  BY SessionAssumption DEF TypeOK
<1>3. OneAtWork'
  BY DEF OneAtWork, TypeOK
<1>4. InHand'
  BY DEF InHand, Holds, Kept, Connected, TypeOK
<1>5. FileOpen'
  BY DEF FileOpen, Connected, Kept
<1>6. LoginReady'
  BY DEF LoginReady
<1>7. SessionKept'
  BY DEF SessionKept
<1> QED BY <1>1, <1>2, <1>3, <1>4, <1>5, <1>6, <1>7

LEMMA RestoreUnsavedStep ==
  ASSUME IInv, NEW p \in Procs, RestoreUnsaved(p)
  PROVE  IInv'
<1> USE DEF IInv, RestoreUnsaved, Fault, Existing, Goes, server, ghosts,
       NewFile
<1>1. TypeOK'
  BY SessionAssumption DEF TypeOK, FileType, Values
<1>2. OneAtWork'
  BY DEF OneAtWork
<1>3. InHand'
  BY DEF InHand, Holds, Kept, Connected
<1>4. FileOpen'
  BY SessionAssumption DEF FileOpen, Connected, Kept
<1>5. InFile'
  BY SessionAssumption DEF InFile, Kept, Ids
<1>6. LoginReady'
  BY DEF LoginReady, OneAtWork
<1>7. SessionKept'
  BY DEF SessionKept
<1> QED BY <1>1, <1>2, <1>3, <1>4, <1>5, <1>6, <1>7

LEMMA ConnectFailsStep ==
  ASSUME IInv, NEW p \in Procs, ConnectFails(p)
  PROVE  IInv'
<1> USE DEF IInv, ConnectFails, Fault, Over, files, server, ghosts
<1>1. InFile'
  BY DEF InFile, Kept
<1>2. TypeOK'
  BY SessionAssumption DEF TypeOK
<1>3. OneAtWork'
  BY DEF OneAtWork, TypeOK
<1>4. InHand'
  BY DEF InHand, Holds, Kept, Connected, TypeOK
<1>5. FileOpen'
  BY DEF FileOpen, Connected, Kept, TypeOK
<1>6. LoginReady'
  BY DEF LoginReady
<1>7. SessionKept'
  BY DEF SessionKept
<1> QED BY <1>1, <1>2, <1>3, <1>4, <1>5, <1>6, <1>7

LEMMA TakeoutFailsStep ==
  ASSUME IInv, NEW p \in Procs, TakeoutFails(p)
  PROVE  IInv'
<1> USE DEF IInv, TakeoutFails, Fault, Goes, files, server, ghosts
<1>1. InFile'
  BY DEF InFile, Kept
<1>2. TypeOK'
  BY SessionAssumption DEF TypeOK
<1>3. OneAtWork'
  BY DEF OneAtWork
<1>4. InHand'
  BY DEF InHand, Holds, Kept, Connected
<1>5. FileOpen'
  BY DEF FileOpen, Connected, Kept
<1>6. LoginReady'
  BY DEF LoginReady
<1>7. SessionKept'
  BY DEF SessionKept
<1> QED BY <1>1, <1>2, <1>3, <1>4, <1>5, <1>6, <1>7

LEMMA ClearUnreachableStep ==
  ASSUME IInv, NEW p \in Procs, ClearUnreachable(p)
  PROVE  IInv'
<1> USE DEF IInv, ClearUnreachable, Fault, Goes, files, ghosts
<1>1. TypeOK'
  BY SessionAssumption DEF TypeOK
<1>2. OneAtWork'
  BY DEF OneAtWork
<1>3. InHand'
  BY DEF InHand, Holds, Kept, Connected
<1>4. FileOpen'
  BY DEF FileOpen, Connected, Kept
<1>5. InFile'
  BY DEF InFile, Kept
<1>6. LoginReady'
  BY DEF LoginReady
<1>7. SessionKept'
  BY DEF SessionKept
<1> QED BY <1>1, <1>2, <1>3, <1>4, <1>5, <1>6, <1>7

LEMMA KillStep ==
  ASSUME IInv, NEW p \in Procs, Kill(p)
  PROVE  IInv'
<1> USE DEF IInv, Kill, Fault, Over, files, server
<1>1. InFile'
  BY DEF InFile, Kept
<1>2. TypeOK'
  BY SessionAssumption DEF TypeOK
<1>3. OneAtWork'
  BY DEF OneAtWork, TypeOK
<1>4. InHand'
  BY DEF InHand, Holds, Kept, Connected, TypeOK
<1>5. FileOpen'
  BY DEF FileOpen, Connected, Kept, TypeOK
<1>6. LoginReady'
  BY DEF LoginReady
<1>7. SessionKept'
  BY DEF SessionKept, TypeOK
<1> QED BY <1>1, <1>2, <1>3, <1>4, <1>5, <1>6, <1>7

LEMMA RemoveAccountStep ==
  ASSUME IInv, RemoveAccount
  PROVE  IInv'
<1> USE DEF IInv, RemoveAccount, Unlink, server, Connected
<1>1. OneAtWork'
  BY DEF OneAtWork
<1>2. TypeOK'
  BY DEF TypeOK
<1>3. InHand'
  BY DEF InHand, Kept
<1>4. FileOpen'
  BY DEF FileOpen, Kept
<1>5. InFile'
  BY DEF InFile, Kept
<1>6. LoginReady'
  BY DEF LoginReady
<1>7. SessionKept'
  BY DEF SessionKept
<1> QED BY <1>1, <1>2, <1>3, <1>4, <1>5, <1>6, <1>7

LEMMA ExpireStep ==
  ASSUME IInv, Expire
  PROVE  IInv'
<1> USE DEF IInv, Expire, proc, files, ghosts
<1>1. OneAtWork' /\ LoginReady' /\ SessionKept'
  BY DEF OneAtWork, LoginReady, SessionKept
<1>2. TypeOK'
  BY DEF TypeOK
<1>3. InHand'
  BY DEF InHand, Holds, Kept, Connected
<1>4. FileOpen'
  BY DEF FileOpen, Connected, Kept
<1>5. InFile'
  BY DEF InFile, Kept
<1> QED BY <1>1, <1>2, <1>3, <1>4, <1>5

-----------------------------------------------------------------------------
(* The theorems.                                                           *)

LEMMA InitInv == Init => IInv
<1> SUFFICES ASSUME Init PROVE IInv
  OBVIOUS
<1>1. \/ target = [NewFile(1) EXCEPT !.live = None]
      \/ target = [NewFile(1) EXCEPT !.live = Junk]
  BY DEF Init
<1>2. /\ target \in FileType /\ target # None
      /\ target.live \in {None, Junk} /\ target.backup = None
  <2>1. 1 \in 0 .. MaxLogin
    BY SessionAssumption
  <2>2. /\ NewFile(1) \in FileType /\ NewFile(1).backup = None
    BY <2>1, NewFileType
  <2>3. target \in FileType /\ target.live \in {None, Junk} /\ target.backup = None
    BY <1>1, <2>2 DEF FileType, Values
  <2> QED BY <2>3, FileParts
<1>3. TypeOK
  <2>1. /\ lock = None /\ staging = None
        /\ at = [p \in Procs |-> "idle"] /\ cmd = [p \in Procs |-> None]
        /\ mem = [p \in Procs |-> None]
        /\ dirty = [p \in Procs |-> FALSE] /\ orphan = [p \in Procs |-> FALSE]
        /\ alive = {} /\ opened = 0 /\ logins = 1
        /\ saved = {} /\ givenUp = {} /\ lost = {} /\ ~removed /\ ~cut /\ faults = 0
    BY DEF Init
  <2>2. removed \in BOOLEAN /\ cut \in BOOLEAN
    BY DEF Init
  <2> QED BY <1>2, <2>1, <2>2, SessionAssumption DEF TypeOK
<1>4. OneAtWork /\ InHand /\ FileOpen /\ LoginReady /\ SessionKept
  BY <1>2 DEF Init, OneAtWork, InHand, FileOpen, LoginReady, SessionKept, Holds, Connected, Kept
<1>5. InFile
  BY <1>2, NoIds DEF Init, InFile, Kept
<1> QED BY <1>3, <1>4, <1>5 DEF IInv

LEMMA StepInv == IInv /\ [Next]_vars => IInv'
<1> SUFFICES ASSUME IInv, [Next]_vars PROVE IInv'
  OBVIOUS
<1>1. ASSUME NEW p \in Procs, Acquire(p) \/ Save(p) PROVE IInv'
  BY <1>1, AcquireStep, SaveStep
<1>2. ASSUME NEW p \in Procs, Run(p) PROVE IInv'
  BY <1>2, RescueStep, RestoreStep, ConnectStep, StartTakeoutStep, NoTakeoutStep,
     ResumeStep, ProbeRefusedStep, DiscardStep, EnterTakeoutStep, TakeoutDelayedStep,
     DisconnectStep, NothingToClearStep, FinishStep, ClearLocallyStep, BeginLoginStep,
     LoginFailsStep, SignInStep, RemoveOldStep, ReplaceStep DEF Run
<1>3. ASSUME NEW p \in Procs, Trouble(p) PROVE IInv'
  BY <1>3, BusyStep, UnreadStep, RestoreFailsStep, RestoreUnsavedStep, ConnectFailsStep,
     ProbeUnansweredStep, DiscardRefusedStep, TakeoutFailsStep, ClearUnreachableStep,
     KillStep DEF Trouble
<1>4. CASE RemoveAccount \/ Expire
  BY <1>4, RemoveAccountStep, ExpireStep
<1>5. CASE UNCHANGED vars
  BY <1>5 DEF vars, proc, files, server, ghosts, IInv, TypeOK, OneAtWork, InHand, FileOpen,
     InFile, LoginReady, SessionKept, Kept, Holds, Connected, Rescued, Usable
<1> QED BY <1>1, <1>2, <1>3, <1>4, <1>5 DEF Next

LEMMA ReachableInv == Spec => []IInv
BY InitInv, StepInv, PTL DEF Spec

\* Every variable keeps its type: the file is missing or a file, what a process
\* holds is an id the server gave or nothing.
THEOREM TypeCorrect == Spec => []TypeOK
<1>1. IInv => TypeOK
  BY DEF IInv
<1> QED BY <1>1, ReachableInv, PTL

\* However many commands run, are refused, fail or are killed one after the
\* other, a takeout id that was saved and is still honoured stays in the file.
THEOREM TakeoutIsKept == Spec => []TakeoutKept
<1>1. IInv => TakeoutKept
  <2> SUFFICES ASSUME IInv, NEW t \in Kept
               PROVE  target # None /\ t \in {target.live, target.backup}
    BY DEF TakeoutKept
  <2>1. target # None /\ t = Rescued(target)
    BY DEF IInv, InFile
  <2> QED BY <2>1 DEF Rescued, Usable
<1> QED BY <1>1, ReachableInv, PTL

\* No command but the user's own removal of the account unlinks the file that
\* another one has open.
THEOREM WritersKeepTheFile == Spec => []NoLostWriter
<1>1. IInv => NoLostWriter
  BY DEF IInv, FileOpen, NoLostWriter
<1> QED BY <1>1, ReachableInv, PTL

\* The account has its session at every moment of a login but the one between
\* the deletion of the old file and the move of the new.
THEOREM SessionStays == Spec => []SessionKept
<1>1. IInv => SessionKept
  BY DEF IInv
<1> QED BY <1>1, ReachableInv, PTL

\* A step that opens a takeout finds no saved one that is still honoured.
THEOREM TakeoutIsReused == Spec => ReusedWhileAlive
<1>1. ASSUME IInv, [Next]_vars PROVE opened' > opened => Kept = {}
  <2> SUFFICES ASSUME opened' > opened PROVE Kept = {}
    OBVIOUS
  <2>1. UNCHANGED opened \/ \E p \in Procs : EnterTakeout(p)
    BY <1>1 DEF Next, vars, server, Run, Trouble, Acquire, Save, Rescue, Restore, Connect,
       StartTakeout, NoTakeout, Resume, ProbeRefused, Discard, TakeoutDelayed, Disconnect,
       NothingToClear, Finish, ClearLocally, BeginLogin, LoginFails, SignIn, RemoveOld,
       Replace, Busy, Unread, RestoreFails, RestoreUnsaved, ConnectFails, ProbeUnanswered,
       DiscardRefused, TakeoutFails, ClearUnreachable, Kill, RemoveAccount, Expire
  <2>2. PICK p \in Procs : EnterTakeout(p)
    BY <1>1, <2>1 DEF IInv, TypeOK
  <2>3. Kept \subseteq {mem[p]} /\ mem[p] = None
    BY <1>1, <2>2 DEF EnterTakeout, IInv, InHand, Holds, Connected
  <2> QED BY <1>1, <2>3, NoIds DEF Kept, IInv, TypeOK
<1>2. IInv /\ [Next]_vars => [opened' > opened => Kept = {}]_vars
  BY <1>1
<1> QED BY <1>2, ReachableInv, PTL DEF Spec, ReusedWhileAlive
=============================================================================
