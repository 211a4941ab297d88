-------------------------- MODULE MediaStoreProofs --------------------------
(***************************************************************************)
(* Proofs about MediaStore, for any files, chats and messages: that the    *)
(* search for a free name finds one, that every variable has its type, and *)
(* that two messages carrying the same file never both download it.  Then, *)
(* for any number of faults of the kinds each theorem allows, that no two  *)
(* rows share a path and that a fine row has its whole file.               *)
(***************************************************************************)
EXTENDS MediaStore, FiniteSetTheorems, SequenceTheorems, TLAPS

Bases == {NameOf[f] : f \in Files}

\* The disk has finitely many files: there is always a number left.
FiniteDisk == IsFiniteSet(DOMAIN disk)

\* A task that registers knows its row, a thread what it reads and, once it
\* has claimed a name, where it writes.
TasksKnow ==
  \A m \in Messages :
    /\ task[m] = "register" => due[m] \in RowType
    /\ work[m].at # "none" => work[m].src \in Paths \cup {Foreign}
    /\ work[m].at \in {"hand", "copy", "done"} => work[m].dst \in Paths

\* Who uses the lock of a file.
Users(f) == {m \in Messages : FileOf[m] = f /\ task[m] # "none"}

\* The messages whose download has begun are of the chat being exported, and
\* those that carry the same file hold the same lock, the one in the
\* dictionary.
SameLock ==
  \A m \in Messages :
    task[m] # "none" =>
      /\ m \in walked /\ where = ChatOf[m]
      /\ lock[FileOf[m]] # None /\ mine[m] = lock[FileOf[m]]

\* The count of the users of a lock is right.
UsersCounted == \A f \in Files : users[f] = Cardinality(Users(f))

\* One task is behind the lock of a file.
OneInside ==
  \A m, n \in Messages : FileOf[m] = FileOf[n] /\ Inside(m) /\ Inside(n) => m = n

\* Whoever is past the look at the rows found none of its own.
NotYetHad == \A m \in Messages : task[m] \in {"reuse", "fetch"} => ~Have(m)

IInv ==
  /\ StoreTypes /\ RunTypes /\ TaskTypes /\ LockTypes /\ ThreadTypes
  /\ NumberTypes /\ PassTypes
  /\ FiniteDisk /\ TasksKnow
  /\ SameLock /\ UsersCounted /\ OneInside /\ NotYetHad

-----------------------------------------------------------------------------
(* The numbers of a name.                                                  *)

\* Two numbers make two names.
LEMMA CandidatesDiffer ==
  ASSUME NEW c, NEW name, name.no \in Seq(Nat), NEW i \in Nat, NEW j \in Nat,
         Candidate(c, name, i) = Candidate(c, name, j)
  PROVE  i = j
<1> DEFINE No(k) == IF k = 0 THEN name.no ELSE Append(name.no, k)
<1>1. No(i) = No(j)
  BY DEF Candidate
<1>2. \A k \in Nat \ {0} : /\ Len(Append(name.no, k)) = Len(name.no) + 1
                           /\ Append(name.no, k)[Len(name.no) + 1] = k
  BY AppendProperties
<1>3. Len(name.no) \in Nat
  BY LenProperties
<1>4. CASE i = 0 /\ j # 0
  BY <1>1, <1>2, <1>3, <1>4
<1>5. CASE i # 0 /\ j = 0
  BY <1>1, <1>2, <1>3, <1>5
<1>6. CASE i # 0 /\ j # 0
  <2>1. Append(name.no, i) = Append(name.no, j)
    BY <1>1, <1>6
  <2> QED BY <2>1, <1>2, <1>6
<1> QED BY <1>4, <1>5, <1>6

\* Every set of numbers has a least one.
LEMMA LeastNumber ==
  ASSUME NEW S \in SUBSET Nat, S # {}
  PROVE  \E i \in S : \A j \in S : i <= j
<1>1. PICK i \in S : \A j \in S : ~(<<j, i>> \in OpToRel(<, Nat))
  BY WFMin, NatLessThanWellFounded
<1>2. ASSUME NEW j \in S PROVE i <= j
  <2>1. i \in Nat /\ j \in Nat
    OBVIOUS
  <2>2. ~(j < i)
    BY <1>1, <2>1 DEF OpToRel
  <2> QED BY <2>1, <2>2
<1> QED BY <1>2

\* The first name outside a finite set of names exists: the search tries one
\* name more than there are in the set.
LEMMA FirstIsOutside ==
  ASSUME NEW c, NEW name, name.no \in Seq(Nat), NEW from \in Nat,
         NEW bad, IsFiniteSet(bad)
  PROVE  /\ FirstOutside(c, name, from, bad) \in Nat
         /\ Candidate(c, name, FirstOutside(c, name, from, bad)) \notin bad
<1> DEFINE tried == from .. from + Cardinality(bad)
           good == {i \in tried : Candidate(c, name, i) \notin bad}
<1>1. Cardinality(bad) \in Nat
  BY FS_CardinalityType
<1>2. IsFiniteSet(tried) /\ Cardinality(tried) = Cardinality(bad) + 1
  <2> DEFINE last == from + Cardinality(bad)
  <2>1. from \in Int /\ last \in Int /\ from <= last /\ last - from + 1 = Cardinality(bad) + 1
    BY <1>1
  <2> HIDE DEF last
  <2>2. /\ IsFiniteSet(from .. last)
        /\ Cardinality(from .. last) = IF from > last THEN 0 ELSE last - from + 1
    BY <2>1, FS_Interval
  <2>3. Cardinality(from .. last) = Cardinality(bad) + 1
    BY <2>1, <2>2
  <2> QED BY <2>2, <2>3 DEF last
<1>3. tried \subseteq Nat
  BY <1>1
<1>4. good # {}
  <2> SUFFICES ASSUME good = {} PROVE FALSE
    OBVIOUS
  <2> DEFINE named == [i \in tried |-> Candidate(c, name, i)]
  <2>1. named \in [tried -> bad]
    OBVIOUS
  <2>2. Cardinality(bad) < Cardinality(tried)
    BY <1>1, <1>2
  <2> HIDE DEF tried, named
  <2>3. PICK i, j \in tried : i # j /\ named[i] = named[j]
    BY <1>2, <2>1, <2>2, FS_PigeonHole
  <2>4. Candidate(c, name, i) = Candidate(c, name, j)
    BY <2>3 DEF named
  <2> QED BY <2>3, <2>4, <1>3, CandidatesDiffer
<1>5. PICK i \in good : \A j \in good : i <= j
  BY <1>3, <1>4, LeastNumber
<1>6. \E k \in tried :
        Candidate(c, name, k) \notin bad /\ \A j \in tried : Candidate(c, name, j) \notin bad => k <= j
  BY <1>5
<1>7. FirstOutside(c, name, from, bad) \in tried
      /\ Candidate(c, name, FirstOutside(c, name, from, bad)) \notin bad
  BY <1>6 DEF FirstOutside
<1> QED BY <1>3, <1>7
-----------------------------------------------------------------------------
(* The lock of a file.                                                     *)

LEMMA Kept ==
  /\ UNCHANGED <<disk, rows>> => StoreTypes' = StoreTypes
  /\ UNCHANGED <<where, visited, walked>> => RunTypes' = RunTypes
  /\ UNCHANGED <<task, due>> => TaskTypes' = TaskTypes
  /\ UNCHANGED <<lock, users, mine>> => LockTypes' = LockTypes
  /\ UNCHANGED <<work>> => ThreadTypes' = ThreadTypes
  /\ UNCHANGED <<cursor, faults>> => NumberTypes' = NumberTypes
  /\ UNCHANGED <<rows, todo, repaired>> => PassTypes' = PassTypes
  /\ UNCHANGED <<disk>> => FiniteDisk' = FiniteDisk
  /\ UNCHANGED <<task, due, work>> => TasksKnow' = TasksKnow
  /\ UNCHANGED <<task, walked, where, lock, mine>> => SameLock' = SameLock
  /\ UNCHANGED <<task, users>> => UsersCounted' = UsersCounted
  /\ UNCHANGED <<task>> => OneInside' = OneInside
  /\ UNCHANGED <<task, rows>> => NotYetHad' = NotYetHad
BY DEF StoreTypes, RunTypes, TaskTypes, LockTypes, ThreadTypes, NumberTypes, PassTypes,
       FiniteDisk, TasksKnow, SameLock, UsersCounted, Users, OneInside, NotYetHad,
       Inside, Have, Sources

LEMMA UsersAreFinite ==
  ASSUME NEW f \in Files
  PROVE  IsFiniteSet(Users(f)) /\ Cardinality(Users(f)) \in Nat
<1>1. Users(f) \in SUBSET Messages
  BY DEF Users
<1>2. IsFiniteSet(Users(f))
  BY <1>1, MediaAssumption, FS_Subset
<1> QED BY <1>2, FS_CardinalityType

\* A step between two stages of a download changes no count.
LEMMA SameUsers ==
  ASSUME UsersCounted, UNCHANGED users,
         \A m \in Messages : task'[m] = "none" <=> task[m] = "none"
  PROVE  UsersCounted'
<1>1. \A f \in Files : Users(f)' = Users(f)
  BY DEF Users
<1> QED BY <1>1 DEF UsersCounted

\* When every task is gone nobody uses a lock.
LEMMA NobodyLeft ==
  ASSUME task' = [m \in Messages |-> "none"], users' = [f \in Files |-> 0]
  PROVE  UsersCounted'
<1>1. \A f \in Files : Users(f)' = {}
  BY DEF Users
<1> QED BY <1>1, FS_EmptySet DEF UsersCounted

\* A task that begins joins those that have the lock of its file.
LEMMA UserEnters ==
  ASSUME IInv, NEW m \in Messages, Begin(m)
  PROVE  LockTypes' /\ SameLock' /\ UsersCounted'
<1> DEFINE f == FileOf[m]
<1>1. f \in Files /\ task[m] = "none"
  BY MediaAssumption DEF Begin, IInv, SameLock, TaskTypes
<1>2. /\ lock' = [lock EXCEPT ![f] = IF lock[f] = None THEN m ELSE lock[f]]
      /\ mine' = [mine EXCEPT ![m] = lock'[f]]
      /\ users' = [users EXCEPT ![f] = @ + 1]
      /\ task' = [task EXCEPT ![m] = "wait"]
      /\ walked' = walked \cup {m} /\ where = ChatOf[m] /\ where' = where
  BY DEF Begin
<1>3. lock'[f] \in Messages /\ lock'[f] # None
  BY <1>1, <1>2, MediaAssumption DEF IInv, LockTypes
<1>4. LockTypes'
  <2>1. lock' \in [Files -> Messages \cup {None}]
    BY <1>1, <1>2 DEF IInv, LockTypes
  <2>2. mine' \in [Messages -> Messages \cup {None}]
    BY <1>2, <1>3 DEF IInv, LockTypes
  <2>3. users' \in [Files -> Nat]
    BY <1>1, <1>2 DEF IInv, LockTypes
  <2> QED BY <2>1, <2>2, <2>3 DEF LockTypes
<1>5. SameLock'
  <2> SUFFICES ASSUME NEW n \in Messages, task'[n] # "none"
               PROVE  /\ n \in walked' /\ where' = ChatOf[n]
                      /\ lock'[FileOf[n]] # None /\ mine'[n] = lock'[FileOf[n]]
    BY DEF SameLock
  <2>1. CASE n = m
    BY <1>2, <1>3, <2>1 DEF IInv, LockTypes
  <2>2. CASE n # m
    <3>1. task[n] # "none"
      BY <1>2, <2>2 DEF IInv, TaskTypes
    <3>2. /\ n \in walked /\ where = ChatOf[n]
          /\ lock[FileOf[n]] # None /\ mine[n] = lock[FileOf[n]]
      BY <3>1 DEF IInv, SameLock
    <3>3. lock'[FileOf[n]] = lock[FileOf[n]] /\ mine'[n] = mine[n]
      BY <1>1, <1>2, <2>2, <3>2, MediaAssumption DEF IInv, LockTypes
    <3> QED BY <1>2, <3>2, <3>3
  <2> QED BY <2>1, <2>2
<1>6. UsersCounted'
  <2> SUFFICES ASSUME NEW g \in Files PROVE users'[g] = Cardinality(Users(g)')
    BY DEF UsersCounted
  <2>1. CASE g = f
    <3>1. Users(f)' = Users(f) \cup {m} /\ m \notin Users(f)
      BY <1>1, <1>2 DEF Users, IInv, TaskTypes
    <3>2. Cardinality(Users(f) \cup {m}) = Cardinality(Users(f)) + 1
      BY <1>1, <3>1, UsersAreFinite, FS_AddElement
    <3>3. users'[f] = users[f] + 1 /\ users[f] = Cardinality(Users(f))
      BY <1>1, <1>2 DEF IInv, LockTypes, UsersCounted
    <3> QED BY <2>1, <3>1, <3>2, <3>3
  <2>2. CASE g # f
    <3>1. Users(g)' = Users(g)
      BY <1>1, <1>2, <2>2 DEF Users, IInv, TaskTypes
    <3>2. users'[g] = users[g]
      BY <1>1, <1>2, <2>2 DEF IInv, LockTypes
    <3> QED BY <3>1, <3>2 DEF IInv, UsersCounted
  <2> QED BY <2>1, <2>2
<1> QED BY <1>4, <1>5, <1>6

\* A task that ends leaves the lock to the others; the last one takes it out of
\* the dictionary.
LEMMA UserLeaves ==
  ASSUME IInv, NEW m \in Messages, task[m] # "none", EndTask(m),
         UNCHANGED <<where, walked>>
  PROVE  TaskTypes' /\ LockTypes' /\ SameLock' /\ UsersCounted' /\ OneInside'
<1> DEFINE f == FileOf[m]
<1>1. f \in Files
  BY MediaAssumption
<1>2. /\ lock' = [lock EXCEPT ![f] = IF users[f] = 1 THEN None ELSE lock[f]]
      /\ mine' = [mine EXCEPT ![m] = None]
      /\ users' = [users EXCEPT ![f] = @ - 1]
      /\ task' = [task EXCEPT ![m] = "none"] /\ due' = [due EXCEPT ![m] = None]
  BY DEF EndTask, LeaveLock
<1>3. Users(f)' = Users(f) \ {m} /\ m \in Users(f)
  BY <1>1, <1>2 DEF Users, IInv, TaskTypes
<1>4. /\ users[f] = Cardinality(Users(f)) /\ Cardinality(Users(f)) \in Nat
      /\ Cardinality(Users(f)) # 0
      /\ Cardinality(Users(f) \ {m}) = Cardinality(Users(f)) - 1
  <2>1. IsFiniteSet(Users(f)) /\ Cardinality(Users(f)) \in Nat
    BY <1>1, UsersAreFinite
  <2>2. Cardinality(Users(f)) # 0
    BY <1>3, <2>1, FS_EmptySet
  <2>3. Cardinality(Users(f) \ {m}) = Cardinality(Users(f)) - 1
    BY <1>3, <2>1, FS_RemoveElement
  <2> QED BY <1>1, <2>1, <2>2, <2>3 DEF IInv, UsersCounted
<1>5. ASSUME users[f] = 1, NEW n \in Users(f) PROVE n = m
  <2>1. PICK x : Users(f) = {x}
    BY <1>1, <1>4, <1>5, UsersAreFinite, FS_Singleton
  <2> QED BY <1>3, <1>5, <2>1
<1>6. TaskTypes'
  <2>1. task' \in [Messages -> {"none", "wait", "reuse", "fetch", "register"}]
    BY <1>2 DEF IInv, TaskTypes
  <2>2. due' \in [Messages -> RowType \cup {None}]
    BY <1>2 DEF IInv, TaskTypes
  <2> QED BY <2>1, <2>2 DEF TaskTypes
<1>7. LockTypes'
  <2>1. lock' \in [Files -> Messages \cup {None}]
    BY <1>1, <1>2 DEF IInv, LockTypes
  <2>2. mine' \in [Messages -> Messages \cup {None}]
    BY <1>2 DEF IInv, LockTypes
  <2>3. users[f] - 1 \in Nat
    BY <1>4
  <2>4. users' \in [Files -> Nat]
    BY <1>1, <1>2, <2>3 DEF IInv, LockTypes
  <2> QED BY <2>1, <2>2, <2>4 DEF LockTypes
<1>8. SameLock'
  <2> SUFFICES ASSUME NEW n \in Messages, task'[n] # "none"
               PROVE  /\ n \in walked' /\ where' = ChatOf[n]
                      /\ lock'[FileOf[n]] # None /\ mine'[n] = lock'[FileOf[n]]
    BY DEF SameLock
  <2>1. n # m /\ task[n] # "none"
    BY <1>2 DEF IInv, TaskTypes
  <2>2. /\ n \in walked /\ where = ChatOf[n]
        /\ lock[FileOf[n]] # None /\ mine[n] = lock[FileOf[n]]
    BY <2>1 DEF IInv, SameLock
  <2>3. FileOf[n] = f => users[f] # 1
    BY <1>5, <2>1 DEF Users
  <2>4. FileOf[n] \in Files
    BY MediaAssumption
  <2>5. lock'[FileOf[n]] = lock[FileOf[n]]
    BY <1>1, <1>2, <2>3, <2>4 DEF IInv, LockTypes
  <2>6. mine'[n] = mine[n]
    BY <1>2, <2>1 DEF IInv, LockTypes
  <2> QED BY <2>2, <2>5, <2>6
<1>9. UsersCounted'
  <2> SUFFICES ASSUME NEW g \in Files PROVE users'[g] = Cardinality(Users(g)')
    BY DEF UsersCounted
  <2>1. CASE g = f
    <3>1. users'[f] = users[f] - 1
      BY <1>1, <1>2 DEF IInv, LockTypes
    <3> QED BY <1>3, <1>4, <2>1, <3>1
  <2>2. CASE g # f
    <3>1. Users(g)' = Users(g)
      BY <1>1, <1>2, <2>2 DEF Users, IInv, TaskTypes
    <3>2. users'[g] = users[g]
      BY <1>1, <1>2, <2>2 DEF IInv, LockTypes
    <3> QED BY <3>1, <3>2 DEF IInv, UsersCounted
  <2> QED BY <2>1, <2>2
<1>10. OneInside'
  BY <1>2 DEF IInv, OneInside, Inside, TaskTypes
<1> QED BY <1>6, <1>7, <1>8, <1>9, <1>10

-----------------------------------------------------------------------------
(* Rows, and what lies on the disk.                                        *)

Contents == [of : Files, whole : BOOLEAN]

DiskType(d) ==
  /\ DOMAIN d \subseteq Paths /\ IsFiniteSet(DOMAIN d)
  /\ \A p \in DOMAIN d : d[p] \in Contents

LEMMA TheDisk == IInv => DiskType(disk)
BY DEF IInv, StoreTypes, FiniteDisk, DiskType, Contents

LEMMA TheContents ==
  ASSUME NEW f \in Files
  PROVE  /\ Whole(f) \in Contents /\ Short(f) \in Contents
         /\ \A c \in Contents : SizeOn(c) \in Nat
BY MediaAssumption DEF Whole, Short, Contents, SizeOn, Truncated

LEMMA PutOn ==
  ASSUME NEW d, NEW path, NEW c
  PROVE  /\ DOMAIN Put(d, path, c) = DOMAIN d \cup {path}
         /\ \A p \in DOMAIN d \cup {path} :
              Put(d, path, c)[p] = IF p = path THEN c ELSE d[p]
BY DEF Put

LEMMA RemoveOn ==
  ASSUME NEW d, NEW paths
  PROVE  /\ DOMAIN Remove(d, paths) = DOMAIN d \ paths
         /\ \A p \in DOMAIN d \ paths : Remove(d, paths)[p] = d[p]
BY DEF Remove, Restrict

LEMMA DiskPut ==
  ASSUME NEW d, DiskType(d), NEW path \in Paths, NEW c \in Contents
  PROVE  DiskType(Put(d, path, c))
<1>1. IsFiniteSet(DOMAIN d \cup {path})
  BY FS_AddElement DEF DiskType
<1> DEFINE e == Put(d, path, c)
<1>2. DOMAIN e = DOMAIN d \cup {path}
  BY DEF Put
<1>3. \A p \in DOMAIN d \cup {path} : e[p] = IF p = path THEN c ELSE d[p]
  BY DEF Put
<1> HIDE DEF e
<1>4. IsFiniteSet(DOMAIN e) /\ DOMAIN e \subseteq Paths
  BY <1>1, <1>2 DEF DiskType
<1>5. \A p \in DOMAIN e : e[p] \in Contents
  BY <1>2, <1>3 DEF DiskType
<1> QED BY <1>4, <1>5 DEF DiskType, e

LEMMA DiskRemove ==
  ASSUME NEW d, DiskType(d), NEW paths
  PROVE  DiskType(Remove(d, paths))
<1>1. IsFiniteSet(DOMAIN d \ paths)
  BY FS_Difference DEF DiskType
<1> DEFINE e == Remove(d, paths)
<1>2. DOMAIN e = DOMAIN d \ paths
  BY RemoveOn
<1>3. \A p \in DOMAIN d \ paths : e[p] = d[p]
  BY RemoveOn
<1> HIDE DEF e
<1>4. IsFiniteSet(DOMAIN e) /\ DOMAIN e \subseteq Paths
  BY <1>1, <1>2 DEF DiskType
<1>5. \A p \in DOMAIN e : e[p] \in Contents
  BY <1>2, <1>3 DEF DiskType
<1> QED BY <1>4, <1>5 DEF DiskType, e

LEMMA DiskStays ==
  ASSUME IInv, DiskType(disk'), UNCHANGED rows
  PROVE  StoreTypes' /\ FiniteDisk'
BY DEF IInv, StoreTypes, FiniteDisk, DiskType, Contents

\* What a row says is in its type.
LEMMA RowIsTyped ==
  ASSUME NEW f \in Files, NEW d, DiskType(d), NEW path \in Paths
  PROVE  RowFor(f, d, path) \in RowType
<1>1. \A c \in Contents : SizeOn(c) \in Nat
  BY TheContents
<1> QED BY <1>1 DEF RowFor, RowType, DiskType

LEMMA ThePlain ==
  ASSUME NEW f \in Files
  PROVE  Plain(f).base \in Bases /\ Plain(f).no \in Seq(Nat)
<1>1. <<>> \in Seq(Nat)
  BY EmptySeq
<1> QED BY <1>1 DEF Plain, Bases

LEMMA CandidateIsPath ==
  ASSUME NEW c \in Chats, NEW name, name.base \in Bases, name.no \in Seq(Nat),
         NEW i \in Nat
  PROVE  Candidate(c, name, i) \in Paths
<1>1. Append(name.no, i) \in Seq(Nat)
  BY AppendProperties
<1> QED BY <1>1 DEF Candidate, Paths, Bases

LEMMA PathIsName ==
  ASSUME NEW p \in Paths
  PROVE  p.base \in Bases /\ p.no \in Seq(Nat)
BY DEF Paths, Bases

\* The names claimed are finitely many.
LEMMA ClaimsAreFinite == IsFiniteSet(Claimed)
<1> DEFINE dst == [m \in Working |-> work[m].dst]
<1>1. dst \in Surjection(Working, Claimed)
  BY DEF Surjection, Claimed
<1>2. IsFiniteSet(Working)
  <2>1. Working \in SUBSET Messages
    BY DEF Working
  <2> QED BY <2>1, MediaAssumption, FS_Subset
<1> HIDE DEF dst
<1> QED BY <1>1, <1>2, FS_Surjection

\* The names a reuse, a download and a repair take are names of the disk.
LEMMA ClaimedName ==
  ASSUME IInv, NEW m \in Messages, work[m].at = "claim"
  PROVE  Candidate(ChatOf[m], SourceName(m),
                   FirstOutside(ChatOf[m], SourceName(m), 0, Claimed)) \in Paths
<1>1. work[m].src \in Paths \cup {Foreign}
  BY DEF IInv, TasksKnow
<1>2. SourceName(m).base \in Bases /\ SourceName(m).no \in Seq(Nat)
  BY <1>1, ThePlain, PathIsName, MediaAssumption DEF SourceName
<1>3. FirstOutside(ChatOf[m], SourceName(m), 0, Claimed) \in Nat
  BY <1>2, ClaimsAreFinite, FirstIsOutside
<1> QED BY <1>2, <1>3, CandidateIsPath, MediaAssumption

LEMMA FetchedName ==
  ASSUME IInv, NEW m \in Messages
  PROVE  LET i == FirstOutside(ChatOf[m], Plain(FileOf[m]),
                               cursor[<<ChatOf[m], NameOf[FileOf[m]]>>], Occupied)
         IN i \in Nat /\ Candidate(ChatOf[m], Plain(FileOf[m]), i) \in Paths
<1> DEFINE from == cursor[<<ChatOf[m], NameOf[FileOf[m]]>>]
           name == Plain(FileOf[m])
<1>1. from \in Nat
  BY MediaAssumption DEF IInv, NumberTypes
<1>2. name.base \in Bases /\ name.no \in Seq(Nat)
  BY ThePlain, MediaAssumption
<1>3. IsFiniteSet(Occupied)
  BY ClaimsAreFinite, FS_Union DEF Occupied, IInv, FiniteDisk
<1> HIDE DEF from, name
<1>4. FirstOutside(ChatOf[m], name, from, Occupied) \in Nat
  BY <1>1, <1>2, <1>3, FirstIsOutside
<1>5. Candidate(ChatOf[m], name, FirstOutside(ChatOf[m], name, from, Occupied)) \in Paths
  BY <1>2, <1>4, CandidateIsPath, MediaAssumption
<1> QED BY <1>4, <1>5 DEF from, name

LEMMA ReplacementName ==
  ASSUME IInv, NEW p \in Places
  PROVE  Replacement(p) \in Paths
<1> DEFINE taken == DOMAIN disk \ {rows[p].path}
<1>1. IsFiniteSet(taken)
  BY FS_Difference DEF IInv, FiniteDisk
<1>2. p[1] \in Files /\ p[2] \in Chats
  BY MediaAssumption DEF Places, Place
<1>3. Plain(p[1]).base \in Bases /\ Plain(p[1]).no \in Seq(Nat)
  BY <1>2, ThePlain
<1> HIDE DEF taken
<1>4. FirstOutside(p[2], Plain(p[1]), 0, taken) \in Nat
  BY <1>1, <1>3, FirstIsOutside
<1>5. Candidate(p[2], Plain(p[1]), FirstOutside(p[2], Plain(p[1]), 0, taken)) \in Paths
  BY <1>2, <1>3, <1>4, CandidateIsPath
<1> QED BY <1>5 DEF Replacement, taken

\* What a thread hands over is a file, and it knows where to.
LEMMA ThreadReads ==
  ASSUME IInv, NEW m \in Messages, work[m].at \in {"hand", "copy"}, Readable(m)
  PROVE  /\ work[m].dst \in Paths
         /\ Content(m) \in Contents /\ Short(Content(m).of) \in Contents
<1>1. work[m].dst \in Paths
  BY DEF IInv, TasksKnow
<1>2. Content(m) \in Contents
  BY TheContents, MediaAssumption DEF Content, Readable, IInv, StoreTypes, Contents
<1>3. Content(m).of \in Files
  BY <1>2 DEF Contents
<1> QED BY <1>1, <1>2, <1>3, TheContents

-----------------------------------------------------------------------------
(* The other steps: what each of them disturbs.                            *)

LEMMA BeginStep ==
  ASSUME IInv, NEW m \in Messages, Begin(m)
  PROVE  IInv'
<1>1. StoreTypes' /\ ThreadTypes' /\ NumberTypes' /\ PassTypes' /\ FiniteDisk'
  BY Kept DEF IInv, Begin, stores, pass
<1>2. RunTypes'
  BY DEF IInv, Begin, RunTypes
<1>3. TaskTypes'
  BY DEF IInv, Begin, TaskTypes
<1>4. LockTypes' /\ SameLock' /\ UsersCounted'
  BY UserEnters
<1>5. TasksKnow'
  BY DEF IInv, Begin, TasksKnow
<1>6. OneInside'
  BY DEF IInv, Begin, OneInside, Inside
<1>7. NotYetHad'
  BY DEF IInv, Begin, stores, NotYetHad, Have, Sources
<1> QED BY <1>1, <1>2, <1>3, <1>4, <1>5, <1>6, <1>7 DEF IInv

LEMMA LookupStep ==
  ASSUME IInv, NEW m \in Messages, Lookup(m)
  PROVE  IInv'
<1>1. StoreTypes' /\ RunTypes' /\ NumberTypes' /\ PassTypes' /\ FiniteDisk'
  BY Kept DEF IInv, Lookup, stores, run, pass
<1>2. TaskTypes'
  <2>1. task[m] = "wait" /\ UNCHANGED <<where, walked>>
    BY DEF Lookup, HasLock, run
  <2>2. CASE Have(m)
    <3>1. EndTask(m)
      BY <2>2 DEF Lookup
    <3> QED BY <2>1, <3>1, UserLeaves
  <2>3. CASE ~Have(m)
    <3>1. /\ \E stage \in {"reuse", "fetch"} : task' = [task EXCEPT ![m] = stage]
          /\ UNCHANGED <<due, lock, users, mine>>
      BY <2>3 DEF Lookup, NextSource, StartThread
    <3> QED BY <3>1 DEF IInv, TaskTypes
  <2> QED BY <2>2, <2>3
<1>3. LockTypes'
  <2>1. task[m] = "wait" /\ UNCHANGED <<where, walked>>
    BY DEF Lookup, HasLock, run
  <2>2. CASE Have(m)
    <3>1. EndTask(m)
      BY <2>2 DEF Lookup
    <3> QED BY <2>1, <3>1, UserLeaves
  <2>3. CASE ~Have(m)
    <3>1. /\ \E stage \in {"reuse", "fetch"} : task' = [task EXCEPT ![m] = stage]
          /\ UNCHANGED <<due, lock, users, mine>>
      BY <2>3 DEF Lookup, NextSource, StartThread
    <3> QED BY <3>1 DEF IInv, LockTypes
  <2> QED BY <2>2, <2>3
<1>4. ThreadTypes'
  <2>1. \A p \in Sources(m) : rows[p].path \in Paths
    BY DEF Sources, IInv, StoreTypes, RowType
  <2>2. \/ work' = work
        \/ \E src \in Paths \cup {Foreign} : work' = [work EXCEPT ![m] = [at |-> "claim", src |-> src, dst |-> None]]
        \/ work' = [work EXCEPT ![m] = [at |-> "none", src |-> None, dst |-> None]]
    BY <2>1 DEF Lookup, StartThread, NextSource
  <2> QED BY <2>2 DEF IInv, ThreadTypes, WorkType
<1>5. TasksKnow'
  <2>1. \A p \in Sources(m) : rows[p].path \in Paths
    BY DEF Sources, IInv, StoreTypes, RowType
  <2>2. \/ work' = work
        \/ \E src \in Paths \cup {Foreign} : work' = [work EXCEPT ![m] = [at |-> "claim", src |-> src, dst |-> None]]
        \/ work' = [work EXCEPT ![m] = [at |-> "none", src |-> None, dst |-> None]]
    BY <2>1 DEF Lookup, StartThread, NextSource
  <2>3. /\ \E stage \in {"none", "reuse", "fetch"} : task' = [task EXCEPT ![m] = stage]
        /\ \A n \in Messages \ {m} : due'[n] = due[n]
    BY DEF Lookup, StartThread, NextSource, EndTask, IInv, TaskTypes
  <2>4. \A n \in Messages : task'[n] = "register" => n # m /\ task[n] = "register"
    BY <2>3 DEF IInv, TaskTypes
  <2>5. \A n \in Messages : task'[n] = "register" => due'[n] \in RowType
    BY <2>3, <2>4 DEF IInv, TasksKnow
  <2>6. \A n \in Messages :
          /\ work'[n].at # "none" => work'[n].src \in Paths \cup {Foreign}
          /\ work'[n].at \in {"hand", "copy", "done"} => work'[n].dst \in Paths
    BY <2>2 DEF IInv, TasksKnow, ThreadTypes
  <2> QED BY <2>5, <2>6 DEF TasksKnow
<1>6. SameLock'
  <2>1. task[m] = "wait" /\ UNCHANGED <<where, walked>>
    BY DEF Lookup, HasLock, run
  <2>2. CASE Have(m)
    <3>1. EndTask(m)
      BY <2>2 DEF Lookup
    <3> QED BY <2>1, <3>1, UserLeaves
  <2>3. CASE ~Have(m)
    <3>1. /\ \E stage \in {"reuse", "fetch"} : task' = [task EXCEPT ![m] = stage]
          /\ UNCHANGED <<due, lock, users, mine>>
      BY <2>3 DEF Lookup, NextSource, StartThread
    <3> QED BY <2>1, <3>1 DEF IInv, SameLock, TaskTypes
  <2> QED BY <2>2, <2>3
<1>7. UsersCounted'
  <2>1. task[m] = "wait" /\ UNCHANGED <<where, walked>>
    BY DEF Lookup, HasLock, run
  <2>2. CASE Have(m)
    <3>1. EndTask(m)
      BY <2>2 DEF Lookup
    <3> QED BY <2>1, <3>1, UserLeaves
  <2>3. CASE ~Have(m)
    <3>1. /\ \E stage \in {"reuse", "fetch"} : task' = [task EXCEPT ![m] = stage]
          /\ UNCHANGED <<due, lock, users, mine>>
      BY <2>3 DEF Lookup, NextSource, StartThread
    <3>2. \A n \in Messages : task'[n] = "none" <=> task[n] = "none"
      BY <2>1, <3>1 DEF IInv, TaskTypes
    <3> QED BY <3>1, <3>2, SameUsers DEF IInv
  <2> QED BY <2>2, <2>3
<1>8. OneInside'
  <2>1. task[m] = "wait" /\ UNCHANGED <<where, walked>>
    BY DEF Lookup, HasLock, run
  <2>2. CASE Have(m)
    <3>1. EndTask(m)
      BY <2>2 DEF Lookup
    <3> QED BY <2>1, <3>1, UserLeaves
  <2>3. CASE ~Have(m)
    <3>1. /\ \E stage \in {"reuse", "fetch"} : task' = [task EXCEPT ![m] = stage]
          /\ UNCHANGED <<due, lock, users, mine>>
      BY <2>3 DEF Lookup, NextSource, StartThread
    <3>2. \A n \in Messages \ {m} : FileOf[n] = FileOf[m] => ~Inside(n)
      <4> SUFFICES ASSUME NEW n \in Messages \ {m}, FileOf[n] = FileOf[m], Inside(n) PROVE FALSE
        OBVIOUS
      <4>1. mine[n] # mine[m]
        BY DEF Lookup, HasLock
      <4>2. task[n] # "none"
        BY DEF Inside
      <4> QED BY <2>1, <4>1, <4>2 DEF IInv, SameLock
    <3> QED BY <3>1, <3>2 DEF IInv, OneInside, Inside, TaskTypes
  <2> QED BY <2>2, <2>3
<1>9. NotYetHad'
  <2> SUFFICES ASSUME NEW n \in Messages, task'[n] \in {"reuse", "fetch"} PROVE ~Have(n)'
    BY DEF NotYetHad
  <2>1. rows' = rows
    BY DEF Lookup, stores
  <2>2. Have(n)' = Have(n)
    BY <2>1 DEF Have, Sources
  <2>3. CASE n = m
    <3>1. CASE Have(m)
      BY <2>3, <3>1 DEF Lookup, EndTask, IInv, TaskTypes
    <3>2. CASE ~Have(m)
      BY <2>2, <2>3, <3>2
    <3> QED BY <3>1, <3>2
  <2>4. CASE n # m
    <3>1. task'[n] = task[n]
      BY <2>4 DEF Lookup, EndTask, StartThread, NextSource, IInv, TaskTypes
    <3> QED BY <2>2, <3>1 DEF IInv, NotYetHad
  <2> QED BY <2>3, <2>4
<1> QED BY <1>1, <1>2, <1>3, <1>4, <1>5, <1>6, <1>7, <1>8, <1>9 DEF IInv

LEMMA ClaimForReuseStep ==
  ASSUME IInv, NEW m \in Messages, ClaimForReuse(m)
  PROVE  IInv'
<1>1. RunTypes' /\ TaskTypes' /\ LockTypes' /\ NumberTypes' /\ PassTypes' /\ SameLock' /\ UsersCounted' /\ OneInside' /\ NotYetHad'
  BY Kept DEF IInv, ClaimForReuse, run, tasks, pass
<1>2. StoreTypes' /\ FiniteDisk'
  <2> DEFINE c == ChatOf[m]
             dst == Candidate(c, SourceName(m), FirstOutside(c, SourceName(m), 0, Claimed))
             want == Expected(FileOf[m])
             adopt == dst \in DOMAIN disk /\ want \in {0, SizeOn(disk[dst])}
  <2>1. dst \in Paths
    BY ClaimedName DEF ClaimForReuse
  <2>2. /\ work' = [work EXCEPT ![m].dst = dst, ![m].at = IF adopt THEN "done" ELSE "hand"]
        /\ disk' = IF adopt THEN disk ELSE Remove(disk, {dst})
        /\ UNCHANGED <<rows, task, due>> /\ work[m].at = "claim"
    BY DEF ClaimForReuse, tasks
  <2> HIDE DEF dst, adopt
  <2>3. DiskType(disk')
    BY <2>2, TheDisk, DiskRemove
  <2> QED BY <2>2, <2>3, DiskStays
<1>3. ThreadTypes'
  <2> DEFINE c == ChatOf[m]
             dst == Candidate(c, SourceName(m), FirstOutside(c, SourceName(m), 0, Claimed))
             want == Expected(FileOf[m])
             adopt == dst \in DOMAIN disk /\ want \in {0, SizeOn(disk[dst])}
  <2>1. dst \in Paths
    BY ClaimedName DEF ClaimForReuse
  <2>2. /\ work' = [work EXCEPT ![m].dst = dst, ![m].at = IF adopt THEN "done" ELSE "hand"]
        /\ disk' = IF adopt THEN disk ELSE Remove(disk, {dst})
        /\ UNCHANGED <<rows, task, due>> /\ work[m].at = "claim"
    BY DEF ClaimForReuse, tasks
  <2> HIDE DEF dst, adopt
  <2>3. work[m] \in WorkType
    BY DEF IInv, ThreadTypes
  <2>4. work' = [work EXCEPT ![m] = [work[m] EXCEPT !.dst = dst, !.at = IF adopt THEN "done" ELSE "hand"]]
    BY <2>2 DEF IInv, ThreadTypes
  <2>5. [work[m] EXCEPT !.dst = dst, !.at = IF adopt THEN "done" ELSE "hand"] \in WorkType
    BY <2>1, <2>3 DEF WorkType
  <2> QED BY <2>4, <2>5 DEF IInv, ThreadTypes
<1>4. TasksKnow'
  <2> DEFINE c == ChatOf[m]
             dst == Candidate(c, SourceName(m), FirstOutside(c, SourceName(m), 0, Claimed))
             want == Expected(FileOf[m])
             adopt == dst \in DOMAIN disk /\ want \in {0, SizeOn(disk[dst])}
  <2>1. dst \in Paths
    BY ClaimedName DEF ClaimForReuse
  <2>2. /\ work' = [work EXCEPT ![m].dst = dst, ![m].at = IF adopt THEN "done" ELSE "hand"]
        /\ disk' = IF adopt THEN disk ELSE Remove(disk, {dst})
        /\ UNCHANGED <<rows, task, due>> /\ work[m].at = "claim"
    BY DEF ClaimForReuse, tasks
  <2> HIDE DEF dst, adopt
  <2>3. work[m] \in WorkType
    BY DEF IInv, ThreadTypes
  <2>4. /\ \A n \in Messages \ {m} : work'[n] = work[n]
        /\ work'[m].src = work[m].src /\ work'[m].dst = dst
    BY <2>2, <2>3 DEF IInv, ThreadTypes, WorkType
  <2> QED BY <2>1, <2>2, <2>4 DEF IInv, TasksKnow
<1> QED BY <1>1, <1>2, <1>3, <1>4 DEF IInv

LEMMA HandOverStep ==
  ASSUME IInv, NEW m \in Messages, HandOver(m)
  PROVE  IInv'
<1>1. RunTypes' /\ TaskTypes' /\ LockTypes' /\ NumberTypes' /\ PassTypes' /\ SameLock' /\ UsersCounted' /\ OneInside' /\ NotYetHad'
  BY Kept DEF IInv, HandOver, run, tasks, pass
<1>2. StoreTypes' /\ FiniteDisk'
  <2>1. work[m].dst \in Paths /\ Content(m) \in Contents /\ Short(Content(m).of) \in Contents
    BY ThreadReads DEF HandOver
  <2>2. \E x \in Contents : disk' = Put(disk, work[m].dst, x)
    BY <2>1 DEF HandOver
  <2>3. DiskType(disk')
    BY <2>1, <2>2, TheDisk, DiskPut
  <2> QED BY <2>3, DiskStays DEF HandOver
<1>3. ThreadTypes'
  <2>1. work[m] \in WorkType
    BY DEF IInv, ThreadTypes
  <2>2. \E at \in {"done", "copy"} : work' = [work EXCEPT ![m] = [work[m] EXCEPT !.at = at]]
    BY DEF HandOver, IInv, ThreadTypes
  <2>3. \A at \in {"done", "copy"} : [work[m] EXCEPT !.at = at] \in WorkType
    BY <2>1 DEF WorkType
  <2> QED BY <2>2, <2>3 DEF IInv, ThreadTypes
<1>4. TasksKnow'
  <2>1. work[m] \in WorkType /\ work[m].at = "hand" /\ UNCHANGED <<task, due>>
    BY DEF IInv, ThreadTypes, HandOver, tasks
  <2>2. \E at \in {"done", "copy"} : work' = [work EXCEPT ![m].at = at]
    BY DEF HandOver
  <2>3. /\ \A n \in Messages \ {m} : work'[n] = work[n]
        /\ work'[m].src = work[m].src /\ work'[m].dst = work[m].dst
    BY <2>1, <2>2 DEF IInv, ThreadTypes, WorkType
  <2> QED BY <2>1, <2>3 DEF IInv, TasksKnow
<1> QED BY <1>1, <1>2, <1>3, <1>4 DEF IInv

LEMMA CopyEndStep ==
  ASSUME IInv, NEW m \in Messages, CopyEnd(m)
  PROVE  IInv'
<1>1. RunTypes' /\ TaskTypes' /\ LockTypes' /\ NumberTypes' /\ PassTypes' /\ SameLock' /\ UsersCounted' /\ OneInside' /\ NotYetHad'
  BY Kept DEF IInv, CopyEnd, run, tasks, pass
<1>2. StoreTypes' /\ FiniteDisk'
  <2>1. work[m].dst \in Paths /\ Content(m) \in Contents /\ Short(Content(m).of) \in Contents
    BY ThreadReads DEF CopyEnd
  <2>2. disk' = Put(disk, work[m].dst, Content(m))
    BY DEF CopyEnd
  <2>3. DiskType(disk')
    BY <2>1, <2>2, TheDisk, DiskPut
  <2> QED BY <2>3, DiskStays DEF CopyEnd
<1>3. ThreadTypes'
  BY DEF IInv, CopyEnd, ThreadTypes, WorkType
<1>4. TasksKnow'
  BY DEF IInv, CopyEnd, tasks, TasksKnow
<1> QED BY <1>1, <1>2, <1>3, <1>4 DEF IInv

LEMMA HandOverFailsStep ==
  ASSUME IInv, NEW m \in Messages, HandOverFails(m)
  PROVE  IInv'
<1> USE DEF IInv, HandOverFails, tasks
<1>1. StoreTypes' /\ RunTypes' /\ TaskTypes' /\ LockTypes' /\ PassTypes' /\ FiniteDisk' /\ SameLock' /\ UsersCounted' /\ OneInside' /\ NotYetHad'
  BY Kept DEF stores, run, pass
<1>2. ThreadTypes'
  BY DEF ThreadTypes, WorkType
<1>3. NumberTypes'
  BY DEF Disturb, NumberTypes
<1>4. TasksKnow'
  BY DEF TasksKnow
<1> QED BY <1>1, <1>2, <1>3, <1>4

LEMMA ThreadReturnsStep ==
  ASSUME IInv, NEW m \in Messages, ThreadReturns(m)
  PROVE  IInv'
<1>1. StoreTypes' /\ RunTypes' /\ LockTypes' /\ NumberTypes' /\ PassTypes' /\ FiniteDisk'
  BY Kept DEF IInv, ThreadReturns, stores, run, pass
<1>2. TaskTypes'
  <2>1. CASE task[m] = "reuse" /\ work[m].at = "done"
    <3>1. /\ task' = [task EXCEPT ![m] = "register"]
          /\ due' = [due EXCEPT ![m] = RowFor(FileOf[m], disk, work[m].dst)]
          /\ work' = [work EXCEPT ![m] = [at |-> "none", src |-> None, dst |-> None]]
      BY <2>1 DEF ThreadReturns
    <3>2. work[m].dst \in Paths
      BY <2>1 DEF IInv, TasksKnow
    <3>3. RowFor(FileOf[m], disk, work[m].dst) \in RowType
      BY <3>2, TheDisk, RowIsTyped, MediaAssumption
    <3> QED BY <3>1, <3>3 DEF IInv, TaskTypes
  <2>2. CASE ~(task[m] = "reuse" /\ work[m].at = "done")
    <3>1. /\ task' = task \/ \E stage \in {"reuse", "fetch"} : task' = [task EXCEPT ![m] = stage]
          /\ due' = due
      BY <2>2 DEF ThreadReturns, NextSource, StartThread
    <3> QED BY <3>1 DEF IInv, TaskTypes
  <2> QED BY <2>1, <2>2
<1>3. ThreadTypes'
  BY DEF IInv, ThreadReturns, NextSource, StartThread, ThreadTypes, WorkType
<1>4. TasksKnow'
  <2>1. CASE task[m] = "reuse" /\ work[m].at = "done"
    <3>1. /\ task' = [task EXCEPT ![m] = "register"]
          /\ due' = [due EXCEPT ![m] = RowFor(FileOf[m], disk, work[m].dst)]
          /\ work' = [work EXCEPT ![m] = [at |-> "none", src |-> None, dst |-> None]]
      BY <2>1 DEF ThreadReturns
    <3>2. work[m].dst \in Paths
      BY <2>1 DEF IInv, TasksKnow
    <3>3. RowFor(FileOf[m], disk, work[m].dst) \in RowType
      BY <3>2, TheDisk, RowIsTyped, MediaAssumption
    <3>4. \A n \in Messages \ {m} : task'[n] = task[n] /\ due'[n] = due[n] /\ work'[n] = work[n]
      BY <3>1 DEF IInv, TaskTypes, ThreadTypes
    <3>5. due'[m] \in RowType /\ work'[m].at = "none"
      BY <3>1, <3>3 DEF IInv, TaskTypes, ThreadTypes
    <3> QED BY <3>4, <3>5 DEF IInv, TasksKnow
  <2>2. CASE ~(task[m] = "reuse" /\ work[m].at = "done")
    <3>1. /\ \A n \in Messages \ {m} : task'[n] = task[n] /\ work'[n] = work[n]
          /\ due' = due
          /\ task'[m] = "register" => task[m] = "register"
      BY <2>2 DEF ThreadReturns, NextSource, StartThread, IInv, TaskTypes, ThreadTypes
    <3>2. \/ work'[m] = [at |-> "none", src |-> None, dst |-> None]
          \/ work'[m] = [at |-> "claim", src |-> Foreign, dst |-> None]
      BY <2>2 DEF ThreadReturns, NextSource, StartThread, IInv, ThreadTypes
    <3> QED BY <3>1, <3>2 DEF IInv, TasksKnow
  <2> QED BY <2>1, <2>2
<1>5. SameLock'
  BY DEF IInv, ThreadReturns, NextSource, run, StartThread, SameLock,
     TaskTypes
<1>6. UsersCounted'
  <2>1. \A n \in Messages : task'[n] = "none" <=> task[n] = "none"
    BY DEF ThreadReturns, NextSource, StartThread, IInv, TaskTypes
  <2>2. users' = users
    BY DEF ThreadReturns
  <2> QED BY <2>1, <2>2, SameUsers DEF IInv
<1>7. OneInside'
  <2>1. \A n \in Messages : Inside(n)' <=> Inside(n)
    BY DEF ThreadReturns, NextSource, StartThread, IInv, TaskTypes, Inside
  <2> QED BY <2>1 DEF IInv, OneInside
<1>8. NotYetHad'
  BY MediaAssumption DEF IInv, ThreadReturns, NextSource, stores,
     StartThread, NotYetHad, Have, Sources, TaskTypes
<1> QED BY <1>1, <1>2, <1>3, <1>4, <1>5, <1>6, <1>7, <1>8 DEF IInv

LEMMA FetchStep ==
  ASSUME IInv, NEW m \in Messages, NEW c \in {Whole(FileOf[m]), Short(FileOf[m])}, Fetch(m, c)
  PROVE  IInv'
<1>1. RunTypes' /\ LockTypes' /\ ThreadTypes' /\ PassTypes'
  BY Kept DEF IInv, Fetch, run, pass
<1>2. StoreTypes' /\ FiniteDisk'
  <2> DEFINE i == FirstOutside(ChatOf[m], Plain(FileOf[m]), cursor[<<ChatOf[m], NameOf[FileOf[m]]>>], Occupied)
             dst == Candidate(ChatOf[m], Plain(FileOf[m]), i)
  <2>1. i \in Nat /\ dst \in Paths
    BY FetchedName
  <2>2. c \in Contents
    BY TheContents, MediaAssumption
  <2>3. /\ disk' = Put(disk, dst, c)
        /\ cursor' = [cursor EXCEPT ![<<ChatOf[m], NameOf[FileOf[m]]>>] = i + 1]
        /\ task' = [task EXCEPT ![m] = "register"]
        /\ due' = [due EXCEPT ![m] = RowFor(FileOf[m], disk', dst)]
        /\ UNCHANGED <<rows, work>>
    BY DEF Fetch
  <2> HIDE DEF i, dst
  <2>4. DiskType(disk')
    BY <2>1, <2>2, <2>3, TheDisk, DiskPut
  <2> QED BY <2>3, <2>4, DiskStays
<1>3. TaskTypes'
  <2> DEFINE i == FirstOutside(ChatOf[m], Plain(FileOf[m]), cursor[<<ChatOf[m], NameOf[FileOf[m]]>>], Occupied)
             dst == Candidate(ChatOf[m], Plain(FileOf[m]), i)
  <2>1. i \in Nat /\ dst \in Paths
    BY FetchedName
  <2>2. c \in Contents
    BY TheContents, MediaAssumption
  <2>3. /\ disk' = Put(disk, dst, c)
        /\ cursor' = [cursor EXCEPT ![<<ChatOf[m], NameOf[FileOf[m]]>>] = i + 1]
        /\ task' = [task EXCEPT ![m] = "register"]
        /\ due' = [due EXCEPT ![m] = RowFor(FileOf[m], disk', dst)]
        /\ UNCHANGED <<rows, work>>
    BY DEF Fetch
  <2> HIDE DEF i, dst
  <2>4. DiskType(disk')
    BY <2>1, <2>2, <2>3, TheDisk, DiskPut
  <2>5. RowFor(FileOf[m], disk', dst) \in RowType
    BY <2>1, <2>4, RowIsTyped, MediaAssumption
  <2> QED BY <2>3, <2>5 DEF IInv, TaskTypes
<1>4. NumberTypes'
  <2> DEFINE i == FirstOutside(ChatOf[m], Plain(FileOf[m]), cursor[<<ChatOf[m], NameOf[FileOf[m]]>>], Occupied)
             dst == Candidate(ChatOf[m], Plain(FileOf[m]), i)
  <2>1. i \in Nat /\ dst \in Paths
    BY FetchedName
  <2>2. c \in Contents
    BY TheContents, MediaAssumption
  <2>3. /\ disk' = Put(disk, dst, c)
        /\ cursor' = [cursor EXCEPT ![<<ChatOf[m], NameOf[FileOf[m]]>>] = i + 1]
        /\ task' = [task EXCEPT ![m] = "register"]
        /\ due' = [due EXCEPT ![m] = RowFor(FileOf[m], disk', dst)]
        /\ UNCHANGED <<rows, work>>
    BY DEF Fetch
  <2> HIDE DEF i, dst
  <2>4. DiskType(disk')
    BY <2>1, <2>2, <2>3, TheDisk, DiskPut
  <2>5. cursor' \in [Chats \X {NameOf[f] : f \in Files} -> Nat]
    <3> DEFINE keys == Chats \X {NameOf[f] : f \in Files}
               key == <<ChatOf[m], NameOf[FileOf[m]]>>
    <3>1. key \in keys
      BY MediaAssumption
    <3>2. cursor \in [keys -> Nat]
      BY DEF IInv, NumberTypes
    <3> HIDE DEF keys, key
    <3>3. [cursor EXCEPT ![key] = i + 1] \in [keys -> Nat]
      BY <2>1, <3>1, <3>2
    <3> QED BY <2>3, <3>3 DEF keys, key
  <2>6. faults' \in Nat
    BY DEF Fetch, Disturb, IInv, NumberTypes
  <2> QED BY <2>5, <2>6 DEF NumberTypes
<1>5. TasksKnow'
  <2> DEFINE i == FirstOutside(ChatOf[m], Plain(FileOf[m]), cursor[<<ChatOf[m], NameOf[FileOf[m]]>>], Occupied)
             dst == Candidate(ChatOf[m], Plain(FileOf[m]), i)
  <2>1. i \in Nat /\ dst \in Paths
    BY FetchedName
  <2>2. c \in Contents
    BY TheContents, MediaAssumption
  <2>3. /\ disk' = Put(disk, dst, c)
        /\ cursor' = [cursor EXCEPT ![<<ChatOf[m], NameOf[FileOf[m]]>>] = i + 1]
        /\ task' = [task EXCEPT ![m] = "register"]
        /\ due' = [due EXCEPT ![m] = RowFor(FileOf[m], disk', dst)]
        /\ UNCHANGED <<rows, work>>
    BY DEF Fetch
  <2> HIDE DEF i, dst
  <2>4. DiskType(disk')
    BY <2>1, <2>2, <2>3, TheDisk, DiskPut
  <2>5. RowFor(FileOf[m], disk', dst) \in RowType
    BY <2>1, <2>4, RowIsTyped, MediaAssumption
  <2>6. /\ \A n \in Messages \ {m} : task'[n] = task[n] /\ due'[n] = due[n]
        /\ due'[m] \in RowType
    BY <2>3, <2>5 DEF IInv, TaskTypes
  <2> QED BY <2>3, <2>6 DEF IInv, TasksKnow
<1>6. SameLock'
  BY DEF IInv, Fetch, run, SameLock
<1>7. UsersCounted'
  BY DEF IInv, Fetch, UsersCounted, Users
<1>8. OneInside'
  BY DEF IInv, Fetch, OneInside, Inside
<1>9. NotYetHad'
  BY DEF IInv, Fetch, Expected, NotYetHad, Have, Sources
<1> QED BY <1>1, <1>2, <1>3, <1>4, <1>5, <1>6, <1>7, <1>8, <1>9 DEF IInv

LEMMA FetchNothingStep ==
  ASSUME IInv, NEW m \in Messages, FetchNothing(m)
  PROVE  IInv'
<1>1. StoreTypes' /\ RunTypes' /\ ThreadTypes' /\ PassTypes' /\ FiniteDisk'
  BY Kept DEF IInv, FetchNothing, stores, run, pass
<1>2. TaskTypes' /\ LockTypes' /\ SameLock' /\ UsersCounted' /\ OneInside'
  <2>1. task[m] # "none" /\ EndTask(m) /\ UNCHANGED <<where, walked>>
    BY DEF FetchNothing, run
  <2> QED BY <2>1, UserLeaves
<1>3. NumberTypes'
  BY DEF IInv, FetchNothing, Disturb, NumberTypes
<1>4. TasksKnow'
  BY DEF IInv, FetchNothing, EndTask, TasksKnow
<1>5. NotYetHad'
  BY DEF IInv, FetchNothing, EndTask, stores, NotYetHad, Have, Sources
<1> QED BY <1>1, <1>2, <1>3, <1>4, <1>5 DEF IInv

LEMMA RegisterStep ==
  ASSUME IInv, NEW m \in Messages, Register(m)
  PROVE  IInv'
<1>1. RunTypes' /\ ThreadTypes' /\ NumberTypes' /\ FiniteDisk'
  BY Kept DEF IInv, Register, run
<1>2. StoreTypes'
  BY DEF IInv, Register, Put, StoreTypes, Places, TasksKnow
<1>3. TaskTypes' /\ LockTypes' /\ SameLock' /\ UsersCounted' /\ OneInside'
  <2>1. task[m] # "none" /\ EndTask(m) /\ UNCHANGED <<where, walked>>
    BY DEF Register, run
  <2> QED BY <2>1, UserLeaves
<1>4. PassTypes'
  BY DEF IInv, Register, Put, pass, PassTypes
<1>5. TasksKnow'
  BY DEF IInv, Register, EndTask, TasksKnow, TaskTypes
<1>6. NotYetHad'
  <2> SUFFICES ASSUME NEW n \in Messages, task'[n] \in {"reuse", "fetch"} PROVE ~Have(n)'
    BY DEF NotYetHad
  <2>1. n # m /\ task'[n] = task[n]
    BY DEF Register, EndTask, IInv, TaskTypes
  <2>2. FileOf[n] # FileOf[m]
    BY <2>1 DEF Register, IInv, OneInside, Inside
  <2>3. Place(n) # Place(m)
    BY <2>2 DEF Place
  <2>4. rows' = Put(rows, Place(m), due[m])
    BY DEF Register
  <2>5. Place(n) \in DOMAIN rows' => Place(n) \in DOMAIN rows /\ rows'[Place(n)] = rows[Place(n)]
    BY <2>3, <2>4 DEF Put
  <2>6. ~Have(n)
    BY <2>1 DEF IInv, NotYetHad
  <2> QED BY <2>5, <2>6 DEF Have, Sources
<1> QED BY <1>1, <1>2, <1>3, <1>4, <1>5, <1>6 DEF IInv

LEMMA StartRunStep ==
  ASSUME IInv, StartRun
  PROVE  IInv'
<1> USE DEF IInv, StartRun, tasks
<1>1. StoreTypes' /\ TaskTypes' /\ LockTypes' /\ ThreadTypes' /\ NumberTypes' /\ PassTypes' /\ FiniteDisk' /\ TasksKnow' /\ UsersCounted' /\ OneInside' /\ NotYetHad'
  BY Kept DEF stores, pass
<1>2. RunTypes'
  BY DEF RunTypes
<1>3. SameLock'
  BY MediaAssumption DEF SameLock
<1> QED BY <1>1, <1>2, <1>3

LEMMA StartChatStep ==
  ASSUME IInv, NEW c \in Chats, StartChat(c)
  PROVE  IInv'
<1>1. TaskTypes' /\ LockTypes' /\ ThreadTypes' /\ NumberTypes' /\ PassTypes' /\ TasksKnow' /\ UsersCounted' /\ OneInside' /\ NotYetHad'
  BY Kept DEF IInv, StartChat, tasks, pass
<1>2. StoreTypes' /\ FiniteDisk'
  <2>1. disk' = Remove(disk, Orphans(c)) /\ rows' = rows
    BY DEF StartChat
  <2>2. DiskType(disk')
    BY <2>1, TheDisk, DiskRemove
  <2> QED BY <2>1, <2>2, DiskStays
<1>3. RunTypes'
  BY DEF IInv, StartChat, RunTypes
<1>4. SameLock'
  BY MediaAssumption DEF IInv, StartChat, tasks, SameLock
<1> QED BY <1>1, <1>2, <1>3, <1>4 DEF IInv

LEMMA EndChatStep ==
  ASSUME IInv, EndChat
  PROVE  IInv'
<1> USE DEF IInv, EndChat, tasks
<1>1. StoreTypes' /\ TaskTypes' /\ LockTypes' /\ ThreadTypes' /\ NumberTypes' /\ PassTypes' /\ FiniteDisk' /\ TasksKnow' /\ UsersCounted' /\ OneInside' /\ NotYetHad'
  BY Kept DEF stores, pass
<1>2. RunTypes'
  BY DEF RunTypes
<1>3. SameLock'
  BY DEF Idle, SameLock
<1> QED BY <1>1, <1>2, <1>3

LEMMA FailChatStep ==
  ASSUME IInv, FailChat
  PROVE  IInv'
<1>1. StoreTypes' /\ ThreadTypes' /\ PassTypes' /\ FiniteDisk'
  BY Kept DEF IInv, FailChat, stores, pass
<1>2. RunTypes'
  BY DEF IInv, FailChat, RunTypes
<1>3. TaskTypes'
  BY DEF FailChat, TaskTypes
<1>4. LockTypes'
  BY DEF FailChat, LockTypes
<1>5. NumberTypes'
  BY DEF IInv, FailChat, Disturb, NumberTypes
<1>6. TasksKnow'
  BY DEF IInv, FailChat, TasksKnow
<1>7. SameLock'
  BY DEF FailChat, SameLock
<1>8. UsersCounted'
  BY NobodyLeft DEF FailChat
<1>9. OneInside'
  BY DEF FailChat, OneInside, Inside
<1>10. NotYetHad'
  BY DEF FailChat, NotYetHad
<1> QED BY <1>1, <1>2, <1>3, <1>4, <1>5, <1>6, <1>7, <1>8, <1>9, <1>10 DEF IInv

LEMMA StartVerifyStep ==
  ASSUME IInv, StartVerify
  PROVE  IInv'
<1> USE DEF IInv, StartVerify, stores, tasks
<1>1. StoreTypes' /\ TaskTypes' /\ LockTypes' /\ ThreadTypes' /\ NumberTypes' /\ FiniteDisk' /\ TasksKnow' /\ UsersCounted' /\ OneInside' /\ NotYetHad'
  BY Kept
<1>2. RunTypes'
  BY DEF RunTypes
<1>3. PassTypes'
  BY DEF Broken, PassTypes
<1>4. SameLock'
  BY MediaAssumption DEF SameLock
<1> QED BY <1>1, <1>2, <1>3, <1>4

LEMMA ReplaceStep ==
  ASSUME IInv, NEW p \in Places, NEW c \in {Whole(p[1]), Short(p[1])}, Replace(p, c)
  PROVE  IInv'
<1>1. RunTypes' /\ TaskTypes' /\ LockTypes' /\ ThreadTypes' /\ TasksKnow' /\ SameLock' /\ UsersCounted' /\ OneInside' /\ NotYetHad'
  BY Kept DEF IInv, Replace, run, tasks
<1>2. StoreTypes' /\ FiniteDisk'
  <2>1. Replacement(p) \in Paths /\ c \in Contents
    <3>1. p[1] \in Files
      BY MediaAssumption DEF Places, Place
    <3> QED BY <3>1, ReplacementName, TheContents
  <2>2. /\ disk' = Put(Remove(disk, {rows[p].path}), Replacement(p), c)
        /\ repaired' = Append(repaired, [place |-> p,
             row |-> [path |-> Replacement(p), actual |-> SizeOn(c), status |-> "done"]])
        /\ rows' = rows /\ todo' = todo \ {p} /\ p \in todo
    BY DEF Replace
  <2>3. DiskType(Remove(disk, {rows[p].path}))
    BY TheDisk, DiskRemove
  <2>4. DiskType(disk')
    BY <2>1, <2>2, <2>3, DiskPut
  <2> QED BY <2>2, <2>4, DiskStays
<1>3. NumberTypes'
  BY DEF IInv, Replace, Disturb, NumberTypes
<1>4. PassTypes'
  <2>1. Replacement(p) \in Paths /\ c \in Contents
    <3>1. p[1] \in Files
      BY MediaAssumption DEF Places, Place
    <3> QED BY <3>1, ReplacementName, TheContents
  <2>2. /\ disk' = Put(Remove(disk, {rows[p].path}), Replacement(p), c)
        /\ repaired' = Append(repaired, [place |-> p,
             row |-> [path |-> Replacement(p), actual |-> SizeOn(c), status |-> "done"]])
        /\ rows' = rows /\ todo' = todo \ {p} /\ p \in todo
    BY DEF Replace
  <2>3. [path |-> Replacement(p), actual |-> SizeOn(c), status |-> "done"] \in RowType
    <3>1. SizeOn(c) \in Nat
      BY <2>1, TheContents DEF Contents
    <3> QED BY <2>1, <3>1 DEF RowType
  <2>4. p \in Places /\ repaired \in Seq([place : Places, row : RowType])
    BY <2>2 DEF IInv, PassTypes
  <2>5. repaired' \in Seq([place : Places, row : RowType])
    BY <2>2, <2>3, <2>4, AppendProperties
  <2> QED BY <2>2, <2>5 DEF IInv, PassTypes
<1> QED BY <1>1, <1>2, <1>3, <1>4 DEF IInv

LEMMA GiveUpStep ==
  ASSUME IInv, NEW p \in Places, GiveUp(p)
  PROVE  IInv'
<1> USE DEF IInv, GiveUp, stores
<1>1. StoreTypes' /\ RunTypes' /\ TaskTypes' /\ LockTypes' /\ ThreadTypes' /\ FiniteDisk' /\ TasksKnow' /\ SameLock' /\ UsersCounted' /\ OneInside' /\ NotYetHad'
  BY Kept DEF run, tasks
<1>2. NumberTypes'
  BY DEF Disturb, NumberTypes
<1>3. PassTypes'
  BY DEF PassTypes
<1> QED BY <1>1, <1>2, <1>3

LEMMA RegisterRepairedStep ==
  ASSUME IInv, RegisterRepaired
  PROVE  IInv'
<1>1. RunTypes' /\ TaskTypes' /\ LockTypes' /\ ThreadTypes' /\ NumberTypes' /\ FiniteDisk' /\ TasksKnow' /\ SameLock' /\ UsersCounted' /\ OneInside'
  BY Kept DEF IInv, RegisterRepaired, run, tasks
<1>2. /\ repaired \in Seq([place : Places, row : RowType]) /\ repaired # <<>>
      /\ rows' = Put(rows, Head(repaired).place, Head(repaired).row)
      /\ repaired' = Tail(repaired) /\ todo' = todo /\ disk' = disk
  BY DEF RegisterRepaired, IInv, PassTypes
<1>3. Head(repaired).place \in Places /\ Head(repaired).row \in RowType
  <2>1. Head(repaired) \in [place : Places, row : RowType]
    BY <1>2, HeadTailProperties
  <2> QED BY <2>1
<1>4. StoreTypes'
  BY <1>2, <1>3 DEF IInv, Put, StoreTypes
<1>5. PassTypes'
  <2>1. DOMAIN rows \subseteq DOMAIN rows'
    BY <1>2, <1>3 DEF Put
  <2>2. Tail(repaired) \in Seq([place : Places, row : RowType])
    BY <1>2, HeadTailProperties
  <2> QED BY <1>2, <2>1, <2>2 DEF IInv, PassTypes
<1>6. NotYetHad'
  <2>1. \A n \in Messages : task'[n] = "none"
    BY MediaAssumption DEF RegisterRepaired, tasks, IInv, SameLock
  <2> QED BY <2>1 DEF NotYetHad
<1> QED BY <1>1, <1>4, <1>5, <1>6 DEF IInv

LEMMA EndRunStep ==
  ASSUME IInv, EndRun
  PROVE  IInv'
<1>1. StoreTypes' /\ FiniteDisk'
  BY Kept DEF IInv, EndRun, stores
<1>2. RunTypes'
  BY DEF EndRun, Ended, RunTypes
<1>3. TaskTypes'
  BY DEF EndRun, Ended, TaskTypes
<1>4. LockTypes'
  BY DEF EndRun, Ended, LockTypes
<1>5. ThreadTypes'
  BY DEF EndRun, Ended, ThreadTypes, WorkType
<1>6. NumberTypes'
  BY DEF IInv, EndRun, Ended, NumberTypes
<1>7. PassTypes'
  BY EmptySeq DEF EndRun, Ended, PassTypes
<1>8. TasksKnow'
  BY DEF EndRun, Ended, TasksKnow
<1>9. SameLock'
  BY DEF EndRun, Ended, SameLock
<1>10. UsersCounted'
  BY NobodyLeft DEF EndRun, Ended
<1>11. OneInside'
  BY DEF EndRun, Ended, OneInside, Inside
<1>12. NotYetHad'
  BY DEF EndRun, Ended, NotYetHad
<1> QED BY <1>1, <1>2, <1>3, <1>4, <1>5, <1>6, <1>7, <1>8, <1>9, <1>10, <1>11, <1>12 DEF
     IInv

LEMMA StopStep ==
  ASSUME IInv, Stop
  PROVE  IInv'
<1>1. StoreTypes' /\ FiniteDisk'
  BY Kept DEF IInv, Stop, stores
<1>2. RunTypes'
  BY DEF IInv, Stop, Ended, run, RunTypes
<1>3. TaskTypes'
  BY DEF IInv, Stop, Ended, tasks, TaskTypes
<1>4. LockTypes'
  BY DEF IInv, Stop, Ended, tasks, LockTypes
<1>5. ThreadTypes'
  BY DEF IInv, Stop, Ended, ThreadTypes, WorkType
<1>6. NumberTypes'
  BY DEF IInv, Stop, Disturb, Ended, NumberTypes
<1>7. PassTypes'
  BY EmptySeq DEF IInv, Stop, Ended, stores, PassTypes
<1>8. TasksKnow'
  BY DEF IInv, Stop, Ended, tasks, TasksKnow
<1>9. SameLock'
  BY DEF IInv, Stop, Ended, run, tasks, SameLock
<1>10. UsersCounted'
  <2>1. CASE where = "between" /\ NoThreads /\ Ended
    BY <2>1, NobodyLeft DEF Ended
  <2>2. CASE UNCHANGED tasks
    BY <2>2 DEF IInv, UsersCounted, Users, tasks
  <2> QED BY <2>1, <2>2 DEF Stop
<1>11. OneInside'
  BY DEF IInv, Stop, Ended, tasks, OneInside, Inside
<1>12. NotYetHad'
  BY DEF IInv, Stop, Ended, tasks, stores, NotYetHad, Have, Sources
<1> QED BY <1>1, <1>2, <1>3, <1>4, <1>5, <1>6, <1>7, <1>8, <1>9, <1>10, <1>11, <1>12 DEF
     IInv

LEMMA KillStep ==
  ASSUME IInv, Kill
  PROVE  IInv'
<1>1. StoreTypes' /\ FiniteDisk'
  BY Kept DEF IInv, Kill, stores
<1>2. RunTypes'
  BY DEF Kill, Ended, RunTypes
<1>3. TaskTypes'
  BY DEF Kill, Ended, TaskTypes
<1>4. LockTypes'
  BY DEF Kill, Ended, LockTypes
<1>5. ThreadTypes'
  BY DEF Kill, Ended, ThreadTypes, WorkType
<1>6. NumberTypes'
  BY DEF IInv, Kill, Disturb, Ended, NumberTypes
<1>7. PassTypes'
  BY EmptySeq DEF Kill, Ended, PassTypes
<1>8. TasksKnow'
  BY DEF Kill, Ended, TasksKnow
<1>9. SameLock'
  BY DEF Kill, Ended, SameLock
<1>10. UsersCounted'
  BY NobodyLeft DEF Kill, Ended
<1>11. OneInside'
  BY DEF Kill, Ended, OneInside, Inside
<1>12. NotYetHad'
  BY DEF Kill, Ended, NotYetHad
<1> QED BY <1>1, <1>2, <1>3, <1>4, <1>5, <1>6, <1>7, <1>8, <1>9, <1>10, <1>11, <1>12 DEF
     IInv

-----------------------------------------------------------------------------
(* The invariant.                                                          *)

LEMMA InitInv == Init => IInv
<1> SUFFICES ASSUME Init PROVE IInv
  OBVIOUS
<1>1. DOMAIN disk = {} /\ DOMAIN rows = {} /\ repaired = <<>> /\ todo = {}
  BY DEF Init, Nothing
<1>2. StoreTypes /\ FiniteDisk
  BY <1>1, FS_EmptySet DEF StoreTypes, FiniteDisk
<1>3. RunTypes /\ TaskTypes /\ LockTypes
  BY DEF Init, RunTypes, TaskTypes, LockTypes
<1>7. PassTypes
  BY <1>1, EmptySeq DEF PassTypes
<1>4. ThreadTypes /\ NumberTypes /\ TasksKnow
  BY DEF Init, ThreadTypes, WorkType, NumberTypes, TasksKnow
<1>5. SameLock /\ OneInside /\ NotYetHad
  BY DEF Init, SameLock, OneInside, Inside, NotYetHad
<1>6. UsersCounted
  <2>1. \A f \in Files : Users(f) = {} /\ users[f] = 0
    BY DEF Init, Users
  <2> QED BY <2>1, FS_EmptySet DEF UsersCounted
<1> QED BY <1>2, <1>3, <1>4, <1>5, <1>6, <1>7 DEF IInv

LEMMA StepInv == IInv /\ [Next]_vars => IInv'
<1> SUFFICES ASSUME IInv, [Next]_vars PROVE IInv'
  OBVIOUS
<1>1. ASSUME NEW m \in Messages, Download(m) PROVE IInv'
  BY <1>1, BeginStep, LookupStep, ClaimForReuseStep, HandOverStep, CopyEndStep,
     HandOverFailsStep, ThreadReturnsStep, FetchStep, RegisterStep DEF Download
<1>2. ASSUME NEW p \in Places, Replace(p, Whole(p[1])) PROVE IInv'
  BY <1>2, ReplaceStep
<1>3. CASE Work
  BY <1>1, <1>2, <1>3, StartRunStep, StartChatStep, EndChatStep, StartVerifyStep,
     RegisterRepairedStep, EndRunStep DEF Work
<1>4. CASE Disturbance
  BY <1>4, FetchStep, FetchNothingStep, ReplaceStep, GiveUpStep, FailChatStep,
     StopStep, KillStep DEF Disturbance
<1>5. CASE UNCHANGED vars
  BY <1>5, Kept DEF IInv, vars, stores, run, tasks, pass
<1> QED BY <1>3, <1>4, <1>5 DEF Next

LEMMA Invariant == Spec => []IInv
BY InitInv, StepInv, PTL DEF Spec

\* Every variable has its type: among them that the count of a lock's users
\* never goes below zero, and that a row, a claim and a cursor name a path.
THEOREM TypeCorrect == Spec => []TypeOK
<1>1. IInv => TypeOK
  BY DEF IInv, TypeOK
<1> QED BY <1>1, Invariant, PTL

\* Messages carrying the same file do not both download it, and the one that
\* does found no finished row, however many wait for its lock, whoever leaves
\* it first, and whatever fails, is cancelled or dies in between.
THEOREM OneDownloadPerFile == Spec => []FetchedOnce
<1>1. IInv => FetchedOnce
  BY DEF IInv, OneInside, NotYetHad, Inside, FetchedOnce
<1> QED BY <1>1, Invariant, PTL

-----------------------------------------------------------------------------
(* Names.  What a row, a task, a thread or a repair knows as the place of a *)
(* file is a path of its chat and of its name.                              *)

Belongs(path, p) == path.chat = p[2] /\ path.base = NameOf[p[1]]

\* A file that may be reused: two chats have it, or another export.
Shared(f) ==
  \/ f \in Elsewhere
  \/ \E m, n \in Messages : FileOf[m] = f /\ FileOf[n] = f /\ ChatOf[m] # ChatOf[n]

RowsBelong == \A p \in DOMAIN rows : Belongs(rows[p].path, p)

DueBelongs ==
  \A m \in Messages : task[m] = "register" => Belongs(due[m].path, Place(m))

ThreadsBelong ==
  \A m \in Messages :
    work[m].at # "none" =>
      /\ Shared(FileOf[m]) /\ SourceName(m).base = NameOf[FileOf[m]]
      /\ work[m].at \in {"hand", "copy", "done"} => Belongs(work[m].dst, Place(m))

RepairsBelong ==
  \A i \in 1 .. Len(repaired) : Belongs(repaired[i].row.path, repaired[i].place)

\* The pass looks at broken rows, at each of them once, and at nothing while
\* a chat is exported.
PassAlone == where # "verify" => todo = {} /\ repaired = <<>>

TodoIsBroken == \A p \in todo : ~Fine(p)

OnceInLine ==
  /\ \A i \in 1 .. Len(repaired) : repaired[i].place \notin todo
  /\ \A i, j \in 1 .. Len(repaired) : repaired[i].place = repaired[j].place => i = j

NamesFit ==
  /\ RowsBelong /\ DueBelongs /\ ThreadsBelong /\ RepairsBelong
  /\ PassAlone /\ TodoIsBroken /\ OnceInLine

LEMMA ThePlaces ==
  /\ \A m \in Messages : /\ Place(m) \in Places
                         /\ Place(m)[1] = FileOf[m] /\ Place(m)[2] = ChatOf[m]
                         /\ FileOf[m] \in Files /\ ChatOf[m] \in Chats
  /\ \A p \in Places : p = <<p[1], p[2]>> /\ p[1] \in Files /\ p[2] \in Chats
<1>1. \A m \in Messages : FileOf[m] \in Files /\ ChatOf[m] \in Chats
  BY MediaAssumption
<1> QED BY <1>1 DEF Places, Place

LEMMA TheRepairs ==
  ASSUME IInv
  PROVE  /\ Len(repaired) \in Nat
         /\ \A i \in 1 .. Len(repaired) :
              repaired[i].place \in Places /\ repaired[i].row \in RowType
<1>1. repaired \in Seq([place : Places, row : RowType])
  BY DEF IInv, PassTypes
<1>2. Len(repaired) \in Nat
  BY <1>1, LenProperties
<1>3. \A i \in 1 .. Len(repaired) : repaired[i] \in [place : Places, row : RowType]
  BY <1>1, ElementOfSeq
<1> QED BY <1>2, <1>3

\* The line after a repair, and after the write of its first row.
LEMMA LineGrows ==
  ASSUME IInv, NEW p \in Places, NEW c \in Contents, Replace(p, c)
  PROVE  LET n == Len(repaired) IN
         /\ Len(repaired') = n + 1
         /\ \A i \in 1 .. n : repaired'[i] = repaired[i]
         /\ repaired'[n + 1].place = p
         /\ repaired'[n + 1].row.path = Replacement(p)
         /\ repaired'[n + 1].row.actual = SizeOn(c)
         /\ repaired'[n + 1].row.status = "done"
<1> DEFINE new == [place |-> p, row |-> [path |-> Replacement(p), actual |-> SizeOn(c), status |-> "done"]]
<1>1. repaired \in Seq([place : Places, row : RowType]) /\ repaired' = Append(repaired, new)
  BY DEF IInv, PassTypes, Replace
<1>2. Replacement(p) \in Paths /\ SizeOn(c) \in Nat
  BY ReplacementName, TheContents, ThePlaces
<1>3. new \in [place : Places, row : RowType]
  BY <1>2 DEF RowType
<1> HIDE DEF new
<1>4. /\ Len(repaired') = Len(repaired) + 1
      /\ \A i \in 1 .. Len(repaired) : repaired'[i] = repaired[i]
      /\ repaired'[Len(repaired) + 1] = new
  BY <1>1, <1>3, AppendProperties
<1> QED BY <1>4 DEF new

LEMMA LineShrinks ==
  ASSUME IInv, RegisterRepaired
  PROVE  /\ Len(repaired) \in Nat \ {0} /\ Len(repaired') = Len(repaired) - 1
         /\ \A i \in 1 .. Len(repaired') : repaired'[i] = repaired[i + 1]
         /\ rows' = Put(rows, repaired[1].place, repaired[1].row)
<1>1. repaired \in Seq([place : Places, row : RowType]) /\ repaired # <<>>
  BY DEF IInv, PassTypes, RegisterRepaired
<1>2. Len(repaired) \in Nat \ {0}
  BY <1>1, EmptySeq
<1>3. /\ Len(Tail(repaired)) = Len(repaired) - 1
      /\ \A i \in 1 .. Len(Tail(repaired)) : Tail(repaired)[i] = repaired[i + 1]
  BY <1>1, HeadTailProperties
<1>4. Head(repaired) = repaired[1]
  BY <1>1, <1>2
<1> QED BY <1>2, <1>3, <1>4 DEF RegisterRepaired

\* The names that are taken belong to their places.
LEMMA CandidateBelongs ==
  ASSUME NEW p, NEW name, name.base = NameOf[p[1]], NEW i
  PROVE  Belongs(Candidate(p[2], name, i), p)
BY DEF Belongs, Candidate

LEMMA ReplacementBelongs ==
  ASSUME NEW p PROVE Belongs(Replacement(p), p)
<1>1. Plain(p[1]).base = NameOf[p[1]]
  BY DEF Plain
<1> QED BY <1>1, CandidateBelongs DEF Replacement

LEMMA KeptNames ==
  /\ UNCHANGED rows => RowsBelong' = RowsBelong
  /\ UNCHANGED <<task, due>> => DueBelongs' = DueBelongs
  /\ UNCHANGED work => ThreadsBelong' = ThreadsBelong
  /\ UNCHANGED repaired => RepairsBelong' = RepairsBelong
  /\ UNCHANGED <<where, todo, repaired>> => PassAlone' = PassAlone
  /\ UNCHANGED <<rows, todo>> => TodoIsBroken' = TodoIsBroken
  /\ UNCHANGED <<repaired, todo>> => OnceInLine' = OnceInLine
BY DEF RowsBelong, DueBelongs, ThreadsBelong, RepairsBelong, PassAlone, TodoIsBroken,
       OnceInLine, SourceName, Fine

\* After a run nothing is known but the rows.
LEMMA NamesAfterRun ==
  ASSUME NamesFit, Ended, UNCHANGED rows
  PROVE  NamesFit'
<1>1. RowsBelong'
  BY KeptNames DEF NamesFit
<1>2. DueBelongs' /\ ThreadsBelong'
  BY DEF Ended, DueBelongs, ThreadsBelong
<1>3. todo' = {} /\ repaired' = <<>> /\ Len(repaired') = 0
  BY EmptySeq DEF Ended
<1>4. RepairsBelong' /\ PassAlone' /\ TodoIsBroken' /\ OnceInLine'
  BY <1>3 DEF RepairsBelong, PassAlone, TodoIsBroken, OnceInLine
<1> QED BY <1>1, <1>2, <1>4 DEF NamesFit

\* While a chat is exported no repair is under way.
LEMMA TasksAlone ==
  ASSUME IInv, NamesFit
  PROVE  /\ \A m \in Messages : task[m] # "none" => todo = {} /\ repaired = <<>>
         /\ where = "between" => \A m \in Messages : task[m] = "none"
         /\ where = "verify" => \A m \in Messages : task[m] = "none"
         /\ where # "verify" => Len(repaired) = 0
<1>1. \A m \in Messages : task[m] # "none" => where \notin {"between", "verify"}
  BY ThePlaces, MediaAssumption DEF IInv, SameLock
<1>2. Len(<<>>) = 0
  BY EmptySeq
<1> QED BY <1>1, <1>2 DEF NamesFit, PassAlone

\* What a thread that starts is to read, and why it may.
LEMMA SourceBelongs ==
  ASSUME IInv, NamesFit, NEW m \in Messages, ~Have(m), NEW p \in Sources(m)
  PROVE  Shared(FileOf[m]) /\ rows[p].path.base = NameOf[FileOf[m]]
<1>1. p \in DOMAIN rows /\ p[1] = FileOf[m] /\ p # Place(m) /\ p \in Places
  BY DEF Sources, Have, IInv, StoreTypes
<1>2. p[2] # ChatOf[m]
  BY <1>1, ThePlaces DEF Place
<1>3. PICK n \in Messages : p = Place(n)
  BY <1>1 DEF Places
<1>4. FileOf[n] = FileOf[m] /\ ChatOf[n] # ChatOf[m]
  BY <1>1, <1>2, <1>3, ThePlaces
<1>5. Shared(FileOf[m])
  BY <1>4 DEF Shared
<1> QED BY <1>1, <1>5 DEF NamesFit, RowsBelong, Belongs

LEMMA LookupNames ==
  ASSUME IInv, NamesFit, NEW m \in Messages, Lookup(m)
  PROVE  NamesFit'
<1>1. UNCHANGED <<rows, where, todo, repaired>> /\ task[m] = "wait"
  BY DEF Lookup, HasLock, stores, run, pass
<1>2. RowsBelong' /\ RepairsBelong' /\ PassAlone' /\ TodoIsBroken' /\ OnceInLine'
  BY <1>1, KeptNames DEF NamesFit
<1>3. DueBelongs'
  <2>1. /\ \E stage \in {"none", "reuse", "fetch"} : task' = [task EXCEPT ![m] = stage]
        /\ \A n \in Messages \ {m} : due'[n] = due[n]
    BY DEF Lookup, StartThread, NextSource, EndTask, IInv, TaskTypes
  <2> QED BY <2>1 DEF IInv, TaskTypes, NamesFit, DueBelongs
<1>4. ThreadsBelong'
  <2>1. \/ work' = work
        \/ \E src \in Paths \cup {Foreign} :
             /\ work' = [work EXCEPT ![m] = [at |-> "claim", src |-> src, dst |-> None]]
             /\ Shared(FileOf[m])
             /\ src = Foreign \/ src.base = NameOf[FileOf[m]]
        \/ work' = [work EXCEPT ![m] = [at |-> "none", src |-> None, dst |-> None]]
    <3>1. CASE Have(m)
      BY <3>1 DEF Lookup
    <3>2. ASSUME ~Have(m), NEW p \in Sources(m), StartThread(m, rows[p].path)
          PROVE  \E src \in Paths \cup {Foreign} :
                   /\ work' = [work EXCEPT ![m] = [at |-> "claim", src |-> src, dst |-> None]]
                   /\ Shared(FileOf[m])
                   /\ src = Foreign \/ src.base = NameOf[FileOf[m]]
      <4>1. rows[p].path \in Paths
        BY DEF Sources, IInv, StoreTypes, RowType
      <4> QED BY <3>2, <4>1, SourceBelongs DEF StartThread
    <3>3. CASE NextSource(m)
      BY <3>3 DEF NextSource, StartThread, Shared
    <3> QED BY <3>1, <3>2, <3>3 DEF Lookup
  <2>2. \A n \in Messages : work'[n] = work[n] => SourceName(n)' = SourceName(n)
    BY DEF SourceName
  <2>3. Plain(FileOf[m]).base = NameOf[FileOf[m]]
    BY DEF Plain
  <2>4. work'[m].at # "none" /\ work' # work =>
          Shared(FileOf[m]) /\ SourceName(m)'.base = NameOf[FileOf[m]] /\ work'[m].at = "claim"
    BY <2>1, <2>3 DEF SourceName, IInv, ThreadTypes
  <2>5. \A n \in Messages \ {m} : work'[n] = work[n]
    BY <2>1 DEF IInv, ThreadTypes
  <2> QED BY <2>2, <2>4, <2>5 DEF NamesFit, ThreadsBelong
<1> QED BY <1>2, <1>3, <1>4 DEF NamesFit

LEMMA ClaimNames ==
  ASSUME IInv, NamesFit, NEW m \in Messages, ClaimForReuse(m)
  PROVE  /\ NamesFit'
         /\ Belongs(Candidate(ChatOf[m], SourceName(m),
                              FirstOutside(ChatOf[m], SourceName(m), 0, Claimed)), Place(m))
<1> DEFINE dst == Candidate(ChatOf[m], SourceName(m), FirstOutside(ChatOf[m], SourceName(m), 0, Claimed))
           adopt == dst \in DOMAIN disk /\ Expected(FileOf[m]) \in {0, SizeOn(disk[dst])}
<1>1. work' = [work EXCEPT ![m].dst = dst, ![m].at = IF adopt THEN "done" ELSE "hand"]
      /\ work[m].at = "claim" /\ UNCHANGED <<rows, run, tasks, pass>>
  BY DEF ClaimForReuse
<1>2. Shared(FileOf[m]) /\ SourceName(m).base = NameOf[FileOf[m]]
  BY <1>1 DEF NamesFit, ThreadsBelong
<1>3. Belongs(dst, Place(m))
  BY <1>2, ThePlaces, CandidateBelongs
<1> HIDE DEF dst, adopt
<1>4. RowsBelong' /\ DueBelongs' /\ RepairsBelong' /\ PassAlone' /\ TodoIsBroken' /\ OnceInLine'
  BY <1>1, KeptNames DEF NamesFit, run, tasks, pass
<1>5. ThreadsBelong'
  <2>1. /\ \A n \in Messages \ {m} : work'[n] = work[n]
        /\ work'[m].src = work[m].src /\ work'[m].dst = dst
    BY <1>1 DEF IInv, ThreadTypes, WorkType
  <2>2. \A n \in Messages : SourceName(n)' = SourceName(n)
    BY <2>1 DEF SourceName
  <2> QED BY <1>2, <1>3, <2>1, <2>2 DEF NamesFit, ThreadsBelong
<1> QED BY <1>3, <1>4, <1>5 DEF NamesFit, dst

\* A thread that goes on keeps what it reads and where it writes.
LEMMA ThreadNames ==
  ASSUME IInv, NamesFit, NEW m \in Messages,
         HandOver(m) \/ CopyEnd(m) \/ HandOverFails(m)
  PROVE  NamesFit'
<1>1. UNCHANGED <<rows, run, tasks, pass>>
  BY DEF HandOver, CopyEnd, HandOverFails, stores
<1>2. work[m].at \in {"hand", "copy"} /\ \E at \in {"done", "copy", "failed"} : work' = [work EXCEPT ![m].at = at]
  BY DEF HandOver, CopyEnd, HandOverFails
<1>3. /\ \A n \in Messages \ {m} : work'[n] = work[n]
      /\ work'[m].src = work[m].src /\ work'[m].dst = work[m].dst
  BY <1>2 DEF IInv, ThreadTypes, WorkType
<1>4. \A n \in Messages : SourceName(n)' = SourceName(n)
  BY <1>3 DEF SourceName
<1>5. ThreadsBelong'
  BY <1>2, <1>3, <1>4 DEF NamesFit, ThreadsBelong
<1> QED BY <1>1, <1>5, KeptNames DEF NamesFit, run, tasks, pass

LEMMA ThreadReturnsNames ==
  ASSUME IInv, NamesFit, NEW m \in Messages, ThreadReturns(m)
  PROVE  NamesFit'
<1>1. UNCHANGED <<rows, where, todo, repaired>>
  BY DEF ThreadReturns, stores, run, pass
<1>2. RowsBelong' /\ RepairsBelong' /\ PassAlone' /\ TodoIsBroken' /\ OnceInLine'
  BY <1>1, KeptNames DEF NamesFit
<1>3. DueBelongs'
  <2>1. CASE task[m] = "reuse" /\ work[m].at = "done"
    <3>1. task' = [task EXCEPT ![m] = "register"] /\ due' = [due EXCEPT ![m] = RowFor(FileOf[m], disk, work[m].dst)]
      BY <2>1 DEF ThreadReturns
    <3>2. Belongs(work[m].dst, Place(m))
      BY <2>1 DEF NamesFit, ThreadsBelong
    <3>3. RowFor(FileOf[m], disk, work[m].dst).path = work[m].dst
      BY DEF RowFor
    <3> QED BY <3>1, <3>2, <3>3 DEF IInv, TaskTypes, NamesFit, DueBelongs
  <2>2. CASE ~(task[m] = "reuse" /\ work[m].at = "done")
    <3>1. /\ task' = task \/ \E stage \in {"reuse", "fetch"} : task' = [task EXCEPT ![m] = stage]
          /\ due' = due
      BY <2>2 DEF ThreadReturns, NextSource, StartThread
    <3> QED BY <3>1 DEF IInv, TaskTypes, NamesFit, DueBelongs
  <2> QED BY <2>1, <2>2
<1>4. ThreadsBelong'
  <2>1. \A n \in Messages \ {m} : work'[n] = work[n]
    BY DEF ThreadReturns, NextSource, StartThread, IInv, ThreadTypes
  <2>2. \/ work'[m] = [at |-> "none", src |-> None, dst |-> None]
        \/ work'[m] = [at |-> "claim", src |-> Foreign, dst |-> None] /\ FileOf[m] \in Elsewhere
    BY DEF ThreadReturns, NextSource, StartThread, IInv, ThreadTypes
  <2>3. \A n \in Messages \ {m} : SourceName(n)' = SourceName(n)
    BY <2>1 DEF SourceName
  <2>4. work'[m].at # "none" =>
          Shared(FileOf[m]) /\ SourceName(m)'.base = NameOf[FileOf[m]] /\ work'[m].at = "claim"
    BY <2>2 DEF SourceName, Plain, Shared
  <2> QED BY <2>1, <2>3, <2>4 DEF NamesFit, ThreadsBelong
<1> QED BY <1>2, <1>3, <1>4 DEF NamesFit

LEMMA FetchNames ==
  ASSUME IInv, NamesFit, NEW m \in Messages, NEW c, Fetch(m, c)
  PROVE  NamesFit' /\ Belongs(due'[m].path, Place(m))
<1> DEFINE i == FirstOutside(ChatOf[m], Plain(FileOf[m]), cursor[<<ChatOf[m], NameOf[FileOf[m]]>>], Occupied)
           dst == Candidate(ChatOf[m], Plain(FileOf[m]), i)
<1>1. /\ task' = [task EXCEPT ![m] = "register"]
      /\ due' = [due EXCEPT ![m] = RowFor(FileOf[m], disk', dst)]
      /\ UNCHANGED <<rows, work, where, todo, repaired>>
  BY DEF Fetch, run, pass
<1>2. Belongs(dst, Place(m))
  BY ThePlaces, CandidateBelongs DEF Plain
<1> HIDE DEF dst
<1>3. RowFor(FileOf[m], disk', dst).path = dst
  BY DEF RowFor
<1>4. Belongs(due'[m].path, Place(m))
  BY <1>1, <1>2, <1>3 DEF IInv, TaskTypes
<1>5. DueBelongs'
  BY <1>1, <1>4 DEF IInv, TaskTypes, NamesFit, DueBelongs
<1> QED BY <1>1, <1>4, <1>5, KeptNames DEF NamesFit

LEMMA RegisterNames ==
  ASSUME IInv, NamesFit, NEW m \in Messages, Register(m)
  PROVE  NamesFit'
<1>1. /\ task[m] = "register" /\ rows' = Put(rows, Place(m), due[m])
      /\ task' = [task EXCEPT ![m] = "none"] /\ due' = [due EXCEPT ![m] = None]
      /\ UNCHANGED <<where, work, todo, repaired>>
  BY DEF Register, EndTask, run, pass
<1>2. todo = {}
  BY <1>1, TasksAlone
<1>3. RowsBelong'
  BY <1>1 DEF Put, NamesFit, RowsBelong, DueBelongs
<1>4. DueBelongs'
  BY <1>1 DEF IInv, TaskTypes, NamesFit, DueBelongs
<1>5. TodoIsBroken'
  BY <1>1, <1>2 DEF TodoIsBroken
<1> QED BY <1>1, <1>3, <1>4, <1>5, KeptNames DEF NamesFit

LEMMA ReplaceNames ==
  ASSUME IInv, NamesFit, NEW p \in Places, NEW c \in Contents, Replace(p, c)
  PROVE  NamesFit'
<1>1. where = "verify" /\ p \in todo /\ todo' = todo \ {p} /\ UNCHANGED <<rows, where, task, due, work>>
  BY DEF Replace, run, tasks
<1> DEFINE n == Len(repaired)
<1>2. /\ Len(repaired') = n + 1 /\ \A i \in 1 .. n : repaired'[i] = repaired[i]
      /\ repaired'[n + 1].place = p /\ repaired'[n + 1].row.path = Replacement(p)
  BY LineGrows
<1>3. n \in Nat
  BY TheRepairs
<1> HIDE DEF n
<1>4. RepairsBelong'
  BY <1>2, <1>3, ReplacementBelongs DEF n, NamesFit, RepairsBelong
<1>5. PassAlone'
  BY <1>1 DEF PassAlone
<1>6. TodoIsBroken'
  <2>1. \A q \in todo : Fine(q)' = Fine(q)
    BY <1>1 DEF Fine
  <2> QED BY <1>1, <2>1 DEF NamesFit, TodoIsBroken
<1>7. OnceInLine'
  <2>1. \A i \in 1 .. n : repaired'[i].place # p
    BY <1>1, <1>2 DEF n, NamesFit, OnceInLine
  <2> QED BY <1>1, <1>2, <1>3, <2>1 DEF n, NamesFit, OnceInLine
<1> QED BY <1>1, <1>4, <1>5, <1>6, <1>7, KeptNames DEF NamesFit

LEMMA RegisterRepairedNames ==
  ASSUME IInv, NamesFit, RegisterRepaired
  PROVE  NamesFit'
<1>1. where = "verify" /\ UNCHANGED <<where, task, due, work, todo>>
  BY DEF RegisterRepaired, run, tasks
<1>2. /\ Len(repaired) \in Nat \ {0} /\ Len(repaired') = Len(repaired) - 1
      /\ \A i \in 1 .. Len(repaired') : repaired'[i] = repaired[i + 1]
      /\ rows' = Put(rows, repaired[1].place, repaired[1].row)
  BY LineShrinks
<1>3. \A i \in 1 .. Len(repaired') : i + 1 \in 1 .. Len(repaired)
  BY <1>2
<1>4. 1 \in 1 .. Len(repaired)
  BY <1>2
<1>5. RowsBelong'
  BY <1>2, <1>4 DEF Put, NamesFit, RowsBelong, RepairsBelong
<1>6. RepairsBelong'
  BY <1>2, <1>3 DEF NamesFit, RepairsBelong
<1>7. PassAlone'
  BY <1>1 DEF PassAlone
<1>8. TodoIsBroken'
  <2> SUFFICES ASSUME NEW q \in todo PROVE ~Fine(q)'
    BY <1>1 DEF TodoIsBroken
  <2>1. q # repaired[1].place /\ q \in DOMAIN rows
    BY <1>4 DEF NamesFit, OnceInLine, IInv, PassTypes
  <2>2. rows'[q] = rows[q]
    BY <1>2, <2>1 DEF Put
  <2> QED BY <2>2 DEF Fine, NamesFit, TodoIsBroken
<1>9. OnceInLine'
  <2>1. \A i \in 1 .. Len(repaired') : repaired'[i].place \notin todo'
    BY <1>1, <1>2, <1>3 DEF NamesFit, OnceInLine
  <2>2. ASSUME NEW i \in 1 .. Len(repaired'), NEW j \in 1 .. Len(repaired'),
               repaired'[i].place = repaired'[j].place
        PROVE  i = j
    <3>1. i + 1 = j + 1
      BY <1>2, <1>3, <2>2 DEF NamesFit, OnceInLine
    <3> QED BY <1>2, <3>1
  <2> QED BY <2>1, <2>2 DEF OnceInLine
<1> QED BY <1>1, <1>5, <1>6, <1>7, <1>8, <1>9, KeptNames DEF NamesFit

LEMMA InitNames == Init => NamesFit
<1> SUFFICES ASSUME Init PROVE NamesFit
  OBVIOUS
<1>1. DOMAIN rows = {} /\ todo = {} /\ repaired = <<>> /\ Len(repaired) = 0
  BY EmptySeq DEF Init, Nothing
<1>2. DueBelongs /\ ThreadsBelong
  BY DEF Init, DueBelongs, ThreadsBelong
<1> QED BY <1>1, <1>2 DEF NamesFit, RowsBelong, RepairsBelong, PassAlone, TodoIsBroken, OnceInLine

\* The steps that move no file and write no row.
LEMMA OtherNames ==
  ASSUME IInv, NamesFit,
         \/ \E m \in Messages : Begin(m) \/ FetchNothing(m)
         \/ StartRun \/ (\E c \in Chats : StartChat(c)) \/ EndChat \/ FailChat
         \/ StartVerify \/ \E p \in Places : GiveUp(p)
  PROVE  NamesFit'
<1>1. UNCHANGED <<rows, work, repaired>>
  BY DEF Begin, FetchNothing, StartRun, StartChat, EndChat, FailChat, StartVerify, GiveUp, stores, pass
<1>2. RowsBelong' /\ ThreadsBelong' /\ RepairsBelong'
  BY <1>1, KeptNames DEF NamesFit
<1>3. DueBelongs'
  <2>1. \A m \in Messages : task'[m] = "register" => task[m] = "register" /\ due'[m] = due[m]
    <3>1. ASSUME NEW m \in Messages, Begin(m) \/ FetchNothing(m)
          PROVE  \A n \in Messages : task'[n] = "register" => task[n] = "register" /\ due'[n] = due[n]
      BY <3>1 DEF Begin, FetchNothing, EndTask, IInv, TaskTypes
    <3>2. FailChat => \A n \in Messages : task'[n] = "none"
      BY DEF FailChat
    <3>3. StartRun \/ (\E c \in Chats : StartChat(c)) \/ EndChat \/ StartVerify \/ (\E p \in Places : GiveUp(p))
          => UNCHANGED <<task, due>>
      BY DEF StartRun, StartChat, EndChat, StartVerify, GiveUp, tasks
    <3> QED BY <3>1, <3>2, <3>3
  <2> QED BY <2>1 DEF NamesFit, DueBelongs
<1>4. PassAlone' /\ TodoIsBroken' /\ OnceInLine'
  <2>1. CASE StartVerify
    <3>1. where = "between" /\ repaired = <<>> /\ Len(repaired) = 0
      BY <2>1, TasksAlone DEF StartVerify, NamesFit, PassAlone
    <3>2. todo' = {p \in DOMAIN rows : ~Fine(p)} /\ where' = "verify"
      BY <2>1 DEF StartVerify, Broken
    <3>3. \A p \in DOMAIN rows : Fine(p)' = Fine(p)
      BY <1>1 DEF Fine
    <3> QED BY <1>1, <3>1, <3>2, <3>3 DEF PassAlone, TodoIsBroken, OnceInLine
  <2>2. ASSUME NEW p \in Places, GiveUp(p) PROVE PassAlone' /\ TodoIsBroken' /\ OnceInLine'
    <3>1. where' = "verify" /\ todo' = todo \ {p}
      BY <2>2 DEF GiveUp, run
    <3>2. \A q \in todo : Fine(q)' = Fine(q)
      BY <1>1 DEF Fine
    <3> QED BY <1>1, <3>1, <3>2 DEF NamesFit, PassAlone, TodoIsBroken, OnceInLine
  <2>3. CASE ~StartVerify /\ ~\E p \in Places : GiveUp(p)
    <3>1. todo' = todo /\ (where' = "verify" => where = "verify")
          /\ (where = "verify" => where' = "verify")
      BY <2>3, MediaAssumption
         DEF Begin, FetchNothing, StartRun, StartChat, EndChat, FailChat, run, pass
    <3> QED BY <1>1, <3>1, KeptNames DEF NamesFit, PassAlone
  <2> QED BY <2>1, <2>2, <2>3
<1> QED BY <1>2, <1>3, <1>4 DEF NamesFit

LEMMA EndNames ==
  ASSUME IInv, NamesFit, EndRun \/ Stop \/ Kill
  PROVE  NamesFit'
<1>1. CASE Ended
  BY <1>1, NamesAfterRun DEF EndRun, Stop, Kill, stores
<1>2. CASE where = "verify" /\ todo' = {} /\ UNCHANGED <<rows, run, tasks, work, repaired>>
  <2>1. PassAlone' /\ TodoIsBroken' /\ OnceInLine'
    BY <1>2 DEF NamesFit, PassAlone, TodoIsBroken, OnceInLine, run
  <2> QED BY <1>2, <2>1, KeptNames DEF NamesFit, tasks
<1> QED BY <1>1, <1>2 DEF EndRun, Stop, Kill, stores

LEMMA StepNames == IInv /\ NamesFit /\ [Next]_vars => NamesFit'
<1> SUFFICES ASSUME IInv, NamesFit, [Next]_vars PROVE NamesFit'
  OBVIOUS
<1>1. \A f \in Files : Whole(f) \in Contents /\ Short(f) \in Contents
  BY TheContents
<1>2. ASSUME NEW m \in Messages, Download(m) PROVE NamesFit'
  BY <1>2, OtherNames, LookupNames, ClaimNames, ThreadNames, ThreadReturnsNames,
     FetchNames, RegisterNames DEF Download
<1>3. CASE Work
  BY <1>1, <1>2, <1>3, ThePlaces, OtherNames, ReplaceNames, RegisterRepairedNames,
     EndNames DEF Work
<1>4. CASE Disturbance
  BY <1>1, <1>4, ThePlaces, FetchNames, OtherNames, ReplaceNames, EndNames DEF Disturbance
<1>5. CASE UNCHANGED vars
  BY <1>5, KeptNames DEF NamesFit, vars, stores, run, tasks, pass
<1> QED BY <1>3, <1>4, <1>5 DEF Next

LEMMA NamesInvariant == Spec => []NamesFit
BY InitNames, StepNames, Invariant, PTL DEF Spec

-----------------------------------------------------------------------------
(* Seats.  A file nobody may reuse competes with others for its name; what  *)
(* names it has its path on the disk, and no other row, task or repair has  *)
(* that path.                                                               *)

\* A file that may be reused has a name no other file is saved under.
OwnNames == \A f, g \in Files : Shared(f) /\ NameOf[f] = NameOf[g] => f = g

\* No run is killed, or no download is cut short.
Calm == "kill" \notin Faults \/ "short" \notin Faults

Lone(p) == ~Shared(p[1])
InLine(p) == \E i \in 1 .. Len(repaired) : repaired[i].place = p

Seated ==
  /\ \A p \in DOMAIN rows : Lone(p) /\ ~InLine(p) => rows[p].path \in DOMAIN disk
  /\ \A i \in 1 .. Len(repaired) :
       Lone(repaired[i].place) => repaired[i].row.path \in DOMAIN disk
  /\ \A m \in Messages :
       task[m] = "register" /\ Lone(Place(m)) => due[m].path \in DOMAIN disk

\* A path that a repair frees may be taken by a later one: its row is written
\* later, too, so no two rows share it.
Apart ==
  /\ OneRowOneFile
  /\ \A i \in 1 .. Len(repaired), p \in DOMAIN rows :
       repaired[i].row.path = rows[p].path => \E j \in 1 .. i : repaired[j].place = p
  /\ \A i, j \in 1 .. Len(repaired) : repaired[i].row.path = repaired[j].row.path => i = j
  /\ \A m \in Messages, p \in DOMAIN rows :
       task[m] = "register" /\ due[m].path = rows[p].path => p = Place(m)
  /\ \A m, n \in Messages :
       task[m] = "register" /\ task[n] = "register" /\ due[m].path = due[n].path => m = n

\* Where nothing is cut short the pass has no such file to repair.
NothingCut ==
  "short" \notin Faults =>
    /\ \A p \in DOMAIN rows : Lone(p) => Fine(p)
    /\ \A i \in 1 .. Len(repaired) : ~Lone(repaired[i].place)
    /\ \A m \in Messages :
         task[m] = "register" /\ Lone(Place(m)) =>
           /\ due[m].status = "done"
           /\ FileOf[m] \in Sized => due[m].actual = Size[FileOf[m]]

Seats == Seated /\ Apart /\ NothingCut

LEMMA SamePlace ==
  ASSUME OwnNames, NEW p \in Places, NEW q \in Places, NEW path,
         Belongs(path, p), Belongs(path, q), ~Lone(p) \/ ~Lone(q)
  PROVE  p = q
<1>1. p[1] \in Files /\ q[1] \in Files /\ NameOf[p[1]] = NameOf[q[1]] /\ p[2] = q[2]
  BY ThePlaces DEF Belongs
<1>2. p[1] = q[1]
  BY <1>1 DEF OwnNames, Lone
<1> QED BY <1>1, <1>2, ThePlaces

\* The steps after which every seat is still there.
LEMMA SeatsKept ==
  ASSUME IInv, NamesFit, Seats, UNCHANGED <<rows, repaired>>,
         \A m \in Messages : task'[m] = "register" => task[m] = "register" /\ due'[m] = due[m],
         \A p \in Places, path \in DOMAIN disk :
           Lone(p) /\ Belongs(path, p) => path \in DOMAIN disk'
  PROVE  Seats'
<1>1. \A p \in DOMAIN rows : p \in Places /\ Belongs(rows[p].path, p)
  BY DEF IInv, StoreTypes, NamesFit, RowsBelong
<1>2. \A i \in 1 .. Len(repaired) : repaired[i].place \in Places /\ Belongs(repaired[i].row.path, repaired[i].place)
  BY TheRepairs DEF NamesFit, RepairsBelong
<1>3. \A m \in Messages : task[m] = "register" => Place(m) \in Places /\ Belongs(due[m].path, Place(m))
  BY ThePlaces DEF NamesFit, DueBelongs
<1>4. \A p : InLine(p)' <=> InLine(p)
  BY DEF InLine
<1>5. Seated'
  BY <1>1, <1>2, <1>3, <1>4 DEF Seats, Seated
<1>6. Apart'
  BY DEF Seats, Apart, OneRowOneFile
<1>7. NothingCut'
  BY DEF Seats, NothingCut, Fine
<1> QED BY <1>5, <1>6, <1>7 DEF Seats

\* A thread writes where no such file has its path.
LEMMA ThreadSeats ==
  ASSUME OwnNames, IInv, NamesFit, Seats, NEW m \in Messages,
         ClaimForReuse(m) \/ HandOver(m) \/ CopyEnd(m) \/ HandOverFails(m)
  PROVE  Seats'
<1>1. UNCHANGED <<rows, repaired, task, due>>
  BY DEF ClaimForReuse, HandOver, CopyEnd, HandOverFails, stores, tasks, pass
<1>2. \E dst : Belongs(dst, Place(m)) /\ DOMAIN disk \ {dst} \subseteq DOMAIN disk'
  <2>1. CASE ClaimForReuse(m)
    <3> DEFINE dst == Candidate(ChatOf[m], SourceName(m), FirstOutside(ChatOf[m], SourceName(m), 0, Claimed))
    <3>1. Belongs(dst, Place(m))
      BY <2>1, ClaimNames
    <3>2. disk' = disk \/ disk' = Remove(disk, {dst})
      BY <2>1 DEF ClaimForReuse
    <3> HIDE DEF dst
    <3>3. DOMAIN Remove(disk, {dst}) = DOMAIN disk \ {dst}
      BY RemoveOn
    <3> QED BY <3>1, <3>2, <3>3
  <2>2. CASE HandOver(m) \/ CopyEnd(m) \/ HandOverFails(m)
    <3>1. disk' = disk \/ \E x : disk' = Put(disk, work[m].dst, x)
      BY <2>2 DEF HandOver, CopyEnd, HandOverFails, stores
    <3>2. work[m].at \in {"hand", "copy"}
      BY <2>2 DEF HandOver, CopyEnd, HandOverFails
    <3>3. Belongs(work[m].dst, Place(m))
      BY <3>2 DEF NamesFit, ThreadsBelong
    <3>4. \A x : DOMAIN Put(disk, work[m].dst, x) = DOMAIN disk \cup {work[m].dst}
      BY DEF Put
    <3>5. DOMAIN disk \subseteq DOMAIN disk'
      BY <3>1, <3>4
    <3> QED BY <3>3, <3>5
  <2> QED BY <2>1, <2>2
<1>3. work[m].at # "none"
  BY DEF ClaimForReuse, HandOver, CopyEnd, HandOverFails
<1>4. ~Lone(Place(m))
  BY <1>3, ThePlaces DEF NamesFit, ThreadsBelong, Lone
<1>5. \A p \in Places, path \in DOMAIN disk : Lone(p) /\ Belongs(path, p) => path \in DOMAIN disk'
  BY <1>2, <1>4, SamePlace, ThePlaces
<1> QED BY <1>1, <1>5, SeatsKept

\* A task that is about to register has a path no row and no other task has,
\* when it is the path of a file others may reuse.
LEMMA SharedIsApart ==
  ASSUME OwnNames, IInv, NamesFit, NEW m \in Messages, Inside(m), ~Lone(Place(m)),
         NEW path, Belongs(path, Place(m))
  PROVE  /\ \A p \in DOMAIN rows : rows[p].path = path => p = Place(m)
         /\ \A n \in Messages : task[n] = "register" /\ due[n].path = path => n = m
<1>1. \A p \in DOMAIN rows : p \in Places /\ Belongs(rows[p].path, p)
  BY DEF IInv, StoreTypes, NamesFit, RowsBelong
<1>2. \A p \in DOMAIN rows : rows[p].path = path => p = Place(m)
  BY <1>1, ThePlaces, SamePlace
<1>3. ASSUME NEW n \in Messages, task[n] = "register", due[n].path = path PROVE n = m
  <2>1. Belongs(path, Place(n))
    BY <1>3 DEF NamesFit, DueBelongs
  <2>2. Place(n) = Place(m)
    BY <2>1, ThePlaces, SamePlace
  <2>3. FileOf[n] = FileOf[m]
    BY <2>2, ThePlaces
  <2> QED BY <1>3, <2>3 DEF IInv, OneInside, Inside
<1> QED BY <1>2, <1>3

\* A path that appears with a task.
LEMMA DueSeats ==
  ASSUME IInv, NamesFit, Seats, NEW m \in Messages, task[m] # "register",
         UNCHANGED <<rows, repaired>>, DOMAIN disk \subseteq DOMAIN disk',
         task' = [task EXCEPT ![m] = "register"],
         NEW row, due' = [due EXCEPT ![m] = row],
         \A p \in DOMAIN rows : rows[p].path = row.path => p = Place(m),
         \A n \in Messages : task[n] = "register" => due[n].path # row.path,
         Lone(Place(m)) => row.path \in DOMAIN disk',
         "short" \notin Faults /\ Lone(Place(m)) =>
           row.status = "done" /\ (FileOf[m] \in Sized => row.actual = Size[FileOf[m]])
  PROVE  Seats'
<1>1. /\ task'[m] = "register" /\ due'[m] = row
      /\ \A n \in Messages \ {m} : task'[n] = task[n] /\ due'[n] = due[n]
  BY DEF IInv, TaskTypes
<1>2. \A p : InLine(p)' <=> InLine(p)
  BY DEF InLine
<1>3. Seated'
  BY <1>1, <1>2 DEF Seats, Seated
<1>4. Apart'
  <2>1. /\ OneRowOneFile'
        /\ \A i \in 1 .. Len(repaired'), p \in DOMAIN rows' :
             repaired'[i].row.path = rows'[p].path => \E j \in 1 .. i : repaired'[j].place = p
        /\ \A i, j \in 1 .. Len(repaired') : repaired'[i].row.path = repaired'[j].row.path => i = j
    BY DEF Seats, Apart, OneRowOneFile
  <2>2. \A k \in Messages, p \in DOMAIN rows' :
          task'[k] = "register" /\ due'[k].path = rows'[p].path => p = Place(k)
    BY <1>1 DEF Seats, Apart
  <2>3. \A k, n \in Messages :
          task'[k] = "register" /\ task'[n] = "register" /\ due'[k].path = due'[n].path => k = n
    BY <1>1 DEF Seats, Apart
  <2> QED BY <2>1, <2>2, <2>3 DEF Apart
<1>5. NothingCut'
  BY <1>1 DEF Seats, NothingCut, Fine
<1> QED BY <1>3, <1>4, <1>5 DEF Seats

LEMMA ThreadReturnsSeats ==
  ASSUME OwnNames, IInv, NamesFit, Seats, NEW m \in Messages, ThreadReturns(m)
  PROVE  Seats'
<1>1. UNCHANGED <<disk, rows, repaired>>
  BY DEF ThreadReturns, stores, pass
<1>2. CASE task[m] = "reuse" /\ work[m].at = "done"
  <2> DEFINE row == RowFor(FileOf[m], disk, work[m].dst)
  <2>1. task' = [task EXCEPT ![m] = "register"] /\ due' = [due EXCEPT ![m] = row]
    BY <1>2 DEF ThreadReturns
  <2>2. row.path = work[m].dst
    BY DEF RowFor
  <2>3. Belongs(work[m].dst, Place(m)) /\ ~Lone(Place(m)) /\ Inside(m)
    BY <1>2, ThePlaces DEF NamesFit, ThreadsBelong, Lone, Inside
  <2> HIDE DEF row
  <2>4. /\ \A p \in DOMAIN rows : rows[p].path = row.path => p = Place(m)
        /\ \A n \in Messages : task[n] = "register" => due[n].path # row.path
    BY <1>2, <2>2, <2>3, SharedIsApart
  <2> QED BY <1>1, <1>2, <2>1, <2>3, <2>4, DueSeats
<1>3. CASE ~(task[m] = "reuse" /\ work[m].at = "done")
  <2>1. /\ task' = task \/ \E stage \in {"reuse", "fetch"} : task' = [task EXCEPT ![m] = stage]
        /\ due' = due
    BY <1>3 DEF ThreadReturns, NextSource, StartThread
  <2>2. \A n \in Messages : task'[n] = "register" => task[n] = "register" /\ due'[n] = due[n]
    BY <2>1 DEF IInv, TaskTypes
  <2> QED BY <1>1, <2>2, SeatsKept
<1> QED BY <1>2, <1>3

\* A download takes a name that is free.
LEMMA FetchedIsFree ==
  ASSUME IInv, NEW m \in Messages
  PROVE  Candidate(ChatOf[m], Plain(FileOf[m]),
                   FirstOutside(ChatOf[m], Plain(FileOf[m]),
                                cursor[<<ChatOf[m], NameOf[FileOf[m]]>>], Occupied)) \notin DOMAIN disk
<1> DEFINE from == cursor[<<ChatOf[m], NameOf[FileOf[m]]>>]
           name == Plain(FileOf[m])
<1>1. from \in Nat /\ name.no \in Seq(Nat)
  BY ThePlain, ThePlaces DEF IInv, NumberTypes
<1>2. IsFiniteSet(Occupied)
  BY ClaimsAreFinite, FS_Union DEF Occupied, IInv, FiniteDisk
<1> HIDE DEF from, name
<1>3. Candidate(ChatOf[m], name, FirstOutside(ChatOf[m], name, from, Occupied)) \notin Occupied
  BY <1>1, <1>2, FirstIsOutside
<1> QED BY <1>3 DEF Occupied, from, name

LEMMA FetchSeats ==
  ASSUME OwnNames, IInv, NamesFit, Seats, NEW m \in Messages,
         NEW c \in {Whole(FileOf[m]), Short(FileOf[m])}, Fetch(m, c)
  PROVE  Seats'
<1> DEFINE i == FirstOutside(ChatOf[m], Plain(FileOf[m]), cursor[<<ChatOf[m], NameOf[FileOf[m]]>>], Occupied)
           dst == Candidate(ChatOf[m], Plain(FileOf[m]), i)
           row == RowFor(FileOf[m], disk', dst)
<1>1. /\ task[m] = "fetch" /\ task' = [task EXCEPT ![m] = "register"]
      /\ due' = [due EXCEPT ![m] = row] /\ disk' = Put(disk, dst, c)
      /\ UNCHANGED <<rows, repaired>>
      /\ c = Whole(FileOf[m]) \/ "short" \in Faults
  BY DEF Fetch, pass, Disturb
<1>2. dst \notin DOMAIN disk
  BY FetchedIsFree
<1>3. Belongs(dst, Place(m)) /\ Inside(m)
  BY <1>1, ThePlaces, CandidateBelongs DEF Plain, Inside
<1> HIDE DEF i, dst
<1>4. dst \in DOMAIN disk' /\ DOMAIN disk \subseteq DOMAIN disk' /\ disk'[dst] = c
  <2>1. /\ DOMAIN Put(disk, dst, c) = DOMAIN disk \cup {dst}
        /\ \A p \in DOMAIN disk \cup {dst} : Put(disk, dst, c)[p] = IF p = dst THEN c ELSE disk[p]
    BY DEF Put
  <2> QED BY <1>1, <2>1
<1>5. row.path = dst
  BY DEF RowFor
<1>6. "short" \notin Faults => row.status = "done" /\ (FileOf[m] \in Sized => row.actual = Size[FileOf[m]])
  BY <1>1, <1>4, ThePlaces, MediaAssumption DEF RowFor, SizeOn, Whole, Expected
<1> HIDE DEF row
<1>7. /\ \A p \in DOMAIN rows : rows[p].path = row.path => p = Place(m)
      /\ \A n \in Messages : task[n] = "register" => due[n].path # row.path
  <2>1. CASE ~Lone(Place(m))
    BY <1>1, <1>3, <1>5, <2>1, SharedIsApart
  <2>2. CASE Lone(Place(m))
    <3>1. ASSUME NEW p \in DOMAIN rows, rows[p].path = dst PROVE p = Place(m)
      <4>1. p \in Places /\ Belongs(dst, p)
        BY <3>1 DEF IInv, StoreTypes, NamesFit, RowsBelong
      <4>2. CASE ~Lone(p)
        BY <1>3, <4>1, <4>2, SamePlace, ThePlaces
      <4>3. CASE Lone(p)
        <5>1. Len(repaired) = 0
          BY <1>1, TasksAlone, EmptySeq
        <5>2. rows[p].path \in DOMAIN disk
          BY <4>3, <5>1 DEF Seats, Seated, InLine
        <5> QED BY <1>2, <3>1, <5>2
      <4> QED BY <4>2, <4>3
    <3>2. ASSUME NEW n \in Messages, task[n] = "register" PROVE due[n].path # dst
      <4>1. CASE Lone(Place(n))
        BY <1>2, <3>2, <4>1 DEF Seats, Seated
      <4>2. CASE ~Lone(Place(n))
        <5> SUFFICES ASSUME due[n].path = dst PROVE FALSE
          OBVIOUS
        <5>1. Belongs(dst, Place(n))
          BY <3>2 DEF NamesFit, DueBelongs
        <5> QED BY <1>3, <2>2, <4>2, <5>1, SamePlace, ThePlaces
      <4> QED BY <4>1, <4>2
    <3> QED BY <1>5, <3>1, <3>2
  <2> QED BY <2>1, <2>2
<1> QED BY <1>1, <1>4, <1>5, <1>6, <1>7, DueSeats

LEMMA RegisterSeats ==
  ASSUME IInv, NamesFit, Seats, NEW m \in Messages, Register(m)
  PROVE  Seats'
<1>1. /\ task[m] = "register" /\ rows' = Put(rows, Place(m), due[m])
      /\ task' = [task EXCEPT ![m] = "none"] /\ due' = [due EXCEPT ![m] = None]
      /\ UNCHANGED <<disk, repaired>>
  BY DEF Register, EndTask, pass
<1>2. Len(repaired) = 0
  BY <1>1, TasksAlone, EmptySeq
<1>3. /\ DOMAIN rows' = DOMAIN rows \cup {Place(m)} /\ rows'[Place(m)] = due[m]
      /\ \A p \in DOMAIN rows' : p # Place(m) => p \in DOMAIN rows /\ rows'[p] = rows[p]
  BY <1>1 DEF Put
<1>4. \A n \in Messages : task'[n] = "register" => n # m /\ task[n] = "register" /\ due'[n] = due[n]
  BY <1>1 DEF IInv, TaskTypes
<1>5. Seated'
  <2>1. \A p \in DOMAIN rows' : Lone(p) => rows'[p].path \in DOMAIN disk
    BY <1>1, <1>2, <1>3 DEF Seats, Seated, InLine
  <2>2. \A n \in Messages : task'[n] = "register" /\ Lone(Place(n)) => due'[n].path \in DOMAIN disk
    BY <1>4 DEF Seats, Seated
  <2> QED BY <1>1, <1>2, <2>1, <2>2 DEF Seated
<1>6. Apart'
  <2>1. OneRowOneFile'
    <3> SUFFICES ASSUME NEW p \in DOMAIN rows', NEW q \in DOMAIN rows', rows'[p].path = rows'[q].path
                 PROVE  p = q
      BY DEF OneRowOneFile
    <3>1. CASE p # Place(m) /\ q # Place(m)
      BY <1>3, <3>1 DEF Seats, Apart, OneRowOneFile
    <3>2. \A x \in DOMAIN rows' : x # Place(m) => rows'[x].path # due[m].path
      BY <1>1, <1>3 DEF Seats, Apart
    <3> QED BY <1>3, <3>1, <3>2
  <2>2. ASSUME NEW n \in Messages, NEW p \in DOMAIN rows', task'[n] = "register", due'[n].path = rows'[p].path
        PROVE  p = Place(n)
    <3>1. n # m /\ task[n] = "register" /\ due[n].path = rows'[p].path
      BY <1>4, <2>2
    <3>2. CASE p = Place(m)
      BY <1>1, <1>3, <3>1, <3>2 DEF Seats, Apart
    <3>3. CASE p # Place(m)
      BY <1>3, <3>1, <3>3 DEF Seats, Apart
    <3> QED BY <3>2, <3>3
  <2>3. \A k, n \in Messages :
          task'[k] = "register" /\ task'[n] = "register" /\ due'[k].path = due'[n].path => k = n
    BY <1>4 DEF Seats, Apart
  <2> QED BY <1>1, <1>2, <2>1, <2>2, <2>3 DEF Apart
<1>7. NothingCut'
  <2> SUFFICES ASSUME "short" \notin Faults PROVE NothingCut'
    BY DEF NothingCut
  <2>1. ASSUME NEW p \in DOMAIN rows', Lone(p) PROVE Fine(p)'
    <3>1. CASE p = Place(m)
      BY <1>1, <1>3, <2>1, <3>1, ThePlaces DEF Seats, NothingCut, Fine
    <3>2. CASE p # Place(m)
      BY <1>3, <2>1, <3>2 DEF Seats, NothingCut, Fine
    <3> QED BY <3>1, <3>2
  <2>2. \A n \in Messages :
          task'[n] = "register" /\ Lone(Place(n)) =>
            /\ due'[n].status = "done"
            /\ FileOf[n] \in Sized => due'[n].actual = Size[FileOf[n]]
    BY <1>4 DEF Seats, NothingCut
  <2> QED BY <1>1, <1>2, <2>1, <2>2 DEF NothingCut
<1> QED BY <1>5, <1>6, <1>7 DEF Seats

\* The sweep takes nothing a row names.
LEMMA StartChatSeats ==
  ASSUME IInv, NamesFit, Seats, NEW c \in Chats, StartChat(c)
  PROVE  Seats'
<1>1. /\ where = "between" /\ disk' = Remove(disk, Orphans(c))
      /\ UNCHANGED <<rows, task, due, repaired>>
  BY DEF StartChat, tasks, pass
<1>2. Len(repaired) = 0 /\ \A m \in Messages : task[m] = "none"
  BY <1>1, TasksAlone, MediaAssumption
<1>3. DOMAIN disk' = DOMAIN disk \ Orphans(c)
  BY <1>1, RemoveOn
<1>4. \A p \in DOMAIN rows : rows[p].path \notin Orphans(c)
  BY DEF Orphans, Known, NamesFit, RowsBelong, Belongs
<1>5. Seated'
  BY <1>1, <1>2, <1>3, <1>4 DEF Seats, Seated, InLine
<1>6. Apart' /\ NothingCut'
  BY <1>1 DEF Seats, Apart, OneRowOneFile, NothingCut, Fine
<1> QED BY <1>5, <1>6 DEF Seats

\* A repair takes its own path or one that is free.
LEMMA ReplacementIsFree ==
  ASSUME IInv, NEW p \in Places
  PROVE  Replacement(p) \notin DOMAIN disk \ {rows[p].path}
<1> DEFINE taken == DOMAIN disk \ {rows[p].path}
<1>1. IsFiniteSet(taken)
  BY FS_Difference DEF IInv, FiniteDisk
<1>2. Plain(p[1]).no \in Seq(Nat)
  BY ThePlaces, ThePlain
<1> HIDE DEF taken
<1>3. Candidate(p[2], Plain(p[1]), FirstOutside(p[2], Plain(p[1]), 0, taken)) \notin taken
  BY <1>1, <1>2, FirstIsOutside
<1> QED BY <1>3 DEF Replacement, taken

LEMMA ReplaceSeats ==
  ASSUME OwnNames, IInv, NamesFit, Seats, NEW p \in Places, NEW c \in Contents, Replace(p, c)
  PROVE  Seats'
<1> DEFINE n == Len(repaired)
           final == Replacement(p)
           old == rows[p].path
<1>1. /\ where = "verify" /\ p \in todo /\ p \in DOMAIN rows /\ UNCHANGED <<rows, task, due>>
      /\ disk' = Put(Remove(disk, {old}), final, c)
  BY DEF Replace, tasks, IInv, PassTypes
<1>2. \A m \in Messages : task[m] = "none"
  BY <1>1, TasksAlone
<1>3. /\ Len(repaired') = n + 1 /\ \A i \in 1 .. n : repaired'[i] = repaired[i]
      /\ repaired'[n + 1].place = p /\ repaired'[n + 1].row.path = final
  BY LineGrows
<1>4. n \in Nat /\ \A i \in 1 .. n : repaired[i].place \in Places
  BY TheRepairs
<1>5. final \notin DOMAIN disk \ {old} /\ Belongs(final, p)
  BY ReplacementIsFree, ReplacementBelongs
<1> HIDE DEF n, final, old
<1>6. DOMAIN disk' = (DOMAIN disk \ {old}) \cup {final}
  <2>1. DOMAIN Remove(disk, {old}) = DOMAIN disk \ {old}
    BY RemoveOn
  <2>2. DOMAIN Put(Remove(disk, {old}), final, c) = DOMAIN Remove(disk, {old}) \cup {final}
    BY PutOn
  <2> QED BY <1>1, <2>1, <2>2
<1>7. \A q : InLine(q)' <=> InLine(q) \/ q = p
  BY <1>3, <1>4 DEF InLine, n
<1>8. ~InLine(p)
  BY <1>1 DEF InLine, NamesFit, OnceInLine
\* The path of the repair is nobody's.
<1>9. ASSUME NEW q \in DOMAIN rows, q # p, ~InLine(q) PROVE rows[q].path # final /\ rows[q].path # old
  <2>1. rows[q].path # old
    BY <1>1, <1>9 DEF Seats, Apart, OneRowOneFile, old
  <2>2. q \in Places /\ Belongs(rows[q].path, q)
    BY DEF IInv, StoreTypes, NamesFit, RowsBelong
  <2>3. CASE Lone(q)
    BY <1>5, <1>9, <2>1, <2>3 DEF Seats, Seated
  <2>4. CASE ~Lone(q)
    BY <1>5, <1>9, <2>1, <2>2, <2>4, SamePlace
  <2> QED BY <2>3, <2>4
<1>10. ASSUME NEW i \in 1 .. n PROVE repaired[i].row.path # final /\ repaired[i].row.path # old
  <2>1. repaired[i].row.path # old
    <3> SUFFICES ASSUME repaired[i].row.path = rows[p].path PROVE FALSE
      BY DEF old
    <3>1. PICK j \in 1 .. i : repaired[j].place = p
      BY <1>1, <1>10 DEF Seats, Apart, n
    <3>2. j \in 1 .. n
      BY <1>4, <1>10, <3>1
    <3> QED BY <1>8, <3>1, <3>2 DEF InLine, n
  <2>2. repaired[i].place # p /\ repaired[i].place \in Places
    BY <1>4, <1>8, <1>10 DEF InLine, n
  <2>3. Belongs(repaired[i].row.path, repaired[i].place)
    BY <1>10 DEF NamesFit, RepairsBelong, n
  <2>4. CASE Lone(repaired[i].place)
    BY <1>5, <1>10, <2>1, <2>4 DEF Seats, Seated, n
  <2>5. CASE ~Lone(repaired[i].place)
    BY <1>5, <2>1, <2>2, <2>3, <2>5, SamePlace
  <2> QED BY <2>1, <2>4, <2>5
<1>11. Seated'
  <2>1. \A q \in DOMAIN rows' : Lone(q) /\ ~InLine(q)' => rows'[q].path \in DOMAIN disk'
    BY <1>1, <1>6, <1>7, <1>9 DEF Seats, Seated
  <2>2. \A i \in 1 .. n : Lone(repaired'[i].place) => repaired'[i].row.path \in DOMAIN disk'
    BY <1>3, <1>6, <1>10 DEF Seats, Seated, n
  <2>3. repaired'[n + 1].row.path \in DOMAIN disk'
    BY <1>3, <1>6
  <2>4. \A i \in 1 .. Len(repaired') : i \in 1 .. n \/ i = n + 1
    BY <1>3, <1>4
  <2>5. \A m \in Messages : task'[m] = "none"
    BY <1>1, <1>2
  <2> QED BY <2>1, <2>2, <2>3, <2>4, <2>5 DEF Seated
<1>12. Apart'
  <2>1. OneRowOneFile'
    BY <1>1 DEF Seats, Apart, OneRowOneFile
  <2>2. \A i \in 1 .. Len(repaired') : i \in 1 .. n \/ i = n + 1
    BY <1>3, <1>4
  <2>3. ASSUME NEW i \in 1 .. Len(repaired'), NEW q \in DOMAIN rows', repaired'[i].row.path = rows'[q].path
        PROVE  \E j \in 1 .. i : repaired'[j].place = q
    <3>1. CASE i \in 1 .. n
      <4>1. PICK j \in 1 .. i : repaired[j].place = q
        BY <1>1, <1>3, <2>3, <3>1 DEF Seats, Apart, n
      <4>2. j \in 1 .. n
        BY <1>4, <3>1, <4>1
      <4> QED BY <1>3, <4>1, <4>2
    <3>2. CASE i = n + 1
      <4>1. q = p \/ InLine(q)
        BY <1>1, <1>3, <1>9, <2>3, <3>2
      <4>2. CASE q = p
        BY <1>3, <1>4, <3>2, <4>2
      <4>3. CASE InLine(q)
        <5>1. PICK j \in 1 .. n : repaired[j].place = q
          BY <4>3 DEF InLine, n
        <5> QED BY <1>3, <1>4, <3>2, <5>1
      <4> QED BY <4>1, <4>2, <4>3
    <3> QED BY <2>2, <3>1, <3>2
  <2>4. \A i, j \in 1 .. Len(repaired') : repaired'[i].row.path = repaired'[j].row.path => i = j
    <3>1. \A i, j \in 1 .. n : repaired'[i].row.path = repaired'[j].row.path => i = j
      BY <1>3 DEF Seats, Apart, n
    <3>2. \A i \in 1 .. n : repaired'[i].row.path # repaired'[n + 1].row.path
      BY <1>3, <1>10
    <3> QED BY <2>2, <3>1, <3>2
  <2>5. \A m \in Messages : task'[m] = "none"
    BY <1>1, <1>2
  <2> QED BY <2>1, <2>3, <2>4, <2>5 DEF Apart
<1>13. NothingCut'
  <2> SUFFICES ASSUME "short" \notin Faults PROVE NothingCut'
    BY DEF NothingCut
  <2>1. \A q \in DOMAIN rows' : Lone(q) => Fine(q)'
    BY <1>1 DEF Seats, NothingCut, Fine
  <2>2. ~Lone(p)
    BY <1>1 DEF Seats, NothingCut, NamesFit, TodoIsBroken
  <2>3. \A i \in 1 .. Len(repaired') : i \in 1 .. n \/ i = n + 1
    BY <1>3, <1>4
  <2>4. \A i \in 1 .. Len(repaired') : ~Lone(repaired'[i].place)
    BY <1>3, <2>2, <2>3 DEF Seats, NothingCut, n
  <2>5. \A m \in Messages : task'[m] = "none"
    BY <1>1, <1>2
  <2> QED BY <2>1, <2>4, <2>5 DEF NothingCut
<1> QED BY <1>11, <1>12, <1>13 DEF Seats

LEMMA RegisterRepairedSeats ==
  ASSUME IInv, NamesFit, Seats, RegisterRepaired
  PROVE  Seats'
<1> DEFINE n == Len(repaired)
           p == repaired[1].place
<1>1. where = "verify" /\ UNCHANGED <<disk, task, due>>
  BY DEF RegisterRepaired, tasks
<1>2. \A m \in Messages : task[m] = "none"
  BY <1>1, TasksAlone
<1>3. /\ n \in Nat \ {0} /\ Len(repaired') = n - 1
      /\ \A i \in 1 .. Len(repaired') : repaired'[i] = repaired[i + 1]
      /\ rows' = Put(rows, p, repaired[1].row)
  BY LineShrinks
<1> HIDE DEF n, p
<1>4. /\ DOMAIN rows' = DOMAIN rows \cup {p} /\ rows'[p] = repaired[1].row
      /\ \A q \in DOMAIN rows' : q # p => q \in DOMAIN rows /\ rows'[q] = rows[q]
  BY <1>3 DEF Put
<1>5. \A i \in 1 .. Len(repaired') : i + 1 \in 1 .. n /\ i + 1 # 1 /\ repaired'[i] = repaired[i + 1]
  BY <1>3
<1>6. 1 \in 1 .. n
  BY <1>3
<1>7. \A i \in 1 .. n : repaired[i].place = p => i = 1
  BY <1>6 DEF NamesFit, OnceInLine, n, p
<1>8. \A i \in 1 .. n : i # 1 => i - 1 \in 1 .. Len(repaired') /\ repaired'[i - 1] = repaired[i]
  BY <1>3
<1>9. \A q : InLine(q) /\ q # p => InLine(q)'
  <2> SUFFICES ASSUME NEW q, NEW i \in 1 .. n, repaired[i].place = q, q # p PROVE InLine(q)'
    BY DEF InLine, n
  <2>1. i # 1
    BY DEF p
  <2> QED BY <1>8, <2>1 DEF InLine
<1>10. Seated'
  <2>1. ASSUME NEW q \in DOMAIN rows', Lone(q), ~InLine(q)' PROVE rows'[q].path \in DOMAIN disk'
    <3>1. CASE q = p
      BY <1>1, <1>4, <1>6, <2>1, <3>1 DEF Seats, Seated, n, p
    <3>2. CASE q # p
      BY <1>1, <1>4, <1>9, <2>1, <3>2 DEF Seats, Seated
    <3> QED BY <3>1, <3>2
  <2>2. \A i \in 1 .. Len(repaired') : Lone(repaired'[i].place) => repaired'[i].row.path \in DOMAIN disk'
    BY <1>1, <1>5 DEF Seats, Seated, n
  <2>3. \A m \in Messages : task'[m] = "none"
    BY <1>1, <1>2
  <2> QED BY <2>1, <2>2, <2>3 DEF Seated
<1>11. Apart'
  \* No other row has the path that is written now.
  <2>1. ASSUME NEW q \in DOMAIN rows', q # p PROVE rows'[q].path # repaired[1].row.path
    <3>1. q \in DOMAIN rows /\ rows'[q] = rows[q]
      BY <1>4, <2>1
    <3>2. \A j \in 1 .. 1 : j = 1
      OBVIOUS
    <3>3. rows[q].path = repaired[1].row.path => repaired[1].place = q
      BY <1>6, <3>1, <3>2 DEF Seats, Apart, n
    <3> QED BY <2>1, <3>1, <3>3 DEF p
  <2>2. OneRowOneFile'
    BY <1>4, <2>1 DEF Seats, Apart, OneRowOneFile
  <2>3. ASSUME NEW i \in 1 .. Len(repaired'), NEW q \in DOMAIN rows', repaired'[i].row.path = rows'[q].path
        PROVE  \E j \in 1 .. i : repaired'[j].place = q
    <3>1. i + 1 \in 1 .. n /\ i + 1 # 1 /\ repaired'[i] = repaired[i + 1]
      BY <1>5
    <3>2. q # p
      BY <1>4, <1>6, <2>3, <3>1 DEF Seats, Apart, n
    <3>3. PICK j \in 1 .. (i + 1) : repaired[j].place = q
      BY <1>4, <2>3, <3>1, <3>2 DEF Seats, Apart, n
    <3>4. j # 1 /\ j \in 1 .. n /\ j - 1 \in 1 .. i
      BY <1>3, <3>1, <3>2, <3>3 DEF p
    <3> QED BY <1>8, <3>3, <3>4
  <2>4. ASSUME NEW i \in 1 .. Len(repaired'), NEW j \in 1 .. Len(repaired'),
               repaired'[i].row.path = repaired'[j].row.path
        PROVE  i = j
    <3>1. i + 1 = j + 1
      BY <1>5, <2>4 DEF Seats, Apart, n
    <3> QED BY <1>3, <3>1
  <2>5. \A m \in Messages : task'[m] = "none"
    BY <1>1, <1>2
  <2> QED BY <2>2, <2>3, <2>4, <2>5 DEF Apart
<1>12. NothingCut'
  <2> SUFFICES ASSUME "short" \notin Faults PROVE NothingCut'
    BY DEF NothingCut
  <2>1. ~Lone(p)
    BY <1>6 DEF Seats, NothingCut, n, p
  <2>2. \A q \in DOMAIN rows' : Lone(q) => Fine(q)'
    BY <1>4, <2>1 DEF Seats, NothingCut, Fine
  <2>3. \A i \in 1 .. Len(repaired') : ~Lone(repaired'[i].place)
    BY <1>5 DEF Seats, NothingCut, n
  <2>4. \A m \in Messages : task'[m] = "none"
    BY <1>1, <1>2
  <2> QED BY <2>2, <2>3, <2>4 DEF NothingCut
<1> QED BY <1>10, <1>11, <1>12 DEF Seats

\* A killed run leaves its repairs unwritten: none of them of a lone file.
LEMMA KillSeats ==
  ASSUME Calm, IInv, NamesFit, Seats, Kill
  PROVE  Seats'
<1>1. "short" \notin Faults
  BY DEF Calm, Kill, Disturb
<1>2. /\ UNCHANGED <<disk, rows>> /\ repaired' = <<>>
      /\ \A m \in Messages : task'[m] = "none"
  BY DEF Kill, Ended, stores
<1>3. Len(repaired') = 0
  BY <1>2, EmptySeq
<1>4. \A p \in DOMAIN rows : Lone(p) => ~InLine(p)
  BY <1>1 DEF Seats, NothingCut, InLine
<1>5. Seated'
  BY <1>2, <1>3, <1>4 DEF Seats, Seated
<1>6. Apart'
  BY <1>2, <1>3 DEF Seats, Apart, OneRowOneFile
<1>7. NothingCut'
  BY <1>2, <1>3 DEF Seats, NothingCut, Fine
<1> QED BY <1>5, <1>6, <1>7 DEF Seats

\* The steps that move no file and write no row.
LEMMA OtherSeats ==
  ASSUME IInv, NamesFit, Seats,
         \/ \E m \in Messages : Begin(m) \/ Lookup(m) \/ FetchNothing(m)
         \/ StartRun \/ EndChat \/ FailChat \/ StartVerify \/ EndRun \/ Stop
         \/ \E p \in Places : GiveUp(p)
  PROVE  Seats'
<1>1. UNCHANGED <<disk, rows>>
  BY DEF Begin, Lookup, FetchNothing, StartRun, EndChat, FailChat, StartVerify, EndRun,
         Stop, GiveUp, stores
<1>2. repaired' = repaired
  <2>1. CASE EndRun
    BY <2>1 DEF EndRun, Ended
  <2>2. CASE Stop
    BY <2>2, MediaAssumption DEF Stop, Ended, NamesFit, PassAlone
  <2> QED BY <2>1, <2>2 DEF Begin, Lookup, FetchNothing, StartRun, EndChat, FailChat,
         StartVerify, GiveUp, pass
<1>3. \A m \in Messages : task'[m] = "register" => task[m] = "register" /\ due'[m] = due[m]
  <2>1. ASSUME NEW m \in Messages, Begin(m) \/ Lookup(m) \/ FetchNothing(m)
        PROVE  \A n \in Messages : task'[n] = "register" => task[n] = "register" /\ due'[n] = due[n]
    BY <2>1 DEF Begin, Lookup, FetchNothing, StartThread, NextSource, EndTask, HasLock, IInv, TaskTypes
  <2>2. FailChat \/ EndRun => \A n \in Messages : task'[n] = "none"
    BY DEF FailChat, EndRun, Ended
  <2>3. Stop => (\A n \in Messages : task'[n] = "none") \/ UNCHANGED <<task, due>>
    BY DEF Stop, Ended, tasks
  <2>4. StartRun \/ EndChat \/ StartVerify \/ (\E p \in Places : GiveUp(p)) => UNCHANGED <<task, due>>
    BY DEF StartRun, EndChat, StartVerify, GiveUp, tasks
  <2> QED BY <2>1, <2>2, <2>3, <2>4
<1> QED BY <1>1, <1>2, <1>3, SeatsKept

LEMMA InitSeats == Init => Seats
<1> SUFFICES ASSUME Init PROVE Seats
  OBVIOUS
<1>1. DOMAIN rows = {} /\ Len(repaired) = 0 /\ \A m \in Messages : task[m] = "none"
  BY EmptySeq DEF Init, Nothing
<1> QED BY <1>1 DEF Seats, Seated, Apart, OneRowOneFile, NothingCut

LEMMA StepSeats ==
  ASSUME OwnNames, Calm, IInv, NamesFit, Seats, [Next]_vars
  PROVE  Seats'
<1>1. \A f \in Files : Whole(f) \in Contents /\ Short(f) \in Contents
  BY TheContents
<1>2. ASSUME NEW m \in Messages, Download(m) PROVE Seats'
  BY <1>2, OtherSeats, ThreadSeats, ThreadReturnsSeats, FetchSeats, RegisterSeats DEF Download
<1>3. CASE Work
  BY <1>1, <1>2, <1>3, ThePlaces, OtherSeats, StartChatSeats, ReplaceSeats,
     RegisterRepairedSeats DEF Work
<1>4. CASE Disturbance
  BY <1>1, <1>4, ThePlaces, OtherSeats, FetchSeats, ReplaceSeats, KillSeats DEF Disturbance
<1>5. CASE UNCHANGED vars
  BY <1>5, SeatsKept DEF vars, stores, tasks, pass
<1> QED BY <1>3, <1>4, <1>5 DEF Next

LEMMA SeatsInvariant == ASSUME OwnNames, Calm PROVE Spec => []Seats
<1>1. IInv /\ NamesFit /\ Seats /\ [Next]_vars => Seats'
  BY StepSeats
<1> QED BY <1>1, InitSeats, NamesInvariant, Invariant, PTL DEF Spec

\* Two rows never share a path, whatever is cut short, stopped, cancelled or not
\* there, if a file that may be reused has a name of its own and either no run is
\* killed or no download is cut short.
THEOREM RowsKeepApart ==
  ASSUME OwnNames, Calm
  PROVE  Spec => []OneRowOneFile
<1>1. Seats => OneRowOneFile
  BY DEF Seats, Apart
<1> QED BY <1>1, SeatsInvariant, PTL

-----------------------------------------------------------------------------
(* Whole files.  While no chat fails, a thread ends before its task: what    *)
(* lies at the path of a fine row, or of a row that is about to be written,  *)
(* is the whole file.                                                        *)

ThreadsHaveTasks == \A m \in Messages : work[m].at # "none" => task[m] = "reuse"

\* What lies at a path was saved under its name.
DiskBelongs == \A path \in DOMAIN disk : path.base = NameOf[disk[path].of]

WholeAt(path, f) == path \in DOMAIN disk /\ disk[path] = Whole(f)

DueIsWhole ==
  \A m \in Messages :
    task[m] = "register" /\ FileOf[m] \in Sized /\ due[m].actual = Size[FileOf[m]] =>
      WholeAt(due[m].path, FileOf[m])

RepairsAreWhole ==
  \A i \in 1 .. Len(repaired) :
    LET f == repaired[i].place[1] IN
      f \in Sized /\ repaired[i].row.actual = Size[f] => WholeAt(repaired[i].row.path, f)

WholeFiles ==
  ThreadsHaveTasks /\ DiskBelongs /\ DueIsWhole /\ RepairsAreWhole /\ FineIsWhole

\* A file of the size another should have is that file, if it has its name.
LEMMA SizeTells ==
  ASSUME NEW c \in Contents, NEW f \in Files, SizeOn(c) = Size[f], c.of = f
  PROVE  c = Whole(f)
BY MediaAssumption DEF Contents, SizeOn, Truncated, Whole

LEMMA ShortIsShort ==
  ASSUME NEW f \in Files PROVE SizeOn(Short(f)) # Size[f]
BY MediaAssumption DEF Short, SizeOn, Truncated

\* The steps that leave the files where they are, and those that only add.
LEMMA WholeKept ==
  ASSUME WholeFiles, UNCHANGED <<disk, rows, repaired>>,
         \A m \in Messages : task'[m] = "register" => task[m] = "register" /\ due'[m] = due[m],
         \A m \in Messages : work'[m].at # "none" => task'[m] = "reuse"
  PROVE  WholeFiles'
BY DEF WholeFiles, ThreadsHaveTasks, DiskBelongs, DueIsWhole, RepairsAreWhole, FineIsWhole,
       WholeAt, Fine

\* A thread writes only where no fine row and no row to come has its path.
LEMMA ThreadWhole ==
  ASSUME OwnNames, IInv, NamesFit, WholeFiles, NEW m \in Messages,
         ClaimForReuse(m) \/ HandOver(m) \/ CopyEnd(m) \/ HandOverFails(m)
  PROVE  WholeFiles'
<1>1. UNCHANGED <<rows, repaired, task, due>> /\ work[m].at \notin {"none"}
  BY DEF ClaimForReuse, HandOver, CopyEnd, HandOverFails, stores, tasks, pass
<1>2. task[m] = "reuse" /\ Shared(FileOf[m])
  BY <1>1 DEF WholeFiles, ThreadsHaveTasks, NamesFit, ThreadsBelong
<1>3. Len(repaired) = 0 /\ ~Have(m) /\ Inside(m) /\ ~Lone(Place(m))
  BY <1>2, TasksAlone, EmptySeq, ThePlaces DEF IInv, NotYetHad, Inside, Lone
<1>4. PICK dst : /\ Belongs(dst, Place(m))
                 /\ DOMAIN disk \ {dst} \subseteq DOMAIN disk'
                 /\ DOMAIN disk' \subseteq DOMAIN disk \cup {dst}
                 /\ \A path \in DOMAIN disk \ {dst} : disk'[path] = disk[path]
                 /\ dst \in DOMAIN disk' =>
                      (dst \in DOMAIN disk /\ disk'[dst] = disk[dst]) \/ disk'[dst].of = FileOf[m]
  <2>1. CASE ClaimForReuse(m)
    <3> DEFINE dst == Candidate(ChatOf[m], SourceName(m), FirstOutside(ChatOf[m], SourceName(m), 0, Claimed))
    <3>1. Belongs(dst, Place(m))
      BY <2>1, ClaimNames
    <3>2. disk' = disk \/ disk' = Remove(disk, {dst})
      BY <2>1 DEF ClaimForReuse
    <3> HIDE DEF dst
    <3>3. /\ DOMAIN Remove(disk, {dst}) = DOMAIN disk \ {dst}
          /\ \A path \in DOMAIN disk \ {dst} : Remove(disk, {dst})[path] = disk[path]
      BY RemoveOn
    <3> QED BY <3>1, <3>2, <3>3
  <2>2. CASE HandOver(m) \/ CopyEnd(m)
    <3> DEFINE dst == work[m].dst
    <3>1. work[m].at \in {"hand", "copy"} /\ Readable(m)
      BY <2>2 DEF HandOver, CopyEnd
    <3>2. Belongs(dst, Place(m)) /\ SourceName(m).base = NameOf[FileOf[m]]
      BY <3>1 DEF NamesFit, ThreadsBelong
    <3>3. Content(m).of = FileOf[m]
      <4>1. CASE work[m].src = Foreign
        BY <4>1 DEF Content, Whole
      <4>2. CASE work[m].src # Foreign
        <5>1. work[m].src \in DOMAIN disk /\ work[m].src.base = NameOf[FileOf[m]] /\ Content(m) = disk[work[m].src]
          BY <3>1, <3>2, <4>2 DEF Readable, SourceName, Content
        <5>2. NameOf[disk[work[m].src].of] = NameOf[FileOf[m]] /\ disk[work[m].src].of \in Files
          BY <5>1 DEF WholeFiles, DiskBelongs, IInv, StoreTypes
        <5> QED BY <1>2, <5>1, <5>2, ThePlaces DEF OwnNames
      <4> QED BY <4>1, <4>2
    <3>4. \E x : disk' = Put(disk, dst, x) /\ x.of = FileOf[m]
      BY <2>2, <3>3 DEF HandOver, CopyEnd, Short
    <3> HIDE DEF dst
    <3>5. \A x : /\ DOMAIN Put(disk, dst, x) = DOMAIN disk \cup {dst}
                 /\ \A path \in DOMAIN disk \cup {dst} :
                      Put(disk, dst, x)[path] = IF path = dst THEN x ELSE disk[path]
      BY DEF Put
    <3> QED BY <3>2, <3>4, <3>5
  <2>3. CASE HandOverFails(m)
    <3>1. disk' = disk
      BY <2>3 DEF HandOverFails, stores
    <3>2. Belongs(Candidate(ChatOf[m], SourceName(m), 0), Place(m))
      BY <1>1, ThePlaces, CandidateBelongs DEF NamesFit, ThreadsBelong
    <3> QED BY <3>1, <3>2
  <2> QED BY <2>1, <2>2, <2>3
<1>5. ThreadsHaveTasks'
  <2>1. \A n \in Messages \ {m} : work'[n] = work[n]
    BY DEF ClaimForReuse, HandOver, CopyEnd, HandOverFails, IInv, ThreadTypes
  <2> QED BY <1>1, <1>2, <2>1 DEF WholeFiles, ThreadsHaveTasks
<1>6. DiskBelongs'
  <2> SUFFICES ASSUME NEW path \in DOMAIN disk' PROVE path.base = NameOf[disk'[path].of]
    BY DEF DiskBelongs
  <2>1. CASE path # dst
    BY <1>4, <2>1 DEF WholeFiles, DiskBelongs
  <2>2. CASE path = dst
    BY <1>4, <2>2, ThePlaces DEF WholeFiles, DiskBelongs, Belongs
  <2> QED BY <2>1, <2>2
<1>7. /\ \A p \in DOMAIN rows : rows[p].path = dst => p = Place(m)
      /\ \A n \in Messages : task[n] = "register" => due[n].path # dst
  BY <1>2, <1>3, <1>4, SharedIsApart
<1>8. DueIsWhole'
  BY <1>1, <1>4, <1>7 DEF WholeFiles, DueIsWhole, WholeAt
<1>9. RepairsAreWhole'
  BY <1>1, <1>3 DEF RepairsAreWhole
<1>10. FineIsWhole'
  <2> SUFFICES ASSUME NEW p \in DOMAIN rows, Fine(p), p[1] \in Sized
               PROVE  rows[p].path \in DOMAIN disk' /\ disk'[rows[p].path] = Whole(p[1])
    BY <1>1 DEF FineIsWhole, Fine
  <2>1. p # Place(m)
    BY <1>3, ThePlaces DEF Fine, Have, Sources
  <2>2. rows[p].path # dst
    BY <1>7, <2>1
  <2> QED BY <1>4, <2>2 DEF WholeFiles, FineIsWhole
<1> QED BY <1>5, <1>6, <1>8, <1>9, <1>10 DEF WholeFiles

\* The row of a file that was reused or downloaded.
LEMMA DueWhole ==
  ASSUME WholeFiles, IInv, NEW m \in Messages, UNCHANGED <<rows, repaired>>,
         task' = [task EXCEPT ![m] = "register"],
         NEW row, due' = [due EXCEPT ![m] = row],
         \A n \in Messages : work'[n].at # "none" => task[n] = "reuse" /\ n # m,
         DOMAIN disk \subseteq DOMAIN disk',
         \A path \in DOMAIN disk : disk'[path] = disk[path],
         \A path \in DOMAIN disk' : path.base = NameOf[disk'[path].of],
         FileOf[m] \in Sized /\ row.actual = Size[FileOf[m]] =>
           row.path \in DOMAIN disk' /\ disk'[row.path] = Whole(FileOf[m])
  PROVE  WholeFiles'
<1>1. /\ task'[m] = "register" /\ due'[m] = row
      /\ \A n \in Messages \ {m} : task'[n] = task[n] /\ due'[n] = due[n]
  BY DEF IInv, TaskTypes
<1>2. ThreadsHaveTasks' /\ DiskBelongs'
  BY <1>1 DEF ThreadsHaveTasks, DiskBelongs
<1>3. DueIsWhole'
  BY <1>1 DEF WholeFiles, DueIsWhole, WholeAt
<1>4. RepairsAreWhole' /\ FineIsWhole'
  BY DEF WholeFiles, RepairsAreWhole, FineIsWhole, WholeAt, Fine
<1> QED BY <1>2, <1>3, <1>4 DEF WholeFiles

LEMMA ThreadReturnsWhole ==
  ASSUME OwnNames, IInv, NamesFit, WholeFiles, NEW m \in Messages, ThreadReturns(m)
  PROVE  WholeFiles'
<1>1. UNCHANGED <<disk, rows, repaired>> /\ task[m] = "reuse" /\ work[m].at # "none"
  BY DEF ThreadReturns, stores, pass, WholeFiles, ThreadsHaveTasks
<1>2. CASE work[m].at = "done"
  <2> DEFINE f == FileOf[m]
             dst == work[m].dst
             row == RowFor(f, disk, dst)
  <2>1. /\ task' = [task EXCEPT ![m] = "register"] /\ due' = [due EXCEPT ![m] = row]
        /\ work' = [work EXCEPT ![m] = [at |-> "none", src |-> None, dst |-> None]]
    BY <1>1, <1>2 DEF ThreadReturns
  <2>2. \A n \in Messages : work'[n].at # "none" => task[n] = "reuse" /\ n # m
    BY <2>1 DEF IInv, ThreadTypes, WholeFiles, ThreadsHaveTasks
  <2>3. Belongs(dst, Place(m)) /\ Shared(f) /\ f \in Files
    BY <1>2, ThePlaces DEF NamesFit, ThreadsBelong
  <2>4. ASSUME f \in Sized, row.actual = Size[f]
        PROVE  row.path \in DOMAIN disk /\ disk[row.path] = Whole(f)
    <3>1. row.path = dst /\ dst \in DOMAIN disk /\ SizeOn(disk[dst]) = Size[f]
      BY <2>3, <2>4, MediaAssumption DEF RowFor
    <3>2. disk[dst] \in Contents /\ disk[dst].of \in Files
      BY <3>1 DEF IInv, StoreTypes, Contents
    <3>3. NameOf[disk[dst].of] = NameOf[f]
      BY <2>3, <3>1, ThePlaces DEF WholeFiles, DiskBelongs, Belongs
    <3>4. disk[dst].of = f
      BY <2>3, <3>2, <3>3 DEF OwnNames
    <3> QED BY <2>3, <3>1, <3>2, <3>4, SizeTells
  <2>5. \A path \in DOMAIN disk : path.base = NameOf[disk[path].of]
    BY DEF WholeFiles, DiskBelongs
  <2> HIDE DEF row
  <2> QED BY <1>1, <2>1, <2>2, <2>4, <2>5, DueWhole
<1>3. CASE work[m].at # "done"
  <2>1. due' = due /\ NextSource(m)
    BY <1>1, <1>3 DEF ThreadReturns
  <2>2. \A n \in Messages : task'[n] = "register" => task[n] = "register"
    BY <2>1 DEF NextSource, StartThread, IInv, TaskTypes
  <2>3. \A n \in Messages : work'[n].at # "none" => task'[n] = "reuse"
    BY <2>1 DEF NextSource, StartThread, IInv, TaskTypes, ThreadTypes, WholeFiles, ThreadsHaveTasks
  <2> QED BY <1>1, <2>1, <2>2, <2>3, WholeKept
<1> QED BY <1>2, <1>3

LEMMA FetchWhole ==
  ASSUME IInv, NamesFit, WholeFiles, NEW m \in Messages,
         NEW c \in {Whole(FileOf[m]), Short(FileOf[m])}, Fetch(m, c)
  PROVE  WholeFiles'
<1> DEFINE f == FileOf[m]
           i == FirstOutside(ChatOf[m], Plain(f), cursor[<<ChatOf[m], NameOf[f]>>], Occupied)
           dst == Candidate(ChatOf[m], Plain(f), i)
           row == RowFor(f, disk', dst)
<1>1. /\ task[m] = "fetch" /\ task' = [task EXCEPT ![m] = "register"]
      /\ due' = [due EXCEPT ![m] = row] /\ disk' = Put(disk, dst, c)
      /\ UNCHANGED <<rows, repaired, work>>
  BY DEF Fetch, pass
<1>2. dst \notin DOMAIN disk /\ f \in Files
  BY FetchedIsFree, ThePlaces
<1>3. dst.base = NameOf[f] /\ c.of = f
  BY DEF Candidate, Plain, Whole, Short
<1> HIDE DEF dst
<1>4. /\ DOMAIN disk' = DOMAIN disk \cup {dst} /\ disk'[dst] = c
      /\ \A path \in DOMAIN disk : disk'[path] = disk[path]
  BY <1>1, <1>2 DEF Put
<1>5. \A path \in DOMAIN disk' : path.base = NameOf[disk'[path].of]
  BY <1>3, <1>4 DEF WholeFiles, DiskBelongs
<1>6. row.actual = Size[f] => row.path \in DOMAIN disk' /\ disk'[row.path] = Whole(f)
  BY <1>2, <1>4, ShortIsShort DEF RowFor
<1> HIDE DEF row
<1>7. \A n \in Messages : work'[n].at # "none" => task[n] = "reuse" /\ n # m
  BY <1>1 DEF WholeFiles, ThreadsHaveTasks
<1> QED BY <1>1, <1>4, <1>5, <1>6, <1>7, DueWhole

LEMMA RegisterWhole ==
  ASSUME IInv, WholeFiles, NEW m \in Messages, Register(m)
  PROVE  WholeFiles'
<1>1. /\ task[m] = "register" /\ rows' = Put(rows, Place(m), due[m])
      /\ task' = [task EXCEPT ![m] = "none"] /\ due' = [due EXCEPT ![m] = None]
      /\ UNCHANGED <<disk, repaired, work>>
  BY DEF Register, EndTask, pass
<1>2. /\ DOMAIN rows' = DOMAIN rows \cup {Place(m)} /\ rows'[Place(m)] = due[m]
      /\ \A p \in DOMAIN rows' : p # Place(m) => p \in DOMAIN rows /\ rows'[p] = rows[p]
  BY <1>1 DEF Put
<1>3. ThreadsHaveTasks'
  BY <1>1 DEF WholeFiles, ThreadsHaveTasks, IInv, TaskTypes
<1>4. DiskBelongs' /\ RepairsAreWhole'
  BY <1>1 DEF WholeFiles, DiskBelongs, RepairsAreWhole, WholeAt
<1>5. DueIsWhole'
  BY <1>1 DEF WholeFiles, DueIsWhole, WholeAt, IInv, TaskTypes
<1>6. FineIsWhole'
  <2> SUFFICES ASSUME NEW p \in DOMAIN rows', Fine(p)', p[1] \in Sized
               PROVE  rows'[p].path \in DOMAIN disk /\ disk[rows'[p].path] = Whole(p[1])
    BY <1>1 DEF FineIsWhole
  <2>1. CASE p = Place(m)
    BY <1>1, <1>2, <2>1, ThePlaces DEF Fine, WholeFiles, DueIsWhole, WholeAt
  <2>2. CASE p # Place(m)
    BY <1>2, <2>2 DEF Fine, WholeFiles, FineIsWhole
  <2> QED BY <2>1, <2>2
<1> QED BY <1>3, <1>4, <1>5, <1>6 DEF WholeFiles

LEMMA StartChatWhole ==
  ASSUME IInv, NamesFit, WholeFiles, NEW c \in Chats, StartChat(c)
  PROVE  WholeFiles'
<1>1. /\ where = "between" /\ disk' = Remove(disk, Orphans(c))
      /\ UNCHANGED <<rows, task, due, repaired, work>>
  BY DEF StartChat, tasks, pass
<1>2. Len(repaired) = 0 /\ \A m \in Messages : task[m] = "none"
  BY <1>1, TasksAlone, MediaAssumption
<1>3. /\ DOMAIN disk' = DOMAIN disk \ Orphans(c)
      /\ \A path \in DOMAIN disk' : disk'[path] = disk[path]
  <2>1. /\ DOMAIN Remove(disk, Orphans(c)) = DOMAIN disk \ Orphans(c)
        /\ \A path \in DOMAIN disk \ Orphans(c) : Remove(disk, Orphans(c))[path] = disk[path]
    BY RemoveOn
  <2> QED BY <1>1, <2>1
<1>4. \A p \in DOMAIN rows : rows[p].path \notin Orphans(c)
  BY DEF Orphans, Known, NamesFit, RowsBelong, Belongs
<1>5. ThreadsHaveTasks' /\ DiskBelongs' /\ DueIsWhole' /\ RepairsAreWhole'
  BY <1>1, <1>2, <1>3 DEF WholeFiles, ThreadsHaveTasks, DiskBelongs, DueIsWhole, RepairsAreWhole
<1>6. FineIsWhole'
  BY <1>1, <1>3, <1>4 DEF WholeFiles, FineIsWhole, Fine
<1> QED BY <1>5, <1>6 DEF WholeFiles

\* A repair moves no other fine row's file and no other repair's.
LEMMA ReplaceWhole ==
  ASSUME IInv, NamesFit, Seats, WholeFiles, NEW p \in Places,
         NEW c \in {Whole(p[1]), Short(p[1])}, Replace(p, c)
  PROVE  WholeFiles'
<1> DEFINE n == Len(repaired)
           final == Replacement(p)
           old == rows[p].path
<1>1. /\ where = "verify" /\ p \in todo /\ p \in DOMAIN rows /\ UNCHANGED <<rows, task, due, work>>
      /\ disk' = Put(Remove(disk, {old}), final, c)
  BY DEF Replace, tasks, IInv, PassTypes
<1>2. \A m \in Messages : task[m] = "none"
  BY <1>1, TasksAlone
<1>3. p[1] \in Files /\ c \in Contents /\ c.of = p[1]
  <2>1. p[1] \in Files
    BY ThePlaces
  <2>2. c \in Contents
    BY <2>1, TheContents
  <2>3. c.of = p[1]
    BY DEF Whole, Short
  <2> QED BY <2>1, <2>2, <2>3
<1>4. /\ Len(repaired') = n + 1 /\ \A i \in 1 .. n : repaired'[i] = repaired[i]
      /\ repaired'[n + 1].place = p /\ repaired'[n + 1].row.path = final
      /\ repaired'[n + 1].row.actual = SizeOn(c)
  BY <1>3, LineGrows
<1>5. n \in Nat
  BY TheRepairs
<1>6. final \notin DOMAIN disk \ {old} /\ Belongs(final, p)
  BY ReplacementIsFree, ReplacementBelongs
<1> HIDE DEF n, final, old
<1>7. /\ DOMAIN disk' = (DOMAIN disk \ {old}) \cup {final} /\ disk'[final] = c
      /\ \A path \in DOMAIN disk \ {old} : disk'[path] = disk[path]
  <2> DEFINE d == Remove(disk, {old})
  <2>1. DOMAIN d = DOMAIN disk \ {old} /\ \A path \in DOMAIN disk \ {old} : d[path] = disk[path]
    BY RemoveOn
  <2> HIDE DEF d
  <2>2. /\ DOMAIN Put(d, final, c) = DOMAIN d \cup {final}
        /\ \A path \in DOMAIN d \cup {final} : Put(d, final, c)[path] = IF path = final THEN c ELSE d[path]
    BY DEF Put
  <2>3. disk' = Put(d, final, c)
    BY <1>1 DEF d
  <2> QED BY <1>6, <2>1, <2>2, <2>3
<1>8. ThreadsHaveTasks' /\ DueIsWhole'
  BY <1>1, <1>2 DEF WholeFiles, ThreadsHaveTasks, DueIsWhole
<1>9. DiskBelongs'
  BY <1>3, <1>6, <1>7 DEF WholeFiles, DiskBelongs, Belongs
<1>10. RepairsAreWhole'
  <2>1. \A i \in 1 .. Len(repaired') : i \in 1 .. n \/ i = n + 1
    BY <1>4, <1>5
  <2>2. ASSUME NEW i \in 1 .. n, repaired[i].place[1] \in Sized,
               repaired[i].row.actual = Size[repaired[i].place[1]]
        PROVE  WholeAt(repaired[i].row.path, repaired[i].place[1])'
    <3>1. WholeAt(repaired[i].row.path, repaired[i].place[1])
      BY <2>2 DEF WholeFiles, RepairsAreWhole, n
    <3>2. repaired[i].row.path # old
      <4> SUFFICES ASSUME repaired[i].row.path = rows[p].path PROVE FALSE
        BY DEF old
      <4>1. PICK j \in 1 .. i : repaired[j].place = p
        BY <1>1, <2>2 DEF Seats, Apart, n
      <4>2. j \in 1 .. n
        BY <1>5, <2>2, <4>1
      <4> QED BY <1>1, <4>1, <4>2 DEF NamesFit, OnceInLine, n
    <3>3. repaired'[i] = repaired[i]
      BY <1>4
    <3>4. repaired[i].row.path \in DOMAIN disk' /\ disk'[repaired[i].row.path] = Whole(repaired[i].place[1])
      BY <1>7, <3>1, <3>2 DEF WholeAt
    <3> QED BY <3>3, <3>4 DEF WholeAt
  <2>3. SizeOn(c) = Size[p[1]] => c = Whole(p[1])
    BY <1>3, SizeTells
  <2> QED BY <1>4, <1>7, <2>1, <2>2, <2>3 DEF RepairsAreWhole, WholeAt
<1>11. FineIsWhole'
  <2> SUFFICES ASSUME NEW q \in DOMAIN rows, Fine(q), q[1] \in Sized
               PROVE  rows[q].path \in DOMAIN disk' /\ disk'[rows[q].path] = Whole(q[1])
    BY <1>1 DEF FineIsWhole, Fine
  <2>1. q # p
    BY <1>1 DEF NamesFit, TodoIsBroken
  <2>2. rows[q].path # old
    BY <1>1, <2>1 DEF Seats, Apart, OneRowOneFile, old
  <2>3. rows[q].path \in DOMAIN disk /\ disk[rows[q].path] = Whole(q[1])
    BY DEF WholeFiles, FineIsWhole
  <2> QED BY <1>7, <2>2, <2>3
<1> QED BY <1>8, <1>9, <1>10, <1>11 DEF WholeFiles

LEMMA RegisterRepairedWhole ==
  ASSUME IInv, NamesFit, WholeFiles, RegisterRepaired
  PROVE  WholeFiles'
<1> DEFINE p == repaired[1].place
<1>1. where = "verify" /\ UNCHANGED <<disk, task, due, work>>
  BY DEF RegisterRepaired, tasks
<1>2. \A m \in Messages : task[m] = "none"
  BY <1>1, TasksAlone
<1>3. /\ Len(repaired) \in Nat \ {0} /\ Len(repaired') = Len(repaired) - 1
      /\ \A i \in 1 .. Len(repaired') : repaired'[i] = repaired[i + 1]
      /\ rows' = Put(rows, p, repaired[1].row)
  BY LineShrinks
<1> HIDE DEF p
<1>4. /\ rows'[p] = repaired[1].row
      /\ \A q \in DOMAIN rows' : q # p => q \in DOMAIN rows /\ rows'[q] = rows[q]
  BY <1>3 DEF Put
<1>5. \A i \in 1 .. Len(repaired') : i + 1 \in 1 .. Len(repaired)
  BY <1>3
<1>6. 1 \in 1 .. Len(repaired)
  BY <1>3
<1>7. ThreadsHaveTasks' /\ DiskBelongs' /\ DueIsWhole'
  BY <1>1, <1>2 DEF WholeFiles, ThreadsHaveTasks, DiskBelongs, DueIsWhole
<1>8. RepairsAreWhole'
  BY <1>1, <1>3, <1>5 DEF WholeFiles, RepairsAreWhole, WholeAt
<1>9. FineIsWhole'
  <2> SUFFICES ASSUME NEW q \in DOMAIN rows', Fine(q)', q[1] \in Sized
               PROVE  rows'[q].path \in DOMAIN disk /\ disk[rows'[q].path] = Whole(q[1])
    BY <1>1 DEF FineIsWhole
  <2>1. CASE q = p
    BY <1>4, <1>6, <2>1 DEF Fine, WholeFiles, RepairsAreWhole, WholeAt, p
  <2>2. CASE q # p
    BY <1>4, <2>2 DEF Fine, WholeFiles, FineIsWhole
  <2> QED BY <2>1, <2>2
<1> QED BY <1>7, <1>8, <1>9 DEF WholeFiles

\* The steps that move no file and write no row.
LEMMA OtherWhole ==
  ASSUME IInv, NamesFit, WholeFiles,
         \/ \E m \in Messages : Begin(m) \/ Lookup(m) \/ FetchNothing(m)
         \/ StartRun \/ EndChat \/ StartVerify \/ EndRun \/ Stop
         \/ \E p \in Places : GiveUp(p)
  PROVE  WholeFiles'
<1>1. UNCHANGED <<disk, rows>>
  BY DEF Begin, Lookup, FetchNothing, StartRun, EndChat, StartVerify, EndRun, Stop,
         GiveUp, stores
<1>2. repaired' = repaired
  <2>1. CASE EndRun
    BY <2>1 DEF EndRun, Ended
  <2>2. CASE Stop
    BY <2>2, MediaAssumption DEF Stop, Ended, NamesFit, PassAlone
  <2> QED BY <2>1, <2>2 DEF Begin, Lookup, FetchNothing, StartRun, EndChat, StartVerify,
         GiveUp, pass
<1>3. /\ \A m \in Messages : task'[m] = "register" => task[m] = "register" /\ due'[m] = due[m]
      /\ \A m \in Messages : work'[m].at # "none" => task'[m] = "reuse"
  <2>1. ASSUME NEW m \in Messages, Begin(m)
        PROVE  /\ \A n \in Messages : task'[n] = "register" => task[n] = "register" /\ due'[n] = due[n]
               /\ \A n \in Messages : work'[n].at # "none" => task'[n] = "reuse"
    <3>1. task[m] = "none"
      BY <2>1 DEF Begin, IInv, SameLock
    <3> QED BY <2>1, <3>1 DEF Begin, IInv, TaskTypes, WholeFiles, ThreadsHaveTasks
  <2>2. ASSUME NEW m \in Messages, Lookup(m)
        PROVE  /\ \A n \in Messages : task'[n] = "register" => task[n] = "register" /\ due'[n] = due[n]
               /\ \A n \in Messages : work'[n].at # "none" => task'[n] = "reuse"
    <3>1. task[m] = "wait" /\ work[m].at = "none"
      BY <2>2 DEF Lookup, HasLock, WholeFiles, ThreadsHaveTasks
    <3>2. CASE EndTask(m) /\ UNCHANGED work
      BY <3>1, <3>2 DEF EndTask, IInv, TaskTypes, WholeFiles, ThreadsHaveTasks
    <3>3. ASSUME NEW path, StartThread(m, path), UNCHANGED due
          PROVE  /\ \A n \in Messages : task'[n] = "register" => task[n] = "register" /\ due'[n] = due[n]
                 /\ \A n \in Messages : work'[n].at # "none" => task'[n] = "reuse"
      BY <3>1, <3>3 DEF StartThread, IInv, TaskTypes, ThreadTypes, WholeFiles, ThreadsHaveTasks
    <3>4. CASE /\ task' = [task EXCEPT ![m] = "fetch"] /\ UNCHANGED due
               /\ work' = [work EXCEPT ![m] = [at |-> "none", src |-> None, dst |-> None]]
      BY <3>1, <3>4 DEF IInv, TaskTypes, ThreadTypes, WholeFiles, ThreadsHaveTasks
    <3> QED BY <2>2, <3>2, <3>3, <3>4 DEF Lookup, NextSource
  <2>3. ASSUME NEW m \in Messages, FetchNothing(m)
        PROVE  /\ \A n \in Messages : task'[n] = "register" => task[n] = "register" /\ due'[n] = due[n]
               /\ \A n \in Messages : work'[n].at # "none" => task'[n] = "reuse"
    BY <2>3 DEF FetchNothing, EndTask, IInv, TaskTypes, WholeFiles, ThreadsHaveTasks
  <2>4. CASE Ended
    BY <2>4 DEF Ended
  <2>5. CASE UNCHANGED <<task, due, work>>
    BY <2>5 DEF WholeFiles, ThreadsHaveTasks
  <2> QED BY <2>1, <2>2, <2>3, <2>4, <2>5
          DEF StartRun, EndChat, StartVerify, EndRun, Stop, GiveUp, tasks
<1> QED BY <1>1, <1>2, <1>3, WholeKept

LEMMA KillWhole ==
  ASSUME WholeFiles, Kill
  PROVE  WholeFiles'
<1>1. /\ UNCHANGED <<disk, rows>> /\ repaired' = <<>> /\ Len(repaired') = 0
      /\ \A m \in Messages : task'[m] = "none" /\ work'[m].at = "none"
  BY EmptySeq DEF Kill, Ended, stores
<1> QED BY <1>1 DEF WholeFiles, ThreadsHaveTasks, DiskBelongs, DueIsWhole, RepairsAreWhole,
       FineIsWhole, Fine

LEMMA InitWhole == Init => WholeFiles
<1> SUFFICES ASSUME Init PROVE WholeFiles
  OBVIOUS
<1>1. DOMAIN disk = {} /\ DOMAIN rows = {} /\ Len(repaired) = 0
      /\ \A m \in Messages : task[m] = "none" /\ work[m].at = "none"
  BY EmptySeq DEF Init, Nothing
<1> QED BY <1>1 DEF WholeFiles, ThreadsHaveTasks, DiskBelongs, DueIsWhole, RepairsAreWhole, FineIsWhole

LEMMA StepWhole ==
  ASSUME OwnNames, "fail" \notin Faults, IInv, NamesFit, Seats, WholeFiles, [Next]_vars
  PROVE  WholeFiles'
<1>1. ~FailChat
  BY DEF FailChat, Disturb
<1>2. ASSUME NEW m \in Messages, Download(m) PROVE WholeFiles'
  BY <1>2, OtherWhole, ThreadWhole, ThreadReturnsWhole, FetchWhole, RegisterWhole DEF Download
<1>3. CASE Work
  BY <1>2, <1>3, OtherWhole, StartChatWhole, ReplaceWhole, RegisterRepairedWhole DEF Work
<1>4. CASE Disturbance
  BY <1>1, <1>4, OtherWhole, FetchWhole, ReplaceWhole, KillWhole DEF Disturbance
<1>5. CASE UNCHANGED vars
  BY <1>5, WholeKept DEF vars, stores, tasks, pass, WholeFiles, ThreadsHaveTasks
<1> QED BY <1>3, <1>4, <1>5 DEF Next

\* A row that verification passes over has its whole file at its path, for ever:
\* whatever is cut short, linked, copied, repaired or stopped, if a file that may
\* be reused has a name of its own, no chat fails, and either no run is killed
\* or no download is cut short.
THEOREM FineRowsAreWhole ==
  ASSUME OwnNames, Calm, "fail" \notin Faults
  PROVE  Spec => []FineIsWhole
<1>1. IInv /\ NamesFit /\ Seats /\ WholeFiles /\ [Next]_vars => WholeFiles'
  BY StepWhole
<1>2. WholeFiles => FineIsWhole
  BY DEF WholeFiles
<1> QED BY <1>1, <1>2, InitWhole, SeatsInvariant, NamesInvariant, Invariant, PTL DEF Spec
=============================================================================
