----------------------------- MODULE MediaStore -----------------------------
(***************************************************************************)
(* The media files of an export: the names they get on disk, the rows of   *)
(* the table files, the lock per file that keeps two messages from         *)
(* downloading the same one, the files reused from another chat or from    *)
(* another export, the sweep of files no row names, and the verification   *)
(* pass that downloads broken files again.                                 *)
(*                                                                         *)
(* Simplifications.  A file is whole or short.  What is downloaded lies in *)
(* a directory of its own until it is moved, so a download is the step     *)
(* that moves its result.  A file left out by type or size is no message   *)
(* here.  Which messages a run walks is a choice (ChatExport decides it).  *)
(* Every run ends with the verification pass.                              *)
(***************************************************************************)
EXTENDS Naturals, Sequences, FiniteSets, Functions

CONSTANTS
  Files, Chats, Messages,
  FileOf,     \* the file a message carries
  ChatOf,     \* the chat a message is in
  NameOf,     \* the name Telethon saves the file under
  Size,       \* its size in bytes
  Sized,      \* the files Telegram reports a size for
  Elsewhere,  \* files another export on this disk has
  Foreign,    \* where that export keeps them
  None,       \* no path, no row, no lock
  Faults,     \* which disturbances may happen
  MaxFaults   \* bound on their number

Truncated == 1   \* size of a short file, whatever was to be there

ASSUME MediaAssumption ==
  /\ IsFiniteSet(Messages) /\ None \notin Messages
  /\ "down" \notin Chats /\ "between" \notin Chats /\ "verify" \notin Chats
  /\ FileOf \in [Messages -> Files] /\ ChatOf \in [Messages -> Chats]
  /\ Size \in [Files -> Nat \ {0, Truncated}]
  /\ Sized \subseteq Files /\ Elsewhere \subseteq Files
  /\ MaxFaults \in Nat

ASSUME DisturbancesAreKnown ==
  Faults \subseteq {"short", "nofile", "linkfail", "fail", "stop", "kill"}

VARIABLES
  disk,     \* path -> what is there, for the paths that exist
  rows,     \* <<file, chat>> -> its row, for the rows that exist
  where,    \* the chat being exported, "between", "verify" or "down"
  visited,  \* chats this run has been to
  walked,   \* messages whose download this run has begun
  task,     \* where the download of a message stands
  due,      \* the row a task is about to write
  lock,     \* _file_id_locks: file -> the task whose lock is in the dictionary
  users,    \* _file_id_lock_users
  mine,     \* the lock a task has taken out of the dictionary
  work,     \* the threads that reuse a file
  cursor,   \* _search_from of the downloader's registry
  todo,     \* broken rows the verification pass has still to look at
  repaired, \* rows the pass is about to write, in the order of their moves
  faults

stores == <<disk, rows>>
run == <<where, visited, walked>>
tasks == <<task, due, lock, users, mine>>
pass == <<todo, repaired>>
vars == <<stores, run, tasks, work, cursor, pass, faults>>

Place(m) == <<FileOf[m], ChatOf[m]>>
Places == {Place(m) : m \in Messages}

Expected(f) == IF f \in Sized THEN Size[f] ELSE 0
Whole(f) == [of |-> f, whole |-> TRUE]
Short(f) == [of |-> f, whole |-> FALSE]
SizeOn(c) == IF c.whole THEN Size[c.of] ELSE Truncated

\* get_files_to_verify, the other way round.
Fine(p) ==
  /\ rows[p].status = "done"
  /\ p[1] \in Sized => rows[p].actual = Size[p[1]]

Put(d, path, c) == [p \in DOMAIN d \cup {path} |-> IF p = path THEN c ELSE d[p]]
Remove(d, paths) == Restrict(d, DOMAIN d \ paths)

-----------------------------------------------------------------------------
(* TargetRegistry.  A path is a chat's directory, the name of a file and    *)
(* the numbers added to it: `photo (2).jpg` is the candidate number 2.      *)

Plain(f) == [base |-> NameOf[f], no |-> <<>>]
Candidate(c, name, i) ==
  [chat |-> c, base |-> name.base,
   no |-> IF i = 0 THEN name.no ELSE Append(name.no, i)]

\* The number of the first candidate, not before `from`, outside `bad`.
FirstOutside(c, name, from, bad) ==
  LET tried == from .. from + Cardinality(bad)
      good(i) == Candidate(c, name, i) \notin bad
  IN CHOOSE i \in tried : good(i) /\ \A j \in tried : good(j) => i <= j

Working == {m \in Messages : work[m].at \in {"hand", "copy"}}
Claimed == {work[m].dst : m \in Working}

\* Mutant: the number that is free is not looked for on the disk.
AnyUnclaimed == Claimed

\* A finished download never takes an occupied name.
Occupied == Claimed \cup DOMAIN disk

-----------------------------------------------------------------------------
(* One message's download.                                                 *)

Disturb(kind) == kind \in Faults /\ faults < MaxFaults /\ faults' = faults + 1

\* Mutant: the users of a lock are not counted.
LeaveUncounted(m) ==
  LET f == FileOf[m] IN
  /\ users' = [users EXCEPT ![f] = @ - 2]
  /\ lock' = [lock EXCEPT ![f] = None]
  /\ mine' = [mine EXCEPT ![m] = None]

\* The end of _file_lock: the last user takes the lock out of the dictionary.
LeaveLock(m) ==
  LET f == FileOf[m] IN
  /\ users' = [users EXCEPT ![f] = @ - 1]
  /\ lock' = [lock EXCEPT ![f] = IF users[f] = 1 THEN None ELSE @]
  /\ mine' = [mine EXCEPT ![m] = None]

EndTask(m) ==
  /\ task' = [task EXCEPT ![m] = "none"]
  /\ due' = [due EXCEPT ![m] = None]
  /\ LeaveLock(m)

Begin(m) ==
  LET f == FileOf[m] IN
  /\ where = ChatOf[m] /\ m \notin walked
  /\ walked' = walked \cup {m}
  /\ lock' = [lock EXCEPT ![f] = IF @ = None THEN m ELSE @]
  /\ mine' = [mine EXCEPT ![m] = lock'[f]]
  /\ users' = [users EXCEPT ![f] = @ + 1]
  /\ task' = [task EXCEPT ![m] = "wait"]
  /\ UNCHANGED <<stores, where, visited, due, work, cursor, pass, faults>>

Inside(m) == task[m] \notin {"none", "wait"}

\* Mutant: the lock is there and nobody waits for it.
HasLockAnyway(m) == task[m] = "wait"

HasLock(m) ==
  /\ task[m] = "wait"
  /\ \A n \in Messages \ {m} : Inside(n) => mine[n] # mine[m]

\* The other chats whose row says they have the file.
Sources(m) ==
  {p \in DOMAIN rows : p[1] = FileOf[m] /\ rows[p].status = "done"}

Have(m) == Place(m) \in Sources(m)

StartThread(m, path) ==
  /\ work' = [work EXCEPT ![m] = [at |-> "claim", src |-> path, dst |-> None]]
  /\ task' = [task EXCEPT ![m] = "reuse"]

\* The file another export has, when there is one, and else the network.
NextSource(m) ==
  IF FileOf[m] \in Elsewhere /\ work[m].src # Foreign
  THEN StartThread(m, Foreign)
  ELSE /\ task' = [task EXCEPT ![m] = "fetch"]
       /\ work' = [work EXCEPT ![m] = [at |-> "none", src |-> None, dst |-> None]]

\* Under the lock, the row of this chat and then the one of another.
Lookup(m) ==
  /\ HasLock(m)
  /\ \/ Have(m) /\ EndTask(m) /\ UNCHANGED work
     \/ /\ ~Have(m)
        /\ \/ \E p \in Sources(m) :
                /\ rows[p].path \in DOMAIN disk
                /\ StartThread(m, rows[p].path)
           \/ /\ Sources(m) = {} \/ \E p \in Sources(m) : rows[p].path \notin DOMAIN disk
              /\ NextSource(m)
        /\ UNCHANGED <<due, lock, users, mine>>
  /\ UNCHANGED <<stores, run, cursor, pass, faults>>

SourceName(m) ==
  IF work[m].src = Foreign THEN Plain(FileOf[m]) ELSE work[m].src

\* claim(reuse=True), in the thread: an unclaimed name is taken as it is when
\* what lies there has the right size, and cleared when it has not.
ClaimForReuse(m) ==
  LET c    == ChatOf[m]
      dst  == Candidate(c, SourceName(m), FirstOutside(c, SourceName(m), 0, Claimed))
      want == Expected(FileOf[m])
      adopt == dst \in DOMAIN disk /\ want \in {0, SizeOn(disk[dst])}
  IN
  /\ work[m].at = "claim"
  /\ work' = [work EXCEPT ![m].dst = dst, ![m].at = IF adopt THEN "done" ELSE "hand"]
  /\ disk' = IF adopt THEN disk ELSE Remove(disk, {dst})
  /\ UNCHANGED <<rows, run, tasks, cursor, pass, faults>>

\* What the thread reads from; a file of this export may be gone by now.
Readable(m) == work[m].src = Foreign \/ work[m].src \in DOMAIN disk
Content(m) ==
  IF work[m].src = Foreign THEN Whole(FileOf[m]) ELSE disk[work[m].src]

\* Linked at once, or copied while others can see how far the copy is.
HandOver(m) ==
  /\ work[m].at = "hand" /\ Readable(m)
  /\ \/ /\ work[m].dst \notin DOMAIN disk
        /\ disk' = Put(disk, work[m].dst, Content(m))
        /\ work' = [work EXCEPT ![m].at = "done"]
     \/ /\ disk' = Put(disk, work[m].dst, Short(Content(m).of))
        /\ work' = [work EXCEPT ![m].at = "copy"]
  /\ UNCHANGED <<rows, run, tasks, cursor, pass, faults>>

CopyEnd(m) ==
  /\ work[m].at = "copy" /\ Readable(m)
  /\ disk' = Put(disk, work[m].dst, Content(m))
  /\ work' = [work EXCEPT ![m].at = "done"]
  /\ UNCHANGED <<rows, run, tasks, cursor, pass, faults>>

\* Neither works; a copy that broke off stays where it is.
HandOverFails(m) ==
  /\ \/ work[m].at \in {"hand", "copy"} /\ Disturb("linkfail")
     \/ work[m].at = "hand" /\ ~Readable(m) /\ UNCHANGED faults
  /\ work' = [work EXCEPT ![m].at = "failed"]
  /\ UNCHANGED <<stores, run, tasks, cursor, pass>>

\* _register, up to the write: what the row will say.
RowFor(f, d, path) ==
  LET size == IF path \in DOMAIN d THEN SizeOn(d[path]) ELSE 0 IN
  [path |-> path, actual |-> size,
   status |-> IF Expected(f) \in {0, size} THEN "done" ELSE "partial"]

\* The thread is back, and so is the task, unless it was cancelled.
ThreadReturns(m) ==
  /\ \/ /\ task[m] = "reuse" /\ work[m].at = "done"
        /\ task' = [task EXCEPT ![m] = "register"]
        /\ due' = [due EXCEPT ![m] = RowFor(FileOf[m], disk, work[m].dst)]
        /\ work' = [work EXCEPT ![m] = [at |-> "none", src |-> None, dst |-> None]]
     \/ /\ task[m] = "reuse" /\ work[m].at = "failed"
        /\ NextSource(m)
        /\ UNCHANGED due
     \/ /\ task[m] # "reuse" /\ work[m].at \in {"done", "failed"}
        /\ work' = [work EXCEPT ![m] = [at |-> "none", src |-> None, dst |-> None]]
        /\ UNCHANGED <<task, due>>
  /\ UNCHANGED <<stores, run, lock, users, mine, cursor, pass, faults>>

\* The download ends and is moved into place in the same step.
Fetch(m, c) ==
  LET f == FileOf[m]
      key == <<ChatOf[m], NameOf[f]>>
      i   == FirstOutside(ChatOf[m], Plain(f), cursor[key], Occupied)
      dst == Candidate(ChatOf[m], Plain(f), i)
  IN
  /\ task[m] = "fetch"
  /\ \/ c = Whole(f) /\ UNCHANGED faults
     \/ c = Short(f) /\ Disturb("short")
  /\ disk' = Put(disk, dst, c)
  /\ cursor' = [cursor EXCEPT ![key] = i + 1]
  /\ task' = [task EXCEPT ![m] = "register"]
  /\ due' = [due EXCEPT ![m] = RowFor(f, disk', dst)]
  /\ UNCHANGED <<rows, run, lock, users, mine, work, pass>>

\* Nothing was downloaded: no row, and the message is stored without a file.
FetchNothing(m) ==
  /\ Disturb("nofile")
  /\ task[m] = "fetch"
  /\ EndTask(m)
  /\ UNCHANGED <<stores, run, work, cursor, pass>>

Register(m) ==
  /\ task[m] = "register"
  /\ rows' = Put(rows, Place(m), due[m])
  /\ EndTask(m)
  /\ UNCHANGED <<disk, run, work, cursor, pass, faults>>

-----------------------------------------------------------------------------
(* A run.                                                                  *)

Idle == \A m \in Messages : task[m] = "none"
NoThreads == \A m \in Messages : work[m].at = "none"

StartRun ==
  /\ where = "down"
  /\ where' = "between"
  /\ UNCHANGED <<stores, visited, walked, tasks, work, cursor, pass, faults>>

Known(c) == {rows[p].path : p \in {q \in DOMAIN rows : q[2] = c}}

\* _cleanup_orphaned_files: what no row of the chat names.
Orphans(c) == {path \in DOMAIN disk : path.chat = c /\ path \notin Known(c)}

StartChat(c) ==
  /\ where = "between" /\ c \notin visited
  /\ where' = c /\ visited' = visited \cup {c}
  /\ disk' = Remove(disk, Orphans(c))
  /\ UNCHANGED <<rows, walked, tasks, work, cursor, pass, faults>>

EndChat ==
  /\ where \in Chats /\ Idle
  /\ where' = "between"
  /\ UNCHANGED <<stores, visited, walked, tasks, work, cursor, pass, faults>>

\* An error ends the chat: its tasks are cancelled, their threads are not,
\* and a row that is being written is waited for.  Some errors end the run's
\* walk over the chats as well.
FailChat ==
  /\ Disturb("fail")
  /\ where \in Chats /\ ~Idle
  /\ \A m \in Messages : task[m] # "register"
  /\ where' = "between" /\ visited' \in {visited, Chats}
  /\ task' = [m \in Messages |-> "none"] /\ due' = [m \in Messages |-> None]
  /\ lock' = [f \in Files |-> None] /\ users' = [f \in Files |-> 0]
  /\ mine' = [m \in Messages |-> None]
  /\ UNCHANGED <<stores, walked, work, cursor, pass>>

\* Mutant: a row that says done is left alone.
NotDone == {p \in DOMAIN rows : rows[p].status # "done"}

Broken == {p \in DOMAIN rows : ~Fine(p)}

StartVerify ==
  /\ where = "between" /\ visited = Chats
  /\ where' = "verify"
  /\ todo' = Broken
  /\ UNCHANGED <<stores, visited, walked, tasks, work, cursor, repaired, faults>>

\* Mutant: the name of the download is taken without asking.
ReplacementAsNamed(p) == Candidate(p[2], Plain(p[1]), 0)

Replacement(p) ==
  LET taken == DOMAIN disk \ {rows[p].path}
  IN Candidate(p[2], Plain(p[1]), FirstOutside(p[2], Plain(p[1]), 0, taken))

\* redownload_broken_file, from the end of its download to its row: moved over
\* its own file or to a free name, and the old file dropped.  The pass has a
\* registry of its own.  The row is asked for at once, and the connection takes
\* such requests in their order.
Replace(p, c) ==
  LET final == Replacement(p) IN
  /\ where = "verify" /\ p \in todo
  /\ \/ c = Whole(p[1]) /\ UNCHANGED faults
     \/ c = Short(p[1]) /\ Disturb("short")
  /\ todo' = todo \ {p}
  /\ disk' = Put(Remove(disk, {rows[p].path}), final, c)
  /\ repaired' = Append(repaired,
       [place |-> p, row |-> [path |-> final, actual |-> SizeOn(c), status |-> "done"]])
  /\ UNCHANGED <<rows, run, tasks, work, cursor>>

\* Nothing to download, or an error: the row stays broken.
GiveUp(p) ==
  /\ Disturb("nofile")
  /\ where = "verify" /\ p \in todo
  /\ todo' = todo \ {p}
  /\ UNCHANGED <<stores, run, tasks, work, cursor, repaired>>

RegisterRepaired ==
  /\ where = "verify" /\ repaired # <<>>
  /\ rows' = Put(rows, Head(repaired).place, Head(repaired).row)
  /\ repaired' = Tail(repaired)
  /\ UNCHANGED <<disk, run, tasks, work, cursor, todo, faults>>

Nothing == [x \in {} |-> None]

Ended ==
  /\ where' = "down" /\ visited' = {} /\ walked' = {}
  /\ task' = [m \in Messages |-> "none"] /\ due' = [m \in Messages |-> None]
  /\ lock' = [f \in Files |-> None] /\ users' = [f \in Files |-> 0]
  /\ mine' = [m \in Messages |-> None]
  /\ work' = [m \in Messages |-> [at |-> "none", src |-> None, dst |-> None]]
  /\ cursor' = [key \in Chats \X {NameOf[f] : f \in Files} |-> 0]
  /\ todo' = {} /\ repaired' = <<>>

\* The process leaves once its threads have ended.
EndRun ==
  /\ where = "verify" /\ todo = {} /\ repaired = <<>> /\ NoThreads
  /\ Ended
  /\ UNCHANGED <<stores, faults>>

\* The first signal: no further chat, no further file.
Stop ==
  /\ Disturb("stop")
  /\ \/ where = "between" /\ NoThreads /\ Ended
     \/ /\ where = "verify" /\ todo' = {}
        /\ UNCHANGED <<run, tasks, work, cursor, repaired>>
  /\ UNCHANGED stores

Kill ==
  /\ Disturb("kill")
  /\ where # "down"
  /\ Ended
  /\ UNCHANGED stores

-----------------------------------------------------------------------------
Init ==
  /\ disk = Nothing /\ rows = Nothing
  /\ where = "down" /\ visited = {} /\ walked = {}
  /\ task = [m \in Messages |-> "none"] /\ due = [m \in Messages |-> None]
  /\ lock = [f \in Files |-> None] /\ users = [f \in Files |-> 0]
  /\ mine = [m \in Messages |-> None]
  /\ work = [m \in Messages |-> [at |-> "none", src |-> None, dst |-> None]]
  /\ cursor = [key \in Chats \X {NameOf[f] : f \in Files} |-> 0]
  /\ todo = {} /\ repaired = <<>>
  /\ faults = 0

Download(m) ==
  \/ Begin(m) \/ Lookup(m)
  \/ ClaimForReuse(m) \/ HandOver(m) \/ CopyEnd(m) \/ HandOverFails(m)
  \/ ThreadReturns(m)
  \/ Fetch(m, Whole(FileOf[m])) \/ Register(m)

Work ==
  \/ \E m \in Messages : Download(m)
  \/ StartRun \/ (\E c \in Chats : StartChat(c)) \/ EndChat
  \/ StartVerify \/ (\E p \in Places : Replace(p, Whole(p[1]))) \/ RegisterRepaired \/ EndRun

Disturbance ==
  \/ \E m \in Messages : Fetch(m, Short(FileOf[m])) \/ FetchNothing(m)
  \/ \E p \in Places : Replace(p, Short(p[1])) \/ GiveUp(p)
  \/ FailChat \/ Stop \/ Kill

Next == Work \/ Disturbance

Spec == Init /\ [][Next]_vars

\* A run goes on until it ends, and the export is run again.
FairSpec == Spec /\ WF_vars(Work)

-----------------------------------------------------------------------------
(* Properties.                                                             *)

Paths == [chat : Chats, base : {NameOf[f] : f \in Files}, no : Seq(Nat)]
RowType == [path : Paths, actual : Nat, status : {"done", "partial"}]
WorkType == [at : {"none", "claim", "hand", "copy", "done", "failed"},
             src : Paths \cup {None, Foreign}, dst : Paths \cup {None}]

StoreTypes ==
  /\ DOMAIN disk \subseteq Paths
  /\ \A p \in DOMAIN disk : disk[p] \in [of : Files, whole : BOOLEAN]
  /\ DOMAIN rows \subseteq Places /\ \A p \in DOMAIN rows : rows[p] \in RowType

RunTypes ==
  /\ where \in Chats \cup {"down", "between", "verify"}
  /\ visited \subseteq Chats /\ walked \subseteq Messages

TaskTypes ==
  /\ task \in [Messages -> {"none", "wait", "reuse", "fetch", "register"}]
  /\ due \in [Messages -> RowType \cup {None}]

LockTypes ==
  /\ lock \in [Files -> Messages \cup {None}] /\ users \in [Files -> Nat]
  /\ mine \in [Messages -> Messages \cup {None}]

ThreadTypes == work \in [Messages -> WorkType]

NumberTypes ==
  /\ cursor \in [Chats \X {NameOf[f] : f \in Files} -> Nat]
  /\ faults \in Nat

PassTypes ==
  /\ todo \subseteq DOMAIN rows
  /\ repaired \in Seq([place : Places, row : RowType])

\* Every variable has its type.
TypeOK ==
  /\ StoreTypes /\ RunTypes /\ TaskTypes /\ LockTypes /\ ThreadTypes
  /\ NumberTypes /\ PassTypes

\* A row that verification passes over, for a file of known size, has that
\* file, whole, at its path: nobody may have written there since, in this run
\* or a later one.
FineIsWhole ==
  \A p \in DOMAIN rows :
    Fine(p) /\ p[1] \in Sized =>
      /\ rows[p].path \in DOMAIN disk
      /\ disk[rows[p].path] = Whole(p[1])

\* "Two rows sharing a local_path mean one download overwrote another"
\* (the schema of files); the registry of names is there to prevent it.
OneRowOneFile ==
  \A p, q \in DOMAIN rows : rows[p].path = rows[q].path => p = q

\* Two messages carrying the same file do not both download it: whoever
\* reaches the network has no finished row to go by, and nobody else is there.
FetchedOnce ==
  \A m \in Messages :
    task[m] \in {"reuse", "fetch"} =>
      /\ ~Have(m)
      /\ \A n \in Messages : FileOf[n] = FileOf[m] /\ Inside(n) => n = m

\* Once nothing goes wrong any more, every broken row is repaired, by a later
\* walk or by the verification pass, and none breaks again.
EventuallyFine == <>[](\A p \in DOMAIN rows : Fine(p))
=============================================================================
