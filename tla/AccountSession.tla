--------------------------- MODULE AccountSession ---------------------------
(***************************************************************************)
(* The session file of one account and the commands that use it: an export *)
(* that reuses the takeout of an earlier run, `takeout clear`, a login     *)
(* that replaces the file, and `account remove`.  Every command but the    *)
(* last holds the lock of the file.  session.py takes the takeout id out   *)
(* of the file before Telethon reads it, keeps it in a table of its own    *)
(* meanwhile and puts it back; a process may be killed at any point.       *)
(*                                                                         *)
(* Simplifications.  The temporary authorisation key follows the takeout   *)
(* id through the same statements and is left out.  A damaged value is     *)
(* Junk.  Telethon writes the row of the session when a value is set and   *)
(* commits it later, at the latest when it disconnects.  flock is there.   *)
(***************************************************************************)
EXTENDS Naturals, FiniteSets

CONSTANTS
  Procs,      \* processes that run commands on the account
  MaxTakeout, \* bound on the takeout sessions the server opens
  MaxLogin,   \* bound on the logins that succeed
  MaxFaults,  \* bound on kills, lost connections, busy and unreadable files
  None, Junk  \* no value, and one Telethon cannot use

ASSUME SessionAssumption ==
  /\ None \notin Nat /\ Junk \notin Nat /\ None # Junk /\ None \notin Procs
  /\ None \notin [login : Nat, live : Nat \cup {None, Junk}, backup : Nat \cup {None}]
  /\ MaxTakeout \in Nat /\ MaxLogin \in Nat \ {0} /\ MaxFaults \in Nat

VARIABLES
  lock,     \* the process that holds the lock
  at, cmd,  \* where the command of a process stands, and which it is
  mem,      \* session.takeout_id of a process, or the value it rescued
  dirty,    \* its row is written and not committed
  orphan,   \* the file it has open was unlinked
  target,   \* the session file: the login it is of, the column, the backup table
  staging,  \* the file a login writes to
  alive,    \* takeout sessions the server honours
  opened,   \* how many it has opened
  logins,   \* how many logins succeeded
  saved,    \* takeout ids that were committed to the file
  givenUp,  \* ids the user, a new login or a removal gave up
  lost,     \* ids that an unread file or an unanswered probe cost (Unread, Discard)
  removed,  \* the account was removed
  cut,      \* a login was killed between its last two steps
  faults

proc == <<at, cmd, mem, dirty, orphan>>
files == <<target, staging>>
server == <<alive, opened, logins>>
ghosts == <<saved, givenUp, lost, removed, cut>>
vars == <<lock, proc, files, server, ghosts, faults>>

Ids == 1 .. MaxTakeout
NewFile(login) == [login |-> login, live |-> None, backup |-> None]

Fault == faults < MaxFaults /\ faults' = faults + 1

\* The command of p goes on at `step`.
Goes(p, step) == at' = [at EXCEPT ![p] = step]

\* The command is over: its lock goes with it.
Over(p) ==
  /\ at' = [at EXCEPT ![p] = "idle"]
  /\ cmd' = [cmd EXCEPT ![p] = None]
  /\ mem' = [mem EXCEPT ![p] = None]
  /\ dirty' = [dirty EXCEPT ![p] = FALSE]
  /\ orphan' = [orphan EXCEPT ![p] = FALSE]
  /\ lock' = IF lock = p THEN None ELSE lock

\* p has the session file open.
Connected(p) == at[p] \in {"built", "open", "probe", "discard", "doubt", "enter", "working"}

\* What happens to the processes that have a file open when it is unlinked.
Unlink ==
  /\ orphan' = [p \in Procs |-> orphan[p] \/ Connected(p)]
  /\ givenUp' = givenUp \cup saved

\* What a commit of p writes: nothing anyone sees if its file is unlinked.
Commit(p, id, backup) ==
  IF orphan[p] THEN UNCHANGED <<target, saved>>
  ELSE /\ target' = [target EXCEPT !.live = id, !.backup = backup]
       /\ saved' = saved \cup ({id} \cap Ids)

-----------------------------------------------------------------------------
(* The lock.                                                               *)

\* Mutant: a login does not look at the lock.
FreeForLogin(c) == lock = None \/ c = "login"

\* flock answers at once; a command that is refused ends.
LockFree(c) == lock = None

Acquire(p) ==
  /\ at[p] = "idle"
  /\ \E c \in {"export", "clear", "login"} :
       /\ LockFree(c)
       /\ cmd' = [cmd EXCEPT ![p] = c]
  /\ lock' = p
  /\ Goes(p, "locked")
  /\ UNCHANGED <<mem, dirty, orphan, files, server, ghosts, faults>>

-----------------------------------------------------------------------------
(* FixedSQLiteSession.                                                     *)

\* Mutant: what is no number is handed on.
AnyValue(id) == id

\* _normalize
Usable(id) == IF id = Junk THEN None ELSE id

\* The live column wins over the backup.
Rescued(f) == IF Usable(f.live) # None THEN Usable(f.live) ELSE f.backup

\* Mutant: the value is cleared and kept in memory alone.
ClearedOnly(f) == [f EXCEPT !.live = None]

\* One transaction: the copy, then the clearing.
Staged(f) == [f EXCEPT !.live = None, !.backup = Rescued(f)]

\* A missing file is made first, empty and private.
Existing == IF target = None THEN NewFile(0) ELSE target

Rescue(p) ==
  /\ at[p] = "locked" /\ cmd[p] \in {"export", "clear"}
  /\ mem' = [mem EXCEPT ![p] = Rescued(Existing)]
  /\ target' = Staged(Existing)
  /\ Goes(p, "rescued")
  /\ UNCHANGED <<lock, cmd, dirty, orphan, staging, server, ghosts, faults>>

\* Another program holds the file: nothing is rescued and nothing opened.
Busy(p) ==
  /\ at[p] = "locked" /\ cmd[p] \in {"export", "clear"} /\ Fault
  /\ Over(p)
  /\ UNCHANGED <<files, server, ghosts>>

\* Any other error of SQLite is let pass and the start goes on with nothing in
\* hand.  Telethon takes an id it finds in the column for a key, and the start
\* fails; without one _drop_backup deletes the only copy, unless it fails too.
Unread(p) ==
  /\ at[p] = "locked" /\ cmd[p] \in {"export", "clear"} /\ Fault
  /\ \/ Over(p) /\ UNCHANGED <<files, lost>>
     \/ /\ Existing.live \notin Ids
        /\ target' \in {Existing, [Existing EXCEPT !.backup = None]}
        /\ lost' = lost \cup ({Existing.backup} \cap Ids)
        /\ Goes(p, "built")
        /\ UNCHANGED <<lock, cmd, mem, dirty, orphan, staging>>
  /\ UNCHANGED <<server, saved, givenUp, removed, cut>>

\* Mutant: the backup is left behind.
KeptBackup(f) == f.backup

\* _drop_backup, in the transaction that puts the value back.
BackupAfter(f) == None

Restore(p) ==
  /\ at[p] = "rescued"
  /\ target' = [Existing EXCEPT !.live = mem[p], !.backup = BackupAfter(Existing)]
  /\ saved' = saved \cup ({mem[p]} \cap Ids)
  /\ Goes(p, "built")
  /\ UNCHANGED <<lock, cmd, mem, dirty, orphan, staging, server, givenUp, lost, removed, cut, faults>>

RestoreFails(p) ==
  /\ at[p] = "rescued" /\ Fault
  /\ Over(p)
  /\ UNCHANGED <<files, server, ghosts>>

\* The transaction fails and that is let pass: both copies wait.
RestoreUnsaved(p) ==
  /\ at[p] = "rescued" /\ Fault
  /\ target' = Existing
  /\ dirty' = [dirty EXCEPT ![p] = TRUE]
  /\ Goes(p, "built")
  /\ UNCHANGED <<lock, cmd, mem, orphan, staging, server, ghosts>>

Connect(p) ==
  /\ at[p] = "built"
  /\ Goes(p, "open")
  /\ UNCHANGED <<lock, cmd, mem, dirty, orphan, files, server, ghosts, faults>>

ConnectFails(p) ==
  /\ at[p] = "built" /\ Fault
  /\ Over(p)
  /\ UNCHANGED <<files, server, ghosts>>

-----------------------------------------------------------------------------
(* The takeout of an export.                                               *)

\* start_takeout; with --no-takeout it is not called.
StartTakeout(p) ==
  /\ at[p] = "open" /\ cmd[p] = "export"
  /\ Goes(p, IF mem[p] = None THEN "enter" ELSE "probe")
  /\ UNCHANGED <<lock, cmd, mem, dirty, orphan, files, server, ghosts, faults>>

NoTakeout(p) ==
  /\ at[p] = "open" /\ cmd[p] = "export"
  /\ Goes(p, "working")
  /\ UNCHANGED <<lock, cmd, mem, dirty, orphan, files, server, ghosts, faults>>

Resume(p) ==
  /\ at[p] = "probe" /\ mem[p] \in alive
  /\ Goes(p, "working")
  /\ UNCHANGED <<lock, cmd, mem, dirty, orphan, files, server, ghosts, faults>>

\* Mutant: whatever goes wrong with the probe, the id is discarded.
UnusableAnyway(p) == TRUE

\* The server says it does not know the takeout (TakeoutInvalidError).
Unusable(p) == mem[p] \notin alive

ProbeRefused(p) ==
  /\ at[p] = "probe" /\ Unusable(p)
  /\ Goes(p, "discard")
  /\ UNCHANGED <<lock, cmd, mem, dirty, orphan, files, server, ghosts, faults>>

\* The request ran out of retries: Telethon's ValueError is taken for the same
\* answer, whatever the server thinks of the takeout.
ProbeUnanswered(p) ==
  /\ at[p] = "probe" /\ Fault
  /\ Goes(p, "doubt")
  /\ UNCHANGED <<lock, cmd, mem, dirty, orphan, files, server, ghosts>>

\* Any other error leaves the id and the export falls back to the ordinary API
\* or, when a takeout is required, ends.
TakeoutFails(p) ==
  /\ at[p] \in {"probe", "enter"} /\ Fault
  /\ Goes(p, "working")
  /\ UNCHANGED <<lock, cmd, mem, dirty, orphan, files, server, ghosts>>

\* _discard_takeout_id: finished by the server, or cleared locally when it says
\* no or cannot be asked.
Discard(p) ==
  /\ at[p] \in {"discard", "doubt"}
  /\ alive' \in {alive, alive \ {mem[p]}}
  /\ mem' = [mem EXCEPT ![p] = None]
  /\ dirty' = [dirty EXCEPT ![p] = TRUE]
  /\ lost' = IF at[p] = "doubt" THEN lost \cup {mem[p]} ELSE lost
  /\ Goes(p, "enter")
  /\ UNCHANGED <<lock, cmd, orphan, files, opened, logins, saved, givenUp, removed, cut, faults>>

\* Out of retries again: end_takeout says so by returning False, the id stays,
\* and Telethon opens no takeout over it.
DiscardRefused(p) ==
  /\ at[p] \in {"discard", "doubt"} /\ Fault
  /\ alive' \in {alive, alive \ {mem[p]}}
  /\ Goes(p, "working")
  /\ UNCHANGED <<lock, cmd, mem, dirty, orphan, files, opened, logins, ghosts>>

EnterTakeout(p) ==
  /\ at[p] = "enter" /\ opened < MaxTakeout
  /\ opened' = opened + 1
  /\ alive' = alive \cup {opened + 1}
  /\ mem' = [mem EXCEPT ![p] = opened + 1]
  /\ dirty' = [dirty EXCEPT ![p] = TRUE]
  /\ Goes(p, "working")
  /\ UNCHANGED <<lock, cmd, orphan, files, logins, ghosts, faults>>

\* TakeoutInitDelayError: the export goes on without one.
TakeoutDelayed(p) ==
  /\ at[p] = "enter"
  /\ Goes(p, "working")
  /\ UNCHANGED <<lock, cmd, mem, dirty, orphan, files, server, ghosts, faults>>

\* Telethon saves the session from time to time.
Save(p) ==
  /\ Connected(p) /\ dirty[p]
  /\ Commit(p, mem[p], IF target = None THEN None ELSE target.backup)
  /\ dirty' = [dirty EXCEPT ![p] = FALSE]
  /\ UNCHANGED <<lock, at, cmd, mem, orphan, staging, server, givenUp, lost, removed, cut, faults>>

\* disconnect: the takeout is let go of, not finished.
Disconnect(p) ==
  /\ at[p] = "working"
  /\ IF dirty[p] THEN Commit(p, mem[p], IF target = None THEN None ELSE target.backup)
     ELSE UNCHANGED <<target, saved>>
  /\ Over(p)
  /\ UNCHANGED <<staging, alive, opened, logins, givenUp, lost, removed, cut, faults>>

-----------------------------------------------------------------------------
(* takeout clear.                                                          *)

NothingToClear(p) ==
  /\ at[p] = "open" /\ cmd[p] = "clear" /\ mem[p] = None
  /\ Goes(p, "working")
  /\ UNCHANGED <<lock, cmd, mem, dirty, orphan, files, server, ghosts, faults>>

\* Finished: Telethon drops the id, and the file has it until the disconnect.
Finish(p) ==
  /\ at[p] = "open" /\ cmd[p] = "clear" /\ mem[p] # None
  /\ alive' = alive \ {mem[p]}
  /\ mem' = [mem EXCEPT ![p] = None]
  /\ dirty' = [dirty EXCEPT ![p] = TRUE]
  /\ givenUp' = givenUp \cup {mem[p]}
  /\ Goes(p, "working")
  /\ UNCHANGED <<lock, cmd, orphan, files, opened, logins, saved, lost, removed, cut, faults>>

\* Refused by the server: the local id goes and is saved.
ClearLocally(p) ==
  /\ at[p] = "open" /\ cmd[p] = "clear" /\ mem[p] # None
  /\ givenUp' = givenUp \cup {mem[p]}
  /\ Commit(p, None, IF target = None THEN None ELSE target.backup)
  /\ mem' = [mem EXCEPT ![p] = None]
  /\ dirty' = [dirty EXCEPT ![p] = FALSE]
  /\ Goes(p, "working")
  /\ UNCHANGED <<lock, cmd, orphan, staging, server, lost, removed, cut, faults>>

\* The server cannot be reached, though it may have heard: the id is kept.
ClearUnreachable(p) ==
  /\ at[p] = "open" /\ cmd[p] = "clear" /\ mem[p] # None /\ Fault
  /\ alive' \in {alive, alive \ {mem[p]}}
  /\ Goes(p, "working")
  /\ UNCHANGED <<lock, cmd, mem, dirty, orphan, files, opened, logins, ghosts>>

-----------------------------------------------------------------------------
(* auth add: the login writes to a file of its own.                        *)

\* Mutant: the old session is deleted first.
OldDeleted == None

\* The working session stays while the user is asked.
OldKept == target

BeginLogin(p) ==
  /\ at[p] = "locked" /\ cmd[p] = "login"
  /\ staging' = NewFile(0)
  /\ target' = OldKept
  /\ Goes(p, "asking")
  /\ UNCHANGED <<lock, cmd, mem, dirty, orphan, server, ghosts, faults>>

\* A wrong code, too many passwords, Ctrl+C, no connection.
LoginFails(p) ==
  /\ at[p] = "asking"
  /\ staging' = None
  /\ Over(p)
  /\ UNCHANGED <<target, server, ghosts, faults>>

SignIn(p) ==
  /\ at[p] = "asking" /\ logins < MaxLogin
  /\ logins' = logins + 1
  /\ staging' = NewFile(logins + 1)
  /\ Goes(p, "swap")
  /\ UNCHANGED <<lock, cmd, mem, dirty, orphan, target, alive, opened, ghosts, faults>>

RemoveOld(p) ==
  /\ at[p] = "swap"
  /\ target' = None
  /\ Unlink
  /\ Goes(p, "replace")
  /\ UNCHANGED <<lock, cmd, mem, dirty, staging, server, saved, lost, removed, cut, faults>>

Replace(p) ==
  /\ at[p] = "replace"
  /\ target' = staging /\ staging' = None
  /\ Over(p)
  /\ removed' = FALSE /\ cut' = FALSE
  /\ UNCHANGED <<server, saved, givenUp, lost, faults>>

-----------------------------------------------------------------------------
(* Without the lock: the user, the server, and the end of a process.       *)

RemoveAccount ==
  /\ target # None /\ ~removed
  /\ target' = None
  /\ Unlink
  /\ removed' = TRUE
  /\ UNCHANGED <<lock, at, cmd, mem, dirty, staging, server, saved, lost, cut, faults>>

Expire ==
  /\ \E t \in alive : alive' = alive \ {t}
  /\ UNCHANGED <<lock, proc, files, opened, logins, ghosts, faults>>

\* The kernel frees the lock; what was not committed is lost.
Kill(p) ==
  /\ at[p] # "idle" /\ Fault
  /\ cut' = (cut \/ at[p] = "replace")
  /\ Over(p)
  /\ UNCHANGED <<files, server, saved, givenUp, lost, removed>>

Init ==
  /\ lock = None
  /\ at = [p \in Procs |-> "idle"] /\ cmd = [p \in Procs |-> None]
  /\ mem = [p \in Procs |-> None]
  /\ dirty = [p \in Procs |-> FALSE] /\ orphan = [p \in Procs |-> FALSE]
  /\ target \in {[NewFile(1) EXCEPT !.live = None], [NewFile(1) EXCEPT !.live = Junk]}
  /\ staging = None
  /\ alive = {} /\ opened = 0 /\ logins = 1
  /\ saved = {} /\ givenUp = {} /\ lost = {} /\ removed = FALSE /\ cut = FALSE /\ faults = 0

Run(p) ==
  \/ Rescue(p) \/ Restore(p) \/ Connect(p)
  \/ StartTakeout(p) \/ NoTakeout(p) \/ Resume(p) \/ ProbeRefused(p) \/ Discard(p)
  \/ EnterTakeout(p) \/ TakeoutDelayed(p) \/ Disconnect(p)
  \/ NothingToClear(p) \/ Finish(p) \/ ClearLocally(p)
  \/ BeginLogin(p) \/ LoginFails(p) \/ SignIn(p) \/ RemoveOld(p) \/ Replace(p)

Trouble(p) ==
  \/ Busy(p) \/ Unread(p) \/ RestoreFails(p) \/ RestoreUnsaved(p) \/ ConnectFails(p)
  \/ ProbeUnanswered(p) \/ DiscardRefused(p) \/ TakeoutFails(p) \/ ClearUnreachable(p) \/ Kill(p)

Next ==
  \/ \E p \in Procs : Acquire(p) \/ Run(p) \/ Save(p) \/ Trouble(p)
  \/ RemoveAccount \/ Expire

Spec == Init /\ [][Next]_vars

\* A command that began ends; commands are given again and again.
FairSpec ==
  /\ Spec
  /\ \A p \in Procs : WF_vars(Run(p)) /\ SF_vars(Acquire(p) /\ cmd'[p] = "export")

-----------------------------------------------------------------------------
Values == Ids \cup {None, Junk}
FileType == [login : 0 .. MaxLogin, live : Values, backup : Ids \cup {None}]

TypeOK ==
  /\ lock \in Procs \cup {None}
  /\ at \in [Procs -> {"idle", "locked", "rescued", "built", "open", "probe", "discard", "doubt",
                       "enter", "working", "asking", "swap", "replace"}]
  /\ cmd \in [Procs -> {"export", "clear", "login", None}]
  /\ mem \in [Procs -> Ids \cup {None}]
  /\ dirty \in [Procs -> BOOLEAN] /\ orphan \in [Procs -> BOOLEAN]
  /\ target \in FileType \cup {None} /\ staging \in FileType \cup {None}
  /\ alive \in SUBSET Ids /\ opened \in 0 .. MaxTakeout /\ logins \in 1 .. MaxLogin
  /\ saved \in SUBSET Ids /\ givenUp \in SUBSET Ids /\ lost \in SUBSET Ids
  /\ removed \in BOOLEAN /\ cut \in BOOLEAN /\ faults \in 0 .. MaxFaults

\* A saved takeout id is lost in two ways, that the code has and should not: a
\* start that cannot read the file goes on and drops the copy an earlier start
\* left (session.py:327-331), and a probe that ran out of retries discards the
\* id as if the server had said no (api.py:183).  Both are in `lost`.
Kept == (alive \cap saved) \ (givenUp \cup lost)

\* A takeout id that was saved once is in the file as long as the server
\* honours the takeout and nobody gave it up: in its column, or in the backup
\* table while a command opens the file or after one was killed doing so
\* (session.py: "the next start finds it in the backup table").  Not so in the
\* two cases of `lost`.
TakeoutKept ==
  \A t \in Kept : target # None /\ t \in {target.live, target.backup}

\* The same without exception: "an id must never be discarded while it still
\* works" (api.py:151), "a crash in the middle [...] cannot lose the value"
\* (session.py:38).
NeverDiscarded ==
  \A t \in (alive \cap saved) \ givenUp :
    target # None /\ t \in {target.live, target.backup}

\* A takeout is opened only when none of the earlier ones still works
\* (docs/adr/0002): whatever was killed or failed before, an export does not
\* pay the cooldown of a new one while a saved one is honoured, but in the two
\* cases of `lost`.
ReusedWhileAlive == [][opened' > opened => Kept = {}]_vars

\* Only the user's removal takes the file from under a command that has it
\* open: a login waits for the lock (auth.py: done under a running export "every
\* later save() of that export goes to an unlinked inode").
NoLostWriter == \A p \in Procs : orphan[p] => removed

\* The account has its session until the next login has succeeded: a failed or
\* interrupted login leaves the old one.  Not so when the login is killed
\* between deleting the old file and moving the new one.
SessionKept ==
  target # None \/ removed \/ cut \/ \E p \in Procs : at[p] = "replace"

\* The copy in the backup table does not stay for ever: a stale one would come
\* back as the takeout id after the column was cleared.
BackupEmptied == []<>(target = None \/ target.backup = None)
=============================================================================
