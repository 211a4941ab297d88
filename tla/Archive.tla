------------------------------ MODULE Archive ------------------------------
(***************************************************************************)
(* What the export of one chat promises, without any of the mechanism.     *)
(*                                                                         *)
(* The chat grows and shrinks on the server.  The archive keeps messages   *)
(* and keeps a claim: the ids that no later run will ask the server for.   *)
(* The promise is one line -- an id is claimed only when its message, if   *)
(* it is still there and wanted, is in the archive.  ChatExport implements *)
(* the claim with the three pointers of export_state.                      *)
(***************************************************************************)
EXTENDS Naturals

CONSTANT Ids      \* message ids of the chat
CONSTANT Wanted   \* the ids whose messages belong in the archive, a subset

VARIABLES present,   \* ids that exist on the server
          stored,    \* ids in the archive
          claimed    \* ids never asked for again

archiveVars == <<present, stored, claimed>>

Promise(p, s, c) == p \cap Wanted \cap c \subseteq s

Init ==
  /\ present \in SUBSET Ids
  /\ stored = {}
  /\ claimed = {}

\* The chat gets a message nobody has claimed yet.
Post(m) ==
  /\ m \in Ids \ (present \cup claimed)
  /\ present' = present \cup {m}
  /\ UNCHANGED <<stored, claimed>>

\* A message disappears from the server; the archive keeps its copy.
Delete(m) ==
  /\ m \in present
  /\ present' = present \ {m}
  /\ UNCHANGED <<stored, claimed>>

\* Messages are stored, some perhaps again; nothing stored is dropped.
Store(new) ==
  /\ stored' = stored \cup new
  /\ UNCHANGED <<present, claimed>>

\* A claim grows, and only over ids the archive has accounted for.
Claim(more) ==
  /\ claimed' = claimed \cup more
  /\ Promise(present, stored, claimed')
  /\ UNCHANGED <<present, stored>>

\* A deliberate rewind gives up every claim, with or without the messages.
Forget(kept) ==
  /\ claimed' = {}
  /\ stored' = stored \cap kept
  /\ UNCHANGED present

Next ==
  \/ \E m \in Ids : Post(m) \/ Delete(m)
  \/ \E new \in SUBSET Ids : Store(new)
  \/ \E more \in SUBSET Ids : Claim(more)
  \/ \E kept \in SUBSET Ids : Forget(kept)

Spec == Init /\ [][Next]_archiveVars

(***************************************************************************)
(* The promise kept in every reachable state: nothing wanted is both given *)
(* up and missing.                                                         *)
(***************************************************************************)
PromiseKept == Promise(present, stored, claimed)
=============================================================================
