----------------------------- MODULE MCChatTree -----------------------------
(* Chats, folders and settings of the runs over ChatTree.                  *)
EXTENDS ChatTree

MCClass == [c1 |-> "User", c2 |-> "Channel"]
MCFolders == <<[name |-> "f 1", flags |-> {}, exclude |-> {}],
               [name |-> "f 2", flags |-> {"contacts", "broadcasts"}, exclude |-> {"c2"}]>>
MCSanitized == [n |-> "n", m |-> "m"] @@ ("f 1" :> "f_1") @@ ("f 2" :> "f_2")

Rule(id, name, media, skip) == [id |-> id, name |-> name, media |-> media, skip |-> skip]

OwnRules == <<Rule("c2", None, 2, FALSE), Rule(None, "m", Absent, TRUE)>>
FolderOwn == [f \in {"f 1"} |->
  [media |-> Absent, skip |-> FALSE, chats |-> <<Rule("c1", None, 2, FALSE)>>]]
FolderSkipped == [f \in {"f 2"} |->
  [media |-> Bad, skip |-> TRUE, chats |-> <<Rule("c1", None, 2, FALSE)>>]]
ByType == <<[key |-> "private", media |-> 2, skip |-> FALSE],
            [key |-> "private_channel", media |-> Unsized, skip |-> TRUE]>>
Mistyped == <<[key |-> "persons", media |-> 2, skip |-> FALSE]>>

Plain == [media |-> Absent, left |-> "skip", archived |-> "skip", unmatched |-> "skip",
          chats |-> <<>>, folders |-> [f \in {} |-> None], types |-> <<>>]
Open == [Plain EXCEPT !.left = "export_with_defaults", !.archived = "export_with_defaults"]
All == [Open EXCEPT !.unmatched = "export_with_defaults"]

MCFiles == {
  Plain,
  [All EXCEPT !.media = 0, !.chats = OwnRules],
  [All EXCEPT !.media = 0, !.folders = FolderOwn],
  [Open EXCEPT !.folders = FolderSkipped],
  [All EXCEPT !.folders = FolderOwn, !.types = ByType],
  [All EXCEPT !.types = Mistyped]}
=============================================================================
