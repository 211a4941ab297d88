---------------------------- MODULE MCMediaStore ----------------------------
(* Files, messages and names of the runs over MediaStore.                  *)
EXTENDS MediaStore

\* f is in both chats under a name of its own, in chat B twice; g and h, in
\* chat B, are saved under the same name.
SmallFileOf == [a1 |-> "f", b1 |-> "f", b2 |-> "f", b3 |-> "g", b4 |-> "h"]
SmallChatOf == [a1 |-> "A", b1 |-> "B", b2 |-> "B", b3 |-> "B", b4 |-> "B"]
SmallNameOf == [f |-> "own", g |-> "photo", h |-> "photo"]
SmallSize == [f |-> 2, g |-> 3, h |-> 4]
=============================================================================
