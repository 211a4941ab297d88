SPECIFICATION FairSpec
CONSTANTS
  Files = {"f", "g", "h"}
  Chats = {"A", "B"}
  Messages = {"a1", "b1", "b2", "b3", "b4"}
  FileOf <- SmallFileOf
  ChatOf <- SmallChatOf
  NameOf <- SmallNameOf
  Size <- SmallSize
  Sized = {"f", "g"}
  Elsewhere = {"f"}
  Foreign = Foreign
  None = None
  Faults = {"short", "nofile", "linkfail", "fail", "stop", "kill"}
  MaxFaults = 2
INVARIANTS
  TypeOK
  FineIsWhole
  OneRowOneFile
  FetchedOnce
PROPERTIES
  EventuallyFine
