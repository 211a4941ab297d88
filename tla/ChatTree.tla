------------------------------ MODULE ChatTree ------------------------------
(***************************************************************************)
(* Which chats an account's commands export, with which limit, and where   *)
(* their pages lie.  `tg-export run` reads the configuration, opens or     *)
(* resumes a takeout, fetches the catalog of chats, chooses among them,    *)
(* writes a directory for each and then the index; `tg-export purge`       *)
(* removes a chat.  Between the commands chats are renamed, moved between  *)
(* folders, archived, left and published, and the configuration is edited. *)
(*                                                                         *)
(* Simplifications.  The lock of the state database admits one command at  *)
(* a time.  A command reads the configuration and the catalog once, so     *)
(* what changes during it is a change after it.  A media setting is its    *)
(* size limit; dates are in ChatExport, global data in ExportRun, the      *)
(* takeout id in AccountSession.  The message counts on the index are left *)
(* out.  The order of the chats, which decides nothing here, is any.       *)
(***************************************************************************)
EXTENDS Naturals, FiniteSets, Sequences, SequencesExt

CONSTANTS
  Chats, Names,  \* chats, and the names one may have
  FirstName,     \* the name all have at first
  Class,         \* what a chat is: User, Bot, Chat, Channel or Megagroup
  Folders,       \* Telegram's folders in order: name, flags, excluded chats
  Contacts,      \* the chats of the address book
  Sanitized,     \* the path component a chat's or folder's name becomes
  Files,         \* what the configuration file may hold
  DefaultLimit,  \* the size limit of a media section that names none
  MaxChanges,    \* bound on what happens to the chats on Telegram
  Absent, Unsized, Bad,  \* no media section, one without a size, an unreadable one
  None

ASSUME TreeAssumption ==
  /\ DefaultLimit \in Nat /\ MaxChanges \in Nat
  /\ None \notin Names \cup Chats \cup Nat /\ {Absent, Unsized, Bad} \cap Nat = {}
  /\ Bad \notin {Absent, Unsized} /\ Absent # Unsized
  /\ Contacts \subseteq Chats /\ FirstName \in Names

\* What a section of the file may hold, readable or not.
Setting == Nat \cup {Absent, Unsized, Bad}
RawRule == [id : Chats \cup {None}, name : Names \cup {None}, media : Setting, skip : BOOLEAN]
RawType == [key : STRING, media : Setting, skip : BOOLEAN]
RawFolder == [media : Setting, skip : BOOLEAN, chats : Seq(RawRule)]

ASSUME FilesAreWritten ==
  \A raw \in Files :
    /\ raw.media \in Setting /\ raw.chats \in Seq(RawRule) /\ raw.types \in Seq(RawType)
    /\ IsFiniteSet(DOMAIN raw.folders)
    /\ \A n \in DOMAIN raw.folders : raw.folders[n] \in RawFolder

Actions == {"skip", "export_with_defaults"}

VARIABLES
  tg,       \* what Telegram knows of a chat
  peers,    \* the chats each folder lists
  changes,
  file,     \* the configuration as written
  cache,    \* catalog_cache: the last known name; the row stands for the others
  dirs,     \* chat directories on disk
  index,    \* the links on the index pages the run at work has rendered
  step,     \* where the command at work stands
  takeout,  \* the limit of the takeout it opened
  listed,   \* the catalog it fetched
  todo,     \* what it still has to export, with the limit
  now,      \* the chat it is at
  target,   \* what a purge is to remove
  strays    \* ghost: directories no purge can know of

world == <<tg, peers, changes>>
disk == <<dirs, index>>
command == <<step, takeout, listed, todo, now, target>>
vars == <<world, file, cache, disk, command, strays>>

-----------------------------------------------------------------------------
(* The configuration. *)

TypeCategories == [
  private  |-> {"personal", "private_group", "private_supergroup", "private_channel", "self"},
  public   |-> {"public_supergroup", "public_channel"},
  groups   |-> {"private_group", "private_supergroup", "public_supergroup"},
  channels |-> {"private_channel", "public_channel"},
  bots     |-> {"bot"}]

TypeKeys == UNION {TypeCategories[k] : k \in DOMAIN TypeCategories} \cup DOMAIN TypeCategories

Media(m) == CASE m = Absent -> None [] m = Unsized -> DefaultLimit [] OTHER -> m

ChatRule(r) == [id |-> r.id, name |-> r.name, limit |-> Media(r.media), skip |-> r.skip]

ReadableRule(r) == (r.id # None \/ r.name # None) /\ r.media # Bad

\* A type or folder rule that skips is read no further.
TypeRule(r) == [key |-> r.key, limit |-> IF r.skip THEN None ELSE Media(r.media), skip |-> r.skip]

FolderRule(r) ==
  IF r.skip THEN [limit |-> None, skip |-> TRUE, chats |-> <<>>]
  ELSE [limit |-> Media(r.media), skip |-> FALSE,
        chats |-> [i \in DOMAIN r.chats |-> ChatRule(r.chats[i])]]

ReadableFolder(r) ==
  r.skip \/ (r.media # Bad /\ \A i \in DOMAIN r.chats : ReadableRule(r.chats[i]))

\* load_config ends in a ConfigError otherwise, and the command with it.
Readable(raw) ==
  /\ raw.media # Bad
  /\ \A n \in DOMAIN raw.folders : ReadableFolder(raw.folders[n])
  /\ \A i \in DOMAIN raw.types :
       raw.types[i].key \in TypeKeys /\ (raw.types[i].skip \/ raw.types[i].media # Bad)
  /\ \A i \in DOMAIN raw.chats : ReadableRule(raw.chats[i])
  /\ {raw.left, raw.archived, raw.unmatched} \subseteq Actions

LoadConfig(raw) ==
  [media   |-> Media(IF raw.media = Absent THEN Unsized ELSE raw.media),
   left    |-> raw.left, archived |-> raw.archived, unmatched |-> raw.unmatched,
   folders |-> [n \in DOMAIN raw.folders |-> FolderRule(raw.folders[n])],
   types   |-> [i \in DOMAIN raw.types |-> TypeRule(raw.types[i])],
   chats   |-> [i \in DOMAIN raw.chats |-> ChatRule(raw.chats[i])]]

First(rules, Fits(_)) ==
  LET fitting == {i \in DOMAIN rules : Fits(rules[i])}
  IN IF fitting = {} THEN None ELSE rules[Min(fitting)]

\* The rule of a `chats` list for chat e: by id or by name, the first in order.
RuleFor(rules, e) ==
  First(rules, LAMBDA r : (r.id # None /\ r.id = e.id) \/ (r.name # None /\ r.name = e.name))

\* The rule of the exact type before the rule of a category.
MatchTypeRule(cfg, type) ==
  LET exact == First(cfg.types, LAMBDA r : r.key = type)
  IN IF exact # None THEN exact
     ELSE First(cfg.types, LAMBDA r : r.key \in DOMAIN TypeCategories /\ type \in TypeCategories[r.key])

\* The limit a rule gives a chat, None if it bans the chat.
RuleLimit(cfg, r) ==
  IF r.skip THEN None ELSE IF r.limit # None THEN r.limit ELSE cfg.media

FolderLimit(cfg, folder, e) ==
  LET own == RuleFor(folder.chats, e)
      type == MatchTypeRule(cfg, e.type)
  IN CASE folder.skip -> None
       [] ~folder.skip /\ own # None -> RuleLimit(cfg, own)
       [] ~folder.skip /\ own = None ->
            CASE type # None /\ (type.skip \/ folder.limit = None) -> RuleLimit(cfg, type)
              [] OTHER -> IF folder.limit # None THEN folder.limit ELSE cfg.media

\* resolve_chat_config: the limit chat e is exported with, None if it is not.
Resolve(cfg, e, admitted) ==
  LET own == RuleFor(cfg.chats, e)
      type == MatchTypeRule(cfg, e.type)
  IN CASE own # None -> RuleLimit(cfg, own)
       [] own = None /\ e.folder \in DOMAIN cfg.folders -> FolderLimit(cfg, cfg.folders[e.folder], e)
       [] own = None /\ e.folder \notin DOMAIN cfg.folders ->
            CASE type # None -> RuleLimit(cfg, type)
              [] type = None -> IF cfg.unmatched = "skip" /\ ~admitted THEN None ELSE cfg.media

Exporting(rules) == {r.limit : r \in {q \in Range(rules) : q.limit # None /\ ~q.skip}}

\* Mutant: the rules nested in a folder are forgotten.
NestedForgotten(cfg) ==
  Max({cfg.media} \cup Exporting(cfg.chats) \cup Exporting(cfg.types)
      \cup UNION {Exporting(<<cfg.folders[n]>>) : n \in DOMAIN cfg.folders})

\* The one limit a takeout is opened with.
MaxMediaFileSize(cfg) ==
  Max({cfg.media} \cup Exporting(cfg.chats) \cup Exporting(cfg.types)
      \cup UNION {Exporting(<<cfg.folders[n]>>) \cup Exporting(cfg.folders[n].chats) :
                    n \in {n \in DOMAIN cfg.folders : ~cfg.folders[n].skip}})

-----------------------------------------------------------------------------
(* The catalog of chats. *)

Type(c) ==
  CASE Class[c] = "User" -> "personal"
    [] Class[c] = "Bot" -> "bot"
    [] Class[c] = "Chat" -> "private_group"
    [] Class[c] = "Channel" -> IF tg[c].public THEN "public_channel" ELSE "private_channel"
    [] Class[c] = "Megagroup" -> IF tg[c].public THEN "public_supergroup" ELSE "private_supergroup"

\* iter_dialogs(archived=...): a chat of a named folder is in the main list.
MainList == {c \in Chats : tg[c].dialog /\ (~tg[c].archived \/ \E i \in DOMAIN Folders : c \in peers[i])}
ArchiveList == {c \in Chats : tg[c].dialog /\ tg[c].archived}

Named == UNION {peers[i] : i \in DOMAIN Folders}

\* peer_to_folder: of several folders that list the chat, the last.
ListedIn(c) ==
  LET by == {i \in DOMAIN Folders : c \in peers[i]}
  IN IF by = {} THEN None ELSE Folders[Max(by)].name

FlagTypes == [
  groups     |-> {"private_group", "private_supergroup", "public_supergroup"},
  broadcasts |-> {"private_channel", "public_channel"},
  bots       |-> {"bot"}]

\* The address book, None when it could not be read.
AddressBooks == {Contacts, None}

\* It decides between contacts and others; without it a folder with either flag
\* takes every personal chat.
MatchesContactFlags(f, c, book) ==
  /\ Type(c) = "personal" /\ f.flags \cap {"contacts", "non_contacts"} # {}
  /\ book = None \/ (IF c \in book THEN "contacts" ELSE "non_contacts") \in f.flags

TakenByFlags(f, c, book) ==
  /\ c \notin f.exclude
  /\ \/ \E flag \in f.flags \cap DOMAIN FlagTypes : Type(c) \in FlagTypes[flag]
     \/ MatchesContactFlags(f, c, book)

\* A chat no folder lists goes to the first whose flags take it.
FolderOf(c, book) ==
  IF ListedIn(c) # None THEN ListedIn(c)
  ELSE LET f == First(Folders, LAMBDA g : TakenByFlags(g, c, book))
       IN IF f = None THEN None ELSE f.name

Entry(c, folder, left, archived) ==
  [id |-> c, name |-> tg[c].name, type |-> Type(c), folder |-> folder, left |-> left, archived |-> archived]

LeftChannels ==
  {c \in Chats : tg[c].left /\ Class[c] \in {"Channel", "Megagroup"}}

\* fetch_catalog: the main list, the chats that are in the archive alone, and
\* the channels that were left, which have no folder.
Catalog(book, left) ==
  {Entry(c, FolderOf(c, book), tg[c].left, FALSE) : c \in MainList}
  \cup {Entry(c, FolderOf(c, book), tg[c].left, TRUE) : c \in ArchiveList \ (MainList \cup Named)}
  \cup {Entry(c, None, TRUE, FALSE) : c \in left}

\* _select_chats: the limit of a chat that is exported, None otherwise.
Selected(cfg, e) ==
  IF (e.left /\ cfg.left = "skip") \/ (e.archived /\ cfg.archived = "skip") THEN None
  ELSE Resolve(cfg, e, e.left \/ e.archived)

-----------------------------------------------------------------------------
(* Directories. *)

DirName(name, id) == <<Sanitized[name], id>>

\* resolve_chat_dir
Dir(e) ==
  CASE e.left -> <<"left", DirName(e.name, e.id)>>
    [] ~e.left /\ e.archived -> <<"archived", DirName(e.name, e.id)>>
    [] ~e.left /\ ~e.archived ->
         IF e.folder # None THEN <<"folders", Sanitized[e.folder], DirName(e.name, e.id)>>
         ELSE <<"unfiled", DirName(e.name, e.id)>>

NameOf(d) == Last(d)
Owner(d) == Last(d)[2]

-----------------------------------------------------------------------------
(* tg-export run *)

Run == {"takeout", "catalog", "export", "chat", "index", "folders", "rendered"}
Purge == {"ask", "remove"}

Reset == takeout' = None /\ listed' = {} /\ todo' = {} /\ now' = None /\ target' = None /\ index' = {}

StartRun ==
  /\ step = "idle" /\ Readable(file) /\ step' = "takeout"
  /\ UNCHANGED <<world, file, cache, disk, takeout, listed, todo, now, target, strays>>

\* The run opens a takeout with the one limit of all its chats, or resumes that
\* of an earlier run, whatever its limit, or goes on without: AccountSession has
\* when it does which.
TakeoutForRun ==
  /\ step = "takeout" /\ step' = "catalog"
  /\ takeout' \in {MaxMediaFileSize(LoadConfig(file)), None}
  /\ UNCHANGED <<world, file, cache, disk, listed, todo, now, target, strays>>

\* The address book and the left channels are asked for if they are needed,
\* and done without if they cannot be had.
FetchAndSelect ==
  LET cfg == LoadConfig(file) IN
  /\ step = "catalog" /\ step' = "export"
  /\ \E book \in AddressBooks, left \in {LeftChannels, {}} :
       /\ cfg.left = "skip" => left = {}
       /\ listed' = Catalog(book, left)
  /\ todo' = {[chat |-> e, limit |-> Selected(cfg, e)] : e \in {e \in listed' : Selected(cfg, e) # None}}
  /\ UNCHANGED <<world, file, cache, disk, takeout, now, target, strays>>

CacheCatalog(x) ==
  /\ step = "export" /\ x \in todo /\ todo' = todo \ {x}
  /\ cache' = [cache EXCEPT ![x.chat.id] = x.chat.name]
  /\ now' = x /\ step' = "chat"
  /\ UNCHANGED <<world, file, disk, takeout, listed, target, strays>>

\* The chat is exported to its last page, or fails before it has a directory.
ExportChat ==
  /\ step = "chat" /\ step' = "export" /\ now' = None
  /\ \/ dirs' = dirs \cup {Dir(now.chat)} /\ strays' = strays \ {Dir(now.chat)}
     \/ UNCHANGED <<dirs, strays>>
  /\ UNCHANGED <<world, file, cache, index, takeout, listed, todo, target>>

\* _group_chats_for_index: who is on the index, and under which link.
Grouped == {e \in listed : Resolve(LoadConfig(file), e, FALSE) # None}

\* Mutant: the folder's own name in the link.
LinkUnsanitized(e) ==
  IF e.folder # None THEN <<"folders", e.folder, DirName(e.name, e.id)>>
  ELSE <<"unfiled", DirName(e.name, e.id)>>

Link(e) ==
  IF e.folder # None THEN <<"folders", Sanitized[e.folder], DirName(e.name, e.id)>>
  ELSE <<"unfiled", DirName(e.name, e.id)>>

OnPage(page, es) == {[page |-> page, href |-> Link(e)] : e \in es}

Without(page) == {l \in index : l.page # page}

RenderIndex ==
  /\ step = "export" /\ todo = {} /\ step' = "folders"
  /\ index' = Without(<<"index.html">>) \cup OnPage(<<"index.html">>, Grouped)
  /\ now' = {e.folder : e \in Grouped} \ {None}
  /\ UNCHANGED <<world, file, cache, dirs, takeout, listed, todo, target, strays>>

\* A folder's page lies in the directory of the folder, one page after the other.
RenderFolderIndex(f) ==
  LET page == <<"folders", Sanitized[f], "index.html">> IN
  /\ step = "folders" /\ f \in now /\ now' = now \ {f}
  /\ index' = Without(page) \cup OnPage(page, {e \in Grouped : e.folder = f})
  /\ UNCHANGED <<world, file, cache, dirs, step, takeout, listed, todo, target, strays>>

Rendered ==
  /\ step = "folders" /\ now = {} /\ step' = "rendered" /\ now' = None
  /\ UNCHANGED <<world, file, cache, disk, takeout, listed, todo, target, strays>>

\* The run ends: after its last step, or earlier by a signal, an error that
\* ends it or a kill.
EndRun ==
  /\ step \in Run /\ step' = "idle" /\ Reset
  /\ UNCHANGED <<world, file, cache, dirs, strays>>

-----------------------------------------------------------------------------
(* tg-export purge *)

\* Mutant: the chats outside of folders are looked for in one place.
CandidatesFiled(name, id) ==
  {d \in dirs : d[1] \in {"unfiled", "folders"} /\ NameOf(d) = DirName(name, id)}

\* Every place a chat may lie in is looked at for the directory of its name.
Candidates(name, id) ==
  {d \in dirs : d[1] \in {"unfiled", "left", "archived"} /\ NameOf(d) = DirName(name, id)}
  \cup {d \in dirs : d[1] = "folders" /\ NameOf(d) = DirName(name, id)}

Asks(id) ==
  /\ step = "idle" /\ Readable(file) /\ step' = "ask"
  /\ target' = [id |-> id, dirs |-> IF cache[id] = None THEN {} ELSE Candidates(cache[id], id)]
  /\ UNCHANGED <<world, file, cache, disk, takeout, listed, todo, now, strays>>

\* A chat is named by its id, or by a name only it has in catalog_cache.
PurgeById(id) == Asks(id)

PurgeByName(name) == \E id \in Chats : {c \in Chats : cache[c] = name} = {id} /\ Asks(id)

\* The rows go in one transaction.  Of a chat the database does not know there
\* is nothing to remove.  Directories of an older name stay.
PurgeRows ==
  /\ step = "ask" /\ cache[target.id] # None /\ step' = "remove"
  /\ cache' = [cache EXCEPT ![target.id] = None]
  /\ strays' = strays \cup {d \in dirs : Owner(d) = target.id /\ NameOf(d) # DirName(cache[target.id], target.id)}
  /\ UNCHANGED <<world, file, disk, takeout, listed, todo, now, target>>

RemoveDir(d) ==
  /\ step = "remove" /\ d \in target.dirs
  /\ dirs' = dirs \ {d}
  /\ target' = [target EXCEPT !.dirs = @ \ {d}]
  /\ UNCHANGED <<world, file, cache, index, step, takeout, listed, todo, now, strays>>

\* Declined, done, or cut short: by an error of rmtree, a signal or a kill.
EndPurge ==
  /\ step \in Purge /\ step' = "idle" /\ Reset
  /\ strays' = IF step = "remove" THEN strays \cup target.dirs ELSE strays
  /\ UNCHANGED <<world, file, cache, dirs>>

-----------------------------------------------------------------------------
(* What happens between the commands. *)

Change ==
  /\ step = "idle" /\ changes < MaxChanges /\ changes' = changes + 1
  /\ UNCHANGED <<file, cache, disk, command, strays>>

Becomes(c, new) == Change /\ tg' = [tg EXCEPT ![c] = new] /\ UNCHANGED peers

Rename(c, n) == n # tg[c].name /\ Becomes(c, [tg[c] EXCEPT !.name = n])

Archive(c) == tg[c].dialog /\ Becomes(c, [tg[c] EXCEPT !.archived = ~@])

Publish(c) ==
  Class[c] \in {"Channel", "Megagroup"} /\ Becomes(c, [tg[c] EXCEPT !.public = ~@])

\* A group or channel is left, its dialog deleted with it or not.
Leave(c) ==
  /\ Class[c] \notin {"User", "Bot"} /\ ~tg[c].left
  /\ \E kept \in BOOLEAN : Becomes(c, [tg[c] EXCEPT !.left = TRUE, !.dialog = kept])

Move(c, i) ==
  /\ Change /\ UNCHANGED tg
  /\ peers' = [peers EXCEPT ![i] = IF c \in @ THEN @ \ {c} ELSE @ \cup {c}]

Edit ==
  /\ step = "idle" /\ file' \in Files \ {file}
  /\ UNCHANGED <<world, cache, disk, command, strays>>

-----------------------------------------------------------------------------
Init ==
  /\ tg = [c \in Chats |-> [name |-> FirstName, public |-> FALSE, left |-> FALSE,
                          dialog |-> TRUE, archived |-> FALSE]]
  /\ peers = [i \in DOMAIN Folders |-> {}] /\ changes = 0
  /\ file \in Files
  /\ cache = [c \in Chats |-> None]
  /\ dirs = {} /\ index = {} /\ strays = {}
  /\ step = "idle" /\ takeout = None /\ listed = {} /\ todo = {} /\ now = None /\ target = None

RunStep ==
  \/ StartRun \/ TakeoutForRun \/ FetchAndSelect \/ ExportChat
  \/ RenderIndex \/ Rendered \/ EndRun
  \/ \E x \in todo : CacheCatalog(x)
  \/ \E f \in {Folders[i].name : i \in DOMAIN Folders} : RenderFolderIndex(f)

PurgeStep ==
  \/ (\E id \in Chats : PurgeById(id)) \/ (\E n \in Names : PurgeByName(n))
  \/ PurgeRows \/ EndPurge \/ \E d \in dirs : RemoveDir(d)

Between ==
  \/ \E c \in Chats : \/ Archive(c) \/ Publish(c) \/ Leave(c)
                        \/ (\E n \in Names : Rename(c, n))
                        \/ (\E i \in DOMAIN Folders : Move(c, i))
  \/ Edit

Next == RunStep \/ PurgeStep \/ Between

Spec == Init /\ [][Next]_vars

-----------------------------------------------------------------------------
\* The takeout a run opens does not cap a chat it exports
\* (config.py, max_media_file_size: the maximum "is the only value that does
\* not silently cap a chat the configuration says to download in full").
TakeoutCoversAll ==
  takeout # None =>
    \A e \in listed : LET limit == Selected(LoadConfig(file), e) IN
      limit # None => limit <= takeout

\* Wherever its moves have put a chat, a purge leaves none of its directories:
\* one that is on disk while no command works is of a chat the database knows,
\* unless it bears an older name or the purge was cut short.
PurgedWhereverItLies ==
  step = "idle" => \A d \in dirs : cache[Owner(d)] # None \/ d \in strays

\* Pages of a chat that the run exported and that is neither left nor archived
\* are reached from the main page, and from the page of their folder unless
\* another folder's page took its place (cli/export.py, _group_chats_for_index,
\* on a href to a path that does not exist).
IndexReachesPages ==
  step = "rendered" =>
    \A e \in listed :
      Selected(LoadConfig(file), e) # None /\ ~e.left /\ ~e.archived =>
        /\ [page |-> <<"index.html">>, href |-> Dir(e)] \in index
        /\ e.folder # None =>
             \/ [page |-> <<"folders", Sanitized[e.folder], "index.html">>, href |-> Dir(e)] \in index
             \/ \E o \in listed : o.folder \notin {None, e.folder} /\ Sanitized[o.folder] = Sanitized[e.folder]
=============================================================================
