--------------------------- MODULE ChatTreeProofs ---------------------------
(***************************************************************************)
(* Proofs about ChatTree, for any chats, names, folders and configuration  *)
(* files and without a bound on what happens between the commands: the     *)
(* limit of the takeout, what a purge leaves, and the links of the index.  *)
(***************************************************************************)
EXTENDS ChatTree, FiniteSetTheorems, WellFoundedInduction, TLAPS

-----------------------------------------------------------------------------
(* Smallest and largest numbers.                                           *)

\* A finite set of numbers has a smallest and a largest: take a smallest set
\* without them and remove a number from it.
LEMMA BoundsExist ==
  ASSUME NEW S, S \subseteq Nat, S # {}, IsFiniteSet(S)
  PROVE  /\ \E m \in S : \A x \in S : m <= x
         /\ \E m \in S : \A x \in S : x <= m
<1> DEFINE Bounded(T) == (\E m \in T : \A x \in T : m <= x) /\ (\E m \in T : \A x \in T : x <= m)
           Unbounded == {T \in FiniteSubsetsOf(S) : T # {} /\ ~Bounded(T)}
<1>1. SUFFICES ASSUME ~Bounded(S) PROVE FALSE
  OBVIOUS
<1>2. S \in Unbounded /\ Unbounded \subseteq FiniteSubsetsOf(S)
  BY <1>1 DEF FiniteSubsetsOf
<1>3. PICK T \in Unbounded : \A U \in Unbounded : ~(<<U, T>> \in StrictSubsetOrdering(S))
  <2> HIDE DEF Unbounded
  <2> QED BY <1>2, FS_StrictSubsetOrderingWellFounded, WFMin
<1>4. T \subseteq Nat /\ T \subseteq S /\ T # {} /\ ~Bounded(T) /\ IsFiniteSet(T)
  BY DEF FiniteSubsetsOf
<1>5. PICK x \in T : TRUE
  BY <1>4
<1>6. x \in Nat /\ IsFiniteSet(T \ {x})
  BY <1>4, FS_RemoveElement
<1>7. <<T \ {x}, T>> \in StrictSubsetOrdering(S)
  BY <1>4, <1>5 DEF StrictSubsetOrdering
<1>8. T \ {x} \notin Unbounded
  BY <1>3, <1>7
<1>9. T \ {x} = {} \/ Bounded(T \ {x})
  BY <1>4, <1>6, <1>8 DEF FiniteSubsetsOf
<1>10. CASE T \ {x} = {}
  <2>1. T = {x}
    BY <1>10
  <2> QED BY <1>4, <1>6, <2>1
<1>11. CASE Bounded(T \ {x})
  <2>1. PICK l \in T \ {x} : \A y \in T \ {x} : l <= y
    BY <1>11
  <2>2. PICK m \in T \ {x} : \A y \in T \ {x} : y <= m
    BY <1>11
  <2>3. l \in Nat /\ m \in Nat /\ \A y \in T : y \in Nat
    BY <1>4
  <2>4. \E k \in T : \A y \in T : k <= y
    BY <1>6, <2>1, <2>3
  <2>5. \E k \in T : \A y \in T : y <= k
    BY <1>6, <2>2, <2>3
  <2> QED BY <1>4, <2>4, <2>5
<1> QED BY <1>9, <1>10, <1>11

LEMMA MinIs ==
  ASSUME NEW S, S \subseteq Nat, S # {}, IsFiniteSet(S)
  PROVE  Min(S) \in S
<1>1. \E m \in S : \A x \in S : m <= x
  BY BoundsExist
<1> QED BY <1>1 DEF Min

LEMMA MaxIs ==
  ASSUME NEW S, S \subseteq Nat, S # {}, IsFiniteSet(S)
  PROVE  Max(S) \in S /\ \A x \in S : x <= Max(S)
<1>1. PICK m \in S : \A x \in S : x <= m
  BY BoundsExist
<1>2. \A x \in S : m >= x
  BY <1>1
<1>3. Max(S) \in S /\ \A x \in S : Max(S) >= x
  BY <1>2 DEF Max
<1> QED BY <1>3

\* What a function makes of a finite set is finite.
LEMMA ImageIsFinite ==
  ASSUME NEW f, IsFiniteSet(DOMAIN f)
  PROVE  IsFiniteSet({f[x] : x \in DOMAIN f})
<1> DEFINE T == {f[x] : x \in DOMAIN f}
           g == [x \in DOMAIN f |-> f[x]]
<1>1. g \in Surjection(DOMAIN f, T)
  BY DEF Surjection
<1> QED BY <1>1, FS_Surjection

-----------------------------------------------------------------------------
(* The configuration.                                                      *)

\* The rules of a list that set a size, set a number.
Sized(rules) ==
  /\ DOMAIN rules \subseteq Nat /\ IsFiniteSet(DOMAIN rules)
  /\ \A i \in DOMAIN rules : ~rules[i].skip => rules[i].limit \in Nat \cup {None}

\* A configuration that could be read.
Sound(cfg) ==
  /\ cfg.media \in Nat
  /\ Sized(cfg.chats) /\ Sized(cfg.types)
  /\ IsFiniteSet(DOMAIN cfg.folders)
  /\ \A n \in DOMAIN cfg.folders :
       /\ ~cfg.folders[n].skip => cfg.folders[n].limit \in Nat \cup {None}
       /\ Sized(cfg.folders[n].chats)

LEMMA MediaIs ==
  ASSUME NEW m \in Setting, m # Bad
  PROVE  Media(m) \in Nat \cup {None} /\ (m # Absent => Media(m) \in Nat)
BY TreeAssumption DEF Media, Setting

LEMMA ReadIsSound ==
  ASSUME NEW raw \in Files, Readable(raw)
  PROVE  Sound(LoadConfig(raw))
<1> DEFINE cfg == LoadConfig(raw)
<1>1. /\ raw.media \in Setting /\ raw.chats \in Seq(RawRule) /\ raw.types \in Seq(RawType)
      /\ IsFiniteSet(DOMAIN raw.folders)
      /\ \A n \in DOMAIN raw.folders : raw.folders[n] \in RawFolder
  BY FilesAreWritten
<1>2. /\ cfg.media = Media(IF raw.media = Absent THEN Unsized ELSE raw.media)
      /\ cfg.folders = [n \in DOMAIN raw.folders |-> FolderRule(raw.folders[n])]
      /\ cfg.types = [i \in DOMAIN raw.types |-> TypeRule(raw.types[i])]
      /\ cfg.chats = [i \in DOMAIN raw.chats |-> ChatRule(raw.chats[i])]
  BY DEF LoadConfig
<1> HIDE DEF cfg
<1>3. cfg.media \in Nat
  <2>1. raw.media # Bad /\ Unsized # Bad /\ Unsized # Absent
    BY TreeAssumption DEF Readable
  <2> QED BY <1>1, <1>2, <2>1, MediaIs DEF Setting
<1>4. ASSUME NEW rules \in Seq(RawRule), \A i \in DOMAIN rules : ReadableRule(rules[i])
      PROVE  Sized([i \in DOMAIN rules |-> ChatRule(rules[i])])
  <2>1. Len(rules) \in Nat /\ DOMAIN rules = 1 .. Len(rules) /\ IsFiniteSet(DOMAIN rules)
    BY FS_Interval
  <2>2. \A i \in DOMAIN rules : rules[i].media \in Setting /\ rules[i].media # Bad
    <3>1. \A i \in DOMAIN rules : rules[i] \in RawRule
      BY <2>1
    <3> QED BY <1>4, <3>1 DEF RawRule, ReadableRule
  <2>3. \A i \in DOMAIN rules : ChatRule(rules[i]).limit \in Nat \cup {None}
    BY <2>2, MediaIs DEF ChatRule
  <2> QED BY <2>1, <2>3 DEF Sized
<1>5. Sized(cfg.chats)
  BY <1>1, <1>2, <1>4 DEF Readable
<1>6. Sized(cfg.types)
  <2>1. /\ Len(raw.types) \in Nat /\ DOMAIN raw.types = 1 .. Len(raw.types)
        /\ IsFiniteSet(DOMAIN raw.types)
    BY <1>1, FS_Interval
  <2>2. \A i \in DOMAIN raw.types : raw.types[i].media \in Setting
    <3>1. \A i \in DOMAIN raw.types : raw.types[i] \in RawType
      BY <1>1, <2>1
    <3> QED BY <3>1 DEF RawType
  <2>3. \A i \in DOMAIN raw.types : raw.types[i].skip \/ raw.types[i].media # Bad
    BY DEF Readable
  <2>4. \A i \in DOMAIN raw.types : TypeRule(raw.types[i]).limit \in Nat \cup {None}
    BY <2>2, <2>3, MediaIs DEF TypeRule
  <2> QED BY <1>2, <2>1, <2>4 DEF Sized
<1>7. ASSUME NEW n \in DOMAIN raw.folders
      PROVE  /\ ~cfg.folders[n].skip => cfg.folders[n].limit \in Nat \cup {None}
             /\ Sized(cfg.folders[n].chats)
  <2> DEFINE r == raw.folders[n]
  <2>1. r \in RawFolder /\ ReadableFolder(r) /\ cfg.folders[n] = FolderRule(r)
    BY <1>1, <1>2 DEF Readable
  <2>2. CASE r.skip
    <3>1. FolderRule(r) = [limit |-> None, skip |-> TRUE, chats |-> <<>>]
      BY <2>2 DEF FolderRule
    <3>2. Sized(<<>>)
      BY FS_EmptySet DEF Sized
    <3> QED BY <2>1, <3>1, <3>2
  <2>3. CASE ~r.skip
    <3>1. /\ r.media \in Setting /\ r.media # Bad /\ r.chats \in Seq(RawRule)
          /\ \A i \in DOMAIN r.chats : ReadableRule(r.chats[i])
      BY <2>1, <2>3 DEF RawFolder, ReadableFolder
    <3>2. /\ FolderRule(r).limit = Media(r.media)
          /\ FolderRule(r).chats = [i \in DOMAIN r.chats |-> ChatRule(r.chats[i])]
      BY <2>3 DEF FolderRule
    <3> QED BY <1>4, <2>1, <3>1, <3>2, MediaIs
  <2> QED BY <2>2, <2>3
<1> QED BY <1>1, <1>2, <1>3, <1>5, <1>6, <1>7 DEF Sound, cfg

\* What the first fitting rule is, when there is one: a rule of the list.
LEMMA RuleForIs ==
  ASSUME NEW rules, NEW e, Sized(rules), RuleFor(rules, e) # None
  PROVE  RuleFor(rules, e) \in Range(rules)
<1> DEFINE fitting == {i \in DOMAIN rules : (rules[i].id # None /\ rules[i].id = e.id)
                                           \/ (rules[i].name # None /\ rules[i].name = e.name)}
<1>1. RuleFor(rules, e) = IF fitting = {} THEN None ELSE rules[Min(fitting)]
  BY DEF RuleFor, First
<1>2. fitting # {} => Min(fitting) \in fitting
  BY MinIs, FS_Subset DEF Sized
<1> QED BY <1>1, <1>2 DEF Range

LEMMA MatchTypeRuleIs ==
  ASSUME NEW cfg, NEW type, Sized(cfg.types), MatchTypeRule(cfg, type) # None
  PROVE  MatchTypeRule(cfg, type) \in Range(cfg.types)
<1> DEFINE rules == cfg.types
           exact == {i \in DOMAIN rules : rules[i].key = type}
           category == {i \in DOMAIN rules : /\ rules[i].key \in DOMAIN TypeCategories
                                             /\ type \in TypeCategories[rules[i].key]}
           one == IF exact = {} THEN None ELSE rules[Min(exact)]
           other == IF category = {} THEN None ELSE rules[Min(category)]
<1>1. MatchTypeRule(cfg, type) = IF one # None THEN one ELSE other
  BY DEF MatchTypeRule, First
<1>2. exact # {} => Min(exact) \in exact
  BY MinIs, FS_Subset DEF Sized
<1>3. category # {} => Min(category) \in category
  BY MinIs, FS_Subset DEF Sized
<1> QED BY <1>1, <1>2, <1>3 DEF Range

\* The sizes the takeout of a configuration is the largest of.
Sizes(cfg) ==
  {cfg.media} \cup Exporting(cfg.chats) \cup Exporting(cfg.types)
  \cup UNION {Exporting(<<cfg.folders[n]>>) \cup Exporting(cfg.folders[n].chats) :
                n \in {n \in DOMAIN cfg.folders : ~cfg.folders[n].skip}}

LEMMA ExportingIs ==
  ASSUME NEW rules, Sized(rules)
  PROVE  /\ Exporting(rules) \subseteq Nat /\ IsFiniteSet(Exporting(rules))
         /\ \A r \in Range(rules) : ~r.skip /\ r.limit # None => r.limit \in Exporting(rules)
<1> DEFINE D == {i \in DOMAIN rules : rules[i].limit # None /\ ~rules[i].skip}
           f == [i \in D |-> rules[i].limit]
<1>1. IsFiniteSet(D) /\ DOMAIN f = D
  BY FS_Subset DEF Sized
<1>2. Exporting(rules) = {f[i] : i \in DOMAIN f}
  <2>1. \A x : x \in Exporting(rules) <=> \E i \in DOMAIN f : x = f[i]
    BY <1>1 DEF Exporting, Range
  <2> HIDE DEF f
  <2> QED BY <2>1
<1>3. Exporting(rules) \subseteq Nat
  BY DEF Exporting, Range, Sized
<1>4. IsFiniteSet(Exporting(rules))
  <2> HIDE DEF f
  <2> QED BY <1>1, <1>2, ImageIsFinite
<1>5. \A r \in Range(rules) : ~r.skip /\ r.limit # None => r.limit \in Exporting(rules)
  BY DEF Exporting
<1> QED BY <1>3, <1>4, <1>5

\* The limit of the takeout is one of the sizes and none is above it.
LEMMA TakeoutIsLargest ==
  ASSUME NEW cfg, Sound(cfg)
  PROVE  \A x \in Sizes(cfg) : x \in Nat /\ MaxMediaFileSize(cfg) \in Nat /\ x <= MaxMediaFileSize(cfg)
<1> DEFINE N == {n \in DOMAIN cfg.folders : ~cfg.folders[n].skip}
           OfFolder(n) == Exporting(<<cfg.folders[n]>>) \cup Exporting(cfg.folders[n].chats)
           f == [n \in N |-> OfFolder(n)]
<1>1. ASSUME NEW n \in N
      PROVE  OfFolder(n) \subseteq Nat /\ IsFiniteSet(OfFolder(n))
  <2>1. Sized(cfg.folders[n].chats) /\ cfg.folders[n].limit \in Nat \cup {None} /\ ~cfg.folders[n].skip
    BY DEF Sound
  <2>2. Sized(<<cfg.folders[n]>>)
    <3>1. IsFiniteSet({1}) /\ {1} \subseteq Nat
      BY FS_Singleton
    <3>2. DOMAIN <<cfg.folders[n]>> = {1}
      OBVIOUS
    <3>3. \A i \in {1} : <<cfg.folders[n]>>[i] = cfg.folders[n]
      OBVIOUS
    <3> QED BY <2>1, <3>1, <3>2, <3>3 DEF Sized
  <2> QED BY <2>1, <2>2, ExportingIs, FS_Union
<1>2. IsFiniteSet({f[n] : n \in DOMAIN f}) /\ DOMAIN f = N
  <2>1. IsFiniteSet(N) /\ DOMAIN f = N
    BY FS_Subset DEF Sound
  <2> QED BY <2>1, ImageIsFinite
<1>3. \A n \in N : f[n] = OfFolder(n)
  OBVIOUS
<1>4. Sizes(cfg) = {cfg.media} \cup Exporting(cfg.chats) \cup Exporting(cfg.types)
                   \cup UNION {f[n] : n \in DOMAIN f}
  BY <1>2, <1>3 DEF Sizes
<1> HIDE DEF f
<1>5. IsFiniteSet(UNION {f[n] : n \in DOMAIN f}) /\ UNION {f[n] : n \in DOMAIN f} \subseteq Nat
  <2> HIDE DEF N, OfFolder
  <2> QED BY <1>1, <1>2, <1>3, FS_UNION
<1>6. Sized(cfg.chats) /\ Sized(cfg.types) /\ cfg.media \in Nat
  BY DEF Sound
<1>7. IsFiniteSet(Sizes(cfg)) /\ Sizes(cfg) \subseteq Nat /\ cfg.media \in Sizes(cfg)
  <2>1. /\ IsFiniteSet({cfg.media}) /\ IsFiniteSet(Exporting(cfg.chats)) /\ Exporting(cfg.chats) \subseteq Nat
        /\ IsFiniteSet(Exporting(cfg.types)) /\ Exporting(cfg.types) \subseteq Nat
    BY <1>6, ExportingIs, FS_Singleton
  <2>2. IsFiniteSet({cfg.media} \cup Exporting(cfg.chats) \cup Exporting(cfg.types))
    BY <2>1, FS_Union
  <2>3. IsFiniteSet(Sizes(cfg))
    <3> DEFINE A == {cfg.media} \cup Exporting(cfg.chats) \cup Exporting(cfg.types)
               B == UNION {f[n] : n \in DOMAIN f}
    <3>1. Sizes(cfg) = A \cup B /\ IsFiniteSet(A) /\ IsFiniteSet(B)
      BY <1>4, <1>5, <2>2
    <3> HIDE DEF A, B
    <3> QED BY <3>1, FS_Union
  <2>4. Sizes(cfg) \subseteq Nat /\ cfg.media \in Sizes(cfg)
    BY <1>4, <1>5, <1>6, <2>1
  <2> QED BY <2>3, <2>4
<1>8. MaxMediaFileSize(cfg) = Max(Sizes(cfg))
  BY DEF MaxMediaFileSize, Sizes
<1> QED BY <1>7, <1>8, MaxIs

LEMMA RuleLimitIsSize ==
  ASSUME NEW cfg, NEW rules, Sized(rules), NEW r \in Range(rules),
         Exporting(rules) \subseteq Sizes(cfg), RuleLimit(cfg, r) # None
  PROVE  RuleLimit(cfg, r) \in Sizes(cfg)
<1>1. cfg.media \in Sizes(cfg)
  BY DEF Sizes
<1> QED BY <1>1, ExportingIs DEF RuleLimit

\* Whatever rule decides, the limit of a chat is one of those sizes.
LEMMA FolderLimitIsSize ==
  ASSUME NEW cfg, Sound(cfg), NEW n \in DOMAIN cfg.folders, NEW e,
         FolderLimit(cfg, cfg.folders[n], e) # None
  PROVE  FolderLimit(cfg, cfg.folders[n], e) \in Sizes(cfg)
<1> DEFINE folder == cfg.folders[n]
           own == RuleFor(folder.chats, e)
           type == MatchTypeRule(cfg, e.type)
<1>1. ~folder.skip
  BY DEF FolderLimit
<1>2. /\ cfg.media \in Sizes(cfg) /\ Exporting(cfg.types) \subseteq Sizes(cfg)
      /\ Exporting(<<folder>>) \subseteq Sizes(cfg) /\ Exporting(folder.chats) \subseteq Sizes(cfg)
  BY <1>1 DEF Sizes
<1>3. Sized(cfg.types) /\ Sized(folder.chats)
  BY DEF Sound
<1>4. CASE own # None
  <2>1. FolderLimit(cfg, folder, e) = RuleLimit(cfg, own)
    BY <1>1, <1>4 DEF FolderLimit
  <2> QED BY <1>2, <1>3, <1>4, <2>1, RuleForIs, RuleLimitIsSize
<1>5. CASE own = None
  <2>1. CASE type # None /\ (type.skip \/ folder.limit = None)
    <3>1. FolderLimit(cfg, folder, e) = RuleLimit(cfg, type)
      BY <1>1, <1>5, <2>1 DEF FolderLimit
    <3> QED BY <1>2, <1>3, <2>1, <3>1, MatchTypeRuleIs, RuleLimitIsSize
  <2>2. CASE ~(type # None /\ (type.skip \/ folder.limit = None))
    <3>1. FolderLimit(cfg, folder, e) = IF folder.limit # None THEN folder.limit ELSE cfg.media
      BY <1>1, <1>5, <2>2 DEF FolderLimit
    <3>2. folder.limit # None => folder.limit \in Exporting(<<folder>>)
      <4>1. folder \in Range(<<folder>>)
        BY DEF Range
      <4> QED BY <1>1, <4>1 DEF Exporting
    <3> QED BY <1>2, <3>1, <3>2
  <2> QED BY <2>1, <2>2
<1> QED BY <1>4, <1>5

LEMMA LimitIsSize ==
  ASSUME NEW cfg, Sound(cfg), NEW e, Selected(cfg, e) # None
  PROVE  Selected(cfg, e) \in Sizes(cfg)
<1> DEFINE own == RuleFor(cfg.chats, e)
           type == MatchTypeRule(cfg, e.type)
           adm == e.left \/ e.archived
<1>1. Selected(cfg, e) = Resolve(cfg, e, adm)
  BY DEF Selected
<1>2. /\ cfg.media \in Sizes(cfg) /\ Exporting(cfg.types) \subseteq Sizes(cfg)
      /\ Exporting(cfg.chats) \subseteq Sizes(cfg) /\ Sized(cfg.types) /\ Sized(cfg.chats)
  BY DEF Sizes, Sound
<1>3. CASE own # None
  <2>1. Selected(cfg, e) = RuleLimit(cfg, own)
    BY <1>1, <1>3 DEF Resolve
  <2> QED BY <1>2, <1>3, <2>1, RuleForIs, RuleLimitIsSize
<1>4. CASE own = None /\ e.folder \in DOMAIN cfg.folders
  <2>1. Selected(cfg, e) = FolderLimit(cfg, cfg.folders[e.folder], e)
    BY <1>1, <1>4 DEF Resolve
  <2> QED BY <1>4, <2>1, FolderLimitIsSize
<1>5. CASE own = None /\ e.folder \notin DOMAIN cfg.folders /\ type # None
  <2>1. Selected(cfg, e) = RuleLimit(cfg, type)
    BY <1>1, <1>5 DEF Resolve
  <2> QED BY <1>2, <1>5, <2>1, MatchTypeRuleIs, RuleLimitIsSize
<1>6. CASE own = None /\ e.folder \notin DOMAIN cfg.folders /\ type = None
  <2>1. Selected(cfg, e) = cfg.media
    BY <1>1, <1>6 DEF Resolve
  <2> QED BY <1>2, <2>1
<1> QED BY <1>3, <1>4, <1>5, <1>6

-----------------------------------------------------------------------------
(* The takeout.                                                            *)

\* A run works with the file it read, and its takeout is that file's.
TakeoutOfFile ==
  /\ file \in Files
  /\ step \in Run \cup Purge \cup {"idle"}
  /\ step \in Run => Readable(file)
  /\ takeout # None => step \in Run /\ takeout = MaxMediaFileSize(LoadConfig(file))

LEMMA TakeoutStep == ASSUME TakeoutOfFile, [Next]_vars PROVE TakeoutOfFile'
<1> USE DEF TakeoutOfFile, Run, Purge
<1>1. CASE RunStep
  <2>1. CASE StartRun
    BY <2>1 DEF StartRun
  <2>2. CASE TakeoutForRun
    BY <2>2 DEF TakeoutForRun
  <2>3. CASE FetchAndSelect
    BY <2>3 DEF FetchAndSelect
  <2>4. CASE \E x \in todo : CacheCatalog(x)
    BY <2>4 DEF CacheCatalog
  <2>5. CASE ExportChat
    BY <2>5 DEF ExportChat
  <2>6. CASE RenderIndex
    BY <2>6 DEF RenderIndex
  <2>7. CASE \E f \in {Folders[i].name : i \in DOMAIN Folders} : RenderFolderIndex(f)
    BY <2>7 DEF RenderFolderIndex
  <2>8. CASE Rendered
    BY <2>8 DEF Rendered
  <2>9. CASE EndRun
    BY <2>9 DEF EndRun, Reset
  <2> QED BY <1>1, <2>1, <2>2, <2>3, <2>4, <2>5, <2>6, <2>7, <2>8, <2>9 DEF RunStep
<1>2. CASE PurgeStep
  <2>1. ASSUME NEW id \in Chats, Asks(id) PROVE TakeoutOfFile'
    BY <2>1 DEF Asks
  <2>2. CASE PurgeRows
    BY <2>2 DEF PurgeRows
  <2>3. CASE EndPurge
    BY <2>3 DEF EndPurge, Reset
  <2>4. CASE \E d \in dirs : RemoveDir(d)
    BY <2>4 DEF RemoveDir
  <2> QED BY <1>2, <2>1, <2>2, <2>3, <2>4 DEF PurgeStep, PurgeById, PurgeByName
<1>3. CASE Between
  <2>1. CASE Edit
    BY <2>1 DEF Edit, command
  <2>2. CASE Change
    BY <2>2 DEF Change, command
  <2> QED BY <1>3, <2>1, <2>2 DEF Between, Archive, Publish, Leave, Rename, Move, Becomes
<1>4. CASE UNCHANGED vars
  BY <1>4 DEF vars, command
<1> QED BY <1>1, <1>2, <1>3, <1>4 DEF Next

\* The takeout a run opens does not cap a chat it exports, whatever the
\* configuration and the rule that decides (config.py, max_media_file_size).
THEOREM TakeoutIsEnough == Spec => []TakeoutCoversAll
<1>1. Init => TakeoutOfFile
  BY DEF Init, TakeoutOfFile, Run, Purge
<1>2. TakeoutOfFile => TakeoutCoversAll
  <2> SUFFICES ASSUME TakeoutOfFile, takeout # None, NEW e \in listed,
                      Selected(LoadConfig(file), e) # None
               PROVE  Selected(LoadConfig(file), e) <= takeout
    BY DEF TakeoutCoversAll
  <2>1. Sound(LoadConfig(file)) /\ takeout = MaxMediaFileSize(LoadConfig(file))
    BY ReadIsSound DEF TakeoutOfFile
  <2>2. Selected(LoadConfig(file), e) \in Sizes(LoadConfig(file))
    BY <2>1, LimitIsSize
  <2> QED BY <2>1, <2>2, TakeoutIsLargest
<1> QED BY <1>1, <1>2, TakeoutStep, PTL DEF Spec

-----------------------------------------------------------------------------
(* The directories.                                                        *)

WorldTypes ==
  /\ tg \in [Chats -> [name : Names, public : BOOLEAN, left : BOOLEAN,
                       dialog : BOOLEAN, archived : BOOLEAN]]
  /\ cache \in [Chats -> Names \cup {None}]

\* A run works on chats of the catalog it fetched, and the chat it is at is
\* known to the database.
Known(e) ==
  e.id \in Chats /\ e.name \in Names /\ e.left \in BOOLEAN /\ e.archived \in BOOLEAN

Chosen ==
  /\ \A e \in listed : Known(e)
  /\ \A x \in todo : x.chat \in listed
  /\ step = "chat" => now.chat \in listed /\ cache[now.chat.id] # None

\* A directory is a chat's, in one of the places chats lie in.
Lying ==
  \A d \in dirs : d[1] \in {"unfiled", "left", "archived", "folders"} /\ Owner(d) \in Chats

\* What a purge is to remove is what bears the name of the chat.
Purging ==
  /\ step \in {"ask", "remove"} =>
       target.id \in Chats /\ target = [id |-> target.id, dirs |-> target.dirs]
  /\ step = "ask" /\ cache[target.id] # None =>
       target.dirs = Candidates(cache[target.id], target.id)

\* While a purge removes the directories of a chat without a row, they are all
\* among those it has to remove, but for those no purge can know of.
Recorded ==
  \A d \in dirs :
    \/ cache[Owner(d)] # None \/ d \in strays
    \/ step = "remove" /\ d \in target.dirs

DirsInv == WorldTypes /\ Chosen /\ Lying /\ Purging /\ Recorded

\* The directory of a chat is the chat's.
LEMMA DirIs ==
  ASSUME NEW e, Known(e)
  PROVE  /\ Dir(e)[1] \in {"unfiled", "left", "archived", "folders"}
         /\ Owner(Dir(e)) = e.id
<1>1. \A a, b : Last(<<a, b>>) = b
  BY DEF Last
<1>2. \A a, b, c : Last(<<a, b, c>>) = c
  BY DEF Last
<1>3. DirName(e.name, e.id)[2] = e.id
  BY DEF DirName
<1>4. CASE e.left
  <2>1. Dir(e) = <<"left", DirName(e.name, e.id)>>
    BY <1>4 DEF Dir
  <2> QED BY <1>1, <1>3, <2>1 DEF Owner
<1>5. CASE ~e.left /\ e.archived
  <2>1. Dir(e) = <<"archived", DirName(e.name, e.id)>>
    BY <1>5 DEF Dir
  <2> QED BY <1>1, <1>3, <2>1 DEF Owner
<1>6. CASE ~e.left /\ ~e.archived
  <2>1. Dir(e) = IF e.folder # None THEN <<"folders", Sanitized[e.folder], DirName(e.name, e.id)>>
                 ELSE <<"unfiled", DirName(e.name, e.id)>>
    BY <1>6 DEF Dir
  <2> QED BY <1>1, <1>2, <1>3, <2>1 DEF Owner
<1> QED BY <1>4, <1>5, <1>6 DEF Known

LEMMA CatalogKnown ==
  ASSUME WorldTypes, NEW book, NEW left \in SUBSET Chats
  PROVE  \A e \in Catalog(book, left) : Known(e)
<1>1. ASSUME NEW c \in Chats, NEW folder, NEW l \in BOOLEAN, NEW a \in BOOLEAN
      PROVE  Known(Entry(c, folder, l, a))
  BY DEF WorldTypes, Entry, Known
<1>2. MainList \subseteq Chats /\ ArchiveList \subseteq Chats /\ \A c \in Chats : tg[c].left \in BOOLEAN
  BY DEF MainList, ArchiveList, WorldTypes
<1> HIDE DEF WorldTypes
<1> QED BY <1>1, <1>2 DEF Catalog

LEMMA DirsInit == ASSUME Init PROVE DirsInv
<1>1. WorldTypes
  BY TreeAssumption DEF Init, WorldTypes
<1>2. Chosen /\ Lying /\ Purging /\ Recorded
  BY DEF Init, Chosen, Lying, Purging, Recorded
<1> QED BY <1>1, <1>2 DEF DirsInv

\* The steps of a run: it alone adds a directory, of a chat whose row it wrote.
LEMMA DirsRun == ASSUME DirsInv, RunStep PROVE DirsInv'
<1> USE DEF DirsInv
<1>1. CASE StartRun \/ TakeoutForRun \/ RenderIndex \/ Rendered \/ \E f : RenderFolderIndex(f)
  <2>1. UNCHANGED <<tg, cache, dirs, strays, listed, todo, target>>
    BY <1>1 DEF StartRun, TakeoutForRun, RenderIndex, Rendered, RenderFolderIndex, world, disk
  <2>2. step' \notin {"chat", "ask", "remove"} /\ step # "remove"
    BY <1>1 DEF StartRun, TakeoutForRun, RenderIndex, Rendered, RenderFolderIndex
  <2> QED BY <2>1, <2>2 DEF WorldTypes, Chosen, Known, Lying, Purging, Recorded
<1>2. CASE FetchAndSelect
  <2>1. UNCHANGED <<tg, cache, dirs, strays, target>> /\ step' = "export" /\ step # "remove"
    BY <1>2 DEF FetchAndSelect, world, disk
  <2>2. Chosen'
    <3>1. PICK book \in AddressBooks, left \in {LeftChannels, {}} : listed' = Catalog(book, left)
      BY <1>2 DEF FetchAndSelect
    <3>2. left \in SUBSET Chats
      BY <3>1 DEF LeftChannels
    <3>3. \A e \in listed' : Known(e)
      BY <3>1, <3>2, CatalogKnown
    <3>4. \A x \in todo' : x.chat \in listed'
      BY <1>2 DEF FetchAndSelect
    <3> QED BY <2>1, <3>3, <3>4 DEF Chosen, Known
  <2> QED BY <2>1, <2>2 DEF WorldTypes, Lying, Purging, Recorded
<1>3. CASE \E x \in todo : CacheCatalog(x)
  <2>1. PICK x \in todo : CacheCatalog(x)
    BY <1>3
  <2>2. /\ x.chat \in listed /\ Known(x.chat)
        /\ x.chat.id \in Chats /\ x.chat.name \in Names /\ x.chat.name # None
    BY <2>1, TreeAssumption DEF Chosen, Known
  <2>3. /\ UNCHANGED <<tg, dirs, strays, listed, target>> /\ todo' \subseteq todo
        /\ now' = x /\ step' = "chat" /\ step # "remove"
        /\ cache' = [cache EXCEPT ![x.chat.id] = x.chat.name]
    BY <2>1 DEF CacheCatalog, world, disk
  <2>4. WorldTypes' /\ \A c \in Chats : cache[c] # None => cache'[c] # None
    BY <2>2, <2>3 DEF WorldTypes
  <2>5. cache'[x.chat.id] # None
    BY <2>2, <2>3 DEF WorldTypes
  <2>6. Chosen'
    BY <2>2, <2>3, <2>5 DEF Chosen, Known
  <2>7. Lying' /\ Recorded'
    BY <2>3, <2>4 DEF Lying, Recorded
  <2> QED BY <2>3, <2>4, <2>6, <2>7 DEF Purging
<1>4. CASE ExportChat
  <2> DEFINE d == Dir(now.chat)
  <2>1. UNCHANGED <<tg, cache, listed, todo, target>> /\ step = "chat" /\ step' = "export"
    BY <1>4 DEF ExportChat, world
  <2>2. /\ d[1] \in {"unfiled", "left", "archived", "folders"}
        /\ Owner(d) \in Chats /\ cache[Owner(d)] # None
    <3>1. Known(now.chat) /\ cache[now.chat.id] # None
      BY <2>1 DEF Chosen
    <3> QED BY <3>1, DirIs DEF Known
  <2>3. (dirs' = dirs /\ strays' = strays) \/ (dirs' = dirs \cup {d} /\ strays' = strays \ {d})
    BY <1>4 DEF ExportChat
  <2> HIDE DEF d
  <2>4. WorldTypes' /\ Chosen' /\ Purging'
    BY <2>1 DEF WorldTypes, Chosen, Known, Purging
  <2>5. Lying'
    BY <2>2, <2>3 DEF Lying
  <2>6. Recorded'
    BY <2>1, <2>2, <2>3 DEF Recorded
  <2> QED BY <2>4, <2>5, <2>6
<1>5. CASE EndRun
  <2>1. /\ UNCHANGED <<tg, cache, dirs, strays>> /\ step' = "idle" /\ step # "remove"
        /\ listed' = {} /\ todo' = {}
    BY <1>5 DEF EndRun, Reset, world, Run
  <2> QED BY <2>1 DEF WorldTypes, Chosen, Lying, Purging, Recorded
<1> QED BY <1>1, <1>2, <1>3, <1>4, <1>5 DEF RunStep

\* The steps of a purge: what it takes the row of is either removed or stray.
LEMMA DirsPurge == ASSUME DirsInv, PurgeStep PROVE DirsInv'
<1> USE DEF DirsInv
<1>1. ASSUME NEW id \in Chats, Asks(id)
      PROVE  DirsInv'
  <2>1. /\ UNCHANGED <<tg, cache, dirs, strays, listed, todo>> /\ step' = "ask" /\ step = "idle"
        /\ target' = [id |-> id, dirs |-> IF cache[id] = None THEN {} ELSE Candidates(cache[id], id)]
    BY <1>1 DEF Asks, world, disk
  <2>2. Purging'
    BY <2>1 DEF Purging, Candidates
  <2> QED BY <2>1, <2>2 DEF WorldTypes, Chosen, Known, Lying, Recorded
<1>2. CASE PurgeRows
  <2> DEFINE id == target.id
             other == {d \in dirs : Owner(d) = id /\ NameOf(d) # DirName(cache[id], id)}
  <2>1. /\ UNCHANGED <<tg, dirs, listed, todo, target>> /\ step = "ask" /\ step' = "remove"
        /\ cache[id] # None /\ cache' = [cache EXCEPT ![id] = None] /\ strays' = strays \cup other
    BY <1>2 DEF PurgeRows, world, disk
  <2>2. id \in Chats /\ target.dirs = Candidates(cache[id], id)
    BY <2>1 DEF Purging
  <2>3. WorldTypes' /\ \A c \in Chats : cache'[c] = IF c = id THEN None ELSE cache[c]
    BY <2>1, <2>2 DEF WorldTypes
  <2>4. Chosen' /\ Lying' /\ Purging'
    BY <2>1 DEF Chosen, Known, Lying, Purging
  <2>5. Recorded'
    <3> SUFFICES ASSUME NEW d \in dirs, cache'[Owner(d)] = None, d \notin strays'
                 PROVE  d \in target.dirs
      BY <2>1 DEF Recorded
    <3>1. CASE Owner(d) = id
      <4>1. NameOf(d) = DirName(cache[id], id)
        BY <2>1, <3>1
      <4> QED BY <2>2, <4>1 DEF Candidates, Lying
    <3>2. CASE Owner(d) # id
      BY <2>1, <2>3, <3>2 DEF Lying, Recorded
    <3> QED BY <3>1, <3>2
  <2> QED BY <2>3, <2>4, <2>5
<1>3. CASE \E d \in dirs : RemoveDir(d)
  <2>1. PICK d \in dirs : RemoveDir(d)
    BY <1>3
  <2>2. /\ UNCHANGED <<tg, cache, strays, listed, todo, step>> /\ step = "remove" /\ dirs' = dirs \ {d}
        /\ target' = [target EXCEPT !.dirs = @ \ {d}]
    BY <2>1 DEF RemoveDir, world
  <2>3. /\ target'.id = target.id /\ target'.dirs = target.dirs \ {d}
        /\ target' = [id |-> target'.id, dirs |-> target'.dirs]
    BY <2>2 DEF Purging
  <2> QED BY <2>2, <2>3 DEF WorldTypes, Chosen, Known, Lying, Purging, Recorded
<1>4. CASE EndPurge
  <2>1. /\ UNCHANGED <<tg, cache, dirs>> /\ step' = "idle" /\ listed' = {} /\ todo' = {}
        /\ strays' = IF step = "remove" THEN strays \cup target.dirs ELSE strays
    BY <1>4 DEF EndPurge, Reset, world
  <2> QED BY <2>1 DEF WorldTypes, Chosen, Lying, Purging, Recorded
<1> QED BY <1>1, <1>2, <1>3, <1>4 DEF PurgeStep, PurgeById, PurgeByName

LEMMA DirsBetween == ASSUME DirsInv, Between \/ UNCHANGED vars PROVE DirsInv'
<1> USE DEF DirsInv
<1>1. UNCHANGED <<cache, dirs, strays, step, listed, todo, now, target>>
  BY DEF Between, Archive, Publish, Leave, Rename, Move, Becomes, Change, Edit, vars, disk, command
<1>2. tg' \in [Chats -> [name : Names, public : BOOLEAN, left : BOOLEAN,
                         dialog : BOOLEAN, archived : BOOLEAN]]
  <2> DEFINE Row == [name : Names, public : BOOLEAN, left : BOOLEAN,
                     dialog : BOOLEAN, archived : BOOLEAN]
  <2>1. ASSUME NEW c \in Chats, NEW new \in Row, Becomes(c, new)
        PROVE  tg' \in [Chats -> Row]
    <3>1. tg' = [tg EXCEPT ![c] = new]
      BY <2>1 DEF Becomes
    <3> HIDE DEF Row
    <3> QED BY <3>1 DEF WorldTypes, Row
  <2>2. \A c \in Chats : tg[c] \in Row
    BY DEF WorldTypes
  <2>3. ASSUME NEW c \in Chats, NEW n \in Names, Rename(c, n) PROVE tg' \in [Chats -> Row]
    BY <2>1, <2>2, <2>3 DEF Rename
  <2>4. ASSUME NEW c \in Chats, Archive(c) PROVE tg' \in [Chats -> Row]
    BY <2>1, <2>2, <2>4 DEF Archive
  <2>5. ASSUME NEW c \in Chats, Publish(c) PROVE tg' \in [Chats -> Row]
    BY <2>1, <2>2, <2>5 DEF Publish
  <2>6. ASSUME NEW c \in Chats, Leave(c) PROVE tg' \in [Chats -> Row]
    BY <2>1, <2>2, <2>6 DEF Leave
  <2>7. CASE tg' = tg
    BY <2>7 DEF WorldTypes
  <2> QED BY <2>3, <2>4, <2>5, <2>6, <2>7 DEF Between, Move, Edit, vars, world
<1>3. WorldTypes'
  BY <1>1, <1>2 DEF WorldTypes
<1>4. Chosen'
  BY <1>1 DEF Chosen, Known
<1>5. Lying'
  BY <1>1 DEF Lying
<1>6. Purging'
  BY <1>1 DEF Purging, Candidates
<1>7. Recorded'
  BY <1>1 DEF Recorded
<1> QED BY <1>3, <1>4, <1>5, <1>6, <1>7

LEMMA ReachableDirs == Spec => []DirsInv
<1>1. DirsInv /\ [Next]_vars => DirsInv'
  BY DirsRun, DirsPurge, DirsBetween DEF Next
<1> QED BY <1>1, DirsInit, PTL DEF Spec

\* Wherever its moves have put a chat, a purge leaves none of its directories
\* but those it cannot know of (cli/export.py, purge).
THEOREM PurgeFindsAll == Spec => []PurgedWhereverItLies
<1>1. DirsInv => PurgedWhereverItLies
  BY DEF DirsInv, Recorded, PurgedWhereverItLies
<1> QED BY <1>1, ReachableDirs, PTL

-----------------------------------------------------------------------------
(* The index.                                                              *)

MainPage == <<"index.html">>
FolderPage(f) == <<"folders", Sanitized[f], "index.html">>

Linked(e, page) == [page |-> page, href |-> Link(e)] \in index

\* The page of another folder of the index took the place of e's.
Replaced(e) ==
  \E o \in Grouped : o.folder \notin {None, e.folder} /\ Sanitized[o.folder] = Sanitized[e.folder]

\* While the pages of the folders are rendered, the main one has all its links
\* and the page of a folder has its own, is yet to come, or was replaced.
Indexed ==
  /\ step \in {"folders", "rendered"} =>
       \A e \in Grouped :
         /\ Linked(e, MainPage)
         /\ e.folder # None =>
              Linked(e, FolderPage(e.folder)) \/ Replaced(e) \/ (step = "folders" /\ e.folder \in now)
  /\ step = "folders" => now \subseteq {e.folder : e \in Grouped} \ {None}

LEMMA IndexStep == ASSUME Indexed, [Next]_vars PROVE Indexed'
<1>1. CASE RenderIndex
  <2>1. /\ UNCHANGED <<file, listed>> /\ step' = "folders"
        /\ index' = Without(MainPage) \cup OnPage(MainPage, Grouped)
        /\ now' = {e.folder : e \in Grouped} \ {None}
    BY <1>1 DEF RenderIndex, MainPage
  <2>2. Grouped' = Grouped
    BY <2>1 DEF Grouped
  <2>3. \A e \in Grouped : Linked(e, MainPage)'
    BY <2>1 DEF Linked, OnPage, Link, DirName
  <2>4. \A e \in Grouped : e.folder # None => e.folder \in now'
    BY <2>1
  <2> QED BY <2>1, <2>2, <2>3, <2>4 DEF Indexed
<1>2. ASSUME NEW f, RenderFolderIndex(f)
      PROVE  Indexed'
  <2>1. /\ UNCHANGED <<file, listed, step>> /\ step = "folders" /\ f \in now /\ now' = now \ {f}
        /\ index' = Without(FolderPage(f)) \cup OnPage(FolderPage(f), {e \in Grouped : e.folder = f})
    BY <1>2 DEF RenderFolderIndex, FolderPage
  <2>2. Grouped' = Grouped /\ \A e : Replaced(e)' = Replaced(e)
    BY <2>1 DEF Grouped, Replaced
  <2>3. \A e : Linked(e, MainPage) => Linked(e, MainPage)'
    <3>1. MainPage # FolderPage(f)
      BY DEF MainPage, FolderPage
    <3> QED BY <2>1, <3>1 DEF Linked, Without, Link
  <2>4. PICK o \in Grouped : o.folder = f /\ f # None
    BY <2>1 DEF Indexed
  <2>5. ASSUME NEW e \in Grouped, e.folder # None
        PROVE  Linked(e, FolderPage(e.folder))' \/ Replaced(e) \/ e.folder \in now'
    <3>1. CASE e.folder = f
      BY <2>1, <3>1 DEF Linked, OnPage, Link, DirName
    <3>2. CASE e.folder # f /\ Sanitized[e.folder] = Sanitized[f]
      BY <2>4, <2>5, <3>2 DEF Replaced
    <3>3. CASE e.folder # f /\ Sanitized[e.folder] # Sanitized[f]
      <4>1. FolderPage(e.folder) # FolderPage(f)
        BY <3>3 DEF FolderPage
      <4>2. Linked(e, FolderPage(e.folder)) => Linked(e, FolderPage(e.folder))'
        BY <2>1, <4>1 DEF Linked, Without, Link
      <4> QED BY <2>1, <2>5, <3>3, <4>2 DEF Indexed
    <3> QED BY <3>1, <3>2, <3>3
  <2> QED BY <2>1, <2>2, <2>3, <2>5 DEF Indexed
<1>3. CASE Rendered
  <2>1. UNCHANGED <<file, listed, index>> /\ step = "folders" /\ step' = "rendered" /\ now = {}
    BY <1>3 DEF Rendered, disk
  <2>2. /\ Grouped' = Grouped
        /\ \A e, page : Linked(e, page)' = Linked(e, page) /\ Replaced(e)' = Replaced(e)
    BY <2>1 DEF Grouped, Replaced, Linked
  <2> QED BY <2>1, <2>2 DEF Indexed
<1>4. CASE UNCHANGED vars
  <2>1. UNCHANGED <<file, listed, index, step, now>>
    BY <1>4 DEF vars, disk, command
  <2>2. /\ Grouped' = Grouped
        /\ \A e, page : Linked(e, page)' = Linked(e, page) /\ Replaced(e)' = Replaced(e)
    BY <2>1 DEF Grouped, Replaced, Linked
  <2> QED BY <2>1, <2>2 DEF Indexed
\* Every other step leads to where there is no index, or leaves a run where it is
\* not yet.
<1>5. CASE \/ StartRun \/ TakeoutForRun \/ FetchAndSelect \/ ExportChat \/ EndRun
           \/ \E x \in todo : CacheCatalog(x)
  <2>1. step' \notin {"folders", "rendered"}
    BY <1>5 DEF StartRun, TakeoutForRun, FetchAndSelect, ExportChat, EndRun, CacheCatalog
  <2> QED BY <2>1 DEF Indexed
<1>6. CASE PurgeStep
  <2>1. step' \notin {"folders", "rendered"}
    BY <1>6 DEF PurgeStep, PurgeById, PurgeByName, Asks, PurgeRows, EndPurge, RemoveDir
  <2> QED BY <2>1 DEF Indexed
<1>7. CASE Between
  <2>1. step' \notin {"folders", "rendered"}
    BY <1>7 DEF Between, Archive, Publish, Leave, Rename, Move, Becomes, Change, Edit, command
  <2> QED BY <2>1 DEF Indexed
<1> QED BY <1>1, <1>2, <1>3, <1>4, <1>5, <1>6, <1>7 DEF Next, RunStep

\* A chat the run exports where the index looks for it is on the index.
LEMMA ExportedIsGrouped ==
  ASSUME NEW e \in listed, Known(e), ~e.left, ~e.archived, Selected(LoadConfig(file), e) # None
  PROVE  e \in Grouped /\ Dir(e) = Link(e)
<1>1. (e.left \/ e.archived) = FALSE
  OBVIOUS
<1>2. Selected(LoadConfig(file), e) = Resolve(LoadConfig(file), e, FALSE)
  BY <1>1 DEF Selected
<1> QED BY <1>2 DEF Grouped, Dir, Link

\* The pages of a chat the run exported, neither left nor archived, are reached
\* from the main page and, unless another took its place, from the page of
\* their folder (cli/export.py, _render_index).
THEOREM IndexIsComplete == Spec => []IndexReachesPages
<1>1. Init => Indexed
  BY DEF Init, Indexed
<1>2. Spec => []Indexed
  BY <1>1, IndexStep, PTL DEF Spec
<1>3. ASSUME Indexed, DirsInv PROVE IndexReachesPages
  <2> SUFFICES ASSUME step = "rendered", NEW e \in listed,
                      Selected(LoadConfig(file), e) # None, ~e.left, ~e.archived
               PROVE  /\ [page |-> <<"index.html">>, href |-> Dir(e)] \in index
                      /\ e.folder # None =>
                           \/ [page |-> <<"folders", Sanitized[e.folder], "index.html">>,
                               href |-> Dir(e)] \in index
                           \/ \E o \in listed : /\ o.folder \notin {None, e.folder}
                                                /\ Sanitized[o.folder] = Sanitized[e.folder]
    BY DEF IndexReachesPages
  <2>1. e \in Grouped /\ Dir(e) = Link(e)
    BY <1>3, ExportedIsGrouped DEF DirsInv, Chosen
  <2>2. Linked(e, MainPage) /\ (e.folder # None => Linked(e, FolderPage(e.folder)) \/ Replaced(e))
    BY <1>3, <2>1 DEF Indexed
  <2>3. Grouped \subseteq listed
    BY DEF Grouped
  <2> QED BY <2>1, <2>2, <2>3 DEF Linked, Replaced, MainPage, FolderPage
<1> QED BY <1>2, <1>3, ReachableDirs, PTL

=============================================================================
