------------------------ MODULE ParallelUploadProofs ------------------------
(***************************************************************************)
(* Proofs about ParallelUpload, for any sizes, widths and number of        *)
(* failures: that every part that was read is in one place until the       *)
(* upload ends, that an upload that returns a handle has sent the whole    *)
(* file and counted every byte of it once, and that the pool keeps its     *)
(* books.  The sums over sets of parts are the folds of the library; what  *)
(* the proofs need of them is shown for any finite set and any weights.    *)
(***************************************************************************)
EXTENDS ParallelUpload, FiniteSetTheorems, SequenceTheorems, TLAPS

TaskType == [conn : Nat, answer : {"none", "ok", "bad"}]
ConnType == [load : Int, broken : BOOLEAN]

\* The parts, as the loop keeps them.
PartTypes ==
  /\ task \in [Parts -> TaskType \cup {None}]
  /\ retries \in [Parts -> Nat] /\ credit \in [Parts -> Nat]

PoolType == conns \in Seq(ConnType)

\* The loop runs over a file that could be cut, up to a part that is in it.
Cut ==
  /\ file \in Nat \ {0} /\ next \in Nat
  /\ pc \notin {"begin", "library", "refused", "failed"} => Size # None /\ next <= Total
  /\ exhausted /\ pc # "failed" => next = Total
  /\ pc \in {"begin", "library", "refused"} => ~exhausted /\ next = 0

\* While a part is read nothing takes the room it was read for.
RoomIsKept == pc = "reading" => Free # {}

\* What is counted, or about to be, is with the server.
AckedFirst ==
  \A p \in Parts :
    /\ credit[p] > 0 => p \in acked
    /\ task[p] # None => (task[p].answer = "ok" => p \in acked)

\* An upload that is done has sent each part, and counted it once.
AllSent ==
  pc = "done" =>
    Total <= MaxParts
      /\ \A p \in Parts : IF p < Total THEN p \in acked /\ credit[p] = 1 ELSE credit[p] = 0

IInv ==
  PartTypes /\ PoolType /\ Cut /\ RoomIsKept /\ PartsInOnePlace /\ AckedFirst /\ AllSent

-----------------------------------------------------------------------------
(* Numbers.                                                                *)

\* Every set of numbers has a least one.
LEMMA LeastNumber ==
  ASSUME NEW S \in SUBSET Nat, S # {}
  PROVE  Min(S) \in S /\ \A j \in S : Min(S) <= j
<1>1. PICK i \in S : \A j \in S : ~(<<j, i>> \in OpToRel(<, Nat))
  BY WFMin, NatLessThanWellFounded
<1>2. ASSUME NEW j \in S PROVE i <= j
  <2>1. i \in Nat /\ j \in Nat
    OBVIOUS
  <2>2. ~(j < i)
    BY <1>1, <2>1 DEF OpToRel
  <2> QED BY <2>1, <2>2
<1> QED BY <1>2 DEF Min

\* A file that can be cut is cut into no more parts than the server takes.
LEMMA SizeFits ==
  ASSUME Size # None
  PROVE  Size \in Nat \ {0} /\ Total <= MaxParts
<1> DEFINE fit == {i \in AllowedSizes(file) : PartCount(file, PartSizes[i]) <= MaxParts}
<1>1. fit # {} /\ Size = PartSizes[Min(fit)]
  BY DEF Size, ChoosePartSize
<1>2. DOMAIN PartSizes = 1 .. Len(PartSizes) /\ Len(PartSizes) \in Nat \ {0}
      /\ \A i \in DOMAIN PartSizes : PartSizes[i] \in Nat \ {0}
  BY UploadAssumption
<1>3. AllowedSizes(file) \subseteq DOMAIN PartSizes
  BY <1>2 DEF AllowedSizes
<1>4. fit \in SUBSET Nat
  BY <1>2, <1>3
<1> HIDE DEF fit
<1>5. Min(fit) \in fit
  BY <1>1, <1>4, LeastNumber
<1>6. Min(fit) \in DOMAIN PartSizes /\ PartCount(file, PartSizes[Min(fit)]) <= MaxParts
  BY <1>3, <1>5 DEF fit
<1> QED BY <1>1, <1>2, <1>6 DEF Total

LEMMA TotalIsNumber ==
  ASSUME Size # None, file \in Nat \ {0}
  PROVE  Total \in Nat
<1>1. Size \in Nat \ {0}
  BY SizeFits
<1>2. ASSUME NEW a \in Nat, NEW b \in Nat \ {0} PROVE a \div b \in Nat
  BY <1>2
<1>3. file + Size - 1 \in Nat
  BY <1>1
<1> HIDE DEF Size
<1> QED BY <1>1, <1>2, <1>3 DEF Total, PartCount

LEMMA BytesAreNumbers ==
  ASSUME Size # None, file \in Nat \ {0}, NEW p \in Parts
  PROVE  Bytes(p) \in Int
<1>1. Size \in Nat \ {0} /\ Total \in Nat
  BY SizeFits, TotalIsNumber
<1>2. p \in Nat
  BY UploadAssumption DEF Parts
<1>3. p * Size \in Int
  BY <1>1, <1>2
<1> HIDE DEF Size, Total
<1> QED BY <1>1, <1>2, <1>3 DEF Bytes

LEMMA PartsAreFinite == IsFiniteSet(Parts)
BY FS_Interval, UploadAssumption DEF Parts

-----------------------------------------------------------------------------
(* Sums.                                                                   *)

Picked(s) == CHOOSE x \in s : TRUE

\* The sum of the weights of a set, and the fold that computes it.
WeightSum(w, S) == MapThenSumSet(LAMBDA p : w[p], S)
Added(w, it, s) == IF s = {} THEN 0 ELSE w[Picked(s)] + it[s \ {Picked(s)}]
Adds(w, S, it) == it = [s \in SUBSET S |-> Added(w, it, s)]
Adder(w, S) == CHOOSE it : Adds(w, S, it)

LEMMA SumIsAdder == ASSUME NEW w, NEW S PROVE WeightSum(w, S) = Adder(w, S)[S]
BY DEF WeightSum, MapThenSumSet, MapThenFoldSet, Adder, Adds, Added, Picked

\* Among finite sets there is a smallest.
LEMMA SmallestSet ==
  ASSUME NEW C, C # {}, \A s \in C : IsFiniteSet(s)
  PROVE  \E s \in C : \A t \in C : Cardinality(s) <= Cardinality(t)
<1> DEFINE sizes == {Cardinality(s) : s \in C}
<1>1. sizes \in SUBSET Nat /\ sizes # {}
  BY FS_CardinalityType
<1> HIDE DEF sizes
<1>2. Min(sizes) \in sizes /\ \A n \in sizes : Min(sizes) <= n
  BY <1>1, LeastNumber
<1> QED BY <1>2 DEF sizes

\* A set without one of its members is finite and smaller.
LEMMA OneLess ==
  ASSUME NEW S, IsFiniteSet(S), NEW x \in S
  PROVE  /\ IsFiniteSet(S \ {x}) /\ Cardinality(S \ {x}) \in Nat
         /\ Cardinality(S) = Cardinality(S \ {x}) + 1
<1>1. IsFiniteSet(S \ {x}) /\ x \notin S \ {x} /\ (S \ {x}) \cup {x} = S
  BY FS_Subset
<1> QED BY <1>1, FS_AddElement, FS_CardinalityType

LEMMA PickedIsIn == ASSUME NEW s, s # {} PROVE Picked(s) \in s
BY DEF Picked

\* The fold is defined on every subset of a finite set: for those of at most n
\* members by what it is on those of at most n - 1.
LEMMA AdderExists ==
  ASSUME NEW w, NEW S, IsFiniteSet(S)
  PROVE  \E it : Adds(w, S, it)
<1> DEFINE Stage(n) == {s \in SUBSET S : Cardinality(s) <= n}
           Defined(n) == \E it : it = [s \in Stage(n) |-> Added(w, it, s)]
           bad == {n \in Nat : ~Defined(n)}
<1>0. \A s \in SUBSET S : IsFiniteSet(s) /\ Cardinality(s) \in Nat
  BY FS_Subset, FS_CardinalityType
<1>1. Defined(0)
  <2> DEFINE f == [s \in Stage(0) |-> 0]
  <2>1. \A s \in Stage(0) : s = {}
    BY <1>0, FS_EmptySet
  <2>2. f = [s \in Stage(0) |-> Added(w, f, s)]
    BY <2>1 DEF Added
  <2> QED BY <2>2
<1>2. ASSUME NEW n \in Nat, Defined(n) PROVE Defined(n + 1)
  <2>1. PICK g : g = [s \in Stage(n) |-> Added(w, g, s)]
    BY <1>2
  <2> DEFINE f == [s \in Stage(n + 1) |-> Added(w, g, s)]
  <2>2. ASSUME NEW s \in Stage(n + 1), s # {}
        PROVE  f[s \ {Picked(s)}] = g[s \ {Picked(s)}]
    <3>1. s \ {Picked(s)} \in SUBSET S /\ Cardinality(s) = Cardinality(s \ {Picked(s)}) + 1
          /\ Cardinality(s \ {Picked(s)}) \in Nat
      BY <1>0, <2>2, PickedIsIn, OneLess
    <3>2. s \ {Picked(s)} \in Stage(n) /\ s \ {Picked(s)} \in Stage(n + 1)
      BY <3>1
    <3> HIDE DEF Stage
    <3> QED BY <2>1, <3>2
  <2> HIDE DEF Stage
  <2>3. ASSUME NEW s \in Stage(n + 1) PROVE Added(w, g, s) = Added(w, f, s)
    BY <2>2, <2>3 DEF Added
  <2>4. f = [s \in Stage(n + 1) |-> Added(w, f, s)]
    BY <2>3
  <2> QED BY <2>4
<1> HIDE DEF Defined
<1>3. bad = {}
  <2> SUFFICES ASSUME bad # {} PROVE FALSE
    OBVIOUS
  <2>1. Min(bad) \in bad /\ \A n \in bad : Min(bad) <= n
    BY LeastNumber
  <2>2. Min(bad) \in Nat /\ ~Defined(Min(bad))
    BY <2>1
  <2>3. Min(bad) - 1 \in Nat
    BY <1>1, <2>2
  <2>4. Defined(Min(bad) - 1)
    BY <2>1, <2>3
  <2>5. Defined((Min(bad) - 1) + 1)
    BY <1>2, <2>3, <2>4
  <2> QED BY <2>2, <2>5
<1>4. Defined(Cardinality(S))
  BY <1>3, FS_CardinalityType
<1>5. Stage(Cardinality(S)) = SUBSET S
  BY <1>0, FS_Subset, FS_CardinalityType
<1> QED BY <1>4, <1>5 DEF Defined, Adds

LEMMA AddsAt ==
  ASSUME NEW w, NEW S, NEW it, Adds(w, S, it), NEW s \in SUBSET S
  PROVE  it[s] = Added(w, it, s)
BY DEF Adds

LEMMA AdderAdds ==
  ASSUME NEW w, NEW S, IsFiniteSet(S)
  PROVE  /\ Adds(w, S, Adder(w, S))
         /\ \A s \in SUBSET S : Adder(w, S)[s] = Added(w, Adder(w, S), s)
<1>1. Adds(w, S, Adder(w, S))
  BY AdderExists DEF Adder
<1> QED BY <1>1, AddsAt

\* Two folds agree where they are defined and their weights do.
LEMMA SameSums ==
  ASSUME NEW w, NEW v, NEW S, NEW T, NEW f, NEW g, Adds(w, S, f), Adds(v, T, g),
         NEW U, IsFiniteSet(U), U \subseteq S, U \subseteq T,
         \A p \in U : w[p] = v[p]
  PROVE  f[U] = g[U]
<1> DEFINE bad == {s \in SUBSET U : f[s] # g[s]}
<1> SUFFICES ASSUME bad # {} PROVE FALSE
  OBVIOUS
<1>1. \A s \in bad : IsFiniteSet(s)
  BY FS_Subset
<1>2. PICK s \in bad : \A t \in bad : Cardinality(s) <= Cardinality(t)
  BY <1>1, SmallestSet
<1>3. f[s] = Added(w, f, s) /\ g[s] = Added(v, g, s)
  BY AddsAt
<1>4. s # {}
  BY <1>3 DEF Added
<1> DEFINE t == s \ {Picked(s)}
<1>5. Picked(s) \in s /\ IsFiniteSet(s)
  BY <1>1, <1>4, PickedIsIn
<1>6. Cardinality(s) = Cardinality(t) + 1 /\ Cardinality(t) \in Nat
  BY <1>5, OneLess
<1>7. t \in SUBSET U /\ ~(Cardinality(s) <= Cardinality(t))
  BY <1>6
<1>8. f[t] = g[t]
  BY <1>2, <1>7
<1> HIDE DEF bad
<1>9. f[s] = w[Picked(s)] + f[t] /\ g[s] = v[Picked(s)] + g[t]
  BY <1>3, <1>4 DEF Added
<1>10. f[s] = g[s]
  BY <1>5, <1>8, <1>9 DEF bad
<1> QED BY <1>10 DEF bad

LEMMA EmptySum == ASSUME NEW w PROVE WeightSum(w, {}) = 0
<1>1. Adder(w, {})[{}] = Added(w, Adder(w, {}), {})
  BY AdderAdds, FS_EmptySet
<1> QED BY <1>1, SumIsAdder DEF Added

LEMMA PickedSum ==
  ASSUME NEW w, NEW S, IsFiniteSet(S), S # {}
  PROVE  WeightSum(w, S) = w[Picked(S)] + WeightSum(w, S \ {Picked(S)})
<1> DEFINE T == S \ {Picked(S)}
<1>1. Adder(w, S)[S] = w[Picked(S)] + Adder(w, S)[T]
  BY AdderAdds DEF Added
<1>2. IsFiniteSet(T) /\ T \subseteq S
  BY FS_Subset
<1> HIDE DEF T
<1>3. Adder(w, S)[T] = Adder(w, T)[T]
  BY <1>2, AdderAdds, SameSums
<1> QED BY <1>1, <1>3, SumIsAdder DEF T

LEMMA SumIsNumber ==
  ASSUME NEW w, NEW S, IsFiniteSet(S), \A p \in S : w[p] \in Nat
  PROVE  WeightSum(w, S) \in Nat
<1> DEFINE bad == {s \in SUBSET S : WeightSum(w, s) \notin Nat}
<1> SUFFICES ASSUME bad # {} PROVE FALSE
  OBVIOUS
<1>1. \A s \in bad : IsFiniteSet(s)
  BY FS_Subset
<1>2. PICK s \in bad : \A t \in bad : Cardinality(s) <= Cardinality(t)
  BY <1>1, SmallestSet
<1>3. s # {}
  BY EmptySum
<1>4. Picked(s) \in s /\ IsFiniteSet(s)
  BY <1>1, <1>3, PickedIsIn
<1>5. Cardinality(s) = Cardinality(s \ {Picked(s)}) + 1 /\ Cardinality(s \ {Picked(s)}) \in Nat
  BY <1>4, OneLess
<1>6. s \ {Picked(s)} \in SUBSET S /\ ~(Cardinality(s) <= Cardinality(s \ {Picked(s)}))
  BY <1>5
<1>7. WeightSum(w, s \ {Picked(s)}) \in Nat
  BY <1>2, <1>6
<1>8. WeightSum(w, s) = w[Picked(s)] + WeightSum(w, s \ {Picked(s)})
  BY <1>3, <1>4, PickedSum
<1> QED BY <1>4, <1>7, <1>8

\* A sum is the weight of any one member and the sum of the others.
LEMMA SumSplits ==
  ASSUME NEW w, NEW S, IsFiniteSet(S), \A p \in S : w[p] \in Nat, NEW x \in S
  PROVE  WeightSum(w, S) = w[x] + WeightSum(w, S \ {x})
<1> DEFINE Splits(s) == \A y \in s : WeightSum(w, s) = w[y] + WeightSum(w, s \ {y})
           bad == {s \in SUBSET S : ~Splits(s)}
<1> SUFFICES ASSUME bad # {} PROVE FALSE
  OBVIOUS
<1>1. \A s \in bad : IsFiniteSet(s)
  BY FS_Subset
<1>2. PICK s \in bad : \A t \in bad : Cardinality(s) <= Cardinality(t)
  BY <1>1, SmallestSet
<1>3. PICK y \in s : WeightSum(w, s) # w[y] + WeightSum(w, s \ {y})
  OBVIOUS
<1> DEFINE x0 == Picked(s)
<1>4. x0 \in s /\ IsFiniteSet(s)
  BY <1>1, PickedIsIn
<1>5. ASSUME NEW z \in s PROVE Splits(s \ {z})
  <2>1. Cardinality(s) = Cardinality(s \ {z}) + 1 /\ Cardinality(s \ {z}) \in Nat
    BY <1>4, OneLess
  <2>2. s \ {z} \in SUBSET S /\ ~(Cardinality(s) <= Cardinality(s \ {z}))
    BY <2>1
  <2> HIDE DEF Splits
  <2> QED BY <1>2, <2>2
<1>6. WeightSum(w, s) = w[x0] + WeightSum(w, s \ {x0})
  BY <1>4, PickedSum
<1>7. x0 # y
  BY <1>3, <1>6
<1>8. WeightSum(w, s \ {x0}) = w[y] + WeightSum(w, (s \ {x0}) \ {y})
      /\ WeightSum(w, s \ {y}) = w[x0] + WeightSum(w, (s \ {y}) \ {x0})
  BY <1>4, <1>5, <1>7
<1> DEFINE rest == (s \ {x0}) \ {y}
<1>9. (s \ {y}) \ {x0} = rest /\ IsFiniteSet(rest) /\ rest \subseteq S
  BY <1>4, FS_Subset
<1>10. WeightSum(w, rest) \in Nat /\ w[x0] \in Nat /\ w[y] \in Nat
  BY <1>4, <1>9, SumIsNumber
<1>11. /\ WeightSum(w, s) = w[x0] + (w[y] + WeightSum(w, rest))
       /\ w[y] + WeightSum(w, s \ {y}) = w[y] + (w[x0] + WeightSum(w, rest))
  BY <1>6, <1>8, <1>9
<1>12. \A a, b, c \in Nat : a + (b + c) = b + (a + c)
  OBVIOUS
<1> QED BY <1>3, <1>10, <1>11, <1>12

-----------------------------------------------------------------------------
(* The bytes of the parts.                                                 *)

Weights == [p \in Parts |-> Bytes(p)]

\* Sum is the sum of the bytes of a set of parts.
LEMMA SumOfBytes == ASSUME NEW ps \in SUBSET Parts PROVE Sum(ps) = WeightSum(Weights, ps)
<1> DEFINE AddsBytes(it) ==
             it = [s \in SUBSET ps |->
                     IF s = {} THEN 0 ELSE Bytes(Picked(s)) + it[s \ {Picked(s)}]]
<1>1. Sum(ps) = (CHOOSE it : AddsBytes(it))[ps]
  BY DEF Sum, MapThenSumSet, MapThenFoldSet, Picked
<1>2. ASSUME NEW it PROVE AddsBytes(it) <=> Adds(Weights, ps, it)
  <2>1. ASSUME NEW s \in SUBSET ps
        PROVE  Added(Weights, it, s) = IF s = {} THEN 0 ELSE Bytes(Picked(s)) + it[s \ {Picked(s)}]
    BY PickedIsIn DEF Added, Weights
  <2> QED BY <2>1 DEF Adds
<1>3. IsFiniteSet(ps)
  BY PartsAreFinite, FS_Subset
<1> HIDE DEF AddsBytes
<1>4. \E it : AddsBytes(it)
  BY <1>2, <1>3, AdderExists
<1>5. AddsBytes(CHOOSE it : AddsBytes(it))
  BY <1>4
<1>6. PICK f : f = (CHOOSE it : AddsBytes(it)) /\ Adds(Weights, ps, f)
  BY <1>2, <1>5
<1>7. f[ps] = Adder(Weights, ps)[ps]
  BY <1>3, <1>6, AdderAdds, SameSums
<1> QED BY <1>1, <1>6, <1>7, SumIsAdder

\* The progress counts every part as often as it was added to it.
LEMMA SentIsSum ==
  SentBytes = WeightSum([p \in Parts |-> credit[p] * Bytes(p)], Parts)
<1> DEFINE w == [p \in Parts |-> credit[p] * Bytes(p)]
           AddsBytes(it) ==
             it = [s \in SUBSET Parts |->
                     IF s = {} THEN 0
                     ELSE credit[Picked(s)] * Bytes(Picked(s)) + it[s \ {Picked(s)}]]
<1>1. SentBytes = (CHOOSE it : AddsBytes(it))[Parts]
  BY DEF SentBytes, MapThenSumSet, MapThenFoldSet, Picked
<1>2. ASSUME NEW it PROVE AddsBytes(it) <=> Adds(w, Parts, it)
  <2>1. ASSUME NEW s \in SUBSET Parts
        PROVE  Added(w, it, s) = IF s = {} THEN 0
                                 ELSE credit[Picked(s)] * Bytes(Picked(s)) + it[s \ {Picked(s)}]
    BY PickedIsIn DEF Added
  <2> QED BY <2>1 DEF Adds
<1> HIDE DEF AddsBytes, w
<1>4. \E it : AddsBytes(it)
  BY <1>2, PartsAreFinite, AdderExists
<1>5. AddsBytes(CHOOSE it : AddsBytes(it))
  BY <1>4
<1>6. PICK f : f = (CHOOSE it : AddsBytes(it)) /\ Adds(w, Parts, f)
  BY <1>2, <1>5
<1>7. f[Parts] = Adder(w, Parts)[Parts]
  BY <1>6, PartsAreFinite, AdderAdds, SameSums
<1>8. SentBytes = WeightSum(w, Parts)
  BY <1>1, <1>6, <1>7, SumIsAdder
<1> QED BY <1>8 DEF w

LEMMA Division ==
  ASSUME NEW a \in Nat, NEW b \in Nat \ {0}
  PROVE  /\ a \div b \in Nat
         /\ (a \div b) * b <= a /\ a < (a \div b) * b + b
OBVIOUS

\* The parts cover the file: all but the last are full, and the last is not
\* empty.
LEMMA PartsCoverFile ==
  ASSUME Size # None, file \in Nat \ {0}
  PROVE  /\ Size \in Nat \ {0} /\ Total \in Nat \ {0}
         /\ (Total - 1) * Size < file /\ file <= (Total - 1) * Size + Size
<1>1. Size \in Nat \ {0}
  BY SizeFits
<1>2. \A f, s \in Nat \ {0} :
        LET t == (f + s - 1) \div s
        IN  t \in Nat \ {0} /\ (t - 1) * s < f /\ f <= (t - 1) * s + s
  <2> SUFFICES ASSUME NEW f \in Nat \ {0}, NEW s \in Nat \ {0}
               PROVE  LET t == (f + s - 1) \div s
                      IN  t \in Nat \ {0} /\ (t - 1) * s < f /\ f <= (t - 1) * s + s
    OBVIOUS
  <2> DEFINE t == (f + s - 1) \div s
  <2>1. t \in Nat /\ t * s <= f + s - 1 /\ f + s - 1 < t * s + s
    BY Division
  <2> HIDE DEF t
  <2>2. t # 0
    BY <2>1
  <2>3. (t - 1) * s = t * s - s
    BY <2>1
  <2> QED BY <2>1, <2>2, <2>3 DEF t
<1> QED BY <1>1, <1>2 DEF Total, PartCount

LEMMA BytesFit ==
  ASSUME Size # None, file \in Nat \ {0}, NEW p \in Parts, p < Total
  PROVE  Bytes(p) \in Nat \ {0} /\ Bytes(p) <= Size /\ Weights[p] = Bytes(p)
<1>1. p \in Nat /\ Size \in Nat \ {0} /\ Total \in Nat
  BY PartsCoverFile, UploadAssumption DEF Parts
<1>2. p = Total - 1 => p * Size < file /\ file <= p * Size + Size
  BY PartsCoverFile
<1>3. p * Size \in Nat
  BY <1>1
<1> QED BY <1>1, <1>2, <1>3 DEF Bytes, Weights

\* The first n parts of the file hold n times the size of a part, and once all
\* are in, the file.
LEMMA SumOfFirst ==
  ASSUME Size # None, file \in Nat \ {0}, NEW w,
         \A p \in Parts : w[p] = IF p < Total THEN Bytes(p) ELSE 0
  PROVE  WeightSum(w, Parts) = file
<1> DEFINE Upto(n) == IF n < Total THEN n * Size ELSE file
           Right(n) == WeightSum(w, 0 .. n - 1) = Upto(n)
           bad == {n \in 0 .. MaxParts : ~Right(n)}
<1>1. /\ Size \in Nat \ {0} /\ Total \in Nat \ {0} /\ Total <= MaxParts /\ MaxParts \in Nat
      /\ file \in Nat
  BY PartsCoverFile, SizeFits, UploadAssumption
<1>2. Right(0)
  <2>1. 0 .. 0 - 1 = {} /\ 0 * Size = 0 /\ 0 < Total
    BY <1>1
  <2> QED BY <2>1, EmptySum
<1>3. ASSUME NEW n \in 0 .. MaxParts - 1, Right(n) PROVE Right(n + 1)
  <2>1. n \in Parts /\ n \in Nat
    BY <1>1, UploadAssumption DEF Parts
  <2>2. \A p \in 0 .. n : w[p] \in Nat
    BY <1>1, <2>1, BytesFit DEF Parts
  <2>3. 0 .. (n + 1) - 1 = 0 .. n /\ (0 .. n) \ {n} = 0 .. n - 1 /\ n \in 0 .. n
    BY <2>1
  <2>7. IsFiniteSet(0 .. n)
    BY <2>1, FS_Interval
  <2>4. WeightSum(w, 0 .. n) = w[n] + WeightSum(w, 0 .. n - 1)
    BY <2>2, <2>3, <2>7, SumSplits
  <2>5. WeightSum(w, 0 .. (n + 1) - 1) = w[n] + Upto(n)
    BY <1>3, <2>3, <2>4
  <2>6. w[n] + Upto(n) = Upto(n + 1)
    <3>1. (n + 1) * Size = n * Size + Size /\ n * Size \in Nat
      BY <1>1, <2>1
    <3>2. CASE n < Total - 1
      <4>1. w[n] = Size /\ n < Total /\ n + 1 < Total
        BY <1>1, <2>1, <3>2 DEF Bytes
      <4> QED BY <1>1, <3>1, <4>1
    <3>3. CASE n = Total - 1
      <4>1. w[n] = file - n * Size /\ n < Total /\ ~(n + 1 < Total)
        BY <1>1, <2>1, <3>3 DEF Bytes
      <4> QED BY <1>1, <3>1, <4>1
    <3>4. CASE n >= Total
      <4>1. w[n] = 0 /\ ~(n < Total) /\ ~(n + 1 < Total)
        BY <1>1, <2>1, <3>4
      <4> QED BY <1>1, <4>1
    <3> QED BY <1>1, <2>1, <3>2, <3>3, <3>4
  <2> QED BY <2>5, <2>6
<1> HIDE DEF Right
<1>4. bad = {}
  <2> SUFFICES ASSUME bad # {} PROVE FALSE
    OBVIOUS
  <2>1. bad \in SUBSET Nat
    OBVIOUS
  <2>2. Min(bad) \in bad /\ \A n \in bad : Min(bad) <= n
    BY <2>1, LeastNumber
  <2>3. Min(bad) \in 0 .. MaxParts /\ ~Right(Min(bad))
    BY <2>2
  <2>4. Min(bad) - 1 \in 0 .. MaxParts - 1
    BY <1>1, <1>2, <2>3
  <2>5. Right(Min(bad) - 1)
    <3>1. Min(bad) - 1 \in 0 .. MaxParts /\ ~(Min(bad) <= Min(bad) - 1)
      <4>1. \A m \in Nat : m - 1 \in 0 .. MaxParts - 1
                             => m - 1 \in 0 .. MaxParts /\ ~(m <= m - 1)
        BY <1>1
      <4>2. Min(bad) \in Nat
        BY <2>3
      <4> QED BY <2>4, <4>1, <4>2
    <3> HIDE DEF bad
    <3>2. Min(bad) - 1 \notin bad
      BY <2>2, <3>1
    <3> QED BY <3>1, <3>2 DEF bad
  <2>6. Right((Min(bad) - 1) + 1)
    BY <1>3, <2>4, <2>5
  <2>7. (Min(bad) - 1) + 1 = Min(bad)
    BY <2>3
  <2> QED BY <2>3, <2>6, <2>7
<1>5. Right(MaxParts)
  BY <1>1, <1>4
<1> QED BY <1>1, <1>5 DEF Right, Parts

-----------------------------------------------------------------------------
(* The pool and the parts.                                                 *)

LEMMA ExceptKeeps ==
  ASSUME NEW S, NEW s \in Seq(S), NEW i, NEW e, i \in DOMAIN s => e \in S
  PROVE  [s EXCEPT ![i] = e] \in Seq(S)
<1>1. DOMAIN s = 1 .. Len(s)
  BY LenProperties
<1>2. CASE i \in DOMAIN s
  BY <1>1, <1>2, ExceptSeq
<1>3. CASE i \notin DOMAIN s
  <2>1. [s EXCEPT ![i] = e] = s
    BY <1>1, <1>3
  <2> QED BY <2>1
<1> QED BY <1>2, <1>3

\* The load of a connection goes up and down by the bytes of a part.
LEMMA LoadMoves ==
  ASSUME PoolType, NEW i, NEW b \in Int
  PROVE  /\ [conns EXCEPT ![i].load = @ + b] \in Seq(ConnType)
         /\ [conns EXCEPT ![i].load = @ - b] \in Seq(ConnType)
         /\ [conns EXCEPT ![i].load = 0] \in Seq(ConnType)
<1>1. i \in DOMAIN conns => conns[i] \in ConnType
  BY LenProperties, ElementOfSeq DEF PoolType
<1>2. i \in DOMAIN conns => /\ [conns[i] EXCEPT !.load = conns[i].load + b] \in ConnType
                            /\ [conns[i] EXCEPT !.load = conns[i].load - b] \in ConnType
                            /\ [conns[i] EXCEPT !.load = 0] \in ConnType
  BY <1>1 DEF ConnType
<1> QED BY <1>2, ExceptKeeps DEF PoolType

\* A connection with room is one of the pool.
LEMMA FreeIsNumber == PoolType /\ Free # {} => Min(Free) \in Nat
<1> SUFFICES ASSUME PoolType, Free # {} PROVE Min(Free) \in Nat
  OBVIOUS
<1>1. Free \in SUBSET Nat
  BY LenProperties DEF PoolType, Free, Indices
<1> QED BY <1>1, LeastNumber

LEMMA TheTasks == \A t \in TaskType : t # None /\ t.conn \in Nat /\ t.answer \in {"none", "ok", "bad"}
BY UploadAssumption DEF TaskType

LEMMA SameFile == file' = file => Size' = Size /\ Total' = Total
BY DEF Size, Total

LEMMA SameRoom == UNCHANGED <<file, conns>> => Free' = Free
BY DEF Free, HasRoom, Indices, Size

LEMMA Kept ==
  /\ UNCHANGED <<task, retries, credit>> => PartTypes' = PartTypes
  /\ UNCHANGED <<conns>> => PoolType' = PoolType
  /\ UNCHANGED <<file, next, exhausted, pc>> => Cut' = Cut
  /\ UNCHANGED <<pc, conns, file>> => RoomIsKept' = RoomIsKept
  /\ UNCHANGED <<pc, task, retries, credit, next>> => PartsInOnePlace' = PartsInOnePlace
  /\ UNCHANGED <<task, credit, acked>> => AckedFirst' = AckedFirst
  /\ UNCHANGED <<pc, file, credit, acked>> => AllSent' = AllSent
BY DEF PartTypes, PoolType, Cut, RoomIsKept, PartsInOnePlace, AckedFirst,
   AllSent, Size, Total,
       Free, HasRoom, Indices, Ends, Places

-----------------------------------------------------------------------------
(* The other steps: what each of them disturbs.                            *)

LEMMA BeginStep ==
  ASSUME IInv, Begin
  PROVE  IInv'
<1>1. PartTypes' /\ PoolType' /\ AckedFirst'
  BY Kept DEF IInv, Begin, work
<1>2. Cut'
  <2>1. UNCHANGED source /\ pc = "begin"
    BY DEF Begin
  <2>2. Size' = Size /\ Total' = Total
    BY <2>1, SameFile DEF source
  <2>3. pc' \in {"library", "refused", "resize"} /\ (pc' = "resize" => Size # None)
    <3>1. file \in Nat /\ BigFrom \in Nat
      BY UploadAssumption DEF IInv, Cut
    <3>2. file <= BigFrom \/ file > BigFrom
      BY <3>1
    <3> QED BY <3>2 DEF Begin
  <2>4. file \in Nat \ {0} /\ next = 0 /\ ~exhausted
    BY <2>1 DEF IInv, Cut
  <2>5. Size # None => 0 <= Total
    BY <2>4, TotalIsNumber
  <2> QED BY <2>1, <2>2, <2>3, <2>4, <2>5 DEF Cut, source
<1>3. RoomIsKept'
  BY DEF Begin, RoomIsKept
<1>4. PartsInOnePlace'
  BY DEF IInv, Begin, source, work, PartsInOnePlace, Ends, Places
<1>5. AllSent'
  BY DEF Begin, AllSent
<1> QED BY <1>1, <1>2, <1>3, <1>4, <1>5 DEF IInv

LEMMA WaitOutThePauseStep ==
  ASSUME IInv, WaitOutThePause
  PROVE  IInv'
<1>1. PartTypes' /\ PoolType' /\ AckedFirst'
  BY Kept DEF IInv, WaitOutThePause, work
<1>2. Cut'
  <2>1. UNCHANGED source /\ pc' \notin {"begin", "library", "refused", "failed"}
        /\ pc \notin {"begin", "library", "refused", "failed"}
    BY DEF WaitOutThePause
  <2>2. Size' = Size /\ Total' = Total
    BY <2>1, SameFile DEF source
  <2> QED BY <2>1, <2>2 DEF IInv, Cut, source
<1>3. RoomIsKept'
  BY DEF WaitOutThePause, RoomIsKept
<1>4. PartsInOnePlace'
  BY DEF IInv, WaitOutThePause, source, work, PartsInOnePlace, Ends, Places
<1>5. AllSent'
  BY DEF WaitOutThePause, AllSent
<1> QED BY <1>1, <1>2, <1>3, <1>4, <1>5 DEF IInv

LEMMA SendAgainStep ==
  ASSUME IInv, SendAgain
  PROVE  IInv'
<1>1. Cut' /\ AllSent'
  BY Kept DEF IInv, SendAgain, source
<1>2. PartTypes'
  <2>1. Size # None /\ file \in Nat \ {0}
    BY DEF SendAgain, IInv, Cut
  <2>2. Min(Free) \in Nat
    BY FreeIsNumber DEF SendAgain, IInv
  <2>3. PICK p \in Parts : retries[p] > 0 /\ Send(Min(Free), p) /\ retries' = [retries EXCEPT ![p] = @ - 1]
    BY DEF SendAgain
  <2>4. [conn |-> Min(Free), answer |-> "none"] \in TaskType
    BY <2>2 DEF TaskType
  <2>5. task' = [task EXCEPT ![p] = [conn |-> Min(Free), answer |-> "none"]] /\ credit' = credit
    BY <2>3 DEF Send, SendAgain
  <2> DEFINE sent == [conn |-> Min(Free), answer |-> "none"]
  <2> HIDE DEF sent
  <2>6. task' \in [Parts -> TaskType \cup {None}]
    BY <2>4, <2>5 DEF IInv, PartTypes
  <2>7. retries[p] - 1 \in Nat
    BY <2>3 DEF IInv, PartTypes
  <2>8. retries' \in [Parts -> Nat]
    BY <2>3, <2>7 DEF IInv, PartTypes
  <2> QED BY <2>5, <2>6, <2>8 DEF IInv, PartTypes
<1>3. PoolType'
  <2>1. Size # None /\ file \in Nat \ {0}
    BY DEF SendAgain, IInv, Cut
  <2>2. Min(Free) \in Nat
    BY FreeIsNumber DEF SendAgain, IInv
  <2>3. PICK p \in Parts : retries[p] > 0 /\ Send(Min(Free), p) /\ retries' = [retries EXCEPT ![p] = @ - 1]
    BY DEF SendAgain
  <2>4. [conn |-> Min(Free), answer |-> "none"] \in TaskType
    BY <2>2 DEF TaskType
  <2>5. task' = [task EXCEPT ![p] = [conn |-> Min(Free), answer |-> "none"]] /\ credit' = credit
    BY <2>3 DEF Send, SendAgain
  <2> DEFINE sent == [conn |-> Min(Free), answer |-> "none"]
  <2> HIDE DEF sent
  <2>6. conns' = [conns EXCEPT ![Min(Free)].load = @ + Bytes(p)]
    BY <2>3 DEF Send
  <2> QED BY <2>1, <2>6, BytesAreNumbers, LoadMoves DEF IInv, PoolType
<1>4. RoomIsKept'
  BY DEF SendAgain, RoomIsKept
<1>5. PartsInOnePlace'
  <2>1. Size # None /\ file \in Nat \ {0}
    BY DEF SendAgain, IInv, Cut
  <2>2. Min(Free) \in Nat
    BY FreeIsNumber DEF SendAgain, IInv
  <2>3. PICK p \in Parts : retries[p] > 0 /\ Send(Min(Free), p) /\ retries' = [retries EXCEPT ![p] = @ - 1]
    BY DEF SendAgain
  <2>4. [conn |-> Min(Free), answer |-> "none"] \in TaskType
    BY <2>2 DEF TaskType
  <2>5. task' = [task EXCEPT ![p] = [conn |-> Min(Free), answer |-> "none"]] /\ credit' = credit
    BY <2>3 DEF Send, SendAgain
  <2> DEFINE sent == [conn |-> Min(Free), answer |-> "none"]
  <2> HIDE DEF sent
  <2>6. pc = "fill" /\ UNCHANGED <<pc, next>>
    BY DEF SendAgain, source
  <2>7. \A q \in Parts : Places(q) = IF q < next THEN 1 ELSE 0
    BY <2>6 DEF IInv, PartsInOnePlace, Ends
  <2>8. \A q \in Parts \ {p} : Places(q)' = Places(q)
    BY <2>3, <2>5 DEF Places, IInv, PartTypes
  <2>9. task[p] = None
    BY <2>3, <2>7 DEF Places, IInv, PartTypes
  <2>10. task'[p] # None /\ retries'[p] = retries[p] - 1 /\ credit'[p] = credit[p]
    BY <2>3, <2>4, <2>5, TheTasks DEF IInv, PartTypes
  <2>11. Places(p)' = Places(p)
    BY <2>9, <2>10 DEF Places, IInv, PartTypes
  <2> QED BY <2>6, <2>7, <2>8, <2>11 DEF PartsInOnePlace
<1>6. AckedFirst'
  BY DEF IInv, SendAgain, Send, AckedFirst
<1> QED BY <1>1, <1>2, <1>3, <1>4, <1>5, <1>6 DEF IInv

LEMMA ReadStep ==
  ASSUME IInv, Read
  PROVE  IInv'
<1>1. PartTypes' /\ PoolType' /\ AckedFirst'
  BY Kept DEF IInv, Read, work
<1>2. Cut'
  <2>1. UNCHANGED source /\ pc' \notin {"begin", "library", "refused", "failed"}
        /\ pc \notin {"begin", "library", "refused", "failed"}
    BY DEF Read
  <2>2. Size' = Size /\ Total' = Total
    BY <2>1, SameFile DEF source
  <2> QED BY <2>1, <2>2 DEF IInv, Cut, source
<1>3. RoomIsKept'
  <2>1. Free # {} /\ UNCHANGED <<file, conns>>
    BY DEF Read, source
  <2> QED BY <2>1, SameRoom DEF RoomIsKept
<1>4. PartsInOnePlace'
  BY DEF IInv, Read, source, work, PartsInOnePlace, Ends, Places
<1>5. AllSent'
  BY DEF Read, AllSent
<1> QED BY <1>1, <1>2, <1>3, <1>4, <1>5 DEF IInv

LEMMA SendNextStep ==
  ASSUME IInv, SendNext
  PROVE  IInv'
<1>1. PartTypes'
  <2>1. Size # None /\ file \in Nat \ {0}
    BY DEF SendNext, IInv, Cut
  <2>2. Min(Free) \in Nat
    BY FreeIsNumber DEF SendNext, IInv, RoomIsKept
  <2>3. PICK p \in Parts : p = next
    <3>1. next < Total /\ Total <= MaxParts /\ Total \in Nat /\ next \in Nat
      BY <2>1, SizeFits, TotalIsNumber DEF SendNext, IInv, Cut
    <3> QED BY <3>1, UploadAssumption DEF Parts
  <2>4. [conn |-> Min(Free), answer |-> "none"] \in TaskType
    BY <2>2 DEF TaskType
  <2>5. task' = [task EXCEPT ![p] = [conn |-> Min(Free), answer |-> "none"]]
        /\ next' = p + 1 /\ UNCHANGED <<retries, credit>>
    BY <2>3 DEF Send, SendNext
  <2>6. task' \in [Parts -> TaskType \cup {None}]
    BY <2>4, <2>5 DEF IInv, PartTypes
  <2> QED BY <2>5, <2>6 DEF IInv, PartTypes
<1>2. PoolType'
  <2>1. Size # None /\ file \in Nat \ {0}
    BY DEF SendNext, IInv, Cut
  <2>2. Min(Free) \in Nat
    BY FreeIsNumber DEF SendNext, IInv, RoomIsKept
  <2>3. PICK p \in Parts : p = next
    <3>1. next < Total /\ Total <= MaxParts /\ Total \in Nat /\ next \in Nat
      BY <2>1, SizeFits, TotalIsNumber DEF SendNext, IInv, Cut
    <3> QED BY <3>1, UploadAssumption DEF Parts
  <2>4. [conn |-> Min(Free), answer |-> "none"] \in TaskType
    BY <2>2 DEF TaskType
  <2>5. task' = [task EXCEPT ![p] = [conn |-> Min(Free), answer |-> "none"]]
        /\ next' = p + 1 /\ UNCHANGED <<retries, credit>>
    BY <2>3 DEF Send, SendNext
  <2>6. conns' = [conns EXCEPT ![Min(Free)].load = @ + Bytes(p)]
    BY <2>3 DEF Send, SendNext
  <2> QED BY <2>1, <2>3, <2>6, BytesAreNumbers, LoadMoves DEF IInv, PoolType
<1>3. Cut'
  <2>1. Size # None /\ file \in Nat \ {0} /\ next \in Nat /\ next < Total
    BY DEF SendNext, IInv, Cut
  <2>2. Total \in Nat
    BY <2>1, TotalIsNumber
  <2>3. /\ pc' = "fill" /\ next' = next + 1 /\ UNCHANGED <<file, exhausted>>
        /\ pc = "reading"
    BY DEF SendNext
  <2>4. ~exhausted
    BY <2>1, <2>2, <2>3 DEF IInv, Cut
  <2>5. Size' = Size /\ Total' = Total
    BY <2>3, SameFile
  <2>6. next + 1 \in Nat /\ next + 1 <= Total
    BY <2>1, <2>2
  <2> QED BY <2>1, <2>3, <2>4, <2>5, <2>6 DEF Cut
<1>4. RoomIsKept'
  BY DEF SendNext, RoomIsKept
<1>5. PartsInOnePlace'
  <2>1. Size # None /\ file \in Nat \ {0}
    BY DEF SendNext, IInv, Cut
  <2>2. Min(Free) \in Nat
    BY FreeIsNumber DEF SendNext, IInv, RoomIsKept
  <2>3. PICK p \in Parts : p = next
    <3>1. next < Total /\ Total <= MaxParts /\ Total \in Nat /\ next \in Nat
      BY <2>1, SizeFits, TotalIsNumber DEF SendNext, IInv, Cut
    <3> QED BY <3>1, UploadAssumption DEF Parts
  <2>4. [conn |-> Min(Free), answer |-> "none"] \in TaskType
    BY <2>2 DEF TaskType
  <2>5. task' = [task EXCEPT ![p] = [conn |-> Min(Free), answer |-> "none"]]
        /\ next' = p + 1 /\ UNCHANGED <<retries, credit>>
    BY <2>3 DEF Send, SendNext
  <2>6. pc = "reading" /\ pc' = "fill" /\ p \in Nat
    BY <2>3 DEF SendNext, IInv, Cut
  <2>7. \A q \in Parts : Places(q) = IF q < p THEN 1 ELSE 0
    BY <2>3, <2>6 DEF IInv, PartsInOnePlace, Ends
  <2>8. \A q \in Parts \ {p} : Places(q)' = Places(q)
    BY <2>5 DEF Places, IInv, PartTypes
  <2>9. task[p] = None /\ retries[p] = 0 /\ credit[p] = 0
    <3>1. Places(p) = 0
      BY <2>6, <2>7
    <3> QED BY <3>1 DEF Places, IInv, PartTypes
  <2>10. task'[p] # None
    BY <2>4, <2>5, TheTasks DEF IInv, PartTypes
  <2>11. Places(p)' = 1
    BY <2>5, <2>9, <2>10 DEF Places
  <2>12. ASSUME NEW q \in Parts PROVE Places(q)' = IF q < p + 1 THEN 1 ELSE 0
    <3>1. q \in Nat
      BY UploadAssumption DEF Parts
    <3>2. CASE q = p
      BY <2>6, <2>11, <3>2
    <3>3. CASE q # p
      <4>1. q < p + 1 <=> q < p
        BY <2>6, <3>1, <3>3
      <4> QED BY <2>7, <2>8, <3>3, <4>1
    <3> QED BY <3>2, <3>3
  <2> QED BY <2>5, <2>12 DEF PartsInOnePlace
<1>6. AckedFirst'
  BY DEF IInv, SendNext, Send, AckedFirst
<1>7. AllSent'
  BY DEF SendNext, AllSent
<1> QED BY <1>1, <1>2, <1>3, <1>4, <1>5, <1>6, <1>7 DEF IInv

LEMMA ReadOutStep ==
  ASSUME IInv, ReadOut
  PROVE  IInv'
<1>1. PartTypes' /\ PoolType' /\ AckedFirst'
  BY Kept DEF IInv, ReadOut, work
<1>2. Cut'
  <2>1. UNCHANGED <<file, next>> /\ pc = "reading" /\ pc' = "wait" /\ next = Total
    BY DEF ReadOut
  <2>2. Size' = Size /\ Total' = Total
    BY <2>1, SameFile
  <2> QED BY <2>1, <2>2 DEF IInv, Cut
<1>3. RoomIsKept'
  BY DEF ReadOut, RoomIsKept
<1>4. PartsInOnePlace'
  BY DEF IInv, ReadOut, work, PartsInOnePlace, Ends, Places
<1>5. AllSent'
  BY DEF ReadOut, AllSent
<1> QED BY <1>1, <1>2, <1>3, <1>4, <1>5 DEF IInv

LEMMA FilledStep ==
  ASSUME IInv, Filled
  PROVE  IInv'
<1>1. PartTypes' /\ PoolType' /\ AckedFirst'
  BY Kept DEF IInv, Filled, work
<1>2. Cut'
  <2>1. UNCHANGED source /\ pc' \notin {"begin", "library", "refused", "failed"}
        /\ pc \notin {"begin", "library", "refused", "failed"}
    BY DEF Filled
  <2>2. Size' = Size /\ Total' = Total
    BY <2>1, SameFile DEF source
  <2> QED BY <2>1, <2>2 DEF IInv, Cut, source
<1>3. RoomIsKept'
  BY DEF Filled, RoomIsKept
<1>4. PartsInOnePlace'
  BY DEF IInv, Filled, source, work, PartsInOnePlace, Ends, Places
<1>5. AllSent'
  BY DEF Filled, AllSent
<1> QED BY <1>1, <1>2, <1>3, <1>4, <1>5 DEF IInv

LEMMA GoRoundStep ==
  ASSUME IInv, GoRound
  PROVE  IInv'
<1>1. PartTypes' /\ AckedFirst'
  BY Kept DEF IInv, GoRound, work
<1>2. PoolType'
  BY DEF IInv, GoRound, PoolType
<1>3. Cut'
  <2>1. UNCHANGED source /\ pc' \notin {"begin", "library", "refused", "failed"}
        /\ pc \notin {"begin", "library", "refused", "failed"}
    BY DEF GoRound
  <2>2. Size' = Size /\ Total' = Total
    BY <2>1, SameFile DEF source
  <2> QED BY <2>1, <2>2 DEF IInv, Cut, source
<1>4. RoomIsKept'
  BY DEF GoRound, RoomIsKept
<1>5. PartsInOnePlace'
  BY DEF IInv, GoRound, source, work, PartsInOnePlace, Ends, Places
<1>6. AllSent'
  <2> SUFFICES ASSUME pc' = "done"
               PROVE  /\ Total' <= MaxParts
                      /\ \A p \in Parts : IF p < Total' THEN p \in acked' /\ credit'[p] = 1
                                           ELSE credit'[p] = 0
    BY DEF AllSent
  <2>1. /\ pc = "wait" /\ InFlight = {} /\ exhausted /\ NoRetries
        /\ UNCHANGED <<file, next, acked, credit>>
    BY DEF GoRound, NothingLeft, source, work
  <2>2. Total' = Total
    BY <2>1, SameFile
  <2>3. Total <= MaxParts /\ next = Total
    BY <2>1, SizeFits DEF IInv, Cut
  <2>4. ASSUME NEW p \in Parts
        PROVE  IF p < Total THEN p \in acked /\ credit[p] = 1 ELSE credit[p] = 0
    <3>1. Places(p) = IF p < Total THEN 1 ELSE 0
      BY <2>1, <2>3 DEF IInv, PartsInOnePlace, Ends
    <3>2. retries[p] = 0 /\ task[p] = None
      BY <2>1 DEF NoRetries, InFlight
    <3>3. credit[p] = IF p < Total THEN 1 ELSE 0
      BY <3>1, <3>2 DEF Places, IInv, PartTypes
    <3> QED BY <3>3 DEF IInv, AckedFirst
  <2> QED BY <2>1, <2>2, <2>3, <2>4
<1> QED BY <1>1, <1>2, <1>3, <1>4, <1>5, <1>6 DEF IInv

LEMMA WakeStep ==
  ASSUME IInv, Wake
  PROVE  IInv'
<1>1. PartTypes' /\ PoolType' /\ AckedFirst'
  BY Kept DEF IInv, Wake, work
<1>2. Cut'
  <2>1. UNCHANGED source /\ pc' \notin {"begin", "library", "refused", "failed"}
        /\ pc \notin {"begin", "library", "refused", "failed"}
    BY DEF Wake
  <2>2. Size' = Size /\ Total' = Total
    BY <2>1, SameFile DEF source
  <2> QED BY <2>1, <2>2 DEF IInv, Cut, source
<1>3. RoomIsKept'
  BY DEF Wake, RoomIsKept
<1>4. PartsInOnePlace'
  BY DEF IInv, Wake, source, work, PartsInOnePlace, Ends, Places
<1>5. AllSent'
  BY DEF Wake, AllSent
<1> QED BY <1>1, <1>2, <1>3, <1>4, <1>5 DEF IInv

LEMMA SettleStep ==
  ASSUME IInv, Settle
  PROVE  IInv'
<1>1. Cut'
  BY Kept DEF IInv, Settle, Succeeded, Flooded, TriedAgain, source
<1>2. PartTypes'
  BY DEF IInv, Settle, Answered, Landed, Succeeded, Flooded, TriedAgain,
     InFlight, Record, PartTypes
<1>3. PoolType'
  <2>1. Size # None /\ file \in Nat \ {0}
    BY DEF Settle, IInv, Cut
  <2>2. PICK p \in Answered : Succeeded(p) \/ Flooded(p) \/ TriedAgain(p)
    BY DEF Settle
  <2>3. p \in Parts
    BY DEF Answered, InFlight
  <2>4. Bytes(p) \in Int
    BY <2>1, <2>3, BytesAreNumbers
  <2>5. Lighter(p) \in Seq(ConnType)
    BY <2>4, LoadMoves DEF Lighter, IInv
  <2>6. CASE conns' = Lighter(p)
    BY <2>5, <2>6 DEF PoolType
  <2>7. CASE \E lost \in BOOLEAN : conns' = [Lighter(p) EXCEPT ![task[p].conn].broken = @ \/ lost]
    <3> DEFINE c == task[p].conn
               s == Lighter(p)
    <3>1. PICK lost \in BOOLEAN : conns' = [s EXCEPT ![c] = [s[c] EXCEPT !.broken = s[c].broken \/ lost]]
      BY <2>7
    <3> HIDE DEF s, c
    <3>2. c \in DOMAIN s => s[c] \in ConnType
      BY <2>5, LenProperties, ElementOfSeq DEF s
    <3>3. c \in DOMAIN s => [s[c] EXCEPT !.broken = s[c].broken \/ lost] \in ConnType
      BY <3>2 DEF ConnType
    <3> QED BY <2>5, <3>1, <3>3, ExceptKeeps DEF PoolType, s
  <2> QED BY <2>2, <2>6, <2>7 DEF Succeeded, Flooded, TriedAgain
<1>4. RoomIsKept'
  BY DEF Settle, Succeeded, Flooded, TriedAgain, RoomIsKept
<1>5. PartsInOnePlace'
  <2>1. PICK p \in Answered : task' = Landed(p) /\ (Succeeded(p) \/ Flooded(p) \/ TriedAgain(p))
    BY DEF Settle
  <2>2. p \in Parts /\ task[p] # None
    BY DEF Answered, InFlight
  <2>3. pc = "settle" /\ UNCHANGED <<pc, next>>
    BY <2>1 DEF Settle, Succeeded, Flooded, TriedAgain, source
  <2>4. \/ credit' = [credit EXCEPT ![p] = @ + 1] /\ retries' = retries
        \/ retries' = [retries EXCEPT ![p] = @ + 1] /\ credit' = credit
    BY <2>1 DEF Succeeded, Flooded, TriedAgain
  <2>5. task' = [task EXCEPT ![p] = None]
    BY <2>1 DEF Landed
  <2>6. \A q \in Parts \ {p} : Places(q)' = Places(q)
    BY <2>4, <2>5 DEF Places, IInv, PartTypes
  <2>7. Places(p)' = Places(p)
    <3>1. task'[p] = None
      BY <2>2, <2>5 DEF IInv, PartTypes
    <3>2. retries'[p] + credit'[p] = retries[p] + credit[p] + 1
      BY <2>2, <2>4 DEF IInv, PartTypes
    <3>3. retries'[p] \in Nat /\ credit'[p] \in Nat /\ retries[p] \in Nat /\ credit[p] \in Nat
      BY <2>2, <2>4 DEF IInv, PartTypes
    <3> QED BY <2>2, <3>1, <3>2, <3>3 DEF Places
  <2> QED BY <2>3, <2>6, <2>7 DEF IInv, PartsInOnePlace
<1>6. AckedFirst'
  BY DEF IInv, Settle, Answered, Landed, Succeeded, Flooded, TriedAgain,
     InFlight, AckedFirst, PartTypes
<1>7. AllSent'
  BY DEF Settle, Succeeded, Flooded, TriedAgain, AllSent
<1> QED BY <1>1, <1>2, <1>3, <1>4, <1>5, <1>6, <1>7 DEF IInv

LEMMA SettleFailsStep ==
  ASSUME IInv, SettleFails
  PROVE  IInv'
<1> USE DEF IInv, SettleFails, GiveUp
<1>1. PartTypes'
  BY DEF PartTypes
<1>2. PoolType'
  BY DEF PoolType
<1>3. Cut'
  BY DEF source, Cut
<1>4. RoomIsKept'
  BY DEF RoomIsKept
<1>5. PartsInOnePlace'
  BY DEF PartsInOnePlace, Ends
<1>6. AckedFirst'
  BY DEF AckedFirst
<1>7. AllSent'
  BY DEF AllSent
<1> QED BY <1>1, <1>2, <1>3, <1>4, <1>5, <1>6, <1>7

LEMMA SettledStep ==
  ASSUME IInv, Settled
  PROVE  IInv'
<1>1. PartTypes' /\ PoolType' /\ AckedFirst'
  BY Kept DEF IInv, Settled, work
<1>2. Cut'
  <2>1. UNCHANGED source /\ pc' \notin {"begin", "library", "refused", "failed"}
        /\ pc \notin {"begin", "library", "refused", "failed"}
    BY DEF Settled
  <2>2. Size' = Size /\ Total' = Total
    BY <2>1, SameFile DEF source
  <2> QED BY <2>1, <2>2 DEF IInv, Cut, source
<1>3. RoomIsKept'
  BY DEF Settled, RoomIsKept
<1>4. PartsInOnePlace'
  BY DEF IInv, Settled, source, work, PartsInOnePlace, Ends, Places
<1>5. AllSent'
  BY DEF Settled, AllSent
<1> QED BY <1>1, <1>2, <1>3, <1>4, <1>5 DEF IInv

LEMMA HealStep ==
  ASSUME IInv, Heal
  PROVE  IInv'
<1>1. PartTypes'
  BY DEF IInv, Heal, Requeued, PartTypes
<1>2. PoolType'
  <2>1. conns' = [conns EXCEPT ![Min(Broken)].load = 0]
    BY DEF Heal
  <2>2. 0 \in Int
    OBVIOUS
  <2> QED BY <2>1, <2>2, LoadMoves DEF IInv, PoolType
<1>3. Cut'
  <2>1. UNCHANGED source /\ pc' \notin {"begin", "library", "refused", "failed"}
        /\ pc \notin {"begin", "library", "refused", "failed"}
    BY DEF Heal
  <2>2. Size' = Size /\ Total' = Total
    BY <2>1, SameFile DEF source
  <2> QED BY <2>1, <2>2 DEF IInv, Cut, source
<1>4. RoomIsKept'
  BY DEF Heal, RoomIsKept
<1>5. PartsInOnePlace'
  BY DEF IInv, Heal, Requeued, source, On, InFlight, PartsInOnePlace, Ends,
     Places, PartTypes
<1>6. AckedFirst'
  BY DEF IInv, Heal, Requeued, AckedFirst
<1>7. AllSent'
  BY DEF Heal, AllSent
<1> QED BY <1>1, <1>2, <1>3, <1>4, <1>5, <1>6, <1>7 DEF IInv

LEMMA ReopenedStep ==
  ASSUME IInv, Reopened
  PROVE  IInv'
<1>1. PartTypes' /\ AckedFirst'
  BY Kept DEF IInv, Reopened, work
<1>2. PoolType'
  <2>1. conns' = [conns EXCEPT ![healing] = [conns[healing] EXCEPT !.broken = FALSE]]
    BY DEF Reopened
  <2>2. healing \in DOMAIN conns => conns[healing] \in ConnType
    BY LenProperties, ElementOfSeq DEF IInv, PoolType
  <2>3. healing \in DOMAIN conns => [conns[healing] EXCEPT !.broken = FALSE] \in ConnType
    BY <2>2 DEF ConnType
  <2> QED BY <2>1, <2>3, ExceptKeeps DEF IInv, PoolType
<1>3. Cut'
  <2>1. UNCHANGED source /\ pc' \notin {"begin", "library", "refused", "failed"}
        /\ pc \notin {"begin", "library", "refused", "failed"}
    BY DEF Reopened
  <2>2. Size' = Size /\ Total' = Total
    BY <2>1, SameFile DEF source
  <2> QED BY <2>1, <2>2 DEF IInv, Cut, source
<1>4. RoomIsKept'
  BY DEF Reopened, RoomIsKept
<1>5. PartsInOnePlace'
  BY DEF IInv, Reopened, source, work, PartsInOnePlace, Ends, Places
<1>6. AllSent'
  BY DEF Reopened, AllSent
<1> QED BY <1>1, <1>2, <1>3, <1>4, <1>5, <1>6 DEF IInv

LEMMA HealedStep ==
  ASSUME IInv, Healed
  PROVE  IInv'
<1>1. PartTypes' /\ PoolType' /\ AckedFirst'
  BY Kept DEF IInv, Healed, work
<1>2. Cut'
  <2>1. UNCHANGED source /\ pc' \notin {"begin", "library", "refused", "failed"}
        /\ pc \notin {"begin", "library", "refused", "failed"}
    BY DEF Healed
  <2>2. Size' = Size /\ Total' = Total
    BY <2>1, SameFile DEF source
  <2> QED BY <2>1, <2>2 DEF IInv, Cut, source
<1>3. RoomIsKept'
  BY DEF Healed, RoomIsKept
<1>4. PartsInOnePlace'
  BY DEF IInv, Healed, source, work, PartsInOnePlace, Ends, Places
<1>5. AllSent'
  BY DEF Healed, AllSent
<1> QED BY <1>1, <1>2, <1>3, <1>4, <1>5 DEF IInv

LEMMA AdjustStep ==
  ASSUME IInv, Adjust
  PROVE  IInv'
<1>1. PartTypes' /\ PoolType' /\ AckedFirst'
  BY Kept DEF IInv, Adjust, work
<1>2. Cut'
  <2>1. UNCHANGED source /\ pc' \notin {"begin", "library", "refused", "failed"}
        /\ pc \notin {"begin", "library", "refused", "failed"}
    BY DEF Adjust
  <2>2. Size' = Size /\ Total' = Total
    BY <2>1, SameFile DEF source
  <2> QED BY <2>1, <2>2 DEF IInv, Cut, source
<1>3. RoomIsKept'
  BY DEF Adjust, RoomIsKept
<1>4. PartsInOnePlace'
  BY DEF IInv, Adjust, source, work, PartsInOnePlace, Ends, Places
<1>5. AllSent'
  BY DEF Adjust, AllSent
<1> QED BY <1>1, <1>2, <1>3, <1>4, <1>5 DEF IInv

LEMMA OpenStep ==
  ASSUME IInv, Open
  PROVE  IInv'
<1> USE DEF IInv, Open
<1>1. PartTypes' /\ Cut' /\ PartsInOnePlace' /\ AckedFirst' /\ AllSent'
  BY Kept DEF source, work
<1>2. PoolType'
  BY DEF PoolType, ConnType
<1>3. RoomIsKept'
  BY DEF RoomIsKept
<1> QED BY <1>1, <1>2, <1>3

LEMMA CloseTailStep ==
  ASSUME IInv, CloseTail
  PROVE  IInv'
<1>1. PartTypes' /\ Cut' /\ PartsInOnePlace' /\ AckedFirst' /\ AllSent'
  BY Kept DEF IInv, CloseTail, source, work
<1>2. PoolType'
  <2>1. Len(conns) \in Nat /\ \A i \in 1 .. Len(conns) : conns[i] \in ConnType
    BY LenProperties, ElementOfSeq DEF IInv, PoolType
  <2>2. 1 \in Int /\ Len(conns) - 1 \in Int /\ \A i \in 1 .. Len(conns) - 1 : conns[i] \in ConnType
    BY <2>1
  <2>3. SubSeq(conns, 1, Len(conns) - 1) \in Seq(ConnType)
    BY <2>2, SubSeqProperties
  <2> QED BY <2>3 DEF CloseTail, PoolType
<1>3. RoomIsKept'
  BY DEF CloseTail, RoomIsKept
<1> QED BY <1>1, <1>2, <1>3 DEF IInv

LEMMA ResizedStep ==
  ASSUME IInv, Resized
  PROVE  IInv'
<1>1. PartTypes' /\ PoolType' /\ AckedFirst'
  BY Kept DEF IInv, Resized, work
<1>2. Cut'
  <2>1. UNCHANGED source /\ pc' \notin {"begin", "library", "refused", "failed"}
        /\ pc \notin {"begin", "library", "refused", "failed"}
    BY DEF Resized
  <2>2. Size' = Size /\ Total' = Total
    BY <2>1, SameFile DEF source
  <2> QED BY <2>1, <2>2 DEF IInv, Cut, source
<1>3. RoomIsKept'
  BY DEF Resized, RoomIsKept
<1>4. PartsInOnePlace'
  BY DEF IInv, Resized, source, work, PartsInOnePlace, Ends, Places
<1>5. AllSent'
  BY DEF Resized, AllSent
<1> QED BY <1>1, <1>2, <1>3, <1>4, <1>5 DEF IInv

LEMMA AnswerStep ==
  ASSUME IInv, NEW p \in Parts, Answer(p)
  PROVE  IInv'
<1> USE DEF IInv, Answer, InFlight, source
<1>1. PoolType' /\ Cut' /\ RoomIsKept'
  BY Kept
<1>2. PartTypes'
  BY DEF PartTypes, TaskType
<1>3. PartsInOnePlace'
  BY TheTasks DEF PartsInOnePlace, Places, PartTypes, TaskType
<1>4. AckedFirst'
  BY DEF AckedFirst
<1>5. AllSent'
  BY DEF Awaiting, AllSent
<1> QED BY <1>1, <1>2, <1>3, <1>4, <1>5

LEMMA TroubleStep ==
  ASSUME IInv, NEW p \in Parts, Trouble(p)
  PROVE  IInv'
<1> USE DEF IInv, Trouble, InFlight, source
<1>1. PoolType' /\ Cut' /\ RoomIsKept' /\ AllSent'
  BY Kept
<1>2. PartTypes'
  BY DEF PartTypes, TaskType
<1>3. PartsInOnePlace'
  BY TheTasks DEF PartsInOnePlace, Places, PartTypes, TaskType
<1>4. AckedFirst'
  BY DEF AckedFirst
<1> QED BY <1>1, <1>2, <1>3, <1>4

LEMMA PoolFailsStep ==
  ASSUME IInv, PoolFails
  PROVE  IInv'
<1> USE DEF IInv, PoolFails, GiveUp
<1>1. PartTypes'
  BY DEF PartTypes
<1>2. PoolType'
  BY DEF PoolType
<1>3. Cut'
  BY DEF source, Cut
<1>4. RoomIsKept'
  BY DEF RoomIsKept
<1>5. PartsInOnePlace'
  BY DEF PartsInOnePlace, Ends
<1>6. AckedFirst'
  BY DEF AckedFirst
<1>7. AllSent'
  BY DEF AllSent
<1> QED BY <1>1, <1>2, <1>3, <1>4, <1>5, <1>6, <1>7

LEMMA PauseOverStep ==
  ASSUME IInv, PauseOver
  PROVE  IInv'
<1>1. PartTypes' /\ PoolType' /\ Cut' /\ RoomIsKept' /\ PartsInOnePlace' /\ AckedFirst' /\ AllSent'
  BY Kept DEF IInv, PauseOver, source, work
<1> QED BY <1>1 DEF IInv

LEMMA SettleOverStep ==
  ASSUME IInv, SettleOver
  PROVE  IInv'
<1>1. PartTypes' /\ PoolType' /\ Cut' /\ RoomIsKept' /\ PartsInOnePlace' /\ AckedFirst' /\ AllSent'
  BY Kept DEF IInv, SettleOver, source, work
<1> QED BY <1>1 DEF IInv

-----------------------------------------------------------------------------
(* The invariant.                                                          *)

LEMMA InitInv == Init => IInv
<1> SUFFICES ASSUME Init PROVE IInv
  OBVIOUS
<1>1. PartTypes /\ RoomIsKept /\ AckedFirst /\ AllSent
  BY DEF Init, PartTypes, RoomIsKept, AckedFirst, AllSent
<1>2. PoolType
  BY EmptySeq DEF Init, PoolType
<1>3. Cut
  BY UploadAssumption DEF Init, Cut
<1>4. PartsInOnePlace
  <2> SUFFICES ASSUME NEW p \in Parts PROVE Places(p) = IF p < next THEN 1 ELSE 0
    BY DEF PartsInOnePlace
  <2>1. p \in Nat /\ next = 0
    BY UploadAssumption DEF Parts, Init
  <2> QED BY <2>1 DEF Init, Places
<1> QED BY <1>1, <1>2, <1>3, <1>4 DEF IInv

LEMMA StepInv == IInv /\ [Next]_vars => IInv'
<1> SUFFICES ASSUME IInv, [Next]_vars PROVE IInv'
  OBVIOUS
<1>1. CASE Loop \/ Connected
  BY <1>1, BeginStep, WaitOutThePauseStep, SendAgainStep, ReadStep, SendNextStep, ReadOutStep,
     FilledStep, GoRoundStep, WakeStep, SettleStep, SettleFailsStep, SettledStep, HealStep,
     ReopenedStep, HealedStep, AdjustStep, OpenStep, CloseTailStep, ResizedStep
     DEF Loop, Connected
<1>2. ASSUME NEW p \in Parts, Answer(p) \/ Trouble(p) PROVE IInv'
  BY <1>2, AnswerStep, TroubleStep
<1>3. CASE PoolFails \/ PauseOver \/ SettleOver
  BY <1>3, PoolFailsStep, PauseOverStep, SettleOverStep
<1>4. CASE UNCHANGED vars
  BY <1>4, Kept DEF IInv, vars, source, work
<1> QED BY <1>1, <1>2, <1>3, <1>4 DEF Next

LEMMA Invariant == Spec => []IInv
BY InitInv, StepInv, PTL DEF Spec

\* Until the upload ends every part that was read is in one place: on its way,
\* waiting for another attempt, or counted; whatever breaks, is answered late or
\* is put back, none is lost and none is counted twice.
THEOREM EveryPartOnce == Spec => []PartsInOnePlace
<1>1. IInv => PartsInOnePlace
  BY DEF IInv
<1> QED BY <1>1, Invariant, PTL

-----------------------------------------------------------------------------
(* The books of the pool.                                                  *)

\* LoadIsReal, in terms of the weights, with what the width may be.
Books ==
  \A c \in Indices : conns[c].load = WeightSum(Weights, On(c)) /\ conns[c].load <= Room

PoolOK == Books /\ NoOrphan /\ count \in MinWidth .. MaxWidth

\* Whatever is on its way belongs to the file.
LEMMA InFlightFits ==
  ASSUME IInv, pc \notin Ends
  PROVE  /\ \A p \in InFlight : p < Total /\ p \in Parts
         /\ \A p \in Parts : retries[p] > 0 => p < Total /\ task[p] = None
<1>1. \A p \in Parts : task[p] # None \/ retries[p] > 0 => p < next /\ (task[p] = None \/ retries[p] = 0)
  <2> SUFFICES ASSUME NEW p \in Parts, task[p] # None \/ retries[p] > 0
               PROVE  p < next /\ (task[p] = None \/ retries[p] = 0)
    OBVIOUS
  <2>1. retries[p] \in Nat /\ credit[p] \in Nat
    BY DEF IInv, PartTypes
  <2>2. retries[p] + credit[p] + (IF task[p] # None THEN 1 ELSE 0) = IF p < next THEN 1 ELSE 0
    BY DEF IInv, PartsInOnePlace, Places
  <2> QED BY <2>1, <2>2
<1>2. CASE pc = "begin"
  <2>1. \A p \in Parts : p \in Nat /\ next = 0
    BY <1>2, UploadAssumption DEF Parts, IInv, Cut
  <2>2. \A p \in Parts : ~(p < next)
    BY <2>1
  <2> QED BY <1>1, <2>2 DEF InFlight
<1>3. CASE pc # "begin"
  <2>1. Size # None /\ next <= Total /\ file \in Nat \ {0} /\ next \in Nat
    BY <1>3 DEF Ends, IInv, Cut
  <2>2. Total \in Nat
    BY <2>1, TotalIsNumber
  <2>3. \A p \in Parts : p \in Nat
    BY UploadAssumption DEF Parts
  <2>4. \A p \in Parts : p < next => p < Total
    BY <2>1, <2>2, <2>3
  <2> QED BY <1>1, <2>1, <2>4 DEF InFlight
<1> QED BY <1>2, <1>3

LEMMA SameWeights == file' = file => Weights' = Weights
BY DEF Weights, Bytes, Size, Total

LEMMA OnIsFinite == ASSUME NEW c PROVE IsFiniteSet(On(c)) /\ On(c) \subseteq InFlight
BY PartsAreFinite, FS_Subset DEF On, InFlight

\* A step that moves no part between connections, keeps the books.
LEMMA NothingMoves ==
  ASSUME PoolOK, UNCHANGED <<file, conns>>, count' \in MinWidth .. MaxWidth,
         \A p \in Parts : (task[p] # None <=> task'[p] # None)
                          /\ (task[p] # None => task'[p].conn = task[p].conn)
  PROVE  PoolOK'
<1>1. \A c : On(c)' = On(c)
  BY DEF On, InFlight
<1>2. Indices' = Indices /\ Weights' = Weights
  BY SameWeights DEF Indices
<1>3. Books'
  BY <1>1, <1>2 DEF PoolOK, Books
<1>4. NoOrphan'
  BY <1>2 DEF PoolOK, NoOrphan, InFlight
<1> QED BY <1>3, <1>4 DEF PoolOK

\* A part is put on a connection with room for it.
LEMMA SendKeepsBooks ==
  ASSUME IInv, PoolOK, pc \notin Ends, pc # "begin", Free # {},
         NEW p \in Parts, task[p] = None, p < Total, Send(Min(Free), p),
         UNCHANGED <<file, count>>
  PROVE  PoolOK'
<1>0. PICK c0 : c0 = Min(Free)
  OBVIOUS
<1>1. Size # None /\ file \in Nat \ {0}
  BY DEF IInv, Cut, Ends
<1>2. Free \in SUBSET Nat /\ Free \subseteq Indices
  BY LenProperties DEF IInv, PoolType, Free, Indices
<1>3. c0 \in Free /\ c0 \in Nat
  BY <1>0, <1>2, LeastNumber
<1>4. c0 \in Indices /\ conns[c0].load + Size <= Room
  BY <1>2, <1>3 DEF Free, HasRoom
<1>5. /\ Bytes(p) \in Nat \ {0} /\ Bytes(p) <= Size /\ Weights[p] = Bytes(p)
      /\ Size \in Nat
  BY <1>1, BytesFit, PartsCoverFile
<1>6. /\ task' = [task EXCEPT ![p] = [conn |-> c0, answer |-> "none"]]
      /\ conns' = [conns EXCEPT ![c0].load = @ + Bytes(p)]
  BY <1>0 DEF Send
<1>7. [conn |-> c0, answer |-> "none"] \in TaskType
  BY <1>3 DEF TaskType
<1>8. /\ task'[p] # None /\ task'[p].conn = c0
      /\ \A q \in Parts \ {p} : task'[q] = task[q]
  BY <1>6, <1>7, TheTasks DEF IInv, PartTypes
<1>9. On(c0)' = On(c0) \cup {p} /\ p \notin On(c0) /\ \A c \in Indices \ {c0} : On(c)' = On(c)
  BY <1>8 DEF On, InFlight
<1>10. /\ Indices' = Indices /\ Weights' = Weights
       /\ conns'[c0].load = conns[c0].load + Bytes(p)
       /\ \A c \in Indices \ {c0} : conns'[c].load = conns[c].load
  <2>1. c0 \in DOMAIN conns
    BY <1>4 DEF Indices
  <2>2. conns[c0] \in ConnType
    BY <2>1, LenProperties, ElementOfSeq DEF IInv, PoolType
  <2> QED BY <1>6, <2>1, <2>2, SameWeights DEF Indices, ConnType
<1>11. WeightSum(Weights, On(c0) \cup {p}) = WeightSum(Weights, On(c0)) + Bytes(p)
  <2>1. IsFiniteSet(On(c0) \cup {p})
    BY OnIsFinite, FS_AddElement
  <2>2. (On(c0) \cup {p}) \ {p} = On(c0)
    BY <1>9
  <2>3. \A q \in On(c0) \cup {p} : Weights[q] \in Nat
    BY <1>1, <1>5, OnIsFinite, InFlightFits, BytesFit
  <2>4. WeightSum(Weights, On(c0) \cup {p}) = Weights[p] + WeightSum(Weights, On(c0))
    BY <2>1, <2>2, <2>3, SumSplits
  <2>5. WeightSum(Weights, On(c0)) \in Nat
    BY <2>3, OnIsFinite, SumIsNumber
  <2> QED BY <1>5, <2>4, <2>5
<1>12. conns[c0].load = WeightSum(Weights, On(c0)) /\ conns[c0].load \in Int
  <2>1. conns[c0] \in ConnType
    BY <1>4, LenProperties, ElementOfSeq DEF IInv, PoolType, Indices
  <2> QED BY <1>4, <2>1 DEF PoolOK, Books, ConnType
<1>13. Books'
  <2>1. conns'[c0].load = WeightSum(Weights', On(c0)') /\ conns'[c0].load <= Room
    <3>1. conns[c0].load + Bytes(p) <= Room
      BY <1>4, <1>5, <1>12, UploadAssumption
    <3> QED BY <1>9, <1>10, <1>11, <1>12, <3>1
  <2>2. \A c \in Indices \ {c0} :
          conns'[c].load = WeightSum(Weights', On(c)') /\ conns'[c].load <= Room
    BY <1>9, <1>10 DEF PoolOK, Books
  <2> QED BY <1>10, <2>1, <2>2 DEF Books
<1>14. NoOrphan'
  BY <1>4, <1>8, <1>10 DEF PoolOK, NoOrphan, InFlight
<1> QED BY <1>13, <1>14 DEF PoolOK

\* An answer takes its part off its connection.
LEMMA SettleKeepsBooks == ASSUME IInv, PoolOK, Settle PROVE PoolOK'
<1>1. PICK p \in Answered : task' = Landed(p) /\ (Succeeded(p) \/ Flooded(p) \/ TriedAgain(p))
  BY DEF Settle
<1>2. p \in Parts /\ p \in InFlight /\ task[p] # None
  BY DEF Answered, InFlight
<1>3. pc \notin Ends /\ pc # "begin" /\ UNCHANGED file
  BY DEF Settle, Ends, source
<1>4. Size # None /\ file \in Nat \ {0}
  BY <1>3 DEF IInv, Cut, Ends
<1>0. PICK c0 : c0 = task[p].conn
  OBVIOUS
<1>5. c0 \in Indices
  BY <1>0, <1>2 DEF PoolOK, NoOrphan
<1>6. Bytes(p) \in Nat \ {0} /\ Weights[p] = Bytes(p)
  BY <1>2, <1>3, <1>4, InFlightFits, BytesFit
<1>7. p \in On(c0)
  BY <1>0, <1>2 DEF On
<1>8. conns[c0] \in ConnType
  BY <1>5, LenProperties, ElementOfSeq DEF IInv, PoolType, Indices
<1>9. /\ Indices' = Indices /\ Weights' = Weights
      /\ conns'[c0].load = conns[c0].load - Bytes(p)
      /\ \A c \in Indices \ {c0} : conns'[c].load = conns[c].load
  <2> DEFINE s == Lighter(p)
  <2>1. /\ DOMAIN s = DOMAIN conns
        /\ s[c0].load = conns[c0].load - Bytes(p)
        /\ \A c \in Indices \ {c0} : s[c].load = conns[c].load
    BY <1>0, <1>5, <1>8 DEF Lighter, Indices, ConnType
  <2>2. s[c0] \in [load : Int, broken : BOOLEAN]
    BY <1>0, <1>5, <1>6, <1>8 DEF Lighter, Indices, ConnType
  <2> HIDE DEF s
  <2>3. CASE conns' = s
    BY <1>3, <2>1, <2>3, SameWeights DEF Indices
  <2>4. CASE \E lost \in BOOLEAN : conns' = [s EXCEPT ![c0].broken = @ \/ lost]
    <3>1. PICK lost \in BOOLEAN : conns' = [s EXCEPT ![c0] = [s[c0] EXCEPT !.broken = s[c0].broken \/ lost]]
      BY <2>4
    <3>2. [s[c0] EXCEPT !.broken = s[c0].broken \/ lost].load = s[c0].load
      BY <2>2
    <3> QED BY <1>3, <1>5, <2>1, <3>1, <3>2, SameWeights DEF Indices
  <2>5. conns' = s \/ \E lost \in BOOLEAN : conns' = [s EXCEPT ![c0].broken = @ \/ lost]
    BY <1>0, <1>1 DEF Succeeded, Flooded, TriedAgain, s
  <2> QED BY <2>3, <2>4, <2>5
<1>10. task'[p] = None /\ \A q \in Parts \ {p} : task'[q] = task[q]
  BY <1>1, <1>2 DEF Landed, IInv, PartTypes
<1>11. On(c0)' = On(c0) \ {p} /\ \A c \in Indices \ {c0} : On(c)' = On(c)
  BY <1>0, <1>2, <1>10 DEF On, InFlight
<1>12. \A q \in On(c0) : Weights[q] \in Nat
  BY <1>3, <1>4, OnIsFinite, InFlightFits, BytesFit
<1>13. WeightSum(Weights, On(c0)) = Bytes(p) + WeightSum(Weights, On(c0) \ {p})
  BY <1>6, <1>7, <1>12, OnIsFinite, SumSplits
<1>14. WeightSum(Weights, On(c0) \ {p}) \in Nat
  BY <1>12, OnIsFinite, FS_Subset, SumIsNumber
<1>15. conns[c0].load = WeightSum(Weights, On(c0)) /\ conns[c0].load <= Room
  BY <1>5 DEF PoolOK, Books
<1>16. Books'
  <2>1. conns'[c0].load = WeightSum(Weights', On(c0)') /\ conns'[c0].load <= Room
    <3>1. conns'[c0].load = WeightSum(Weights, On(c0) \ {p})
      BY <1>6, <1>9, <1>13, <1>14, <1>15
    <3>2. WeightSum(Weights, On(c0) \ {p}) <= Room
      BY <1>6, <1>13, <1>14, <1>15, UploadAssumption
    <3> QED BY <1>9, <1>11, <3>1, <3>2
  <2>2. \A c \in Indices \ {c0} :
          conns'[c].load = WeightSum(Weights', On(c)') /\ conns'[c].load <= Room
    BY <1>9, <1>11 DEF PoolOK, Books
  <2> QED BY <1>9, <2>1, <2>2 DEF Books
<1>17. NoOrphan'
  BY <1>9, <1>10 DEF PoolOK, NoOrphan, InFlight
<1>18. count' \in MinWidth .. MaxWidth
  BY <1>1, UploadAssumption DEF Succeeded, Flooded, TriedAgain, Record, Shrink,
     policy, PoolOK
<1> QED BY <1>16, <1>17, <1>18 DEF PoolOK

\* A broken connection gives up what it carried.
LEMMA HealKeepsBooks == ASSUME IInv, PoolOK, Heal PROVE PoolOK'
<1>0. PICK c0 : c0 = Min(Broken)
  OBVIOUS
<1>1. Broken \in SUBSET Nat /\ Broken # {} /\ Broken \subseteq Indices
  BY LenProperties DEF Heal, IInv, PoolType, Broken, Indices
<1>2. c0 \in Indices
  BY <1>0, <1>1, LeastNumber
<1>3. conns[c0] \in ConnType
  BY <1>2, LenProperties, ElementOfSeq DEF IInv, PoolType, Indices
<1>4. /\ task' = [p \in Parts |-> IF p \in On(c0) THEN None ELSE task[p]]
      /\ conns' = [conns EXCEPT ![c0].load = 0] /\ UNCHANGED <<file, count>>
  BY <1>0 DEF Heal, Requeued, source, policy
<1>5. /\ Indices' = Indices /\ Weights' = Weights
      /\ conns'[c0].load = 0
      /\ \A c \in Indices \ {c0} : conns'[c].load = conns[c].load
  BY <1>2, <1>3, <1>4, SameWeights DEF Indices, ConnType
<1>6. On(c0)' = {} /\ \A c \in Indices \ {c0} : On(c)' = On(c)
  BY <1>4 DEF On, InFlight
<1>7. Books'
  <2>1. conns'[c0].load = WeightSum(Weights', On(c0)') /\ conns'[c0].load <= Room
    BY <1>5, <1>6, EmptySum, UploadAssumption
  <2>2. \A c \in Indices \ {c0} :
          conns'[c].load = WeightSum(Weights', On(c)') /\ conns'[c].load <= Room
    BY <1>5, <1>6 DEF PoolOK, Books
  <2> QED BY <1>5, <2>1, <2>2 DEF Books
<1>8. NoOrphan'
  BY <1>4, <1>5 DEF PoolOK, NoOrphan, InFlight
<1> QED BY <1>4, <1>7, <1>8 DEF PoolOK

\* A connection is added at the end, and nothing is on it.
LEMMA OpenKeepsBooks == ASSUME IInv, PoolOK, Open PROVE PoolOK'
<1>1. conns \in Seq(ConnType) /\ Len(conns) \in Nat
  BY LenProperties DEF IInv, PoolType
<1>0. PICK new : new = Len(conns) + 1
  OBVIOUS
<1>2. /\ conns' = Append(conns, [load |-> 0, broken |-> FALSE])
      /\ UNCHANGED <<file, task, count>>
  BY DEF Open, source, work, policy
<1>3. /\ Indices = 1 .. Len(conns) /\ Indices' = 1 .. new
      /\ conns'[new] = [load |-> 0, broken |-> FALSE]
      /\ \A c \in 1 .. Len(conns) : conns'[c] = conns[c]
  BY <1>0, <1>1, <1>2, AppendProperties, LenProperties DEF Indices, ConnType
<1>4. new \notin Indices
  BY <1>0, <1>1, <1>3
<1>5. On(new) = {} /\ \A c : On(c)' = On(c)
  BY <1>2, <1>4 DEF On, InFlight, PoolOK, NoOrphan
<1>6. Weights' = Weights
  BY <1>2, SameWeights
<1>7. \A c \in Indices' : c = new \/ c \in Indices
  BY <1>0, <1>1, <1>3
<1>8. conns'[new].load = WeightSum(Weights', On(new)') /\ conns'[new].load <= Room
  <2>1. conns'[new].load = 0
    BY <1>3
  <2>2. On(new)' = {}
    BY <1>5
  <2>3. WeightSum(Weights', {}) = 0 /\ 0 <= Room
    BY EmptySum, UploadAssumption
  <2> QED BY <2>1, <2>2, <2>3
<1>9. Books'
  BY <1>3, <1>5, <1>6, <1>7, <1>8 DEF PoolOK, Books
<1>10. NoOrphan'
  <2>1. Indices \subseteq Indices'
    BY <1>0, <1>1, <1>3
  <2> QED BY <1>2, <2>1 DEF PoolOK, NoOrphan, InFlight
<1> QED BY <1>2, <1>9, <1>10 DEF PoolOK

\* The connection that goes carries nothing: its counter is at zero, and a
\* part has bytes.
LEMMA CloseKeepsBooks == ASSUME IInv, PoolOK, CloseTail PROVE PoolOK'
<1>1. conns \in Seq(ConnType) /\ Len(conns) \in Nat
  BY LenProperties DEF IInv, PoolType
<1> DEFINE old == Len(conns)
<1>2. /\ conns' = SubSeq(conns, 1, old - 1) /\ conns[old].load = 0
      /\ UNCHANGED <<file, task, count>> /\ old > count
      /\ pc \notin Ends /\ pc # "begin"
  BY DEF CloseTail, IdleTail, source, work, policy, Ends
<1>3. old \in 1 .. old /\ Indices = 1 .. old
  BY <1>1, <1>2, LenProperties, UploadAssumption DEF Indices, PoolOK
<1>4. Indices' = 1 .. old - 1 /\ \A c \in 1 .. old - 1 : conns'[c] = conns[c]
  <2>1. old - 1 \in Int /\ \A i \in 1 .. old - 1 : conns[i] \in ConnType
    BY <1>1, ElementOfSeq
  <2> QED BY <1>1, <1>2, <1>3, <2>1, SubSeqProperties, LenProperties DEF Indices
<1>5. On(old) = {}
  <2> SUFFICES ASSUME NEW p \in On(old) PROVE FALSE
    OBVIOUS
  <2>1. Size # None /\ file \in Nat \ {0}
    BY <1>2 DEF IInv, Cut, Ends
  <2>2. \A q \in On(old) : Weights[q] \in Nat \ {0}
    BY <1>2, <2>1, OnIsFinite, InFlightFits, BytesFit
  <2>3. WeightSum(Weights, On(old)) = Weights[p] + WeightSum(Weights, On(old) \ {p})
    BY <2>2, OnIsFinite, SumSplits
  <2>4. WeightSum(Weights, On(old) \ {p}) \in Nat
    BY <2>2, OnIsFinite, FS_Subset, SumIsNumber
  <2>5. WeightSum(Weights, On(old)) = 0
    BY <1>2, <1>3 DEF PoolOK, Books
  <2> QED BY <2>2, <2>3, <2>4, <2>5
<1>6. (\A c : On(c)' = On(c)) /\ Weights' = Weights
  BY <1>2, SameWeights DEF On, InFlight
<1>7. Indices' \subseteq Indices /\ \A c \in Indices : c = old \/ c \in Indices'
  BY <1>1, <1>3, <1>4
<1> HIDE DEF old
<1>8. Books'
  BY <1>4, <1>6, <1>7 DEF PoolOK, Books
<1>9. NoOrphan'
  <2>1. \A p \in InFlight : task[p].conn # old
    BY <1>5 DEF On
  <2> QED BY <1>2, <1>7, <2>1 DEF PoolOK, NoOrphan, InFlight
<1> QED BY <1>2, <1>8, <1>9 DEF PoolOK

LEMMA BooksStep == ASSUME IInv, PoolOK, [Next]_vars PROVE PoolOK'
<1>1. CASE Begin \/ WaitOutThePause \/ Read \/ ReadOut \/ Filled \/ Wake \/ Settled \/ Healed
           \/ Resized \/ PauseOver \/ SettleOver \/ UNCHANGED vars
  <2>1. UNCHANGED <<file, conns, task, count>>
    BY <1>1 DEF Begin, WaitOutThePause, Read, ReadOut, Filled, Wake, Settled,
       Healed, Resized,
       PauseOver, SettleOver, vars, source, work, policy
  <2> QED BY <2>1, NothingMoves DEF PoolOK
<1>2. CASE Adjust
  <2>1. UNCHANGED <<file, conns, task>>
    BY <1>2 DEF Adjust, source, work
  <2>2. count' \in MinWidth .. MaxWidth
    BY <1>2, UploadAssumption DEF Adjust, PoolOK
  <2> QED BY <2>1, <2>2, NothingMoves
<1>3. ASSUME NEW p \in Parts, Answer(p) \/ Trouble(p) PROVE PoolOK'
  <2>1. UNCHANGED <<file, conns, count>> /\ task[p] # None /\ task[p] \in TaskType
    BY <1>3 DEF Answer, Trouble, source, policy, InFlight, IInv, PartTypes
  <2>2. PICK a \in {"ok", "bad"} : task' = [task EXCEPT ![p] = [task[p] EXCEPT !.answer = a]]
    BY <1>3 DEF Answer, Trouble
  <2>3. [task[p] EXCEPT !.answer = a] \in TaskType /\ [task[p] EXCEPT !.answer = a].conn = task[p].conn
    BY <2>1 DEF TaskType
  <2>4. \A q \in Parts : (task[q] # None <=> task'[q] # None)
                         /\ (task[q] # None => task'[q].conn = task[q].conn)
    BY <2>1, <2>2, <2>3, TheTasks DEF IInv, PartTypes
  <2> QED BY <2>1, <2>4, NothingMoves DEF PoolOK
<1>4. CASE SendAgain
  <2>1. PICK p \in Parts : retries[p] > 0 /\ Send(Min(Free), p)
    BY <1>4 DEF SendAgain
  <2>2. pc \notin Ends /\ pc # "begin" /\ Free # {} /\ UNCHANGED <<file, count>>
    BY <1>4 DEF SendAgain, Ends, source, policy
  <2>3. p < Total /\ task[p] = None
    BY <2>1, <2>2, InFlightFits
  <2> QED BY <2>1, <2>2, <2>3, SendKeepsBooks
<1>5. CASE SendNext
  <2>1. /\ pc \notin Ends /\ pc # "begin" /\ Free # {} /\ UNCHANGED <<file, count>>
        /\ next < Total /\ Send(Min(Free), next)
    BY <1>5 DEF SendNext, Ends, policy, IInv, RoomIsKept
  <2>2. Size # None /\ file \in Nat \ {0} /\ next \in Nat
    BY <2>1 DEF IInv, Cut, Ends
  <2>3. next \in Parts
    BY <2>1, <2>2, SizeFits, TotalIsNumber, UploadAssumption DEF Parts
  <2>4. task[next] = None
    <3>1. Places(next) = 0 /\ retries[next] \in Nat /\ credit[next] \in Nat
      BY <2>1, <2>2, <2>3 DEF IInv, PartsInOnePlace, PartTypes
    <3> QED BY <3>1 DEF Places
  <2> QED BY <2>1, <2>3, <2>4, SendKeepsBooks
<1>6. CASE GoRound
  <2>1. UNCHANGED <<file, task, count>> /\ InFlight = {} /\ (conns' = <<>> \/ conns' = conns)
    BY <1>6 DEF GoRound, source, work, policy
  <2>2. CASE conns' = conns
    BY <2>1, <2>2, NothingMoves DEF PoolOK
  <2>3. CASE conns' = <<>>
    BY <2>1, <2>3 DEF PoolOK, Books, NoOrphan, InFlight, Indices
  <2> QED BY <2>1, <2>2, <2>3
<1>7. CASE SettleFails \/ PoolFails
  <2>1. UNCHANGED count /\ conns' = <<>> /\ task' = [p \in Parts |-> None]
    BY <1>7 DEF SettleFails, PoolFails, GiveUp, policy
  <2> QED BY <2>1 DEF PoolOK, Books, NoOrphan, InFlight, Indices
<1>8. CASE Reopened
  <2>1. UNCHANGED <<file, task, count>> /\ conns' = [conns EXCEPT ![healing].broken = FALSE]
    BY <1>8 DEF Reopened, source, work, policy
  <2>2. \A c \in DOMAIN conns : conns[c] \in ConnType
    BY LenProperties, ElementOfSeq DEF IInv, PoolType
  <2>3. Indices' = Indices /\ \A c \in Indices : conns'[c].load = conns[c].load
    BY <2>1, <2>2 DEF Indices, ConnType
  <2>4. (\A c : On(c)' = On(c)) /\ Weights' = Weights
    BY <2>1, SameWeights DEF On, InFlight
  <2> QED BY <2>1, <2>3, <2>4 DEF PoolOK, Books, NoOrphan, InFlight
<1> QED
  BY <1>1, <1>2, <1>3, <1>4, <1>5, <1>6, <1>7, <1>8, SettleKeepsBooks,
     HealKeepsBooks,
     OpenKeepsBooks, CloseKeepsBooks DEF Next, Loop, Connected

LEMMA BooksInvariant == Spec => []PoolOK
<1>1. Init => PoolOK
  <2> SUFFICES ASSUME Init PROVE PoolOK
    OBVIOUS
  <2>1. Indices = {} /\ InFlight = {} /\ count \in MinWidth .. MaxWidth
    BY UploadAssumption DEF Init, Indices, InFlight
  <2> QED BY <2>1 DEF PoolOK, Books, NoOrphan
<1> QED BY <1>1, BooksStep, Invariant, PTL DEF Spec

\* The counter of every connection is what its tasks carry and never more than
\* it may hold, no part is on a connection that was closed, and the width stays
\* between its floor and its ceiling, across answers, retries, broken
\* connections and a pool that grows and shrinks.
THEOREM PoolKeepsItsBooks == Spec => []PoolInOrder
<1>1. \A c : On(c) \in SUBSET Parts
  BY DEF On, InFlight
<1>2. PoolOK => PoolInOrder
  BY <1>1, SumOfBytes DEF PoolOK, Books, PoolInOrder, LoadIsReal
<1> QED BY <1>2, BooksInvariant, PTL

\* An upload that returns its handle sent a file of no more parts than the
\* server takes, each of them was acknowledged, and the progress is the size of
\* the file: every byte was counted once.
THEOREM HandleIsWhole == Spec => []DoneIsWhole
<1>1. IInv => DoneIsWhole
  <2> SUFFICES ASSUME IInv, pc = "done"
               PROVE  Total <= MaxParts /\ SentBytes = file /\ \A p \in Parts : p < Total => p \in acked
    BY DEF DoneIsWhole
  <2>1. Size # None /\ file \in Nat \ {0}
    BY DEF IInv, Cut
  <2>2. /\ Total <= MaxParts
        /\ \A p \in Parts : IF p < Total THEN p \in acked /\ credit[p] = 1 ELSE credit[p] = 0
    BY DEF IInv, AllSent
  <2> DEFINE w == [p \in Parts |-> credit[p] * Bytes(p)]
  <2>3. \A p \in Parts : w[p] = IF p < Total THEN Bytes(p) ELSE 0
    <3>1. \A n \in Int : 1 * n = n /\ 0 * n = 0
      OBVIOUS
    <3> QED BY <2>1, <2>2, <3>1, BytesAreNumbers
  <2> HIDE DEF w
  <2>4. WeightSum(w, Parts) = file
    BY <2>1, <2>3, SumOfFirst
  <2> QED BY <2>2, <2>4, SentIsSum DEF w
<1> QED BY <1>1, Invariant, PTL
=============================================================================
