--------------------------- MODULE PlaybackProofs ---------------------------
(***************************************************************************)
(* Proofs about the archiver and the replay, for any archive, any          *)
(* capacity of the queue and any list of products of interest.             *)
(***************************************************************************)
EXTENDS Playback, TLAPS, FiniteSetTheorems, SequenceTheorems, WellFoundedInduction

(***************************************************************************)
(* The invariants.                                                         *)
(***************************************************************************)

\* The replaying thread has a product exactly while it publishes it, and the
\* archiver something to write while it writes.
HandsFull ==
    /\ replay = "publish" => Len(held) = 1
    /\ replay # "publish" => held = << >>
    /\ archiver = "writing" => batch # << >>

\* A product that the replaying thread may have added itself is still there
\* until it has taken one.
Extra == IF replay = "pop" THEN 1 ELSE 0

QueueRoom ==
    /\ Len(dataProducts) <= Capacity + 1 + Extra
    /\ reader = "read" /\ ~endOfFile => Len(dataProducts) <= Capacity + Extra

QueueInv == TypeOK /\ HandsFull /\ PopsWhatIsThere /\ QueueRoom

\* What has been read is the beginning of what the archive has of interest.
Contents == published \o held \o dataProducts

ReadInv == Contents = Selected(file, Chosen(file, position))

ReplayInv == QueueInv /\ ReadInv

(***************************************************************************)
(* Types, and the queue.                                                   *)
(***************************************************************************)

\* What reading does to the queue and to the position.
LEMMA ReadMeans ==
    ASSUME TypeOK, ReadNextDataProduct
    PROVE  /\ position' \in 0..Len(file) /\ endOfFile' \in BOOLEAN
           /\ dataProducts' \in Seq(Products)
           /\ \/ dataProducts' = dataProducts /\ endOfFile' = TRUE
              \/ /\ ~endOfFile /\ ~endOfFile'
                 /\ \E n \in Skipped : /\ n + 1 \in 1..Len(file)
                                        /\ position' = n + 1
                                        /\ file[n + 1] \in Products
                                        /\ dataProducts' =
                                             Append(dataProducts, file[n + 1])
<1>1. file \in Seq(Products) /\ Len(file) \in Nat /\ position \in 0..Len(file)
      /\ dataProducts \in Seq(Products) /\ endOfFile \in BOOLEAN
  BY DEF TypeOK
<1>2. CASE endOfFile /\ UNCHANGED fileVars
  BY <1>1, <1>2 DEF fileVars
<1>3. CASE /\ ~endOfFile /\ Skipped = {}
           /\ position' = Len(file) /\ endOfFile' = TRUE
           /\ UNCHANGED dataProducts
  BY <1>1, <1>3
<1>4. CASE /\ ~endOfFile
           /\ \E n \in Skipped : /\ position' = n + 1
                                 /\ dataProducts' = Append(dataProducts, file[n + 1])
           /\ UNCHANGED endOfFile
  <2>1. PICK n \in Skipped : /\ position' = n + 1
                             /\ dataProducts' = Append(dataProducts, file[n + 1])
    BY <1>4
  <2>2. n \in position..(Len(file) - 1)
    BY DEF Skipped
  <2>3. n + 1 \in 1..Len(file)
    BY <1>1, <2>2
  <2>4. file[n + 1] \in Products
    BY <1>1, <2>3
  <2>5. dataProducts' \in Seq(Products)
    BY <1>1, <2>1, <2>4
  <2>6. /\ n + 1 \in 1..Len(file) /\ position' = n + 1 /\ file[n + 1] \in Products
        /\ dataProducts' = Append(dataProducts, file[n + 1])
    BY <2>1, <2>3, <2>4
  <2>7. /\ position' \in 0..Len(file) /\ endOfFile' \in BOOLEAN
        /\ ~endOfFile /\ ~endOfFile'
    BY <1>1, <1>4, <2>3, <2>6
  <2>. QED
    BY <2>5, <2>6, <2>7
<1>. QED
  BY <1>2, <1>3, <1>4 DEF ReadNextDataProduct

LEMMA InitQueue == Init => QueueInv
<1> SUFFICES ASSUME Init PROVE QueueInv
  OBVIOUS
<1>1. << >> \in Seq(Products) /\ Len(<< >>) = 0
  OBVIOUS
<1>2. TypeOK
  <2>1. /\ delivered \in 0..MaxProducts /\ position \in 0..Len(file)
        /\ Len(batch) <= MaxBatch /\ Len(held) <= 1
    BY <1>1, PlaybackAssumption DEF Init
  <2>2. /\ batch \in Seq(Products) /\ file \in Seq(Products) /\ held \in Seq(Products)
        /\ dataProducts \in Seq(Products) /\ published \in Seq(Products)
    BY <1>1 DEF Init
  <2>. QED
    BY <2>1, <2>2 DEF Init, TypeOK
<1>. QED
  BY <1>1, <1>2, PlaybackAssumption
  DEF Init, QueueInv, HandsFull, PopsWhatIsThere, QueueRoom, Extra

LEMMA SubscriptionFilledQueue ==
    ASSUME QueueInv, NEW ids \in Batches, SubscriptionFilled(ids)
    PROVE  QueueInv'
<1>1. PICK n \in 1..MaxBatch : ids \in [1..n -> ProductIDs]
  BY DEF Batches
<1>2. n \in Nat \ {0} /\ n <= MaxBatch /\ Len(ids) = n
  BY <1>1, PlaybackAssumption
<1>3. delivered \in Nat /\ delivered' \in 0..MaxProducts /\ MaxProducts \in Nat
      /\ delivered' = delivered + n
  BY <1>2, PlaybackAssumption DEF QueueInv, TypeOK, SubscriptionFilled
<1>4. /\ batch' \in Seq(Products) /\ Len(batch') <= MaxBatch
      /\ archiver' \in {"idle", "writing", "crashed"}
      /\ archiver' = "writing" => batch' # << >>
  <2>1. CASE /\ ~suspend /\ archiver' = "writing"
             /\ batch' = [i \in 1..Len(ids) |->
                            [id |-> ids[i], number |-> delivered + i]]
    <3>1. ASSUME NEW i \in 1..n
          PROVE  [id |-> ids[i], number |-> delivered + i] \in Products
      BY <1>1, <1>2, <1>3 DEF Products
    <3>2. batch' \in [1..n -> Products]
      BY <1>2, <2>1, <3>1
    <3>3. batch' \in Seq(Products) /\ Len(batch') = n
      BY <1>2, <3>2
    <3>. QED
      BY <1>2, <2>1, <3>3
  <2>2. CASE suspend /\ UNCHANGED <<archiver, batch>>
    BY <2>2 DEF QueueInv, TypeOK, HandsFull
  <2>. QED
    BY <2>1, <2>2 DEF SubscriptionFilled
<1>. QED
  BY <1>3, <1>4
  DEF SubscriptionFilled, fileVars, replayVars, QueueInv, TypeOK, HandsFull,
      PopsWhatIsThere, QueueRoom, Extra

LEMMA WriteQueue == QueueInv /\ Write => QueueInv'
<1> SUFFICES ASSUME QueueInv, Write PROVE QueueInv'
  OBVIOUS
<1>1. batch \in Seq(Products) /\ batch # << >> /\ file \in Seq(Products)
      /\ Len(batch) <= MaxBatch /\ MaxBatch \in Nat
  BY PlaybackAssumption DEF QueueInv, TypeOK, HandsFull, Write
<1>2. Head(batch) \in Products /\ Tail(batch) \in Seq(Products)
      /\ Len(Tail(batch)) = Len(batch) - 1 /\ Len(batch) \in Nat
  BY <1>1
<1>3. batch' \in Seq(Products) /\ Len(batch') <= MaxBatch
  BY <1>1, <1>2 DEF Write
<1>4. file' \in Seq(Products) /\ Len(file') = Len(file) + 1 /\ Len(file) \in Nat
  BY <1>1, <1>2 DEF Write
<1>5. position' \in 0..Len(file')
  BY <1>4 DEF QueueInv, TypeOK, Write, fileVars
<1>. QED
  BY <1>3, <1>4, <1>5
  DEF Write, fileVars, replayVars, QueueInv, TypeOK, HandsFull, PopsWhatIsThere,
      QueueRoom, Extra

LEMMA ReaderReadsQueue == QueueInv /\ ReaderReads => QueueInv'
<1> SUFFICES ASSUME QueueInv, ReaderReads PROVE QueueInv'
  OBVIOUS
<1>1. /\ position' \in 0..Len(file) /\ endOfFile' \in BOOLEAN
      /\ dataProducts' \in Seq(Products)
      /\ \/ dataProducts' = dataProducts
         \/ ~endOfFile /\ \E x \in Products : dataProducts' = Append(dataProducts, x)
  BY ReadMeans DEF QueueInv, ReaderReads
<1>2. /\ dataProducts \in Seq(Products) /\ Extra \in {0, 1} /\ Capacity \in Nat
      /\ reader = "read"
      /\ Len(dataProducts) <= Capacity + 1 + Extra
      /\ ~endOfFile => Len(dataProducts) <= Capacity + Extra
  BY PlaybackAssumption DEF QueueInv, TypeOK, QueueRoom, Extra, ReaderReads
<1>3. Len(dataProducts') <= Capacity + 1 + Extra
      /\ (dataProducts # << >> => dataProducts' # << >>)
  <2>1. CASE dataProducts' = dataProducts
    BY <1>2, <2>1
  <2>2. ASSUME ~endOfFile, NEW x \in Products, dataProducts' = Append(dataProducts, x)
        PROVE  Len(dataProducts') <= Capacity + 1 + Extra /\ dataProducts' # << >>
    <3>1. Len(dataProducts') = Len(dataProducts) + 1 /\ dataProducts' # << >>
          /\ Len(dataProducts) \in Nat
      BY <1>2, <2>2, AppendProperties
    <3>. QED
      BY <1>2, <2>2, <3>1
  <2>. QED
    BY <1>1, <2>1, <2>2
<1>4. reader' \in {"full", "ended"}
  BY DEF ReaderReads
<1>. QED
  BY <1>1, <1>3, <1>4
  DEF ReaderReads, archiverVars, replayVars, QueueInv, TypeOK, HandsFull,
      PopsWhatIsThere, QueueRoom, Extra

LEMMA ReplayReadsQueue == QueueInv /\ ReplayReads => QueueInv'
<1> SUFFICES ASSUME QueueInv, ReplayReads PROVE QueueInv'
  OBVIOUS
<1>1. /\ position' \in 0..Len(file) /\ endOfFile' \in BOOLEAN
      /\ dataProducts' \in Seq(Products)
      /\ \/ dataProducts' = dataProducts /\ endOfFile' = TRUE
         \/ /\ ~endOfFile
            /\ \E x \in Products : dataProducts' = Append(dataProducts, x)
  BY ReadMeans DEF QueueInv, ReplayReads
<1>2. /\ dataProducts \in Seq(Products) /\ Capacity \in Nat
      /\ Len(dataProducts) <= Capacity + 1
      /\ reader = "read" /\ ~endOfFile => Len(dataProducts) <= Capacity
  BY PlaybackAssumption DEF QueueInv, TypeOK, QueueRoom, Extra, ReplayReads
<1>3. CASE Len(dataProducts') = 0
  <2>1. replay' = "ended" /\ reader' = reader
    BY <1>3 DEF ReplayReads
  <2>. QED
    BY <1>1, <1>2, <1>3, <2>1
    DEF ReplayReads, archiverVars, QueueInv, TypeOK, HandsFull, PopsWhatIsThere,
        QueueRoom, Extra
<1>4. CASE Len(dataProducts') # 0
  <2>1. replay' = "pop" /\ reader' = reader /\ dataProducts' # << >>
    BY <1>4 DEF ReplayReads
  <2>2. Len(dataProducts') <= Capacity + 2
        /\ (reader' = "read" /\ ~endOfFile' => Len(dataProducts') <= Capacity + 1)
    <3>1. CASE dataProducts' = dataProducts /\ endOfFile' = TRUE
      BY <1>2, <3>1
    <3>2. ASSUME ~endOfFile, NEW x \in Products, dataProducts' = Append(dataProducts, x)
          PROVE  /\ Len(dataProducts') <= Capacity + 2
                 /\ reader' = "read" => Len(dataProducts') <= Capacity + 1
      <4>1. Len(dataProducts') = Len(dataProducts) + 1 /\ Len(dataProducts) \in Nat
        BY <1>2, <3>2, AppendProperties
      <4>. QED
        BY <1>2, <2>1, <3>2, <4>1
    <3>. QED
      BY <1>1, <3>1, <3>2
  <2>. QED
    BY <1>1, <1>2, <2>1, <2>2
    DEF ReplayReads, archiverVars, QueueInv, TypeOK, HandsFull, PopsWhatIsThere,
        QueueRoom, Extra
<1>. QED
  BY <1>3, <1>4

LEMMA PopQueue == QueueInv /\ PopGravityDataProduct => QueueInv'
<1> SUFFICES ASSUME QueueInv, PopGravityDataProduct PROVE QueueInv'
  OBVIOUS
<1>1. /\ dataProducts \in Seq(Products) /\ dataProducts # << >> /\ Capacity \in Nat
      /\ Len(dataProducts) <= Capacity + 2
      /\ reader = "read" /\ ~endOfFile => Len(dataProducts) <= Capacity + 1
  BY PlaybackAssumption
  DEF QueueInv, TypeOK, QueueRoom, Extra, PopGravityDataProduct
<1>2. Head(dataProducts) \in Products /\ Tail(dataProducts) \in Seq(Products)
      /\ Len(Tail(dataProducts)) = Len(dataProducts) - 1 /\ Len(dataProducts) \in Nat
  BY <1>1, HeadTailProperties
<1>3. held' \in Seq(Products) /\ Len(held') = 1
  BY <1>2 DEF PopGravityDataProduct
<1>4. dataProducts' \in Seq(Products) /\ Len(dataProducts') <= Capacity + 1
      /\ (reader' = "read" /\ ~endOfFile' => Len(dataProducts') <= Capacity)
  <2>1. dataProducts' = Tail(dataProducts) /\ reader' = reader
        /\ endOfFile' = endOfFile
    BY DEF PopGravityDataProduct
  <2>. QED
    BY <1>1, <1>2, <2>1
<1>. QED
  BY <1>1, <1>3, <1>4
  DEF PopGravityDataProduct, archiverVars, QueueInv, TypeOK, HandsFull,
      PopsWhatIsThere, QueueRoom, Extra

LEMMA PublishQueue == QueueInv /\ Publish => QueueInv'
<1> SUFFICES ASSUME QueueInv, Publish PROVE QueueInv'
  OBVIOUS
<1>1. held \in Seq(Products) /\ Len(held) = 1 /\ published \in Seq(Products)
  BY DEF QueueInv, TypeOK, HandsFull, Publish
<1>2. Head(held) \in Products
  BY <1>1
<1>3. Head(held).id \in ProductIDs /\ published \o held \in Seq(Products)
  BY <1>1, <1>2 DEF Products
<1>. QED
  BY <1>3
  DEF Publish, archiverVars, fileVars, QueueInv, TypeOK, HandsFull, PopsWhatIsThere,
      QueueRoom, Extra

LEMMA NextQueue == QueueInv /\ [Next]_vars => QueueInv'
<1> SUFFICES ASSUME QueueInv, [Next]_vars PROVE QueueInv'
  OBVIOUS
<1>1. CASE UNCHANGED vars
  BY <1>1 DEF vars, archiverVars, fileVars, replayVars, QueueInv, TypeOK, HandsFull,
              PopsWhatIsThere, QueueRoom, Extra
<1>2. CASE Control
  BY <1>2 DEF Control, fileVars, replayVars, QueueInv, TypeOK, HandsFull,
              PopsWhatIsThere, QueueRoom, Extra
<1>3. CASE Crash
  BY <1>3 DEF Crash, fileVars, replayVars, QueueInv, TypeOK, HandsFull,
              PopsWhatIsThere, QueueRoom, Extra
<1>4. CASE ReaderContinues
  BY <1>4, PlaybackAssumption
  DEF ReaderContinues, Full, archiverVars, fileVars, replayVars, QueueInv, TypeOK,
      HandsFull, PopsWhatIsThere, QueueRoom, Extra
<1>5. CASE HasData
  BY <1>5, PlaybackAssumption
  DEF HasData, archiverVars, fileVars, QueueInv, TypeOK, HandsFull, PopsWhatIsThere,
      QueueRoom, Extra
<1>. QED
  BY <1>1, <1>2, <1>3, <1>4, <1>5, SubscriptionFilledQueue, WriteQueue,
     ReaderReadsQueue, ReplayReadsQueue, PopQueue, PublishQueue DEF Next

\* The replaying thread, which tests the queue and takes from it in two steps,
\* never finds it empty when it takes.
THEOREM PopsWhatIsThereHolds == Spec => []PopsWhatIsThere
<1>1. QueueInv => PopsWhatIsThere
  BY DEF QueueInv
<1>. QED
  BY <1>1, InitQueue, NextQueue, PTL DEF Spec

\* The queue never has more than two products above the size the reader waits
\* for, however long the archive is, and every variable has its type.
THEOREM QueueIsBoundedHolds == Spec => []QueueIsBounded
<1>1. QueueInv => QueueIsBounded
  BY PlaybackAssumption DEF QueueInv, QueueIsBounded, QueueRoom, Extra, TypeOK
<1>. QED
  BY <1>1, InitQueue, NextQueue, PTL DEF Spec

(***************************************************************************)
(* The members of a finite set of positions in their order.                *)
(***************************************************************************)

\* A set of natural numbers that is not empty has a smallest member.
LEMMA Smallest ==
    ASSUME NEW T, T \subseteq Nat, T # {}
    PROVE  \E x \in T : \A y \in T : x <= y
<1>1. IsWellFoundedOn(OpToRel(<, Nat), Nat)
  BY NatLessThanWellFounded, Zenon
<1>2. PICK x \in T : \A y \in T : ~(<<y, x>> \in OpToRel(<, Nat))
  BY <1>1, WFMin, Zenon
<1>3. ASSUME NEW y \in T PROVE x <= y
  <2>1. x \in Nat /\ y \in Nat
    OBVIOUS
  <2>2. ~(y < x)
    BY <1>2, <2>1 DEF OpToRel
  <2>. QED
    BY <2>1, <2>2
<1>. QED
  BY <1>3

LEMMA FinitePositions ==
    ASSUME NEW n \in Nat, NEW S \in SUBSET (1..n)
    PROVE  IsFiniteSet(S) /\ Cardinality(S) \in Nat
<1>1. IsFiniteSet(1..n)
  BY FS_Interval
<1>2. IsFiniteSet(S)
  BY <1>1, FS_Subset
<1>. QED
  BY <1>2, FS_CardinalityType

\* The part of a set of positions that a rank counts.
LEMMA RankType ==
    ASSUME NEW n \in Nat, NEW S \in SUBSET (1..n), NEW x \in S
    PROVE  /\ IsFiniteSet(S) /\ Cardinality(S) \in Nat
           /\ IsFiniteSet({m \in S : m <= x})
           /\ Rank(S, x) \in 1..Cardinality(S)
<1>1. IsFiniteSet(S) /\ Cardinality(S) \in Nat
  BY FinitePositions
<1> DEFINE below == {m \in S : m <= x}
<1>2. IsFiniteSet(below) /\ Cardinality(below) <= Cardinality(S)
      /\ Cardinality(below) \in Nat
  BY <1>1, FS_Subset, FS_CardinalityType
<1>3. Cardinality(below) # 0
  <2>1. x \in below
    OBVIOUS
  <2>. QED
    BY <1>2, <2>1, FS_EmptySet
<1>. QED
  BY <1>1, <1>2, <1>3 DEF Rank

LEMMA RankUnique ==
    ASSUME NEW n \in Nat, NEW S \in SUBSET (1..n), NEW x \in S, NEW y \in S,
           Rank(S, x) = Rank(S, y)
    PROVE  x = y
<1>1. ASSUME NEW a \in S, NEW b \in S, a < b PROVE Rank(S, a) # Rank(S, b)
  <2> DEFINE A == {m \in S : m <= a}
             B == {m \in S : m <= b}
  <2>1. IsFiniteSet(B)
    BY RankType
  <2>2. a \in Nat /\ b \in Nat /\ \A m \in S : m \in Nat
    OBVIOUS
  <2>3. /\ \A m \in S : m <= a => m <= b
        /\ b <= b /\ ~(b <= a)
    BY <1>1, <2>2
  <2>4. A \subseteq B /\ b \in B /\ b \notin A
    BY <2>3
  <2>5. Cardinality(A) # Cardinality(B)
    <3> HIDE DEF A, B
    <3>. QED
      BY <2>1, <2>4, FS_Subset
  <2>. QED
    BY <2>5 DEF Rank
<1>2. x \in Nat /\ y \in Nat
  OBVIOUS
<1>. QED
  BY <1>1, <1>2

\* A member keeps its rank when larger ones are added.
LEMMA RankKept ==
    ASSUME NEW S \in SUBSET Nat, NEW T \in SUBSET Nat, NEW x \in S, S \subseteq T,
           \A y \in T \ S : x < y
    PROVE  Rank(T, x) = Rank(S, x)
<1>1. ASSUME NEW m \in T, m <= x PROVE m \in S
  <2>1. m \in Nat /\ x \in Nat
    OBVIOUS
  <2>2. ~(x < m)
    BY <1>1, <2>1
  <2>. QED
    BY <2>2
<1>2. {m \in T : m <= x} = {m \in S : m <= x}
  BY <1>1
<1>. QED
  BY <1>2 DEF Rank

\* There is a member of every rank.
LEMMA RankExists ==
    ASSUME NEW n \in Nat, NEW S \in SUBSET (1..n), NEW k \in 1..Cardinality(S)
    PROVE  \E x \in S : Rank(S, x) = k
<1> DEFINE U(i) == S \cap (1..i)
           Has(i) == \A j \in 1..Cardinality(U(i)) : \E x \in U(i) : Rank(U(i), x) = j
           T == {i \in Nat : ~Has(i)}
<1>1. T = {}
  <2> SUFFICES ASSUME T # {} PROVE FALSE
    OBVIOUS
  <2>1. PICK i \in T : \A h \in T : i <= h
    <3> HIDE DEF T
    <3>1. T \subseteq Nat
      BY DEF T
    <3>. QED
      BY <3>1, Smallest
  <2>2. i \in Nat /\ ~Has(i)
    OBVIOUS
  <2>3. PICK j \in 1..Cardinality(U(i)) : ~\E x \in U(i) : Rank(U(i), x) = j
    BY <2>2
  <2>4. i # 0
    <3>1. i = 0 => U(i) = {}
      OBVIOUS
    <3>. QED
      BY <2>3, <3>1, FS_EmptySet
  <2>5. i - 1 \in Nat /\ Has(i - 1)
    <3> HIDE DEF Has
    <3>1. i - 1 \in Nat /\ ~(i <= i - 1)
      BY <2>2, <2>4
    <3>. QED
      BY <2>1, <3>1
  <2>6. IsFiniteSet(U(i - 1)) /\ Cardinality(U(i - 1)) \in Nat
    BY <2>5, FinitePositions
  <2>7. CASE i \notin S
    <3>1. U(i) = U(i - 1)
      BY <2>2, <2>4, <2>7
    <3>. QED
      BY <2>3, <2>5, <3>1
  <2>8. CASE i \in S
    <3>1. /\ U(i) = U(i - 1) \cup {i} /\ i \notin U(i - 1)
          /\ U(i - 1) \in SUBSET Nat /\ U(i) \in SUBSET Nat
      BY <2>2, <2>4, <2>8
    <3>2. Cardinality(U(i)) = Cardinality(U(i - 1)) + 1
      BY <2>6, <3>1, FS_AddElement
    <3>3. CASE j <= Cardinality(U(i - 1))
      <4>1. PICK x \in U(i - 1) : Rank(U(i - 1), x) = j
        <5>1. j \in 1..Cardinality(U(i - 1))
          BY <2>6, <3>3
        <5>. QED
          BY <2>5, <5>1
      <4>2. \A y \in U(i) \ U(i - 1) : x < y
        BY <2>2, <3>1
      <4>3. Rank(U(i), x) = j
        <5> HIDE DEF U
        <5>. QED
          BY <3>1, <4>1, <4>2, RankKept
      <4>. QED
        BY <2>3, <3>1, <4>3
    <3>4. CASE j > Cardinality(U(i - 1))
      <4>1. j = Cardinality(U(i))
        BY <2>3, <2>6, <3>2, <3>4
      <4>2. {m \in U(i) : m <= i} = U(i) /\ i \in U(i)
        BY <2>2, <3>1
      <4>. QED
        BY <2>3, <4>1, <4>2 DEF Rank
    <3>. QED
      BY <2>6, <3>3, <3>4
  <2>. QED
    BY <2>7, <2>8
<1>2. Has(n) /\ U(n) = S
  BY <1>1
<1>. QED
  BY <1>2

\* The k-th member, and the member that has rank k, are the same.
LEMMA NthMember ==
    ASSUME NEW n \in Nat, NEW S \in SUBSET (1..n), NEW k \in 1..Cardinality(S)
    PROVE  Nth(S, k) \in S /\ Rank(S, Nth(S, k)) = k
<1>1. \E x \in S : Rank(S, x) = k
  BY RankExists
<1>. QED
  BY <1>1 DEF Nth

LEMMA NthIs ==
    ASSUME NEW n \in Nat, NEW S \in SUBSET (1..n), NEW x \in S
    PROVE  Nth(S, Rank(S, x)) = x
<1>1. Rank(S, x) \in 1..Cardinality(S)
  BY RankType
<1>2. Nth(S, Rank(S, x)) \in S /\ Rank(S, Nth(S, Rank(S, x))) = Rank(S, x)
  BY <1>1, NthMember
<1>. QED
  BY <1>2, RankUnique

\* The first members stay the first when larger ones are added.
LEMMA NthKept ==
    ASSUME NEW n \in Nat, NEW S \in SUBSET (1..n), NEW T \in SUBSET (1..n),
           S \subseteq T, \A x \in S, y \in T \ S : x < y,
           NEW k \in 1..Cardinality(S)
    PROVE  Nth(T, k) = Nth(S, k)
<1>1. Nth(S, k) \in S /\ Rank(S, Nth(S, k)) = k
  BY NthMember
<1>2. \A y \in T \ S : Nth(S, k) < y
  BY <1>1
<1>3. Rank(T, Nth(S, k)) = Rank(S, Nth(S, k))
  <2>1. S \in SUBSET Nat /\ T \in SUBSET Nat
    OBVIOUS
  <2>. QED
    BY <1>1, <1>2, <2>1, RankKept
<1>. QED
  BY <1>1, <1>3, NthIs

(***************************************************************************)
(* Products selected from an archive.                                      *)
(***************************************************************************)

LEMMA SelectedType ==
    ASSUME NEW f \in Seq(Products), NEW n \in 0..Len(f), NEW S \in SUBSET (1..n)
    PROVE  /\ Cardinality(S) \in Nat
           /\ Selected(f, S) \in Seq(Products)
           /\ Len(Selected(f, S)) = Cardinality(S)
           /\ \A k \in 1..Cardinality(S) : /\ Selected(f, S)[k] = f[Nth(S, k)]
                                           /\ Nth(S, k) \in S
<1>1. n \in Nat /\ Len(f) \in Nat /\ \A x \in 1..n : x \in 1..Len(f)
  OBVIOUS
<1>2. Cardinality(S) \in Nat
  BY <1>1, FinitePositions
<1>3. ASSUME NEW k \in 1..Cardinality(S)
      PROVE  Nth(S, k) \in S /\ f[Nth(S, k)] \in Products
  <2>1. Nth(S, k) \in S
    BY <1>1, NthMember
  <2>2. Nth(S, k) \in 1..Len(f)
    BY <1>1, <2>1
  <2>. QED
    BY <2>1, <2>2
<1>4. Selected(f, S) = [k \in 1..Cardinality(S) |-> f[Nth(S, k)]]
  BY DEF Selected
<1>5. Selected(f, S) \in [1..Cardinality(S) -> Products]
  BY <1>3, <1>4
<1>6. Selected(f, S) \in Seq(Products) /\ Len(Selected(f, S)) = Cardinality(S)
  <2> HIDE DEF Selected
  <2>. QED
    BY <1>2, <1>5
<1>. QED
  BY <1>2, <1>3, <1>4, <1>6

\* The selection is the beginning of one with further positions.
LEMMA SelectedKept ==
    ASSUME NEW f \in Seq(Products), NEW S \in SUBSET (1..Len(f)),
           NEW T \in SUBSET (1..Len(f)), S \subseteq T,
           \A x \in S, y \in T \ S : x < y
    PROVE  /\ Cardinality(S) <= Cardinality(T)
           /\ \A k \in 1..Cardinality(S) : Selected(f, T)[k] = Selected(f, S)[k]
<1>1. Len(f) \in Nat /\ Len(f) \in 0..Len(f)
  OBVIOUS
<1>2. /\ IsFiniteSet(T) /\ Cardinality(T) \in Nat /\ Cardinality(S) \in Nat
  BY <1>1, FinitePositions
<1>3. Cardinality(S) <= Cardinality(T)
  BY <1>2, FS_Subset
<1>4. ASSUME NEW k \in 1..Cardinality(S)
      PROVE  Selected(f, T)[k] = Selected(f, S)[k]
  <2>1. k \in 1..Cardinality(T)
    BY <1>2, <1>3
  <2>2. Nth(T, k) = Nth(S, k)
    BY <1>1, NthKept
  <2>3. Selected(f, T)[k] = f[Nth(T, k)] /\ Selected(f, S)[k] = f[Nth(S, k)]
    BY <1>1, <2>1, SelectedType
  <2>. QED
    BY <2>2, <2>3
<1>. QED
  BY <1>3, <1>4

\* One more position, behind the others.
LEMMA SelectedAdd ==
    ASSUME NEW f \in Seq(Products), NEW n \in 0..Len(f), NEW S \in SUBSET (1..n),
           NEW m \in 1..Len(f), n < m
    PROVE  Selected(f, S \cup {m}) = Append(Selected(f, S), f[m])
<1> DEFINE T == S \cup {m}
<1>1. /\ n \in Nat /\ Len(f) \in Nat /\ Len(f) \in 0..Len(f) /\ m \notin S
      /\ S \in SUBSET (1..Len(f)) /\ T \in SUBSET (1..Len(f))
      /\ \A x \in S, y \in T \ S : x < y
  OBVIOUS
<1>2. IsFiniteSet(S) /\ Cardinality(S) \in Nat
  BY <1>1, FinitePositions
<1>3. Cardinality(T) = Cardinality(S) + 1
  BY <1>1, <1>2, FS_AddElement
<1>4. Rank(T, m) = Cardinality(T)
  <2>1. \A x \in T : x <= m
    BY <1>1
  <2>2. {x \in T : x <= m} = T
    BY <2>1
  <2>. QED
    BY <2>2 DEF Rank
<1>5. Nth(T, Cardinality(T)) = m
  <2>1. m \in T
    OBVIOUS
  <2> HIDE DEF T
  <2>. QED
    BY <1>1, <1>4, <2>1, NthIs
<1> HIDE DEF T
<1>6. /\ Selected(f, T) \in Seq(Products) /\ Len(Selected(f, T)) = Cardinality(T)
      /\ Selected(f, T)[Cardinality(T)] = f[m]
  <2>1. Cardinality(T) \in 1..Cardinality(T)
    BY <1>2, <1>3
  <2>. QED
    BY <1>1, <1>5, <2>1, SelectedType
<1>7. Selected(f, S) \in Seq(Products) /\ Len(Selected(f, S)) = Cardinality(S)
  BY SelectedType
<1>8. f[m] \in Products
  OBVIOUS
<1>9. \A k \in 1..Cardinality(S) : Selected(f, T)[k] = Selected(f, S)[k]
  <2>1. S \subseteq T
    BY DEF T
  <2>. QED
    BY <1>1, <2>1, SelectedKept
<1> DEFINE a == Append(Selected(f, S), f[m])
<1>10. /\ a \in Seq(Products) /\ Len(a) = Cardinality(T)
       /\ \A k \in 1..Cardinality(S) : a[k] = Selected(f, S)[k]
       /\ a[Cardinality(T)] = f[m]
  BY <1>2, <1>3, <1>7, <1>8, AppendProperties
<1> HIDE DEF a
<1>11. \A k \in 1..Cardinality(T) : Selected(f, T)[k] = a[k]
  BY <1>2, <1>3, <1>6, <1>9, <1>10
<1>12. Selected(f, T) = a
  BY <1>6, <1>10, <1>11, SeqEqual
<1>. QED
  BY <1>12 DEF a, T

\* Only the positions that are selected matter.
LEMMA SelectedSame ==
    ASSUME NEW f \in Seq(Products), NEW g \in Seq(Products),
           NEW n \in 0..Len(f), n <= Len(g), \A i \in 1..n : f[i] = g[i],
           NEW S \in SUBSET (1..n)
    PROVE  Selected(f, S) = Selected(g, S)
<1>1. n \in 0..Len(g)
  OBVIOUS
<1>2. ASSUME NEW k \in 1..Cardinality(S)
      PROVE  Selected(f, S)[k] = Selected(g, S)[k]
  <2>1. /\ Selected(f, S)[k] = f[Nth(S, k)] /\ Selected(g, S)[k] = g[Nth(S, k)]
        /\ Nth(S, k) \in S
    BY <1>1, SelectedType
  <2>. QED
    BY <2>1
<1>3. /\ Selected(f, S) \in Seq(Products) /\ Selected(g, S) \in Seq(Products)
      /\ Len(Selected(f, S)) = Cardinality(S) /\ Len(Selected(g, S)) = Cardinality(S)
  BY <1>1, SelectedType
<1>. QED
  BY <1>2, <1>3, SeqEqual

\* A record that is written at the end is of interest or changes nothing.
LEMMA InterestingAppend ==
    ASSUME NEW f \in Seq(Products), NEW x \in Products
    PROVE  Interesting(Append(f, x)) =
             IF OfInterest(x) THEN Append(Interesting(f), x) ELSE Interesting(f)
<1> DEFINE g == Append(f, x)
           m == Len(f) + 1
           S == Chosen(f, Len(f))
<1>1. /\ g \in Seq(Products) /\ Len(g) = m /\ \A i \in 1..Len(f) : g[i] = f[i]
      /\ g[m] = x /\ Len(f) \in Nat
  BY AppendProperties
<1>2. /\ S \in SUBSET (1..Len(f)) /\ Len(f) \in 0..Len(f) /\ Len(f) \in 0..Len(g)
      /\ Len(f) <= Len(g) /\ m \in 1..Len(g) /\ Len(f) < m
  BY <1>1 DEF Chosen
<1>3. Chosen(g, m) = IF OfInterest(x) THEN S \cup {m} ELSE S
  <2> HIDE DEF g
  <2>1. \A i \in 1..m : i \in 1..Len(f) \/ i = m
    BY <1>1
  <2>2. \A i \in 1..Len(f) : i \in 1..m /\ i # m
    BY <1>1
  <2>3. m \in 1..m
    BY <1>1
  <2> HIDE DEF m
  <2>. QED
    BY <1>1, <2>1, <2>2, <2>3 DEF Chosen
<1> HIDE DEF g, S
<1>4. Selected(g, S) = Interesting(f)
  BY <1>1, <1>2, SelectedSame DEF Interesting, S
<1>5. Selected(g, S \cup {m}) = Append(Selected(g, S), x)
  BY <1>1, <1>2, SelectedAdd
<1>6. Interesting(g) = Selected(g, Chosen(g, m))
  BY <1>1 DEF Interesting
<1>. QED
  BY <1>3, <1>4, <1>5, <1>6 DEF g

\* What is selected from what has been read, after reading on to the next
\* record of interest and after reaching the end.
LEMMA ChosenRead ==
    ASSUME TypeOK, NEW n \in Skipped
    PROVE  Chosen(file, n + 1) = Chosen(file, position) \cup {n + 1}
<1>1. /\ position \in Nat /\ n \in Nat /\ position <= n
      /\ OfInterest(file[n + 1])
      /\ \A m \in (position + 1)..n : ~OfInterest(file[m])
  BY DEF TypeOK, Skipped
<1>2. ASSUME NEW m \in 1..(n + 1), m \notin 1..position, m # n + 1
      PROVE  m \in (position + 1)..n
  BY <1>1, <1>2
<1>3. \A m \in 1..position : m \in 1..(n + 1)
  BY <1>1
<1>4. n + 1 \in 1..(n + 1)
  BY <1>1
<1>. QED
  BY <1>1, <1>2, <1>3, <1>4 DEF Chosen

LEMMA ChosenEnd ==
    ASSUME TypeOK, Skipped = {}
    PROVE  Chosen(file, Len(file)) = Chosen(file, position)
<1> DEFINE T == {m \in (position + 1)..Len(file) : OfInterest(file[m])}
<1>1. position \in Nat /\ Len(file) \in Nat /\ position <= Len(file)
  BY DEF TypeOK
<1>2. T = {}
  <2> SUFFICES ASSUME T # {} PROVE FALSE
    OBVIOUS
  <2>1. T \subseteq Nat
    BY <1>1
  <2>2. PICK m \in T : \A y \in T : m <= y
    <3> HIDE DEF T
    <3>. QED
      BY <2>1, Smallest
  <2>3. m \in Nat /\ m \in (position + 1)..Len(file) /\ OfInterest(file[m])
    BY <2>1
  <2>4. m - 1 \in position..(Len(file) - 1) /\ (m - 1) + 1 = m
    BY <1>1, <2>3
  <2>5. ASSUME NEW h \in (position + 1)..(m - 1) PROVE ~OfInterest(file[h])
    <3>1. h \in (position + 1)..Len(file) /\ ~(m <= h)
      BY <1>1, <2>3
    <3>. QED
      BY <2>2, <3>1
  <2>6. m - 1 \in Skipped
    BY <2>3, <2>4, <2>5 DEF Skipped
  <2>. QED
    BY <2>6
<1>3. \A m \in 1..Len(file) : m \in 1..position \/ m \in (position + 1)..Len(file)
  BY <1>1
<1>4. \A m \in 1..position : m \in 1..Len(file)
  BY <1>1
<1>5. \A m \in (position + 1)..Len(file) : ~OfInterest(file[m])
  BY <1>2
<1>. QED
  BY <1>3, <1>4, <1>5 DEF Chosen

(***************************************************************************)
(* What has been read is the beginning of the archive.                     *)
(***************************************************************************)

LEMMA ContentsType ==
    ASSUME QueueInv
    PROVE  /\ published \in Seq(Products) /\ held \in Seq(Products)
           /\ dataProducts \in Seq(Products) /\ Contents \in Seq(Products)
           /\ Len(Contents) = Len(published) + Len(held) + Len(dataProducts)
           /\ \A k \in 1..Len(held) : Contents[Len(published) + k] = held[k]
<1>1. /\ published \in Seq(Products) /\ held \in Seq(Products)
      /\ dataProducts \in Seq(Products)
  BY DEF QueueInv, TypeOK
<1>2. /\ published \o held \in Seq(Products)
      /\ Len(published \o held) = Len(published) + Len(held)
      /\ \A i \in 1..(Len(published) + Len(held)) : (published \o held)[i] =
           IF i <= Len(published) THEN published[i] ELSE held[i - Len(published)]
  BY <1>1, ConcatProperties
<1> DEFINE a == published \o held
<1>3. /\ a \o dataProducts \in Seq(Products)
      /\ Len(a \o dataProducts) = Len(a) + Len(dataProducts)
      /\ \A i \in 1..(Len(a) + Len(dataProducts)) : (a \o dataProducts)[i] =
           IF i <= Len(a) THEN a[i] ELSE dataProducts[i - Len(a)]
  BY <1>1, <1>2, ConcatProperties
<1>4. Contents = a \o dataProducts
  BY DEF Contents
<1>5. ASSUME NEW k \in 1..Len(held) PROVE Contents[Len(published) + k] = held[k]
  <2> HIDE DEF a
  <2>1. /\ Len(published) \in Nat /\ Len(held) \in Nat /\ Len(dataProducts) \in Nat
    BY <1>1
  <2>2. /\ Len(published) + k \in 1..(Len(published) + Len(held))
        /\ Len(published) + k \in 1..(Len(a) + Len(dataProducts))
        /\ Len(published) + k <= Len(a) /\ ~(Len(published) + k <= Len(published))
        /\ (Len(published) + k) - Len(published) = k
    BY <1>2, <2>1 DEF a
  <2>3. (a \o dataProducts)[Len(published) + k] = a[Len(published) + k]
    BY <1>3, <2>2
  <2>4. a[Len(published) + k] = held[k]
    BY <1>2, <2>2 DEF a
  <2>. QED
    BY <1>4, <2>3, <2>4
<1>. QED
  BY <1>1, <1>2, <1>3, <1>4, <1>5

LEMMA ChosenType ==
    ASSUME NEW f, NEW n \in Nat
    PROVE  Chosen(f, n) \in SUBSET (1..n)
  BY DEF Chosen

\* Reading, by whichever thread.
LEMMA ReadStep ==
    ASSUME ReplayInv, ReadNextDataProduct,
           file' = file, published' = published, held' = held
    PROVE  /\ ReadInv'
           /\ \/ Contents' = Contents /\ endOfFile' /\ endOfFile
              \/ /\ Contents' = Contents /\ endOfFile' /\ ~endOfFile
                 /\ Contents = Interesting(file)
              \/ ~endOfFile /\ ~endOfFile'
<1>1. TypeOK /\ Contents = Selected(file, Chosen(file, position))
      /\ file \in Seq(Products) /\ endOfFile \in BOOLEAN
  BY DEF ReplayInv, ReadInv, QueueInv, TypeOK
<1>2. CASE endOfFile /\ UNCHANGED fileVars
  <2>1. Contents' = Contents /\ position' = position /\ endOfFile' = endOfFile
    BY <1>2 DEF fileVars, Contents
  <2>. QED
    BY <1>1, <1>2, <2>1 DEF ReadInv
<1>3. CASE /\ ~endOfFile /\ Skipped = {}
           /\ position' = Len(file) /\ endOfFile' = TRUE
           /\ UNCHANGED dataProducts
  <2>1. Contents' = Contents
    BY <1>3 DEF Contents
  <2>2. Chosen(file, Len(file)) = Chosen(file, position)
    BY <1>1, <1>3, ChosenEnd
  <2>3. Contents = Interesting(file)
    BY <1>1, <2>2 DEF Interesting
  <2>4. ReadInv'
    BY <1>1, <1>3, <2>1, <2>2 DEF ReadInv
  <2>. QED
    BY <1>3, <2>1, <2>3, <2>4
<1>4. CASE /\ ~endOfFile
           /\ \E n \in Skipped : /\ position' = n + 1
                                 /\ dataProducts' = Append(dataProducts, file[n + 1])
           /\ UNCHANGED endOfFile
  <2>1. PICK n \in Skipped : /\ position' = n + 1
                             /\ dataProducts' = Append(dataProducts, file[n + 1])
    BY <1>4
  <2>2. /\ position \in 0..Len(file) /\ Len(file) \in Nat /\ position \in Nat
        /\ n + 1 \in 1..Len(file) /\ position < n + 1
    BY <1>1 DEF TypeOK, Skipped
  <2>3. Chosen(file, n + 1) = Chosen(file, position) \cup {n + 1}
    BY <1>1, ChosenRead
  <2>4. Selected(file, Chosen(file, n + 1)) = Append(Contents, file[n + 1])
    <3>1. Chosen(file, position) \in SUBSET (1..position)
      BY <2>2, ChosenType
    <3>. QED
      BY <1>1, <2>2, <2>3, <3>1, SelectedAdd
  <2>5. Contents' = Append(Contents, file[n + 1])
    <3> DEFINE x == file[n + 1]
               a == published \o held
    <3>1. x \in Products
      BY <1>1, <2>2
    <3>2. a \in Seq(Products) /\ dataProducts \in Seq(Products)
          /\ Contents \in Seq(Products) /\ Contents = a \o dataProducts
      BY ContentsType, ConcatProperties DEF ReplayInv, Contents
    <3>3. Contents' = a \o Append(dataProducts, x)
      BY <2>1 DEF Contents
    <3> HIDE DEF a, x
    <3>4. Append(dataProducts, x) = dataProducts \o <<x>>
      BY <3>1, <3>2, AppendIsConcat
    <3>5. Append(Contents, x) = (a \o dataProducts) \o <<x>>
      BY <3>1, <3>2, AppendIsConcat
    <3>6. <<x>> \in Seq(Products)
      BY <3>1
    <3>7. (a \o dataProducts) \o <<x>> = a \o (dataProducts \o <<x>>)
      BY <3>2, <3>6, ConcatAssociative
    <3>8. Contents' = Append(Contents, x)
      BY <3>3, <3>4, <3>5, <3>7
    <3>. QED
      BY <3>8 DEF x
  <2>6. ReadInv'
    BY <2>1, <2>4, <2>5 DEF ReadInv
  <2>. QED
    BY <1>1, <1>4, <2>6
<1>. QED
  BY <1>2, <1>3, <1>4 DEF ReadNextDataProduct

LEMMA WriteRead == ReplayInv /\ Write => ReadInv'
<1> SUFFICES ASSUME ReplayInv, Write PROVE ReadInv'
  OBVIOUS
<1>1. /\ file \in Seq(Products) /\ position \in 0..Len(file) /\ Len(file) \in Nat
      /\ batch \in Seq(Products) /\ batch # << >>
      /\ Contents = Selected(file, Chosen(file, position))
  BY DEF ReplayInv, ReadInv, QueueInv, TypeOK, HandsFull, Write
<1>2. Head(batch) \in Products /\ file' = Append(file, Head(batch))
  BY <1>1, HeadTailProperties DEF Write
<1>3. /\ file' \in Seq(Products) /\ Len(file') = Len(file) + 1
      /\ \A i \in 1..Len(file) : file'[i] = file[i]
  BY <1>1, <1>2, AppendProperties
<1>4. position \in Nat /\ position <= Len(file') /\ \A i \in 1..position : file[i] = file'[i]
  BY <1>1, <1>3
<1>5. Chosen(file', position) = Chosen(file, position)
  BY <1>4 DEF Chosen
<1>6. Chosen(file, position) \in SUBSET (1..position)
  BY <1>4, ChosenType
<1>7. Selected(file, Chosen(file, position)) = Selected(file', Chosen(file, position))
  BY <1>1, <1>3, <1>4, <1>6, SelectedSame
<1>8. Contents' = Contents /\ position' = position
  BY DEF Write, Contents, fileVars, replayVars
<1>. QED
  BY <1>1, <1>5, <1>7, <1>8 DEF ReadInv

\* Taking a product from the queue and publishing it only move it.
LEMMA PopContents ==
    ASSUME QueueInv, PopGravityDataProduct
    PROVE  Contents' = Contents
<1>1. /\ published \in Seq(Products) /\ dataProducts \in Seq(Products)
      /\ dataProducts # << >> /\ held = << >>
      /\ held' = <<Head(dataProducts)>> /\ dataProducts' = Tail(dataProducts)
      /\ published' = published
  BY DEF QueueInv, TypeOK, HandsFull, PopGravityDataProduct
<1>2. Head(dataProducts) \in Products /\ Tail(dataProducts) \in Seq(Products)
  BY <1>1, HeadTailProperties
<1>3. <<Head(dataProducts)>> \in Seq(Products)
  BY <1>2
<1>4. <<Head(dataProducts)>> \o Tail(dataProducts) = dataProducts
  BY <1>1
<1>5. (published \o <<Head(dataProducts)>>) \o Tail(dataProducts) =
        published \o (<<Head(dataProducts)>> \o Tail(dataProducts))
  BY <1>1, <1>2, <1>3, ConcatAssociative
<1>6. published \o << >> = published
  BY <1>1, ConcatEmptySeq
<1>. QED
  BY <1>1, <1>4, <1>5, <1>6 DEF Contents

LEMMA PublishContents ==
    ASSUME QueueInv, Publish
    PROVE  Contents' = Contents
<1>1. /\ published \o held \in Seq(Products)
      /\ published' = published \o held /\ held' = << >>
      /\ dataProducts' = dataProducts
  BY ConcatProperties DEF QueueInv, TypeOK, Publish, fileVars
<1>2. (published \o held) \o << >> = published \o held
  BY <1>1, ConcatEmptySeq
<1>. QED
  BY <1>1, <1>2 DEF Contents

LEMMA NextRead == ReplayInv /\ [Next]_vars => ReplayInv'
<1> SUFFICES ASSUME ReplayInv, [Next]_vars PROVE ReadInv'
  BY NextQueue DEF ReplayInv
<1>1. CASE UNCHANGED <<published, held, dataProducts, file, position>>
  BY <1>1 DEF ReplayInv, ReadInv, Contents
<1>2. CASE Write
  BY <1>2, WriteRead
<1>3. CASE ReaderReads
  BY <1>3, ReadStep DEF ReaderReads, archiverVars, replayVars
<1>4. CASE ReplayReads
  BY <1>4, ReadStep DEF ReplayReads, archiverVars
<1>5. CASE PopGravityDataProduct
  BY <1>5, PopContents DEF ReplayInv, ReadInv, PopGravityDataProduct, archiverVars
<1>6. CASE Publish
  BY <1>6, PublishContents DEF ReplayInv, ReadInv, Publish, archiverVars, fileVars
<1>. QED
  BY <1>1, <1>2, <1>3, <1>4, <1>5, <1>6
  DEF Next, vars, archiverVars, fileVars, replayVars, Control, SubscriptionFilled,
      Crash, ReaderContinues, HasData

(***************************************************************************)
(* The safety part of ReplaysArchive: every step of the archiver and of    *)
(* the two threads is one of Replay, or none.                              *)
(***************************************************************************)

ReplaysArchiveSafely == Abstract!Init /\ [][Abstract!Next]_(Abstract!vars)

\* The archive and what has been read of it.
LEMMA ArchiveHas ==
    ASSUME ReplayInv
    PROVE  /\ Interesting(file) \in Seq(Products)
           /\ Len(Contents) <= Len(Interesting(file))
           /\ \A k \in 1..Len(Contents) : Contents[k] = Interesting(file)[k]
<1> DEFINE S == Chosen(file, position)
           T == Chosen(file, Len(file))
<1>1. /\ file \in Seq(Products) /\ Len(file) \in Nat /\ position \in 0..Len(file)
      /\ Contents = Selected(file, S) /\ Interesting(file) = Selected(file, T)
  BY DEF ReplayInv, ReadInv, QueueInv, TypeOK, Interesting
<1>2. \A i \in 1..Len(file) : i \in 1..position \/ position < i
  BY <1>1
<1>3. /\ S \in SUBSET (1..position) /\ T \in SUBSET (1..Len(file))
      /\ S \in SUBSET (1..Len(file)) /\ S \subseteq T
  BY <1>1 DEF Chosen
<1>4. ASSUME NEW x \in S, NEW y \in T \ S PROVE x < y
  <2>1. x \in 1..position /\ y \in 1..Len(file) /\ y \notin 1..position
    BY DEF Chosen
  <2>. QED
    BY <1>1, <2>1
<1> HIDE DEF S, T
<1>5. Cardinality(S) <= Cardinality(T)
      /\ \A k \in 1..Cardinality(S) : Selected(file, T)[k] = Selected(file, S)[k]
  BY <1>1, <1>3, <1>4, SelectedKept
<1>6. Len(Contents) = Cardinality(S)
  BY <1>1, <1>3, SelectedType
<1>7. Len(Interesting(file)) = Cardinality(T) /\ Interesting(file) \in Seq(Products)
  <2>1. Len(file) \in 0..Len(file)
    BY <1>1
  <2>. QED
    BY <1>1, <1>3, <2>1, SelectedType
<1>. QED
  BY <1>1, <1>5, <1>6, <1>7

LEMMA EndMeans ==
    End = IF endOfFile THEN Len(Contents) ELSE -1
  BY DEF End, Contents

LEMMA InitReplay == Init => ReplayInv /\ Abstract!Init
<1> SUFFICES ASSUME Init PROVE ReplayInv /\ Abstract!Init
  OBVIOUS
<1>1. QueueInv
  BY InitQueue
<1>2. Chosen(file, position) = {} /\ Chosen(file, Len(file)) = {}
  BY DEF Init, Chosen
<1>3. Selected(file, {}) = << >>
  <2>1. Cardinality({}) = 0
    BY FS_EmptySet
  <2>2. 1..Cardinality({}) = {}
    BY <2>1
  <2>. QED
    BY <2>2 DEF Selected
<1>4. Contents = << >>
  BY DEF Init, Contents
<1>. QED
  BY <1>1, <1>2, <1>3, <1>4
  DEF ReplayInv, ReadInv, Interesting, Init, Abstract!Init, Abstract!NoEnd, End

\* The step of Replay that a read by either thread is.
LEMMA ReadIsAbstract ==
    ASSUME ReplayInv, ReadNextDataProduct,
           file' = file, published' = published, held' = held,
           (replay' = "ended") = (replay = "ended")
    PROVE  Abstract!ReachEnd \/ UNCHANGED Abstract!vars
<1>1. \/ Contents' = Contents /\ endOfFile' /\ endOfFile
      \/ /\ Contents' = Contents /\ endOfFile' /\ ~endOfFile
         /\ Contents = Interesting(file)
      \/ ~endOfFile /\ ~endOfFile'
  BY ReadStep
<1>2. End' = IF endOfFile' THEN Len(Contents)' ELSE -1
  BY DEF End, Contents
<1>3. Interesting(file)' = Interesting(file)
  BY DEF Interesting, Selected, Chosen, OfInterest
<1>4. CASE \/ Contents' = Contents /\ endOfFile' /\ endOfFile
           \/ ~endOfFile /\ ~endOfFile'
  BY <1>2, <1>3, <1>4, EndMeans DEF Abstract!vars
<1>5. CASE /\ Contents' = Contents /\ endOfFile' /\ ~endOfFile
           /\ Contents = Interesting(file)
  BY <1>2, <1>3, <1>5, EndMeans DEF Abstract!ReachEnd, Abstract!NoEnd
<1>. QED
  BY <1>1, <1>4, <1>5

\* The replaying thread finds nothing left: the replay is over.
LEMMA LastRead ==
    ASSUME ReplayInv, ReplayReads, replay' = "ended"
    PROVE  Abstract!Finish
<1>1. /\ Len(dataProducts') = 0 /\ replay = "read" /\ ReadNextDataProduct
      /\ file' = file /\ published' = published /\ held' = held
  BY DEF ReplayReads, archiverVars
<1>2. TypeOK /\ held = << >>
  BY <1>1 DEF ReplayInv, QueueInv, HandsFull
<1>3. /\ dataProducts' = dataProducts /\ endOfFile' = TRUE
      /\ dataProducts \in Seq(Products)
  <2>1. CASE dataProducts' = dataProducts /\ endOfFile' = TRUE
    BY <1>2, <2>1 DEF TypeOK
  <2>2. ASSUME NEW x \in Products, dataProducts' = Append(dataProducts, x)
        PROVE  FALSE
    <3>1. dataProducts \in Seq(Products)
      BY <1>2 DEF TypeOK
    <3>2. Len(dataProducts') = Len(dataProducts) + 1 /\ Len(dataProducts) \in Nat
      BY <2>2, <3>1, AppendProperties
    <3>. QED
      BY <1>1, <3>2
  <2>. QED
    BY <1>1, <1>2, <2>1, <2>2, ReadMeans
<1>4. Contents' = Contents /\ Len(Contents) = Len(published)
  <2>1. Len(held) = 0 /\ Len(dataProducts) = 0
    BY <1>1, <1>2, <1>3
  <2>2. Len(published) \in Nat
    BY <1>2 DEF TypeOK
  <2>. QED
    BY <1>1, <1>3, <2>1, <2>2, ContentsType DEF ReplayInv, Contents
<1>5. ~endOfFile => Contents = Interesting(file)
  BY <1>1, <1>3, ReadStep
<1>6. End' = Len(published)
  BY <1>3, <1>4 DEF End, Contents
<1>7. Interesting(file)' = Interesting(file)
  BY <1>1 DEF Interesting, Selected, Chosen, OfInterest
<1>8. Len(published) = IF End = -1 THEN Len(Interesting(file)) ELSE End
  <2>1. Len(published) \in Nat
    BY <1>2 DEF TypeOK
  <2>. QED
    BY <1>4, <1>5, <2>1, EndMeans
<1>. QED
  BY <1>1, <1>6, <1>7, <1>8 DEF Abstract!Finish, Abstract!NoEnd

LEMMA WriteIsAbstract ==
    ASSUME ReplayInv, Write
    PROVE  (\E x \in Products : Abstract!Record(x)) \/ UNCHANGED Abstract!vars
<1>1. /\ file \in Seq(Products) /\ batch \in Seq(Products) /\ batch # << >>
  BY DEF ReplayInv, QueueInv, TypeOK, HandsFull, Write
<1>2. Head(batch) \in Products /\ file' = Append(file, Head(batch))
  BY <1>1, HeadTailProperties DEF Write
<1>3. Interesting(file') = IF OfInterest(Head(batch))
                           THEN Append(Interesting(file), Head(batch))
                           ELSE Interesting(file)
  BY <1>1, <1>2, InterestingAppend
<1>4. /\ published' = published /\ End' = End /\ replay' = replay
  BY DEF Write, fileVars, replayVars, End
<1>5. CASE OfInterest(Head(batch))
  BY <1>2, <1>3, <1>4, <1>5 DEF Abstract!Record
<1>6. CASE ~OfInterest(Head(batch))
  BY <1>3, <1>4, <1>6 DEF Abstract!vars
<1>. QED
  BY <1>5, <1>6

LEMMA PublishIsAbstract ==
    ASSUME ReplayInv, Publish
    PROVE  Abstract!Publish
<1>1. /\ published \in Seq(Products) /\ held \in Seq(Products) /\ Len(held) = 1
      /\ published' = published \o held /\ replay = "publish" /\ replay' = "check"
      /\ file' = file /\ endOfFile' = endOfFile
  BY DEF ReplayInv, QueueInv, TypeOK, HandsFull, Publish, archiverVars, fileVars
<1>2. /\ Contents \in Seq(Products) /\ Contents' = Contents
      /\ Len(Contents) = Len(published) + Len(held) + Len(dataProducts)
      /\ dataProducts \in Seq(Products)
      /\ Contents[Len(published) + 1] = held[1]
  BY <1>1, ContentsType, PublishContents DEF ReplayInv
<1>3. /\ Len(published) \in Nat /\ Len(dataProducts) \in Nat
      /\ Len(published) + 1 \in 1..Len(Contents) /\ Len(published) < Len(Contents)
  BY <1>1, <1>2
<1>4. /\ Len(Contents) <= Len(Interesting(file)) /\ Len(Interesting(file)) \in Nat
      /\ Interesting(file)[Len(published) + 1] = held[1]
  BY <1>2, <1>3, ArchiveHas
<1>5. Len(published) < IF End = -1 THEN Len(Interesting(file)) ELSE End
  BY <1>2, <1>3, <1>4, EndMeans
<1>6. published' = Append(published, held[1])
  <2>1. held[1] \in Products
    <3>1. 1 \in 1..Len(held)
      BY <1>1
    <3>. QED
      BY <1>1, <3>1, ElementOfSeq
  <2>2. held = <<held[1]>>
    <3>1. <<held[1]>> \in Seq(Products) /\ Len(<<held[1]>>) = 1
      BY <2>1
    <3>2. \A i \in 1..Len(held) : held[i] = <<held[1]>>[i]
      BY <1>1
    <3>. QED
      BY <1>1, <3>1, <3>2, SeqEqual
  <2>3. Append(published, held[1]) = published \o <<held[1]>>
    BY <1>1, <2>1, AppendIsConcat
  <2>. QED
    BY <1>1, <2>2, <2>3
<1>7. End' = End
  BY <1>1, <1>2, EndMeans DEF End, Contents
<1>8. Interesting(file)' = Interesting(file)
  BY <1>1 DEF Interesting, Selected, Chosen, OfInterest
<1>. QED
  BY <1>1, <1>4, <1>5, <1>6, <1>7, <1>8 DEF Abstract!Publish, Abstract!NoEnd

LEMMA StepIsAbstract ==
    ReplayInv /\ [Next]_vars => [Abstract!Next]_(Abstract!vars)
<1> SUFFICES ASSUME ReplayInv, [Next]_vars
             PROVE  Abstract!Next \/ UNCHANGED Abstract!vars
  OBVIOUS
<1>1. CASE /\ UNCHANGED <<published, file>> /\ End' = End
           /\ (replay' = "ended") = (replay = "ended")
  BY <1>1 DEF Abstract!vars, Interesting, Selected, Chosen, OfInterest
<1>2. CASE Write
  BY <1>2, WriteIsAbstract DEF Abstract!Next
<1>3. CASE ReaderReads
  BY <1>3, ReadIsAbstract DEF ReaderReads, archiverVars, replayVars, Abstract!Next
<1>4. CASE ReplayReads
  <2>1. CASE replay' = "ended"
    BY <1>4, <2>1, LastRead DEF Abstract!Next
  <2>2. CASE replay' # "ended"
    BY <1>4, <2>2, ReadIsAbstract DEF ReplayReads, archiverVars, Abstract!Next
  <2>. QED
    BY <2>1, <2>2
<1>5. CASE PopGravityDataProduct
  <2>1. Contents' = Contents
    BY <1>5, PopContents DEF ReplayInv
  <2>2. End' = End
    BY <1>5, <2>1 DEF PopGravityDataProduct, End, Contents
  <2>. QED
    BY <1>1, <1>5, <2>2 DEF PopGravityDataProduct, archiverVars
<1>6. CASE Publish
  BY <1>6, PublishIsAbstract DEF Abstract!Next
<1>7. CASE HasData
  BY <1>1, <1>7 DEF HasData, archiverVars, fileVars, End
<1>8. CASE UNCHANGED <<file, fileVars, replayVars>>
  BY <1>1, <1>8 DEF fileVars, replayVars, End
<1>. QED
  BY <1>2, <1>3, <1>4, <1>5, <1>6, <1>7, <1>8
  DEF Next, vars, archiverVars, Control, SubscriptionFilled, Crash, ReaderContinues

\* Whatever the archiver and the two threads that share the queue do, for any
\* archive, products of interest are published in the order of the file, none
\* twice and none left out, and the replay is over only when all are published
\* that the file had when its end was found.
THEOREM ReplaysArchiveSafelyHolds == Spec => ReplaysArchiveSafely
<1>1. ReplayInv /\ [Next]_vars => ReplayInv'
  BY NextRead
<1>. QED
  BY <1>1, InitReplay, StepIsAbstract, PTL DEF Spec, ReplaysArchiveSafely
=============================================================================
