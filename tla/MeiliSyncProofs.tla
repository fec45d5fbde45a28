-------------------------- MODULE MeiliSyncProofs ---------------------------
(***************************************************************************)
(* sqlite2meilisearch deletes only what is replaced, and a success means   *)
(* that index and source agree, for every set of ids, every batch size and *)
(* any number of rows and runs.                                            *)
(***************************************************************************)
EXTENDS MeiliSync, FiniteSetTheorems, SequenceTheorems, TLAPS

Ahead  == {"target", "create", "settings"}
Filled == {"list", "prune", "delete", "stats", "report", "done"}

\* What was read, and what each phase has done with it.
Reading ==
  /\ pc # "idle" => runs >= 1
  /\ pc \notin Ended =>
       \A i \in DOMAIN source : i <= pos =>
         source[i] # Bad /\ \A j \in DOMAIN source : j < i => source[j] # source[i]
  /\ pc = "add" => from < pos
  /\ pc \in Filled => from = Len(source) + 1
  /\ pc \notin Ended => \A k \in DOMAIN stale : stale[k] \notin ToSet(source)

\* The request the client waits for.
Current == [own |-> TRUE, kind |-> pc, val |-> runs,
            ids |-> IF pc = "add" THEN Batch ELSE IF pc = "delete" THEN Chunk ELSE <<>>]

\* One request at a time, and it is in one place.
OneRequest ==
  /\ pc \in Waiting <=> reply # "none"
  /\ \A r \in flight : r.own => reply = "sent" /\ r = Current
  /\ \A i \in DOMAIN queue : queue[i].own =>
       /\ reply = "queued" /\ queue[i] = Current
       /\ \A j \in DOMAIN queue : queue[j].own => j = i

\* In a clean run that goes on, strays are ahead of its first request, which
\* flushes them.
Flushed ==
  clean /\ pc # "failed" =>
    /\ \A r \in flight : r.own
    /\ \A i \in DOMAIN queue : queue[i].own => i = Len(queue)
    /\ reply = "ok" => queue = <<>>
    /\ source = <<>> \/ from > 1 => \A i \in DOMAIN queue : queue[i].own

\* The documents before the n-th are in the index, as this run read them.
InIndex(n) ==
  \A i \in DOMAIN source : i < n =>
    \E j \in DOMAIN index : index[j] = [id |-> source[i], val |-> runs]

Uploads ==
  clean /\ pc # "failed" =>
    /\ InIndex(from)
    /\ pc = "add" /\ reply = "ok" => InIndex(pos)
    /\ pc \in {"report", "done"} => Len(index) = Len(source)

Inv == TypeOK /\ Reading /\ OneRequest /\ Flushed /\ Uploads

-----------------------------------------------------------------------------
(* Those: the members chosen, all of them and no others.                    *)

\* How many of I are not above i.
Rank(I, i) == Cardinality({j \in I : j <= i})

\* The ranks of a finite set of numbers are 1 .. its size, each taken once.
LEMMA RanksAreIndexes ==
  ASSUME NEW I \in SUBSET Nat, IsFiniteSet(I)
  PROVE  /\ Cardinality(I) \in Nat
         /\ \A i \in I : Rank(I, i) \in 1..Cardinality(I)
         /\ \A i, j \in I : Rank(I, i) = Rank(I, j) => i = j
         /\ \A k \in 1..Cardinality(I) : \E i \in I : Rank(I, i) = k
<1> DEFINE n == Cardinality(I)
<1>1. n \in Nat BY FS_CardinalityType
<1>2. ASSUME NEW i \in I PROVE Rank(I, i) \in 1..n
  <2> DEFINE A == {j \in I : j <= i}
  <2>1. A \in SUBSET I /\ i \in A OBVIOUS
  <2>2. IsFiniteSet(A) /\ Cardinality(A) <= n BY <2>1, FS_Subset
  <2>3. Cardinality(A) \in Nat /\ Cardinality(A) # 0
    BY <2>1, <2>2, FS_CardinalityType, FS_EmptySet
  <2>4. Rank(I, i) = Cardinality(A) BY DEF Rank
  <2> HIDE DEF A, n
  <2> QED BY <1>1, <2>2, <2>3, <2>4 DEF n
<1>3. ASSUME NEW i \in I, NEW j \in I, i < j PROVE Rank(I, i) # Rank(I, j)
  <2> DEFINE A == {m \in I : m <= i}
             B == {m \in I : m <= j}
  <2>0. \A m \in I : m <= i => m <= j /\ m # j
    <3> SUFFICES ASSUME NEW m \in I, m <= i PROVE m <= j /\ m # j OBVIOUS
    <3>1. m \in Nat /\ i \in Nat /\ j \in Nat OBVIOUS
    <3> QED BY <1>3, <3>1
  <2>j. j <= j
    <3>1. j \in Nat OBVIOUS
    <3> QED BY <3>1
  <2>1. B \in SUBSET I /\ j \in B /\ A \in SUBSET (B \ {j}) BY <2>0, <2>j
  <2>2. IsFiniteSet(B) /\ IsFiniteSet(B \ {j}) /\ Cardinality(B \ {j}) = Cardinality(B) - 1
    BY <2>1, FS_Subset, FS_RemoveElement
  <2>3. Cardinality(A) <= Cardinality(B \ {j}) BY <2>1, <2>2, FS_Subset
  <2>4. Cardinality(A) \in Nat /\ Cardinality(B) \in Nat BY <2>1, <2>2, FS_Subset, FS_CardinalityType
  <2>5. Rank(I, i) = Cardinality(A) /\ Rank(I, j) = Cardinality(B) BY DEF Rank
  <2> HIDE DEF A, B
  <2> QED BY <2>2, <2>3, <2>4, <2>5
<1>4. \A i, j \in I : Rank(I, i) = Rank(I, j) => i = j
  <2> SUFFICES ASSUME NEW i \in I, NEW j \in I, Rank(I, i) = Rank(I, j) PROVE i = j
    OBVIOUS
  <2>1. i \in Nat /\ j \in Nat /\ (i < j \/ j < i \/ i = j) OBVIOUS
  <2> QED BY <1>3, <2>1
<1>5. ASSUME NEW k \in 1..n PROVE \E i \in I : Rank(I, i) = k
  <2> SUFFICES ASSUME \A i \in I : Rank(I, i) # k PROVE FALSE
    OBVIOUS
  <2> DEFINE T == (1..n) \ {k}
             f == [i \in I |-> Rank(I, i)]
  <2>1. f \in [I -> T] BY <1>2
  <2>2. IsFiniteSet(1..n) /\ Cardinality(1..n) = n
    <3>1. 1 \in Int /\ n \in Int BY <1>1
    <3> HIDE DEF n
    <3>2. IsFiniteSet(1..n) /\ Cardinality(1..n) = IF 1 > n THEN 0 ELSE n - 1 + 1 BY <3>1, FS_Interval
    <3> QED BY <1>1, <3>2
  <2>3. IsFiniteSet(T) /\ Cardinality(T) = n - 1 BY <2>2, FS_RemoveElement
  <2>4. Cardinality(T) < Cardinality(I) BY <1>1, <2>3
  <2> HIDE DEF T, f
  <2>5. \E x, y \in I : x # y /\ f[x] = f[y] BY <2>1, <2>3, <2>4, FS_PigeonHole
  <2> QED BY <1>4, <2>5 DEF f
<1> QED BY <1>1, <1>2, <1>4, <1>5

LEMMA ThoseAre ==
  ASSUME NEW S, NEW s \in Seq(S), NEW I \in SUBSET DOMAIN s
  PROVE  /\ Those(s, I) \in Seq(S)
         /\ \A k \in DOMAIN Those(s, I) : \E i \in I : Those(s, I)[k] = s[i]
         /\ \A i \in I : \E k \in DOMAIN Those(s, I) : Those(s, I)[k] = s[i]
<1> DEFINE n == Cardinality(I)
           at(k) == CHOOSE i \in I : Rank(I, i) = k
           t == Those(s, I)
<1>1. Len(s) \in Nat /\ DOMAIN s = 1..Len(s) BY LenProperties
<1>2. IsFiniteSet(I) /\ I \in SUBSET Nat
  <2>1. IsFiniteSet(1..Len(s)) BY <1>1, FS_Interval
  <2> QED BY <1>1, <2>1, FS_Subset
<1>3. /\ n \in Nat
      /\ \A i \in I : Rank(I, i) \in 1..n
      /\ \A i, j \in I : Rank(I, i) = Rank(I, j) => i = j
      /\ \A k \in 1..n : \E i \in I : Rank(I, i) = k
  BY <1>2, RanksAreIndexes
<1>4. t = [k \in 1..n |-> s[at(k)]] BY DEF Those, Rank
<1> HIDE DEF n, t
<1>5. ASSUME NEW k \in 1..n PROVE at(k) \in I /\ Rank(I, at(k)) = k BY <1>3
<1>6. ASSUME NEW i \in I PROVE at(Rank(I, i)) = i BY <1>3, <1>5
<1>7. \A i \in I : s[i] \in S BY <1>1
<1>8. t \in [1..n -> S] BY <1>4, <1>5, <1>7
<1>9. t \in Seq(S) BY <1>3, <1>8, SeqDef
<1>10. \A k \in DOMAIN t : \E i \in I : t[k] = s[i] BY <1>4, <1>5
<1>11. \A i \in I : \E k \in DOMAIN t : t[k] = s[i]
  <2> SUFFICES ASSUME NEW i \in I PROVE \E k \in DOMAIN t : t[k] = s[i] OBVIOUS
  <2>1. Rank(I, i) \in 1..n BY <1>3
  <2>2. t[Rank(I, i)] = s[at(Rank(I, i))] BY <1>4, <2>1
  <2>3. t[Rank(I, i)] = s[i] BY <1>6, <2>2
  <2> QED BY <1>4, <2>1, <2>3
<1> QED BY <1>9, <1>10, <1>11 DEF t

-----------------------------------------------------------------------------
(* What the helpers of the model yield.                                     *)

LEMMA RowsAreTyped == ASSUME NEW rows \in Rows PROVE rows \in Seq(Ids \cup {Bad})
<1>1. PICK m \in 0..MaxRows : rows \in [1..m -> Ids \cup {Bad}] BY DEF Rows, BoundedSeq, SeqOf
<1>2. m \in Nat BY SyncAssumption
<1> QED BY <1>1, <1>2, SeqDef

\* The rows of the batch, in their order; none of them is bad.
LEMMA BatchIs ==
  ASSUME TypeOK, Reading, pc \notin Ended
  PROVE  /\ Batch \in Seq(Ids) /\ Len(Batch) = pos - from
         /\ \A k \in 1..Len(Batch) : from + k - 1 \in DOMAIN source /\ Batch[k] = source[from + k - 1]
         /\ \A i \in from..pos - 1 : i \in DOMAIN source /\ source[i] \in ToSet(Batch)
<1>1. source \in Seq(Ids \cup {Bad}) BY RowsAreTyped DEF TypeOK
<1>2. Len(source) \in Nat /\ DOMAIN source = 1..Len(source) BY <1>1, LenProperties
<1>3. pos \in Nat /\ from \in Nat /\ 1 <= from /\ from <= pos /\ pos <= Len(source) + 1
  BY <1>2 DEF TypeOK
<1>4. \A i \in from..pos - 1 : i \in DOMAIN source /\ i <= pos BY <1>2, <1>3
<1>5. \A i \in from..pos - 1 : source[i] \in Ids
  <2> SUFFICES ASSUME NEW i \in from..pos - 1 PROVE source[i] \in Ids OBVIOUS
  <2>1. i \in DOMAIN source /\ i <= pos BY <1>4
  <2>2. source[i] # Bad BY <2>1 DEF Reading
  <2>3. source[i] \in Ids \cup {Bad} BY <1>1, <2>1
  <2> QED BY <2>2, <2>3
<1>6. /\ Batch \in Seq(Ids)
      /\ Len(Batch) = IF from <= pos - 1 THEN pos - 1 - from + 1 ELSE 0
      /\ \A k \in 1..pos - 1 - from + 1 : Batch[k] = source[from + k - 1]
  <2>1. from \in Int /\ pos - 1 \in Int BY <1>3
  <2> QED BY <1>5, <2>1, SubSeqProperties DEF Batch
<1>7. Len(Batch) = pos - from BY <1>3, <1>6
<1>8. \A k \in 1..Len(Batch) : from + k - 1 \in DOMAIN source /\ Batch[k] = source[from + k - 1]
  <2> SUFFICES ASSUME NEW k \in 1..Len(Batch)
               PROVE  from + k - 1 \in DOMAIN source /\ Batch[k] = source[from + k - 1]
    OBVIOUS
  <2>1. from + k - 1 \in from..pos - 1 /\ k \in 1..pos - 1 - from + 1 BY <1>3, <1>7
  <2> QED BY <1>4, <1>6, <2>1
<1>9. \A i \in from..pos - 1 : source[i] \in ToSet(Batch)
  <2> SUFFICES ASSUME NEW i \in from..pos - 1 PROVE source[i] \in ToSet(Batch) OBVIOUS
  <2>1. i - from + 1 \in 1..Len(Batch) /\ from + (i - from + 1) - 1 = i BY <1>3, <1>7
  <2>2. Batch[i - from + 1] = source[i] BY <1>8, <2>1
  <2>3. DOMAIN Batch = 1..Len(Batch) BY <1>6, LenProperties
  <2> QED BY <2>1, <2>2, <2>3 DEF ToSet
<1> QED BY <1>4, <1>6, <1>7, <1>8, <1>9

\* A chunk is a part of what is stale, and so is what is left after it.
LEMMA ChunkIs ==
  ASSUME TypeOK
  PROVE  /\ Chunk \in Seq(Ids) /\ SubSeq(stale, Len(Chunk) + 1, Len(stale)) \in Seq(Ids)
         /\ ToSet(Chunk) \subseteq ToSet(stale)
         /\ ToSet(SubSeq(stale, Len(Chunk) + 1, Len(stale))) \subseteq ToSet(stale)
<1>1. stale \in Seq(Ids) BY DEF TypeOK
<1>2. Len(stale) \in Nat /\ DOMAIN stale = 1..Len(stale) /\ \A k \in 1..Len(stale) : stale[k] \in Ids
  BY <1>1, LenProperties
<1> DEFINE n == IF BatchSize < Len(stale) THEN BatchSize ELSE Len(stale)
<1>3. n \in Nat /\ n <= Len(stale) BY <1>2, SyncAssumption
<1>4. Chunk = SubSeq(stale, 1, n) BY DEF Chunk
<1> HIDE DEF n
<1>5. /\ Chunk \in Seq(Ids)
      /\ Len(Chunk) = IF 1 <= n THEN n - 1 + 1 ELSE 0
      /\ \A k \in 1..n - 1 + 1 : Chunk[k] = stale[1 + k - 1]
  <2>1. \A k \in 1..n : stale[k] \in Ids BY <1>2, <1>3
  <2> QED BY <1>3, <1>4, <2>1, SubSeqProperties
<1>6. Len(Chunk) = n BY <1>3, <1>5
<1>7. ToSet(Chunk) \subseteq ToSet(stale)
  <2> SUFFICES ASSUME NEW k \in DOMAIN Chunk PROVE Chunk[k] \in ToSet(stale) BY DEF ToSet
  <2>1. k \in 1..n BY <1>5, <1>6, LenProperties
  <2>2. 1 + k - 1 = k /\ k \in 1..n - 1 + 1 /\ k \in 1..Len(stale) BY <1>2, <1>3, <2>1
  <2>3. Chunk[k] = stale[k] BY <1>5, <2>2
  <2> QED BY <1>2, <2>2, <2>3 DEF ToSet
<1> DEFINE rest == SubSeq(stale, n + 1, Len(stale))
<1>8. /\ rest \in Seq(Ids)
      /\ Len(rest) = IF n + 1 <= Len(stale) THEN Len(stale) - (n + 1) + 1 ELSE 0
      /\ \A k \in 1..Len(stale) - (n + 1) + 1 : rest[k] = stale[n + 1 + k - 1]
  <2>1. \A k \in n + 1..Len(stale) : stale[k] \in Ids BY <1>2, <1>3
  <2>2. n + 1 \in Int /\ Len(stale) \in Int BY <1>2, <1>3
  <2> QED BY <2>1, <2>2, SubSeqProperties
<1> HIDE DEF rest
<1>9. ToSet(rest) \subseteq ToSet(stale)
  <2> SUFFICES ASSUME NEW k \in DOMAIN rest PROVE rest[k] \in ToSet(stale) BY DEF ToSet
  <2>d. DOMAIN rest = 1..Len(rest) BY <1>8, LenProperties
  <2>n. Len(stale) \in Nat /\ n \in Nat /\ n <= Len(stale) BY <1>2, <1>3
  <2>l. Len(rest) = Len(stale) - n
    <3>1. Len(rest) = IF n + 1 <= Len(stale) THEN Len(stale) - (n + 1) + 1 ELSE 0 BY <1>8
    <3>2. CASE n + 1 <= Len(stale) BY <2>n, <3>1, <3>2
    <3>3. CASE ~(n + 1 <= Len(stale)) BY <2>n, <3>1, <3>3
    <3> QED BY <3>2, <3>3
  <2>1. k \in 1..Len(rest) /\ Len(rest) = Len(stale) - n BY <2>d, <2>l
  <2>2. k \in 1..Len(stale) - (n + 1) + 1 /\ n + 1 + k - 1 \in 1..Len(stale) BY <1>2, <1>3, <2>1
  <2>3. rest[k] = stale[n + 1 + k - 1] BY <1>8, <2>2
  <2> QED BY <1>2, <2>2, <2>3 DEF ToSet
<1>10. SubSeq(stale, Len(Chunk) + 1, Len(stale)) = rest BY <1>6 DEF rest
<1> QED BY <1>5, <1>7, <1>8, <1>9, <1>10

\* The ids of a page.
LEMMA PageIs ==
  ASSUME TypeOK
  PROVE  /\ Page \in Seq(Documents) /\ PageIds \in Seq(Ids) /\ Len(Page) \in Nat
         /\ IsFiniteSet(Generated) /\ Cardinality(Generated) \in Nat
<1>1. index \in Seq(Documents) /\ offset \in Nat BY DEF TypeOK
<1>2. Len(index) \in Nat /\ \A k \in 1..Len(index) : index[k] \in Documents BY <1>1, LenProperties
<1> DEFINE n == IF offset + BatchSize < Len(index) THEN offset + BatchSize ELSE Len(index)
<1>3. n \in Int /\ n <= Len(index) /\ offset + 1 \in Int /\ offset + 1 >= 1 BY <1>1, <1>2, SyncAssumption
<1>4. Page = SubSeq(index, offset + 1, n) BY DEF Page
<1> HIDE DEF n
<1>5. Page \in Seq(Documents)
  <2>1. \A k \in offset + 1..n : index[k] \in Documents
    <3>1. \A k \in offset + 1..n : k \in 1..Len(index) BY <1>1, <1>2, <1>3
    <3> QED BY <1>2, <3>1
  <2> QED BY <1>3, <1>4, <2>1, SubSeqProperties
<1>6. Len(Page) \in Nat /\ DOMAIN Page = 1..Len(Page) BY <1>5, LenProperties
<1>7. PageIds \in [1..Len(Page) -> Ids]
  <2>1. \A i \in 1..Len(Page) : Page[i] \in Documents BY <1>5, <1>6
  <2>2. \A i \in 1..Len(Page) : Page[i].id \in Ids BY <2>1 DEF Documents
  <2> QED BY <1>6, <2>2 DEF PageIds
<1>8. PageIds \in Seq(Ids) BY <1>6, <1>7, SeqDef
<1>9. IsFiniteSet(1..Len(Page)) BY <1>6, FS_Interval
<1>10. Generated \in SUBSET (1..Len(Page)) BY <1>7 DEF Generated
<1> QED BY <1>5, <1>6, <1>8, <1>9, <1>10, FS_Subset, FS_CardinalityType

\* The second of two sequences joined is there as well as the first.
LEMMA Joining ==
  ASSUME NEW S, NEW a \in Seq(S), NEW b \in Seq(S)
  PROVE  /\ a \o b \in Seq(S)
         /\ \A i \in DOMAIN a : i \in DOMAIN (a \o b) /\ (a \o b)[i] = a[i]
         /\ ToSet(b) \subseteq ToSet(a \o b)
         /\ \A k \in DOMAIN (a \o b) : (a \o b)[k] \in ToSet(a) \cup ToSet(b)
<1> DEFINE c == a \o b
<1>1. /\ Len(a) \in Nat /\ DOMAIN a = 1..Len(a) /\ Len(b) \in Nat /\ DOMAIN b = 1..Len(b)
  BY LenProperties
<1>2. /\ c \in Seq(S) /\ Len(c) = Len(a) + Len(b)
      /\ \A i \in 1..Len(a) + Len(b) : c[i] = IF i <= Len(a) THEN a[i] ELSE b[i - Len(a)]
  BY ConcatProperties
<1>3. DOMAIN c = 1..Len(a) + Len(b) BY <1>2, LenProperties
<1> HIDE DEF c
<1>4. \A i \in DOMAIN a : i \in DOMAIN c /\ c[i] = a[i] BY <1>1, <1>2, <1>3
<1>5. ASSUME NEW i \in DOMAIN b PROVE b[i] \in ToSet(c)
  <2>1. i + Len(a) \in 1..Len(a) + Len(b) /\ ~(i + Len(a) <= Len(a)) /\ i + Len(a) - Len(a) = i BY <1>1
  <2>2. c[i + Len(a)] = b[i] BY <1>2, <2>1
  <2> QED BY <1>3, <2>1, <2>2 DEF ToSet
<1>6. ASSUME NEW k \in DOMAIN c
      PROVE  c[k] \in ToSet(a) \cup ToSet(b)
  <2>1. CASE k <= Len(a)
    <3>1. k \in DOMAIN a BY <1>1, <1>3, <2>1
    <3> QED BY <1>4, <3>1 DEF ToSet
  <2>2. CASE ~(k <= Len(a))
    <3>1. k - Len(a) \in DOMAIN b /\ c[k] = b[k - Len(a)] BY <1>1, <1>2, <1>3, <2>2
    <3> QED BY <3>1 DEF ToSet
  <2> QED BY <2>1, <2>2
<1>7. ToSet(b) \subseteq ToSet(c) BY <1>5 DEF ToSet
<1> QED BY <1>2, <1>4, <1>6, <1>7 DEF c

\* An upload leaves what is there with the same contents, and adds or
\* refreshes what it brings.
LEMMA AddedIs ==
  ASSUME TypeOK, NEW ids \in Seq(Ids), NEW val \in 0..MaxRuns
  PROVE  /\ Added(ids, val) \in Seq(Documents)
         /\ \A j \in DOMAIN index : index[j].val = val =>
              \E k \in DOMAIN Added(ids, val) : Added(ids, val)[k] = index[j]
         /\ \A id \in ToSet(ids) :
              \E k \in DOMAIN Added(ids, val) : Added(ids, val)[k] = [id |-> id, val |-> val]
<1>1. index \in Seq(Documents) BY DEF TypeOK
<1>2. /\ Len(index) \in Nat /\ DOMAIN index = 1..Len(index)
      /\ \A j \in DOMAIN index : index[j] \in Documents
  BY <1>1, LenProperties
<1> DEFINE I   == {i \in DOMAIN ids : ids[i] \notin IndexIds}
           new == Those(ids, I)
           old == [i \in DOMAIN index |->
                    IF index[i].id \in ToSet(ids) THEN [index[i] EXCEPT !.val = val] ELSE index[i]]
           fresh == [i \in DOMAIN new |-> [id |-> new[i], val |-> val]]
<1>3. Added(ids, val) = old \o fresh BY DEF Added
<1>4. I \in SUBSET DOMAIN ids OBVIOUS
<1>5. /\ new \in Seq(Ids)
      /\ \A i \in I : \E k \in DOMAIN new : new[k] = ids[i]
  BY <1>4, ThoseAre
<1>6. Len(new) \in Nat /\ DOMAIN new = 1..Len(new) /\ \A k \in DOMAIN new : new[k] \in Ids
  BY <1>5, LenProperties
<1> HIDE DEF new
<1>7. fresh \in Seq(Documents) /\ DOMAIN fresh = DOMAIN new
  <2>1. \A k \in DOMAIN new : [id |-> new[k], val |-> val] \in Documents BY <1>6 DEF Documents
  <2>2. fresh \in [1..Len(new) -> Documents] BY <1>6, <2>1
  <2> QED BY <1>6, <2>2, SeqDef
<1>8. old \in Seq(Documents) /\ DOMAIN old = DOMAIN index
  <2>1. \A j \in DOMAIN index : [index[j] EXCEPT !.val = val] \in Documents BY <1>2 DEF Documents
  <2>2. old \in [1..Len(index) -> Documents] BY <1>2, <2>1
  <2> QED BY <1>2, <2>2, SeqDef
<1>9. \A j \in DOMAIN index : index[j].val = val => old[j] = index[j]
  <2> SUFFICES ASSUME NEW j \in DOMAIN index, index[j].val = val PROVE old[j] = index[j] OBVIOUS
  <2>1. index[j] \in Documents BY <1>2
  <2>2. [index[j] EXCEPT !.val = val] = index[j] BY <2>1 DEF Documents
  <2> QED BY <2>2
<1>10. \A j \in DOMAIN index : index[j].id \in ToSet(ids) => old[j] = [id |-> index[j].id, val |-> val]
  <2> SUFFICES ASSUME NEW j \in DOMAIN index, index[j].id \in ToSet(ids)
               PROVE  old[j] = [id |-> index[j].id, val |-> val]
    OBVIOUS
  <2>1. index[j] \in Documents BY <1>2
  <2>2. [index[j] EXCEPT !.val = val] = [id |-> index[j].id, val |-> val] BY <2>1 DEF Documents
  <2> QED BY <2>2
<1>f. \A k \in DOMAIN new : fresh[k] = [id |-> new[k], val |-> val] OBVIOUS
<1> HIDE DEF old, fresh
<1> DEFINE c == old \o fresh
<1>11. /\ c \in Seq(Documents)
       /\ \A i \in DOMAIN old : i \in DOMAIN c /\ c[i] = old[i]
       /\ ToSet(fresh) \subseteq ToSet(c)
  <2>1. old \in Seq(Documents) /\ fresh \in Seq(Documents) BY <1>7, <1>8
  <2>2. c \in Seq(Documents) BY <2>1, Joining
  <2>3. \A i \in DOMAIN old : i \in DOMAIN c /\ c[i] = old[i] BY <2>1, Joining, Zenon
  <2>4. ToSet(fresh) \subseteq ToSet(c) BY <2>1, Joining, Zenon
  <2> HIDE DEF c
  <2> QED BY <2>2, <2>3, <2>4
<1> HIDE DEF c
<1>12. \A j \in DOMAIN index : index[j].val = val => \E k \in DOMAIN c : c[k] = index[j]
  BY <1>8, <1>9, <1>11
<1>13. \A id \in ToSet(ids) : \E k \in DOMAIN c : c[k] = [id |-> id, val |-> val]
  <2> SUFFICES ASSUME NEW id \in ToSet(ids) PROVE \E k \in DOMAIN c : c[k] = [id |-> id, val |-> val]
    OBVIOUS
  <2>1. PICK i \in DOMAIN ids : ids[i] = id BY DEF ToSet
  <2>2. CASE id \in IndexIds
    <3>1. PICK j \in DOMAIN index : index[j].id = id BY <2>2 DEF IndexIds
    <3>2. old[j] = [id |-> id, val |-> val] BY <1>10, <3>1
    <3> QED BY <1>8, <1>11, <3>2
  <2>3. CASE id \notin IndexIds
    <3>1. i \in I BY <2>1, <2>3
    <3>2. PICK k \in DOMAIN new : new[k] = id BY <1>5, <2>1, <3>1
    <3>3. fresh[k] = [id |-> id, val |-> val] BY <1>f, <3>2
    <3>4. fresh[k] \in ToSet(c) BY <1>7, <1>11 DEF ToSet
    <3> QED BY <3>3, <3>4 DEF ToSet
  <2> QED BY <2>2, <2>3
<1> QED BY <1>3, <1>11, <1>12, <1>13 DEF c

\* A deletion leaves what it does not name.
LEMMA RemainingIs ==
  ASSUME TypeOK, NEW ids \in Seq(Ids)
  PROVE  /\ Remaining(ids) \in Seq(Documents)
         /\ \A j \in DOMAIN index : index[j].id \notin ToSet(ids) =>
              \E k \in DOMAIN Remaining(ids) : Remaining(ids)[k] = index[j]
<1>1. index \in Seq(Documents) BY DEF TypeOK
<1> DEFINE I == {i \in DOMAIN index : index[i].id \notin ToSet(ids)}
<1>2. I \in SUBSET DOMAIN index OBVIOUS
<1>3. /\ Those(index, I) \in Seq(Documents)
      /\ \A i \in I : \E k \in DOMAIN Those(index, I) : Those(index, I)[k] = index[i]
  BY <1>1, <1>2, ThoseAre
<1> QED BY <1>3 DEF Remaining

\* What a page adds to stale is not of the ids that were read.
LEMMA StaleIs ==
  ASSUME TypeOK
  PROVE  LET more == Those(PageIds, DOMAIN PageIds \ Generated)
         IN  /\ stale \o more \in Seq(Ids)
             /\ \A k \in DOMAIN (stale \o more) :
                  \/ (stale \o more)[k] \in ToSet(stale)
                  \/ (stale \o more)[k] \notin ReadIds
<1> DEFINE I == DOMAIN PageIds \ Generated
           more == Those(PageIds, I)
           both == stale \o more
<1>1. PageIds \in Seq(Ids) /\ stale \in Seq(Ids) BY PageIs DEF TypeOK
<1>2. I \in SUBSET DOMAIN PageIds OBVIOUS
<1>3. more \in Seq(Ids) /\ \A k \in DOMAIN more : \E i \in I : more[k] = PageIds[i]
  BY <1>1, <1>2, ThoseAre
<1>4. \A i \in I : PageIds[i] \notin ReadIds BY DEF Generated
<1> HIDE DEF more, I
<1>5. \A k \in DOMAIN more : more[k] \notin ReadIds BY <1>3, <1>4
<1>6. /\ both \in Seq(Ids)
      /\ \A k \in DOMAIN both : both[k] \in ToSet(stale) \cup ToSet(more)
  <2>1. both \in Seq(Ids) BY <1>1, <1>3, Joining
  <2>2. \A k \in DOMAIN both : both[k] \in ToSet(stale) \cup ToSet(more)
    BY <1>1, <1>3, Joining, Zenon
  <2> HIDE DEF both
  <2> QED BY <2>1, <2>2
<1> HIDE DEF both
<1>7. \A k \in DOMAIN both : both[k] \in ToSet(stale) \/ both[k] \notin ReadIds
  BY <1>5, <1>6 DEF ToSet
<1> QED BY <1>6, <1>7 DEF both, more, I

-----------------------------------------------------------------------------
(* What a step of the client does, as far as its request is concerned.      *)

Stops == pc' = "failed" /\ Disown

Asks ==
  \E kind \in Waiting, ids \in Seq(Ids) :
    /\ Submit(kind, ids)
    /\ Current' = [own |-> TRUE, kind |-> kind, ids |-> ids, val |-> runs]
    /\ from' = from

GoesOn ==
  /\ UNCHANGED <<flight, queue>> /\ reply' = "none" /\ pc' \notin Waiting
  /\ from' = from \/ (Succeeded("add") /\ from' = pos)
  /\ pc' = "report" => Len(index) = Len(source)
  /\ pc' = "done" => pc = "report"

LEMMA Configuring ==
  ASSUME Configure, UNCHANGED <<runs, from>>
  PROVE  Asks \/ GoesOn
<1>1. CASE Submit("settings", <<>>)
  <2>1. <<>> \in Seq(Ids) /\ "settings" \in Waiting BY EmptySeq DEF Waiting
  <2>2. Current' = [own |-> TRUE, kind |-> "settings", ids |-> <<>>, val |-> runs]
    BY <1>1 DEF Current, Submit
  <2> QED BY <1>1, <2>1, <2>2 DEF Asks
<1>2. CASE pc' = "load" /\ Idle BY <1>2 DEF GoesOn, Idle, Waiting
<1> QED BY <1>1, <1>2 DEF Configure

LEMMA ClientStep ==
  ASSUME TypeOK, Reading, OneRequest, Client
  PROVE  /\ UNCHANGED <<runs, source, server, clean>> /\ pc \notin Ended
         /\ Stops \/ (reply \in {"none", "ok"} /\ (Asks \/ GoesOn))
<1> USE DEF Ended
<1>w. pc \notin Waiting => reply = "none" BY DEF OneRequest
<1>1. CASE Target
  <2>1. pc = "target" /\ UNCHANGED <<runs, source, from, server, clean>> BY <1>1 DEF Target
  <2>2. CASE Submit("create", <<>>)
    <3>1. <<>> \in Seq(Ids) /\ "create" \in Waiting BY EmptySeq DEF Waiting
    <3>2. Current' = [own |-> TRUE, kind |-> "create", ids |-> <<>>, val |-> runs]
      BY <2>1, <2>2 DEF Current, Submit
    <3> QED BY <1>w, <2>1, <2>2, <3>1, <3>2 DEF Asks, Waiting
  <2>3. CASE Configure BY <1>w, <2>1, <2>3, Configuring DEF Waiting
  <2> QED BY <1>1, <2>2, <2>3 DEF Target
<1>2. CASE Created BY <1>2, Configuring DEF Created, Succeeded
<1>3. CASE Applied BY <1>3 DEF Applied, Succeeded, GoesOn, Idle, Waiting
<1>4. CASE Push
  <2>1. pc = "load" /\ reply = "none" /\ UNCHANGED <<server, clean>> BY <1>4, <1>w DEF Push, Waiting
  <2>2. CASE Fail BY <2>1, <2>2 DEF Fail, Stops
  <2>3. CASE UNCHANGED <<pc, runs, source, from, offset, retained, stale, reply, flight, queue>>
    BY <2>1, <2>3 DEF GoesOn, Waiting
  <2> QED BY <1>4, <2>2, <2>3 DEF Push
<1>5. CASE Upload
  <2>1. pc = "load" /\ reply = "none" /\ UNCHANGED <<runs, source, pos, from, server, clean>>
    BY <1>5, <1>w DEF Upload, Waiting
  <2>2. Submit("add", Batch) /\ pc' = "add" BY <1>5 DEF Upload, Submit
  <2>3. Batch \in Seq(Ids) BY <2>1, BatchIs
  <2>4. Batch' = Batch BY <2>1 DEF Batch
  <2>5. Current' = [own |-> TRUE, kind |-> "add", ids |-> Batch, val |-> runs]
    BY <2>1, <2>2, <2>4 DEF Current
  <2>6. Asks BY <2>1, <2>2, <2>3, <2>5 DEF Asks, Waiting
  <2> QED BY <2>1, <2>6
<1>6. CASE Uploaded BY <1>6 DEF Uploaded, Succeeded, GoesOn, Idle, Waiting
<1>7. CASE Loaded BY <1>7, <1>w DEF Loaded, GoesOn, Idle, Waiting
<1>8. CASE List
  <2>1. pc = "list" /\ reply = "none" /\ UNCHANGED <<runs, source, from, server, clean>>
    BY <1>8, <1>w DEF List, Waiting
  <2>2. \/ pc' = "failed" /\ Disown
        \/ pc' \in {"prune", "list"} /\ Idle
    BY <1>8 DEF List
  <2>3. CASE pc' \in {"prune", "list"} /\ Idle BY <2>1, <2>3 DEF GoesOn, Idle, Waiting
  <2> QED BY <2>1, <2>2, <2>3 DEF Stops
<1>9. CASE Prune
  <2>1. pc = "prune" /\ reply = "none" /\ UNCHANGED <<runs, source, from, stale, server, clean>>
    BY <1>9, <1>w DEF Prune, Waiting
  <2>2. CASE pc' = "stats" /\ Idle BY <2>1, <2>2 DEF GoesOn, Idle, Waiting
  <2>3. CASE Submit("delete", Chunk)
    <3>1. Chunk \in Seq(Ids) BY ChunkIs
    <3>2. Chunk' = Chunk /\ pc' = "delete" BY <2>1, <2>3 DEF Chunk, Submit
    <3>3. Current' = [own |-> TRUE, kind |-> "delete", ids |-> Chunk, val |-> runs]
      BY <2>1, <3>2 DEF Current
    <3>4. Asks BY <2>1, <2>3, <3>1, <3>3 DEF Asks, Waiting
    <3> QED BY <2>1, <3>4
  <2> QED BY <1>9, <2>2, <2>3 DEF Prune
<1>10. CASE Pruned BY <1>10 DEF Pruned, Succeeded, GoesOn, Idle, Waiting
<1>11. CASE Stats BY <1>11, <1>w DEF Stats, GoesOn, Idle, Waiting
<1>12. CASE Report BY <1>12, <1>w DEF Report, GoesOn, Idle, Waiting
<1>13. CASE GiveUp BY <1>13 DEF GiveUp, Fail, Stops
<1> QED BY <1>1, <1>2, <1>3, <1>4, <1>5, <1>6, <1>7, <1>8, <1>9, <1>10, <1>11, <1>12, <1>13 DEF Client

-----------------------------------------------------------------------------
(* Types.                                                                   *)

\* The types of what the client keeps, and of what is under way.
ClientTypes ==
  /\ pc \in Ended \cup Waiting \cup {"target", "load", "list", "prune", "stats", "report"}
  /\ runs \in 0 .. MaxRuns /\ source \in Rows
  /\ pos \in 1 .. Len(source) + 1 /\ from \in 1 .. pos
  /\ offset \in Nat /\ retained \in Nat /\ stale \in Seq(Ids)

WayTypes ==
  /\ reply \in {"none", "sent", "queued", "ok", "bad"}
  /\ flight \subseteq Requests /\ queue \in Seq(Requests)

ServerTypes ==
  /\ exists \in BOOLEAN /\ keyed \in BOOLEAN /\ clean \in BOOLEAN
  /\ index \in Seq(Documents)

LEMMA TypesAre == TypeOK <=> ClientTypes /\ WayTypes /\ ServerTypes
BY DEF TypeOK, ClientTypes, WayTypes, ServerTypes

LEMMA Lengths ==
  ASSUME TypeOK
  PROVE  /\ Len(source) \in Nat /\ DOMAIN source = 1..Len(source)
         /\ pos \in Nat /\ from \in Nat /\ 1 <= from /\ from <= pos /\ pos <= Len(source) + 1
         /\ \A i \in DOMAIN source : i \in Nat /\ i >= 1
<1>1. source \in Seq(Ids \cup {Bad}) BY RowsAreTyped DEF TypeOK
<1>2. Len(source) \in Nat /\ DOMAIN source = 1..Len(source) BY <1>1, LenProperties
<1>3. pos \in Nat /\ 1 <= pos /\ pos <= Len(source) + 1 BY <1>2 DEF TypeOK
<1>4. from \in Nat /\ 1 <= from /\ from <= pos BY <1>3 DEF TypeOK
<1> QED BY <1>2, <1>3, <1>4

LEMMA DisownTypes == ASSUME TypeOK, Disown PROVE WayTypes'
<1>1. flight \subseteq Requests /\ queue \in Seq(Requests) BY DEF TypeOK
<1>2. \A r \in Requests : [r EXCEPT !.own = FALSE] \in Requests BY DEF Requests
<1>3. flight' \subseteq Requests BY <1>1, <1>2 DEF Disown
<1>4. Len(queue) \in Nat /\ DOMAIN queue = 1..Len(queue) /\ \A i \in DOMAIN queue : queue[i] \in Requests
  BY <1>1, LenProperties
<1>5. queue' \in [1..Len(queue) -> Requests] BY <1>2, <1>4 DEF Disown
<1>6. queue' \in Seq(Requests) BY <1>4, <1>5, SeqDef
<1> QED BY <1>3, <1>6 DEF WayTypes, Disown

LEMMA AsksTypes == ASSUME TypeOK, Reading, pc \notin Ended, Asks PROVE WayTypes'
<1>1. PICK kind \in Waiting, ids \in Seq(Ids) : Submit(kind, ids) BY DEF Asks
<1>2. runs \in 1..MaxRuns
  <2>1. runs \in 0..MaxRuns /\ runs >= 1 BY DEF TypeOK, Reading, Ended
  <2> QED BY <2>1, SyncAssumption
<1>3. [own |-> TRUE, kind |-> kind, ids |-> ids, val |-> runs] \in Requests BY <1>2 DEF Requests
<1> QED BY <1>1, <1>3 DEF WayTypes, Submit, TypeOK

LEMMA ClientTypeStep ==
  ASSUME TypeOK, Reading, OneRequest, Client
  PROVE  TypeOK'
<1>1. WayTypes'
  <2>1. CASE Stops BY <2>1, DisownTypes DEF Stops
  <2>2. CASE Asks BY <2>2, AsksTypes, ClientStep
  <2>3. CASE GoesOn BY <2>3 DEF GoesOn, WayTypes, TypeOK
  <2> QED BY <2>1, <2>2, <2>3, ClientStep
<1>2. ServerTypes' BY ClientStep DEF TypeOK, ServerTypes, server
<1>3. ClientTypes'
  <2>0. ClientTypes BY TypesAre
  <2> USE DEF ClientTypes, Ended, Waiting
  <2>c. ASSUME Configure, UNCHANGED <<runs, source, pos, from, offset, retained, stale>>
        PROVE  ClientTypes'
    BY <2>0, <2>c DEF Configure, Submit
  <2>1. CASE Target BY <2>0, <2>1, <2>c DEF Target, Submit
  <2>2. CASE Created BY <2>0, <2>2, <2>c DEF Created
  <2>3. CASE Applied BY <2>0, <2>3 DEF Applied
  <2>4. CASE Push
    <3>1. CASE Fail BY <2>0, <3>1 DEF Fail
    <3>2. CASE /\ pos' = pos + 1
               /\ UNCHANGED <<pc, runs, source, from, offset, retained, stale, reply, flight, queue>>
      <4>1. pos <= Len(source) BY <2>4 DEF Push
      <4>2. pos' \in 1..Len(source) + 1 /\ from \in 1..pos' BY <3>2, <4>1, Lengths
      <4> QED BY <2>0, <3>2, <4>2
    <3> QED BY <2>4, <3>1, <3>2 DEF Push
  <2>5. CASE Upload BY <2>0, <2>5 DEF Upload, Submit
  <2>6. CASE Uploaded
    <3>1. pos \in 1..pos BY Lengths
    <3> QED BY <2>0, <2>6, <3>1 DEF Uploaded
  <2>7. CASE Loaded BY <2>0, <2>7 DEF Loaded
  <2>8. CASE List
    <3>1. offset' \in Nat /\ retained' \in Nat BY <2>0, <2>8, PageIs DEF List
    <3>2. stale' \in Seq(Ids) BY <2>8, StaleIs DEF List
    <3>3. pc' \in {"failed", "prune", "list"} BY <2>8 DEF List
    <3>4. UNCHANGED <<runs, source, pos, from>> BY <2>8 DEF List
    <3> QED BY <2>0, <3>1, <3>2, <3>3, <3>4
  <2>9. CASE Prune BY <2>0, <2>9 DEF Prune, Submit
  <2>10. CASE Pruned
    <3>1. stale' \in Seq(Ids) BY <2>10, ChunkIs DEF Pruned
    <3> QED BY <2>0, <2>10, <3>1 DEF Pruned
  <2>11. CASE Stats BY <2>0, <2>11 DEF Stats
  <2>12. CASE Report BY <2>0, <2>12 DEF Report
  <2>13. CASE GiveUp BY <2>0, <2>13 DEF GiveUp, Fail
  <2> QED BY <2>1, <2>2, <2>3, <2>4, <2>5, <2>6, <2>7, <2>8, <2>9, <2>10, <2>11, <2>12, <2>13 DEF Client
<1> QED BY <1>1, <1>2, <1>3, TypesAre DEF TypeOK, ClientTypes, WayTypes, ServerTypes

LEMMA StartTypeStep ==
  ASSUME TypeOK, NEW rows \in Rows, Start(rows)
  PROVE  TypeOK'
<1>1. rows \in Seq(Ids \cup {Bad}) BY RowsAreTyped
<1>2. Len(rows) \in Nat BY <1>1, LenProperties
<1>3. source' = rows /\ pos' \in 1..Len(rows) + 1 /\ from' \in 1..pos' BY <1>2 DEF Start
<1>4. runs' \in 0..MaxRuns
  <2>1. runs \in 0..MaxRuns /\ runs < MaxRuns /\ runs' = runs + 1 BY DEF Start, TypeOK
  <2> QED BY <2>1, SyncAssumption
<1>5. pc' \in {"failed", "target"} BY DEF Start
<1>6. stale' \in Seq(Ids) /\ offset' \in Nat /\ retained' \in Nat BY EmptySeq DEF Start
<1>7. ClientTypes' BY <1>3, <1>4, <1>5, <1>6 DEF ClientTypes, Ended
<1>8. WayTypes' BY DEF Start, WayTypes, TypeOK
<1>9. ServerTypes'
  <2>1. clean' \in BOOLEAN BY DEF Start
  <2> QED BY <2>1 DEF Start, server, ServerTypes, TypeOK
<1> QED BY <1>7, <1>8, <1>9 DEF TypeOK, ClientTypes, WayTypes, ServerTypes

\* The head of the queue, and what is behind it.
LEMMA HeadIs ==
  ASSUME TypeOK, queue # <<>>
  PROVE  /\ Len(queue) \in Nat /\ Len(queue) >= 1 /\ DOMAIN queue = 1..Len(queue)
         /\ Head(queue) = queue[1] /\ 1 \in DOMAIN queue /\ Head(queue) \in Requests
         /\ Tail(queue) \in Seq(Requests)
         /\ DOMAIN Tail(queue) = 1..Len(queue) - 1 /\ Len(Tail(queue)) = Len(queue) - 1
         /\ \A i \in 1..Len(queue) - 1 : i + 1 \in DOMAIN queue /\ Tail(queue)[i] = queue[i + 1]
<1>1. queue \in Seq(Requests) BY DEF TypeOK
<1>2. Len(queue) \in Nat /\ DOMAIN queue = 1..Len(queue) BY <1>1, LenProperties
<1>3. Len(queue) >= 1 BY <1>1, <1>2, EmptySeq
<1>4. Head(queue) = queue[1] /\ 1 \in DOMAIN queue /\ Head(queue) \in Requests
  BY <1>1, <1>2, <1>3, HeadTailProperties
<1>5. /\ Tail(queue) \in Seq(Requests) /\ Len(Tail(queue)) = Len(queue) - 1
      /\ \A i \in 1..Len(Tail(queue)) : Tail(queue)[i] = queue[i + 1]
  BY <1>1, HeadTailProperties
<1>6. DOMAIN Tail(queue) = 1..Len(queue) - 1 BY <1>5, LenProperties
<1>7. \A i \in 1..Len(queue) - 1 : i + 1 \in DOMAIN queue BY <1>2
<1> QED BY <1>2, <1>3, <1>4, <1>5, <1>6, <1>7

LEMMA NetworkTypeStep ==
  ASSUME TypeOK, Accept \/ Lose \/ TaskSucceeds \/ TaskFails
  PROVE  TypeOK'
<1>1. CASE Accept
  <2>1. PICK r \in flight : /\ flight' = flight \ {r} /\ queue' = Append(queue, r)
                            /\ reply' = (IF r.own THEN "queued" ELSE reply)
                            /\ UNCHANGED <<client, server, clean>>
    BY <1>1 DEF Accept
  <2>2. r \in Requests /\ queue \in Seq(Requests) BY DEF TypeOK
  <2>3. queue' \in Seq(Requests) BY <2>1, <2>2, AppendProperties
  <2> QED BY <2>1, <2>3 DEF TypeOK, client, server
<1>2. CASE Lose BY <1>2 DEF Lose, TypeOK, client, server
<1>3. CASE TaskSucceeds
  <2> DEFINE t == Head(queue)
  <2>1. queue # <<>> /\ queue' = Tail(queue) /\ exists' = TRUE
        /\ UNCHANGED <<keyed, client, flight, clean>>
        /\ reply' = (IF t.own THEN "ok" ELSE reply)
        /\ index' = CASE t.kind = "add" -> Added(t.ids, t.val)
                      [] t.kind = "delete" -> Remaining(t.ids)
                      [] OTHER -> index
    BY <1>3 DEF TaskSucceeds
  <2>2. t \in Requests /\ queue' \in Seq(Requests) BY <2>1, HeadIs
  <2>3. t.ids \in Seq(Ids) /\ t.val \in 0..MaxRuns BY <2>2, SyncAssumption DEF Requests
  <2>4. Added(t.ids, t.val) \in Seq(Documents) BY <2>3, AddedIs
  <2>5. Remaining(t.ids) \in Seq(Documents) BY <2>3, RemainingIs
  <2>6. index \in Seq(Documents) BY DEF TypeOK
  <2> HIDE DEF t
  <2>7. index' \in Seq(Documents) BY <2>1, <2>4, <2>5, <2>6
  <2> QED BY <2>1, <2>2, <2>7 DEF TypeOK, client
<1>4. CASE TaskFails
  <2>1. queue' \in Seq(Requests) BY <1>4, HeadIs DEF TaskFails
  <2> QED BY <1>4, <2>1 DEF TaskFails, TypeOK, client, server
<1> QED BY <1>1, <1>2, <1>3, <1>4

LEMMA TypeStep == ASSUME Inv, [Next]_vars PROVE TypeOK'
<1> USE DEF Inv
<1>1. ASSUME NEW rows \in Rows, Start(rows) PROVE TypeOK' BY <1>1, StartTypeStep
<1>2. CASE Client BY <1>2, ClientTypeStep
<1>3. CASE Accept \/ Lose \/ TaskSucceeds \/ TaskFails BY <1>3, NetworkTypeStep
<1>4. CASE UNCHANGED vars BY <1>4 DEF TypeOK, vars, client, server
<1> QED BY <1>1, <1>2, <1>3, <1>4 DEF Next

-----------------------------------------------------------------------------
(* What was read, step by step.                                             *)

\* A step of the client that keeps what was read.
LEMMA ReadingKept ==
  ASSUME TypeOK, Reading, pc \notin Ended, UNCHANGED <<runs, source, pos, stale>>,
         pc' = "add" => from' < pos,
         pc' \in Filled => from' = Len(source) + 1
  PROVE  Reading'
BY DEF Reading, Ended

LEMMA ReadingStep ==
  ASSUME TypeOK, Reading, OneRequest, Next
  PROVE  Reading'
<1>r. TypeOK' /\ runs \in Nat
  <2>1. runs \in Nat BY SyncAssumption DEF TypeOK
  <2>2. ASSUME NEW rows \in Rows, Start(rows) PROVE TypeOK' BY <2>2, StartTypeStep
  <2> QED BY <2>1, <2>2, ClientTypeStep, NetworkTypeStep DEF Next
<1>1. ASSUME NEW rows \in Rows, Start(rows) PROVE Reading'
  <2>1. /\ runs' = runs + 1 /\ source' = rows /\ pos' = 1 /\ stale' = <<>>
        /\ pc' = "failed" \/ (pc' = "target" /\ ~(rows # <<>> /\ rows[1] = Bad))
    BY <1>1 DEF Start
  <2>2. rows \in Seq(Ids \cup {Bad}) BY RowsAreTyped
  <2>3. Len(rows) \in Nat /\ DOMAIN rows = 1..Len(rows) BY <2>2, LenProperties
  <2>4. runs' >= 1 BY <1>r, <2>1
  <2>5. ASSUME NEW i \in DOMAIN rows, i <= 1, pc' # "failed"
        PROVE  rows[i] # Bad /\ \A j \in DOMAIN rows : j < i => rows[j] # rows[i]
    <3>1. i = 1 BY <2>3, <2>5
    <3>2. rows # <<>> BY <2>3, <2>5
    <3>3. \A j \in DOMAIN rows : ~(j < i) BY <2>3, <3>1
    <3> QED BY <2>1, <2>5, <3>1, <3>2, <3>3
  <2>6. \A k \in DOMAIN stale' : FALSE BY <2>1
  <2> QED BY <2>1, <2>4, <2>5, <2>6 DEF Reading, Filled, Ended
<1>2. CASE Client
  <2> USE DEF Ended, Filled
  <2>a. pc \notin Ended BY <1>2, ClientStep
  <2>k. ASSUME UNCHANGED <<runs, source, pos, stale>>,
               pc' = "add" => from' < pos, pc' \in Filled => from' = Len(source) + 1
        PROVE  Reading'
    BY <2>a, <2>k, ReadingKept
  <2>f. ASSUME Fail PROVE Reading' BY <2>k, <2>f DEF Fail
  <2>1. CASE Target BY <2>1, <2>k DEF Target, Configure, Submit
  <2>2. CASE Created BY <2>2, <2>k DEF Created, Configure, Submit
  <2>3. CASE Applied BY <2>3, <2>k DEF Applied
  <2>4. CASE Push
    <3>1. CASE Fail BY <2>f, <3>1
    <3>2. CASE /\ ~(pos < Len(source) /\ source[pos + 1] \in ReadIds \cup {Bad})
               /\ pos' = pos + 1
               /\ UNCHANGED <<pc, runs, source, from, offset, retained, stale, reply, flight, queue>>
      <4>1. pc = "load" /\ pos <= Len(source) BY <2>4 DEF Push
      <4>2. ASSUME NEW i \in DOMAIN source, i <= pos + 1
            PROVE  source[i] # Bad /\ \A j \in DOMAIN source : j < i => source[j] # source[i]
        <5>1. CASE i <= pos BY <4>1, <5>1 DEF Reading
        <5>2. CASE ~(i <= pos)
          <6>1. i = pos + 1 /\ pos < Len(source) BY <4>2, <5>2, Lengths
          <6>2. source[i] # Bad /\ source[i] \notin ReadIds BY <3>2, <6>1
          <6>3. \A j \in DOMAIN source : j < i => j \in 1..pos BY <6>1, Lengths
          <6>4. \A j \in DOMAIN source : j < i => source[j] \in ReadIds BY <6>3 DEF ReadIds
          <6> QED BY <6>2, <6>4
        <5> QED BY <5>1, <5>2
      <4> QED BY <3>2, <4>1, <4>2 DEF Reading
    <3> QED BY <2>4, <3>1, <3>2 DEF Push
  <2>5. CASE Upload
    <3>1. pc = "load" /\ Batch # <<>> /\ pc' = "add" /\ UNCHANGED <<runs, source, pos, from, stale>>
      BY <2>5 DEF Upload, Submit
    <3>2. Len(Batch) # 0 BY <3>1, BatchIs, EmptySeq
    <3>3. from < pos BY <3>1, <3>2, BatchIs, Lengths
    <3> QED BY <2>k, <3>1, <3>3
  <2>6. CASE Uploaded
    <3>1. pc = "add" /\ pc' = "load" /\ UNCHANGED <<runs, source, pos, stale>> BY <2>6 DEF Uploaded, Succeeded
    <3> QED BY <2>k, <3>1
  <2>7. CASE Loaded
    <3>1. pc = "load" /\ Batch = <<>> /\ pos > Len(source) /\ pc' = "list"
          /\ UNCHANGED <<runs, source, pos, from, stale>>
      BY <2>7 DEF Loaded
    <3>2. Len(Batch) = 0 BY <3>1, EmptySeq
    <3>3. from = Len(source) + 1 BY <3>1, <3>2, BatchIs, Lengths
    <3> QED BY <2>k, <3>1, <3>3
  <2>8. CASE List
    <3>1. pc = "list" /\ pc' \in {"failed", "prune", "list"} /\ UNCHANGED <<runs, source, pos, from>>
      BY <2>8 DEF List
    <3>2. from = Len(source) + 1 BY <3>1 DEF Reading
    <3>3. pos = Len(source) + 1 BY <3>2, Lengths
    <3>4. DOMAIN source \cap 1..pos = DOMAIN source BY <3>3, Lengths
    <3>5. ReadIds = ToSet(source) BY <3>4 DEF ReadIds, ToSet
    <3>6. ToSet(stale) \cap ToSet(source) = {} BY <2>a DEF Reading, ToSet
    <3>7. \A k \in DOMAIN stale' : stale'[k] \in ToSet(stale) \/ stale'[k] \notin ReadIds
      BY <2>8, StaleIs DEF List
    <3>8. \A k \in DOMAIN stale' : stale'[k] \notin ToSet(source) BY <3>5, <3>6, <3>7
    <3> QED BY <3>1, <3>2, <3>8 DEF Reading
  <2>9. CASE Prune
    <3>1. pc = "prune" /\ pc' \in {"stats", "delete"} /\ UNCHANGED <<runs, source, pos, from, stale>>
      BY <2>9 DEF Prune, Submit
    <3> QED BY <2>k, <3>1 DEF Reading
  <2>10. CASE Pruned
    <3>1. pc = "delete" /\ pc' = "prune" /\ UNCHANGED <<runs, source, pos, from>>
      BY <2>10 DEF Pruned, Succeeded
    <3>2. ToSet(stale) \cap ToSet(source) = {} BY <2>a DEF Reading, ToSet
    <3>3. ToSet(stale') \subseteq ToSet(stale) BY <2>10, ChunkIs DEF Pruned
    <3>4. \A k \in DOMAIN stale' : stale'[k] \in ToSet(stale') BY DEF ToSet
    <3>5. \A k \in DOMAIN stale' : stale'[k] \notin ToSet(source) BY <3>2, <3>3, <3>4
    <3> QED BY <3>1, <3>5 DEF Reading
  <2>11. CASE Stats
    <3>1. pc = "stats" /\ pc' = "report" /\ UNCHANGED <<runs, source, pos, from, stale>> BY <2>11 DEF Stats
    <3> QED BY <2>k, <3>1 DEF Reading
  <2>12. CASE Report
    <3>1. pc = "report" /\ pc' = "done" /\ UNCHANGED <<runs, source, pos, from, stale>> BY <2>12 DEF Report
    <3> QED BY <2>k, <3>1 DEF Reading
  <2>13. CASE GiveUp BY <2>f, <2>13 DEF GiveUp
  <2> QED BY <1>2, <2>1, <2>2, <2>3, <2>4, <2>5, <2>6, <2>7, <2>8, <2>9, <2>10, <2>11, <2>12, <2>13 DEF Client
<1>3. CASE Accept \/ Lose \/ TaskSucceeds \/ TaskFails
  <2>1. UNCHANGED client BY <1>3 DEF Accept, Lose, TaskSucceeds, TaskFails
  <2> QED BY <2>1 DEF client, Reading
<1> QED BY <1>1, <1>2, <1>3 DEF Next

-----------------------------------------------------------------------------
(* One request at a time.                                                   *)

\* Nothing of the client's own is under way unless it waits.
LEMMA NoOwn ==
  ASSUME OneRequest, reply \in {"none", "ok", "bad"}
  PROVE  (\A r \in flight : ~r.own) /\ (\A i \in DOMAIN queue : ~queue[i].own)
BY DEF OneRequest

LEMMA DisownedIs ==
  ASSUME TypeOK, Disown
  PROVE  (\A r \in flight' : ~r.own) /\ (\A i \in DOMAIN queue' : ~queue'[i].own)
<1>1. flight \subseteq Requests /\ queue \in Seq(Requests) BY DEF TypeOK
<1>2. \A r \in Requests : ~[r EXCEPT !.own = FALSE].own BY DEF Requests
<1>3. DOMAIN queue = 1..Len(queue) /\ \A i \in DOMAIN queue : queue[i] \in Requests BY <1>1, LenProperties
<1>4. DOMAIN queue' = DOMAIN queue /\ \A i \in DOMAIN queue : queue'[i] = [queue[i] EXCEPT !.own = FALSE]
  BY DEF Disown
<1>5. \A r \in flight' : ~r.own BY <1>1, <1>2 DEF Disown
<1>6. ASSUME NEW i \in DOMAIN queue' PROVE ~queue'[i].own
  <2>1. queue[i] \in Requests /\ queue'[i] = [queue[i] EXCEPT !.own = FALSE] BY <1>3, <1>4
  <2>2. ~[queue[i] EXCEPT !.own = FALSE].own BY <1>2, <2>1
  <2> QED BY <2>1, <2>2
<1> QED BY <1>5, <1>6

LEMMA OneRequestStep ==
  ASSUME TypeOK, Reading, OneRequest, Next
  PROVE  OneRequest'
<1>1. ASSUME NEW rows \in Rows, Start(rows) PROVE OneRequest'
  <2>1. reply = "none"
    <3>1. pc \notin Waiting BY <1>1 DEF Start, Ended, Waiting
    <3> QED BY <3>1 DEF OneRequest
  <2>2. reply' = "none" /\ UNCHANGED <<flight, queue>> /\ pc' \notin Waiting
    BY <1>1, <2>1 DEF Start, Waiting
  <2> QED BY <2>1, <2>2, NoOwn DEF OneRequest
<1>2. CASE Client
  <2>1. CASE Stops
    <3>1. reply' = "none" /\ pc' \notin Waiting BY <2>1 DEF Stops, Disown, Waiting
    <3>2. (\A r \in flight' : ~r.own) /\ (\A i \in DOMAIN queue' : ~queue'[i].own)
      BY <2>1, DisownedIs DEF Stops
    <3> QED BY <3>1, <3>2 DEF OneRequest
  <2>2. CASE reply \in {"none", "ok"} /\ Asks
    <3>1. PICK kind \in Waiting, ids \in Seq(Ids) :
            /\ Submit(kind, ids)
            /\ Current' = [own |-> TRUE, kind |-> kind, ids |-> ids, val |-> runs]
      BY <2>2 DEF Asks
    <3>2. (\A r \in flight : ~r.own) /\ (\A i \in DOMAIN queue : ~queue[i].own) BY <2>2, NoOwn
    <3>3. flight' = flight \cup {Current'} /\ pc' \in Waiting /\ reply' = "sent" /\ queue' = queue
      BY <3>1 DEF Submit
    <3>4. \A r \in flight' : r.own => r = Current' BY <3>2, <3>3
    <3> QED BY <3>2, <3>3, <3>4 DEF OneRequest
  <2>3. CASE reply \in {"none", "ok"} /\ GoesOn
    <3>1. (\A r \in flight : ~r.own) /\ (\A i \in DOMAIN queue : ~queue[i].own) BY <2>3, NoOwn
    <3>2. UNCHANGED <<flight, queue>> /\ reply' = "none" /\ pc' \notin Waiting BY <2>3 DEF GoesOn
    <3> QED BY <3>1, <3>2 DEF OneRequest
  <2> QED BY <1>2, <2>1, <2>2, <2>3, ClientStep
<1>c. ASSUME UNCHANGED client PROVE Current' = Current /\ pc' = pc
  BY <1>c DEF client, Current, Batch, Chunk
<1>o. /\ pc \in Waiting <=> reply # "none"
      /\ \A r \in flight : r.own => reply = "sent" /\ r = Current
      /\ \A i \in DOMAIN queue : queue[i].own =>
           /\ reply = "queued" /\ queue[i] = Current
           /\ \A j \in DOMAIN queue : queue[j].own => j = i
  BY DEF OneRequest
<1>3. CASE Accept
  <2>1. PICK r \in flight : /\ flight' = flight \ {r} /\ queue' = Append(queue, r)
                            /\ reply' = (IF r.own THEN "queued" ELSE reply)
                            /\ UNCHANGED client
    BY <1>3 DEF Accept
  <2>2. r \in Requests /\ queue \in Seq(Requests) BY DEF TypeOK
  <2>3. Len(queue) \in Nat /\ DOMAIN queue = 1..Len(queue) BY <2>2, LenProperties
  <2>4. /\ DOMAIN queue' = 1..Len(queue) + 1 /\ queue'[Len(queue) + 1] = r
        /\ \A i \in DOMAIN queue : queue'[i] = queue[i]
    <3>1. /\ queue' \in Seq(Requests) /\ Len(queue') = Len(queue) + 1
          /\ \A i \in 1..Len(queue) : queue'[i] = queue[i]
          /\ queue'[Len(queue) + 1] = r
      BY <2>1, <2>2, AppendProperties
    <3> QED BY <2>3, <3>1, LenProperties
  <2>5. \A i \in DOMAIN queue' : i \in DOMAIN queue \/ i = Len(queue) + 1 BY <2>3, <2>4
  <2>6. CASE r.own
    <3>1. reply = "sent" /\ r = Current /\ reply' = "queued" BY <1>o, <2>1, <2>6
    <3>2. \A i \in DOMAIN queue : ~queue[i].own BY <1>o, <3>1
    <3>3. \A x \in flight' : ~x.own BY <1>o, <2>1, <3>1
    <3>4. \A i \in DOMAIN queue' : queue'[i].own => i = Len(queue) + 1 /\ queue'[i] = Current
      BY <2>4, <2>5, <3>1, <3>2
    <3>5. pc' \in Waiting <=> reply' # "none" BY <1>c, <1>o, <2>1, <3>1
    <3> QED BY <1>c, <2>1, <3>1, <3>3, <3>4, <3>5 DEF OneRequest
  <2>7. CASE ~r.own
    <3>1. reply' = reply BY <2>1, <2>7
    <3>2. \A i \in DOMAIN queue' : queue'[i].own => i \in DOMAIN queue /\ queue'[i] = queue[i]
      BY <2>4, <2>5, <2>7
    <3>3. \A i \in DOMAIN queue' : queue'[i].own =>
            /\ reply = "queued" /\ queue'[i] = Current
            /\ \A j \in DOMAIN queue' : queue'[j].own => j = i
      BY <1>o, <3>2
    <3>4. \A x \in flight' : x.own => reply = "sent" /\ x = Current BY <1>o, <2>1
    <3> QED BY <1>c, <1>o, <2>1, <3>1, <3>3, <3>4 DEF OneRequest
  <2> QED BY <2>6, <2>7
<1>4. CASE Lose
  <2>1. UNCHANGED <<client, reply, queue>> /\ flight' \subseteq flight BY <1>4 DEF Lose
  <2> QED BY <1>c, <1>o, <2>1 DEF OneRequest
<1>5. CASE TaskSucceeds \/ TaskFails
  <2>1. /\ queue # <<>> /\ queue' = Tail(queue) /\ UNCHANGED <<client, flight>>
        /\ IF Head(queue).own THEN reply' \in {"ok", "bad"} ELSE reply' = reply
    BY <1>5 DEF TaskSucceeds, TaskFails
  <2>2. /\ Len(queue) \in Nat /\ DOMAIN queue = 1..Len(queue) /\ 1 \in DOMAIN queue
        /\ Head(queue) = queue[1] /\ DOMAIN queue' = 1..Len(queue) - 1
        /\ \A i \in 1..Len(queue) - 1 : i + 1 \in DOMAIN queue /\ queue'[i] = queue[i + 1]
    BY <2>1, HeadIs
  <2>3. CASE Head(queue).own
    <3>1. reply = "queued" /\ \A j \in DOMAIN queue : queue[j].own => j = 1 BY <1>o, <2>2, <2>3
    <3>2. \A i \in DOMAIN queue' : i + 1 # 1 BY <2>2
    <3>3. \A i \in DOMAIN queue' : ~queue'[i].own BY <2>2, <3>1, <3>2
    <3>4. \A x \in flight' : ~x.own BY <1>o, <2>1, <3>1
    <3>5. reply' # "none" BY <2>1, <2>3
    <3> QED BY <1>c, <1>o, <2>1, <3>1, <3>3, <3>4, <3>5 DEF OneRequest
  <2>4. CASE ~Head(queue).own
    <3>1. \A i \in DOMAIN queue' : queue'[i].own =>
            /\ reply = "queued" /\ queue'[i] = Current
            /\ \A j \in DOMAIN queue' : queue'[j].own => j + 1 = i + 1
      BY <1>o, <2>2
    <3>2. \A i, j \in DOMAIN queue' : j + 1 = i + 1 => j = i BY <2>2
    <3>3. \A i \in DOMAIN queue' : queue'[i].own =>
            /\ reply = "queued" /\ queue'[i] = Current
            /\ \A j \in DOMAIN queue' : queue'[j].own => j = i
      BY <3>1, <3>2
    <3> QED BY <1>c, <1>o, <2>1, <2>4, <3>3 DEF OneRequest
  <2> QED BY <2>3, <2>4
<1> QED BY <1>1, <1>2, <1>3, <1>4, <1>5 DEF Next

-----------------------------------------------------------------------------
(* Strays are flushed.                                                      *)

LEMMA FlushedStep ==
  ASSUME TypeOK, Reading, OneRequest, Flushed, Next
  PROVE  Flushed'
<1>1. ASSUME NEW rows \in Rows, Start(rows) PROVE Flushed'
  <2>1. reply = "none"
    <3>1. pc \notin Waiting BY <1>1 DEF Start, Ended, Waiting
    <3> QED BY <3>1 DEF OneRequest
  <2>2. \A i \in DOMAIN queue : ~queue[i].own BY <2>1, NoOwn
  <2>3. /\ UNCHANGED <<reply, flight, queue>> /\ source' = rows /\ from' = 1
        /\ clean' = (flight = {} /\ (queue = <<>> \/ rows # <<>>))
    BY <1>1 DEF Start
  <2>4. ASSUME clean' PROVE source' = <<>> \/ from' > 1 => DOMAIN queue' = {}
    <3>1. ~(from' > 1) BY <2>3
    <3>2. source' = <<>> => queue = <<>> BY <2>3, <2>4
    <3> QED BY <2>3, <3>1, <3>2
  <2>5. clean' => \A r \in flight' : r.own BY <2>3
  <2> QED BY <2>1, <2>2, <2>3, <2>4, <2>5 DEF Flushed
<1>n. reply \in {"none", "ok"} =>
        (\A r \in flight : ~r.own) /\ (\A i \in DOMAIN queue : ~queue[i].own)
  BY NoOwn
<1>2. CASE Client
  <2>0. UNCHANGED <<source, clean>> /\ pc # "failed" BY <1>2, ClientStep DEF Ended
  <2>1. CASE Stops BY <2>1 DEF Stops, Flushed
  <2>2. CASE reply \in {"none", "ok"} /\ Asks
    <3>1. PICK kind \in Waiting, ids \in Seq(Ids) : Submit(kind, ids) /\ from' = from
      BY <2>2 DEF Asks
    <3>2. flight' = flight \cup {[own |-> TRUE, kind |-> kind, ids |-> ids, val |-> runs]}
          /\ reply' = "sent" /\ queue' = queue
      BY <3>1 DEF Submit
    <3>3. clean => \A r \in flight' : r.own
      <4>1. clean => \A r \in flight : r.own BY <2>0 DEF Flushed
      <4>2. [own |-> TRUE, kind |-> kind, ids |-> ids, val |-> runs].own OBVIOUS
      <4> QED BY <3>2, <4>1, <4>2
    <3> QED BY <2>0, <3>1, <3>2, <3>3 DEF Flushed
  <2>3. CASE reply \in {"none", "ok"} /\ GoesOn
    <3>1. UNCHANGED <<flight, queue>> /\ reply' = "none" BY <2>3 DEF GoesOn
    <3>2. CASE from' = from BY <2>0, <3>1, <3>2 DEF Flushed
    <3>3. CASE reply = "ok"
      <4>1. clean => queue = <<>> BY <2>0, <3>3 DEF Flushed
      <4>2. clean => DOMAIN queue' = {} BY <3>1, <4>1
      <4> QED BY <2>0, <3>1, <4>2 DEF Flushed
    <3> QED BY <2>3, <3>2, <3>3 DEF GoesOn, Succeeded
  <2> QED BY <1>2, <2>1, <2>2, <2>3, ClientStep
<1>f. ASSUME clean, pc # "failed"
      PROVE  /\ \A r \in flight : r.own
             /\ \A i \in DOMAIN queue : queue[i].own => i = Len(queue)
             /\ reply = "ok" => queue = <<>>
             /\ source = <<>> \/ from > 1 => \A i \in DOMAIN queue : queue[i].own
  BY <1>f DEF Flushed
<1>3. CASE Accept
  <2> SUFFICES ASSUME clean', pc' # "failed"
               PROVE  /\ \A x \in flight' : x.own
                      /\ \A i \in DOMAIN queue' : queue'[i].own => i = Len(queue')
                      /\ reply' = "ok" => queue' = <<>>
                      /\ source' = <<>> \/ from' > 1 => \A i \in DOMAIN queue' : queue'[i].own
    BY DEF Flushed
  <2>1. PICK r \in flight : /\ flight' = flight \ {r} /\ queue' = Append(queue, r)
                            /\ reply' = (IF r.own THEN "queued" ELSE reply)
                            /\ UNCHANGED <<client, clean>>
    BY <1>3 DEF Accept
  <2>2. r \in Requests /\ queue \in Seq(Requests) BY DEF TypeOK
  <2>3. clean /\ pc # "failed" /\ UNCHANGED <<source, from>> BY <2>1 DEF client
  <2>4. Len(queue) \in Nat /\ DOMAIN queue = 1..Len(queue) BY <2>2, LenProperties
  <2>5. /\ DOMAIN queue' = 1..Len(queue) + 1 /\ Len(queue') = Len(queue) + 1
        /\ queue'[Len(queue) + 1] = r /\ \A i \in DOMAIN queue : queue'[i] = queue[i]
    <3>1. /\ queue' \in Seq(Requests) /\ Len(queue') = Len(queue) + 1
          /\ \A i \in 1..Len(queue) : queue'[i] = queue[i]
          /\ queue'[Len(queue) + 1] = r
      BY <2>1, <2>2, AppendProperties
    <3> QED BY <2>4, <3>1, LenProperties
  <2>6. \A i \in DOMAIN queue' : i \in DOMAIN queue \/ i = Len(queue) + 1 BY <2>4, <2>5
  <2>7. r.own /\ reply = "sent" BY <1>f, <2>3 DEF OneRequest
  <2>8. \A i \in DOMAIN queue : ~queue[i].own BY <2>7 DEF OneRequest
  <2>9. \A i \in DOMAIN queue' : queue'[i].own => i = Len(queue') BY <2>5, <2>6, <2>8
  <2>10. \A x \in flight' : x.own BY <1>f, <2>1, <2>3
  <2>11. reply' # "ok" BY <2>1, <2>7
  <2>12. source' = <<>> \/ from' > 1 => \A i \in DOMAIN queue' : queue'[i].own
    BY <1>f, <2>3, <2>5, <2>6, <2>7
  <2> QED BY <2>9, <2>10, <2>11, <2>12
<1>4. CASE Lose
  <2>1. UNCHANGED <<client, reply, queue, clean>> /\ flight' \subseteq flight BY <1>4 DEF Lose
  <2> QED BY <2>1 DEF Flushed, client
<1>5. CASE TaskSucceeds \/ TaskFails
  <2> SUFFICES ASSUME clean', pc' # "failed"
               PROVE  /\ \A x \in flight' : x.own
                      /\ \A i \in DOMAIN queue' : queue'[i].own => i = Len(queue')
                      /\ reply' = "ok" => queue' = <<>>
                      /\ source' = <<>> \/ from' > 1 => \A i \in DOMAIN queue' : queue'[i].own
    BY DEF Flushed
  <2>1. /\ queue # <<>> /\ queue' = Tail(queue) /\ UNCHANGED <<client, flight, clean>>
        /\ reply' # reply => Head(queue).own
    BY <1>5 DEF TaskSucceeds, TaskFails
  <2>2. /\ Len(queue) \in Nat /\ DOMAIN queue = 1..Len(queue) /\ 1 \in DOMAIN queue
        /\ Head(queue) = queue[1] /\ DOMAIN queue' = 1..Len(queue) - 1
        /\ Len(queue') = Len(queue) - 1 /\ queue' \in Seq(Requests)
        /\ \A i \in 1..Len(queue) - 1 : i + 1 \in DOMAIN queue /\ queue'[i] = queue[i + 1]
    BY <2>1, HeadIs
  <2>3. clean /\ pc # "failed" /\ UNCHANGED <<source, from>> BY <2>1 DEF client
  <2>4. \A x \in flight' : x.own BY <1>f, <2>1, <2>3
  <2>5. \A i \in DOMAIN queue' : queue'[i].own => i = Len(queue')
    <3> SUFFICES ASSUME NEW i \in DOMAIN queue', queue'[i].own PROVE i = Len(queue') OBVIOUS
    <3>1. i \in 1..Len(queue) - 1 BY <2>2
    <3>2. i + 1 \in DOMAIN queue /\ queue[i + 1].own BY <2>2, <3>1
    <3>3. i + 1 = Len(queue) BY <1>f, <2>3, <3>2
    <3> QED BY <2>2, <3>1, <3>3
  <2>6. reply' = "ok" => queue' = <<>>
    <3> SUFFICES ASSUME reply' = "ok" PROVE queue' = <<>> OBVIOUS
    <3>1. reply # "ok" BY <1>f, <2>1, <2>3
    <3>2. queue[1].own BY <2>1, <2>2, <3>1
    <3>3. 1 = Len(queue) BY <1>f, <2>2, <2>3, <3>2
    <3>l. Len(queue') = Len(queue) - 1 BY <2>2, Zenon
    <3>4. Len(queue') = 0 BY <3>3, <3>l
    <3> DEFINE q == queue'
    <3>5. q \in Seq(Requests) /\ Len(q) = 0 BY <2>2, <3>4
    <3> HIDE DEF q
    <3>6. q = <<>> BY <3>5, EmptySeq
    <3> QED BY <3>6 DEF q
  <2>7. source' = <<>> \/ from' > 1 => \A i \in DOMAIN queue' : queue'[i].own
    BY <1>f, <2>2, <2>3
  <2> QED BY <2>4, <2>5, <2>6, <2>7
<1> QED BY <1>1, <1>2, <1>3, <1>4, <1>5 DEF Next

-----------------------------------------------------------------------------
(* What was uploaded stays, and the two theorems.                           *)

\* What is in the index before a stray task is all that was there.
LEMMA UploadsStep ==
  ASSUME TypeOK, Reading, OneRequest, Flushed, Uploads, Next
  PROVE  Uploads'
<1>u. clean /\ pc # "failed" =>
        /\ InIndex(from)
        /\ pc = "add" /\ reply = "ok" => InIndex(pos)
        /\ pc \in {"report", "done"} => Len(index) = Len(source)
  BY DEF Uploads
<1>1. ASSUME NEW rows \in Rows, Start(rows) PROVE Uploads'
  <2>1. source' = rows /\ from' = 1 /\ pc' \in {"failed", "target"} BY <1>1 DEF Start
  <2>2. rows \in Seq(Ids \cup {Bad}) BY RowsAreTyped
  <2>3. Len(rows) \in Nat /\ DOMAIN rows = 1..Len(rows) BY <2>2, LenProperties
  <2>4. \A i \in DOMAIN rows : ~(i < 1) BY <2>3
  <2>5. InIndex(from)' BY <2>1, <2>4 DEF InIndex
  <2> QED BY <2>1, <2>5 DEF Uploads
<1>2. CASE Client
  <2>0. UNCHANGED <<runs, source, index, clean>> /\ pc # "failed" BY <1>2, ClientStep DEF Ended, server
  <2>1. CASE Stops BY <2>1 DEF Stops, Uploads
  <2>2. CASE Asks
    <3>1. from' = from /\ reply' = "sent" /\ pc' \in Waiting BY <2>2 DEF Asks, Submit
    <3>2. clean => InIndex(from)' BY <1>u, <2>0, <3>1 DEF InIndex
    <3> QED BY <2>0, <3>1, <3>2 DEF Uploads, Waiting
  <2>3. CASE GoesOn
    <3>1. /\ reply' = "none"
          /\ from' = from \/ (pc = "add" /\ reply = "ok" /\ from' = pos)
          /\ pc' = "report" => Len(index) = Len(source)
          /\ pc' = "done" => pc = "report"
      BY <2>3 DEF GoesOn, Succeeded
    <3>2. clean => InIndex(from)' BY <1>u, <2>0, <3>1 DEF InIndex
    <3>3. clean /\ pc' \in {"report", "done"} => Len(index) = Len(source) BY <1>u, <2>0, <3>1
    <3> QED BY <2>0, <3>1, <3>2, <3>3 DEF Uploads
  <2> QED BY <1>2, <2>1, <2>2, <2>3, ClientStep
<1>3. CASE Accept
  <2>1. UNCHANGED <<client, index, clean>> /\ (reply' = "ok" => reply = "ok")
    BY <1>3 DEF Accept, server
  <2> QED BY <1>u, <2>1 DEF Uploads, InIndex, client
<1>4. CASE Lose
  <2>1. UNCHANGED <<client, index, clean, reply>> BY <1>4 DEF Lose, server
  <2> QED BY <1>u, <2>1 DEF Uploads, InIndex, client
<1>5. CASE TaskFails
  <2>1. UNCHANGED <<client, index, clean>> /\ (reply' = "ok" => reply = "ok")
    BY <1>5 DEF TaskFails, server
  <2> QED BY <1>u, <2>1 DEF Uploads, InIndex, client
<1>6. CASE TaskSucceeds
  <2> SUFFICES ASSUME clean', pc' # "failed"
               PROVE  /\ InIndex(from)'
                      /\ pc' = "add" /\ reply' = "ok" => InIndex(pos)'
                      /\ pc' \in {"report", "done"} => Len(index') = Len(source')
    BY DEF Uploads
  <2> DEFINE t == Head(queue)
  <2>1. /\ queue # <<>> /\ UNCHANGED <<client, clean>>
        /\ reply' = (IF t.own THEN "ok" ELSE reply)
        /\ index' = CASE t.kind = "add" -> Added(t.ids, t.val)
                      [] t.kind = "delete" -> Remaining(t.ids)
                      [] OTHER -> index
    BY <1>6 DEF TaskSucceeds
  <2>2. UNCHANGED <<pc, runs, source, from, pos>> /\ clean /\ pc # "failed" BY <2>1 DEF client
  <2>3. t = queue[1] /\ 1 \in DOMAIN queue /\ t \in Requests BY <2>1, HeadIs
  <2>4. t.ids \in Seq(Ids) /\ t.val \in 0..MaxRuns BY <2>3, SyncAssumption DEF Requests
  <2>5. InIndex(from) /\ (source = <<>> \/ from > 1 => t.own) /\ (reply = "ok" => queue = <<>>)
    BY <1>u, <2>2, <2>3 DEF Flushed
  <2> HIDE DEF t
  <2>6. CASE ~t.own
    <3>1. source # <<>> /\ from = 1 BY <2>5, <2>6, Lengths
    <3>2. \A i \in DOMAIN source : ~(i < 1) BY Lengths
    <3>3. InIndex(from)' BY <2>2, <3>1, <3>2 DEF InIndex
    <3>4. reply' # "ok" BY <2>1, <2>5, <2>6
    <3>5. pc \notin {"report", "done"}
      <4> SUFFICES ASSUME pc \in {"report", "done"} PROVE FALSE OBVIOUS
      <4>1. from = Len(source) + 1 BY DEF Reading, Filled
      <4>2. Len(source) = 0 BY <3>1, <4>1, Lengths
      <4>3. source \in Seq(Ids \cup {Bad}) BY RowsAreTyped DEF TypeOK
      <4> QED BY <3>1, <4>2, <4>3, EmptySeq
    <3> QED BY <2>2, <3>3, <3>4, <3>5
  <2>7. CASE t.own
    <3>1. reply = "queued" /\ t = Current BY <2>3, <2>7 DEF OneRequest
    <3>2. pc \in Waiting BY <3>1 DEF OneRequest
    <3>3. t.kind = pc /\ t.val = runs BY <3>1 DEF Current
    <3>4. pc \notin Ended /\ pc \notin {"report", "done"} BY <3>2 DEF Ended, Waiting
    <3>5. CASE pc = "add"
      <4>1. t.ids = Batch BY <3>1, <3>5 DEF Current
      <4>2. index' = Added(t.ids, runs) BY <2>1, <3>3, <3>5
      <4>3. /\ \A j \in DOMAIN index : index[j].val = runs =>
                 \E k \in DOMAIN index' : index'[k] = index[j]
            /\ \A id \in ToSet(t.ids) :
                 \E k \in DOMAIN index' : index'[k] = [id |-> id, val |-> runs]
        BY <2>4, <3>3, <4>2, AddedIs
      <4>4. ASSUME NEW i \in DOMAIN source, i < from
            PROVE  \E k \in DOMAIN index' : index'[k] = [id |-> source[i], val |-> runs]
        <5>1. PICK j \in DOMAIN index : index[j] = [id |-> source[i], val |-> runs]
          BY <2>5, <4>4 DEF InIndex
        <5>2. index[j].val = runs BY <5>1
        <5> QED BY <4>3, <5>1, <5>2
      <4>5. ASSUME NEW i \in DOMAIN source, i < pos
            PROVE  \E k \in DOMAIN index' : index'[k] = [id |-> source[i], val |-> runs]
        <5>1. CASE i < from BY <4>4, <5>1
        <5>2. CASE ~(i < from)
          <6>1. i \in from..pos - 1 BY <4>5, <5>2, Lengths
          <6>2. source[i] \in ToSet(t.ids) BY <3>4, <4>1, <6>1, BatchIs
          <6> QED BY <4>3, <6>2
        <5> QED BY <5>1, <5>2
      <4>6. InIndex(from)' /\ InIndex(pos)' BY <2>2, <4>4, <4>5 DEF InIndex
      <4> QED BY <2>2, <3>4, <4>6
    <3>6. CASE pc = "delete"
      <4>1. t.ids = Chunk BY <3>1, <3>6 DEF Current
      <4>2. index' = Remaining(t.ids) BY <2>1, <3>3, <3>6
      <4>3. ToSet(t.ids) \cap ToSet(source) = {}
        <5>1. ToSet(stale) \cap ToSet(source) = {} BY <3>4 DEF Reading, ToSet
        <5> QED BY <4>1, <5>1, ChunkIs
      <4>4. \A j \in DOMAIN index : index[j].id \notin ToSet(t.ids) =>
              \E k \in DOMAIN index' : index'[k] = index[j]
        BY <2>4, <4>2, RemainingIs
      <4>5. ASSUME NEW i \in DOMAIN source, i < from
            PROVE  \E k \in DOMAIN index' : index'[k] = [id |-> source[i], val |-> runs]
        <5>1. PICK j \in DOMAIN index : index[j] = [id |-> source[i], val |-> runs]
          BY <2>5, <4>5 DEF InIndex
        <5>2. source[i] \in ToSet(source) BY DEF ToSet
        <5>3. index[j].id \notin ToSet(t.ids) BY <4>3, <5>1, <5>2
        <5> QED BY <4>4, <5>1, <5>3
      <4>6. InIndex(from)' BY <2>2, <4>5 DEF InIndex
      <4> QED BY <2>2, <3>4, <3>6, <4>6
    <3>7. CASE pc \notin {"add", "delete"}
      <4>1. index' = index BY <2>1, <3>3, <3>7
      <4>2. InIndex(from)' BY <2>2, <2>5, <4>1 DEF InIndex
      <4> QED BY <2>2, <3>4, <3>7, <4>2
    <3> QED BY <3>5, <3>6, <3>7
  <2> QED BY <2>6, <2>7
<1> QED BY <1>1, <1>2, <1>3, <1>4, <1>5, <1>6 DEF Next

LEMMA Invariance == Spec => []Inv
<1>1. Init => Inv
  <2> SUFFICES ASSUME Init PROVE Inv OBVIOUS
  <2>1. PICK before \in Distinct(Ids) :
          index = [i \in DOMAIN before |-> [id |-> before[i], val |-> 0]]
    BY DEF Init
  <2>2. index \in Seq(Documents)
    <3>1. PICK m \in 0..Cardinality(Ids) : before \in [1..m -> Ids]
      BY DEF Distinct, BoundedSeq, SeqOf
    <3>2. m \in Nat OBVIOUS
    <3>3. \A i \in 1..m : [id |-> before[i], val |-> 0] \in Documents
      BY <3>1, SyncAssumption DEF Documents
    <3>4. index \in [1..m -> Documents] BY <2>1, <3>1, <3>3
    <3> QED BY <3>2, <3>4, SeqDef
  <2>3. TypeOK
    <3>1. source = <<>> /\ stale = <<>> /\ queue = <<>> /\ flight = {} BY DEF Init
    <3>2. source \in Rows
      <4>1. 0 \in 0..MaxRows BY SyncAssumption
      <4>2. source \in [1..0 -> Ids \cup {Bad}] BY <3>1
      <4> QED BY <4>1, <4>2 DEF Rows, BoundedSeq, SeqOf
    <3>3. Len(source) = 0 BY <3>1, EmptySeq
    <3>4. pos \in 1..Len(source) + 1 /\ from \in 1..pos BY <3>3 DEF Init
    <3>5. runs \in 0..MaxRuns BY SyncAssumption DEF Init
    <3>6. ClientTypes BY <3>1, <3>2, <3>4, <3>5, EmptySeq DEF ClientTypes, Init, Ended
    <3>7. WayTypes BY <3>1, EmptySeq DEF WayTypes, Init
    <3>8. ServerTypes BY <2>2 DEF ServerTypes, Init
    <3> QED BY <3>6, <3>7, <3>8, TypesAre
  <2>4. Reading BY DEF Init, Reading, Ended, Filled
  <2>5. OneRequest BY DEF Init, OneRequest, Waiting
  <2>6. Flushed BY DEF Init, Flushed
  <2>7. Uploads BY DEF Init, Uploads, InIndex
  <2> QED BY <2>3, <2>4, <2>5, <2>6, <2>7 DEF Inv
<1>2. Inv /\ [Next]_vars => Inv'
  <2> SUFFICES ASSUME Inv, [Next]_vars PROVE Inv' OBVIOUS
  <2>1. CASE Next
    BY <2>1, TypeStep, ReadingStep, OneRequestStep, FlushedStep, UploadsStep DEF Inv
  <2>2. CASE UNCHANGED vars
    BY <2>2 DEF vars, client, server, Inv, TypeOK, Reading, OneRequest, Current, Batch, Chunk,
                Flushed, Uploads, InIndex
  <2> QED BY <2>1, <2>2
<1> QED BY <1>1, <1>2, PTL DEF Spec

\* A request of the client's own is the one it waits for, in flight or queued.
LEMMA OwnIsCurrent ==
  ASSUME OneRequest, NEW r \in flight \cup ToSet(queue), r.own
  PROVE  r = Current
<1>1. CASE r \in flight BY <1>1 DEF OneRequest
<1>2. CASE r \in ToSet(queue)
  <2>1. PICK i \in DOMAIN queue : queue[i] = r BY <1>2 DEF ToSet
  <2> QED BY <2>1 DEF OneRequest
<1> QED BY <1>1, <1>2

\* Every variable keeps its type, whatever is lost, left behind or repeated.
THEOREM TypeCorrect == Spec => []TypeOK
<1>1. Inv => TypeOK BY DEF Inv
<1> QED BY <1>1, Invariance, PTL

\* As long as a request to delete is under way, everything this run read is
\* in the index with this run's contents, and none of it is to be deleted, for
\* a run that starts with no request of an earlier one in flight and, if it has
\* nothing to upload, none of its tasks in the queue (clean).
THEOREM DeletesWhenComplete == Spec => []DeleteWhenComplete
<1>1. Inv => DeleteWhenComplete
  <2> SUFFICES ASSUME Inv, NEW r \in flight \cup ToSet(queue), clean, r.own, r.kind = "delete"
               PROVE  Synchronized /\ ToSet(r.ids) \cap ToSet(source) = {}
    BY DEF DeleteWhenComplete
  <2>1. TypeOK /\ Reading /\ OneRequest /\ Uploads BY DEF Inv
  <2>2. r = Current BY <2>1, OwnIsCurrent
  <2>3. pc = "delete" /\ r.ids = Chunk BY <2>2 DEF Current
  <2>4. ToSet(stale) \cap ToSet(source) = {} BY <2>1, <2>3 DEF Reading, Ended, ToSet
  <2>5. ToSet(r.ids) \cap ToSet(source) = {} BY <2>1, <2>3, <2>4, ChunkIs
  <2>6. from = Len(source) + 1 /\ InIndex(from) BY <2>1, <2>3 DEF Reading, Filled, Uploads
  <2>7. \A i \in DOMAIN source : i < from BY <2>1, <2>6, Lengths
  <2>8. Synchronized BY <2>6, <2>7 DEF InIndex, Synchronized
  <2> QED BY <2>5, <2>8
<1> QED BY <1>1, Invariance, PTL

\* When a run has reported success, what it read is in the index with this
\* run's contents and nothing else is there, until the next run starts.
THEOREM SuccessMeansSync == Spec => []SuccessIsSync
<1>1. Inv => SuccessIsSync
  <2> SUFFICES ASSUME Inv, pc = "done", clean PROVE Synchronized /\ Len(index) = Len(source)
    BY DEF SuccessIsSync
  <2>1. TypeOK /\ Reading /\ Uploads BY DEF Inv
  <2>2. from = Len(source) + 1 /\ InIndex(from) /\ Len(index) = Len(source)
    BY <2>1 DEF Reading, Filled, Uploads
  <2>3. \A i \in DOMAIN source : i < from BY <2>1, <2>2, Lengths
  <2> QED BY <2>2, <2>3 DEF InIndex, Synchronized
<1> QED BY <1>1, Invariance, PTL

=============================================================================
