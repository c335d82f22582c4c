------------------------- MODULE HistoryRecords_proofs -------------------------
(***************************************************************************)
(* What holds of the history for every set of records and requests and     *)
(* every policy: the count on the books is the number of the rows, a save  *)
(* removes the oldest rows only and keeps to its limits, a restore leaves  *)
(* a backup of the database that it replaced, and a walk through a history *)
(* that changes meanwhile gives out what it owes, each record once.        *)
(***************************************************************************)
EXTENDS HistoryRecords, FiniteSetTheorems, SequenceTheorems, WellFoundedInduction, TLAPS

\* Natural numbers are well ordered: every induction below is an appeal to this.
LEMMA LeastNumber ==
  ASSUME NEW T \in SUBSET Nat, T # {}
  PROVE  \E n \in T : \A m \in T : n <= m
<1> DEFINE R == {p \in Nat \X Nat : p[1] < p[2]}
<1>1. IsWellFoundedOn(R, Nat)
  BY NatLessThanWellFounded DEF OpToRel
<1> HIDE DEF R
<1>2. PICK n \in T : \A m \in T : ~ (<<m, n>> \in R)
  BY <1>1, WFMin
<1>3. \A m \in T : ~(m < n)
  BY <1>2 DEF R
<1> QED
  BY <1>3

-----------------------------------------------------------------------------
(* The oldest rows.                                                        *)

Before(table, S, i) == {j \in S : Older(table, j, i)}

LEMMA TablesAreTyped ==
  ASSUME NEW table \in Tables
  PROVE  /\ DOMAIN table \subseteq Ids /\ DOMAIN table \subseteq Nat
         /\ table \in [DOMAIN table -> Rows]
         /\ \A i \in DOMAIN table : table[i] \in Rows /\ table[i].created_at \in Nat
<1>1. PICK ids \in SUBSET Ids : table \in [ids -> Rows]
  BY DEF Tables
<1> QED
  BY <1>1, QueryAssumption DEF Rows

\* By date, and by identifier on one day: a strict and total order.
LEMMA OlderIsAnOrder ==
  ASSUME NEW table \in Tables, NEW a \in DOMAIN table, NEW b \in DOMAIN table, NEW c \in DOMAIN table
  PROVE  /\ ~Older(table, a, a)
         /\ Older(table, a, b) /\ Older(table, b, c) => Older(table, a, c)
         /\ Older(table, a, b) \/ a = b \/ Older(table, b, a)
<1>1. {a, b, c} \subseteq Nat
      /\ {table[a].created_at, table[b].created_at, table[c].created_at} \subseteq Nat
  BY TablesAreTyped
<1> QED
  BY <1>1 DEF Older

LEMMA RanksGrow ==
  ASSUME NEW table \in Tables, NEW S \in SUBSET DOMAIN table, IsFiniteSet(S),
         NEW a \in S, NEW b \in S, Older(table, a, b)
  PROVE  Cardinality(Before(table, S, a)) < Cardinality(Before(table, S, b))
<1> DEFINE A == Before(table, S, a)
           B == Before(table, S, b)
<1>1. A \subseteq B /\ a \in B /\ a \notin A /\ B \subseteq S
  BY OlderIsAnOrder DEF Before
<1> HIDE DEF A, B
<1>2. IsFiniteSet(B)
  BY <1>1, FS_Subset
<1>3. IsFiniteSet(A) /\ Cardinality(A) <= Cardinality(B) /\ Cardinality(A) # Cardinality(B)
  BY <1>1, <1>2, FS_Subset
<1>4. Cardinality(A) \in Nat /\ Cardinality(B) \in Nat
  BY <1>2, <1>3, FS_CardinalityType
<1> QED
  BY <1>3, <1>4 DEF A, B

LEMMA RanksAreNumbers ==
  ASSUME NEW table, NEW S, IsFiniteSet(S), NEW i
  PROVE  IsFiniteSet(Before(table, S, i)) /\ Cardinality(Before(table, S, i)) \in Nat
<1>1. Before(table, S, i) \subseteq S
  BY DEF Before
<1> QED
  BY <1>1, FS_Subset, FS_CardinalityType

\* LIMIT: what is taken is older than what is not; no more than asked for; and all, if less.
LEMMA OldestRows ==
  ASSUME NEW table \in Tables, NEW S \in SUBSET DOMAIN table, IsFiniteSet(S), NEW n \in Nat
  PROVE  /\ Oldest(table, S, n) \subseteq S
         /\ IsFiniteSet(Oldest(table, S, n))
         /\ Cardinality(Oldest(table, S, n)) \in 0..n
         /\ Cardinality(Oldest(table, S, n)) < n => Oldest(table, S, n) = S
         /\ \A gone \in Oldest(table, S, n), kept \in S \ Oldest(table, S, n) : Older(table, gone, kept)
<1> DEFINE O == Oldest(table, S, n)
           rank == [i \in S |-> Cardinality(Before(table, S, i))]
<1>1. \A i \in S : rank[i] \in Nat /\ (i \in O <=> rank[i] < n)
  BY RanksAreNumbers DEF Oldest, Before
<1>2. O \subseteq S
  BY DEF Oldest
<1>3. IsFiniteSet(O) /\ Cardinality(O) \in Nat
  BY <1>2, FS_Subset, FS_CardinalityType
<1>4. \A a, b \in S : Older(table, a, b) => rank[a] < rank[b]
  BY RanksGrow
<1>5. \A a, b \in S : rank[a] = rank[b] => a = b
  BY <1>1, <1>4, OlderIsAnOrder
<1>6. \A i \in S : rank[i] = Cardinality(Before(table, S, i))
  OBVIOUS
<1> HIDE DEF O, rank
<1>7. Cardinality(O) <= n
  <2> DEFINE f == [i \in O |-> rank[i]]
  <2>1. f \in Injection(O, 0..(n - 1))
    <3>1. \A i \in O : f[i] \in 0..(n - 1)
      BY <1>1, <1>2
    <3>2. \A i, j \in O : f[i] = f[j] => i = j
      BY <1>2, <1>5
    <3>3. f \in [O -> 0..(n - 1)]
      BY <3>1
    <3> HIDE DEF f
    <3> QED
      BY <3>2, <3>3 DEF Injection, IsInjective
  <2>2. IsFiniteSet(0..(n - 1)) /\ Cardinality(0..(n - 1)) = n
    BY FS_Interval
  <2> QED
    BY <2>1, <2>2, FS_Injection
<1>8. \A gone \in O, kept \in S \ O : Older(table, gone, kept)
  <2> SUFFICES ASSUME NEW gone \in O, NEW kept \in S \ O PROVE Older(table, gone, kept)
    OBVIOUS
  <2>1. rank[gone] < n /\ ~(rank[kept] < n) /\ rank[gone] \in Nat /\ rank[kept] \in Nat /\ gone # kept
    BY <1>1, <1>2
  <2>2. ~Older(table, kept, gone)
    BY <1>2, <1>4, <2>1
  <2> QED
    BY <1>2, <2>1, <2>2, OlderIsAnOrder
<1>9. ASSUME Cardinality(O) < n PROVE O = S
  <2> SUFFICES ASSUME O # S PROVE FALSE
    OBVIOUS
  <2> DEFINE T == {rank[i] : i \in S \ O}
  <2>1. T \subseteq Nat /\ T # {}
    BY <1>1, <1>2
  <2>2. PICK r \in T : \A m \in T : r <= m
    BY <2>1, LeastNumber
  <2>3. PICK i \in S \ O : r = rank[i]
    OBVIOUS
  <2>4. Before(table, S, i) \subseteq O
    <3> SUFFICES ASSUME NEW j \in S, Older(table, j, i), j \notin O PROVE FALSE
      BY DEF Before
    <3>1. rank[j] < rank[i] /\ rank[j] \in T
      BY <1>4, <2>3
    <3> QED
      BY <1>1, <2>2, <2>3, <3>1
  <2>5. Cardinality(Before(table, S, i)) <= Cardinality(O)
    BY <1>3, <2>4, FS_Subset
  <2>6. ~(rank[i] < n) /\ rank[i] \in Nat
    BY <1>1, <2>3
  <2> QED
    BY <1>3, <1>6, <1>9, <2>3, <2>5, <2>6
<1>10. O = Oldest(table, S, n)
  BY DEF O
<1> QED
  BY <1>2, <1>3, <1>7, <1>8, <1>9, <1>10

-----------------------------------------------------------------------------
(* The inductive invariant.                                                *)

\* The books of a database that the code has written are true; an old one has none.
Sound(f) ==
  /\ f \in Files /\ IsFiniteSet(DOMAIN f.rows)
  /\ \A i \in DOMAIN f.rows : f.rows[i].created_at = CreatedAt[i]
  /\ f.count = Missing => f.layout = "old"
  /\ f.count # Missing => f.count = Cardinality(DOMAIN f.rows)

Backups == [day : Nat, file : Files]

RecordsInv ==
  /\ day \in Nat /\ changes \in Nat /\ recovery \in BOOLEAN /\ repaired \in BOOLEAN
  /\ file = NoFile \/ Sound(file)
  /\ backups \in Seq(Backups)
  /\ \A k \in DOMAIN backups : Sound(backups[k].file)
  /\ backups # <<>> => file # NoFile

LEMMA PolicyIsPositive ==
  /\ {MaxRecords, MaxAge, CleanupBatch, CheckInterval, MaxBackups} \subseteq Nat \ {0}
  /\ BackupAge \in Nat
BY RecordsAssumption DEF PolicyAllowed

LEMMA SoundIsAFile == \A f : Sound(f) => f # NoFile
BY RecordsAssumption DEF Sound

LEMMA FilesAreTyped ==
  ASSUME NEW f, Sound(f)
  PROVE  /\ f.rows \in Tables /\ DOMAIN f.rows \subseteq Ids
         /\ f.count \in Int /\ f.saves \in Int /\ f.pending \in Int
         /\ f.layout \in {"current", "old"} /\ f.quarantine \subseteq Ids
         /\ Cardinality(DOMAIN f.rows) \in Nat
<1>1. f.rows \in Tables /\ f.count \in Int /\ f.saves \in Int /\ f.pending \in Int
      /\ f.layout \in {"current", "old"} /\ f.quarantine \subseteq Ids
  BY DEF Sound, Files
<1> QED
  BY <1>1, TablesAreTyped, FS_CardinalityType DEF Sound

LEMMA CountedIsSound ==
  ASSUME NEW g \in Files, IsFiniteSet(DOMAIN g.rows),
         \A i \in DOMAIN g.rows : g.rows[i].created_at = CreatedAt[i],
         g.count = Cardinality(DOMAIN g.rows)
  PROVE  Sound(g) /\ g.count # Missing
BY FS_CardinalityType DEF Sound, Missing

LEMMA RowsOfIds ==
  ASSUME NEW i \in Ids
  PROVE  Row(i) \in Rows /\ Row(i).created_at = CreatedAt[i]
BY QueryAssumption DEF Row, Rows, NoRating, Sealed

LEMMA TableOf ==
  ASSUME NEW ids \in SUBSET Ids, NEW table, table \in [ids -> Rows]
  PROVE  table \in Tables /\ DOMAIN table = ids
BY DEF Tables

LEMMA EmptyTable ==
  /\ Empty \in Tables /\ DOMAIN Empty = {} /\ IsFiniteSet({}) /\ Cardinality({}) = 0
<1>1. Empty \in [{} -> Rows]
  BY DEF Empty
<1> QED
  BY <1>1, TableOf, FS_EmptySet

LEMMA NewIsSound == Sound(NewFile)
<1>1. NewFile.rows = Empty /\ NewFile.count = 0 /\ NewFile \in Files
  BY EmptyTable DEF NewFile, Files
<1> QED
  BY <1>1, EmptyTable DEF Sound, Missing

LEMMA OldIsSound ==
  ASSUME NEW ids \in SUBSET Ids, IsFiniteSet(ids)
  PROVE  Sound(OldFile(ids))
<1> DEFINE table == [i \in ids |-> Row(i)]
<1>1. table \in [ids -> Rows] /\ \A i \in ids : table[i].created_at = CreatedAt[i]
  BY RowsOfIds
<1>2. table \in Tables /\ DOMAIN table = ids
  BY <1>1, TableOf
<1>3. OldFile(ids).rows = table /\ OldFile(ids).count = Missing /\ OldFile(ids).layout = "old"
  BY DEF OldFile
<1> HIDE DEF table
<1>4. OldFile(ids) \in Files
  BY <1>2, <1>3 DEF OldFile, Files, Missing
<1> QED
  BY <1>1, <1>2, <1>3, <1>4 DEF Sound

LEMMA WithoutRows ==
  ASSUME NEW table \in Tables, NEW gone, IsFiniteSet(DOMAIN table)
  PROVE  /\ Without(table, gone) \in Tables /\ DOMAIN Without(table, gone) = DOMAIN table \ gone
         /\ IsFiniteSet(DOMAIN table \ gone)
         /\ \A i \in DOMAIN table \ gone : Without(table, gone)[i] = table[i]
<1>1. DOMAIN table \subseteq Ids /\ \A i \in DOMAIN table : table[i] \in Rows
  BY TablesAreTyped
<1>2. Without(table, gone) \in [DOMAIN table \ gone -> Rows]
  BY <1>1 DEF Without
<1>3. Without(table, gone) \in Tables /\ DOMAIN Without(table, gone) = DOMAIN table \ gone
  BY <1>1, <1>2, TableOf
<1> QED
  BY <1>3, FS_Subset DEF Without

-----------------------------------------------------------------------------
(* save.                                                                   *)

LEMMA MigratedIsSound ==
  ASSUME file = NoFile \/ Sound(file)
  PROVE  /\ Sound(Migrated(file)) /\ Migrated(file).count = Cardinality(DOMAIN Migrated(file).rows)
         /\ Migrated(file).rows = Table
<1>1. CASE file = NoFile
  BY <1>1, NewIsSound, EmptyTable DEF Migrated, Table, NewFile
<1>2. CASE file # NoFile /\ file.layout = "current"
  BY <1>2 DEF Migrated, Table, Sound
<1>3. CASE file # NoFile /\ file.layout # "current"
  <2> DEFINE m == Migrated(file)
  <2>1. Sound(file)
    BY <1>3
  <2>2. file \in Files /\ Cardinality(DOMAIN file.rows) \in Int
    BY <2>1, FilesAreTyped DEF Sound
  <2>3. m = [file EXCEPT !.layout = "current", !.saves = Given(file.saves), !.pending = Given(file.pending),
               !.count = IF file.count = Missing THEN Cardinality(DOMAIN file.rows) ELSE file.count]
    BY <1>3 DEF Migrated
  <2>4. Given(file.saves) \in Int /\ Given(file.pending) \in Int
    BY <2>2 DEF Files, Given
  <2>5. m \in Files /\ m.rows = file.rows
        /\ m.count = IF file.count = Missing THEN Cardinality(DOMAIN file.rows) ELSE file.count
    BY <2>2, <2>3, <2>4 DEF Files
  <2> HIDE DEF m
  <2>6. m.count = Cardinality(DOMAIN m.rows)
    BY <2>1, <2>5 DEF Sound
  <2>7. Sound(m)
    BY <2>1, <2>5, <2>6, CountedIsSound DEF Sound
  <2> QED
    BY <1>3, <2>5, <2>6, <2>7 DEF m, Table
<1> QED
  BY <1>1, <1>2, <1>3

LEMMA InsertedIsSound ==
  ASSUME NEW f, Sound(f), f.count = Cardinality(DOMAIN f.rows), NEW i \in Ids \ DOMAIN f.rows
  PROVE  LET g == Inserted(f, i) IN
         /\ Sound(g) /\ g.count = Cardinality(DOMAIN g.rows)
         /\ DOMAIN g.rows = DOMAIN f.rows \cup {i}
         /\ \A j \in DOMAIN f.rows : g.rows[j] = f.rows[j]
         /\ Cardinality(DOMAIN g.rows) = Cardinality(DOMAIN f.rows) + 1
<1> DEFINE g == Inserted(f, i)
           table == [j \in DOMAIN f.rows \cup {i} |-> IF j = i THEN Row(i) ELSE f.rows[j]]
<1>1. f.rows \in Tables /\ DOMAIN f.rows \subseteq Ids /\ f.count \in Int /\ f.saves \in Int
      /\ f.pending \in Int /\ f.layout \in {"current", "old"} /\ f.quarantine \subseteq Ids
      /\ Cardinality(DOMAIN f.rows) \in Nat
  BY FilesAreTyped
<1>2. table \in [DOMAIN f.rows \cup {i} -> Rows]
  BY <1>1, TablesAreTyped, RowsOfIds
<1>3. table \in Tables /\ DOMAIN table = DOMAIN f.rows \cup {i}
  BY <1>1, <1>2, TableOf
<1>4. \A j \in DOMAIN table : table[j].created_at = CreatedAt[j]
  BY RowsOfIds DEF Sound
<1>5. IsFiniteSet(DOMAIN f.rows \cup {i})
      /\ Cardinality(DOMAIN f.rows \cup {i}) = Cardinality(DOMAIN f.rows) + 1
  BY FS_AddElement DEF Sound
<1>6. g = [f EXCEPT !.rows = table, !.count = f.count + 1, !.saves = f.saves + 1]
  BY DEF Inserted
<1>7. \A j \in DOMAIN f.rows : table[j] = f.rows[j]
  OBVIOUS
<1> HIDE DEF table, g
<1>8. g \in Files /\ g.rows = table /\ g.count = f.count + 1
  <2>1. f \in Files /\ f.count + 1 \in Int /\ f.saves + 1 \in Int
    BY <1>1 DEF Sound
  <2> QED
    BY <1>3, <1>6, <2>1 DEF Files
<1>9. Sound(g) /\ g.count = Cardinality(DOMAIN g.rows)
  BY <1>3, <1>4, <1>5, <1>8, CountedIsSound
<1> QED
  BY <1>3, <1>5, <1>7, <1>8, <1>9 DEF g

\* What retention selects: never the row that is saved, within the batch; nothing that is
\* newer than what it leaves; something, if there are too many; and of the expired rows all,
\* unless the batch is full.
LEMMA SelectedRows ==
  ASSUME NEW f, Sound(f), f.count = Cardinality(DOMAIN f.rows), NEW i \in DOMAIN f.rows, day \in Nat
  PROVE  LET gone == Selected(f, i) IN
         /\ gone \subseteq DOMAIN f.rows \ {i}
         /\ IsFiniteSet(gone) /\ Cardinality(gone) \in 0..CleanupBatch
         /\ \A j \in gone, kept \in DOMAIN f.rows \ (gone \cup {i}) : Older(f.rows, j, kept)
         /\ f.count > MaxRecords => gone # {}
         /\ Attentive(f) =>
              \/ Cardinality(gone) = CleanupBatch
              \/ \A j \in DOMAIN f.rows \ (gone \cup {i}) : ~Expired(f.rows, j)
<1> DEFINE table == f.rows
           others == DOMAIN table \ {i}
           old == {j \in others : Expired(table, j)}
           expired == IF Attentive(f) THEN Oldest(table, old, CleanupBatch) ELSE {}
           room == CleanupBatch - Cardinality(expired)
           needed == AtMost(AtLeastZero(Overflow(f) - Cardinality(expired)), room)
           n == IF Pressed(f) THEN room ELSE needed
           rest == Oldest(table, others \ expired, n)
           gone == Selected(f, i)
<1>1. gone = expired \cup rest
  BY DEF Selected
<1>2. table \in Tables /\ IsFiniteSet(DOMAIN table) /\ Cardinality(DOMAIN table) \in Nat
  BY FilesAreTyped DEF Sound
<1>3. IsFiniteSet(others) /\ IsFiniteSet(old) /\ others \subseteq DOMAIN table /\ old \subseteq others
      /\ Cardinality(others) = f.count - 1
  BY <1>2, FS_Subset, FS_RemoveElement
<1>4. CleanupBatch \in Nat \ {0} /\ MaxRecords \in Nat \ {0} /\ MaxAge \in Nat
  BY PolicyIsPositive
<1>5. /\ expired \subseteq old /\ IsFiniteSet(expired) /\ Cardinality(expired) \in 0..CleanupBatch
      /\ \A j \in expired, kept \in old \ expired : Older(table, j, kept)
      /\ Attentive(f) => (Cardinality(expired) < CleanupBatch => expired = old)
  <2>1. CASE Attentive(f)
    <3>1. expired = Oldest(table, old, CleanupBatch)
      BY <2>1
    <3>2. old \in SUBSET DOMAIN table
      BY <1>3
    <3> HIDE DEF expired, old
    <3> QED
      BY <1>2, <1>3, <1>4, <2>1, <3>1, <3>2, OldestRows
  <2>2. CASE ~Attentive(f)
    <3>1. expired = {}
      BY <2>2
    <3> HIDE DEF expired
    <3> QED
      BY <1>4, <2>2, <3>1, FS_EmptySet
  <2> QED
    BY <2>1, <2>2
<1>6. Overflow(f) \in Nat /\ (f.count > MaxRecords => Overflow(f) >= 1)
  BY <1>2, <1>4 DEF Overflow, AtLeastZero
<1>7. room \in 0..CleanupBatch /\ n \in 0..room
      /\ (f.count > MaxRecords => Cardinality(expired) >= 1 \/ n >= 1)
  <2> HIDE DEF expired
  <2> QED
    BY <1>4, <1>5, <1>6 DEF AtMost, AtLeastZero
<1>8. room = CleanupBatch - Cardinality(expired)
  OBVIOUS
<1>9. /\ rest \subseteq others \ expired /\ IsFiniteSet(rest) /\ Cardinality(rest) \in 0..n
      /\ Cardinality(rest) < n => rest = others \ expired
      /\ \A j \in rest, kept \in (others \ expired) \ rest : Older(table, j, kept)
  <2> HIDE DEF n, room, expired, others
  <2>1. others \ expired \in SUBSET DOMAIN table /\ n \in Nat
    BY <1>3, <1>7
  <2>2. IsFiniteSet(others \ expired)
    BY <1>3, FS_Subset
  <2> QED
    BY <1>2, <2>1, <2>2, OldestRows
<1>10. \A j, k \in DOMAIN table : Expired(table, j) /\ ~Expired(table, k) => Older(table, j, k)
  <2>1. \A j \in DOMAIN table : table[j].created_at \in Nat
    BY <1>2, TablesAreTyped
  <2> QED
    BY <1>4, <2>1 DEF Expired, Older
<1>11. \A j \in others : j \in old <=> Expired(table, j)
  OBVIOUS
<1>12. others = DOMAIN table \ {i}
  OBVIOUS
<1> HIDE DEF gone, rest, n, needed, room, expired, old, others
<1>13. gone \subseteq others /\ IsFiniteSet(gone) /\ Cardinality(gone) = Cardinality(expired) + Cardinality(rest)
  <2>1. expired \cap rest = {}
    BY <1>9
  <2> QED
    BY <1>1, <1>3, <1>5, <1>9, <2>1, FS_Union, FS_EmptySet, SMTT(30)
<1>14. Cardinality(gone) \in 0..CleanupBatch
  BY <1>4, <1>5, <1>7, <1>8, <1>9, <1>13
<1>15. \A j \in gone, kept \in others \ gone : Older(table, j, kept)
  <2> SUFFICES ASSUME NEW j \in gone, NEW kept \in others \ gone PROVE Older(table, j, kept)
    OBVIOUS
  <2>1. CASE j \in rest
    BY <1>1, <1>9, <2>1
  <2>2. CASE j \in expired /\ kept \in old
    BY <1>1, <1>5, <2>2
  <2>3. CASE j \in expired /\ kept \notin old
    BY <1>3, <1>5, <1>10, <1>11, <2>3
  <2> QED
    BY <1>1, <2>1, <2>2, <2>3
<1>16. f.count > MaxRecords => gone # {}
  <2> SUFFICES ASSUME f.count > MaxRecords, gone = {} PROVE FALSE
    OBVIOUS
  <2>1. expired = {} /\ rest = {}
    BY <1>1
  <2>2. Cardinality(expired) = 0 /\ Cardinality(rest) = 0
    BY <2>1, FS_EmptySet
  <2>3. n >= 1
    BY <1>7, <2>2
  <2>4. others = {}
    BY <1>7, <1>9, <2>1, <2>2, <2>3
  <2>5. f.count = 1
    BY <1>2, <1>3, <2>4, FS_EmptySet
  <2> QED
    BY <1>4, <2>5
<1>17. ASSUME Attentive(f), Cardinality(gone) # CleanupBatch
       PROVE  \A j \in others \ gone : ~Expired(table, j)
  <2>1. expired = old
    BY <1>4, <1>5, <1>7, <1>8, <1>9, <1>13, <1>17
  <2> QED
    BY <1>1, <1>11, <2>1
<1> QED
  BY <1>12, <1>13, <1>14, <1>15, <1>16, <1>17 DEF gone

LEMMA RetainedIsSound ==
  ASSUME NEW f, Sound(f), f.count = Cardinality(DOMAIN f.rows), NEW i \in DOMAIN f.rows, day \in Nat
  PROVE  LET r == Retained(f, i)
             gone == IF Due(f) THEN Selected(f, i) ELSE {} IN
         /\ Sound(r)
         /\ DOMAIN r.rows = DOMAIN f.rows \ gone
         /\ \A j \in DOMAIN r.rows : r.rows[j] = f.rows[j]
         /\ Cardinality(DOMAIN r.rows) = Cardinality(DOMAIN f.rows) - Cardinality(gone)
         /\ Due(f) => r.pending = IF Cardinality(gone) = CleanupBatch /\ f.count - Cardinality(gone) > 0 THEN 1 ELSE 0
<1> DEFINE r == Retained(f, i)
           gone == Selected(f, i)
           p == IF Cardinality(gone) = CleanupBatch /\ f.count - Cardinality(gone) > 0 THEN 1 ELSE 0
<1>1. CASE ~Due(f)
  <2>1. r = f
    BY <1>1 DEF Retained
  <2>2. Cardinality(DOMAIN f.rows) \in Nat
    BY FilesAreTyped
  <2> QED
    BY <1>1, <2>1, <2>2, FS_EmptySet
<1>2. CASE Due(f)
  <2>1. r = [f EXCEPT !.rows = Without(f.rows, gone), !.count = f.count - Cardinality(gone), !.pending = p]
    BY <1>2 DEF Retained
  <2>2. gone \subseteq DOMAIN f.rows \ {i} /\ IsFiniteSet(gone) /\ Cardinality(gone) \in 0..CleanupBatch
    BY SelectedRows
  <2>3. f \in Files /\ f.rows \in Tables /\ IsFiniteSet(DOMAIN f.rows) /\ f.count \in Int
    BY FilesAreTyped DEF Sound
  <2>4. /\ Without(f.rows, gone) \in Tables /\ DOMAIN Without(f.rows, gone) = DOMAIN f.rows \ gone
        /\ IsFiniteSet(DOMAIN f.rows \ gone)
        /\ \A j \in DOMAIN f.rows \ gone : Without(f.rows, gone)[j] = f.rows[j]
    BY <2>3, WithoutRows
  <2>5. Cardinality(DOMAIN f.rows \ gone) = Cardinality(DOMAIN f.rows) - Cardinality(gone)
    <3> HIDE DEF gone
    <3>1. DOMAIN f.rows \cap gone = gone
      BY <2>2
    <3> DEFINE D == DOMAIN f.rows
    <3> HIDE DEF D
    <3>2. IsFiniteSet(D)
      BY <2>3 DEF D
    <3>3. Cardinality(D \ gone) = Cardinality(D) - Cardinality(D \cap gone)
      BY <3>2, FS_Difference
    <3> QED
      BY <3>1, <3>3 DEF D
  <2>6. p \in Int /\ f.count - Cardinality(gone) \in Int
    BY <2>2, <2>3, PolicyIsPositive
  <2> HIDE DEF r, gone, p
  <2>7. r \in Files /\ r.rows = Without(f.rows, gone) /\ r.count = f.count - Cardinality(gone) /\ r.pending = p
    BY <2>1, <2>3, <2>4, <2>6 DEF Files
  <2>8. \A j \in DOMAIN r.rows : r.rows[j].created_at = CreatedAt[j]
    BY <2>4, <2>7 DEF Sound
  <2>9. Sound(r)
    BY <2>4, <2>5, <2>7, <2>8, CountedIsSound
  <2> QED
    BY <1>2, <2>4, <2>5, <2>7, <2>9 DEF r, gone, p
<1> QED
  BY <1>1, <1>2

\* What a save leaves.
LEMMA Saving ==
  ASSUME RecordsInv, NEW i \in Ids, Save(i)
  PROVE  LET g == Inserted(Migrated(file), i)
             gone == IF Due(g) THEN Selected(g, i) ELSE {} IN
         /\ UNCHANGED <<backups, day, repaired>> /\ changes' \in Nat /\ recovery' \in BOOLEAN
         /\ \/ file' = file
            \/ Sound(file') /\ file'.rows = Table
            \/ /\ i \notin DOMAIN Table /\ file' = Retained(g, i) /\ Sound(file') /\ Sound(g)
               /\ g.count = Cardinality(DOMAIN g.rows)
               /\ DOMAIN g.rows = DOMAIN Table \cup {i} /\ \A j \in DOMAIN Table : g.rows[j] = Table[j]
               /\ Cardinality(DOMAIN g.rows) = Cardinality(DOMAIN Table) + 1
               /\ DOMAIN file'.rows = DOMAIN g.rows \ gone
               /\ \A j \in DOMAIN file'.rows : file'.rows[j] = g.rows[j]
               /\ Cardinality(DOMAIN file'.rows) = Cardinality(DOMAIN g.rows) - Cardinality(gone)
               /\ Due(g) => file'.pending = IF Cardinality(gone) = CleanupBatch /\ g.count - Cardinality(gone) > 0
                                            THEN 1 ELSE 0
<1> DEFINE f == Migrated(file)
           g == Inserted(f, i)
<1>1. Sound(f) /\ f.count = Cardinality(DOMAIN f.rows) /\ f.rows = Table
  BY MigratedIsSound DEF RecordsInv
<1>2. UNCHANGED <<backups, day, repaired>> /\ changes' \in Nat /\ recovery' \in BOOLEAN
  <2>1. UNCHANGED <<backups, day, repaired>> /\ Allowed
    BY DEF Save
  <2>2. recovery' = recovery \/ recovery' = TRUE
    BY DEF Save, SaveRefused, MarkRecovery
  <2>3. recovery' \in BOOLEAN
    BY <2>2, Zenon DEF RecordsInv
  <2> QED
    BY <2>1, <2>3 DEF RecordsInv, Allowed, Change
<1>3. \/ i \notin DOMAIN f.rows /\ file' = Saved(i)
      \/ file' = f
      \/ file' = file
  BY DEF Save, SaveRefused
<1>4. CASE i \notin DOMAIN f.rows /\ file' = Saved(i)
  <2>1. file' = Retained(g, i) /\ day \in Nat
    BY <1>4 DEF Saved, RecordsInv
  <2> HIDE DEF f
  <2>2. /\ Sound(g) /\ g.count = Cardinality(DOMAIN g.rows)
        /\ DOMAIN g.rows = DOMAIN f.rows \cup {i}
        /\ \A j \in DOMAIN f.rows : g.rows[j] = f.rows[j]
        /\ Cardinality(DOMAIN g.rows) = Cardinality(DOMAIN f.rows) + 1
    BY <1>1, <1>4, InsertedIsSound
  <2> HIDE DEF g
  <2> DEFINE gone == IF Due(g) THEN Selected(g, i) ELSE {}
  <2>3. /\ Sound(file')
        /\ DOMAIN file'.rows = DOMAIN g.rows \ gone
        /\ \A j \in DOMAIN file'.rows : file'.rows[j] = g.rows[j]
        /\ Cardinality(DOMAIN file'.rows) = Cardinality(DOMAIN g.rows) - Cardinality(gone)
        /\ Due(g) => file'.pending = IF Cardinality(gone) = CleanupBatch /\ g.count - Cardinality(gone) > 0
                                     THEN 1 ELSE 0
    <3>1. i \in DOMAIN g.rows
      BY <2>2
    <3> QED
      BY ONLY <2>1, <2>2, <3>1, RetainedIsSound
  <2> QED
    BY <1>1, <1>2, <1>4, <2>1, <2>2, <2>3 DEF g, f
<1> QED
  BY <1>1, <1>2, <1>3, <1>4

\* A save that changes nothing found a database: only a migration can fail so.
LEMMA SaveLeavesAFile == ASSUME RecordsInv, NEW i \in Ids, Save(i) PROVE file' # NoFile
<1>1. file' = file \/ Sound(file')
  BY Saving
<1>2. CASE file = NoFile /\ file' = file
  <2>1. Migrated(file) = NewFile /\ NewFile.saves # Missing
    BY <1>2 DEF Migrated, NewFile, Missing
  <2>2. file' = Saved(i) \/ file' # file
    BY <1>2, <2>1 DEF Save, SaveRefused
  <2>3. Sound(Saved(i))
    <3>1. Sound(NewFile) /\ NewFile.count = Cardinality(DOMAIN NewFile.rows) /\ i \in Ids \ DOMAIN NewFile.rows
      BY NewIsSound, EmptyTable DEF NewFile
    <3>2. /\ Sound(Inserted(NewFile, i)) /\ i \in DOMAIN Inserted(NewFile, i).rows
          /\ Inserted(NewFile, i).count = Cardinality(DOMAIN Inserted(NewFile, i).rows)
      BY <3>1, InsertedIsSound
    <3> QED
      BY <2>1, <3>2, RetainedIsSound DEF Saved, RecordsInv
  <2> QED
    BY <1>2, <2>2, <2>3, SoundIsAFile
<1> QED
  BY <1>1, <1>2, SoundIsAFile

\* What RetentionHolds asks of one step.
LEMMA SaveHoldsRetention ==
  ASSUME RecordsInv, NEW i \in Ids, Save(i)
  PROVE  /\ \A gone \in DOMAIN Table \ DOMAIN file'.rows, kept \in DOMAIN file'.rows \ {i} :
              \/ CreatedAt[gone] < CreatedAt[kept]
              \/ CreatedAt[gone] = CreatedAt[kept] /\ gone < kept
         /\ i \notin DOMAIN Table /\ i \in DOMAIN file'.rows =>
              /\ Cardinality(DOMAIN file'.rows) <= Max({MaxRecords, Cardinality(DOMAIN Table)})
              /\ Attentive(Inserted(Migrated(file), i)) =>
                   \/ file'.pending = 1
                   \/ \A j \in DOMAIN file'.rows \ {i} : ~Expired(file'.rows, j)
<1> DEFINE g == Inserted(Migrated(file), i)
           gone == IF Due(g) THEN Selected(g, i) ELSE {}
<1>1. CASE file' = file \/ (Sound(file') /\ file'.rows = Table)
  <2>1. file # NoFile => file.rows = Table
    BY DEF Table
  <2>2. file' # NoFile
    BY SaveLeavesAFile
  <2>3. CASE file'.rows = Table
    BY <2>3
  <2> QED
    BY <1>1, <2>1, <2>2, <2>3
<1>2. CASE /\ i \notin DOMAIN Table /\ file' = Retained(g, i) /\ Sound(file') /\ Sound(g)
           /\ g.count = Cardinality(DOMAIN g.rows)
           /\ DOMAIN g.rows = DOMAIN Table \cup {i} /\ \A j \in DOMAIN Table : g.rows[j] = Table[j]
           /\ Cardinality(DOMAIN g.rows) = Cardinality(DOMAIN Table) + 1
           /\ DOMAIN file'.rows = DOMAIN g.rows \ gone
           /\ \A j \in DOMAIN file'.rows : file'.rows[j] = g.rows[j]
           /\ Cardinality(DOMAIN file'.rows) = Cardinality(DOMAIN g.rows) - Cardinality(gone)
           /\ Due(g) => file'.pending = IF Cardinality(gone) = CleanupBatch /\ g.count - Cardinality(gone) > 0
                                        THEN 1 ELSE 0
  <2>1. Inserted(Migrated(file), i) = g
    OBVIOUS
  <2> HIDE DEF g
  <2>2. day \in Nat /\ i \in DOMAIN g.rows
    BY <1>2 DEF RecordsInv
  <2> DEFINE s == Selected(g, i)
  <2>3. /\ s \subseteq DOMAIN g.rows \ {i}
        /\ IsFiniteSet(s) /\ Cardinality(s) \in 0..CleanupBatch
        /\ \A j \in s, kept \in DOMAIN g.rows \ (s \cup {i}) : Older(g.rows, j, kept)
        /\ g.count > MaxRecords => s # {}
        /\ Attentive(g) =>
             \/ Cardinality(s) = CleanupBatch
             \/ \A j \in DOMAIN g.rows \ (s \cup {i}) : ~Expired(g.rows, j)
    BY <1>2, <2>2, SelectedRows
  <2>4. gone = s \/ (gone = {} /\ ~Due(g))
    OBVIOUS
  <2>5. \A j \in DOMAIN g.rows : g.rows[j].created_at = CreatedAt[j] /\ CreatedAt[j] \in Nat
    BY <1>2, QueryAssumption, FilesAreTyped DEF Sound
  <2> HIDE DEF s, gone
  <2>6. \A j \in DOMAIN Table \ DOMAIN file'.rows, kept \in DOMAIN file'.rows \ {i} :
          \/ CreatedAt[j] < CreatedAt[kept]
          \/ CreatedAt[j] = CreatedAt[kept] /\ j < kept
    <3> SUFFICES ASSUME NEW j \in DOMAIN Table \ DOMAIN file'.rows, NEW kept \in DOMAIN file'.rows \ {i}
                 PROVE  \/ CreatedAt[j] < CreatedAt[kept]
                        \/ CreatedAt[j] = CreatedAt[kept] /\ j < kept
      OBVIOUS
    <3>1. j \in gone /\ gone = s /\ kept \in DOMAIN g.rows \ (s \cup {i}) /\ j \in DOMAIN g.rows
      BY <1>2, <2>4
    <3>2. Older(g.rows, j, kept)
      BY <2>3, <3>1
    <3> QED
      BY <2>5, <3>1, <3>2 DEF Older
  <2>7. Cardinality(DOMAIN Table) \in Nat /\ Cardinality(DOMAIN g.rows) \in Nat /\ MaxRecords \in Nat
    <3>1. Cardinality(DOMAIN g.rows) \in Nat /\ IsFiniteSet(DOMAIN g.rows)
      BY <1>2, FilesAreTyped DEF Sound
    <3> QED
      BY <1>2, <3>1, FS_Subset, FS_CardinalityType, PolicyIsPositive
  <2>8. Cardinality(DOMAIN file'.rows) <= MaxRecords \/ Cardinality(DOMAIN file'.rows) <= Cardinality(DOMAIN Table)
    <3>1. CASE g.count > MaxRecords
      <4>1. Overflow(g) > 0 /\ Due(g)
        BY <1>2, <2>7, <3>1 DEF Overflow, AtLeastZero, Due
      <4>2. gone = s /\ s # {} /\ Cardinality(s) \in Nat
        BY <2>3, <2>4, <3>1, <4>1, FS_CardinalityType
      <4>3. Cardinality(s) >= 1
        BY <2>3, <4>2, FS_EmptySet
      <4> QED
        BY <1>2, <2>7, <4>2, <4>3
    <3>2. CASE ~(g.count > MaxRecords)
      <4>1. Cardinality(gone) \in Nat
        BY <2>3, <2>4, FS_EmptySet, FS_CardinalityType
      <4> QED
        BY <1>2, <2>7, <3>2, <4>1
    <3> QED
      BY <3>1, <3>2
  <2>9. \A a, b \in Nat : Max({a, b}) >= a /\ Max({a, b}) >= b /\ Max({a, b}) \in Nat
    <3> SUFFICES ASSUME NEW a \in Nat, NEW b \in Nat
                 PROVE  Max({a, b}) >= a /\ Max({a, b}) >= b /\ Max({a, b}) \in Nat
      OBVIOUS
    <3>1. \E x \in {a, b} : \A y \in {a, b} : x >= y
      OBVIOUS
    <3> QED
      BY <3>1 DEF Max
  <2>10. Cardinality(DOMAIN file'.rows) <= Max({MaxRecords, Cardinality(DOMAIN Table)})
    <3>1. Cardinality(DOMAIN file'.rows) \in Nat
      BY <1>2, FilesAreTyped
    <3> QED
      BY <2>7, <2>8, <2>9, <3>1
  <2>11. ASSUME Attentive(g)
         PROVE  file'.pending = 1 \/ \A j \in DOMAIN file'.rows \ {i} : ~Expired(file'.rows, j)
    <3>1. Due(g) /\ gone = s
      BY <2>4, <2>11 DEF Due
    <3>2. CASE Cardinality(s) = CleanupBatch
      <4>1. i \in DOMAIN file'.rows
        BY <1>2, <2>2, <2>3, <3>1
      <4>2. Cardinality(DOMAIN file'.rows) # 0 /\ Cardinality(DOMAIN file'.rows) \in Nat
        BY <1>2, <4>1, FS_EmptySet, FilesAreTyped DEF Sound
      <4> QED
        BY <1>2, <3>1, <3>2, <4>2
    <3>3. CASE \A j \in DOMAIN g.rows \ (s \cup {i}) : ~Expired(g.rows, j)
      BY <1>2, <3>1, <3>3 DEF Expired
    <3> QED
      BY <2>3, <2>11, <3>2, <3>3
  <2> QED
    BY <2>1, <2>6, <2>10, <2>11
<1> QED
  BY <1>1, <1>2, Saving

-----------------------------------------------------------------------------
(* Backups.                                                                *)

\* Whatever is pruned, the newest backup stays, and nothing is invented.
LEMMA PruningKeepsTheNewest ==
  ASSUME NEW list \in Seq(Backups), list # <<>>, day \in Nat
  PROVE  LET p == Pruned(list) IN
         /\ p \in Seq(Backups) /\ Len(p) \in Nat \ {0} /\ DOMAIN p = 1..Len(p)
         /\ p[Len(p)] = list[Len(list)]
         /\ \A k \in DOMAIN p : \E j \in DOMAIN list : p[k] = list[j]
<1> DEFINE last == Len(list)
           kept == {k \in 1..last : k = last \/ (k > last - MaxBackups /\ list[k].day >= day - BackupAge)}
           c == Cardinality(kept)
           p == Pruned(list)
<1>1. last \in Nat \ {0} /\ DOMAIN list = 1..last
  OBVIOUS
<1>2. kept \subseteq 1..last /\ last \in kept
  BY <1>1
<1>3. p = [n \in 1..c |-> list[last - c + n]]
  BY DEF Pruned
<1>4. c \in 1..last
  <2> HIDE DEF kept, last
  <2>1. IsFiniteSet(1..last) /\ Cardinality(1..last) = last
    BY <1>1, FS_Interval
  <2>2. IsFiniteSet(kept) /\ c <= last /\ c \in Nat
    BY <1>2, <2>1, FS_Subset, FS_CardinalityType
  <2>3. c # 0
    BY <1>2, <2>2, FS_EmptySet
  <2> QED
    BY <1>1, <2>2, <2>3
<1> HIDE DEF c, p, kept
<1>5. \A n \in 1..c : last - c + n \in DOMAIN list
  BY <1>1, <1>4
<1>6. p \in Seq(Backups) /\ Len(p) = c
  BY <1>1, <1>3, <1>4, <1>5
<1>7. p[c] = list[last]
  BY <1>1, <1>3, <1>4
<1>8. \A k \in DOMAIN p : \E j \in DOMAIN list : p[k] = list[j]
  BY <1>3, <1>5
<1> QED
  BY <1>4, <1>6, <1>7, <1>8 DEF p

\* A backup of the database joins the others.
LEMMA BackingUp ==
  ASSUME RecordsInv, file # NoFile
  PROVE  /\ Backup(backups) \in Seq(Backups) /\ Backup(backups) # <<>>
         /\ \A k \in DOMAIN Backup(backups) : Sound(Backup(backups)[k].file)
         /\ \E k \in DOMAIN Backup(backups) : Backup(backups)[k].file = file
<1> DEFINE b == [day |-> day, file |-> file]
           list == Append(backups, b)
           p == Pruned(list)
<1>1. Sound(file) /\ backups \in Seq(Backups) /\ day \in Nat
  BY DEF RecordsInv
<1>2. b \in Backups
  BY <1>1 DEF Backups, Sound
<1>3. b.file = file
  OBVIOUS
<1> HIDE DEF b
<1>4. list \in Seq(Backups) /\ list # <<>> /\ list[Len(list)] = b
      /\ \A k \in DOMAIN list : list[k] = b \/ (k \in DOMAIN backups /\ list[k] = backups[k])
  BY <1>1, <1>2
<1> HIDE DEF list
<1>5. /\ p \in Seq(Backups) /\ Len(p) \in Nat \ {0} /\ DOMAIN p = 1..Len(p)
      /\ p[Len(p)] = list[Len(list)]
      /\ \A k \in DOMAIN p : \E j \in DOMAIN list : p[k] = list[j]
  BY <1>1, <1>4, PruningKeepsTheNewest
<1> HIDE DEF p
<1>6. p # <<>> /\ Len(p) \in DOMAIN p /\ p[Len(p)].file = file
  BY <1>3, <1>4, <1>5
<1>7. \A k \in DOMAIN p : Sound(p[k].file)
  <2> SUFFICES ASSUME NEW k \in DOMAIN p PROVE Sound(p[k].file)
    OBVIOUS
  <2>1. PICK j \in DOMAIN list : p[k] = list[j]
    BY <1>5
  <2> QED
    BY <1>1, <1>3, <1>4, <2>1 DEF RecordsInv
<1>8. p = Backup(backups)
  BY DEF p, list, b, Backup
<1> QED
  BY <1>5, <1>6, <1>7, <1>8

-----------------------------------------------------------------------------
(* The other calls.                                                        *)

LEMMA RatedIsSound ==
  ASSUME Sound(file), NEW i \in DOMAIN file.rows, NEW rating \in 0..2, file' = [file EXCEPT !.rows[i].rating = rating]
  PROVE  Sound(file')
<1> DEFINE row == [file.rows[i] EXCEPT !.rating = rating]
           table == [file.rows EXCEPT ![i] = row]
<1>1. file \in Files /\ file.rows \in Tables /\ IsFiniteSet(DOMAIN file.rows)
  BY FilesAreTyped DEF Sound
<1>2. DOMAIN file.rows \subseteq Ids /\ file.rows \in [DOMAIN file.rows -> Rows]
  BY <1>1, TablesAreTyped
<1>3. row \in Rows /\ row.created_at = file.rows[i].created_at
  BY <1>2 DEF Rows
<1>4. file' = [file EXCEPT !.rows = table]
  BY <1>1 DEF Files
<1> HIDE DEF row
<1>5. table \in [DOMAIN file.rows -> Rows] /\ \A j \in DOMAIN table : table[j].created_at = CreatedAt[j]
  BY <1>2, <1>3 DEF Sound
<1>6. table \in Tables /\ DOMAIN table = DOMAIN file.rows
  BY <1>2, <1>5, TableOf
<1> HIDE DEF table
<1>7. file' \in Files /\ file'.rows = table /\ file'.count = file.count /\ file'.layout = file.layout
  BY <1>1, <1>4, <1>6 DEF Files
<1> QED
  BY <1>1, <1>5, <1>6, <1>7 DEF Sound

LEMMA DamagedIsSound ==
  ASSUME Sound(file), NEW i \in DOMAIN file.rows, NEW other \in Ids \cup {Garbage},
         file' = [file EXCEPT !.rows[i].sealed = other]
  PROVE  Sound(file')
<1> DEFINE row == [file.rows[i] EXCEPT !.sealed = other]
           table == [file.rows EXCEPT ![i] = row]
<1>1. file \in Files /\ file.rows \in Tables /\ IsFiniteSet(DOMAIN file.rows)
  BY FilesAreTyped DEF Sound
<1>2. DOMAIN file.rows \subseteq Ids /\ file.rows \in [DOMAIN file.rows -> Rows]
  BY <1>1, TablesAreTyped
<1>3. row \in Rows /\ row.created_at = file.rows[i].created_at
  BY <1>2 DEF Rows
<1>4. file' = [file EXCEPT !.rows = table]
  BY <1>1 DEF Files
<1> HIDE DEF row
<1>5. table \in [DOMAIN file.rows -> Rows] /\ \A j \in DOMAIN table : table[j].created_at = CreatedAt[j]
  BY <1>2, <1>3 DEF Sound
<1>6. table \in Tables /\ DOMAIN table = DOMAIN file.rows
  BY <1>2, <1>5, TableOf
<1> HIDE DEF table
<1>7. file' \in Files /\ file'.rows = table /\ file'.count = file.count /\ file'.layout = file.layout
  BY <1>1, <1>4, <1>6 DEF Files
<1> QED
  BY <1>1, <1>5, <1>6, <1>7 DEF Sound

LEMMA DeletedIsSound ==
  ASSUME Sound(file), NEW i \in DOMAIN file.rows, ~(file.count < 1),
         file' = [file EXCEPT !.rows = Without(file.rows, {i}), !.count = file.count - 1]
  PROVE  Sound(file')
<1>1. file \in Files /\ file.rows \in Tables /\ IsFiniteSet(DOMAIN file.rows) /\ file.count \in Int
  BY FilesAreTyped DEF Sound
<1>2. /\ Without(file.rows, {i}) \in Tables /\ DOMAIN Without(file.rows, {i}) = DOMAIN file.rows \ {i}
      /\ IsFiniteSet(DOMAIN file.rows \ {i})
      /\ \A j \in DOMAIN file.rows \ {i} : Without(file.rows, {i})[j] = file.rows[j]
  BY <1>1, WithoutRows
<1>3. Cardinality(DOMAIN file.rows \ {i}) = Cardinality(DOMAIN file.rows) - 1
  BY <1>1, FS_RemoveElement
<1>4. file.count = Cardinality(DOMAIN file.rows)
  BY DEF Sound, Missing
<1> DEFINE table == Without(file.rows, {i})
           count == file.count - 1
<1>5. file' = [file EXCEPT !.rows = table, !.count = count] /\ table \in Tables /\ count \in Int
  BY <1>1, <1>2
<1>6. count = Cardinality(DOMAIN table) /\ IsFiniteSet(DOMAIN table)
  BY <1>2, <1>3, <1>4
<1>7. \A j \in DOMAIN table : table[j].created_at = CreatedAt[j]
  BY <1>2 DEF Sound
<1> HIDE DEF table, count
<1>8. file' \in Files /\ file'.rows = table /\ file'.count = count
  BY <1>1, <1>5 DEF Files
<1> QED
  BY <1>6, <1>7, <1>8, CountedIsSound

LEMMA ClearedIsSound ==
  ASSUME Sound(file), file' = [file EXCEPT !.rows = Empty, !.count = 0, !.pending = 0]
  PROVE  Sound(file')
<1>1. file' \in Files /\ file'.rows = Empty /\ file'.count = 0
  <2>1. file \in Files /\ Empty \in Tables
    BY EmptyTable DEF Sound
  <2> DEFINE table == Empty
             none == 0
  <2>2. file' = [file EXCEPT !.rows = table, !.count = none, !.pending = none]
        /\ table \in Tables /\ none \in Int
    BY <2>1
  <2> HIDE DEF table, none
  <2>3. file' \in Files /\ file'.rows = table /\ file'.count = none
    BY <2>1, <2>2 DEF Files
  <2> QED
    BY <2>3 DEF table, none
<1> QED
  BY <1>1, EmptyTable, CountedIsSound

LEMMA MendedIsSound ==
  ASSUME Sound(file), file' = Mended(file)
  PROVE  Sound(file')
<1> DEFINE good == {i \in DOMAIN file.rows : Readable(file.rows, i)}
           table == [i \in good |-> file.rows[i]]
<1>1. /\ file \in Files /\ file.rows \in Tables /\ IsFiniteSet(DOMAIN file.rows) /\ good \subseteq DOMAIN file.rows
      /\ file.quarantine \subseteq Ids
  BY FilesAreTyped DEF Sound
<1>2. DOMAIN file.rows \subseteq Ids /\ file.rows \in [DOMAIN file.rows -> Rows]
  BY <1>1, TablesAreTyped
<1>3. file' = [file EXCEPT !.rows = table, !.quarantine = file.quarantine \cup (DOMAIN file.rows \ good),
                           !.count = Cardinality(good), !.layout = "current"]
  BY DEF Mended
<1> HIDE DEF good
<1>4. IsFiniteSet(good) /\ Cardinality(good) \in Int
  BY <1>1, FS_Subset, FS_CardinalityType
<1>5. table \in [good -> Rows]
  BY <1>1, <1>2
<1>6. table \in Tables /\ DOMAIN table = good /\ \A j \in DOMAIN table : table[j].created_at = CreatedAt[j]
  BY <1>1, <1>2, <1>5, TableOf DEF Sound
<1> HIDE DEF table
<1> DEFINE apart == file.quarantine \cup (DOMAIN file.rows \ good)
<1>7. apart \in SUBSET Ids /\ file' = [file EXCEPT !.rows = table, !.quarantine = apart,
                                            !.count = Cardinality(good), !.layout = "current"]
  BY <1>1, <1>2, <1>3
<1> HIDE DEF apart
<1>8. file' \in Files /\ file'.rows = table /\ file'.count = Cardinality(good)
  BY <1>1, <1>4, <1>6, <1>7 DEF Files
<1> QED
  BY <1>4, <1>6, <1>8, CountedIsSound

LEMMA RestoredIsSound ==
  ASSUME NEW f, Sound(f), file' = PutInPlace(f)
  PROVE  Sound(file')
<1>1. f \in Files /\ Cardinality(DOMAIN f.rows) \in Int /\ Given(f.saves) \in Int /\ Given(f.pending) \in Int
  BY FilesAreTyped DEF Sound, Given
<1>2. file' \in Files /\ file'.rows = f.rows /\ file'.count = Cardinality(DOMAIN f.rows)
  BY <1>1 DEF PutInPlace, Files
<1> QED
  BY <1>2, CountedIsSound DEF Sound

-----------------------------------------------------------------------------
(* Together.                                                               *)

LEMMA InvParts ==
  ASSUME RecordsInv, changes' \in Nat, day' \in Nat, recovery' \in BOOLEAN, repaired' \in BOOLEAN,
         file' = NoFile \/ Sound(file'), backups' \in Seq(Backups),
         \A k \in DOMAIN backups' : Sound(backups'[k].file), backups' # <<>> => file' # NoFile
  PROVE  RecordsInv'
BY DEF RecordsInv, Sound

\* Only a table with rows has one to rate, delete or damage.
LEMMA RowsHaveAFile ==
  ASSUME RecordsInv, NEW i \in DOMAIN Table
  PROVE  file # NoFile /\ Sound(file) /\ Table = file.rows
BY EmptyTable DEF RecordsInv, Table

\* Steps that leave the backups alone and a sound database.
LEMMA OneFile ==
  ASSUME RecordsInv, Sound(file'), UNCHANGED <<backups, day>>, Change,
         recovery' \in BOOLEAN, repaired' \in BOOLEAN
  PROVE  RecordsInv'
<1>1. file' # NoFile
  BY SoundIsAFile
<1> QED
  BY <1>1, InvParts DEF RecordsInv, Change

LEMMA SaveStep == ASSUME RecordsInv, NEW i \in Ids, Save(i) PROVE RecordsInv'
<1>1. UNCHANGED <<backups, day, repaired>> /\ changes' \in Nat /\ recovery' \in BOOLEAN
      /\ (file' = file \/ Sound(file'))
  BY Saving
<1>2. file' = NoFile \/ Sound(file')
  BY <1>1 DEF RecordsInv
<1>3. backups' # <<>> => file' # NoFile
  BY <1>1, SoundIsAFile DEF RecordsInv
<1> QED
  BY <1>1, <1>2, <1>3, InvParts DEF RecordsInv

LEMMA RateStep == ASSUME RecordsInv, NEW i \in Ids, NEW rating \in 0..2, Rate(i, rating) PROVE RecordsInv'
<1>1. Sound(file) /\ i \in DOMAIN file.rows
  BY RowsHaveAFile DEF Rate
<1>2. Sound(file')
  BY <1>1, RatedIsSound DEF Rate
<1> QED
  BY <1>2, OneFile DEF Rate, Allowed, RecordsInv

LEMMA DeleteStep == ASSUME RecordsInv, NEW i \in Ids, Delete(i) PROVE RecordsInv'
<1>1. Sound(file) /\ i \in DOMAIN file.rows
  BY RowsHaveAFile DEF Delete
<1>2. CASE file.count < 1
  <2>1. file' = file /\ recovery' = TRUE
    BY <1>2 DEF Delete, MarkRecovery
  <2> QED
    BY <1>1, <2>1, OneFile DEF Delete, Allowed, RecordsInv
<1>3. CASE ~(file.count < 1)
  <2>1. file' = [file EXCEPT !.rows = Without(file.rows, {i}), !.count = file.count - 1] /\ recovery' = recovery
    BY <1>3 DEF Delete
  <2>2. Sound(file')
    BY <1>1, <1>3, <2>1, DeletedIsSound
  <2> QED
    BY <2>1, <2>2, OneFile DEF Delete, Allowed, RecordsInv
<1> QED
  BY <1>2, <1>3

LEMMA ClearStep == ASSUME RecordsInv, Clear PROVE RecordsInv'
<1>1. Sound(file)
  BY RowsHaveAFile DEF Clear
<1>2. Sound(file')
  BY <1>1, ClearedIsSound DEF Clear
<1> QED
  BY <1>2, OneFile DEF Clear, Allowed, RecordsInv

LEMMA RepairStep == ASSUME RecordsInv, Repair PROVE RecordsInv'
<1>1. file # NoFile /\ Sound(file) /\ backups' = Backup(backups) /\ day' = day /\ changes' = changes + 1
  BY DEF Repair, RecordsInv, Change
<1>2. Sound(file')
  BY <1>1, MendedIsSound DEF Repair
<1>3. recovery' \in BOOLEAN /\ repaired' \in BOOLEAN
  <2>1. (recovery' = FALSE /\ repaired' = TRUE) \/ (recovery' = recovery /\ repaired' = repaired)
    BY DEF Repair
  <2> QED
    BY <2>1, Zenon DEF RecordsInv
<1>4. backups' \in Seq(Backups) /\ \A k \in DOMAIN backups' : Sound(backups'[k].file)
  BY <1>1, BackingUp
<1> QED
  BY <1>1, <1>2, <1>3, <1>4, SoundIsAFile, InvParts DEF RecordsInv

LEMMA RestoreStep == ASSUME RecordsInv, NEW k \in DOMAIN backups, Restore(k) PROVE RecordsInv'
<1>1. file # NoFile /\ Sound(file) /\ day' = day /\ changes' = changes + 1 /\ repaired' = (repaired /\ file' = file)
  BY DEF Restore, RecordsInv, Change
<1>2. Sound(backups[k].file)
  BY DEF RecordsInv
<1>3. Sound(file')
  BY <1>1, <1>2, RestoredIsSound DEF Restore
<1>4. recovery' \in BOOLEAN /\ repaired' \in BOOLEAN
  <2>1. recovery' = FALSE \/ recovery' = recovery
    BY DEF Restore
  <2>2. repaired \in BOOLEAN /\ recovery \in BOOLEAN
    BY DEF RecordsInv
  <2> QED
    BY <1>1, <2>1, <2>2, Zenon
<1>5. backups' = backups \/ backups' = Backup(backups)
  BY DEF Restore
<1>6. backups' \in Seq(Backups) /\ \A n \in DOMAIN backups' : Sound(backups'[n].file)
  BY <1>1, <1>5, BackingUp DEF RecordsInv
<1> QED
  BY <1>1, <1>3, <1>4, <1>6, SoundIsAFile, InvParts DEF RecordsInv

LEMMA DamageStep == ASSUME RecordsInv, NEW i \in Ids, Damage(i) PROVE RecordsInv'
<1>1. Sound(file) /\ i \in DOMAIN file.rows /\ Table = file.rows
  BY RowsHaveAFile DEF Damage
<1>2. PICK other \in {Garbage} \cup (DOMAIN Table \ {i}) : file' = [file EXCEPT !.rows[i].sealed = other]
  BY DEF Damage
<1>3. other \in Ids \cup {Garbage}
  BY <1>1, FilesAreTyped
<1>4. Sound(file')
  BY <1>1, <1>2, <1>3, DamagedIsSound
<1> QED
  BY <1>4, OneFile DEF Damage, RecordsInv

\* The reader changes nothing but itself.
LEMMA ReaderStep ==
  ASSUME \/ \E r \in Asked : NextPage(r) \/ StartSearch(r) \/ Open(r, FALSE) \/ Open(r, TRUE)
         \/ SearchBatch \/ SearchFails \/ ExportBatch \/ Close
         \/ UNCHANGED vars
  PROVE  UNCHANGED <<file, backups, recovery, day, repaired, changes>>
<1>1. ASSUME NEW r, NextPage(r) \/ StartSearch(r) \/ Open(r, FALSE) \/ Open(r, TRUE)
      PROVE  UNCHANGED <<file, backups, recovery, day, repaired, changes>>
  <2>1. CASE NextPage(r)
    BY <2>1 DEF NextPage, Read
  <2>2. CASE StartSearch(r)
    BY <2>2 DEF StartSearch, Read
  <2>3. CASE Open(r, FALSE) \/ Open(r, TRUE)
    BY <2>3 DEF Open
  <2> QED
    BY <1>1, <2>1, <2>2, <2>3
<1>2. CASE SearchBatch
  BY <1>2 DEF SearchBatch, Read
<1>3. CASE SearchFails \/ Close
  BY <1>3 DEF SearchFails, Close, Read
<1>4. CASE ExportBatch
  BY <1>4 DEF ExportBatch, Read
<1>5. CASE UNCHANGED vars
  BY <1>5 DEF vars
<1> QED
  BY <1>1, <1>2, <1>3, <1>4, <1>5

LEMMA RecordsInit == Init => RecordsInv
<1> SUFFICES ASSUME Init PROVE RecordsInv
  OBVIOUS
<1>1. /\ backups = <<>> /\ recovery = FALSE /\ day = 0 /\ repaired = FALSE /\ changes = 0
      /\ \E ids \in SUBSET Ids : IsFiniteSet(ids) /\ file \in {NoFile, OldFile(ids)}
  BY DEF Init
<1>2. file = NoFile \/ Sound(file)
  BY <1>1, OldIsSound
<1>3. backups \in Seq(Backups) /\ DOMAIN backups = {}
  BY <1>1
<1> QED
  BY <1>1, <1>2, <1>3 DEF RecordsInv

LEMMA RecordsStep == RecordsInv /\ [Next]_vars => RecordsInv'
<1> SUFFICES ASSUME RecordsInv, [Next]_vars PROVE RecordsInv'
  OBVIOUS
<1>1. ASSUME NEW i \in Ids,
             Save(i) \/ Delete(i) \/ Damage(i) \/ \E rating \in 0..2 : Rate(i, rating)
      PROVE  RecordsInv'
  BY <1>1, SaveStep, DeleteStep, DamageStep, RateStep
<1>2. CASE Clear
  BY <1>2, ClearStep
<1>3. CASE Repair
  BY <1>3, RepairStep
<1>4. CASE NextDay
  BY <1>4, InvParts DEF NextDay, RecordsInv
<1>5. ASSUME NEW k \in DOMAIN backups, Restore(k) PROVE RecordsInv'
  BY <1>5, RestoreStep
<1>6. CASE \/ \E r \in Asked : NextPage(r) \/ StartSearch(r) \/ Open(r, FALSE) \/ Open(r, TRUE)
           \/ SearchBatch \/ SearchFails \/ ExportBatch \/ Close
           \/ UNCHANGED vars
  BY <1>6, ReaderStep, InvParts DEF RecordsInv
<1> QED
  BY <1>1, <1>2, <1>3, <1>4, <1>5, <1>6 DEF Next

-----------------------------------------------------------------------------
(* Ranks.  A finite set in a strict and total order R: the n-th of its      *)
(* members is the one with n before it.                                     *)

Below(R, S, i) == {j \in S : <<j, i>> \in R}

StrictOrder(R, S) ==
  /\ \A a \in S : <<a, a>> \notin R
  /\ \A a, b, c \in S : <<a, b>> \in R /\ <<b, c>> \in R => <<a, c>> \in R
  /\ \A a, b \in S : <<a, b>> \in R \/ a = b \/ <<b, a>> \in R

LEMMA Ranks ==
  ASSUME NEW S, IsFiniteSet(S), NEW R, StrictOrder(R, S)
  PROVE  /\ Cardinality(S) \in Nat
         /\ \A i \in S : Cardinality(Below(R, S, i)) \in 0..(Cardinality(S) - 1)
         /\ \A i, j \in S : <<i, j>> \in R <=> Cardinality(Below(R, S, i)) < Cardinality(Below(R, S, j))
         /\ \A n \in 0..(Cardinality(S) - 1) : \E i \in S : Cardinality(Below(R, S, i)) = n
<1> DEFINE rank == [i \in S |-> Cardinality(Below(R, S, i))]
<1>1. Cardinality(S) \in Nat
  BY FS_CardinalityType
<1>2. \A i \in S : rank[i] \in 0..(Cardinality(S) - 1)
  <2> SUFFICES ASSUME NEW i \in S PROVE rank[i] \in 0..(Cardinality(S) - 1)
    OBVIOUS
  <2> DEFINE B == Below(R, S, i)
  <2>1. B \subseteq S /\ i \notin B
    BY DEF Below, StrictOrder
  <2>2. rank[i] = Cardinality(B)
    OBVIOUS
  <2> HIDE DEF B, rank
  <2>3. IsFiniteSet(B) /\ Cardinality(B) <= Cardinality(S) /\ (Cardinality(S) = Cardinality(B) => S = B)
    BY <2>1, FS_Subset
  <2>4. Cardinality(B) \in Nat
    BY <2>3, FS_CardinalityType
  <2> QED
    BY <1>1, <2>1, <2>2, <2>3, <2>4
<1>3. \A i, j \in S : <<i, j>> \in R => rank[i] < rank[j]
  <2> SUFFICES ASSUME NEW i \in S, NEW j \in S, <<i, j>> \in R PROVE rank[i] < rank[j]
    OBVIOUS
  <2> DEFINE A == Below(R, S, i)
             B == Below(R, S, j)
  <2>1. A \subseteq B /\ i \in B /\ i \notin A /\ B \subseteq S
    BY DEF Below, StrictOrder
  <2>2. rank[i] = Cardinality(A) /\ rank[j] = Cardinality(B)
    OBVIOUS
  <2> HIDE DEF A, B, rank
  <2>3. IsFiniteSet(B)
    BY <2>1, FS_Subset
  <2>4. IsFiniteSet(A) /\ Cardinality(A) <= Cardinality(B) /\ Cardinality(A) # Cardinality(B)
    BY <2>1, <2>3, FS_Subset
  <2> QED
    BY <1>2, <2>2, <2>4
<1>4. \A i \in S : rank[i] = Cardinality(Below(R, S, i))
  OBVIOUS
<1>5. rank \in [S -> 0..(Cardinality(S) - 1)]
  BY <1>2
<1> HIDE DEF rank
<1> DEFINE Total == \A i, j \in S : <<i, j>> \in R \/ i = j \/ <<j, i>> \in R
<1> HIDE DEF Total
<1>6. Total /\ \A i \in S : rank[i] \in Nat
  BY <1>1, <1>2 DEF StrictOrder, Total
<1>7. ASSUME NEW i \in S, NEW j \in S
      PROVE  (rank[i] < rank[j] => <<i, j>> \in R) /\ (rank[i] = rank[j] => i = j)
  <2>1. rank[i] \in Nat /\ rank[j] \in Nat
    BY <1>6
  <2>2. <<i, j>> \in R \/ i = j \/ <<j, i>> \in R
    BY <1>6 DEF Total
  <2>3. (<<i, j>> \in R => rank[i] < rank[j]) /\ (<<j, i>> \in R => rank[j] < rank[i])
    BY <1>3
  <2> QED
    BY <2>1, <2>2, <2>3
<1>8. \A n \in 0..(Cardinality(S) - 1) : \E i \in S : rank[i] = n
  <2> DEFINE T == 0..(Cardinality(S) - 1)
  <2>1. IsFiniteSet(T) /\ Cardinality(T) = Cardinality(S)
    BY <1>1, FS_Interval
  <2>2. rank \in Injection(S, T)
    BY <1>5, <1>7 DEF Injection, IsInjective
  <2> HIDE DEF T
  <2>3. rank \in Surjection(S, T)
    BY <2>1, <2>2, FS_Injection
  <2> QED
    BY <2>3 DEF Surjection, T
<1> QED
  BY <1>1, <1>2, <1>3, <1>4, <1>7, <1>8

\* A member of each rank, in the order of the ranks.
LEMMA Ranked ==
  ASSUME NEW S, IsFiniteSet(S), NEW R, StrictOrder(R, S), NEW n \in Nat, n <= Cardinality(S),
         NEW s \in [1..n -> S], \A k \in 1..n : Cardinality(Below(R, S, s[k])) = k - 1
  PROVE  /\ s \in Seq(S) /\ Len(s) = n
         /\ \A k, l \in 1..n : k < l => <<s[k], s[l]>> \in R
         /\ \A i \in S : \/ \E k \in 1..n : s[k] = i
                         \/ n < Cardinality(S) /\ \A k \in 1..n : <<s[k], i>> \in R
<1> DEFINE rank == [i \in S |-> Cardinality(Below(R, S, i))]
<1>1. /\ Cardinality(S) \in Nat
      /\ \A i \in S : rank[i] \in 0..(Cardinality(S) - 1)
      /\ \A i, j \in S : <<i, j>> \in R <=> rank[i] < rank[j]
      /\ \A m \in 0..(Cardinality(S) - 1) : \E i \in S : rank[i] = m
  BY Ranks
<1>2. \A k \in 1..n : s[k] \in S /\ rank[s[k]] = k - 1
  OBVIOUS
<1> HIDE DEF rank
<1>3. s \in Seq(S) /\ Len(s) = n
  OBVIOUS
<1>4. \A k, l \in 1..n : k < l => <<s[k], s[l]>> \in R
  BY <1>1, <1>2
<1>5. ASSUME NEW i \in S
      PROVE  \/ \E k \in 1..n : s[k] = i
             \/ n < Cardinality(S) /\ \A k \in 1..n : <<s[k], i>> \in R
  <2>1. CASE rank[i] < n
    <3>1. PICK k \in 1..n : k = rank[i] + 1
      BY <1>1, <2>1
    <3>2. s[k] \in S /\ rank[s[k]] = rank[i]
      BY <1>1, <1>2, <3>1
    <3>3. ~(rank[s[k]] < rank[i]) /\ ~(rank[i] < rank[s[k]])
      BY <1>1, <3>2
    <3>4. s[k] = i
      BY <1>1, <3>2, <3>3, ZenonT(40) DEF StrictOrder
    <3> QED
      BY <3>4
  <2>2. CASE ~(rank[i] < n)
    BY <1>1, <1>2, <2>2
  <2> QED
    BY <2>1, <2>2
<1> QED
  BY <1>3, <1>4, <1>5

\* What is picked from a list is what stands at the places, in the order of the places.
LEMMA Picking ==
  ASSUME NEW T, NEW rows \in Seq(T), NEW places \in SUBSET DOMAIN rows
  PROVE  \E g \in [1..Cardinality(places) -> places] :
           /\ Picked(rows, places) = [n \in 1..Cardinality(places) |-> rows[g[n]]]
           /\ Picked(rows, places) \in Seq(T) /\ Len(Picked(rows, places)) = Cardinality(places)
           /\ \A k, l \in 1..Cardinality(places) : k < l => g[k] < g[l]
           /\ \A p \in places : \E k \in 1..Cardinality(places) : g[k] = p
<1> DEFINE R == {q \in Nat \X Nat : q[1] < q[2]}
           count == Cardinality(places)
           g == [n \in 1..count |-> CHOOSE k \in places : Cardinality(Below(R, places, k)) = n - 1]
<1>1. places \subseteq Nat /\ IsFiniteSet(places) /\ places \subseteq 1..Len(rows)
  <2>1. places \subseteq 1..Len(rows) /\ Len(rows) \in Nat
    OBVIOUS
  <2>2. IsFiniteSet(1..Len(rows))
    BY <2>1, FS_Interval
  <2>3. IsFiniteSet(places)
    BY <2>1, <2>2, FS_Subset
  <2> QED
    BY <2>1, <2>3
<1>2. StrictOrder(R, places)
  BY <1>1 DEF StrictOrder
<1>3. \A k \in places : {j \in places : j < k} = Below(R, places, k)
  BY <1>1 DEF Below
<1>4. count \in Nat
  BY <1>1, FS_CardinalityType
<1>5. Picked(rows, places) = [n \in 1..count |-> rows[g[n]]]
  <2> DEFINE p(n) == CHOOSE k \in places : Cardinality({j \in places : j < k}) = n - 1
  <2>1. ASSUME NEW n \in 1..count PROVE p(n) = g[n]
    <3>1. \A k \in places : Cardinality({j \in places : j < k}) = Cardinality(Below(R, places, k))
      BY <1>3
    <3>2. g[n] = CHOOSE k \in places : Cardinality(Below(R, places, k)) = n - 1
      OBVIOUS
    <3> HIDE DEF g, R, count
    <3>3. {k \in places : Cardinality({j \in places : j < k}) = n - 1}
          = {k \in places : Cardinality(Below(R, places, k)) = n - 1}
      BY <3>1
    <3> QED
      BY <3>1, <3>2, <3>3
  <2>2. Picked(rows, places) = [n \in 1..count |-> rows[p(n)]]
    BY DEF Picked
  <2> HIDE DEF p, g, count
  <2> QED
    BY <2>1, <2>2
<1>6. \A a, b \in places : <<a, b>> \in R => a < b
  BY <1>1
<1> HIDE DEF R, count
<1>7. count <= Cardinality(places) /\ count = Cardinality(places)
  BY <1>4 DEF count
<1>8. \A n \in 1..count : g[n] \in places /\ Cardinality(Below(R, places, g[n])) = n - 1
  <2> SUFFICES ASSUME NEW n \in 1..count PROVE g[n] \in places /\ Cardinality(Below(R, places, g[n])) = n - 1
    OBVIOUS
  <2>1. n - 1 \in 0..(Cardinality(places) - 1)
    BY <1>4, <1>7
  <2>2. \E i \in places : Cardinality(Below(R, places, i)) = n - 1
    BY <1>1, <1>2, <2>1, Ranks
  <2> QED
    BY <2>2
<1>9. g \in [1..count -> places]
  BY <1>8
<1> HIDE DEF g
<1>10. /\ g \in Seq(places) /\ Len(g) = count
       /\ \A k, l \in 1..count : k < l => <<g[k], g[l]>> \in R
       /\ \A i \in places : (\E k \in 1..count : g[k] = i) \/ count < Cardinality(places)
  <2>1. IsFiniteSet(places) /\ StrictOrder(R, places) /\ count \in Nat /\ count <= Cardinality(places)
        /\ g \in [1..count -> places] /\ \A k \in 1..count : Cardinality(Below(R, places, g[k])) = k - 1
    BY <1>1, <1>2, <1>4, <1>7, <1>8, <1>9
  <2>2. /\ g \in Seq(places) /\ Len(g) = count
        /\ \A k, l \in 1..count : k < l => <<g[k], g[l]>> \in R
        /\ \A i \in places : \/ (\E k \in 1..count : g[k] = i)
                             \/ (count < Cardinality(places) /\ \A n \in 1..count : <<g[n], i>> \in R)
    BY ONLY <2>1, Ranked
  <2> QED
    BY <2>2
<1>11. \A k \in 1..count : rows[g[k]] \in T
  BY <1>1, <1>9
<1>12. Picked(rows, places) \in Seq(T) /\ Len(Picked(rows, places)) = count
  BY <1>4, <1>5, <1>11
<1>13. \A k, l \in 1..count : k < l => g[k] < g[l]
  BY <1>6, <1>10, <1>9
<1>14. \A p \in places : \E k \in 1..count : g[k] = p
  BY <1>4, <1>10, <1>7
<1> QED
  BY <1>5, <1>9, <1>12, <1>13, <1>14 DEF count

-----------------------------------------------------------------------------
(* The walk: its places, and what its reader has and is owed.              *)

Place == [id : Ids, value : Nat, request : Requests]
Cursors == Place \cup {NoCursor}

Readers ==
  [at : {"idle", "paging", "searching", "exporting", "done", "failed"},
   request : Requests \cup {NoRequest}, cursor : Cursors, scan : Cursors,
   found : Seq(Place), seen : Seq(Ids), owed : SUBSET Ids, touched : SUBSET Ids]

\* The order of the places, whether or not their rows are still there.
Beyond(r, p, q) ==
  LET unrated(x) == r.sort = "rating" /\ x.value = NoRating
  IN IF unrated(p) # unrated(q) THEN unrated(p)
     ELSE \/ Past(r, p.value, q.value)
          \/ p.value = q.value /\ Past(r, p.id, q.id)

Ahead(r, cursor, p) == cursor = NoCursor \/ Beyond(r, p, cursor)
Stands(r, table, i) == i \in DOMAIN table /\ Fits(r, table, i)
StandsAt(r, table, p) == Stands(r, table, p.id) /\ CursorAt(r, table, p.id) = p

\* What is owed is there.
Owing(w, table) ==
  \A i \in w.owed :
    /\ i \notin w.touched /\ Stands(w.request, table, i)
    /\ w.request.keyword => i \in Naming
    /\ w.request.keyword \/ w.at = "exporting" => Readable(table, i)

NoneTwice(w) ==
  \A j, k \in DOMAIN w.seen : j < k /\ w.seen[j] = w.seen[k] => w.seen[j] \in w.touched

\* The cursor parts what was given out from what is still to come.
Parted(w, table) ==
  /\ w.cursor # NoCursor => w.cursor.request = w.request
  /\ \A i \in w.owed : i \in ToSet(w.seen) \/ Ahead(w.request, w.cursor, CursorAt(w.request, table, i))
  /\ \A k \in DOMAIN w.seen :
       \/ w.seen[k] \in w.touched
       \/ /\ Stands(w.request, table, w.seen[k])
          /\ ~Ahead(w.request, w.cursor, CursorAt(w.request, table, w.seen[k]))

\* Places to come, in their order.
InOrder(w, table, places) ==
  /\ \A k \in DOMAIN places :
       /\ places[k].request = w.request /\ Ahead(w.request, w.cursor, places[k])
       /\ places[k].id \in w.touched \/ StandsAt(w.request, table, places[k])
  /\ \A k, l \in DOMAIN places : k < l => Beyond(w.request, places[l], places[k])

\* A search has found what it is owed, or has still to scan it.
Searched(w, table) ==
  /\ w.request.keyword /\ Len(w.found) <= PageSize /\ InOrder(w, table, w.found)
  /\ w.scan = NoCursor => w.found = <<>> /\ w.cursor = NoCursor
  /\ w.scan # NoCursor =>
       /\ w.scan.request = w.request
       /\ w.scan = w.cursor \/ Ahead(w.request, w.cursor, w.scan)
       /\ \A k \in DOMAIN w.found : ~Beyond(w.request, w.found[k], w.scan)
  /\ \A i \in w.owed : \/ i \in ToSet(w.seen)
                       \/ \E k \in DOMAIN w.found : w.found[k].id = i
                       \/ Ahead(w.request, w.scan, CursorAt(w.request, table, i))

Walk(w, table) ==
  /\ w.request \in Requests
  /\ Owing(w, table) /\ NoneTwice(w)
  /\ w.at \in {"paging", "searching", "exporting"} => Parted(w, table)
  /\ w.at = "searching" => Searched(w, table)
  /\ w.at # "searching" => w.found = <<>> /\ w.scan = NoCursor
  /\ w.at = "done" => w.owed \subseteq ToSet(w.seen)

WalkInv == reader \in Readers /\ (reader = Idle \/ (reader.at # "idle" /\ Walk(reader, Table)))

LEMMA PlacesAreTyped ==
  ASSUME NEW r \in Requests, NEW table \in Tables, NEW i \in DOMAIN table
  PROVE  /\ CursorAt(r, table, i) \in Place /\ CursorAt(r, table, i) # NoCursor
         /\ CursorAt(r, table, i).id = i /\ CursorAt(r, table, i).request = r
         /\ CursorAt(r, table, i).value = table[i][r.sort]
<1>1. i \in Ids /\ i \in Nat /\ table[i] \in Rows
  BY TablesAreTyped
<1>2. r.sort = "created_at" \/ r.sort = "rating"
  BY DEF Requests, Sorts
<1>3. table[i].created_at \in Nat /\ table[i].rating \in Nat
  BY <1>1 DEF Rows
<1>4. table[i][r.sort] \in Nat
  BY <1>2, <1>3
<1>5. CursorAt(r, table, i).id # NoCursor.id
  BY <1>1 DEF CursorAt, NoCursor
<1> QED
  BY <1>1, <1>4, <1>5 DEF CursorAt, Place

LEMMA PlacesAreNumbers == \A p \in Place : p.id \in Nat /\ p.value \in Nat /\ p # NoCursor
<1>1. \A p \in Place : p.id \in Nat /\ p.value \in Nat
  BY QueryAssumption DEF Place
<1>2. NoCursor.id = -1
  BY DEF NoCursor
<1> QED
  BY <1>1, <1>2

\* Places of a request are in a strict order; only an identifier and a value tell them apart.
LEMMA BeyondIsAnOrder ==
  ASSUME NEW r, NEW p \in Place, NEW q \in Place, NEW s \in Place
  PROVE  /\ ~Beyond(r, p, p)
         /\ Beyond(r, p, q) /\ Beyond(r, q, s) => Beyond(r, p, s)
         /\ Beyond(r, p, q) \/ (p.id = q.id /\ p.value = q.value) \/ Beyond(r, q, p)
<1>1. /\ p.id \in Nat /\ q.id \in Nat /\ s.id \in Nat
      /\ p.value \in Nat /\ q.value \in Nat /\ s.value \in Nat
  BY PlacesAreNumbers
<1>2. CASE r.direction = "asc"
  BY <1>1, <1>2 DEF Beyond, Past
<1>3. CASE r.direction # "asc"
  BY <1>1, <1>3 DEF Beyond, Past
<1> QED
  BY <1>2, <1>3

\* The order of the rows and the clause of the cursor are the one order of the places.
LEMMA OrderOfPlaces ==
  ASSUME NEW r \in Requests, NEW table \in Tables, NEW i \in DOMAIN table
  PROVE  /\ \A j \in DOMAIN table :
              Later(r, table, i, j) <=> Beyond(r, CursorAt(r, table, i), CursorAt(r, table, j))
         /\ \A c \in Place : BehindCursor(r, table, c, i) <=> Beyond(r, CursorAt(r, table, i), c)
<1>1. \A j \in DOMAIN table : /\ CursorAt(r, table, j).id = j
                              /\ CursorAt(r, table, j).value = table[j][r.sort]
  BY PlacesAreTyped
<1>2. r.sort = "created_at" \/ r.sort = "rating"
  BY DEF Requests, Sorts
<1>3. ASSUME NEW j \in DOMAIN table
      PROVE  Later(r, table, i, j) <=> Beyond(r, CursorAt(r, table, i), CursorAt(r, table, j))
  BY <1>1 DEF Later, Beyond
<1>4. ASSUME NEW c \in Place
      PROVE  BehindCursor(r, table, c, i) <=> Beyond(r, CursorAt(r, table, i), c)
  <2> DEFINE p == CursorAt(r, table, i)
  <2>1. p.id = i /\ p.value = table[i][r.sort] /\ p.value \in Nat /\ c.value \in Nat
    BY <1>1, PlacesAreTyped, PlacesAreNumbers
  <2> HIDE DEF p
  <2>2. BehindCursor(r, table, c, i) <=> Beyond(r, p, c)
    BY <1>2, <2>1 DEF BehindCursor, Beyond, Past, NoRating
  <2> QED
    BY <2>2 DEF p
<1> QED
  BY <1>3, <1>4

\* What a page, a batch or an export selects: the rows ahead of the cursor, in their order,
\* and all of them up to the limit.
LEMMA Selecting ==
  ASSUME NEW r \in Requests, NEW table \in Tables, IsFiniteSet(DOMAIN table),
         NEW c \in Cursors, NEW limit \in Nat
  PROVE  LET rows == SelectRows(r, table, c, limit) IN
         /\ rows \in Seq(Ids) /\ Len(rows) \in 0..limit
         /\ \A k \in DOMAIN rows : Stands(r, table, rows[k]) /\ Ahead(r, c, CursorAt(r, table, rows[k]))
         /\ \A k, l \in DOMAIN rows :
              k < l => Beyond(r, CursorAt(r, table, rows[l]), CursorAt(r, table, rows[k]))
         /\ \A i \in DOMAIN table : Stands(r, table, i) /\ Ahead(r, c, CursorAt(r, table, i)) =>
              \/ \E k \in DOMAIN rows : rows[k] = i
              \/ /\ Len(rows) = limit
                 /\ \A k \in DOMAIN rows :
                      Beyond(r, CursorAt(r, table, i), CursorAt(r, table, rows[k]))
<1> DEFINE rows == SelectRows(r, table, c, limit)
           S == Selectable(r, table, c)
           R == {q \in S \X S : Later(r, table, q[2], q[1])}
           count == Cardinality(S)
           n == IF count < limit THEN count ELSE limit
<1>1. S = {i \in DOMAIN table : Stands(r, table, i) /\ Ahead(r, c, CursorAt(r, table, i))}
  BY OrderOfPlaces DEF Selectable, Stands, Ahead, Cursors
<1>2. S \subseteq DOMAIN table /\ IsFiniteSet(S) /\ S \subseteq Ids
  BY <1>1, FS_Subset, TablesAreTyped
<1>3. count \in Nat /\ n \in Nat /\ n <= count
  BY <1>2, FS_CardinalityType
<1>4. \A i, j \in S : <<i, j>> \in R <=> Beyond(r, CursorAt(r, table, j), CursorAt(r, table, i))
  BY <1>2, OrderOfPlaces
<1>5. StrictOrder(R, S)
  <2>1. \A i \in S : CursorAt(r, table, i) \in Place /\ CursorAt(r, table, i).id = i
    BY <1>2, PlacesAreTyped
  <2> HIDE DEF R, S
  <2> QED
    BY <1>4, <2>1, BeyondIsAnOrder DEF StrictOrder
<1>6. \A i \in S : {j \in S : Later(r, table, i, j)} = Below(R, S, i)
  BY DEF Below
<1>7. rows = [k \in 1..n |-> Nth(r, table, S, k)]
  BY DEF SelectRows
<1> HIDE DEF R, S, rows
<1>8. \A i \in S : Cardinality({j \in S : Later(r, table, i, j)}) = Cardinality(Below(R, S, i))
  BY <1>6
<1> HIDE DEF count
<1>9. \A k \in 1..n : Nth(r, table, S, k) \in S /\ Cardinality(Below(R, S, Nth(r, table, S, k))) = k - 1
  <2> SUFFICES ASSUME NEW k \in 1..n
               PROVE  Nth(r, table, S, k) \in S /\ Cardinality(Below(R, S, Nth(r, table, S, k))) = k - 1
    OBVIOUS
  <2>1. k - 1 \in 0..(Cardinality(S) - 1)
    BY <1>3 DEF count
  <2>2. \E i \in S : Cardinality(Below(R, S, i)) = k - 1
    BY <1>2, <1>5, <2>1, Ranks
  <2>3. \E i \in S : Cardinality({j \in S : Later(r, table, i, j)}) = k - 1
    BY <1>8, <2>2
  <2>4. Nth(r, table, S, k) \in S /\ Cardinality({j \in S : Later(r, table, Nth(r, table, S, k), j)}) = k - 1
    BY <2>3 DEF Nth
  <2> QED
    BY <1>8, <2>4
<1> HIDE DEF n
<1>10. rows \in [1..n -> S] /\ \A k \in 1..n : Cardinality(Below(R, S, rows[k])) = k - 1
  BY <1>7, <1>9
<1>11. IsFiniteSet(S) /\ StrictOrder(R, S) /\ n \in Nat /\ n <= Cardinality(S)
  BY <1>2, <1>3, <1>5 DEF count
<1>12. /\ rows \in Seq(S) /\ Len(rows) = n
       /\ \A k, l \in 1..n : k < l => <<rows[k], rows[l]>> \in R
       /\ \A i \in S : \/ (\E k \in 1..n : rows[k] = i)
                       \/ (n < Cardinality(S) /\ \A l \in 1..n : <<rows[l], i>> \in R)
  BY ONLY <1>10, <1>11, Ranked
<1>13. n <= limit /\ (n < Cardinality(S) => n = limit)
  BY <1>3 DEF n, count
<1>14. rows \in Seq(Ids) /\ Len(rows) \in 0..limit /\ DOMAIN rows = 1..n
  BY <1>2, <1>3, <1>12, <1>13
<1>15. \A k \in DOMAIN rows : rows[k] \in S
  BY <1>12
<1>16. \A k, l \in DOMAIN rows :
         k < l => Beyond(r, CursorAt(r, table, rows[l]), CursorAt(r, table, rows[k]))
  BY <1>4, <1>12, <1>14, <1>15
<1>17. \A k \in DOMAIN rows : Stands(r, table, rows[k]) /\ Ahead(r, c, CursorAt(r, table, rows[k]))
  BY <1>1, <1>15
<1>18. ASSUME NEW i \in DOMAIN table, Stands(r, table, i) /\ Ahead(r, c, CursorAt(r, table, i))
       PROVE  \/ \E k \in DOMAIN rows : rows[k] = i
              \/ /\ Len(rows) = limit
                 /\ \A k \in DOMAIN rows :
                      Beyond(r, CursorAt(r, table, i), CursorAt(r, table, rows[k]))
  BY <1>1, <1>4, <1>12, <1>13, <1>14, <1>15, <1>18
<1> QED
  BY <1>14, <1>16, <1>17, <1>18 DEF rows

LEMMA Beginnings ==
  ASSUME NEW T, NEW rows \in Seq(T), NEW limit \in Nat
  PROVE  /\ Prefix(rows, limit) \in Seq(T)
         /\ Len(Prefix(rows, limit)) = IF Len(rows) < limit THEN Len(rows) ELSE limit
         /\ \A k \in DOMAIN Prefix(rows, limit) : k \in DOMAIN rows /\ Prefix(rows, limit)[k] = rows[k]
         /\ Len(rows) <= limit => Prefix(rows, limit) = rows
<1> DEFINE n == IF Len(rows) < limit THEN Len(rows) ELSE limit
           p == SubSeq(rows, 1, n)
<1>1. Len(rows) \in Nat /\ n \in 0..Len(rows)
  OBVIOUS
<1>2. Prefix(rows, limit) = p
  BY DEF Prefix
<1>3. Len(rows) <= limit => n = Len(rows)
  BY <1>1
<1> HIDE DEF n
<1>4. p \in Seq(T) /\ Len(p) = n /\ \A k \in 1..n : p[k] = rows[k]
  BY <1>1
<1>5. n = Len(rows) => p = rows
  BY <1>4, SeqEqual
<1> HIDE DEF p
<1>6. \A k \in DOMAIN p : k \in DOMAIN rows /\ p[k] = rows[k]
  BY <1>1, <1>4
<1> QED
  BY <1>2, <1>3, <1>4, <1>5, <1>6 DEF n

LEMMA Members ==
  ASSUME NEW T, NEW s \in Seq(T)
  PROVE  \A x : x \in ToSet(s) <=> \E k \in 1..Len(s) : s[k] = x
BY DEF ToSet

\* A list and what is added to it.
LEMMA Added ==
  ASSUME NEW T, NEW s \in Seq(T), NEW t \in Seq(T)
  PROVE  /\ s \o t \in Seq(T) /\ Len(s \o t) = Len(s) + Len(t)
         /\ \A k \in DOMAIN (s \o t) : \/ (k \in DOMAIN s /\ (s \o t)[k] = s[k])
                                       \/ (k - Len(s) \in DOMAIN t /\ (s \o t)[k] = t[k - Len(s)])
         /\ \A k \in DOMAIN s : k \in DOMAIN (s \o t) /\ (s \o t)[k] = s[k]
         /\ \A k \in DOMAIN t : Len(s) + k \in DOMAIN (s \o t) /\ (s \o t)[Len(s) + k] = t[k]
         /\ \A x : x \in ToSet(s \o t) <=> x \in ToSet(s) \/ x \in ToSet(t)
<1>1. Len(s) \in Nat /\ Len(t) \in Nat /\ DOMAIN s = 1..Len(s) /\ DOMAIN t = 1..Len(t)
  OBVIOUS
<1> DEFINE u == s \o t
<1>2. u \in Seq(T) /\ Len(u) = Len(s) + Len(t) /\ DOMAIN u = 1..(Len(s) + Len(t))
      /\ \A k \in 1..(Len(s) + Len(t)) : u[k] = IF k <= Len(s) THEN s[k] ELSE t[k - Len(s)]
  OBVIOUS
<1> HIDE DEF u
<1>3. \A k \in DOMAIN u : \/ (k \in DOMAIN s /\ u[k] = s[k])
                          \/ (k - Len(s) \in DOMAIN t /\ u[k] = t[k - Len(s)])
  BY <1>1, <1>2
<1>4. \A k \in DOMAIN s : k \in DOMAIN u /\ u[k] = s[k]
  BY <1>1, <1>2
<1>5. \A k \in DOMAIN t : Len(s) + k \in DOMAIN u /\ u[Len(s) + k] = t[k]
  BY <1>1, <1>2
<1>6. \A x : x \in ToSet(u) <=> x \in ToSet(s) \/ x \in ToSet(t)
  BY <1>3, <1>4, <1>5 DEF ToSet
<1> QED
  BY <1>2, <1>3, <1>4, <1>5, <1>6 DEF u

LEMMA SizesAreNumbers == PageSize \in Nat \ {0} /\ Batch \in Nat \ {0} /\ MaxExport \in Nat
BY QueryAssumption, RecordsAssumption

\* The end of a page: its rows are given out, and the cursor is the place of the last.
LEMMA TurnedFields ==
  ASSUME reader \in Readers, NEW places \in Seq(Place)
  PROVE  LET t == Turned(places)
             page == PageOf(places)
             ids == [k \in 1..Len(page) |-> page[k].id]
         IN /\ t \in Readers /\ ids \in Seq(Ids) /\ page \in Seq(Place)
            /\ t.seen = reader.seen \o ids
            /\ t.at = IF HasMore(places) THEN "paging" ELSE "done"
            /\ t.cursor = IF HasMore(places) THEN page[Len(page)] ELSE NoCursor
            /\ t.scan = NoCursor /\ t.found = <<>>
            /\ t.request = reader.request /\ t.owed = reader.owed /\ t.touched = reader.touched
            /\ \A k \in DOMAIN page : k \in DOMAIN places /\ page[k] = places[k]
            /\ IF HasMore(places) THEN Len(page) = PageSize /\ PageSize \in DOMAIN places ELSE page = places
<1> DEFINE page == PageOf(places)
           ids == [k \in 1..Len(page) |-> page[k].id]
           seen == reader.seen \o ids
           at == IF HasMore(places) THEN "paging" ELSE "done"
           cursor == IF HasMore(places) THEN page[Len(page)] ELSE NoCursor
           none == NoCursor
           nothing == <<>>
<1>1. PageSize \in Nat \ {0} /\ Len(places) \in Nat
  BY SizesAreNumbers
<1>2. /\ page \in Seq(Place) /\ Len(page) = IF Len(places) < PageSize THEN Len(places) ELSE PageSize
      /\ \A k \in DOMAIN page : k \in DOMAIN places /\ page[k] = places[k]
      /\ Len(places) <= PageSize => page = places
  BY <1>1, Beginnings DEF PageOf
<1>3. HasMore(places) <=> Len(places) > PageSize
  BY DEF HasMore
<1>4. IF HasMore(places) THEN Len(page) = PageSize /\ PageSize \in DOMAIN places ELSE page = places
  BY <1>1, <1>2, <1>3
<1>5. Turned(places) = [reader EXCEPT !.seen = reader.seen \o [k \in DOMAIN page |-> page[k].id],
                          !.at = at, !.cursor = cursor, !.scan = none, !.found = nothing]
  BY DEF Turned
<1> HIDE DEF page
<1>6. cursor \in Cursors
  BY <1>1, <1>2, <1>4 DEF Cursors
<1>7. ids \in Seq(Ids)
  <2>1. \A k \in 1..Len(page) : page[k] \in Place
    BY <1>2
  <2>2. \A p \in Place : p.id \in Ids
    BY DEF Place
  <2> QED
    BY <1>2, <2>1, <2>2
<1>8. DOMAIN page = 1..Len(page)
  BY <1>2
<1>9. Turned(places) = [reader EXCEPT !.seen = seen, !.at = at, !.cursor = cursor, !.scan = none, !.found = nothing]
  BY <1>5, <1>8
<1>10. seen \in Seq(Ids) /\ at \in {"paging", "done"} /\ none \in Cursors /\ nothing \in Seq(Place)
  BY <1>7 DEF Readers, Cursors
<1> HIDE DEF ids, seen, at, cursor, none, nothing
<1>11. /\ Turned(places) \in Readers
       /\ Turned(places).seen = seen /\ Turned(places).at = at /\ Turned(places).cursor = cursor
       /\ Turned(places).scan = none /\ Turned(places).found = nothing
       /\ Turned(places).request = reader.request /\ Turned(places).owed = reader.owed
       /\ Turned(places).touched = reader.touched
  BY <1>6, <1>9, <1>10, ZenonT(40) DEF Readers
<1> QED
  BY <1>2, <1>4, <1>7, <1>11 DEF page, ids, seen, at, cursor, none, nothing

\* What may be given out as the next page: places to come, in order, among them all that is
\* owed and not beyond them.
Complete(w, table, places) ==
  \A i \in w.owed : \/ i \in ToSet(w.seen)
                    \/ \E k \in DOMAIN places : places[k].id = i
                    \/ /\ HasMore(places)
                       /\ \A k \in DOMAIN places : Beyond(w.request, CursorAt(w.request, table, i), places[k])

\* A list of what was given out before and of places to come holds nothing twice.
LEMMA NothingAgain ==
  ASSUME NEW table \in Tables, NEW w \in Readers, w.request \in Requests, NoneTwice(w), Parted(w, table),
         NEW places \in Seq(Place), InOrder(w, table, places),
         NEW ids \in Seq(Ids), Len(ids) <= Len(places), \A k \in DOMAIN ids : ids[k] = places[k].id,
         NEW j \in DOMAIN (w.seen \o ids), NEW k \in DOMAIN (w.seen \o ids), j < k,
         (w.seen \o ids)[j] = (w.seen \o ids)[k]
  PROVE  (w.seen \o ids)[j] \in w.touched
<1> DEFINE s == w.seen
           u == s \o ids
           x == u[j]
           m == k - Len(s)
           i == j - Len(s)
<1>1. s \in Seq(Ids) /\ w.cursor \in Cursors
  BY DEF Readers
<1>2. /\ (j \in DOMAIN s /\ u[j] = s[j]) \/ (i \in DOMAIN ids /\ u[j] = ids[i])
      /\ (k \in DOMAIN s /\ u[k] = s[k]) \/ (m \in DOMAIN ids /\ u[k] = ids[m])
  BY <1>1, Added, SMTT(30)
<1>3. /\ DOMAIN ids \subseteq DOMAIN places
      /\ \A p \in DOMAIN places : places[p] \in Place
  OBVIOUS
<1>4. j \in Int /\ k \in Int /\ Len(s) \in Nat /\ DOMAIN s = 1..Len(s) /\ u \in Seq(Ids) /\ DOMAIN ids = 1..Len(ids)
  BY <1>1, Added
<1>5. x = u[k] /\ x = u[j]
  OBVIOUS
<1> SUFFICES ASSUME x \notin w.touched PROVE FALSE
  OBVIOUS
<1> HIDE DEF s, x
<1>6. CASE j \in DOMAIN s /\ u[j] = s[j] /\ k \in DOMAIN s /\ u[k] = s[k]
  BY <1>5, <1>6 DEF NoneTwice, s
<1>7. CASE m \in DOMAIN ids /\ u[k] = ids[m]
  <2>1. places[m].id = x /\ m \in DOMAIN places
    BY <1>3, <1>5, <1>7
  <2>2. /\ Ahead(w.request, w.cursor, places[m]) /\ StandsAt(w.request, table, places[m])
    BY <2>1 DEF InOrder
  <2>3. x \in DOMAIN table /\ CursorAt(w.request, table, x) = places[m]
    BY <2>1, <2>2 DEF StandsAt, Stands
  <2>4. CASE j \in DOMAIN s /\ u[j] = s[j]
    <3>1. ~Ahead(w.request, w.cursor, CursorAt(w.request, table, x))
      BY <1>5, <2>4 DEF Parted, s
    <3> QED
      BY <2>2, <2>3, <3>1
  <2>5. CASE i \in DOMAIN ids /\ u[j] = ids[i]
    <3>1. places[i].id = x /\ i \in DOMAIN places /\ i < m
      BY <1>3, <1>4, <1>5, <2>5, SMTT(30)
    <3>2. StandsAt(w.request, table, places[i]) /\ Beyond(w.request, places[m], places[i])
      BY <2>1, <3>1 DEF InOrder
    <3>3. places[i] = places[m]
      BY <2>3, <3>1, <3>2 DEF StandsAt
    <3> QED
      BY <1>3, <2>1, <3>2, <3>3, BeyondIsAnOrder
  <2> QED
    BY <1>2, <2>4, <2>5
<1>8. CASE k \in DOMAIN s /\ ~(j \in DOMAIN s)
  BY <1>4, <1>8
<1> QED
  BY <1>2, <1>6, <1>7, <1>8

\* A page is given out.
LEMMA Turning ==
  ASSUME reader \in Readers, NEW table \in Tables, Walk(reader, table), reader.at \in {"paging", "searching"},
         NEW places \in Seq(Place), InOrder(reader, table, places), Complete(reader, table, places)
  PROVE  Turned(places) \in Readers /\ Turned(places).at # "idle" /\ Walk(Turned(places), table)
<1> DEFINE w == reader
           t == Turned(places)
           page == PageOf(places)
           ids == [k \in 1..Len(page) |-> page[k].id]
           r == w.request
           at(i) == CursorAt(w.request, table, i)
<1>1. /\ t \in Readers /\ ids \in Seq(Ids) /\ page \in Seq(Place)
      /\ t.seen = w.seen \o ids
      /\ t.at = IF HasMore(places) THEN "paging" ELSE "done"
      /\ t.cursor = IF HasMore(places) THEN page[Len(page)] ELSE NoCursor
      /\ t.scan = NoCursor /\ t.found = <<>>
      /\ t.request = r /\ t.owed = w.owed /\ t.touched = w.touched
      /\ \A k \in DOMAIN page : k \in DOMAIN places /\ page[k] = places[k]
      /\ IF HasMore(places) THEN Len(page) = PageSize /\ PageSize \in DOMAIN places ELSE page = places
  BY TurnedFields
<1>2. /\ r \in Requests /\ Owing(w, table) /\ NoneTwice(w) /\ Parted(w, table)
      /\ w.seen \in Seq(Ids) /\ w.cursor \in Cursors /\ w.owed \subseteq Ids
  BY DEF Walk, Readers
<1>3. Len(ids) = Len(page) /\ \A k \in DOMAIN ids : k \in DOMAIN page /\ k \in 1..Len(page) /\ ids[k] = page[k].id
  BY <1>1
<1> HIDE DEF t, page, ids
<1>4. Len(ids) <= Len(places) /\ \A k \in DOMAIN ids : ids[k] = places[k].id
  <2>1. \A k \in DOMAIN ids : ids[k] = places[k].id /\ k \in DOMAIN places
    BY <1>1, <1>3
  <2>2. Len(ids) <= Len(places)
    BY <1>1, <1>3, SizesAreNumbers
  <2> QED
    BY <2>1, <2>2
<1>5. NoneTwice(t)
  BY <1>1, <1>2, <1>4, NothingAgain DEF NoneTwice
<1>6. Owing(t, table)
  BY <1>1, <1>2 DEF Owing
<1>7. \A k \in DOMAIN page : page[k].id \in ToSet(t.seen)
  <2>1. \A k \in DOMAIN page : page[k].id \in ToSet(ids)
    <3> SUFFICES ASSUME NEW k \in DOMAIN page PROVE page[k].id \in ToSet(ids)
      OBVIOUS
    <3>1. k \in DOMAIN ids
      BY <1>1, <1>3
    <3> QED
      BY <1>3, <3>1 DEF ToSet
  <2> QED
    BY <1>1, <1>2, <2>1, Added
<1>8. \A i \in w.owed : i \in DOMAIN table /\ i \notin w.touched /\ i \in Ids /\ at(i) \in Place
  <2>1. \A i \in w.owed : i \in DOMAIN table /\ i \notin w.touched
    BY <1>2 DEF Owing, Stands
  <2> QED
    BY <1>2, <2>1, PlacesAreTyped
<1>9. \A i \in w.owed : i \in ToSet(w.seen) => i \in ToSet(t.seen)
  BY <1>1, <1>2, Added
<1>10. CASE ~HasMore(places)
  <2>1. t.owed \subseteq ToSet(t.seen)
    BY <1>1, <1>7, <1>9, <1>10 DEF Complete
  <2> QED
    BY <1>1, <1>2, <1>5, <1>6, <1>10, <2>1 DEF Walk, t
<1>11. CASE HasMore(places)
  <2> DEFINE last == places[PageSize]
  <2>1. PageSize \in DOMAIN page /\ PageSize \in DOMAIN places /\ t.cursor = last /\ last \in Place /\ t.cursor # NoCursor
    BY <1>1, <1>11, SizesAreNumbers, PlacesAreNumbers
  <2>2. last.request = r /\ Ahead(r, w.cursor, last)
    BY <2>1 DEF InOrder
  <2>3. \A k \in DOMAIN places : places[k] \in Place
    OBVIOUS
  <2>4. ASSUME NEW i \in w.owed PROVE i \in ToSet(t.seen) \/ Beyond(r, at(i), last)
    <3>1. CASE \E k \in DOMAIN places : places[k].id = i
      <4>1. PICK k \in DOMAIN places : places[k].id = i
        BY <3>1
      <4>2. CASE k <= PageSize
        <5>1. k \in DOMAIN page
          BY <1>1, <1>11, <4>2
        <5> QED
          BY <1>1, <1>7, <4>1, <5>1
      <4>3. CASE ~(k <= PageSize)
        <5>1. Beyond(r, places[k], last)
          BY <2>1, <4>3, SizesAreNumbers DEF InOrder
        <5>2. at(i) = places[k]
          BY <1>8, <4>1 DEF InOrder, StandsAt
        <5> QED
          BY <5>1, <5>2
      <4> QED
        BY <4>2, <4>3
    <3>2. CASE \A k \in DOMAIN places : Beyond(r, at(i), places[k])
      BY <2>1, <3>2
    <3>3. CASE i \in ToSet(w.seen)
      BY <1>9, <3>3
    <3> QED
      BY <3>1, <3>2, <3>3 DEF Complete
  <2>5. ASSUME NEW k \in DOMAIN t.seen, t.seen[k] \notin t.touched
        PROVE  Stands(r, table, t.seen[k]) /\ ~Beyond(r, at(t.seen[k]), last)
    <3>1. CASE k \in DOMAIN w.seen /\ t.seen[k] = w.seen[k]
      <4>1. Stands(r, table, t.seen[k]) /\ ~Ahead(r, w.cursor, at(t.seen[k]))
        BY <1>1, <1>2, <2>5, <3>1 DEF Parted
      <4>2. at(t.seen[k]) \in Place /\ w.cursor \in Place
        BY <1>2, <4>1, PlacesAreTyped DEF Stands, Ahead, Cursors
      <4>3. ~Beyond(r, at(t.seen[k]), w.cursor) /\ Beyond(r, last, w.cursor)
        BY <2>2, <4>1, <4>2, PlacesAreNumbers DEF Ahead
      <4>4. last \in Place /\ (Beyond(r, at(t.seen[k]), last) /\ Beyond(r, last, w.cursor)
                                => Beyond(r, at(t.seen[k]), w.cursor))
        BY <2>1, <4>2, BeyondIsAnOrder, ZenonT(40)
      <4> QED
        BY <4>1, <4>3, <4>4
    <3>2. CASE k - Len(w.seen) \in DOMAIN ids /\ t.seen[k] = ids[k - Len(w.seen)]
      <4> DEFINE m == k - Len(w.seen)
      <4>1. m \in DOMAIN page /\ m \in DOMAIN places /\ places[m].id = t.seen[k] /\ m \in Nat /\ m <= PageSize
        BY <1>1, <1>3, <1>11, <3>2
      <4>2. StandsAt(r, table, places[m])
        BY <1>1, <2>5, <4>1 DEF InOrder
      <4> HIDE DEF m
      <4>3. Stands(r, table, t.seen[k]) /\ at(t.seen[k]) = places[m]
        BY <4>1, <4>2 DEF StandsAt
      <4>4. CASE m = PageSize
        BY <2>1, <4>3, <4>4, BeyondIsAnOrder
      <4>5. CASE m < PageSize
        <5>1. Beyond(r, last, places[m])
          BY <2>1, <4>1, <4>5 DEF InOrder
        <5>2. /\ places[m] \in Place /\ last \in Place /\ ~Beyond(r, last, last)
              /\ (Beyond(r, last, places[m]) /\ Beyond(r, places[m], last) => Beyond(r, last, last))
          BY <2>1, <2>3, <4>1, BeyondIsAnOrder
        <5> QED
          BY <4>3, <5>1, <5>2
      <4> QED
        BY <4>1, <4>4, <4>5, SizesAreNumbers
    <3> QED
      BY <1>1, <1>2, <3>1, <3>2, Added
  <2>6. Parted(t, table)
    BY <1>1, <2>1, <2>2, <2>4, <2>5 DEF Parted, Ahead
  <2> QED
    BY <1>1, <1>2, <1>5, <1>6, <1>11, <2>6 DEF Walk, t
<1> QED
  BY <1>10, <1>11

LEMMA TheTable ==
  ASSUME RecordsInv
  PROVE  /\ Table \in Tables /\ IsFiniteSet(DOMAIN Table) /\ DOMAIN Table \subseteq Ids
         /\ \A i \in DOMAIN Table : i \in Nat /\ i # Corrupted
<1>1. Table \in Tables /\ IsFiniteSet(DOMAIN Table)
  BY EmptyTable, FilesAreTyped DEF RecordsInv, Table, Sound
<1> QED
  BY <1>1, TablesAreTyped DEF Corrupted

\* A step of the reader.
LEMMA Walked ==
  ASSUME file' = file, reader' \in Readers, reader'.at # "idle", Walk(reader', Table)
  PROVE  WalkInv'
<1>1. Table' = Table
  BY DEF Table
<1> QED
  BY <1>1 DEF WalkInv

LEMMA Walking ==
  ASSUME WalkInv, reader.at # "idle"
  PROVE  reader \in Readers /\ Walk(reader, Table) /\ reader.request \in Requests
BY DEF WalkInv, Walk, Idle

LEMMA PlacesOfRows ==
  ASSUME RecordsInv, NEW r \in Requests, NEW rows \in Seq(DOMAIN Table)
  PROVE  /\ Places(rows, r) \in Seq(Place) /\ Len(Places(rows, r)) = Len(rows)
         /\ DOMAIN Places(rows, r) = DOMAIN rows
         /\ \A k \in DOMAIN rows : /\ Places(rows, r)[k] = CursorAt(r, Table, rows[k])
                                   /\ Places(rows, r)[k].id = rows[k]
<1>1. DOMAIN rows = 1..Len(rows) /\ Len(rows) \in Nat
  OBVIOUS
<1>2. \A k \in 1..Len(rows) : CursorAt(r, Table, rows[k]) \in Place /\ CursorAt(r, Table, rows[k]).id = rows[k]
  BY TheTable, PlacesAreTyped
<1>3. Places(rows, r) = [k \in 1..Len(rows) |-> CursorAt(r, Table, rows[k])]
  BY <1>1 DEF Places
<1> QED
  BY <1>1, <1>2, <1>3

\* The rows that a request selects are places to come, if they are picked in their order.
LEMMA SelectedInOrder ==
  ASSUME RecordsInv, NEW w \in Readers, w.request \in Requests, NEW c \in Cursors, NEW limit \in Nat,
         \A p \in Place : Ahead(w.request, c, p) => Ahead(w.request, w.cursor, p)
  PROVE  LET rows == SelectRows(w.request, Table, c, limit)
         IN /\ rows \in Seq(DOMAIN Table)
            /\ \A n \in Nat : \A g \in [1..n -> DOMAIN rows], some \in Seq(DOMAIN Table) :
                 /\ some = [k \in 1..n |-> rows[g[k]]]
                 /\ \A k, l \in 1..n : k < l => g[k] < g[l]
                 => InOrder(w, Table, Places(some, w.request))
<1> DEFINE r == w.request
           rows == SelectRows(r, Table, c, limit)
<1>1. Table \in Tables /\ IsFiniteSet(DOMAIN Table)
  BY TheTable
<1>2. /\ rows \in Seq(Ids) /\ Len(rows) \in 0..limit
      /\ \A k \in DOMAIN rows : Stands(r, Table, rows[k]) /\ Ahead(r, c, CursorAt(r, Table, rows[k]))
      /\ \A k, l \in DOMAIN rows :
              k < l => Beyond(r, CursorAt(r, Table, rows[l]), CursorAt(r, Table, rows[k]))
  BY <1>1, Selecting
<1> HIDE DEF rows
<1>3. \A k \in 1..Len(rows) : rows[k] \in DOMAIN Table
  BY <1>2 DEF Stands
<1>4. rows \in Seq(DOMAIN Table)
  BY <1>2, <1>3
<1>5. ASSUME NEW n \in Nat, NEW g \in [1..n -> DOMAIN rows], NEW some \in Seq(DOMAIN Table),
             some = [k \in 1..n |-> rows[g[k]]], \A k, l \in 1..n : k < l => g[k] < g[l]
      PROVE  InOrder(w, Table, Places(some, r))
  <2> DEFINE places == Places(some, r)
  <2>1. DOMAIN some = 1..n /\ \A k \in 1..n : some[k] = rows[g[k]] /\ g[k] \in DOMAIN rows
    BY <1>5
  <2>2. /\ DOMAIN places = 1..n
        /\ \A k \in 1..n : /\ places[k] = CursorAt(r, Table, some[k])
                           /\ places[k].id = some[k]
    BY <2>1, PlacesOfRows
  <2> HIDE DEF places
  <2>3. ASSUME NEW k \in 1..n
        PROVE  /\ places[k].request = r /\ Ahead(r, w.cursor, places[k])
               /\ StandsAt(r, Table, places[k])
    <3>1. Stands(r, Table, some[k]) /\ Ahead(r, c, CursorAt(r, Table, some[k])) /\ some[k] \in DOMAIN Table
      BY <1>2, <2>1 DEF Stands
    <3>2. CursorAt(r, Table, some[k]) \in Place /\ CursorAt(r, Table, some[k]).request = r
      BY <1>1, <3>1, PlacesAreTyped
    <3> QED
      BY <2>2, <3>1, <3>2 DEF StandsAt
  <2>4. ASSUME NEW k \in 1..n, NEW l \in 1..n, k < l PROVE Beyond(r, places[l], places[k])
    <3>1. g[k] < g[l] /\ g[k] \in DOMAIN rows /\ g[l] \in DOMAIN rows
      BY <1>5, <2>1, <2>4
    <3> QED
      BY <1>2, <2>1, <2>2, <3>1
  <2>5. InOrder(w, Table, places)
    BY <2>2, <2>3, <2>4 DEF InOrder
  <2> QED
    BY <2>5 DEF places
<1> QED
  BY <1>4, <1>5 DEF rows

-----------------------------------------------------------------------------
(* The steps of the reader.                                                *)

LEMMA SameRequest ==
  ASSUME reader \in Readers, Walk(reader, Table), reader.at = "paging", NEW request \in Asked,
         reader.cursor = NoCursor => request = reader.request, Accepted(reader.cursor, request)
  PROVE  request = reader.request
BY DEF Walk, Parted, Accepted

LEMMA NextPageWalks == ASSUME RecordsInv, WalkInv, NEW request \in Asked, NextPage(request) PROVE WalkInv'
<1> DEFINE w == reader
           r == reader.request
           rows == SelectRows(r, Table, w.cursor, PageSize + 1)
           places == Places(rows, r)
<1>1. reader.at = "paging" /\ file' = file
  BY DEF NextPage, Read
<1>2. reader \in Readers /\ Walk(reader, Table) /\ r \in Requests /\ w.cursor \in Cursors
      /\ w.owed \subseteq Ids
  BY <1>1, Walking DEF Readers
<1>3. request = r /\ reader' = Turned(places)
  <2>1. request = r
    BY <1>1, <1>2, SameRequest DEF NextPage
  <2> QED
    BY <2>1 DEF NextPage, Read
<1>4. Table \in Tables /\ IsFiniteSet(DOMAIN Table) /\ PageSize + 1 \in Nat
  BY TheTable, SizesAreNumbers
<1>5. /\ rows \in Seq(Ids) /\ Len(rows) \in 0..(PageSize + 1)
      /\ \A i \in DOMAIN Table : Stands(r, Table, i) /\ Ahead(r, w.cursor, CursorAt(r, Table, i)) =>
              \/ \E k \in DOMAIN rows : rows[k] = i
              \/ /\ Len(rows) = PageSize + 1
                 /\ \A k \in DOMAIN rows :
                      Beyond(r, CursorAt(r, Table, i), CursorAt(r, Table, rows[k]))
  BY <1>2, <1>4, Selecting
<1>6. /\ rows \in Seq(DOMAIN Table)
      /\ \A n \in Nat : \A g \in [1..n -> DOMAIN rows], some \in Seq(DOMAIN Table) :
           /\ some = [k \in 1..n |-> rows[g[k]]]
           /\ \A k, l \in 1..n : k < l => g[k] < g[l]
           => InOrder(w, Table, Places(some, r))
  BY <1>2, <1>4, SelectedInOrder
<1> HIDE DEF rows
<1>7. InOrder(w, Table, places)
  <2> DEFINE n == Len(rows)
             g == [k \in 1..n |-> k]
  <2>1. n \in Nat /\ DOMAIN rows = 1..n
    BY <1>6
  <2>2. rows = [k \in 1..n |-> rows[g[k]]]
    BY <1>6, <2>1
  <2>3. g \in [1..n -> DOMAIN rows] /\ \A k, l \in 1..n : k < l => g[k] < g[l]
    BY <2>1
  <2> HIDE DEF g, n
  <2> QED
    BY <1>6, <2>1, <2>2, <2>3
<1>8. /\ places \in Seq(Place) /\ Len(places) = Len(rows) /\ DOMAIN places = DOMAIN rows
      /\ \A k \in DOMAIN rows : places[k] = CursorAt(r, Table, rows[k]) /\ places[k].id = rows[k]
  BY <1>2, <1>6, PlacesOfRows
<1> HIDE DEF places
<1>9. Complete(w, Table, places)
  <2> SUFFICES ASSUME NEW i \in w.owed, i \notin ToSet(w.seen), ~(\E k \in DOMAIN places : places[k].id = i)
               PROVE  /\ HasMore(places)
                      /\ \A k \in DOMAIN places : Beyond(r, CursorAt(r, Table, i), places[k])
    BY DEF Complete
  <2>1. Stands(r, Table, i) /\ Ahead(r, w.cursor, CursorAt(r, Table, i)) /\ i \in DOMAIN Table
    BY <1>1, <1>2 DEF Walk, Owing, Parted, Stands
  <2>2. /\ Len(rows) = PageSize + 1
        /\ \A k \in DOMAIN rows : Beyond(r, CursorAt(r, Table, i), CursorAt(r, Table, rows[k]))
    BY <1>5, <1>8, <2>1
  <2> QED
    BY <1>8, <2>2, SizesAreNumbers DEF HasMore
<1>10. reader' \in Readers /\ reader'.at # "idle" /\ Walk(reader', Table)
  BY <1>1, <1>2, <1>3, <1>4, <1>7, <1>8, <1>9, Turning
<1> QED
  BY <1>1, <1>10, Walked

LEMMA StartSearchWalks == ASSUME RecordsInv, WalkInv, NEW request \in Asked, StartSearch(request) PROVE WalkInv'
<1> DEFINE at == "searching"
           scan == reader.cursor
           v == [reader EXCEPT !.at = at, !.scan = scan]
<1>1. reader.at = "paging" /\ file' = file /\ reader' = v
  BY DEF StartSearch, Read
<1>2. reader \in Readers /\ Walk(reader, Table) /\ reader.cursor \in Cursors /\ reader.found = <<>>
  BY <1>1, Walking DEF Readers, Walk
<1>3. request = reader.request /\ request.keyword
  BY <1>1, <1>2, SameRequest DEF StartSearch
<1>4. scan \in Cursors /\ scan = reader.cursor /\ at = "searching"
  BY <1>2
<1> HIDE DEF at, scan
<1>5. /\ v \in Readers /\ v.at = "searching" /\ v.scan = reader.cursor /\ v.request = reader.request
      /\ v.cursor = reader.cursor /\ v.found = <<>> /\ v.seen = reader.seen /\ v.owed = reader.owed
      /\ v.touched = reader.touched
  BY <1>2, <1>4 DEF Readers
<1> HIDE DEF v
<1>6. Owing(v, Table) /\ NoneTwice(v) /\ Parted(v, Table) /\ v.request \in Requests
  BY <1>1, <1>2, <1>5 DEF Walk, Owing, NoneTwice, Parted
<1>7. InOrder(v, Table, v.found) /\ Len(v.found) = 0 /\ DOMAIN v.found = {}
  BY <1>5 DEF InOrder
<1>8. Searched(v, Table)
  <2>1. v.scan # NoCursor => v.scan.request = v.request
    BY <1>5, <1>6 DEF Parted
  <2>2. \A i \in v.owed : i \in ToSet(v.seen) \/ Ahead(v.request, v.scan, CursorAt(v.request, Table, i))
    BY <1>5, <1>6 DEF Parted
  <2> QED
    BY <1>3, <1>5, <1>7, <2>1, <2>2, SizesAreNumbers DEF Searched
<1>9. Walk(v, Table)
  BY <1>5, <1>6, <1>8 DEF Walk
<1> QED
  BY <1>1, <1>5, <1>9, Walked

LEMMA SearchFailsWalks == ASSUME RecordsInv, WalkInv, SearchFails PROVE WalkInv'
<1> DEFINE at == "paging"
           scan == NoCursor
           found == <<>>
           v == [reader EXCEPT !.at = at, !.found = found, !.scan = scan]
<1>1. reader.at = "searching" /\ file' = file /\ reader' = v
  BY DEF SearchFails, Read
<1>2. reader \in Readers /\ Walk(reader, Table)
  BY <1>1, Walking
<1>3. scan \in Cursors /\ scan = NoCursor /\ found = <<>> /\ found \in Seq(Place) /\ at = "paging"
  BY DEF Cursors
<1> HIDE DEF at, scan, found
<1>4. /\ v \in Readers /\ v.at = "paging" /\ v.scan = NoCursor /\ v.request = reader.request
      /\ v.cursor = reader.cursor /\ v.found = <<>> /\ v.seen = reader.seen /\ v.owed = reader.owed
      /\ v.touched = reader.touched
  BY <1>2, <1>3 DEF Readers
<1> HIDE DEF v
<1>5. Walk(v, Table)
  BY <1>1, <1>2, <1>4 DEF Walk, Owing, NoneTwice, Parted
<1> QED
  BY <1>1, <1>4, <1>5, Walked

\* What was found and what the next batch adds to it: places to come, in order; what is owed
\* is among them, or beyond the batch.
LEMMA SearchingABatch ==
  ASSUME RecordsInv, WalkInv, reader.at = "searching"
  PROVE  LET r == reader.request
             rows == SelectRows(r, Table, reader.scan, Batch)
             new == Places(Matching(rows, Table), r)
             all == reader.found \o new
             at(i) == CursorAt(r, Table, i)
         IN /\ all \in Seq(Place) /\ InOrder(reader, Table, all)
            /\ rows \in Seq(DOMAIN Table) /\ Len(rows) \in 0..Batch
            /\ \A i \in reader.owed :
                 \/ i \in ToSet(reader.seen)
                 \/ \E k \in DOMAIN all : all[k].id = i
                 \/ /\ Len(rows) = Batch
                    /\ Beyond(r, at(i), at(rows[Batch]))
                    /\ \A k \in DOMAIN all : Beyond(r, at(i), all[k])
            /\ Len(rows) = Batch =>
                 /\ Ahead(r, reader.cursor, at(rows[Batch]))
                 /\ \A k \in DOMAIN all : ~Beyond(r, all[k], at(rows[Batch]))
<1> DEFINE w == reader
           r == reader.request
           rows == SelectRows(r, Table, w.scan, Batch)
           hits == {k \in DOMAIN rows : Readable(Table, rows[k]) /\ rows[k] \in Naming}
           some == Matching(rows, Table)
           new == Places(some, r)
           all == w.found \o new
           at(i) == CursorAt(r, Table, i)
<1>1. /\ w \in Readers /\ Walk(w, Table) /\ r \in Requests /\ w.cursor \in Cursors /\ w.scan \in Cursors
      /\ w.found \in Seq(Place) /\ w.owed \subseteq Ids
  BY Walking DEF Readers
<1>2. Owing(w, Table) /\ Parted(w, Table) /\ Searched(w, Table)
  BY <1>1 DEF Walk
<1>3. Table \in Tables /\ IsFiniteSet(DOMAIN Table) /\ Batch \in Nat \ {0}
  BY TheTable, SizesAreNumbers
<1>4. \A p \in Place : Ahead(r, w.scan, p) => Ahead(r, w.cursor, p)
  <2> SUFFICES ASSUME NEW p \in Place, Ahead(r, w.scan, p) PROVE Ahead(r, w.cursor, p)
    OBVIOUS
  <2>1. CASE w.scan = NoCursor \/ w.scan = w.cursor \/ w.cursor = NoCursor
    BY <1>2, <2>1 DEF Searched, Ahead
  <2>2. CASE w.scan # NoCursor /\ w.scan # w.cursor /\ w.cursor # NoCursor
    <3>1. w.scan \in Place /\ w.cursor \in Place /\ Beyond(r, w.scan, w.cursor) /\ Beyond(r, p, w.scan)
      BY <1>1, <1>2, <2>2 DEF Searched, Ahead, Cursors
    <3> QED
      BY <3>1, BeyondIsAnOrder DEF Ahead
  <2> QED
    BY <2>1, <2>2
<1>5. /\ rows \in Seq(Ids) /\ Len(rows) \in 0..Batch
      /\ \A k \in DOMAIN rows : Stands(r, Table, rows[k]) /\ Ahead(r, w.scan, at(rows[k]))
      /\ \A k, l \in DOMAIN rows : k < l => Beyond(r, at(rows[l]), at(rows[k]))
      /\ \A i \in DOMAIN Table : Stands(r, Table, i) /\ Ahead(r, w.scan, at(i)) =>
              \/ \E k \in DOMAIN rows : rows[k] = i
              \/ /\ Len(rows) = Batch
                 /\ \A k \in DOMAIN rows : Beyond(r, at(i), at(rows[k]))
  BY <1>1, <1>3, Selecting
<1>6. /\ rows \in Seq(DOMAIN Table)
      /\ \A n \in Nat : \A g \in [1..n -> DOMAIN rows], found \in Seq(DOMAIN Table) :
           /\ found = [k \in 1..n |-> rows[g[k]]]
           /\ \A k, l \in 1..n : k < l => g[k] < g[l]
           => InOrder(w, Table, Places(found, r))
  BY <1>1, <1>3, <1>4, SelectedInOrder
<1>7. some = Picked(rows, hits)
  BY DEF Matching
<1>8. hits \subseteq DOMAIN rows /\ \A k \in DOMAIN rows : k \in hits <=> Readable(Table, rows[k]) /\ rows[k] \in Naming
  OBVIOUS
<1> HIDE DEF rows, hits, some
<1>9. PICK g \in [1..Cardinality(hits) -> hits] :
        /\ some = [n \in 1..Cardinality(hits) |-> rows[g[n]]]
        /\ some \in Seq(DOMAIN Table) /\ Len(some) = Cardinality(hits)
        /\ \A k, l \in 1..Cardinality(hits) : k < l => g[k] < g[l]
        /\ \A p \in hits : \E k \in 1..Cardinality(hits) : g[k] = p
  BY <1>6, <1>7, <1>8, Picking
<1> DEFINE n == Cardinality(hits)
<1>10. n \in Nat /\ DOMAIN some = 1..n
  <2>1. some \in Seq(DOMAIN Table) /\ Len(some) = n
    BY <1>9
  <2> HIDE DEF n
  <2> QED
    BY <2>1
<1>11. InOrder(w, Table, new)
  <2>1. g \in [1..n -> DOMAIN rows]
    BY <1>8, <1>9
  <2> HIDE DEF n
  <2>2. some \in Seq(DOMAIN Table) /\ some = [k \in 1..n |-> rows[g[k]]] /\ \A k, l \in 1..n : k < l => g[k] < g[l]
    BY <1>9 DEF n
  <2> QED
    BY <1>6, <1>10, <2>1, <2>2
<1>12. /\ new \in Seq(Place) /\ DOMAIN new = 1..n
       /\ \A k \in 1..n : /\ new[k] = at(rows[g[k]]) /\ new[k].id = rows[g[k]] /\ g[k] \in DOMAIN rows
  <2>1. some \in Seq(DOMAIN Table) /\ \A k \in 1..n : some[k] = rows[g[k]] /\ g[k] \in DOMAIN rows
    BY <1>8, <1>9
  <2> HIDE DEF n
  <2>2. /\ new \in Seq(Place) /\ DOMAIN new = DOMAIN some
        /\ \A k \in DOMAIN some : new[k] = at(some[k]) /\ new[k].id = some[k]
    BY <1>1, <2>1, PlacesOfRows
  <2> HIDE DEF new
  <2> QED
    BY <1>10, <2>1, <2>2
<1> HIDE DEF n, new
\* What was found lies before the batch.
<1>13. \A k \in DOMAIN w.found, p \in Place : Ahead(r, w.scan, p) => Beyond(r, p, w.found[k])
  <2> SUFFICES ASSUME NEW k \in DOMAIN w.found, NEW p \in Place, Ahead(r, w.scan, p)
               PROVE  Beyond(r, p, w.found[k])
    OBVIOUS
  <2>1. w.scan # NoCursor /\ ~Beyond(r, w.found[k], w.scan) /\ w.found[k] \in Place
    BY <1>1, <1>2 DEF Searched
  <2>2. w.scan \in Place /\ Beyond(r, p, w.scan)
    BY <1>1, <2>1 DEF Ahead, Cursors
  <2>3. Beyond(r, w.scan, w.found[k]) \/ (w.found[k].id = w.scan.id /\ w.found[k].value = w.scan.value)
    BY <2>1, <2>2, BeyondIsAnOrder
  <2>4. CASE Beyond(r, w.scan, w.found[k])
    BY <2>1, <2>2, <2>4, BeyondIsAnOrder
  <2>5. CASE w.found[k].id = w.scan.id /\ w.found[k].value = w.scan.value
    BY <2>2, <2>5 DEF Beyond
  <2> QED
    BY <2>3, <2>4, <2>5
<1>14. \A k \in DOMAIN rows : at(rows[k]) \in Place /\ Ahead(r, w.scan, at(rows[k]))
  <2>1. \A k \in DOMAIN rows : rows[k] \in DOMAIN Table
    BY <1>6
  <2> QED
    BY <1>1, <1>3, <1>5, <2>1, PlacesAreTyped
<1>15. /\ all \in Seq(Place)
       /\ \A k \in DOMAIN all : \/ (k \in DOMAIN w.found /\ all[k] = w.found[k])
                                \/ (k - Len(w.found) \in 1..n /\ all[k] = new[k - Len(w.found)])
       /\ \A k \in DOMAIN w.found : k \in DOMAIN all /\ all[k] = w.found[k]
       /\ \A k \in 1..n : Len(w.found) + k \in DOMAIN all /\ all[Len(w.found) + k] = new[k]
  <2>1. w.found \in Seq(Place) /\ new \in Seq(Place)
    BY <1>1, <1>12
  <2> DEFINE s == w.found
  <2>2. s \in Seq(Place) /\ new \in Seq(Place) /\ all = s \o new
    BY <2>1
  <2> HIDE DEF s, all
  <2>3. /\ all \in Seq(Place)
        /\ \A k \in DOMAIN all : \/ (k \in DOMAIN s /\ all[k] = s[k])
                                 \/ (k - Len(s) \in DOMAIN new /\ all[k] = new[k - Len(s)])
        /\ \A k \in DOMAIN s : k \in DOMAIN all /\ all[k] = s[k]
        /\ \A k \in DOMAIN new : Len(s) + k \in DOMAIN all /\ all[Len(s) + k] = new[k]
    BY <2>2, Added
  <2>4. DOMAIN new = 1..n
    BY <1>12
  <2> QED
    BY <2>3, <2>4 DEF s
<1>16. DOMAIN all \subseteq Nat /\ DOMAIN w.found = 1..Len(w.found) /\ Len(w.found) \in Nat
  BY <1>1, <1>15
<1> HIDE DEF all
<1>17. InOrder(w, Table, all)
  <2>1. InOrder(w, Table, w.found)
    BY <1>2 DEF Searched
  <2>2. ASSUME NEW k \in DOMAIN all
        PROVE  /\ all[k].request = r /\ Ahead(r, w.cursor, all[k])
               /\ all[k].id \in w.touched \/ StandsAt(r, Table, all[k])
    BY <1>11, <1>12, <1>15, <2>1 DEF InOrder
  <2>3. ASSUME NEW k \in DOMAIN all, NEW l \in DOMAIN all, k < l
        PROVE  Beyond(r, all[l], all[k])
    <3>1. CASE l \in DOMAIN w.found
      BY <1>15, <1>16, <2>1, <2>3, <3>1, SMTT(30) DEF InOrder
    <3>2. CASE l - Len(w.found) \in 1..n /\ all[l] = new[l - Len(w.found)]
      <4>1. CASE k \in DOMAIN w.found /\ all[k] = w.found[k]
        <5>1. all[l] \in Place /\ Ahead(r, w.scan, all[l])
          BY <1>12, <1>14, <3>2
        <5> QED
          BY <1>13, <4>1, <5>1
      <4>2. CASE k - Len(w.found) \in 1..n /\ all[k] = new[k - Len(w.found)]
        <5>1. k - Len(w.found) < l - Len(w.found)
          BY <1>16, <2>3
        <5> QED
          BY <1>11, <1>12, <3>2, <4>2, <5>1 DEF InOrder
      <4> QED
        BY <1>15, <4>1, <4>2
    <3> QED
      BY <1>15, <3>1, <3>2
  <2> QED
    BY <2>2, <2>3 DEF InOrder
<1>18. ASSUME NEW i \in w.owed, i \notin ToSet(w.seen), ~(\E k \in DOMAIN all : all[k].id = i)
       PROVE  /\ Len(rows) = Batch
              /\ Beyond(r, at(i), at(rows[Batch]))
              /\ \A k \in DOMAIN all : Beyond(r, at(i), all[k])
  <2>1. Stands(r, Table, i) /\ Readable(Table, i) /\ i \in Naming /\ i \in DOMAIN Table
    BY <1>2 DEF Owing, Searched, Stands
  <2>2. Ahead(r, w.scan, at(i)) /\ at(i) \in Place
    BY <1>1, <1>2, <1>3, <1>15, <1>18, <2>1, PlacesAreTyped DEF Searched
  <2>3. ~(\E k \in DOMAIN rows : rows[k] = i)
    <3> SUFFICES ASSUME NEW m \in DOMAIN rows, rows[m] = i PROVE FALSE
      OBVIOUS
    <3>1. m \in hits
      BY <1>8, <2>1
    <3>2. PICK k \in 1..n : g[k] = m
      BY <1>9, <3>1 DEF n
    <3> QED
      BY <1>12, <1>15, <1>18, <3>2
  <2>4. Len(rows) = Batch /\ \A k \in DOMAIN rows : Beyond(r, at(i), at(rows[k]))
    BY <1>5, <2>1, <2>2, <2>3
  <2>5. Batch \in DOMAIN rows
    BY <1>3, <1>5, <2>4
  <2>6. \A k \in DOMAIN all : Beyond(r, at(i), all[k])
    <3>1. \A k \in DOMAIN w.found : Beyond(r, at(i), w.found[k])
      BY <1>13, <2>2
    <3>2. \A k \in 1..n : Beyond(r, at(i), new[k])
      BY <1>12, <2>4
    <3> QED
      BY <1>15, <3>1, <3>2
  <2> QED
    BY <2>4, <2>5, <2>6
<1>19. ASSUME Len(rows) = Batch
       PROVE  /\ Ahead(r, w.cursor, at(rows[Batch]))
              /\ \A k \in DOMAIN all : ~Beyond(r, all[k], at(rows[Batch]))
  <2> DEFINE last == at(rows[Batch])
  <2>1. Batch \in DOMAIN rows /\ DOMAIN rows = 1..Batch
    BY <1>3, <1>5, <1>19
  <2>2. last \in Place /\ Ahead(r, w.scan, last) /\ Ahead(r, w.cursor, last)
    BY <1>4, <1>14, <2>1
  <2>3. ASSUME NEW k \in DOMAIN all PROVE ~Beyond(r, all[k], last)
    <3>1. CASE k \in DOMAIN w.found /\ all[k] = w.found[k]
      <4>1. Beyond(r, last, all[k]) /\ all[k] \in Place
        BY <1>1, <1>13, <2>2, <3>1
      <4>2. Beyond(r, all[k], last) /\ Beyond(r, last, all[k]) => Beyond(r, all[k], all[k])
        BY <2>2, <4>1, BeyondIsAnOrder
      <4> QED
        BY <4>1, <4>2, BeyondIsAnOrder
    <3>2. CASE k - Len(w.found) \in 1..n /\ all[k] = new[k - Len(w.found)]
      <4>1. PICK m \in DOMAIN rows : all[k] = at(rows[m])
        BY <1>12, <3>2
      <4>2. all[k] \in Place
        BY <1>14, <4>1
      <4>3. CASE m = Batch
        BY <2>2, <4>1, <4>3, BeyondIsAnOrder
      <4>4. CASE m < Batch
        <5>1. Beyond(r, last, all[k])
          BY <1>5, <2>1, <4>1, <4>4
        <5>2. Beyond(r, all[k], last) /\ Beyond(r, last, all[k]) => Beyond(r, all[k], all[k])
          BY <2>2, <4>2, BeyondIsAnOrder
        <5> QED
          BY <4>2, <5>1, <5>2, BeyondIsAnOrder
      <4> QED
        BY <2>1, <4>3, <4>4, <1>3
    <3> QED
      BY <1>15, <3>1, <3>2
  <2> QED
    BY <2>2, <2>3
<1> QED
  BY <1>5, <1>6, <1>15, <1>17, <1>18, <1>19 DEF all, new, some, rows

LEMMA SearchBatchWalks == ASSUME RecordsInv, WalkInv, SearchBatch PROVE WalkInv'
<1> DEFINE w == reader
           r == reader.request
           rows == SelectRows(r, Table, w.scan, Batch)
           all == w.found \o Places(Matching(rows, Table), r)
           found == Prefix(all, PageSize + 1)
           at(i) == CursorAt(r, Table, i)
           last == at(rows[Len(rows)])
           full == HasMore(found) \/ Len(rows) < Batch
           v == [w EXCEPT !.found = found, !.scan = last]
<1>1. w.at = "searching" /\ file' = file /\ reader' = IF full THEN Turned(found) ELSE v
  BY DEF SearchBatch, Read
<1>2. w \in Readers /\ Walk(w, Table) /\ r \in Requests /\ w.cursor \in Cursors
  BY <1>1, Walking DEF Readers
<1>3. Owing(w, Table) /\ NoneTwice(w) /\ Parted(w, Table) /\ Searched(w, Table)
  BY <1>1, <1>2 DEF Walk
<1>4. Table \in Tables /\ Batch \in Nat \ {0} /\ PageSize + 1 \in Nat /\ PageSize \in Nat
  BY TheTable, SizesAreNumbers
<1>5. /\ all \in Seq(Place) /\ InOrder(w, Table, all)
      /\ rows \in Seq(DOMAIN Table) /\ Len(rows) \in 0..Batch
      /\ \A i \in w.owed :
           \/ i \in ToSet(w.seen)
           \/ \E k \in DOMAIN all : all[k].id = i
           \/ /\ Len(rows) = Batch
              /\ Beyond(r, at(i), at(rows[Batch]))
              /\ \A k \in DOMAIN all : Beyond(r, at(i), all[k])
      /\ Len(rows) = Batch =>
           /\ Ahead(r, w.cursor, at(rows[Batch]))
           /\ \A k \in DOMAIN all : ~Beyond(r, all[k], at(rows[Batch]))
  BY <1>1, SearchingABatch
<1> HIDE DEF rows, all
<1>6. /\ found \in Seq(Place)
      /\ Len(found) = IF Len(all) < PageSize + 1 THEN Len(all) ELSE PageSize + 1
      /\ \A k \in DOMAIN found : k \in DOMAIN all /\ found[k] = all[k]
      /\ Len(all) <= PageSize + 1 => found = all
  BY <1>4, <1>5, Beginnings
<1> HIDE DEF found
<1>7. InOrder(w, Table, found)
  BY <1>5, <1>6 DEF InOrder
<1>8. HasMore(found) <=> Len(all) > PageSize
  <2>1. Len(all) \in Nat
    BY <1>5
  <2> QED
    BY <1>4, <1>6, <2>1 DEF HasMore
<1>9. CASE full
  <2>1. Complete(w, Table, found)
    <3> SUFFICES ASSUME NEW i \in w.owed, i \notin ToSet(w.seen), ~(\E k \in DOMAIN found : found[k].id = i)
                 PROVE  HasMore(found) /\ \A k \in DOMAIN found : Beyond(r, at(i), found[k])
      BY DEF Complete
    <3>1. CASE \E k \in DOMAIN all : all[k].id = i
      <4>1. PICK m \in DOMAIN all : all[m].id = i
        BY <3>1
      <4>2. Len(all) > PageSize + 1 /\ Len(found) = PageSize + 1
        <5>1. Len(all) \in Nat
          BY <1>5
        <5> QED
          BY <1>4, <1>6, <4>1, <5>1
      <4>3. DOMAIN found = 1..(PageSize + 1) /\ DOMAIN all = 1..Len(all) /\ Len(all) \in Nat
        BY <1>5, <1>6, <4>2
      <4>4. m > PageSize + 1
        BY <1>4, <1>6, <4>1, <4>3
      <4>5. i \notin w.touched
        BY <1>3 DEF Owing
      <4>6. at(i) = all[m]
        BY <1>5, <4>1, <4>5 DEF InOrder, StandsAt
      <4>7. \A k \in DOMAIN found : Beyond(r, all[m], found[k])
        <5> SUFFICES ASSUME NEW k \in DOMAIN found PROVE Beyond(r, all[m], all[k])
          BY <1>6
        <5>1. k \in DOMAIN all
          BY <1>6
        <5>2. k \in 1..(PageSize + 1) /\ m \in 1..Len(all)
          BY <4>1, <4>3
        <5>3. k < m
          BY <1>4, <4>4, <5>2
        <5> QED
          BY <1>5, <5>1, <5>3 DEF InOrder
      <4> QED
        BY <1>4, <1>8, <4>2, <4>3, <4>6, <4>7
    <3>2. CASE ~(\E k \in DOMAIN all : all[k].id = i)
      <4>1. Len(rows) = Batch /\ \A k \in DOMAIN all : Beyond(r, at(i), all[k])
        BY <1>5, <3>2
      <4>2. HasMore(found)
        BY <1>4, <1>9, <4>1
      <4> QED
        BY <1>6, <4>1, <4>2
    <3> QED
      BY <3>1, <3>2
  <2>2. reader' \in Readers /\ reader'.at # "idle" /\ Walk(reader', Table)
    BY <1>1, <1>2, <1>4, <1>6, <1>7, <1>9, <2>1, Turning
  <2> QED
    BY <1>1, <2>2, Walked
<1>10. CASE ~full
  <2>1. Len(rows) = Batch /\ ~HasMore(found)
    BY <1>4, <1>5, <1>10
  <2>2. found = all /\ Len(found) <= PageSize
    <3>1. Len(all) \in Nat
      BY <1>5
    <3> QED
      BY <1>4, <1>6, <1>8, <2>1, <3>1
  <2>3. last = at(rows[Batch]) /\ rows[Batch] \in DOMAIN Table
    BY <1>4, <1>5, <2>1
  <2>4. last \in Place /\ last \in Cursors /\ last # NoCursor /\ last.request = r
    BY <1>2, <1>4, <2>3, PlacesAreTyped DEF Cursors
  <2>5. Ahead(r, w.cursor, last) /\ \A k \in DOMAIN found : ~Beyond(r, found[k], last)
    BY <1>5, <2>1, <2>2, <2>3
  <2>6. \A i \in w.owed : \/ i \in ToSet(w.seen)
                          \/ \E k \in DOMAIN found : found[k].id = i
                          \/ Ahead(r, last, at(i))
    BY <1>5, <2>2, <2>3 DEF Ahead
  <2> HIDE DEF last
  <2>7. /\ v \in Readers /\ v.at = "searching" /\ v.scan = last /\ v.request = r
        /\ v.cursor = w.cursor /\ v.found = found /\ v.seen = w.seen /\ v.owed = w.owed
        /\ v.touched = w.touched
    BY <1>1, <1>2, <1>6, <2>4 DEF Readers
  <2> HIDE DEF v
  <2>8. Owing(v, Table) /\ NoneTwice(v) /\ Parted(v, Table)
    BY <1>1, <1>3, <2>7 DEF Owing, NoneTwice, Parted
  <2>9. Searched(v, Table)
    <3>1. InOrder(v, Table, v.found) /\ v.request.keyword
      BY <1>3, <1>7, <2>7 DEF InOrder, Searched
    <3> QED
      BY <2>2, <2>4, <2>5, <2>6, <2>7, <3>1 DEF Searched
  <2>10. Walk(v, Table)
    BY <1>2, <2>7, <2>8, <2>9 DEF Walk
  <2> QED
    BY <1>1, <1>10, <2>7, <2>10, Walked
<1> QED
  BY <1>9, <1>10

LEMMA ExportBatchWalks == ASSUME RecordsInv, WalkInv, ExportBatch PROVE WalkInv'
<1> DEFINE w == reader
           r == reader.request
           rows == SelectRows(r, Table, w.cursor, Batch)
           good == {k \in DOMAIN rows : Shown(Table, rows[k]) # Corrupted}
           some == Exported(rows)
           sent == w.seen \o some
           seen == Prefix(sent, MaxExport)
           at(i) == CursorAt(r, Table, i)
           status == IF Len(sent) > MaxExport THEN "failed" ELSE IF Len(rows) < Batch THEN "done" ELSE "exporting"
           cursor == IF Len(rows) < Batch THEN NoCursor ELSE at(rows[Len(rows)])
           v == [w EXCEPT !.seen = seen, !.at = status, !.cursor = cursor]
<1>1. w.at = "exporting" /\ file' = file /\ reader' = v
  BY DEF ExportBatch, Read
<1>2. w \in Readers /\ Walk(w, Table) /\ r \in Requests /\ w.cursor \in Cursors /\ w.seen \in Seq(Ids) /\ w.owed \subseteq Ids
  BY <1>1, Walking DEF Readers
<1>3. Owing(w, Table) /\ NoneTwice(w) /\ Parted(w, Table) /\ w.found = <<>> /\ w.scan = NoCursor
  BY <1>1, <1>2 DEF Walk
<1>4. Table \in Tables /\ IsFiniteSet(DOMAIN Table) /\ Batch \in Nat \ {0} /\ MaxExport \in Nat
  BY TheTable, SizesAreNumbers
<1>5. /\ rows \in Seq(Ids) /\ Len(rows) \in 0..Batch
      /\ \A k \in DOMAIN rows : Stands(r, Table, rows[k]) /\ Ahead(r, w.cursor, at(rows[k]))
      /\ \A k, l \in DOMAIN rows : k < l => Beyond(r, at(rows[l]), at(rows[k]))
      /\ \A i \in DOMAIN Table : Stands(r, Table, i) /\ Ahead(r, w.cursor, at(i)) =>
              \/ \E k \in DOMAIN rows : rows[k] = i
              \/ /\ Len(rows) = Batch
                 /\ \A k \in DOMAIN rows : Beyond(r, at(i), at(rows[k]))
  BY <1>2, <1>4, Selecting
<1>6. /\ rows \in Seq(DOMAIN Table)
      /\ \A n \in Nat : \A g \in [1..n -> DOMAIN rows], found \in Seq(DOMAIN Table) :
           /\ found = [k \in 1..n |-> rows[g[k]]]
           /\ \A k, l \in 1..n : k < l => g[k] < g[l]
           => InOrder(w, Table, Places(found, r))
  BY <1>2, <1>4, SelectedInOrder
<1>7. some = Picked(rows, good)
  BY DEF Exported
<1>8. good \subseteq DOMAIN rows /\ \A k \in DOMAIN rows : Readable(Table, rows[k]) => k \in good
  <2>1. \A k \in DOMAIN rows : rows[k] \in DOMAIN Table
    BY <1>6
  <2> QED
    BY <2>1, TheTable DEF Shown
<1> HIDE DEF rows, good, some
<1>9. PICK g \in [1..Cardinality(good) -> good] :
        /\ some = [n \in 1..Cardinality(good) |-> rows[g[n]]]
        /\ some \in Seq(DOMAIN Table) /\ Len(some) = Cardinality(good)
        /\ \A k, l \in 1..Cardinality(good) : k < l => g[k] < g[l]
        /\ \A p \in good : \E k \in 1..Cardinality(good) : g[k] = p
  <2>1. rows \in Seq(DOMAIN Table) /\ good \in SUBSET DOMAIN rows
    BY <1>6, <1>8
  <2>2. \E g \in [1..Cardinality(good) -> good] :
          /\ Picked(rows, good) = [n \in 1..Cardinality(good) |-> rows[g[n]]]
          /\ Picked(rows, good) \in Seq(DOMAIN Table) /\ Len(Picked(rows, good)) = Cardinality(good)
          /\ \A k, l \in 1..Cardinality(good) : k < l => g[k] < g[l]
          /\ \A p \in good : \E k \in 1..Cardinality(good) : g[k] = p
    BY ONLY <2>1, Picking
  <2> QED
    BY <1>7, <2>2
<1> DEFINE n == Cardinality(good)
<1>10. n \in Nat /\ DOMAIN some = 1..n
  <2>1. some \in Seq(DOMAIN Table) /\ Len(some) = n
    BY <1>9
  <2> HIDE DEF n
  <2> QED
    BY <2>1
<1>11. InOrder(w, Table, Places(some, r))
  <2>1. g \in [1..n -> DOMAIN rows]
    BY <1>8, <1>9
  <2> HIDE DEF n
  <2>2. some \in Seq(DOMAIN Table) /\ some = [k \in 1..n |-> rows[g[k]]] /\ \A k, l \in 1..n : k < l => g[k] < g[l]
    BY <1>9 DEF n
  <2> QED
    BY <1>6, <1>10, <2>1, <2>2
<1>12. \A k \in 1..n : some[k] = rows[g[k]] /\ g[k] \in DOMAIN rows
  BY <1>8, <1>9
<1>13. \A k \in DOMAIN rows : Readable(Table, rows[k]) => rows[k] \in ToSet(some)
  <2> SUFFICES ASSUME NEW m \in DOMAIN rows, Readable(Table, rows[m]) PROVE rows[m] \in ToSet(some)
    OBVIOUS
  <2>1. PICK k \in 1..n : g[k] = m
    BY <1>8, <1>9
  <2>2. k \in DOMAIN some /\ some[k] = rows[m]
    BY <1>10, <1>12, <2>1
  <2> QED
    BY <2>2 DEF ToSet
<1>14. some \in Seq(Ids)
  <2>1. some \in Seq(DOMAIN Table) /\ DOMAIN Table \subseteq Ids
    BY <1>9, TheTable
  <2>2. \A k \in 1..Len(some) : some[k] \in Ids
    BY <2>1
  <2> QED
    BY <2>1, <2>2
<1> HIDE DEF n
<1>15. sent \in Seq(Ids) /\ Len(sent) \in Nat
  BY <1>2, <1>14, Added
<1>16. \A k, l \in DOMAIN sent : k < l /\ sent[k] = sent[l] => sent[k] \in w.touched
  <2> DEFINE places == Places(some, r)
  <2>1. /\ places \in Seq(Place) /\ Len(places) = Len(some)
        /\ \A k \in DOMAIN some : places[k].id = some[k]
    BY <1>2, <1>9, PlacesOfRows, ZenonT(40)
  <2> HIDE DEF places
  <2>2. InOrder(w, Table, places)
    BY <1>11 DEF places
  <2>3. Len(some) <= Len(places) /\ \A k \in DOMAIN some : some[k] = places[k].id
    BY <1>14, <2>1
  <2> QED
    BY <1>2, <1>3, <1>4, <1>14, <2>1, <2>2, <2>3, NothingAgain
<1>17. /\ seen \in Seq(Ids)
       /\ \A k \in DOMAIN seen : k \in DOMAIN sent /\ seen[k] = sent[k]
       /\ Len(sent) <= MaxExport => seen = sent
  BY <1>4, <1>15, Beginnings
<1>18. /\ \A k \in DOMAIN sent : \/ (k \in DOMAIN w.seen /\ sent[k] = w.seen[k])
                                 \/ (\E m \in DOMAIN rows : sent[k] = rows[m])
       /\ \A x : x \in ToSet(sent) <=> x \in ToSet(w.seen) \/ x \in ToSet(some)
  <2>1. w.seen \in Seq(Ids) /\ some \in Seq(Ids) /\ DOMAIN some = 1..n
    BY <1>2, <1>10, <1>14
  <2> DEFINE s == w.seen
  <2>2. s \in Seq(Ids) /\ some \in Seq(Ids) /\ sent = s \o some
    BY <2>1
  <2> HIDE DEF s, sent
  <2>3. /\ \A k \in DOMAIN sent : \/ (k \in DOMAIN s /\ sent[k] = s[k])
                                  \/ (k - Len(s) \in DOMAIN some /\ sent[k] = some[k - Len(s)])
        /\ \A x : x \in ToSet(sent) <=> x \in ToSet(s) \/ x \in ToSet(some)
    BY <2>2, Added
  <2> QED
    BY <1>12, <2>1, <2>3 DEF s
<1> HIDE DEF sent, seen
<1>19. \A k \in DOMAIN rows : at(rows[k]) \in Place /\ at(rows[k]).request = r
  <2>1. \A k \in DOMAIN rows : rows[k] \in DOMAIN Table
    BY <1>6
  <2> QED
    BY <1>2, <1>4, <2>1, PlacesAreTyped
<1>20. Len(rows) = Batch => Batch \in DOMAIN rows /\ cursor = at(rows[Batch]) /\ cursor \in Place
  <2> SUFFICES ASSUME Len(rows) = Batch PROVE Batch \in DOMAIN rows /\ cursor = at(rows[Batch])
    BY <1>19
  <2> QED
    BY <1>4, <1>5
<1>21. cursor \in Cursors /\ status \in {"failed", "done", "exporting"}
  BY <1>4, <1>5, <1>20 DEF Cursors
<1>22. /\ status = "exporting" => Len(rows) = Batch /\ Len(sent) <= MaxExport
       /\ status = "done" => Len(rows) < Batch /\ Len(sent) <= MaxExport
  BY <1>4, <1>5, <1>15
<1> HIDE DEF cursor, status
<1>23. /\ v \in Readers /\ v.at = status /\ v.scan = NoCursor /\ v.request = r
       /\ v.cursor = cursor /\ v.found = <<>> /\ v.seen = seen /\ v.owed = w.owed
       /\ v.touched = w.touched
  BY <1>2, <1>3, <1>17, <1>21 DEF Readers
<1> HIDE DEF v
<1>24. NoneTwice(v)
  BY <1>16, <1>17, <1>23 DEF NoneTwice
<1>25. Owing(v, Table)
  BY <1>1, <1>3, <1>23 DEF Owing
<1>26. ASSUME NEW i \in w.owed
       PROVE  \/ i \in ToSet(sent)
              \/ Len(rows) = Batch /\ Beyond(r, at(i), at(rows[Batch]))
  <2>1. Stands(r, Table, i) /\ Readable(Table, i) /\ i \in DOMAIN Table
    BY <1>1, <1>3 DEF Owing, Stands
  <2>2. CASE i \in ToSet(w.seen)
    BY <1>18, <2>2
  <2>3. CASE Ahead(r, w.cursor, at(i))
    BY <1>5, <1>13, <1>18, <1>20, <2>1, <2>3
  <2> QED
    BY <1>3, <2>2, <2>3 DEF Parted
<1>27. ASSUME status = "failed" PROVE Walk(v, Table)
  BY <1>2, <1>21, <1>23, <1>24, <1>25, <1>27 DEF Walk
<1>28. ASSUME status = "done" PROVE Walk(v, Table)
  <2>1. v.owed \subseteq ToSet(v.seen)
    BY <1>4, <1>5, <1>17, <1>22, <1>23, <1>26, <1>28
  <2> QED
    BY <1>2, <1>23, <1>24, <1>25, <1>28, <2>1 DEF Walk
<1>29. ASSUME status = "exporting" PROVE Walk(v, Table)
  <2>1. Len(rows) = Batch /\ seen = sent /\ Batch \in DOMAIN rows /\ cursor = at(rows[Batch])
        /\ cursor \in Place /\ cursor # NoCursor /\ cursor.request = r /\ Ahead(r, w.cursor, cursor)
    BY <1>5, <1>17, <1>19, <1>20, <1>22, <1>29, PlacesAreNumbers
  <2>2. \A i \in v.owed : i \in ToSet(v.seen) \/ Ahead(r, cursor, at(i))
    BY <1>23, <1>26, <2>1 DEF Ahead
  <2>3. ASSUME NEW k \in DOMAIN v.seen, v.seen[k] \notin v.touched
        PROVE  Stands(r, Table, v.seen[k]) /\ ~Beyond(r, at(v.seen[k]), cursor)
    <3> DEFINE x == v.seen[k]
               p == at(x)
    <3>1. CASE k \in DOMAIN w.seen /\ v.seen[k] = w.seen[k]
      <4>1. Stands(r, Table, x) /\ ~Ahead(r, w.cursor, p)
        BY <1>3, <1>23, <2>3, <3>1 DEF Parted
      <4>2. p \in Place /\ w.cursor \in Place /\ ~Beyond(r, p, w.cursor) /\ Beyond(r, cursor, w.cursor)
        BY <1>2, <1>4, <2>1, <4>1, PlacesAreTyped DEF Stands, Ahead, Cursors
      <4>3. Beyond(r, p, cursor) /\ Beyond(r, cursor, w.cursor) => Beyond(r, p, w.cursor)
        BY <2>1, <4>2, BeyondIsAnOrder
      <4> QED
        BY <4>1, <4>2, <4>3
    <3>2. CASE \E m \in DOMAIN rows : x = rows[m]
      <4>1. PICK m \in DOMAIN rows : x = rows[m]
        BY <3>2
      <4>2. Stands(r, Table, x) /\ p \in Place /\ p = at(rows[m])
        BY <1>5, <1>19, <4>1
      <4>3. m = Batch \/ m < Batch
        BY <1>4, <1>5, <2>1
      <4>4. ~Beyond(r, p, cursor)
        <5>1. CASE m = Batch
          BY <2>1, <4>2, <5>1, BeyondIsAnOrder
        <5>2. CASE m < Batch
          <6>1. Beyond(r, cursor, p)
            BY <1>5, <2>1, <4>2, <5>2
          <6>2. Beyond(r, p, cursor) /\ Beyond(r, cursor, p) => Beyond(r, p, p)
            BY <2>1, <4>2, BeyondIsAnOrder
          <6> QED
            BY <4>2, <6>1, <6>2, BeyondIsAnOrder
        <5> QED
          BY <4>3, <5>1, <5>2
      <4> QED
        BY <4>2, <4>4
    <3> QED
      BY <1>18, <1>23, <2>1, <3>1, <3>2
  <2>4. Parted(v, Table)
    BY <1>23, <2>1, <2>2, <2>3 DEF Parted, Ahead
  <2> QED
    BY <1>2, <1>23, <1>24, <1>25, <1>29, <2>4 DEF Walk
<1>30. Walk(v, Table) /\ v.at # "idle"
  BY <1>21, <1>23, <1>27, <1>28, <1>29
<1> QED
  BY <1>1, <1>23, <1>30, Walked

LEMMA OpenWalks ==
  ASSUME RecordsInv, WalkInv, NEW request \in Asked, NEW exports \in BOOLEAN, Open(request, exports)
  PROVE  WalkInv'
<1> DEFINE r == IF exports THEN ExportOf(request) ELSE request
           at == IF exports THEN "exporting" ELSE "paging"
           owed == {i \in DOMAIN Table :
                      /\ Fits(r, Table, i)
                      /\ r.keyword => i \in Naming
                      /\ exports \/ r.keyword => Readable(Table, i)}
           v == [Idle EXCEPT !.at = at, !.request = r, !.owed = owed]
<1>1. reader' = v /\ file' = file
  BY DEF Open
<1>2. request \in Requests
  BY RecordsAssumption
<1>3. r \in Requests
  <2>1. ExportOf(request) \in Requests
    BY <1>2 DEF ExportOf, Requests, Sorts, Directions
  <2> QED
    BY <1>2, <2>1
<1>4. owed \in SUBSET Ids /\ at \in {"exporting", "paging"} /\ (at = "exporting" <=> exports)
  BY TheTable
<1>5. \A i \in owed : /\ Stands(r, Table, i)
                      /\ r.keyword => i \in Naming
                      /\ r.keyword \/ at = "exporting" => Readable(Table, i)
  BY <1>4 DEF Stands
<1>6. Idle \in Readers
  BY DEF Idle, Readers, Cursors
<1> HIDE DEF r, at, owed
<1>7. /\ v \in Readers /\ v.at = at /\ v.request = r /\ v.owed = owed
      /\ v.cursor = Idle.cursor /\ v.scan = Idle.scan /\ v.found = Idle.found /\ v.seen = Idle.seen
      /\ v.touched = Idle.touched
  BY <1>3, <1>4, <1>6 DEF Readers
<1>8. Idle.cursor = NoCursor /\ Idle.scan = NoCursor /\ Idle.found = <<>> /\ Idle.seen = <<>> /\ Idle.touched = {}
  BY DEF Idle
<1> HIDE DEF v
<1>9. Owing(v, Table)
  BY <1>5, <1>7, <1>8 DEF Owing
<1>10. NoneTwice(v) /\ Parted(v, Table)
  BY <1>7, <1>8 DEF NoneTwice, Parted, Ahead
<1>11. Walk(v, Table) /\ v.at # "idle"
  BY <1>3, <1>4, <1>7, <1>8, <1>9, <1>10 DEF Walk
<1> QED
  BY <1>1, <1>7, <1>11, Walked

LEMMA CloseWalks == ASSUME Close PROVE WalkInv'
<1>1. reader' = Idle
  BY DEF Close, Read
<1>2. Idle \in Readers
  BY DEF Idle, Readers, Cursors
<1> QED
  BY <1>1, <1>2 DEF WalkInv

-----------------------------------------------------------------------------
(* The changes that the walk meets.                                        *)

\* What a change leaves where it was.
LEMMA StillStanding ==
  ASSUME NEW r, NEW before, NEW after, NEW i,
         Standing(r, before, i) = Standing(r, after, i), Stands(r, before, i)
  PROVE  /\ Stands(r, after, i) /\ CursorAt(r, after, i) = CursorAt(r, before, i)
         /\ Readable(before, i) => Readable(after, i)
<1>1. \A table : Stands(r, table, i) =>
        /\ Standing(r, table, i) = <<table[i][r.sort], Readable(table, i)>>
        /\ Standing(r, table, i)[1] = table[i][r.sort]
        /\ Standing(r, table, i)[2] = Readable(table, i)
        /\ Len(Standing(r, table, i)) = 2
  BY DEF Stands, Standing
<1>2. \A table : ~Stands(r, table, i) => Standing(r, table, i) = <<>> /\ Len(Standing(r, table, i)) = 0
  BY DEF Stands, Standing
<1>3. Stands(r, after, i)
  BY <1>1, <1>2
<1>4. before[i][r.sort] = after[i][r.sort] /\ Readable(before, i) = Readable(after, i)
  BY <1>1, <1>3
<1> QED
  BY <1>3, <1>4 DEF CursorAt

LEMMA Watching ==
  ASSUME RecordsInv, WalkInv, Watch(file'), file' # NoFile
  PROVE  WalkInv'
<1> DEFINE w == reader
           r == w.request
           moved == {i \in Ids : Standing(r, Table, i) # Standing(r, file'.rows, i)}
           owed == w.owed \ moved
           touched == w.touched \cup moved
           v == [w EXCEPT !.owed = owed, !.touched = touched]
           after == file'.rows
<1>1. Table' = after
  BY DEF Table
<1>2. CASE w.at = "idle"
  <2>1. reader' = Idle
    BY <1>2 DEF Watch, WalkInv, Walk
  <2>2. Idle \in Readers
    BY DEF Idle, Readers, Cursors
  <2> QED
    BY <2>1, <2>2 DEF WalkInv
<1>3. CASE w.at # "idle"
  <2>1. reader' = v
    BY <1>3 DEF Watch
  <2>2. /\ w \in Readers /\ Walk(w, Table) /\ r \in Requests
        /\ w.seen \in Seq(Ids) /\ w.owed \subseteq Ids /\ w.touched \subseteq Ids /\ w.found \in Seq(Place)
    BY <1>3, Walking DEF Readers
  <2>3. owed \in SUBSET Ids /\ touched \in SUBSET Ids
    BY <2>2
  <2>4. \A i \in Ids : i \notin touched => Standing(r, Table, i) = Standing(r, after, i)
    OBVIOUS
  <2>5. \A i \in Ids : i \notin touched => i \notin w.touched
    OBVIOUS
  <2> HIDE DEF owed, touched, after
  <2>6. /\ v \in Readers /\ v.owed = owed /\ v.touched = touched
        /\ v.at = w.at /\ v.request = r /\ v.cursor = w.cursor /\ v.scan = w.scan
        /\ v.found = w.found /\ v.seen = w.seen
    BY <2>2, <2>3 DEF Readers
  <2> HIDE DEF v
  <2>7. ASSUME NEW i \in Ids, Stands(r, Table, i), i \notin touched
        PROVE  /\ Stands(r, after, i) /\ CursorAt(r, after, i) = CursorAt(r, Table, i)
               /\ Readable(Table, i) => Readable(after, i)
    BY <2>4, <2>7, StillStanding
  <2>8. \A i \in owed : /\ i \in w.owed /\ i \in Ids /\ i \notin touched /\ Stands(r, Table, i)
                        /\ r.keyword => i \in Naming
                        /\ r.keyword \/ w.at = "exporting" => Readable(Table, i)
    BY <2>2 DEF Walk, Owing, owed, touched
  <2>9. Owing(v, after)
    BY <2>6, <2>7, <2>8 DEF Owing
  <2>10. NoneTwice(v)
    <3>1. \A k \in DOMAIN w.seen : w.seen[k] \in w.touched => w.seen[k] \in touched
      BY DEF touched
    <3> QED
      BY <2>2, <2>6, <3>1 DEF Walk, NoneTwice
  <2>11. ASSUME Parted(w, Table) PROVE Parted(v, after)
    <3>1. \A i \in owed : i \in ToSet(w.seen) \/ Ahead(r, w.cursor, CursorAt(r, after, i))
      BY <2>7, <2>8, <2>11 DEF Parted
    <3>2. ASSUME NEW k \in DOMAIN w.seen, w.seen[k] \notin touched
          PROVE  Stands(r, after, w.seen[k]) /\ ~Ahead(r, w.cursor, CursorAt(r, after, w.seen[k]))
      <4>1. w.seen[k] \in Ids /\ w.seen[k] \notin w.touched
        BY <2>2, <2>5, <3>2
      <4>2. Stands(r, Table, w.seen[k]) /\ ~Ahead(r, w.cursor, CursorAt(r, Table, w.seen[k]))
        BY <2>11, <4>1 DEF Parted
      <4> QED
        BY <2>7, <3>2, <4>1, <4>2
    <3>3. w.cursor # NoCursor => w.cursor.request = r
      BY <2>11 DEF Parted
    <3> QED
      BY <2>6, <3>1, <3>2, <3>3 DEF Parted
  <2>12. ASSUME Searched(w, Table) PROVE Searched(v, after)
    <3>1. InOrder(v, after, w.found)
      <4>1. ASSUME NEW k \in DOMAIN w.found, w.found[k].id \notin touched
            PROVE  StandsAt(r, after, w.found[k])
        <5>1. w.found[k].id \in Ids
          <6>1. w.found[k] \in Place
            BY <2>2
          <6> QED
            BY <6>1 DEF Place
        <5>2. w.found[k].id \notin w.touched
          BY <2>5, <4>1, <5>1
        <5>3. StandsAt(r, Table, w.found[k])
          BY <2>12, <5>2 DEF Searched, InOrder
        <5> QED
          BY <2>7, <4>1, <5>1, <5>3 DEF StandsAt
      <4>2. InOrder(w, Table, w.found)
        BY <2>12 DEF Searched
      <4> QED
        BY <2>6, <4>1, <4>2 DEF InOrder
    <3>2. \A i \in owed : \/ i \in ToSet(w.seen)
                          \/ \E k \in DOMAIN w.found : w.found[k].id = i
                          \/ Ahead(r, w.scan, CursorAt(r, after, i))
      BY <2>7, <2>8, <2>12 DEF Searched
    <3> QED
      BY <2>6, <2>12, <3>1, <3>2 DEF Searched
  <2>13. w.at = "done" => owed \subseteq ToSet(w.seen)
    BY <2>2, <2>8 DEF Walk
  <2>14. Walk(v, after)
    BY <2>2, <2>6, <2>9, <2>10, <2>11, <2>12, <2>13 DEF Walk
  <2> QED
    BY <1>1, <1>3, <2>1, <2>6, <2>14 DEF WalkInv
<1> QED
  BY <1>2, <1>3

\* Every change opens a database, or makes one.
LEMMA ChangesLeaveAFile ==
  ASSUME RecordsInv,
         \/ \E i \in Ids : Save(i) \/ Delete(i) \/ Damage(i) \/ \E rating \in 0..2 : Rate(i, rating)
         \/ Clear \/ Repair \/ \E k \in DOMAIN backups : Restore(k)
  PROVE  Watch(file') /\ file' # NoFile
<1>1. ASSUME NEW i \in Ids, Save(i) PROVE Watch(file') /\ file' # NoFile
  BY <1>1, SaveLeavesAFile DEF Save
<1>2. ASSUME NEW i \in Ids, Delete(i) PROVE Watch(file') /\ file' # NoFile
  <2>1. Sound(file) /\ i \in DOMAIN file.rows
    BY <1>2, RowsHaveAFile DEF Delete
  <2>2. file' = file \/ Sound(file')
    BY <1>2, <2>1, DeletedIsSound DEF Delete
  <2> QED
    BY <1>2, <2>1, <2>2, SoundIsAFile DEF Delete
<1>3. ASSUME NEW i \in Ids, Damage(i) PROVE Watch(file') /\ file' # NoFile
  <2>1. Sound(file) /\ i \in DOMAIN file.rows /\ Table = file.rows
    BY <1>3, RowsHaveAFile DEF Damage
  <2>2. PICK other \in {Garbage} \cup (DOMAIN Table \ {i}) : file' = [file EXCEPT !.rows[i].sealed = other]
    BY <1>3 DEF Damage
  <2>3. other \in Ids \cup {Garbage}
    BY <2>1, FilesAreTyped
  <2>4. Sound(file')
    BY <2>1, <2>2, <2>3, DamagedIsSound
  <2> QED
    BY <1>3, <2>4, SoundIsAFile DEF Damage
<1>4. ASSUME NEW i \in Ids, NEW rating \in 0..2, Rate(i, rating) PROVE Watch(file') /\ file' # NoFile
  <2>1. Sound(file) /\ i \in DOMAIN file.rows
    BY <1>4, RowsHaveAFile DEF Rate
  <2>2. Sound(file')
    BY <1>4, <2>1, RatedIsSound DEF Rate
  <2> QED
    BY <1>4, <2>2, SoundIsAFile DEF Rate
<1>5. CASE Clear
  <2>1. Sound(file)
    BY <1>5, RowsHaveAFile DEF Clear
  <2>2. Sound(file')
    BY <1>5, <2>1, ClearedIsSound DEF Clear
  <2> QED
    BY <1>5, <2>2, SoundIsAFile DEF Clear
<1>6. CASE Repair
  <2>1. file # NoFile /\ Sound(file) /\ (file' = file \/ file' = Mended(file))
    BY <1>6 DEF Repair, RecordsInv
  <2>2. file' # NoFile
    BY <2>1, MendedIsSound, SoundIsAFile
  <2> QED
    BY <1>6, <2>2 DEF Repair
<1>7. ASSUME NEW k \in DOMAIN backups, Restore(k) PROVE Watch(file') /\ file' # NoFile
  <2>1. file # NoFile /\ Sound(backups[k].file) /\ (file' = file \/ file' = PutInPlace(backups[k].file))
    BY <1>7 DEF Restore, RecordsInv
  <2>2. file' # NoFile
    BY <2>1, RestoredIsSound, SoundIsAFile
  <2> QED
    BY <1>7, <2>2 DEF Restore
<1> QED
  BY <1>1, <1>2, <1>3, <1>4, <1>5, <1>6, <1>7

LEMMA WalkInit == Init => WalkInv
<1>1. Init => reader = Idle
  BY DEF Init
<1>2. Idle \in Readers
  BY DEF Idle, Readers, Cursors
<1> QED
  BY <1>1, <1>2 DEF WalkInv

LEMMA WalkStep == RecordsInv /\ WalkInv /\ [Next]_vars => WalkInv'
<1> SUFFICES ASSUME RecordsInv, WalkInv, [Next]_vars PROVE WalkInv'
  OBVIOUS
<1>1. CASE \/ \E i \in Ids : Save(i) \/ Delete(i) \/ Damage(i) \/ \E rating \in 0..2 : Rate(i, rating)
           \/ Clear \/ Repair \/ \E k \in DOMAIN backups : Restore(k)
  BY <1>1, ChangesLeaveAFile, Watching
<1>2. ASSUME NEW r \in Asked, NextPage(r) \/ StartSearch(r) \/ Open(r, FALSE) \/ Open(r, TRUE) PROVE WalkInv'
  <2>1. \A exports \in BOOLEAN : Open(r, exports) => WalkInv'
    BY OpenWalks
  <2> QED
    BY <1>2, <2>1, NextPageWalks, StartSearchWalks
<1>3. CASE SearchBatch
  BY <1>3, SearchBatchWalks
<1>4. CASE SearchFails
  BY <1>4, SearchFailsWalks
<1>5. CASE ExportBatch
  BY <1>5, ExportBatchWalks
<1>6. CASE Close
  BY <1>6, CloseWalks
<1>7. CASE NextDay \/ UNCHANGED vars
  <2>1. file' = file /\ reader' = reader
    BY <1>7 DEF NextDay, vars
  <2>2. Table' = Table
    BY <2>1 DEF Table
  <2> QED
    BY <2>1, <2>2 DEF WalkInv
<1> QED
  BY <1>1, <1>2, <1>3, <1>4, <1>5, <1>6, <1>7 DEF Next

-----------------------------------------------------------------------------
(* What a database and its backups hold is well typed, finite and counted,  *)
(* through every save, change, repair and restore (repository.py).          *)
THEOREM RecordsInvariant == Spec => []RecordsInv
BY RecordsInit, RecordsStep, PTL DEF Spec

(* The count on the books is the number of the rows, whatever saved,        *)
(* removed, set apart or brought back records (_increment_meta_integer,     *)
(* _set_meta_integer, _ensure_retention_metadata).                          *)
THEOREM TheCountIsTrue == Spec => []CountIsTrue
<1>1. RecordsInv => CountIsTrue
  BY DEF RecordsInv, Sound, CountIsTrue
<1> QED
  BY <1>1, RecordsInvariant, PTL

(* A save removes the oldest records only, never its own, and not one while *)
(* an older one stays; it keeps the history within max_records, and what it *)
(* leaves of an age check is on the books (_apply_retention).               *)
THEOREM SavesKeepToThePolicy == Spec => RetentionHolds
<1>1. RecordsInv /\ [Next]_vars =>
        [\A i \in Ids : Save(i) =>
           /\ \A gone \in DOMAIN Table \ DOMAIN file'.rows, kept \in DOMAIN file'.rows \ {i} :
                \/ CreatedAt[gone] < CreatedAt[kept]
                \/ CreatedAt[gone] = CreatedAt[kept] /\ gone < kept
           /\ i \notin DOMAIN Table /\ i \in DOMAIN file'.rows =>
                /\ Cardinality(DOMAIN file'.rows) <= Max({MaxRecords, Cardinality(DOMAIN Table)})
                /\ Attentive(Inserted(Migrated(file), i)) =>
                     \/ file'.pending = 1
                     \/ \A j \in DOMAIN file'.rows \ {i} : ~Expired(file'.rows, j)]_vars
  BY SaveHoldsRetention
<1> QED
  BY <1>1, RecordsInvariant, PTL DEF Spec, RetentionHolds

(* A restore that replaces an intact database leaves a backup of it, which  *)
(* the pruning of the backups spares (restore, _prune_backups).             *)
THEOREM RestoresCanBeUndone == Spec => RestoreCanBeUndone
<1>1. ASSUME RecordsInv, NEW k \in DOMAIN backups, Restore(k), file' # file, Intact(file)
      PROVE  \E b \in DOMAIN backups' : backups'[b].file = file
  <2>1. backups' = Backup(backups) /\ file # NoFile
    BY <1>1 DEF Restore, RecordsInv
  <2> QED
    BY <1>1, <2>1, BackingUp
<1>2. RecordsInv /\ [Next]_vars =>
        [\A k \in DOMAIN backups : Restore(k) /\ file' # file /\ Intact(file) =>
           \E b \in DOMAIN backups' : backups'[b].file = file]_vars
  BY <1>1
<1> QED
  BY <1>2, RecordsInvariant, PTL DEF Spec, RestoreCanBeUndone

(* A walk by pages, a search and an export give out every record that was   *)
(* there from the first call to the last and did not change its place, and  *)
(* none of those twice, whatever was saved, rated, removed or restored      *)
(* between the calls, for any requests and sizes of a page or a batch       *)
(* (_cursor_clause, _select_rows, _search, _page, stream_records).          *)
THEOREM WalksGiveEachOnce == Spec => []EachOnce
<1>1. WalkInv => EachOnce
  <2> SUFFICES ASSUME WalkInv PROVE EachOnce
    OBVIOUS
  <2>1. CASE reader = Idle
    BY <2>1 DEF Idle, EachOnce
  <2>2. CASE reader # Idle
    BY <2>2 DEF WalkInv, Walk, NoneTwice, EachOnce
  <2> QED
    BY <2>1, <2>2
<1> QED
  BY <1>1, RecordsInvariant, WalkInit, WalkStep, PTL DEF Spec
================================================================================
