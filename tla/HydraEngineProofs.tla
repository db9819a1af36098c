------------------------- MODULE HydraEngineProofs -------------------------
(***************************************************************************)
(* Proofs about HYDRA's storage engine.                                    *)
(***************************************************************************)
EXTENDS HydraEngine, FiniteSetTheorems, SequenceTheorems, WellFoundedInduction, TLAPS

Byte == 0 .. Base - 1
Text == Seq(Byte)
Record == Text \X Text
Map == UNION {[D -> Text] : D \in SUBSET Text}

\* A non-empty set of numbers has a least member.
LEMMA LeastExists ==
    ASSUME NEW S, S \subseteq Nat, S # {}
    PROVE  \E i \in S : \A k \in S : i <= k
<1>1. \E R : IsWellFoundedOn(R, Nat) /\ \A i, k \in Nat : k < i => <<k, i>> \in R
  <2>1. \A i, k \in Nat : k < i => <<k, i>> \in OpToRel(<, Nat)
    BY DEF OpToRel
  <2>2. QED
    BY <2>1, NatLessThanWellFounded, Zenon
<1>2. PICK R : IsWellFoundedOn(R, Nat) /\ \A i, k \in Nat : k < i => <<k, i>> \in R
  BY <1>1
<1>3. PICK i \in S : \A k \in S : ~ (<<k, i>> \in R)
  BY <1>2, WFMin
<1>4. \A k \in S : i \in Nat /\ k \in Nat /\ ~ (k < i)
  BY <1>2, <1>3
<1>5. QED
  BY <1>4

\* Induction over 0 .. n for a set of numbers.
LEMMA UpTo ==
    ASSUME NEW n \in Nat, NEW S, 0 \in S, \A i \in 0 .. n : i > 0 /\ i - 1 \in S => i \in S
    PROVE  \A i \in 0 .. n : i \in S
<1> DEFINE Bad == {i \in 0 .. n : i \notin S}
<1>1. SUFFICES ASSUME Bad # {} PROVE FALSE
  OBVIOUS
<1>2. PICK i \in Bad : \A k \in Bad : i <= k
  <2>1. Bad \subseteq Nat
    OBVIOUS
  <2>2. QED
    BY <1>1, <2>1, LeastExists
<1>3. i \in 0 .. n /\ i \notin S /\ i # 0
  OBVIOUS
<1>4. i - 1 \in 0 .. n /\ i - 1 \notin Bad
  <2>1. i - 1 \in 0 .. n /\ ~ (i <= i - 1)
    BY <1>3
  <2> HIDE DEF Bad
  <2>2. QED
    BY <1>2, <2>1
<1>5. QED
  BY <1>3, <1>4

\* Every key and value is a text, short enough for its length to be written.
LEMMA Texts ==
    /\ Base \in Nat /\ Base > 1
    /\ \A s \in Keys \cup Values : s \in Text /\ Len(s) \in Nat /\ Len(s) < Base * Base
    /\ \A k \in Keys, v \in Values : <<k, v>> \in Record
BY EngineAssumption DEF Text, Byte, Record

-----------------------------------------------------------------------------
(* The memtable: what insert and put do to the bytes of a map.             *)

\* A map is a function from texts to texts.
LEMMA MapType ==
    ASSUME NEW m \in Map
    PROVE  /\ DOMAIN m \subseteq Text
           /\ \A k \in DOMAIN m : m[k] \in Text
BY DEF Map

LEMMA EmptyMap == empty.map \in Map /\ DOMAIN empty.map = {}
<1>1. empty.map = <<>>
  BY DEF empty
<1>2. <<>> \in [{} -> Text] /\ DOMAIN <<>> = {}
  OBVIOUS
<1>3. QED
  BY <1>1, <1>2 DEF Map

LEMMA InsertType ==
    ASSUME NEW m \in Map, NEW r \in Record
    PROVE  /\ insert(m, r) \in Map
           /\ DOMAIN insert(m, r) = DOMAIN m \cup {r[1]}
           /\ insert(m, r)[r[1]] = r[2]
           /\ \A k \in DOMAIN m : k # r[1] => insert(m, r)[k] = m[k]
<1>1. r[1] \in Text /\ r[2] \in Text
  BY DEF Record
<1>2. insert(m, r) \in [DOMAIN m \cup {r[1]} -> Text]
  BY <1>1, MapType DEF insert
<1>3. DOMAIN m \cup {r[1]} \in SUBSET Text
  BY <1>1, MapType
<1>4. insert(m, r) \in Map
  BY <1>2, <1>3 DEF Map
<1>5. QED
  BY <1>4 DEF insert

\* The bytes of one entry of a map.
Entry(k, v) == {<<k, "key", i>> : i \in DOMAIN k} \cup {<<k, "value", i>> : i \in DOMAIN v}

LEMMA Places ==
    ASSUME NEW k, NEW w, NEW n \in Nat, NEW T, \A t : t \in T <=> \E i \in 1 .. n : t = <<k, w, i>>
    PROVE  IsFiniteSet(T) /\ Cardinality(T) = n
<1> DEFINE f == [i \in 1 .. n |-> <<k, w, i>>]
<1>1. f \in Bijection(1 .. n, T)
  <2>1. f \in [1 .. n -> T] /\ \A i, j \in 1 .. n : f[i] = f[j] => i = j
    OBVIOUS
  <2>2. \A t \in T : \E i \in 1 .. n : f[i] = t
    OBVIOUS
  <2>3. QED
    BY <2>1, <2>2 DEF Bijection, Injection, Surjection, IsInjective
<1>2. ExistsBijection(1 .. n, T)
  BY <1>1 DEF ExistsBijection
<1>3. IsFiniteSet(1 .. n) /\ Cardinality(1 .. n) = n
  <2>1. /\ IsFiniteSet(1 .. n)
        /\ Cardinality(1 .. n) = IF 1 > n THEN 0 ELSE n - 1 + 1
    BY FS_Interval
  <2>2. QED
    BY <2>1
<1>4. QED
  BY <1>2, <1>3, FS_Bijection

LEMMA EntrySize ==
    ASSUME NEW k \in Text, NEW v \in Text
    PROVE  IsFiniteSet(Entry(k, v)) /\ Cardinality(Entry(k, v)) = Len(k) + Len(v)
<1> DEFINE A == {<<k, "key", i>> : i \in DOMAIN k}
           B == {<<k, "value", i>> : i \in DOMAIN v}
<1>1. DOMAIN k = 1 .. Len(k) /\ DOMAIN v = 1 .. Len(v) /\ Len(k) \in Nat /\ Len(v) \in Nat
  BY DEF Text

<1>2. IsFiniteSet(A) /\ Cardinality(A) = Len(k)
  <2>1. \A t : t \in A <=> \E i \in 1 .. Len(k) : t = <<k, "key", i>>
    BY <1>1
  <2> HIDE DEF A
  <2>2. QED
    BY <1>1, <2>1, Places
<1>3. IsFiniteSet(B) /\ Cardinality(B) = Len(v)
  <2>1. \A t : t \in B <=> \E i \in 1 .. Len(v) : t = <<k, "value", i>>
    BY <1>1
  <2> HIDE DEF B
  <2>2. QED
    BY <1>1, <2>1, Places
<1>4. A \cap B = {}
  OBVIOUS
<1> HIDE DEF A, B
<1>5. Cardinality(A \cap B) = 0
  BY <1>4, FS_EmptySet
<1>6. IsFiniteSet(A \cup B) /\ Cardinality(A \cup B) = Len(k) + Len(v)
  <2>1. /\ IsFiniteSet(A \cup B)
        /\ Cardinality(A \cup B) = Cardinality(A) + Cardinality(B) - Cardinality(A \cap B)
    BY <1>2, <1>3, FS_Union
  <2>2. QED
    BY <1>1, <1>2, <1>3, <1>5, <2>1
<1>7. QED
  BY <1>6 DEF Entry, A, B

\* The bytes of a map are those of its entries, and entries share none.
LEMMA BytesOf ==
    ASSUME NEW m \in Map
    PROVE  \A b : b \in Bytes(m) <=> \E k \in DOMAIN m : b \in Entry(k, m[k])
BY DEF Bytes, Entry

LEMMA EntryKey ==
    ASSUME NEW k, NEW v, NEW b \in Entry(k, v)
    PROVE  b[1] = k
BY DEF Entry

SizeOf(m) == IsFiniteSet(Bytes(m.map)) /\ m.size = Cardinality(Bytes(m.map))

LEMMA EmptySize == SizeOf(empty)
<1>1. Bytes(empty.map) = {}
  BY EmptyMap, BytesOf
<1>2. empty.size = 0
  BY DEF empty
<1>3. QED
  BY <1>1, <1>2, FS_EmptySet DEF SizeOf

LEMMA Overwriting ==
    ASSUME NEW s \in Nat, NEW a \in Nat, NEW b \in Nat, NEW c \in Nat, NEW n, NEW x, NEW y,
           n = x + y - 0, x = s - (a + b), y = a + c
    PROVE  n = s + c - b
OBVIOUS

\* MemTable::put keeps the size exact: the old value leaves it.
LEMMA PutSize ==
    ASSUME NEW m, m.map \in Map, SizeOf(m), NEW r \in Record
    PROVE  memtable_put(m, r).map = insert(m.map, r) /\ SizeOf(memtable_put(m, r))
<1> DEFINE map == m.map
           after == insert(map, r)
           k == r[1]
           new == Entry(k, r[2])
<1>1. k \in Text /\ r[2] \in Text /\ map \in Map
  BY DEF Record
<1>2. /\ after \in Map /\ DOMAIN after = DOMAIN map \cup {k} /\ after[k] = r[2]
      /\ \A x \in DOMAIN map : x # k => after[x] = map[x]
  BY InsertType
<1>3. IsFiniteSet(new) /\ Cardinality(new) = Len(k) + Len(r[2])
      /\ Len(k) \in Nat /\ Len(r[2]) \in Nat
  <2>1. IsFiniteSet(new) /\ Cardinality(new) = Len(k) + Len(r[2])
    BY <1>1, EntrySize
  <2>2. Len(k) \in Nat /\ Len(r[2]) \in Nat
    BY <1>1 DEF Text
  <2>3. QED
    BY <2>1, <2>2
<1>4. /\ memtable_put(m, r).map = after
      /\ memtable_put(m, r).size = m.size + Len(r[2])
             + IF k \in DOMAIN map THEN - Len(map[k]) ELSE Len(k)
  BY DEF memtable_put
<1>5. IsFiniteSet(Bytes(map)) /\ m.size = Cardinality(Bytes(map)) /\ m.size \in Nat
  BY FS_CardinalityType DEF SizeOf
<1> HIDE DEF map, after, k, new
<1>6. CASE k \in DOMAIN map
  <2> DEFINE old == Entry(k, map[k])
             rest == Bytes(map) \ old
  <2>1. map[k] \in Text /\ Len(map[k]) \in Nat
    BY <1>1, <1>6, MapType DEF Text
  <2>2. IsFiniteSet(old) /\ Cardinality(old) = Len(k) + Len(map[k])
    BY <1>1, <2>1, EntrySize
  <2>3. old \subseteq Bytes(map)
    BY <1>1, <1>6, BytesOf
  <2>4. \A b : b \in rest <=> \E x \in DOMAIN map : x # k /\ b \in Entry(x, map[x])
    BY <1>1, BytesOf, EntryKey
  <2>5. Bytes(after) = rest \cup new
    <3>1. \A b : b \in Bytes(after) <=> b \in new \/ \E x \in DOMAIN map : x # k /\ b \in Entry(x, map[x])
      BY <1>2, BytesOf DEF new
    <3> HIDE DEF rest
    <3>2. \A b : b \in Bytes(after) <=> b \in rest \/ b \in new
      BY <2>4, <3>1
    <3>3. QED
      BY <3>2
  <2>6. rest \cap new = {}
    BY <2>4, EntryKey DEF new
  <2> HIDE DEF old
  <2>7. IsFiniteSet(rest) /\ Cardinality(rest) = m.size - (Len(k) + Len(map[k]))
    <3>1. Bytes(map) \cap old = old
      BY <2>3
    <3>2. IsFiniteSet(rest) /\ Cardinality(rest) = Cardinality(Bytes(map)) - Cardinality(old)
      <4>1. /\ IsFiniteSet(Bytes(map) \ old)
            /\ Cardinality(Bytes(map) \ old) = Cardinality(Bytes(map)) - Cardinality(Bytes(map) \cap old)
        BY <1>5, FS_Difference, Zenon
      <4>2. QED
        BY <3>1, <4>1, Zenon
    <3>3. QED
      BY <1>5, <2>2, <3>2
  <2> HIDE DEF rest
  <2>8. IsFiniteSet(rest \cup new) /\ Cardinality(rest \cup new) = Cardinality(rest) + Cardinality(new) - Cardinality(rest \cap new)
    BY <1>3, <2>7, FS_Union
  <2>9. Cardinality(rest \cap new) = 0
    BY <2>6, FS_EmptySet
  <2>10. Cardinality(Bytes(after)) = m.size + Len(r[2]) - Len(map[k])
    <3>1. Cardinality(Bytes(after)) = Cardinality(rest) + Cardinality(new) - 0
      BY <2>5, <2>8, <2>9
    <3>2. Cardinality(rest) = m.size - (Len(k) + Len(map[k]))
      BY <2>7
    <3>3. Cardinality(new) = Len(k) + Len(r[2])
      BY <1>3
    <3>4. m.size \in Nat /\ Len(k) \in Nat /\ Len(map[k]) \in Nat /\ Len(r[2]) \in Nat
      BY <1>3, <1>5, <2>1
    <3>5. PICK s \in Nat : s = m.size
      BY <3>4
    <3>6. PICK a \in Nat : a = Len(k)
      BY <3>4
    <3>7. PICK b \in Nat : b = Len(map[k])
      BY <3>4
    <3>8. PICK c \in Nat : c = Len(r[2])
      BY <3>4
    <3>9. PICK x : x = Cardinality(rest)
      OBVIOUS
    <3>10. PICK y : y = Cardinality(new)
      OBVIOUS
    <3>11. PICK n : n = Cardinality(Bytes(after))
      OBVIOUS
    <3>12. n = x + y - 0
      BY <3>1, <3>9, <3>10, <3>11
    <3>13. x = s - (a + b)
      BY <3>2, <3>5, <3>6, <3>7, <3>9
    <3>14. y = a + c
      BY <3>3, <3>6, <3>8, <3>10
    <3>15. n = s + c - b
      BY <3>12, <3>13, <3>14
    <3>16. QED
      BY <3>15, <3>11, <3>5, <3>8, <3>7
  <2>11. memtable_put(m, r).size = Cardinality(Bytes(after))
    BY <1>3, <1>4, <1>5, <1>6, <2>1, <2>10
  <2>12. QED
    BY <1>4, <2>5, <2>8, <2>11 DEF SizeOf, after, map
<1>7. CASE k \notin DOMAIN map
  <2>1. \A b : b \in Bytes(map) <=> \E x \in DOMAIN map : x # k /\ b \in Entry(x, map[x])
    BY <1>1, <1>7, BytesOf
  <2>2. Bytes(after) = Bytes(map) \cup new
    <3>1. \A b : b \in Bytes(after) <=> b \in new \/ \E x \in DOMAIN map : x # k /\ b \in Entry(x, map[x])
      BY <1>2, BytesOf DEF new
    <3>2. \A b : b \in Bytes(after) <=> b \in Bytes(map) \/ b \in new
      BY <2>1, <3>1
    <3>3. QED
      BY <3>2
  <2>3. Bytes(map) \cap new = {}
    BY <2>1, EntryKey DEF new
  <2>4. /\ IsFiniteSet(Bytes(map) \cup new)
        /\ Cardinality(Bytes(map) \cup new) = Cardinality(Bytes(map)) + Cardinality(new) - Cardinality(Bytes(map) \cap new)
    BY <1>3, <1>5, FS_Union
  <2>5. Cardinality(Bytes(map) \cap new) = 0
    BY <2>3, FS_EmptySet
  <2>6. Cardinality(Bytes(after)) = m.size + Len(r[2]) + Len(k)
    BY <1>3, <1>5, <2>2, <2>4, <2>5
  <2>7. memtable_put(m, r).size = Cardinality(Bytes(after))
    BY <1>3, <1>4, <1>5, <1>7, <2>6
  <2>8. QED
    BY <1>4, <2>2, <2>4, <2>7 DEF SizeOf, after, map
<1>8. QED
  BY <1>6, <1>7


-----------------------------------------------------------------------------
(* Replaying records: the memtable holds the last value of every key.      *)

\* The recursive definition of replaying has a solution of any length.
LEMMA ReplayingUpTo ==
    ASSUME NEW s, NEW n \in Nat
    PROVE  \E f : f = [i \in 0 .. n |-> IF i = 0 THEN empty ELSE memtable_put(f[i - 1], s[i])]
<1> DEFINE Solves(f, j) == f = [i \in 0 .. j |-> IF i = 0 THEN empty ELSE memtable_put(f[i - 1], s[i])]
           S == {j \in Nat : \E f : Solves(f, j)}
<1>1. 0 \in S
  <2>1. Solves([i \in 0 .. 0 |-> empty], 0)
    OBVIOUS
  <2>2. QED
    BY <2>1
<1>2. ASSUME NEW j \in 0 .. n, j > 0, j - 1 \in S
      PROVE  j \in S
  <2>1. PICK f : Solves(f, j - 1)
    BY <1>2
  <2> DEFINE g == [i \in 0 .. j |-> IF i = j THEN memtable_put(f[j - 1], s[j]) ELSE f[i]]
  <2>2. \A i \in 0 .. j : g[i] = IF i = 0 THEN empty ELSE memtable_put(g[i - 1], s[i])
    BY <1>2, <2>1
  <2>3. Solves(g, j)
    BY <2>2
  <2> HIDE DEF Solves, g
  <2>4. \E f0 : Solves(f0, j)
    BY <2>3
  <2>5. QED
    BY <2>4, <1>2
<1>3. n \in S
  <2> HIDE DEF S
  <2>1. n \in 0 .. n
    OBVIOUS
  <2>2. QED
    BY <1>1, <1>2, <2>1, UpTo
<1>4. QED
  BY <1>3

LEMMA Replaying ==
    ASSUME NEW s \in Seq(Record)
    PROVE  /\ replaying(s)[0] = empty
           /\ \A i \in 1 .. Len(s) : replaying(s)[i] = memtable_put(replaying(s)[i - 1], s[i])
<1>1. Len(s) \in Nat
  OBVIOUS
<1> DEFINE P(m) == m = [i \in 0 .. Len(s) |-> IF i = 0 THEN empty ELSE memtable_put(m[i - 1], s[i])]
<1>2. \E m : P(m)
  BY <1>1, ReplayingUpTo
<1>3. replaying(s) = CHOOSE m : P(m)
  BY DEF replaying
<1>4. P(replaying(s))
  BY <1>2, <1>3, Zenon
<1>5. \A i \in 0 .. Len(s) :
        replaying(s)[i] = IF i = 0 THEN empty ELSE memtable_put(replaying(s)[i - 1], s[i])
  BY <1>4
<1>6. QED
  BY <1>1, <1>5

\* A map holds exactly the last values of the keys of the first n records.
Holds(map, s, n) ==
    /\ \A k : k \in DOMAIN map <=> \E j \in 1 .. n : s[j][1] = k
    /\ \A j \in 1 .. n : (\A l \in (j + 1) .. n : s[l][1] # s[j][1]) => map[s[j][1]] = s[j][2]

LEMMA ReplayHolds ==
    ASSUME NEW s \in Seq(Record)
    PROVE  \A i \in 0 .. Len(s) :
             LET m == replaying(s)[i]
             IN  m.map \in Map /\ SizeOf(m) /\ Holds(m.map, s, i)
<1> DEFINE m(i) == replaying(s)[i]
           S == {i \in 0 .. Len(s) : m(i).map \in Map /\ SizeOf(m(i)) /\ Holds(m(i).map, s, i)}
<1>1. Len(s) \in Nat /\ \A i \in 1 .. Len(s) : s[i] \in Record
  OBVIOUS
<1>2. 0 \in S
  <2>1. m(0) = empty
    BY Replaying
  <2>2. Holds(empty.map, s, 0)
    BY EmptyMap DEF Holds
  <2>3. QED
    BY <1>1, <2>1, <2>2, EmptyMap, EmptySize
<1>3. ASSUME NEW i \in 0 .. Len(s), i > 0, i - 1 \in S
      PROVE  i \in S
  <2>1. m(i) = memtable_put(m(i - 1), s[i]) /\ s[i] \in Record /\ i \in Nat /\ i - 1 \in Nat
    BY <1>1, <1>3, Replaying
  <2>2. /\ m(i - 1).map \in Map /\ SizeOf(m(i - 1)) /\ Holds(m(i - 1).map, s, i - 1)
    BY <1>3
  <2> HIDE DEF m
  <2>3. m(i).map = insert(m(i - 1).map, s[i]) /\ SizeOf(m(i))
    BY <2>1, <2>2, PutSize
  <2>4. /\ m(i).map \in Map /\ DOMAIN m(i).map = DOMAIN m(i - 1).map \cup {s[i][1]}
        /\ m(i).map[s[i][1]] = s[i][2]
        /\ \A k \in DOMAIN m(i - 1).map : k # s[i][1] => m(i).map[k] = m(i - 1).map[k]
    <3> DEFINE a == m(i - 1).map
               r == s[i]
    <3>1. a \in Map /\ r \in Record
      BY <2>1, <2>2
    <3> HIDE DEF a, r
    <3>2. /\ insert(a, r) \in Map /\ DOMAIN insert(a, r) = DOMAIN a \cup {r[1]}
          /\ insert(a, r)[r[1]] = r[2]
          /\ \A k \in DOMAIN a : k # r[1] => insert(a, r)[k] = a[k]
      BY <3>1, InsertType
    <3>3. m(i).map = insert(a, r)
      BY <2>3 DEF a, r
    <3>4. QED
      BY <3>2, <3>3, Zenon DEF a, r
  <2>5. Holds(m(i).map, s, i)
    <3>1. 1 .. i = (1 .. (i - 1)) \cup {i}
      BY <2>1, <1>3
    <3>2. \A k : k \in DOMAIN m(i).map <=> \E j \in 1 .. i : s[j][1] = k
      BY <2>2, <2>4, <3>1 DEF Holds
    <3>3. ASSUME NEW j \in 1 .. i, \A l \in (j + 1) .. i : s[l][1] # s[j][1]
          PROVE  m(i).map[s[j][1]] = s[j][2]
      <4>1. CASE j = i
        BY <2>4, <4>1
      <4>2. CASE j # i
        <5>1. j \in 1 .. (i - 1) /\ i \in (j + 1) .. i
          BY <2>1, <4>2
        <5>2. s[j][1] # s[i][1] /\ \A l \in (j + 1) .. (i - 1) : s[l][1] # s[j][1]
          BY <2>1, <3>3, <5>1
        <5>3. s[j][1] \in DOMAIN m(i - 1).map /\ m(i - 1).map[s[j][1]] = s[j][2]
          BY <2>2, <5>1, <5>2 DEF Holds
        <5>4. QED
          BY <2>4, <5>2, <5>3
      <4>3. QED
        BY <4>1, <4>2
    <3>4. QED
      BY <3>2, <3>3 DEF Holds
  <2>6. QED
    BY <2>3, <2>4, <2>5
<1>4. \A i \in 0 .. Len(s) : i \in S
  <2> HIDE DEF S
  <2>1. QED
    BY <1>1, <1>2, <1>3, UpTo
<1>5. QED
  BY <1>4


-----------------------------------------------------------------------------
(* The log: what a record's bytes are, and what a turn of recover reads.   *)

\* A length is recovered from its two digits.
LEMMA Digits ==
    ASSUME NEW n \in Nat, n < Base * Base
    PROVE  /\ n % Base \in Byte /\ (n \div Base) % Base \in Byte
           /\ (n % Base) + Base * ((n \div Base) % Base) = n
<1>1. Base \in Nat \ {0} /\ Base \in Nat
  BY EngineAssumption
<1>2. n % Base \in 0 .. (Base - 1) /\ n \div Base \in Nat /\ n = Base * (n \div Base) + (n % Base)
  BY <1>1
<1> DEFINE q == n \div Base
           d == n % Base
<1>3. q \in Nat /\ d \in 0 .. (Base - 1) /\ n = Base * q + d
  BY <1>2
<1> HIDE DEF q, d
<1>4. q < Base
  <2>1. SUFFICES ASSUME q >= Base PROVE FALSE
    BY <1>1, <1>3
  <2>2. Base * q >= Base * Base
    BY <1>1, <1>3, <2>1
  <2>3. QED
    BY <1>1, <1>3, <2>2
<1>5. q % Base = q
  BY <1>1, <1>3, <1>4
<1>6. q % Base \in 0 .. (Base - 1) /\ d + Base * (q % Base) = n
  BY <1>1, <1>3, <1>4, <1>5
<1>7. QED
  BY <1>3, <1>6 DEF q, d, Byte

\* What a concatenation holds.
Joins(u, s, t) ==
    /\ u \in Seq(Byte) /\ Len(u) = Len(s) + Len(t)
    /\ \A i \in 1 .. Len(s) : u[i] = s[i]
    /\ \A i \in 1 .. Len(t) : u[Len(s) + i] = t[i]

LEMMA Concat == \A s, t \in Seq(Byte) : Joins(s \o t, s, t)
<1> TAKE s, t \in Seq(Byte)
<1> DEFINE u == s \o t
<1>1. /\ u \in Seq(Byte) /\ Len(u) = Len(s) + Len(t) /\ Len(s) \in Nat /\ Len(t) \in Nat
      /\ \A i \in 1 .. Len(s) + Len(t) : u[i] = IF i <= Len(s) THEN s[i] ELSE t[i - Len(s)]
  BY ConcatProperties, LenProperties
<1> HIDE DEF u
<1> DEFINE n == Len(s)
           m == Len(t)
<1>2. n \in Nat /\ m \in Nat /\ \A i \in 1 .. n + m : u[i] = IF i <= n THEN s[i] ELSE t[i - n]
  BY <1>1
<1> HIDE DEF n, m
<1>3. \A i \in 1 .. n : u[i] = s[i]
  <2> TAKE i \in 1 .. n
  <2>1. i \in 1 .. n + m /\ i <= n
    BY <1>2
  <2>2. QED
    BY <1>2, <2>1
<1>4. \A i \in 1 .. m : u[n + i] = t[i]
  <2> TAKE i \in 1 .. m
  <2>1. n + i \in 1 .. n + m /\ ~ (n + i <= n) /\ (n + i) - n = i
    BY <1>2
  <2>2. QED
    BY <1>2, <2>1
<1>5. QED
  BY <1>1, <1>3, <1>4 DEF n, m, u, Joins

\* The records whose lengths fit.
Fits == {r \in Record : Len(r[1]) < Base * Base /\ Len(r[2]) < Base * Base}

Size(r) == 4 + Len(r[1]) + Len(r[2])

LEMMA FitsType ==
    ASSUME NEW r \in Fits
    PROVE  /\ r \in Record /\ r[1] \in Text /\ r[2] \in Text /\ r = <<r[1], r[2]>>
           /\ Len(r[1]) \in Nat /\ Len(r[2]) \in Nat /\ Size(r) \in Nat /\ Size(r) >= 4
           /\ Len(r[1]) < Base * Base /\ Len(r[2]) < Base * Base
<1>1. r \in Text \X Text /\ Len(r[1]) < Base * Base /\ Len(r[2]) < Base * Base
  BY DEF Fits, Record
<1>2. r[1] \in Text /\ r[2] \in Text /\ r = <<r[1], r[2]>>
  BY <1>1
<1>3. Len(r[1]) \in Nat /\ Len(r[2]) \in Nat
  BY <1>2 DEF Text
<1>4. Size(r) \in Nat /\ Size(r) >= 4
  <2> DEFINE a == Len(r[1])
             b == Len(r[2])
  <2>1. a \in Nat /\ b \in Nat
    BY <1>3
  <2>2. Size(r) = 4 + a + b
    BY DEF Size
  <2> HIDE DEF a, b
  <2>3. QED
    BY <2>1, <2>2
<1>5. QED
  BY <1>1, <1>2, <1>3, <1>4 DEF Record

LEMMA PutFits ==
    ASSUME NEW k \in Keys, NEW v \in Values
    PROVE  <<k, v>> \in Fits
BY Texts DEF Fits

\* The bytes of a record follow position p of a file.
RecordAt(w, p, r) ==
    /\ p + Size(r) <= Len(w)
    /\ w[p + 1] + Base * w[p + 2] = Len(r[1])
    /\ \A i \in 1 .. Len(r[1]) : w[p + 2 + i] = r[1][i]
    /\ w[p + Len(r[1]) + 3] + Base * w[p + Len(r[1]) + 4] = Len(r[2])
    /\ \A i \in 1 .. Len(r[2]) : w[p + Len(r[1]) + 4 + i] = r[2][i]

\* WAL::append writes the two fields with their lengths.
LEMMA RecordBytes ==
    ASSUME NEW r \in Fits
    PROVE  /\ record(r) \in Text /\ Len(record(r)) = Size(r)
           /\ RecordAt(record(r), 0, r)
<1> DEFINE k == r[1]
           v == r[2]
           a == to_le_bytes(Len(k))
           b == to_le_bytes(Len(v))
<1>1. /\ k \in Seq(Byte) /\ v \in Seq(Byte) /\ Len(k) \in Nat /\ Len(v) \in Nat
      /\ Len(k) < Base * Base /\ Len(v) < Base * Base
  BY FitsType DEF Text
<1>2. a \in Seq(Byte) /\ Len(a) = 2 /\ a[1] + Base * a[2] = Len(k)
  BY <1>1, Digits DEF to_le_bytes
<1>3. b \in Seq(Byte) /\ Len(b) = 2 /\ b[1] + Base * b[2] = Len(v)
  BY <1>1, Digits DEF to_le_bytes
<1>4. record(r) = ((a \o k) \o b) \o v
  BY DEF record
<1>5. Size(r) = 4 + Len(k) + Len(v)
  BY DEF Size
<1> HIDE DEF k, v, a, b
<1> DEFINE x == Len(k)
           y == Len(v)
           ak == a \o k
           akb == ak \o b
           w == akb \o v
<1>a. x \in Nat /\ y \in Nat
  BY <1>1
<1> HIDE DEF ak, akb, w, x, y
<1>b. PICK c \in Nat : c = 2
  OBVIOUS
<1>c. Len(a) = c /\ Len(b) = c /\ Len(k) = x /\ Len(v) = y
  BY <1>2, <1>3, <1>b DEF x, y
<1>6. /\ ak \in Seq(Byte) /\ Len(ak) = c + x
      /\ \A i \in 1 .. c : ak[i] = a[i]
      /\ \A i \in 1 .. x : ak[c + i] = k[i]
  <2>1. Joins(a \o k, a, k)
    BY <1>1, <1>2, Concat
  <2>2. Joins(ak, a, k)
    BY <2>1 DEF ak
  <2>3. QED
    BY <1>c, <2>2 DEF Joins
<1>7. /\ akb \in Seq(Byte) /\ Len(akb) = (c + x) + c
      /\ \A i \in 1 .. (c + x) : akb[i] = ak[i]
      /\ \A i \in 1 .. c : akb[(c + x) + i] = b[i]
  <2>1. Joins(ak \o b, ak, b)
    BY <1>3, <1>6, Concat
  <2>2. Joins(akb, ak, b)
    BY <2>1 DEF akb
  <2>3. QED
    BY <1>6, <1>c, <2>2 DEF Joins
<1>8. /\ w \in Seq(Byte) /\ Len(w) = ((c + x) + c) + y
      /\ \A i \in 1 .. ((c + x) + c) : w[i] = akb[i]
      /\ \A i \in 1 .. y : w[((c + x) + c) + i] = v[i]
  <2>1. Joins(akb \o v, akb, v)
    BY <1>1, <1>7, Concat
  <2>2. Joins(w, akb, v)
    BY <2>1 DEF w
  <2>3. QED
    BY <1>7, <1>c, <2>2 DEF Joins
<1>9. w[0 + 1] = a[1] /\ w[0 + 2] = a[2]
  BY <1>a, <1>b, <1>6, <1>7, <1>8
<1>10. \A i \in 1 .. x : w[0 + 2 + i] = k[i]
  <2> TAKE i \in 1 .. x
  <2>0. 2 + i \in 1 .. (2 + x) /\ 2 + i \in 1 .. ((2 + x) + 2) /\ 0 + 2 + i = 2 + i
    BY <1>a
  <2>1. QED
    BY <2>0, <1>b, <1>6, <1>7, <1>8
<1>11. w[0 + x + 3] = b[1] /\ w[0 + x + 4] = b[2]
  <2>1. (2 + x) + 1 = 0 + x + 3 /\ (2 + x) + 2 = 0 + x + 4
    BY <1>a
  <2>2. (2 + x) + 1 \in 1 .. ((2 + x) + 2) /\ (2 + x) + 2 \in 1 .. ((2 + x) + 2)
    BY <1>a
  <2>3. w[(2 + x) + 1] = b[1] /\ w[(2 + x) + 2] = b[2]
    BY <2>2, <1>b, <1>7, <1>8
  <2>4. QED
    BY <2>1, <2>3
<1>12. \A i \in 1 .. y : w[0 + x + 4 + i] = v[i]
  <2> TAKE i \in 1 .. y
  <2>1. ((2 + x) + 2) + i = 0 + x + 4 + i
    BY <1>a
  <2>2. QED
    BY <1>8, <1>b, <2>1
<1>13. record(r) = w
  BY <1>4 DEF w, akb, ak
<1>14. Len(w) = Size(r) /\ 0 + Size(r) <= Len(w)
  BY <1>a, <1>b, <1>5, <1>8 DEF x, y
<1>15. RecordAt(w, 0, r)
  <2>1. w[0 + 1] + Base * w[0 + 2] = x /\ w[0 + x + 3] + Base * w[0 + x + 4] = y
    BY <1>2, <1>3, <1>9, <1>11 DEF x, y
  <2>2. QED
    BY <1>10, <1>12, <1>14, <2>1, Zenon DEF RecordAt, k, v, x, y
<1>16. QED
  BY <1>8, <1>13, <1>14, <1>15, Zenon DEF Text


\* A part of a file that matches a text is that text.
LEMMA PartIs ==
    ASSUME NEW w \in Seq(Byte), NEW t \in Seq(Byte), NEW p \in Nat, NEW n \in Nat, n = Len(t),
           p + n <= Len(w), \A i \in 1 .. n : w[p + i] = t[i]
    PROVE  SubSeq(w, p + 1, p + n) = t
<1> DEFINE u == SubSeq(w, p + 1, p + n)
<1>1. Len(w) \in Nat /\ \A i \in 1 .. Len(w) : w[i] \in Byte
  BY LenProperties
<1>2. \A i \in (p + 1) .. (p + n) : w[i] \in Byte
  BY <1>1
<1>3. /\ u \in Seq(Byte)
      /\ Len(u) = IF p + 1 <= p + n THEN p + n - (p + 1) + 1 ELSE 0
      /\ \A i \in 1 .. p + n - (p + 1) + 1 : u[i] = w[p + 1 + i - 1]
  BY <1>2, SubSeqProperties
<1> HIDE DEF u
<1>4. Len(u) = n
  BY <1>3
<1>5. \A i \in 1 .. n : u[i] = t[i]
  <2> TAKE i \in 1 .. n
  <2>1. i \in 1 .. p + n - (p + 1) + 1 /\ p + 1 + i - 1 = p + i
    OBVIOUS
  <2>2. QED
    BY <1>3, <2>1
<1>6. u = t
  BY <1>3, <1>4, <1>5, SeqEqual
<1>7. QED
  BY <1>6 DEF u

\* A turn of recover reads back the record that stands before it.
LEMMA ReadsRecord ==
    ASSUME wal \in Seq(Byte), NEW p \in Nat, NEW r \in Fits, RecordAt(wal, p, r), NEW q
    PROVE  read_record([at |-> p + 1, records |-> q, is |-> "reading"])
             = [at |-> p + Size(r) + 1, records |-> Append(q, r), is |-> "reading"]
<1> DEFINE k == r[1]
           v == r[2]
           x == Len(k)
           y == Len(v)
           n == Len(wal)
           s == [at |-> p + 1, records |-> q, is |-> "reading"]
           t == [at |-> p + Size(r) + 1, records |-> Append(q, r), is |-> "reading"]
<1>1. k \in Seq(Byte) /\ v \in Seq(Byte) /\ x \in Nat /\ y \in Nat /\ r = <<k, v>> /\ Size(r) = 4 + x + y
  BY FitsType DEF Text, Size
<1>2. n \in Nat
  BY LenProperties
<1>3. /\ p + (4 + x + y) <= n
      /\ wal[p + 1] + Base * wal[p + 2] = x
      /\ \A i \in 1 .. x : wal[p + 2 + i] = k[i]
      /\ wal[p + x + 3] + Base * wal[p + x + 4] = y
      /\ \A i \in 1 .. y : wal[p + x + 4 + i] = v[i]
  BY <1>1 DEF RecordAt
<1>4. s.at = p + 1 /\ s.records = q /\ s.is = "reading"
  OBVIOUS
<1> HIDE DEF k, v, x, y, n, s
<1>5. length_at(p + 1) = x
  <2>1. (p + 1) + 1 = p + 2
    OBVIOUS
  <2>2. QED
    BY <1>3, <2>1 DEF length_at
<1>6. behind(p + 1) = p + x + 3
  BY <1>1, <1>5 DEF behind, LengthBytes
<1>7. length_at(p + x + 3) = y
  <2>1. (p + x + 3) + 1 = p + x + 4
    BY <1>1
  <2>2. QED
    BY <1>3, <2>1 DEF length_at
<1>8. behind(p + x + 3) = p + (4 + x + y) + 1
  BY <1>1, <1>7 DEF behind, LengthBytes
<1>9. has_length(p + 1) /\ has_field(p + 1) /\ has_field(p + x + 3)
  <2>1. p + 1 + 2 <= n + 1 /\ p + x + 3 <= n + 1 /\ p + x + 3 + 2 <= n + 1 /\ p + (4 + x + y) + 1 <= n + 1
    BY <1>1, <1>2, <1>3
  <2>2. has_length(p + 1) /\ has_length(p + x + 3)
    BY <2>1 DEF has_length, LengthBytes, n
  <2>3. behind(p + 1) <= Len(wal) + 1 /\ behind(p + x + 3) <= Len(wal) + 1
    BY <1>6, <1>8, <2>1 DEF n
  <2>4. QED
    BY <2>2, <2>3 DEF has_field
<1>10. field(p + 1) = k
  <2>1. /\ (p + 1) + 2 = (p + 2) + 1 /\ (p + x + 3) - 1 = (p + 2) + x
        /\ p + 2 \in Nat /\ (p + 2) + x <= Len(wal)
    BY <1>1, <1>2, <1>3 DEF n
  <2>2. SubSeq(wal, (p + 2) + 1, (p + 2) + x) = k
    <3>1. PICK a \in Nat : a = p + 2
      BY <2>1
    <3>2. a + x <= Len(wal) /\ \A i \in 1 .. x : wal[a + i] = k[i]
      BY <1>3, <2>1, <3>1
    <3>3. SubSeq(wal, a + 1, a + x) = k
      BY <1>1, <3>2, PartIs DEF x
    <3>4. QED
      BY <3>1, <3>3
  <2>3. QED
    BY <1>6, <2>1, <2>2 DEF field, LengthBytes
<1>11. field(p + x + 3) = v
  <2>1. /\ (p + x + 3) + 2 = (p + x + 4) + 1 /\ (p + (4 + x + y) + 1) - 1 = (p + x + 4) + y
        /\ p + x + 4 \in Nat /\ (p + x + 4) + y <= Len(wal)
    BY <1>1, <1>2, <1>3 DEF n
  <2>2. SubSeq(wal, (p + x + 4) + 1, (p + x + 4) + y) = v
    <3>1. PICK a \in Nat : a = p + x + 4
      BY <2>1
    <3>2. a + y <= Len(wal) /\ \A i \in 1 .. y : wal[a + i] = v[i]
      BY <1>3, <2>1, <3>1
    <3>3. SubSeq(wal, a + 1, a + y) = v
      BY <1>1, <3>2, PartIs DEF y
    <3>4. QED
      BY <3>1, <3>3
  <2>3. QED
    BY <1>8, <2>1, <2>2 DEF field, LengthBytes
<1>12. read_record(s) = [at |-> behind(p + x + 3), records |-> Append(q, <<field(p + 1), field(p + x + 3)>>),
                         is |-> "reading"]
  BY <1>4, <1>6, <1>9 DEF read_record
<1>13. QED
  BY <1>1, <1>8, <1>10, <1>11, <1>12 DEF s


\* What recover's loop keeps in its variables.
States == [at : Nat \ {0}, records : Seq(Record), is : {"reading", "end", "error"}]

\* The records read so far stay where they are.
Extends(s, t) ==
    /\ Len(s) <= Len(t)
    /\ \A i \in 1 .. Len(s) : t[i] = s[i]

LEMMA ExtendsItself ==
    ASSUME NEW s \in Seq(Record)
    PROVE  Extends(s, s)
BY LenProperties DEF Extends

LEMMA ExtendsTransitive ==
    ASSUME NEW s \in Seq(Record), NEW t \in Seq(Record), NEW u \in Seq(Record), Extends(s, t), Extends(t, u)
    PROVE  Extends(s, u)
BY LenProperties DEF Extends

\* A whole field is a text, and what follows it has a position.
LEMMA FieldType ==
    ASSUME wal \in Seq(Byte), NEW i \in Nat \ {0}, has_field(i)
    PROVE  field(i) \in Text /\ behind(i) \in Nat \ {0}
<1> DEFINE n == Len(wal)
           l == length_at(i)
           b == behind(i)
<1>1. n \in Nat /\ \A j \in 1 .. n : wal[j] \in Byte
  BY LenProperties
<1>2. i + 2 <= n + 1 /\ b <= n + 1 /\ b = i + 2 + l
  BY DEF has_field, has_length, LengthBytes, behind
<1>3. l \in Nat
  <2>1. i \in 1 .. n /\ i + 1 \in 1 .. n
    BY <1>1, <1>2
  <2>2. wal[i] \in Nat /\ wal[i + 1] \in Nat /\ Base \in Nat
    BY <1>1, <2>1, Texts DEF Byte
  <2>3. \A a, c, d \in Nat : a + c * d \in Nat
    OBVIOUS
  <2>4. QED
    BY <2>2, <2>3 DEF length_at
<1> HIDE DEF n, l, b
<1>4. b \in Nat \ {0} /\ b - 1 \in Int /\ i + 2 \in Int
  BY <1>2, <1>3
<1>5. \A j \in (i + 2) .. (b - 1) : wal[j] \in Byte
  BY <1>1, <1>2, <1>3
<1>6. SubSeq(wal, i + 2, b - 1) \in Seq(Byte)
  BY <1>4, <1>5, SubSeqProperties
<1>7. QED
  BY <1>4, <1>6 DEF field, LengthBytes, Text, b

\* A turn of recover leaves what it has read.
LEMMA ReadType ==
    ASSUME wal \in Seq(Byte), NEW s \in States
    PROVE  read_record(s) \in States /\ Extends(s.records, read_record(s).records)
<1>1. s.at \in Nat \ {0} /\ s.records \in Seq(Record) /\ s.is \in {"reading", "end", "error"}
  BY DEF States
<1> DEFINE value == behind(s.at)
           r == <<field(s.at), field(value)>>
<1>2. CASE s.is = "reading" /\ has_length(s.at) /\ has_field(s.at) /\ has_field(value)
  <2>1. field(s.at) \in Text /\ value \in Nat \ {0}
    BY <1>1, <1>2, FieldType
  <2>2. field(value) \in Text /\ behind(value) \in Nat \ {0}
    BY <1>2, <2>1, FieldType
  <2>3. r \in Record
    BY <2>1, <2>2 DEF Record
  <2>4. read_record(s) = [at |-> behind(value), records |-> Append(s.records, r), is |-> "reading"]
    BY <1>2 DEF read_record
  <2> HIDE DEF r, value
  <2>5. /\ Append(s.records, r) \in Seq(Record)
        /\ Len(Append(s.records, r)) = Len(s.records) + 1
        /\ \A i \in 1 .. Len(s.records) : Append(s.records, r)[i] = s.records[i]
    BY <1>1, <2>3, AppendProperties
  <2>6. Extends(s.records, Append(s.records, r))
    BY <1>1, <2>5, LenProperties DEF Extends
  <2>7. QED
    BY <2>2, <2>4, <2>5, <2>6 DEF States
<1>3. CASE ~ (s.is = "reading" /\ has_length(s.at) /\ has_field(s.at) /\ has_field(value))
  <2> HIDE DEF r, value
  <2>1. \/ read_record(s) = s
        \/ read_record(s) = [s EXCEPT !.is = "end"]
        \/ read_record(s) = [s EXCEPT !.is = "error"]
    BY <1>3 DEF read_record, value, r
  <2>2. read_record(s) \in States /\ read_record(s).records = s.records
    BY <1>1, <2>1 DEF States
  <2>3. QED
    BY <1>1, <2>2, ExtendsItself
<1>4. QED
  BY <1>2, <1>3

\* The recursive definition of recovering has a solution of any length.
Turns(f, n) ==
    f = [i \in 0 .. n |-> IF i = 0 THEN [at |-> 1, records |-> <<>>, is |-> "reading"]
                                   ELSE read_record(f[i - 1])]

LEMMA RecoveringUpTo ==
    ASSUME NEW n \in Nat
    PROVE  \E f : Turns(f, n)
<1> DEFINE first == [at |-> 1, records |-> <<>>, is |-> "reading"]
           Solves(f, j) == f = [i \in 0 .. j |-> IF i = 0 THEN first ELSE read_record(f[i - 1])]
           S == {j \in Nat : \E f : Solves(f, j)}
<1>1. 0 \in S
  <2>1. Solves([i \in 0 .. 0 |-> first], 0)
    OBVIOUS
  <2>2. QED
    BY <2>1
<1>2. ASSUME NEW j \in 0 .. n, j > 0, j - 1 \in S
      PROVE  j \in S
  <2>1. PICK f : Solves(f, j - 1)
    BY <1>2
  <2> DEFINE g == [i \in 0 .. j |-> IF i = j THEN read_record(f[j - 1]) ELSE f[i]]
  <2>2. \A i \in 0 .. j : g[i] = IF i = 0 THEN first ELSE read_record(g[i - 1])
    BY <1>2, <2>1
  <2>3. Solves(g, j)
    BY <2>2
  <2> HIDE DEF Solves, g
  <2>4. \E f0 : Solves(f0, j)
    BY <2>3
  <2>5. QED
    BY <2>4, <1>2
<1>3. n \in S
  <2> HIDE DEF S
  <2>1. n \in 0 .. n
    OBVIOUS
  <2>2. QED
    BY <1>1, <1>2, <2>1, UpTo
<1>4. QED
  BY <1>3 DEF Turns

LEMMA Recovering ==
    ASSUME wal \in Seq(Byte)
    PROVE  /\ recovering[0] = [at |-> 1, records |-> <<>>, is |-> "reading"]
           /\ \A i \in 1 .. Len(wal) + 1 : recovering[i] = read_record(recovering[i - 1])
<1> DEFINE first == [at |-> 1, records |-> <<>>, is |-> "reading"]
           n == Len(wal) + 1
<1>1. n \in Nat
  BY LenProperties
<1>2. \E f : Turns(f, n)
  BY <1>1, RecoveringUpTo
<1>3. recovering = CHOOSE f : Turns(f, n)
  BY DEF recovering, Turns
<1>4. Turns(recovering, n)
  <2> HIDE DEF n
  <2>1. QED
    BY <1>2, <1>3, Zenon
<1>5. \A i \in 0 .. n : recovering[i] = IF i = 0 THEN first ELSE read_record(recovering[i - 1])
  BY <1>4 DEF Turns
<1>6. QED
  BY <1>1, <1>5

LEMMA RecoveringType ==
    ASSUME wal \in Seq(Byte)
    PROVE  \A i \in 0 .. Len(wal) + 1 : recovering[i] \in States
<1> DEFINE n == Len(wal) + 1
           S == {i \in 0 .. n : recovering[i] \in States}
<1>1. n \in Nat
  BY LenProperties
<1>2. 0 \in S
  <2>1. <<>> \in Seq(Record) /\ 1 \in Nat \ {0}
    OBVIOUS
  <2>2. [at |-> 1, records |-> <<>>, is |-> "reading"] \in States
    BY <2>1 DEF States
  <2>3. QED
    BY <1>1, <2>2, Recovering
<1>3. ASSUME NEW i \in 0 .. n, i > 0, i - 1 \in S
      PROVE  i \in S
  <2>1. recovering[i] = read_record(recovering[i - 1]) /\ recovering[i - 1] \in States
    BY <1>1, <1>3, Recovering
  <2>2. recovering[i] \in States
    BY <2>1, ReadType
  <2>3. QED
    BY <1>3, <2>2
<1>4. \A i \in 0 .. n : i \in S
  <2> HIDE DEF S
  <2>1. QED
    BY <1>1, <1>2, <1>3, UpTo
<1>5. QED
  BY <1>4

\* recover returns records, whatever the file holds.
LEMMA RecoverType ==
    ASSUME wal \in Seq(Byte)
    PROVE  recover.records \in Seq(Record)
<1>1. Len(wal) + 1 \in 0 .. Len(wal) + 1
  BY LenProperties
<1>2. QED
  BY <1>1, RecoveringType DEF recover, States


-----------------------------------------------------------------------------
(* A log of whole records, one behind the other, with or without a rest.   *)

EndOf(e, i) == IF i = 0 THEN 0 ELSE e[i]

Laid(w, s, e) ==
    /\ w \in Seq(Byte) /\ s \in Seq(Fits) /\ e \in Seq(Nat) /\ Len(e) = Len(s)
    /\ \A i \in 1 .. Len(s) : /\ e[i] = EndOf(e, i - 1) + Size(s[i])
                              /\ RecordAt(w, EndOf(e, i - 1), s[i])
    /\ \A i, j \in 0 .. Len(s) : i <= j => EndOf(e, i) + (j - i) <= EndOf(e, j)
    /\ EndOf(e, Len(s)) <= Len(w)

LEMMA LaidType ==
    ASSUME NEW w, NEW s, NEW e, Laid(w, s, e)
    PROVE  /\ Len(w) \in Nat /\ Len(s) \in Nat /\ Len(s) <= Len(w)
           /\ \A i \in 0 .. Len(s) : EndOf(e, i) \in Nat
           /\ \A i \in 1 .. Len(s) : s[i] \in Fits /\ EndOf(e, i) = e[i]
           /\ s \in Seq(Record)
<1>1. Len(w) \in Nat /\ Len(s) \in Nat /\ \A i \in 1 .. Len(s) : s[i] \in Fits
  BY LenProperties DEF Laid
<1>2. \A i \in 1 .. Len(e) : e[i] \in Nat
  BY DEF Laid
<1>3. \A i \in 0 .. Len(s) : EndOf(e, i) \in Nat
  BY <1>1, <1>2 DEF Laid, EndOf
<1>4. Len(s) <= Len(w)
  <2>1. 0 \in 0 .. Len(s) /\ Len(s) \in 0 .. Len(s) /\ 0 <= Len(s) /\ EndOf(e, 0) = 0
    BY <1>1 DEF EndOf
  <2>2. EndOf(e, 0) + (Len(s) - 0) <= EndOf(e, Len(s)) /\ EndOf(e, Len(s)) <= Len(w)
    BY <2>1 DEF Laid
  <2>3. QED
    BY <1>1, <1>3, <2>1, <2>2
<1>5. Fits \subseteq Record
  BY DEF Fits
<1>6. s \in Seq(Record)
  BY <1>5 DEF Laid
<1>7. QED
  BY <1>1, <1>3, <1>4, <1>6 DEF EndOf

\* The first i records, one by one.
LEMMA PartAppend ==
    ASSUME NEW s \in Seq(Record), NEW i \in 1 .. Len(s)
    PROVE  Append(SubSeq(s, 1, i - 1), s[i]) = SubSeq(s, 1, i)
<1>1. Len(s) \in Nat /\ \A j \in 1 .. Len(s) : s[j] \in Record
  BY LenProperties
<1> DEFINE a == SubSeq(s, 1, i - 1)
           b == SubSeq(s, 1, i)
<1>2. i \in Nat /\ i - 1 \in Int /\ i \in Int /\ 1 \in Int /\ i >= 1 /\ i <= Len(s)
  BY <1>1
<1>3. /\ a \in Seq(Record)
      /\ Len(a) = IF 1 <= i - 1 THEN i - 1 - 1 + 1 ELSE 0
      /\ \A j \in 1 .. i - 1 - 1 + 1 : a[j] = s[1 + j - 1]
  <2>1. \A j \in 1 .. (i - 1) : s[j] \in Record
    BY <1>1, <1>2
  <2>2. QED
    BY <1>2, <2>1, SubSeqProperties
<1>4. /\ b \in Seq(Record)
      /\ Len(b) = IF 1 <= i THEN i - 1 + 1 ELSE 0
      /\ \A j \in 1 .. i - 1 + 1 : b[j] = s[1 + j - 1]
  <2>1. \A j \in 1 .. i : s[j] \in Record
    BY <1>1, <1>2
  <2>2. QED
    BY <1>2, <2>1, SubSeqProperties
<1> HIDE DEF a, b
<1>5. Len(a) = i - 1 /\ Len(b) = i
  BY <1>2, <1>3, <1>4
<1>6. \A j \in 1 .. (i - 1) : a[j] = s[j]
  BY <1>2, <1>3
<1>7. \A j \in 1 .. i : b[j] = s[j]
  BY <1>2, <1>4
<1> DEFINE c == Append(a, s[i])
<1>8. /\ c \in Seq(Record) /\ Len(c) = Len(a) + 1
      /\ \A j \in 1 .. Len(a) : c[j] = a[j]
      /\ c[Len(a) + 1] = s[i]
  BY <1>1, <1>3, AppendProperties
<1> HIDE DEF c
<1>9. Len(c) = i /\ \A j \in 1 .. i : c[j] = b[j]
  BY <1>2, <1>5, <1>6, <1>7, <1>8
<1>10. c = b
  BY <1>4, <1>5, <1>8, <1>9, SeqEqual
<1>11. QED
  BY <1>10 DEF a, b, c

\* Turn by turn, recover reads the whole records.
LEMMA RecoverReads ==
    ASSUME Laid(wal, written, ends)
    PROVE  \A i \in 0 .. Len(written) :
             recovering[i] = [at |-> EndOf(ends, i) + 1, records |-> SubSeq(written, 1, i), is |-> "reading"]
<1> DEFINE At(i) == [at |-> EndOf(ends, i) + 1, records |-> SubSeq(written, 1, i), is |-> "reading"]
           S == {i \in 0 .. Len(written) : recovering[i] = At(i)}
<1>1. /\ wal \in Seq(Byte) /\ Len(wal) \in Nat /\ Len(written) \in Nat /\ Len(written) <= Len(wal)
      /\ written \in Seq(Record)
  BY LaidType DEF Laid
<1>2. 0 \in S
  <2>1. SubSeq(written, 1, 0) = <<>>
    BY SubSeqEmpty
  <2>2. EndOf(ends, 0) + 1 = 1
    BY DEF EndOf
  <2>3. QED
    BY <1>1, <2>1, <2>2, Recovering
<1>3. ASSUME NEW i \in 0 .. Len(written), i > 0, i - 1 \in S
      PROVE  i \in S
  <2>1. i \in 1 .. Len(written) /\ i - 1 \in 0 .. Len(written) /\ i \in 1 .. Len(wal) + 1
    BY <1>1, <1>3
  <2>2. recovering[i] = read_record(At(i - 1))
    BY <1>1, <1>3, <2>1, Recovering
  <2>3. /\ EndOf(ends, i - 1) \in Nat /\ written[i] \in Fits
        /\ RecordAt(wal, EndOf(ends, i - 1), written[i])
        /\ EndOf(ends, i) = EndOf(ends, i - 1) + Size(written[i])
    <3>1. EndOf(ends, i - 1) \in Nat /\ written[i] \in Fits /\ EndOf(ends, i) = ends[i]
      BY <2>1, LaidType
    <3>2. /\ RecordAt(wal, EndOf(ends, i - 1), written[i])
          /\ ends[i] = EndOf(ends, i - 1) + Size(written[i])
      BY <2>1 DEF Laid
    <3>3. QED
      BY <3>1, <3>2
  <2>4. read_record(At(i - 1)) = [at      |-> EndOf(ends, i - 1) + Size(written[i]) + 1,
                                  records |-> Append(SubSeq(written, 1, i - 1), written[i]),
                                  is      |-> "reading"]
    BY <1>1, <2>3, ReadsRecord
  <2>5. Append(SubSeq(written, 1, i - 1), written[i]) = SubSeq(written, 1, i)
    BY <1>1, <2>1, PartAppend
  <2>6. recovering[i] = At(i)
    BY <2>2, <2>3, <2>4, <2>5
  <2>7. QED
    BY <1>3, <2>6
<1>4. \A i \in 0 .. Len(written) : i \in S
  <2> HIDE DEF S
  <2>1. QED
    BY <1>1, <1>2, <1>3, UpTo
<1>5. QED
  BY <1>4

\* After that it only adds to them.
LEMMA RecoverExtends ==
    ASSUME Laid(wal, written, ends)
    PROVE  Extends(written, recover.records)
<1> DEFINE n == Len(written)
           N == Len(wal) + 1
           S == {d \in 0 .. (N - n) : Extends(written, recovering[n + d].records)}
<1>1. /\ wal \in Seq(Byte) /\ N \in Nat /\ n \in Nat /\ n <= N /\ N - n \in Nat
      /\ written \in Seq(Record)
  <2>1. wal \in Seq(Byte)
    BY DEF Laid
  <2>2. Len(wal) \in Nat /\ Len(written) \in Nat /\ Len(written) <= Len(wal) /\ written \in Seq(Record)
    BY LaidType
  <2>3. QED
    BY <2>1, <2>2
<1>2. recovering[n].records = written
  <2>1. recovering[n] = [at |-> EndOf(ends, n) + 1, records |-> SubSeq(written, 1, n), is |-> "reading"]
    BY <1>1, RecoverReads
  <2>2. SubSeq(written, 1, n) = written
    BY <1>1, SubSeqFull
  <2>3. QED
    BY <2>1, <2>2
<1> HIDE DEF n, N
<1>3. 0 \in S
  <2>1. n + 0 = n /\ 0 \in 0 .. (N - n)
    BY <1>1
  <2>2. Extends(written, recovering[n + 0].records)
    BY <1>1, <1>2, <2>1, ExtendsItself
  <2>3. QED
    BY <2>1, <2>2
<1>4. ASSUME NEW d \in 0 .. (N - n), d > 0, d - 1 \in S
      PROVE  d \in S
  <2> DEFINE i == n + d
             j == n + (d - 1)
  <2>1. i \in 1 .. N /\ j = i - 1 /\ j \in 0 .. N
    BY <1>1, <1>4
  <2> HIDE DEF i, j
  <2>2. recovering[i] = read_record(recovering[j]) /\ recovering[j] \in States /\ recovering[i] \in States
    <3>1. i \in 0 .. N
      BY <1>1, <2>1
    <3>2. QED
      BY <1>1, <2>1, <3>1, Recovering, RecoveringType DEF N
  <2>3. Extends(recovering[j].records, recovering[i].records)
    BY <1>1, <2>2, ReadType
  <2>4. recovering[j].records \in Seq(Record) /\ recovering[i].records \in Seq(Record)
    BY <2>2 DEF States
  <2>5. Extends(written, recovering[j].records)
    BY <1>4 DEF j
  <2>6. Extends(written, recovering[i].records)
    BY <1>1, <2>3, <2>4, <2>5, ExtendsTransitive
  <2>7. QED
    BY <1>4, <2>6 DEF i
<1>5. \A d \in 0 .. (N - n) : d \in S
  <2> HIDE DEF S
  <2>1. QED
    BY <1>1, <1>3, <1>4, UpTo
<1>6. n + (N - n) = N /\ N - n \in 0 .. (N - n)
  BY <1>1
<1>7. Extends(written, recovering[N].records)
  BY <1>5, <1>6
<1>8. QED
  BY <1>7 DEF recover, N


\* A log that ends with a whole record is recovered exactly.
LEMMA RecoverExact ==
    ASSUME Laid(wal, written, ends), Len(wal) = EndOf(ends, Len(written))
    PROVE  recover.records = written
<1> DEFINE n == Len(written) + 1
           N == Len(wal) + 1
           last == [at |-> N, records |-> written, is |-> "end"]
           S == {d \in 0 .. (N - n) : recovering[n + d] = last}
<1>1. /\ wal \in Seq(Byte) /\ Len(wal) \in Nat /\ N \in Nat /\ n \in Nat \ {0} /\ n <= N /\ N - n \in Nat
      /\ written \in Seq(Record)
  <2>1. wal \in Seq(Byte)
    BY DEF Laid
  <2>2. Len(wal) \in Nat /\ Len(written) \in Nat /\ Len(written) <= Len(wal) /\ written \in Seq(Record)
    BY LaidType
  <2>3. QED
    BY <2>1, <2>2
<1>2. recovering[n - 1] = [at |-> N, records |-> written, is |-> "reading"]
  <2>1. Len(written) \in 0 .. Len(written) /\ n - 1 = Len(written)
    BY <1>1, LaidType
  <2>2. recovering[Len(written)] = [at |-> EndOf(ends, Len(written)) + 1,
                                    records |-> SubSeq(written, 1, Len(written)), is |-> "reading"]
    BY <2>1, RecoverReads
  <2>3. SubSeq(written, 1, Len(written)) = written
    BY <1>1, SubSeqFull
  <2>4. QED
    BY <2>1, <2>2, <2>3
<1> DEFINE reading == [at |-> N, records |-> written, is |-> "reading"]
<1>3. read_record(reading) = last
  <2>1. ~ has_length(N)
    BY <1>1 DEF has_length, LengthBytes
  <2>2. reading.at = N /\ reading.is = "reading" /\ [reading EXCEPT !.is = "end"] = last
    OBVIOUS
  <2> HIDE DEF reading, last
  <2>3. QED
    BY <2>1, <2>2 DEF read_record
<1>4. read_record(last) = last
  <2>1. last.is # "reading"
    OBVIOUS
  <2> HIDE DEF last
  <2>2. QED
    BY <2>1 DEF read_record
<1>5. \A i \in 1 .. N : recovering[i] = read_record(recovering[i - 1])
  BY <1>1, Recovering
<1>6. recovering[n - 1] = reading
  BY <1>2
<1>7. last.records = written
  OBVIOUS
<1> HIDE DEF n, N, last, reading
<1>8. 0 \in S
  <2>1. n + 0 = n /\ 0 \in 0 .. (N - n) /\ n \in 1 .. N
    BY <1>1
  <2>2. recovering[n + 0] = last
    BY <1>3, <1>5, <1>6, <2>1
  <2>3. QED
    BY <2>1, <2>2
<1>9. ASSUME NEW d \in 0 .. (N - n), d > 0, d - 1 \in S
      PROVE  d \in S
  <2>1. n + d \in 1 .. N /\ n + (d - 1) = (n + d) - 1
    BY <1>1, <1>9
  <2>2. recovering[n + (d - 1)] = last
    BY <1>9
  <2>3. recovering[n + d] = last
    BY <1>4, <1>5, <2>1, <2>2
  <2>4. QED
    BY <1>9, <2>3
<1>10. \A d \in 0 .. (N - n) : d \in S
  <2> HIDE DEF S
  <2>1. QED
    BY <1>1, <1>8, <1>9, UpTo
<1>11. n + (N - n) = N /\ N - n \in 0 .. (N - n)
  BY <1>1
<1>12. recovering[N] = last
  BY <1>10, <1>11
<1>13. QED
  BY <1>7, <1>12 DEF recover, N

\* A record stays readable where a file only grows, and where it is cut behind it.
LEMMA RecordStays ==
    ASSUME NEW w, NEW u, NEW p \in Nat, NEW r \in Fits, RecordAt(w, p, r),
           p + Size(r) <= Len(u), \A i \in 1 .. p + Size(r) : u[i] = w[i]
    PROVE  RecordAt(u, p, r)
<1> DEFINE x == Len(r[1])
           y == Len(r[2])
<1>1. x \in Nat /\ y \in Nat /\ Size(r) = 4 + x + y
  BY FitsType DEF Size
<1>2. /\ w[p + 1] + Base * w[p + 2] = x
      /\ \A i \in 1 .. x : w[p + 2 + i] = r[1][i]
      /\ w[p + x + 3] + Base * w[p + x + 4] = y
      /\ \A i \in 1 .. y : w[p + x + 4 + i] = r[2][i]
  BY DEF RecordAt
<1> HIDE DEF x, y
<1>3. \A i \in 1 .. p + (4 + x + y) : u[i] = w[i]
  BY <1>1
<1>4. u[p + 1] = w[p + 1] /\ u[p + 2] = w[p + 2] /\ u[p + x + 3] = w[p + x + 3] /\ u[p + x + 4] = w[p + x + 4]
  BY <1>1, <1>3
<1>5. \A i \in 1 .. x : u[p + 2 + i] = w[p + 2 + i]
  BY <1>1, <1>3
<1>6. \A i \in 1 .. y : u[p + x + 4 + i] = w[p + x + 4 + i]
  BY <1>1, <1>3
<1>7. /\ p + Size(r) <= Len(u)
      /\ u[p + 1] + Base * u[p + 2] = x
      /\ \A i \in 1 .. x : u[p + 2 + i] = r[1][i]
      /\ u[p + x + 3] + Base * u[p + x + 4] = y
      /\ \A i \in 1 .. y : u[p + x + 4 + i] = r[2][i]
  BY <1>2, <1>4, <1>5, <1>6
<1>8. QED
  BY <1>7, Zenon DEF RecordAt, x, y

\* What is appended to a log leaves its records in place.
LEMMA LaidGrows ==
    ASSUME NEW w, NEW s, NEW e, Laid(w, s, e), NEW t \in Seq(Byte)
    PROVE  Laid(w \o t, s, e)
<1> DEFINE u == w \o t
<1>1. w \in Seq(Byte) /\ Len(w) \in Nat /\ Len(t) \in Nat
  BY LenProperties DEF Laid
<1>2. Joins(u, w, t)
  BY <1>1, Concat
<1> HIDE DEF u
<1>3. u \in Seq(Byte) /\ Len(u) >= Len(w) /\ Len(u) \in Nat /\ \A i \in 1 .. Len(w) : u[i] = w[i]
  BY <1>1, <1>2 DEF Joins
<1>4. ASSUME NEW i \in 1 .. Len(s)
      PROVE  RecordAt(u, EndOf(e, i - 1), s[i])
  <2> DEFINE p == EndOf(e, i - 1)
  <2>1. p \in Nat /\ s[i] \in Fits /\ RecordAt(w, p, s[i])
    <3>1. i - 1 \in 0 .. Len(s)
      BY <1>4, LaidType
    <3>2. p \in Nat /\ s[i] \in Fits
      BY <1>4, <3>1, LaidType
    <3>3. QED
      BY <1>4, <3>2 DEF Laid
  <2> HIDE DEF p
  <2>2. p + Size(s[i]) <= Len(w) /\ Size(s[i]) \in Nat
    BY <2>1, FitsType DEF RecordAt
  <2>3. p + Size(s[i]) <= Len(u) /\ \A j \in 1 .. p + Size(s[i]) : u[j] = w[j]
    BY <1>1, <1>3, <2>1, <2>2
  <2>4. RecordAt(u, p, s[i])
    BY <2>1, <2>3, RecordStays
  <2>5. QED
    BY <2>4 DEF p
<1>5. EndOf(e, Len(s)) <= Len(u)
  <2>1. EndOf(e, Len(s)) \in Nat
    BY LaidType
  <2>2. EndOf(e, Len(s)) <= Len(w)
    BY DEF Laid
  <2>3. QED
    BY <1>1, <1>3, <2>1, <2>2
<1>6. Laid(u, s, e)
  BY <1>3, <1>4, <1>5 DEF Laid
<1>7. QED
  BY <1>6 DEF u

\* A record appended to a file stands at its old end.
LEMMA RecordAppended ==
    ASSUME NEW w \in Seq(Byte), NEW t \in Seq(Byte), NEW u, Joins(u, w, t), NEW r \in Fits,
           RecordAt(t, 0, r), Len(t) = Size(r)
    PROVE  RecordAt(u, Len(w), r)
<1> DEFINE x == Len(r[1])
           y == Len(r[2])
           p == Len(w)
<1>1. x \in Nat /\ y \in Nat /\ Size(r) = 4 + x + y /\ p \in Nat
  BY FitsType, LenProperties DEF Size
<1>2. /\ t[0 + 1] + Base * t[0 + 2] = x
      /\ \A i \in 1 .. x : t[0 + 2 + i] = r[1][i]
      /\ t[0 + x + 3] + Base * t[0 + x + 4] = y
      /\ \A i \in 1 .. y : t[0 + x + 4 + i] = r[2][i]
  BY DEF RecordAt
<1>3. Len(u) = p + Size(r) /\ \A i \in 1 .. Size(r) : u[p + i] = t[i]
  BY DEF Joins
<1> HIDE DEF x, y, p
<1>4. \A i \in 1 .. (4 + x + y) : u[p + i] = t[i]
  BY <1>1, <1>3
<1>5. u[p + 1] = t[0 + 1] /\ u[p + 2] = t[0 + 2]
  BY <1>1, <1>4
<1>6. u[p + x + 3] = t[0 + x + 3] /\ u[p + x + 4] = t[0 + x + 4]
  <2>1. x + 3 \in 1 .. (4 + x + y) /\ x + 4 \in 1 .. (4 + x + y)
    BY <1>1
  <2>2. u[p + (x + 3)] = t[x + 3] /\ u[p + (x + 4)] = t[x + 4]
    BY <1>4, <2>1
  <2>3. /\ p + (x + 3) = p + x + 3 /\ p + (x + 4) = p + x + 4
        /\ 0 + x + 3 = x + 3 /\ 0 + x + 4 = x + 4
    BY <1>1
  <2>4. QED
    BY <2>2, <2>3
<1>7. \A i \in 1 .. x : u[p + 2 + i] = t[0 + 2 + i]
  <2> TAKE i \in 1 .. x
  <2>1. 2 + i \in 1 .. (4 + x + y) /\ p + (2 + i) = p + 2 + i /\ 0 + 2 + i = 2 + i
    BY <1>1
  <2>2. QED
    BY <1>4, <2>1
<1>8. \A i \in 1 .. y : u[p + x + 4 + i] = t[0 + x + 4 + i]
  <2> TAKE i \in 1 .. y
  <2>1. x + 4 + i \in 1 .. (4 + x + y) /\ p + (x + 4 + i) = p + x + 4 + i /\ 0 + x + 4 + i = x + 4 + i
    BY <1>1
  <2>2. QED
    BY <1>4, <2>1
<1>9. /\ p + Size(r) <= Len(u)
      /\ u[p + 1] + Base * u[p + 2] = x
      /\ \A i \in 1 .. x : u[p + 2 + i] = r[1][i]
      /\ u[p + x + 3] + Base * u[p + x + 4] = y
      /\ \A i \in 1 .. y : u[p + x + 4 + i] = r[2][i]
  <2>1. p + Size(r) <= Len(u)
    BY <1>1, <1>3
  <2>2. u[p + 1] + Base * u[p + 2] = x /\ u[p + x + 3] + Base * u[p + x + 4] = y
    BY <1>2, <1>5, <1>6, Zenon
  <2>3. \A i \in 1 .. x : u[p + 2 + i] = r[1][i]
    BY <1>2, <1>7, Zenon
  <2>4. \A i \in 1 .. y : u[p + x + 4 + i] = r[2][i]
    BY <1>2, <1>8, Zenon
  <2>5. QED
    BY <2>1, <2>2, <2>3, <2>4
<1>10. QED
  BY <1>9, Zenon DEF RecordAt, x, y, p

\* The log u holds one more whole record, r, and nothing behind it.
Appended(u, s, e, r) ==
    /\ Laid(u, Append(s, r), Append(e, Len(u)))
    /\ Len(u) = EndOf(Append(e, Len(u)), Len(Append(s, r)))

\* WAL::append adds a whole record to a log of whole records.
LEMMA LaidAppend ==
    ASSUME NEW w, NEW s, NEW e, Laid(w, s, e), Len(w) = EndOf(e, Len(s)), NEW r \in Fits
    PROVE  Appended(w \o record(r), s, e, r)
<1> DEFINE u == w \o record(r)
<1> DEFINE n == Len(s)
           p == Len(w)
           l == Len(u)
           z == Size(r)
           S == Append(s, r)
           E == Append(e, l)
<1>1. w \in Seq(Byte) /\ s \in Seq(Fits) /\ e \in Seq(Nat) /\ Len(e) = n
  BY DEF Laid
<1>2. p \in Nat /\ n \in Nat /\ z \in Nat /\ z >= 4
  BY LaidType, FitsType
<1>3. record(r) \in Seq(Byte) /\ Len(record(r)) = z /\ RecordAt(record(r), 0, r)
  BY RecordBytes DEF Text
<1>4. Joins(u, w, record(r))
  BY <1>1, <1>3, Concat
<1>5. u \in Seq(Byte) /\ l = p + z /\ l \in Nat
  BY <1>2, <1>3, <1>4 DEF Joins
<1>6. RecordAt(u, p, r)
  BY <1>1, <1>3, <1>4, RecordAppended
<1>7. Laid(u, s, e)
  BY <1>3, LaidGrows
<1> HIDE DEF u, p, l, z
<1>8. /\ S \in Seq(Fits) /\ Len(S) = n + 1 /\ S[n + 1] = r
      /\ \A i \in 1 .. n : S[i] = s[i]
  BY <1>1, AppendProperties
<1>9. /\ E \in Seq(Nat) /\ Len(E) = n + 1 /\ E[n + 1] = l
      /\ \A i \in 1 .. n : E[i] = e[i]
  BY <1>1, <1>5, AppendProperties
<1>10. EndOf(e, n) = p
  BY DEF p
<1> HIDE DEF n, S, E
<1>11. (\A i \in 0 .. n : EndOf(E, i) = EndOf(e, i)) /\ EndOf(E, n + 1) = l
  BY <1>2, <1>9 DEF EndOf
<1>12. \A i \in 1 .. n : /\ e[i] = EndOf(e, i - 1) + Size(s[i])
                         /\ RecordAt(u, EndOf(e, i - 1), s[i])
  BY <1>7 DEF Laid, n
<1>13. ASSUME NEW i \in 1 .. (n + 1)
       PROVE  /\ E[i] = EndOf(E, i - 1) + Size(S[i])
              /\ RecordAt(u, EndOf(E, i - 1), S[i])
  <2>1. CASE i = n + 1
    <3>1. i - 1 = n /\ n \in 0 .. n
      BY <1>2, <2>1
    <3>2. EndOf(E, i - 1) = p /\ S[i] = r /\ E[i] = l
      BY <1>8, <1>9, <1>10, <1>11, <2>1, <3>1
    <3>3. QED
      BY <1>5, <1>6, <3>2 DEF z
  <2>2. CASE i # n + 1
    <3>1. i \in 1 .. n /\ i - 1 \in 0 .. n
      BY <1>2, <2>2
    <3>2. EndOf(E, i - 1) = EndOf(e, i - 1) /\ S[i] = s[i] /\ E[i] = e[i]
      BY <1>8, <1>9, <1>11, <3>1
    <3>3. QED
      BY <1>12, <3>1, <3>2
  <2>3. QED
    BY <2>1, <2>2
<1>14. ASSUME NEW i \in 0 .. (n + 1), NEW j \in 0 .. (n + 1), i <= j
       PROVE  EndOf(E, i) + (j - i) <= EndOf(E, j)
  <2>1. \A a, b \in 0 .. n : a <= b => EndOf(e, a) + (b - a) <= EndOf(e, b)
    BY <1>7 DEF Laid, n
  <2>2. \A a \in 0 .. n : EndOf(e, a) \in Nat
    BY <1>7, LaidType DEF n
  <2>3. CASE j # n + 1
    <3>1. i \in 0 .. n /\ j \in 0 .. n
      BY <1>2, <1>14, <2>3
    <3>2. QED
      BY <1>11, <1>14, <2>1, <3>1
  <2>4. CASE j = n + 1 /\ i # n + 1
    <3>1. i \in 0 .. n /\ n \in 0 .. n /\ i <= n
      BY <1>2, <2>4
    <3>2. EndOf(e, i) + (n - i) <= p /\ EndOf(e, i) \in Nat
      BY <1>10, <2>1, <2>2, <3>1
    <3>3. EndOf(E, i) = EndOf(e, i) /\ EndOf(E, j) = l
      BY <1>11, <2>4, <3>1
    <3>4. QED
      BY <1>2, <1>5, <2>4, <3>2, <3>3
  <2>5. CASE j = n + 1 /\ i = n + 1
    BY <1>2, <1>5, <1>11, <2>5
  <2>6. QED
    BY <2>3, <2>4, <2>5
<1>15. EndOf(E, Len(S)) = l /\ l = Len(u) /\ l <= Len(u)
  BY <1>5, <1>8, <1>11 DEF l
<1>16. Laid(u, S, E)
  BY <1>5, <1>8, <1>9, <1>13, <1>14, <1>15 DEF Laid
<1>17. QED
  BY <1>15, <1>16 DEF S, E, l, u, Appended

\* The first c members of a sequence.
CutOf(u, s, c) ==
    /\ Len(u) = c
    /\ \A i \in 1 .. c : u[i] = s[i]

LEMMA Cut ==
    ASSUME NEW T, NEW s \in Seq(T), NEW c \in 0 .. Len(s)
    PROVE  SubSeq(s, 1, c) \in Seq(T) /\ CutOf(SubSeq(s, 1, c), s, c)
<1>1. Len(s) \in Nat /\ \A j \in 1 .. Len(s) : s[j] \in T
  BY LenProperties
<1> DEFINE b == SubSeq(s, 1, c)
<1>2. c \in Nat /\ c \in Int /\ 1 \in Int /\ c <= Len(s)
  BY <1>1
<1>3. /\ b \in Seq(T)
      /\ Len(b) = IF 1 <= c THEN c - 1 + 1 ELSE 0
      /\ \A j \in 1 .. c - 1 + 1 : b[j] = s[1 + j - 1]
  <2>1. \A j \in 1 .. c : s[j] \in T
    BY <1>1, <1>2
  <2>2. QED
    BY <1>2, <2>1, SubSeqProperties
<1> HIDE DEF b
<1>4. Len(b) = c
  BY <1>2, <1>3
<1>5. \A j \in 1 .. c : b[j] = s[j]
  <2> TAKE j \in 1 .. c
  <2>1. j \in 1 .. c - 1 + 1 /\ 1 + j - 1 = j
    BY <1>2
  <2>2. QED
    BY <1>3, <2>1
<1>6. QED
  BY <1>3, <1>4, <1>5 DEF b, CutOf

\* A file cut behind c of its records holds those.
LEMMA LaidCut ==
    ASSUME NEW w, NEW s, NEW e, Laid(w, s, e), NEW n \in 0 .. Len(w), NEW c \in 0 .. Len(s), EndOf(e, c) <= n
    PROVE  /\ Laid(SubSeq(w, 1, n), SubSeq(s, 1, c), SubSeq(e, 1, c))
           /\ Len(SubSeq(w, 1, n)) = n
           /\ EndOf(SubSeq(e, 1, c), Len(SubSeq(s, 1, c))) = EndOf(e, c)
<1> DEFINE W == SubSeq(w, 1, n)
           S == SubSeq(s, 1, c)
           E == SubSeq(e, 1, c)
<1>1. w \in Seq(Byte) /\ s \in Seq(Fits) /\ e \in Seq(Nat) /\ Len(e) = Len(s)
  BY DEF Laid
<1>2. /\ Len(w) \in Nat /\ Len(s) \in Nat
      /\ \A i \in 0 .. Len(s) : EndOf(e, i) \in Nat
      /\ \A i \in 1 .. Len(s) : s[i] \in Fits
  BY LaidType
<1>3. n \in Nat /\ c \in Nat /\ c <= Len(s) /\ n <= Len(w)
  BY <1>2
<1>4. W \in Seq(Byte) /\ CutOf(W, w, n)
  BY <1>1, Cut
<1>5. S \in Seq(Fits) /\ CutOf(S, s, c)
  BY <1>1, Cut
<1>6. E \in Seq(Nat) /\ CutOf(E, e, c)
  BY <1>1, Cut
<1> HIDE DEF W, S, E
<1>7. Len(W) = n /\ Len(S) = c /\ Len(E) = c
  BY <1>4, <1>5, <1>6 DEF CutOf
<1>8. \A i \in 0 .. c : EndOf(E, i) = EndOf(e, i)
  BY <1>3, <1>6 DEF EndOf, CutOf
<1>9. \A i, j \in 0 .. c : i <= j => EndOf(e, i) + (j - i) <= EndOf(e, j)
  <2>1. \A i, j \in 0 .. Len(s) : i <= j => EndOf(e, i) + (j - i) <= EndOf(e, j)
    BY DEF Laid
  <2>2. QED
    BY <1>2, <1>3, <2>1
<1>10. \A i \in 1 .. Len(s) : /\ e[i] = EndOf(e, i - 1) + Size(s[i])
                              /\ RecordAt(w, EndOf(e, i - 1), s[i])
  BY DEF Laid
<1>11. ASSUME NEW i \in 1 .. c
       PROVE  /\ E[i] = EndOf(E, i - 1) + Size(S[i])
              /\ RecordAt(W, EndOf(E, i - 1), S[i])
  <2> DEFINE p == EndOf(e, i - 1)
             r == s[i]
  <2>1. i \in 1 .. Len(s) /\ i - 1 \in 0 .. Len(s) /\ i - 1 \in 0 .. c /\ i \in 0 .. c /\ c \in 0 .. c /\ i <= c
    BY <1>2, <1>3
  <2>2. p \in Nat /\ r \in Fits /\ RecordAt(w, p, r) /\ e[i] = p + Size(r)
    BY <1>2, <1>10, <2>1
  <2>3. EndOf(e, i) = e[i]
    BY <2>1 DEF EndOf
  <2>4. E[i] = e[i] /\ S[i] = r /\ EndOf(E, i - 1) = p
    BY <1>5, <1>6, <1>8, <2>1 DEF CutOf
  <2> HIDE DEF p, r
  <2>5. p + Size(r) <= n /\ Size(r) \in Nat
    <3>1. e[i] + (c - i) <= EndOf(e, c) /\ EndOf(e, c) \in Nat /\ Size(r) \in Nat
      <4>1. EndOf(e, i) + (c - i) <= EndOf(e, c)
        BY <1>9, <2>1
      <4>2. EndOf(e, c) \in Nat
        BY <1>2
      <4>3. Size(r) \in Nat
        BY <2>2, FitsType
      <4>4. QED
        BY <2>3, <4>1, <4>2, <4>3
    <3>2. QED
      BY <1>3, <2>1, <2>2, <3>1
  <2>6. \A j \in 1 .. p + Size(r) : W[j] = w[j]
    BY <1>3, <1>4, <2>2, <2>5 DEF CutOf
  <2>7. RecordAt(W, p, r)
    <3>1. p + Size(r) <= Len(W)
      BY <1>7, <2>5
    <3>2. QED
      BY <2>2, <2>6, <3>1, RecordStays
  <2>8. QED
    BY <2>2, <2>4, <2>7
<1>12. EndOf(E, c) = EndOf(e, c) /\ EndOf(E, c) <= n
  BY <1>3, <1>8
<1>13. Laid(W, S, E)
  BY <1>4, <1>5, <1>6, <1>7, <1>8, <1>9, <1>11, <1>12 DEF Laid
<1>14. QED
  BY <1>7, <1>12, <1>13 DEF W, S, E


-----------------------------------------------------------------------------
(* The view of the tables: the newest one that has a key holds the value   *)
(* of the key's last record.                                               *)

Newest(t, i, k) ==
    /\ i \in 1 .. Len(t) /\ k \in DOMAIN t[i]
    /\ \A l \in 1 .. Len(t) : l > i => k \notin DOMAIN t[l]

LastOf(s, n, j, k) ==
    /\ j \in 1 .. n /\ s[j][1] = k
    /\ \A l \in 1 .. n : l > j => s[l][1] # k

Has(t, k) == \E i \in 1 .. Len(t) : k \in DOMAIN t[i]

Wrote(s, n, k) == \E j \in 1 .. n : s[j][1] = k

View(t, s, n) ==
    /\ \A k : Has(t, k) <=> Wrote(s, n, k)
    /\ \A k, i, j : Newest(t, i, k) /\ LastOf(s, n, j, k) => t[i][k] = s[j][2]

\* t is the tables of a process: its SSTables and, last, its memtable.
Tables(t, ss, map) ==
    /\ Len(t) = Len(ss) + 1 /\ Len(ss) \in Nat
    /\ \A i \in 1 .. Len(ss) : t[i] = ss[i]
    /\ t[Len(ss) + 1] = map

LEMMA TablesOf ==
    ASSUME NEW ss \in Seq(Map), NEW map \in Map
    PROVE  Append(ss, map) \in Seq(Map) /\ Tables(Append(ss, map), ss, map)
BY AppendProperties, LenProperties DEF Tables

\* The same view through the same first n records.
LEMMA ViewSame ==
    ASSUME NEW t, NEW s, NEW u, NEW n \in Nat, \A j \in 1 .. n : u[j] = s[j], View(t, s, n)
    PROVE  View(t, u, n)
<1>1. \A k : Wrote(u, n, k) <=> Wrote(s, n, k)
  BY DEF Wrote
<1>2. \A k, j : LastOf(u, n, j, k) <=> LastOf(s, n, j, k)
  BY DEF LastOf
<1>3. \A k, j : LastOf(u, n, j, k) => u[j] = s[j]
  BY DEF LastOf
<1>4. QED
  BY <1>1, <1>2, <1>3 DEF View

\* After a restart the replayed memtable is the only table.
LEMMA ViewReplay ==
    ASSUME NEW map \in Map, NEW s, NEW n \in Nat, Holds(map, s, n)
    PROVE  View(Append(<<>>, map), s, n)
<1> DEFINE t == Append(<<>>, map)
<1>1. Len(t) = 1 /\ t[1] = map
  OBVIOUS
<1> HIDE DEF t
<1>2. 1 .. Len(t) = {1}
  BY <1>1
<1>3. \A k : Has(t, k) <=> Wrote(s, n, k)
  BY <1>1, <1>2 DEF Has, Wrote, Holds
<1>4. ASSUME NEW k, NEW i, NEW j, Newest(t, i, k), LastOf(s, n, j, k)
      PROVE  t[i][k] = s[j][2]
  <2>1. i = 1 /\ j \in 1 .. n /\ s[j][1] = k /\ \A l \in 1 .. n : l > j => s[l][1] # k
    BY <1>2, <1>4 DEF Newest, LastOf
  <2>2. \A l \in (j + 1) .. n : s[l][1] # s[j][1]
    BY <2>1
  <2>3. map[s[j][1]] = s[j][2]
    BY <2>1, <2>2 DEF Holds
  <2>4. QED
    BY <1>1, <2>1, <2>3
<1>5. QED
  BY <1>3, <1>4 DEF View, t

\* A put shows in the memtable before any SSTable.
LEMMA ViewPut ==
    ASSUME NEW ss, NEW map \in Map, NEW r \in Record, NEW t, NEW u, NEW s, NEW n \in Nat, n > 0,
           Tables(t, ss, map), Tables(u, ss, insert(map, r)), s[n] = r, View(t, s, n - 1)
    PROVE  View(u, s, n)
<1> DEFINE N == Len(ss) + 1
           key == r[1]
           after == insert(map, r)
<1>1. N \in Nat /\ N >= 1 /\ Len(t) = N /\ Len(u) = N /\ t[N] = map /\ u[N] = after
      /\ \A i \in 1 .. N : i # N => u[i] = t[i]
  BY DEF Tables
<1>2. /\ DOMAIN after = DOMAIN map \cup {key} /\ after[key] = r[2]
      /\ \A k \in DOMAIN map : k # key => after[k] = map[k]
  BY InsertType
<1>3. 1 .. n = (1 .. (n - 1)) \cup {n}
  OBVIOUS
<1>a. s[n][1] = key /\ s[n][2] = r[2]
  OBVIOUS
<1> HIDE DEF N, key, after
<1>4. \A k : Has(u, k) <=> Has(t, k) \/ k = key
  <2> TAKE k
  <2>1. N \in 1 .. N
    BY <1>1
  <2>2. ASSUME Has(u, k) PROVE Has(t, k) \/ k = key
    <3>1. PICK i \in 1 .. N : k \in DOMAIN u[i]
      BY <1>1, <2>2 DEF Has
    <3>2. CASE i = N
      BY <1>1, <1>2, <2>1, <3>1, <3>2 DEF Has
    <3>3. CASE i # N
      BY <1>1, <3>1, <3>3 DEF Has
    <3>4. QED
      BY <3>2, <3>3
  <2>3. ASSUME k = key PROVE Has(u, k)
    BY <1>1, <1>2, <2>1, <2>3 DEF Has
  <2>4. ASSUME Has(t, k) PROVE Has(u, k)
    <3>1. PICK i \in 1 .. N : k \in DOMAIN t[i]
      BY <1>1, <2>4 DEF Has
    <3>2. k \in DOMAIN u[i]
      BY <1>1, <1>2, <3>1
    <3>3. QED
      BY <1>1, <3>2 DEF Has
  <2>5. QED
    BY <2>2, <2>3, <2>4
<1>5. \A k : Wrote(s, n, k) <=> Wrote(s, n - 1, k) \/ k = key
  BY <1>3, <1>a DEF Wrote
<1>6. \A k : Has(u, k) <=> Wrote(s, n, k)
  BY <1>4, <1>5 DEF View
<1>7. ASSUME NEW k, NEW i, NEW j, Newest(u, i, k), LastOf(s, n, j, k)
      PROVE  u[i][k] = s[j][2]
  <2>1. i \in 1 .. N /\ k \in DOMAIN u[i] /\ \A l \in 1 .. N : l > i => k \notin DOMAIN u[l]
    BY <1>1, <1>7 DEF Newest
  <2>2. j \in 1 .. n /\ s[j][1] = k /\ \A l \in 1 .. n : l > j => s[l][1] # k
    BY <1>7 DEF LastOf
  <2>3. CASE k = key
    <3>1. j = n
      BY <1>a, <2>2, <2>3
    <3>2. i = N
      <4>1. N \in 1 .. N /\ k \in DOMAIN u[N]
        BY <1>1, <1>2, <2>3
      <4>2. QED
        BY <1>1, <2>1, <4>1
    <3>3. QED
      BY <1>1, <1>2, <1>a, <2>3, <3>1, <3>2
  <2>4. CASE k # key
    <3>1. j \in 1 .. (n - 1) /\ LastOf(s, n - 1, j, k)
      BY <1>3, <1>a, <2>2, <2>4 DEF LastOf
    <3>2. \A l \in 1 .. N : k \in DOMAIN u[l] <=> k \in DOMAIN t[l]
      BY <1>1, <1>2, <2>4
    <3>3. Newest(t, i, k)
      BY <1>1, <2>1, <3>2 DEF Newest
    <3>4. t[i][k] = s[j][2]
      BY <3>1, <3>3 DEF View
    <3>5. u[i][k] = t[i][k]
      BY <1>1, <1>2, <2>1, <2>4, <3>2
    <3>6. QED
      BY <3>4, <3>5
  <2>5. QED
    BY <2>3, <2>4
<1>8. QED
  BY <1>6, <1>7 DEF View

\* A flush moves the memtable's map, and an empty one takes its place.
LEMMA ViewFlush ==
    ASSUME NEW t, NEW u, NEW map, DOMAIN map = {}, Tables(u, t, map), NEW s, NEW n, View(t, s, n)
    PROVE  View(u, s, n)
<1> DEFINE N == Len(t)
<1>1. N \in Nat /\ Len(u) = N + 1 /\ u[N + 1] = map /\ \A i \in 1 .. N : u[i] = t[i]
  BY DEF Tables
<1>2. 1 .. (N + 1) = (1 .. N) \cup {N + 1}
  BY <1>1
<1> HIDE DEF N
<1>3. \A k : Has(u, k) <=> Has(t, k)
  BY <1>1, <1>2 DEF Has, N
<1>4. \A k, i : Newest(u, i, k) => Newest(t, i, k) /\ u[i] = t[i]
  <2> TAKE k, i
  <2>1. HAVE Newest(u, i, k)
  <2>2. i \in 1 .. (N + 1) /\ k \in DOMAIN u[i] /\ \A l \in 1 .. (N + 1) : l > i => k \notin DOMAIN u[l]
    BY <1>1, <2>1 DEF Newest
  <2>3. i \in 1 .. N
    BY <1>1, <1>2, <2>2
  <2>4. \A l \in 1 .. N : l > i => k \notin DOMAIN t[l]
    BY <1>1, <1>2, <2>2
  <2>5. QED
    BY <1>1, <2>2, <2>3, <2>4 DEF Newest, N
<1>5. QED
  BY <1>3, <1>4 DEF View

\* The greatest member of a set of positions.
LEMMA MaxIs ==
    ASSUME NEW n \in Nat, NEW S, S \subseteq 1 .. n, S # {}
    PROVE  Max(S) \in S /\ \A x \in S : Max(S) >= x
<1> DEFINE T == {n - x : x \in S}
<1>1. T \subseteq Nat /\ T # {}
  <2>1. \A x \in S : n - x \in Nat
    OBVIOUS
  <2>2. PICK x \in S : TRUE
    OBVIOUS
  <2>3. n - x \in T
    OBVIOUS
  <2>4. QED
    BY <2>1, <2>3
<1>2. PICK d \in T : \A y \in T : d <= y
  <2> HIDE DEF T
  <2>1. QED
    BY <1>1, LeastExists
<1>3. PICK m \in S : d = n - m
  BY <1>2
<1>4. \A x \in S : m >= x
  <2> TAKE x \in S
  <2>1. n - x \in T
    OBVIOUS
  <2>2. d <= n - x /\ x \in 1 .. n /\ m \in 1 .. n
    BY <1>2, <2>1
  <2>3. QED
    BY <1>3, <2>2
<1>5. \E x \in S : \A y \in S : x >= y
  BY <1>4
<1>6. QED
  BY <1>5, Zenon DEF Max

\* Reading through the tables in that order finds the latest value.
LEMMA ViewReads ==
    ASSUME sstables \in Seq(Map), memtable.map \in Map, written \in Seq(Record),
           View(Append(sstables, memtable.map), written, Len(written)), NEW k
    PROVE  LsmGet(k) = Latest(k)
<1> DEFINE t == Append(sstables, memtable.map)
           n == Len(written)
           A == {i \in DOMAIN t : k \in DOMAIN t[i]}
           B == {j \in DOMAIN written : written[j][1] = k}
<1>1. t \in Seq(Map) /\ Len(t) \in Nat /\ DOMAIN t = 1 .. Len(t) /\ n \in Nat /\ DOMAIN written = 1 .. n
  BY TablesOf, LenProperties
<1>2. LsmGet(k) = IF A = {} THEN <<>> ELSE <<t[Max(A)][k]>>
  BY DEF LsmGet
<1>3. Latest(k) = IF B = {} THEN <<>> ELSE <<written[Max(B)][2]>>
  BY DEF Latest
<1>4. View(t, written, n)
  OBVIOUS
<1> HIDE DEF t, n
<1>5. A = {} <=> B = {}
  <2>1. (A # {} <=> Has(t, k)) /\ (B # {} <=> Wrote(written, n, k))
    BY <1>1 DEF Has, Wrote
  <2>2. QED
    BY <1>4, <2>1 DEF View
<1>6. CASE A # {}
  <2>1. A \subseteq 1 .. Len(t) /\ B \subseteq 1 .. n /\ B # {}
    BY <1>1, <1>5, <1>6
  <2> DEFINE i == Max(A)
             j == Max(B)
  <2>2. (i \in A /\ \A x \in A : i >= x) /\ (j \in B /\ \A x \in B : j >= x)
    <3> HIDE DEF A, B
    <3>1. QED
      BY <1>1, <1>6, <2>1, MaxIs
  <2> HIDE DEF i, j
  <2>3. Newest(t, i, k)
    BY <1>1, <2>2 DEF Newest
  <2>4. LastOf(written, n, j, k)
    <3>1. j \in 1 .. n /\ written[j][1] = k
      BY <1>1, <2>2
    <3>2. ASSUME NEW l \in 1 .. n, l > j PROVE written[l][1] # k
      <4>1. SUFFICES ASSUME written[l][1] = k PROVE FALSE
        OBVIOUS
      <4>2. j >= l
        BY <1>1, <2>2, <4>1
      <4>3. QED
        BY <3>1, <3>2, <4>2
    <3>3. QED
      BY <3>1, <3>2 DEF LastOf
  <2>5. t[i][k] = written[j][2]
    BY <1>4, <2>3, <2>4 DEF View
  <2> HIDE DEF A, B
  <2>6. LsmGet(k) = <<t[i][k]>> /\ Latest(k) = <<written[j][2]>>
    BY <1>2, <1>3, <1>6, <2>1 DEF i, j
  <2>7. QED
    BY <2>5, <2>6
<1>7. CASE A = {}
  BY <1>2, <1>3, <1>5, <1>7
<1>8. QED
  BY <1>6, <1>7

-----------------------------------------------------------------------------
(* The inductive invariant.                                                *)

\* How many of the written records the tables show.
Shown == IF putting = <<>> THEN Len(written) ELSE Len(written) - 1

\* Without a tear the log ends with a whole record.
WholeLog == ~ torn => Len(wal) = EndOf(ends, Len(written))

\* A record that is not applied yet is the last one of the log.
Pending ==
    putting # <<>> =>
        /\ engine = "Some" /\ putting \in Fits
        /\ ~ torn => Len(written) > 0 /\ written[Len(written)] = putting

TableInv == memtable.map \in Map /\ SizeOf(memtable) /\ sstables \in Seq(Map)

Shows == engine = "Some" /\ ~ torn => View(Append(sstables, memtable.map), written, Shown)

\* The log is laid out as it was written, the pending record is its last, the
\* memtable's size is exact, and the tables show all records but the pending.
EngineInv ==
    /\ engine \in {"None", "Some"}
    /\ Laid(wal, written, ends)
    /\ WholeLog
    /\ Pending
    /\ TableInv
    /\ Shows

LEMMA EngineInit == Init => EngineInv
<1> SUFFICES ASSUME Init PROVE EngineInv
  OBVIOUS
<1>1. Laid(wal, written, ends)
  <2>1. wal = <<>> /\ written = <<>> /\ ends = <<>>
    BY DEF Init
  <2>2. <<>> \in Seq(Byte) /\ <<>> \in Seq(Fits) /\ <<>> \in Seq(Nat) /\ Len(<<>>) = 0
    OBVIOUS
  <2>3. 1 .. 0 = {} /\ 0 .. 0 = {0} /\ EndOf(<<>>, 0) = 0
    BY DEF EndOf
  <2>4. QED
    BY <2>1, <2>2, <2>3 DEF Laid
<1>2. WholeLog
  BY DEF Init, WholeLog, EndOf
<1>3. TableInv
  BY EmptyMap, EmptySize DEF Init, TableInv
<1>4. QED
  BY <1>1, <1>2, <1>3 DEF Init, EngineInv, Pending, Shows

\* hydra_open replays the whole log.
LEMMA OpenStep ==
    ASSUME EngineInv, hydra_open
    PROVE  EngineInv'
<1>1. /\ engine = "None" /\ engine' = "Some" /\ memtable' = replay(recover.records) /\ sstables' = <<>>
      /\ UNCHANGED <<wal, putting, written, ends, torn>>
  BY DEF hydra_open
<1>2. putting = <<>> /\ Laid(wal, written, ends) /\ wal \in Seq(Byte) /\ WholeLog
  BY <1>1 DEF EngineInv, Pending, Laid
<1> DEFINE s == recover.records
<1>3. s \in Seq(Record) /\ Len(s) \in Nat /\ Len(s) \in 0 .. Len(s)
  BY <1>2, RecoverType, LenProperties
<1>4. memtable'.map \in Map /\ SizeOf(memtable') /\ Holds(memtable'.map, s, Len(s))
  <2>1. memtable' = replaying(s)[Len(s)]
    BY <1>1 DEF replay
  <2> HIDE DEF s
  <2>2. QED
    BY <1>3, <2>1, ReplayHolds
<1>5. TableInv'
  BY <1>1, <1>4 DEF TableInv, SizeOf
<1>6. Shows'
  <2>1. SUFFICES ASSUME ~ torn PROVE View(Append(<<>>, memtable'.map), written, Len(written))
    BY <1>1, <1>2 DEF Shows, Shown
  <2>2. s = written
    BY <1>2, <2>1, RecoverExact DEF WholeLog
  <2>3. QED
    BY <1>3, <1>4, <2>2, ViewReplay
<1>7. QED
  BY <1>1, <1>2, <1>5, <1>6 DEF EngineInv, WholeLog, Pending

\* The log grows by a whole record, which is pending then.
LEMMA AppendStep ==
    ASSUME EngineInv, NEW k \in Keys, NEW v \in Values, append(k, v)
    PROVE  EngineInv'
<1> DEFINE r == <<k, v>>
<1>1. /\ engine = "Some" /\ putting = <<>> /\ wal' = wal \o record(r) /\ putting' = r
      /\ written' = IF torn THEN written ELSE Append(written, r)
      /\ ends' = IF torn THEN ends ELSE Append(ends, Len(wal'))
      /\ UNCHANGED <<engine, memtable, sstables, torn>>
  BY DEF append
<1>2. r \in Fits /\ r # <<>>
  BY PutFits
<1>3. Laid(wal, written, ends) /\ WholeLog /\ TableInv /\ Shows
  BY DEF EngineInv
<1>4. record(r) \in Seq(Byte)
  BY <1>2, RecordBytes DEF Text
<1> HIDE DEF r
<1>5. Laid(wal', written', ends') /\ WholeLog'
  <2>1. CASE torn
    <3>1. Laid(wal', written', ends')
      BY <1>1, <1>3, <1>4, <2>1, LaidGrows
    <3>2. QED
      BY <1>1, <2>1, <3>1 DEF WholeLog
  <2>2. CASE ~ torn
    <3>1. Len(wal) = EndOf(ends, Len(written))
      BY <1>3, <2>2 DEF WholeLog
    <3>2. /\ Laid(wal', Append(written, r), Append(ends, Len(wal')))
          /\ Len(wal') = EndOf(Append(ends, Len(wal')), Len(Append(written, r)))
      <4>1. wal' = wal \o record(r) /\ r \in Fits /\ Laid(wal, written, ends)
        BY <1>1, <1>2, <1>3
      <4>2. Appended(wal \o record(r), written, ends, r)
        BY <3>1, <4>1, LaidAppend
      <4>3. Appended(wal', written, ends, r)
        BY <4>1, <4>2
      <4>4. QED
        BY <4>3 DEF Appended
    <3>3. written' = Append(written, r) /\ ends' = Append(ends, Len(wal'))
      BY <1>1, <2>2
    <3>4. QED
      BY <3>2, <3>3 DEF WholeLog
  <2>3. QED
    BY <2>1, <2>2
<1>6. ASSUME ~ torn
      PROVE  /\ Len(written) \in Nat /\ Len(written') = Len(written) + 1
             /\ written'[Len(written')] = r
             /\ \A j \in 1 .. Len(written) : written'[j] = written[j]
  <2>1. written \in Seq(Fits) /\ Len(written) \in Nat
    BY <1>3, LaidType DEF Laid
  <2>2. /\ Len(Append(written, r)) = Len(written) + 1
        /\ Append(written, r)[Len(written) + 1] = r
        /\ \A j \in 1 .. Len(written) : Append(written, r)[j] = written[j]
    BY <1>2, <2>1, AppendProperties
  <2>3. written' = Append(written, r)
    BY <1>1, <1>6
  <2>4. QED
    BY <2>1, <2>2, <2>3
<1>7. Pending'
  <2>1. engine' = "Some" /\ putting' \in Fits
    BY <1>1, <1>2
  <2>2. ~ torn' => Len(written') > 0 /\ written'[Len(written')] = putting'
    BY <1>1, <1>6
  <2>3. QED
    BY <2>1, <2>2 DEF Pending
<1>8. Shows'
  <2>1. SUFFICES ASSUME ~ torn PROVE View(Append(sstables, memtable.map), written', Len(written') - 1)
    BY <1>1, <1>2 DEF Shows, Shown
  <2>2. View(Append(sstables, memtable.map), written, Len(written))
    BY <1>1, <1>3, <2>1 DEF Shows, Shown
  <2>3. Len(written') - 1 = Len(written)
    BY <1>6, <2>1
  <2>4. View(Append(sstables, memtable.map), written', Len(written))
    BY <1>6, <2>1, <2>2, ViewSame
  <2>5. QED
    BY <2>3, <2>4
<1>9. TableInv'
  BY <1>1, <1>3 DEF TableInv, SizeOf
<1>10. engine' \in {"None", "Some"}
  BY <1>1
<1>11. QED
  BY <1>5, <1>7, <1>8, <1>9, <1>10 DEF EngineInv

\* A cut append adds bytes behind the records.
LEMMA TornStep ==
    ASSUME EngineInv, NEW k \in Keys, NEW v \in Values, NEW n \in 0 .. Len(record(<<k, v>>)) - 1,
           append_torn(k, v, n)
    PROVE  EngineInv'
<1> DEFINE r == <<k, v>>
           b == SubSeq(record(r), 1, n)
<1>1. /\ engine = "Some" /\ putting = <<>> /\ wal' = wal \o b
      /\ engine' \in {"Some", "None"} /\ torn' = (torn \/ n > 0)
      /\ UNCHANGED <<memtable, sstables, putting, written, ends>>
  BY DEF append_torn
<1>2. record(r) \in Seq(Byte) /\ Len(record(r)) \in Nat
  BY PutFits, RecordBytes, LenProperties DEF Text
<1>3. n \in 0 .. Len(record(r)) /\ n \in Nat
  BY <1>2
<1>4. b \in Seq(Byte) /\ CutOf(b, record(r), n)
  BY <1>2, <1>3, Cut
<1>5. Laid(wal, written, ends) /\ WholeLog /\ TableInv /\ Shows /\ wal \in Seq(Byte)
  BY DEF EngineInv, Laid
<1> HIDE DEF r, b
<1>6. Laid(wal', written', ends')
  BY <1>1, <1>4, <1>5, LaidGrows
<1>7. ~ torn' => ~ torn /\ wal' = wal
  <2>1. SUFFICES ASSUME ~ torn' PROVE ~ torn /\ wal' = wal
    OBVIOUS
  <2>a. ~ (torn \/ n > 0)
    BY <1>1, <2>1, Zenon
  <2>2. ~ torn /\ n = 0
    BY <1>3, <2>a
  <2>3. b = <<>>
    BY <1>4, <2>2, EmptySeq DEF CutOf
  <2>4. QED
    BY <1>1, <1>5, <2>2, <2>3
<1>8. WholeLog'
  BY <1>1, <1>5, <1>7 DEF WholeLog
<1>9. Shows'
  BY <1>1, <1>5, <1>7 DEF Shows, Shown
<1>10. TableInv'
  BY <1>1, <1>5 DEF TableInv, SizeOf
<1>11. Pending'
  BY <1>1 DEF Pending
<1>12. engine' \in {"None", "Some"}
  BY <1>1
<1>13. QED
  BY <1>6, <1>8, <1>9, <1>10, <1>11, <1>12 DEF EngineInv

\* The pending record goes to the memtable, which may be flushed.
LEMMA ApplyStep ==
    ASSUME EngineInv, apply
    PROVE  EngineInv'
<1> DEFINE m == memtable_put(memtable, putting)
           n == Len(written)
<1>1. /\ engine = "Some" /\ putting # <<>> /\ putting' = <<>>
      /\ UNCHANGED <<engine, wal, written, ends, torn>>
  BY DEF apply
<1>2. \/ memtable' = empty /\ sstables' = Append(sstables, m.map)
      \/ memtable' = m /\ UNCHANGED sstables
  BY DEF apply, flush
<1>3. /\ Laid(wal, written, ends) /\ WholeLog /\ Shows /\ putting \in Fits /\ putting \in Record
      /\ ~ torn => n > 0 /\ written[n] = putting
  BY <1>1 DEF EngineInv, Pending, Fits
<1>4. memtable.map \in Map /\ SizeOf(memtable) /\ sstables \in Seq(Map)
  BY DEF EngineInv, TableInv
<1>5. m.map = insert(memtable.map, putting) /\ SizeOf(m)
  BY <1>3, <1>4, PutSize
<1>6. m.map \in Map
  BY <1>3, <1>4, <1>5, InsertType
<1> HIDE DEF m
<1>7. TableInv'
  <2>1. CASE memtable' = empty /\ sstables' = Append(sstables, m.map)
    BY <1>4, <1>6, <2>1, EmptyMap, EmptySize, TablesOf DEF TableInv, SizeOf
  <2>2. CASE memtable' = m /\ UNCHANGED sstables
    BY <1>4, <1>5, <1>6, <2>2 DEF TableInv, SizeOf
  <2>3. QED
    BY <1>2, <2>1, <2>2
<1>8. Shows'
  <2>1. SUFFICES ASSUME ~ torn PROVE View(Append(sstables', memtable'.map), written, n)
    BY <1>1 DEF Shows, Shown
  <2> DEFINE t == Append(sstables, memtable.map)
             u == Append(sstables, m.map)
  <2>2. View(t, written, n - 1) /\ n \in Nat /\ n > 0 /\ written[n] = putting
    BY <1>1, <1>3, <2>1, LaidType DEF Shows, Shown
  <2>3. Tables(t, sstables, memtable.map) /\ Tables(u, sstables, insert(memtable.map, putting)) /\ u \in Seq(Map)
    BY <1>4, <1>5, <1>6, TablesOf
  <2> HIDE DEF t, u, n
  <2>4. View(u, written, n)
    BY <1>3, <1>4, <2>2, <2>3, ViewPut
  <2>5. CASE memtable' = empty /\ sstables' = Append(sstables, m.map)
    <3>1. Tables(Append(u, empty.map), u, empty.map)
      BY <2>3, EmptyMap, TablesOf
    <3>2. View(Append(u, empty.map), written, n)
      BY <2>4, <3>1, EmptyMap, ViewFlush
    <3>3. QED
      BY <2>5, <3>2 DEF u
  <2>6. CASE memtable' = m /\ UNCHANGED sstables
    BY <2>4, <2>6 DEF u
  <2>7. QED
    BY <1>2, <2>5, <2>6
<1>9. Laid(wal', written', ends') /\ WholeLog'
  BY <1>1, <1>3 DEF WholeLog
<1>10. Pending' /\ engine' \in {"None", "Some"}
  BY <1>1 DEF Pending
<1>11. QED
  BY <1>7, <1>8, <1>9, <1>10 DEF EngineInv

\* A close or a crash leaves the log, and no engine.
LEMMA StopStep ==
    ASSUME EngineInv, hydra_close \/ Crash
    PROVE  EngineInv'
<1>1. /\ engine' = "None" /\ putting' = <<>>
      /\ UNCHANGED <<wal, memtable, sstables, written, ends, torn>>
  BY DEF hydra_close, Crash
<1>2. Laid(wal, written, ends) /\ WholeLog /\ TableInv
  BY DEF EngineInv
<1>3. Laid(wal', written', ends') /\ WholeLog'
  BY <1>1, <1>2 DEF WholeLog
<1>4. TableInv'
  BY <1>1, <1>2 DEF TableInv, SizeOf
<1>5. Pending' /\ Shows' /\ engine' \in {"None", "Some"}
  BY <1>1 DEF Pending, Shows
<1>6. QED
  BY <1>3, <1>4, <1>5 DEF EngineInv

\* A power failure leaves a part of the log and the records whole in it.
LEMMA PowerStep ==
    ASSUME EngineInv, PowerFailure
    PROVE  EngineInv'
<1>1. /\ engine' = "None" /\ putting' = <<>> /\ UNCHANGED <<memtable, sstables>>
  BY DEF PowerFailure
<1>2. PICK n \in 0 .. Len(wal), kept \in 0 .. Len(written) :
          /\ End(kept) <= n
          /\ wal' = SubSeq(wal, 1, n)
          /\ written' = SubSeq(written, 1, kept)
          /\ ends' = SubSeq(ends, 1, kept)
          /\ torn' = (n > End(kept))
  BY DEF PowerFailure
<1>3. Laid(wal, written, ends) /\ TableInv
  BY DEF EngineInv
<1>4. End(kept) = EndOf(ends, kept) /\ EndOf(ends, kept) \in Nat /\ n \in Nat
  <2>1. EndOf(ends, kept) \in Nat /\ Len(wal) \in Nat
    BY <1>3, LaidType
  <2>2. QED
    BY <2>1 DEF End, EndOf
<1>5. /\ Laid(wal', written', ends') /\ Len(wal') = n
      /\ EndOf(ends', Len(written')) = EndOf(ends, kept)
  <2>1. EndOf(ends, kept) <= n
    BY <1>2, <1>4
  <2>2. /\ Laid(SubSeq(wal, 1, n), SubSeq(written, 1, kept), SubSeq(ends, 1, kept))
        /\ Len(SubSeq(wal, 1, n)) = n
        /\ EndOf(SubSeq(ends, 1, kept), Len(SubSeq(written, 1, kept))) = EndOf(ends, kept)
    BY <1>3, <2>1, LaidCut
  <2>3. QED
    BY <1>2, <2>2
<1>6. WholeLog'
  <2>1. SUFFICES ASSUME ~ torn' PROVE Len(wal') = EndOf(ends', Len(written'))
    BY DEF WholeLog
  <2>2. ~ (n > EndOf(ends, kept))
    BY <1>2, <1>4, <2>1, Zenon
  <2>3. n = EndOf(ends, kept)
    BY <1>2, <1>4, <2>2
  <2>4. QED
    BY <1>5, <2>3
<1>7. TableInv'
  BY <1>1, <1>3 DEF TableInv, SizeOf
<1>8. Pending' /\ Shows' /\ engine' \in {"None", "Some"}
  BY <1>1 DEF Pending, Shows
<1>9. QED
  BY <1>5, <1>6, <1>7, <1>8 DEF EngineInv

LEMMA EngineStep == EngineInv /\ [Next]_vars => EngineInv'
<1> SUFFICES ASSUME EngineInv, [Next]_vars PROVE EngineInv'
  OBVIOUS
<1>1. CASE hydra_open
  BY <1>1, OpenStep
<1>2. CASE Put
  <2>1. PICK k \in Keys, v \in Values :
            \/ append(k, v)
            \/ \E n \in 0 .. Len(record(<<k, v>>)) - 1 : append_torn(k, v, n)
    BY <1>2 DEF Put
  <2>2. CASE append(k, v)
    BY <2>2, AppendStep
  <2>3. CASE \E n \in 0 .. Len(record(<<k, v>>)) - 1 : append_torn(k, v, n)
    BY <2>3, TornStep
  <2>4. QED
    BY <2>1, <2>2, <2>3
<1>3. CASE apply
  BY <1>3, ApplyStep
<1>4. CASE hydra_close \/ Crash
  BY <1>4, StopStep
<1>5. CASE PowerFailure
  BY <1>5, PowerStep
<1>6. CASE UNCHANGED vars
  <2>1. UNCHANGED <<engine, wal, memtable, sstables, putting, written, ends, torn>>
    BY <1>6 DEF vars
  <2>2. QED
    BY <2>1 DEF EngineInv, WholeLog, Pending, TableInv, Shows, Shown, SizeOf
<1>7. QED
  BY <1>1, <1>2, <1>3, <1>4, <1>5, <1>6 DEF Next

-----------------------------------------------------------------------------
\* Over every sequence of opens, puts, flushes that fail, cut appends, crashes
\* and power failures, the log stays laid out as written and the tables show
\* it: the inductive invariant of the engine.
THEOREM EngineInvariance == Spec => []EngineInv
<1>1. QED
  BY EngineInit, EngineStep, PTL DEF Spec

\* MemTable::put keeps its size exact, whatever is overwritten, flushed or
\* replayed (also from a log whose records were cut).
THEOREM MemtableSizeIsExact == Spec => []SizeExact
<1>1. EngineInv => SizeExact
  BY DEF EngineInv, TableInv, SizeOf, SizeExact
<1>2. QED
  BY <1>1, EngineInvariance, PTL

\* WAL::recover delivers the whole records of the log, in order, before
\* anything it makes of what follows a tear.
THEOREM RecoverKeepsWrites == Spec => []LogKeepsWrites
<1>1. EngineInv => LogKeepsWrites
  <2>1. SUFFICES ASSUME EngineInv PROVE LogKeepsWrites
    OBVIOUS
  <2> DEFINE s == recover.records
             n == Len(written)
  <2>2. Laid(wal, written, ends) /\ wal \in Seq(Byte)
    BY <2>1 DEF EngineInv, Laid
  <2>3. Extends(written, s) /\ s \in Seq(Record)
    BY <2>2, RecoverExtends, RecoverType
  <2>4. written \in Seq(Record) /\ n \in Nat /\ Len(s) \in Nat
    BY <2>2, <2>3, LaidType, LenProperties
  <2> HIDE DEF s
  <2>5. n <= Len(s) /\ n \in 0 .. Len(s) /\ n \in 0 .. Len(written) /\ \A i \in 1 .. n : s[i] = written[i]
    BY <2>3, <2>4 DEF Extends
  <2>6. SubSeq(written, 1, n) \in Seq(Record) /\ CutOf(SubSeq(written, 1, n), written, n)
    BY <2>4, <2>5, Cut
  <2>7. SubSeq(s, 1, n) \in Seq(Record) /\ CutOf(SubSeq(s, 1, n), s, n)
    BY <2>3, <2>5, Cut
  <2>8. SubSeq(written, 1, n) = SubSeq(s, 1, n)
    BY <2>5, <2>6, <2>7, SeqEqual DEF CutOf
  <2>9. QED
    BY <2>5, <2>8 DEF LogKeepsWrites, IsPrefix, s
<1>2. QED
  BY <1>1, EngineInvariance, PTL

\* As long as no append was cut, the engine's tables read from the newest to
\* the oldest answer every key with its latest logged value.
THEOREM TablesShowTheLog == Spec => []LsmView
<1>1. EngineInv => LsmView
  <2>1. SUFFICES ASSUME EngineInv, Serving, ~ torn, NEW k \in Keys PROVE LsmGet(k) = Latest(k)
    BY DEF LsmView
  <2>2. written \in Seq(Record)
    BY <2>1, LaidType DEF EngineInv
  <2>3. View(Append(sstables, memtable.map), written, Len(written))
    BY <2>1 DEF EngineInv, Shows, Shown, Serving
  <2>4. QED
    BY <2>1, <2>2, <2>3, ViewReads DEF EngineInv, TableInv
<1>2. QED
  BY <1>1, EngineInvariance, PTL
=============================================================================
