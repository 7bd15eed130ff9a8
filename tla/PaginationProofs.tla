--------------------------- MODULE PaginationProofs ---------------------------
(***************************************************************************)
(* Theorems about Pagination for any accounts, keys, page sizes and number *)
(* of changes.                                                             *)
(*                                                                         *)
(* A cursor is an offset, and what a client misses or sees twice depends   *)
(* on where rows stand in the list: the rank of a row is the number of     *)
(* rows before it.  A page holds the rows whose ranks it covers, a change  *)
(* of one row moves the rank of another by one at most, and no two rows    *)
(* have the same rank, so that each change moves one row at most over the  *)
(* offset the walk has reached.                                            *)
(***************************************************************************)
EXTENDS Pagination, FiniteSetTheorems, TLAPS

-----------------------------------------------------------------------------
(* Requests and histories as records.                                      *)
Stages == {"idle", "rows", "count", "answered", "done", "failed"}
Firsts == FirstValues \cup {Unset}
OrderBys == Orders \cup {"none"}
Pages == Seq(Accounts)
Truths == {TRUE, FALSE}
Requests == [stage : Stages, first : Firsts, orderBy : OrderBys, after : Cursors,
             rows : Pages, more : Truths, endCursor : Cursors]
Histories == [inserts : Nat, deletes : Nat, between : Nat, restarts : Nat]

Tables == [Accounts -> Keys \cup {Unset}]

LEMMA FieldValues ==
    /\ Stages = {"idle", "rows", "count", "answered", "done", "failed"}
    /\ Unset \in Firsts /\ Unset \in Cursors /\ Garbage \in Cursors
    /\ "none" \in OrderBys
    /\ <<>> \in Pages
    /\ TRUE \in Truths /\ FALSE \in Truths
<1>1. <<>> \in Seq(Accounts)
  OBVIOUS
<1> QED BY <1>1 DEF Stages, Firsts, Cursors, OrderBys, Pages, Truths

LEMMA Quotient ==
    ASSUME NEW n \in Int, NEW d \in Nat \ {0}
    PROVE  /\ n \div d \in Int
           /\ (n \div d) * d <= n
           /\ n < (n \div d) * d + d
<1>1. n \div d \in Int /\ n % d \in 0 .. d - 1
  OBVIOUS
<1>2. n = d * (n \div d) + (n % d)
  OBVIOUS
<1> QED BY <1>1, <1>2

(* A size that was rounded to l rows lies between all other numbers of     *)
(* rows as l does.                                                         *)
LEMMA Rounding ==
    ASSUME NEW size \in Int, NEW u \in Nat \ {0}, NEW l \in Int, NEW m \in Int,
           2 * u * l <= 2 * size + u, 2 * size <= 2 * u * l + u
    PROVE  /\ l < m => m * u > size
           /\ m < l => m * u < size
<1>1. ASSUME l < m PROVE m * u > size
  <2>1. PICK k \in Nat : m = l + 1 + k
    BY <1>1
  <2>2. m * u = l * u + u + k * u /\ k * u >= 0
    BY <2>1
  <2> QED BY <2>2
<1>2. ASSUME m < l PROVE m * u < size
  <2>1. PICK k \in Nat : l = m + 1 + k
    BY <1>2
  <2>2. l * u = m * u + u + k * u /\ k * u >= 0
    BY <2>1
  <2> QED BY <2>2
<1> QED BY <1>1, <1>2

LEMMA PageSizeType ==
    ASSUME NEW r, r.first \in Firsts
    PROVE  PageSize(r) \in Int
<1>1. /\ DefaultPageSize \in Int /\ Unit \in Int
      /\ FirstValues \subseteq Int \cup {Unset}
  BY ParameterAssumption DEF ParameterAssumption
<1>2. DefaultPageSize * Unit \in Int
  BY <1>1
<1> QED BY <1>1, <1>2 DEF PageSize, Firsts

(* The limit is less than half a row, or just that, from the size.         *)
LEMMA LimitRounds ==
    ASSUME NEW r, r.first \in Firsts
    PROVE  /\ Limit(r) \in Int
           /\ 2 * Unit * Limit(r) <= 2 * PageSize(r) + Unit
           /\ 2 * PageSize(r) <= 2 * Unit * Limit(r) + Unit
<1> DEFINE size == PageSize(r)
<1>1. size \in Int /\ Unit \in Nat \ {0}
  BY PageSizeType, ParameterAssumption DEF ParameterAssumption
<1>2. PICK d \in Nat \ {0} : d = 2 * Unit
  BY <1>1
<1> HIDE DEF size
<1>3. CASE size >= 0
  <2>1. PICK n \in Int : n = 2 * size + Unit
    BY <1>1
  <2>2. PICK l \in Int : l = n \div d
    BY Quotient
  <2>3. l * d <= n /\ n < l * d + d
    BY <2>2, Quotient
  <2>4. Limit(r) = l
    BY <1>2, <1>3, <2>1, <2>2 DEF Limit, size
  <2>5. l * d = 2 * Unit * l
    BY <1>1, <1>2
  <2> QED BY <1>1, <1>2, <2>1, <2>3, <2>4, <2>5 DEF size
<1>4. CASE size < 0
  <2>1. PICK n \in Int : n = Unit - 2 * size
    BY <1>1
  <2>2. PICK l \in Int : l = n \div d
    BY Quotient
  <2>3. l * d <= n /\ n < l * d + d
    BY <2>2, Quotient
  <2>4. Limit(r) = -l
    BY <1>1, <1>2, <1>4, <2>1, <2>2 DEF Limit, size
  <2>5. l * d = 2 * Unit * l /\ 2 * Unit * (-l) = -(2 * Unit * l)
    BY <1>1, <1>2
  <2> QED BY <1>1, <1>2, <2>1, <2>3, <2>4, <2>5 DEF size
<1> QED BY <1>1, <1>3, <1>4

(* So a whole number of rows other than the limit is on the same side of   *)
(* the size as of the limit.                                               *)
LEMMA LimitFacts ==
    ASSUME NEW r, r.first \in Firsts
    PROVE  /\ PageSize(r) \in Int /\ Limit(r) \in Int
           /\ PageSize(r) = 0 => Limit(r) = 0
           /\ \A m \in Int : /\ Limit(r) < m => m * Unit > PageSize(r)
                             /\ m < Limit(r) => m * Unit < PageSize(r)
<1>1. PageSize(r) \in Int /\ Limit(r) \in Int /\ Unit \in Nat \ {0}
  BY PageSizeType, LimitRounds, ParameterAssumption DEF ParameterAssumption
<1>2. \A m \in Int : /\ Limit(r) < m => m * Unit > PageSize(r)
                     /\ m < Limit(r) => m * Unit < PageSize(r)
  BY <1>1, LimitRounds, Rounding
<1>3. PageSize(r) = 0 => Limit(r) = 0
  <2>1. 0 * Unit = 0
    BY <1>1
  <2> QED BY <1>1, <1>2, <2>1
<1> QED BY <1>1, <1>2, <1>3

LEMMA SameSize ==
    ASSUME NEW r, NEW q, q.first = r.first
    PROVE  /\ PageSize(q) = PageSize(r) /\ Limit(q) = Limit(r)
           /\ RoundsToZero(q) <=> RoundsToZero(r)
           /\ RoundedUp(q) <=> RoundedUp(r)
BY DEF PageSize, Limit, RoundsToZero, RoundedUp

(* A cursor that is no garbage is an offset.                               *)
LEMMA AfterType ==
    ASSUME NEW r, r.after \in Cursors, r.after # Garbage
    PROVE  After(r) \in Nat
<1>1. CASE r.after = Unset
  BY <1>1 DEF After
<1>2. CASE r.after # Unset
  <2>1. Cardinality(Accounts) \in Nat
    BY AccountsAssumption, FS_CardinalityType DEF AccountsAssumption
  <2>2. PICK n \in 1 .. Cardinality(Accounts) : r.after = <<"base64", n>>
    BY <1>2 DEF Cursors, RowCursors, EncodeCursor
  <2>3. After(r) = n
    BY <1>2, <2>2 DEF After, DecodeCursor
  <2> QED BY <2>1, <2>3
<1> QED BY <1>1, <1>2

LEMMA NoGarbage ==
    ASSUME NEW n
    PROVE  EncodeCursor(n) # Garbage
<1>1. Len(<<"base64", n>>) = 2 /\ Len(<<"no number">>) = 1
  OBVIOUS
<1> QED BY <1>1 DEF EncodeCursor, Garbage

(* The end cursor of a page names the offset after its last row.           *)
LEMMA EndCursor ==
    ASSUME NEW r, r.rows \in Pages, r.rows # <<>>, After(r) \in Nat,
           After(r) + Len(r.rows) <= Cardinality(Accounts)
    PROVE  /\ GetEndCursor(r) \in RowCursors
           /\ GetEndCursor(r) # Unset /\ GetEndCursor(r) # Garbage
           /\ DecodeCursor(GetEndCursor(r)) = After(r) + Len(r.rows)
<1>1. PICK n \in Nat : n = Len(r.rows)
  BY DEF Pages
<1>2. n # 0
  BY <1>1 DEF Pages
<1>3. Cardinality(Accounts) \in Nat
  BY AccountsAssumption, FS_CardinalityType DEF AccountsAssumption
<1>4. After(r) + (n - 1) + 1 = After(r) + n
  OBVIOUS
<1>5. GetEndCursor(r) = EncodeCursor(After(r) + n)
  BY <1>1, <1>4 DEF GetEndCursor, MakeCursor
<1>6. After(r) + n \in 1 .. Cardinality(Accounts)
  BY <1>1, <1>2, <1>3
<1>7. GetEndCursor(r) \in RowCursors
  BY <1>5, <1>6 DEF RowCursors
<1>8. GetEndCursor(r) # Unset
  BY <1>7, CursorAssumption DEF CursorAssumption
<1>9. GetEndCursor(r) # Garbage
  BY <1>5, NoGarbage
<1>10. DecodeCursor(GetEndCursor(r)) = After(r) + n
  BY <1>5 DEF EncodeCursor, DecodeCursor
<1> QED BY <1>1, <1>7, <1>8, <1>9, <1>10
-----------------------------------------------------------------------------
(* Ranks, for any table t without ties and the order o, ASC or DESC.       *)
Less(o, k, l) == IF o = "ASC" THEN k < l ELSE l < k
Before(t, o, a) == {b \in Accounts : t[b] # Unset /\ Less(o, t[b], t[a])}
Rank(t, o, a) == Cardinality(Before(t, o, a))
PresentIn(t) == {a \in Accounts : t[a] # Unset}

LEMMA Finite ==
    ASSUME NEW S \in SUBSET Accounts
    PROVE  IsFiniteSet(S) /\ Cardinality(S) \in Nat
BY AccountsAssumption, FS_Subset, FS_CardinalityType DEF AccountsAssumption

(* A set with at most one element that another set does not have.          *)
LEMMA OneMore ==
    ASSUME NEW S, NEW T, NEW x, IsFiniteSet(S), T \subseteq S \cup {x}
    PROVE  Cardinality(T) <= Cardinality(S) + 1
<1>1. IsFiniteSet(S \cup {x})
  BY FS_AddElement
<1>2. Cardinality(S) \in Nat
  BY FS_CardinalityType
<1>3. Cardinality(S \cup {x}) = IF x \in S THEN Cardinality(S) ELSE Cardinality(S) + 1
  BY FS_AddElement
<1>4. Cardinality(S \cup {x}) \in Nat /\ Cardinality(S \cup {x}) <= Cardinality(S) + 1
  BY <1>2, <1>3
<1>5. Cardinality(T) <= Cardinality(S \cup {x}) /\ IsFiniteSet(T)
  BY <1>1, FS_Subset
<1>6. Cardinality(T) \in Nat
  BY <1>5, FS_CardinalityType
<1> QED BY <1>2, <1>4, <1>5, <1>6

LEMMA RankType ==
    ASSUME NEW t, NEW o, NEW a
    PROVE  /\ Before(t, o, a) \in SUBSET Accounts
           /\ Rank(t, o, a) \in Nat
BY Finite DEF Before, Rank

LEMMA KeyType ==
    ASSUME NEW t \in Tables, NEW a \in Accounts, t[a] # Unset
    PROVE  t[a] \in Int
BY KeysAssumption DEF KeysAssumption, Tables

(* The rank of a row is less than the number of rows.                      *)
LEMMA RankBound ==
    ASSUME NEW t \in Tables, NEW o, NEW a \in PresentIn(t)
    PROVE  Rank(t, o, a) < Cardinality(PresentIn(t))
<1> DEFINE P == PresentIn(t)
           B == Before(t, o, a)
<1>1. t[a] \in Int /\ a \in P
  BY KeyType DEF PresentIn
<1>2. B \in SUBSET P /\ a \notin B
  BY <1>1 DEF Before, Less, PresentIn
<1>3. IsFiniteSet(P) /\ Cardinality(P) \in Nat
  BY Finite DEF PresentIn
<1> HIDE DEF P, B
<1>4. /\ Cardinality(B) <= Cardinality(P)
      /\ Cardinality(P) = Cardinality(B) => P = B
  BY <1>2, <1>3, FS_Subset
<1>5. Cardinality(B) # Cardinality(P)
  BY <1>1, <1>2, <1>4
<1>6. Cardinality(B) \in Nat
  BY RankType DEF B, Rank
<1> QED BY <1>3, <1>4, <1>5, <1>6 DEF Rank, B, P

(* A row before another has the smaller rank.                              *)
LEMMA RankOfLess ==
    ASSUME NEW t \in Tables, NEW o, NEW a \in PresentIn(t), NEW b \in PresentIn(t),
           Less(o, t[a], t[b])
    PROVE  Rank(t, o, a) < Rank(t, o, b)
<1> DEFINE A == Before(t, o, a)
           B == Before(t, o, b)
<1>1. t[a] \in Int /\ t[b] \in Int /\ a \in Accounts /\ b \in Accounts /\ t[a] # Unset
  BY KeyType DEF PresentIn
<1>2. \A c \in Accounts : t[c] # Unset => t[c] \in Int
  BY KeyType
<1>3. a \in B /\ a \notin A
  BY <1>1 DEF Before, Less
<1>4. A \in SUBSET B
  BY <1>1, <1>2 DEF Before, Less
<1>5. IsFiniteSet(B) /\ Cardinality(B) \in Nat /\ Cardinality(A) \in Nat
  BY Finite DEF Before
<1> HIDE DEF A, B
<1>6. /\ Cardinality(A) <= Cardinality(B)
      /\ Cardinality(B) = Cardinality(A) => B = A
  BY <1>4, <1>5, FS_Subset
<1>7. Cardinality(A) # Cardinality(B)
  BY <1>3, <1>6
<1> QED BY <1>5, <1>6, <1>7 DEF Rank, A, B

(* No two rows have the same rank.                                         *)
LEMMA RankInjective ==
    ASSUME NEW t \in Tables, Untied(t), NEW o,
           NEW a \in PresentIn(t), NEW b \in PresentIn(t),
           Rank(t, o, a) = Rank(t, o, b)
    PROVE  a = b
<1> SUFFICES ASSUME a # b PROVE FALSE
  OBVIOUS
<1>1. t[a] \in Int /\ t[b] \in Int
  BY KeyType DEF PresentIn
<1>2. t[a] # t[b]
  BY DEF Untied, PresentIn
<1>3. Less(o, t[a], t[b]) \/ Less(o, t[b], t[a])
  BY <1>1, <1>2 DEF Less
<1>4. Rank(t, o, a) < Rank(t, o, b) \/ Rank(t, o, b) < Rank(t, o, a)
  BY <1>3, RankOfLess
<1>5. Rank(t, o, a) \in Nat
  BY RankType
<1> QED BY <1>4, <1>5

(* A change of row x moves the rank of another row by one at most: up only *)
(* if x is there afterwards, down only if it was there before.             *)
LEMMA RankMoves ==
    ASSUME NEW t \in Tables, NEW o, NEW x \in Accounts, NEW k,
           NEW u, u = [t EXCEPT ![x] = k],
           NEW b \in Accounts, b # x
    PROVE  /\ Rank(u, o, b) <= Rank(t, o, b) + 1
           /\ Rank(t, o, b) <= Rank(u, o, b) + 1
           /\ k = Unset => Rank(u, o, b) <= Rank(t, o, b)
           /\ t[x] = Unset => Rank(t, o, b) <= Rank(u, o, b)
<1> DEFINE S == Before(t, o, b)
           T == Before(u, o, b)
<1>1. \A c \in Accounts \ {x} : u[c] = t[c]
  BY DEF Tables
<1>2. u[x] = k
  BY DEF Tables
<1>3. S \in SUBSET Accounts /\ T \in SUBSET Accounts
  BY DEF Before
<1>4. S \subseteq T \cup {x} /\ T \subseteq S \cup {x}
  BY <1>1 DEF Before
<1>5. k = Unset => x \notin T
  BY <1>2 DEF Before
<1>6. t[x] = Unset => x \notin S
  BY DEF Before
<1>7. Rank(t, o, b) = Cardinality(S) /\ Rank(u, o, b) = Cardinality(T)
  BY DEF Rank
<1> HIDE DEF S, T
<1>8. /\ IsFiniteSet(S) /\ Cardinality(S) \in Nat
      /\ IsFiniteSet(T) /\ Cardinality(T) \in Nat
  BY <1>3, Finite
<1>9. /\ Cardinality(T) <= Cardinality(S) + 1
      /\ Cardinality(S) <= Cardinality(T) + 1
  BY <1>4, <1>8, OneMore
<1>10. k = Unset => Cardinality(T) <= Cardinality(S)
  BY <1>4, <1>5, <1>8, FS_Subset
<1>11. t[x] = Unset => Cardinality(S) <= Cardinality(T)
  BY <1>4, <1>6, <1>8, FS_Subset
<1> QED BY <1>7, <1>9, <1>10, <1>11
-----------------------------------------------------------------------------
(* Listings and pages.                                                     *)

LEMMA PresentType ==
    /\ Present = PresentIn(table)
    /\ Present \in SUBSET Accounts
    /\ IsFiniteSet(Present)
    /\ Cardinality(Present) \in Nat
    /\ Cardinality(Present) <= Cardinality(Accounts)
<1>1. Present = PresentIn(table) /\ Present \in SUBSET Accounts
  BY DEF Present, PresentIn
<1> QED BY <1>1, Finite, FS_Subset, AccountsAssumption DEF AccountsAssumption

(* A listing holds every row of the table once.                            *)
LEMMA ListingType ==
    ASSUME NEW o, NEW s \in Listings(o)
    PROVE  /\ s \in Seq(Accounts)
           /\ Len(s) = Cardinality(Present)
           /\ DOMAIN s = 1 .. Cardinality(Present)
           /\ s \in Bijection(1 .. Cardinality(Present), Present)
<1> DEFINE n == Cardinality(Present)
<1>1. s \in [1 .. n -> Present] /\ \A i, j \in 1 .. n : i # j => s[i] # s[j]
  BY DEF Listings, SetToSeqs
<1>2. n \in Nat /\ Present \in SUBSET Accounts /\ IsFiniteSet(Present)
  BY PresentType
<1> HIDE DEF n
<1>3. s \in Seq(Accounts) /\ Len(s) = n /\ DOMAIN s = 1 .. n
  BY <1>1, <1>2
<1>4. s \in Injection(1 .. n, Present)
  BY <1>1 DEF Injection, IsInjective
<1>5. IsFiniteSet(1 .. n) /\ Cardinality(1 .. n) = n
  BY <1>2, FS_Interval
<1>6. s \in Surjection(1 .. n, Present)
  BY <1>2, <1>4, <1>5, FS_Injection DEF n
<1> QED BY <1>3, <1>4, <1>6 DEF Bijection, n

(* The i-th row of a listing without ties has i - 1 rows before it.        *)
LEMMA ListingRank ==
    ASSUME table \in Tables, Untied(table), NEW o \in {"ASC", "DESC"},
           NEW s \in Listings(o), NEW i \in 1 .. Len(s)
    PROVE  Rank(table, o, s[i]) = i - 1
<1> DEFINE n == Cardinality(Present)
           B == Before(table, o, s[i])
           f == [j \in 1 .. i - 1 |-> s[j]]
<1>1. /\ Len(s) = n /\ n \in Nat
      /\ s \in [1 .. n -> Present]
      /\ \A j, k \in 1 .. n : s[j] = s[k] => j = k
      /\ \A a \in Present : \E j \in 1 .. n : s[j] = a
  BY ListingType, PresentType DEF Bijection, Injection, IsInjective, Surjection
<1>2. \A j, k \in 1 .. n : j < k => InOrder(o, s[j], s[k])
  BY <1>1 DEF Listings
<1>3. \A a \in Present : a \in Accounts /\ table[a] # Unset /\ table[a] \in Int
  BY KeyType DEF Present
<1>4. \A a \in Accounts : table[a] # Unset => a \in Present
  BY DEF Present
<1> HIDE DEF n
<1>5. \A j \in 1 .. n : j < i => s[j] \in B
  <2> SUFFICES ASSUME NEW j \in 1 .. n, j < i PROVE s[j] \in B
    OBVIOUS
  <2>1. InOrder(o, s[j], s[i]) /\ s[j] # s[i]
    BY <1>1, <1>2
  <2>2. s[j] \in Present /\ s[i] \in Present
    BY <1>1
  <2>3. table[s[j]] # table[s[i]]
    BY <1>3, <2>1, <2>2 DEF Untied
  <2>4. Less(o, table[s[j]], table[s[i]])
    BY <1>3, <2>1, <2>2, <2>3 DEF InOrder, Less
  <2> QED BY <1>3, <2>2, <2>4 DEF Before
<1>6. \A j \in 1 .. n : s[j] \in B => j < i
  <2> SUFFICES ASSUME NEW j \in 1 .. n, s[j] \in B, ~(j < i) PROVE FALSE
    OBVIOUS
  <2>1. s[j] \in Present /\ s[i] \in Present
    BY <1>1
  <2>2. Less(o, table[s[j]], table[s[i]])
    BY DEF Before
  <2>3. j = i \/ i < j
    BY <1>1
  <2>4. InOrder(o, s[i], s[j]) \/ s[i] = s[j]
    BY <1>1, <1>2, <2>3
  <2> QED BY <1>3, <2>1, <2>2, <2>4 DEF InOrder, Less
<1>7. B \in SUBSET Present
  BY <1>4 DEF Before
<1> HIDE DEF B
<1>8. f \in [1 .. i - 1 -> B] /\ \A j \in 1 .. i - 1 : f[j] = s[j] /\ j \in 1 .. n
  BY <1>1, <1>5
<1> HIDE DEF f
<1>9. f \in Injection(1 .. i - 1, B)
  BY <1>1, <1>8 DEF Injection, IsInjective
<1>10. \A a \in B : \E j \in 1 .. i - 1 : f[j] = a
  <2> SUFFICES ASSUME NEW a \in B PROVE \E j \in 1 .. i - 1 : f[j] = a
    OBVIOUS
  <2>1. PICK j \in 1 .. n : s[j] = a
    BY <1>1, <1>7
  <2>2. j \in 1 .. i - 1
    BY <1>1, <1>6, <2>1
  <2> QED BY <1>8, <2>1, <2>2
<1>11. f \in Surjection(1 .. i - 1, B)
  BY <1>8, <1>10 DEF Surjection
<1>12. ExistsBijection(1 .. i - 1, B)
  BY <1>9, <1>11 DEF ExistsBijection, Bijection
<1>13. IsFiniteSet(1 .. i - 1) /\ Cardinality(1 .. i - 1) = i - 1
  BY <1>1, FS_Interval
<1>14. Cardinality(B) = i - 1
  BY <1>12, <1>13, FS_Bijection
<1> QED BY <1>14 DEF Rank, B

(* The rows of a page of n rows.                                           *)
PageLength(r, n) ==
    IF n <= After(r) THEN 0
    ELSE IF PageSize(r) = 0 \/ n - After(r) <= Limit(r) THEN n - After(r)
    ELSE Limit(r)

LEMMA PageRows ==
    ASSUME NEW r, After(r) \in Nat, Limit(r) \in Nat, NEW s \in Seq(Accounts)
    PROVE  /\ Paginate(r, s) \in Pages
           /\ Len(Paginate(r, s)) = PageLength(r, Len(s))
           /\ \A i \in 1 .. Len(Paginate(r, s)) :
                 /\ After(r) + i \in 1 .. Len(s)
                 /\ Paginate(r, s)[i] = s[After(r) + i]
<1> DEFINE m == After(r) + 1
           last == After(r) + Limit(r)
           n == IF PageSize(r) = 0 \/ last > Len(s) THEN Len(s) ELSE last
<1>1. Paginate(r, s) = SubSeq(s, m, n)
  BY DEF Paginate
<1>2. m \in Nat /\ n \in Nat /\ m >= 1 /\ n <= Len(s) /\ Len(s) \in Nat
  OBVIOUS
<1>3. IF n < m THEN PageLength(r, Len(s)) = 0 ELSE PageLength(r, Len(s)) = n - m + 1
  BY DEF PageLength
<1> HIDE DEF m, n
<1>4. /\ SubSeq(s, m, n) \in Seq(Accounts)
      /\ Len(SubSeq(s, m, n)) = IF n < m THEN 0 ELSE n - m + 1
      /\ \A i \in 1 .. n - m + 1 : SubSeq(s, m, n)[i] = s[m + i - 1]
  BY <1>2
<1>5. Len(SubSeq(s, m, n)) = PageLength(r, Len(s))
  BY <1>3, <1>4
<1>6. \A i \in 1 .. Len(SubSeq(s, m, n)) : i \in 1 .. n - m + 1
  BY <1>2, <1>4
<1>7. \A i \in 1 .. n - m + 1 : After(r) + i = m + i - 1 /\ After(r) + i \in 1 .. Len(s)
  BY <1>2 DEF m
<1> QED BY <1>1, <1>4, <1>5, <1>6, <1>7 DEF Pages

(* In a list without ties a page holds the rows whose ranks it covers.     *)
LEMMA PageMembers ==
    ASSUME table \in Tables, Untied(table), NEW r, r.orderBy \in {"ASC", "DESC"},
           After(r) \in Nat, Limit(r) \in Nat,
           NEW s \in Listings(r.orderBy), NEW a \in Present
    PROVE  a \in ToSet(Paginate(r, s)) <=>
              /\ After(r) <= Rank(table, r.orderBy, a)
              /\ Rank(table, r.orderBy, a) < After(r) + Len(Paginate(r, s))
<1> DEFINE page == Paginate(r, s)
           N == Cardinality(Present)
<1>1. /\ s \in Seq(Accounts) /\ Len(s) = N /\ N \in Nat
      /\ \A j, k \in 1 .. N : s[j] = s[k] => j = k
      /\ \A b \in Present : \E j \in 1 .. N : s[j] = b
  BY ListingType, PresentType DEF Bijection, Injection, IsInjective, Surjection
<1>2. /\ page \in Seq(Accounts)
      /\ \A i \in 1 .. Len(page) : /\ After(r) + i \in 1 .. N
                                   /\ page[i] = s[After(r) + i]
  BY <1>1, PageRows DEF Pages
<1>3. Len(page) = PageLength(r, N)
  BY <1>1, PageRows
<1>4. PICK j \in 1 .. N : s[j] = a
  BY <1>1
<1>5. Rank(table, r.orderBy, a) = j - 1
  BY <1>1, <1>4, ListingRank
<1> HIDE DEF page, N
<1>6. PICK l \in Nat : l = Len(page)
  BY <1>2
<1>7. ASSUME a \in ToSet(page)
      PROVE  After(r) <= j - 1 /\ j - 1 < After(r) + l
  <2>1. PICK i \in 1 .. l : page[i] = a
    BY <1>2, <1>6, <1>7 DEF ToSet
  <2>2. After(r) + i = j
    BY <1>1, <1>2, <1>4, <1>6, <2>1
  <2> QED BY <1>6, <2>1, <2>2
<1>8. ASSUME After(r) <= j - 1, j - 1 < After(r) + l
      PROVE  a \in ToSet(page)
  <2>1. PICK i \in 1 .. l : After(r) + i = j
    <3>1. j - After(r) \in 1 .. l
      BY <1>1, <1>6, <1>8
    <3> QED BY <1>1, <3>1
  <2>2. page[i] = a
    BY <1>2, <1>4, <1>6, <2>1
  <2>3. i \in DOMAIN page
    BY <1>2, <1>6, <2>1
  <2> QED BY <2>2, <2>3 DEF ToSet
<1> QED BY <1>5, <1>6, <1>7, <1>8 DEF page

(* A page that is not full, or has no limit, is the last one.              *)
LEMMA LastPage ==
    ASSUME NEW r, After(r) \in Nat, Limit(r) \in Nat,
           PageSize(r) = 0 => Limit(r) = 0, NEW n \in Nat
    PROVE  /\ PageLength(r, n) \in Nat
           /\ Limit(r) >= 1 \/ RoundsToZero(r) => PageLength(r, n) <= Limit(r)
           /\ PageLength(r, n) # 0 => After(r) + PageLength(r, n) <= n
           /\ PageSize(r) = 0 \/ PageLength(r, n) < Limit(r) =>
                 n <= After(r) + PageLength(r, n)
BY DEF PageLength, RoundsToZero

-----------------------------------------------------------------------------
(* The requests of the steps.                                              *)

ListRequest(f, o, c) == [NoRequest EXCEPT !.stage = "rows", !.first = f,
                                          !.orderBy = o, !.after = c]

LEMMA NewRequest ==
    ASSUME NEW f \in Firsts, NEW o \in OrderBys, NEW c \in Cursors,
           NEW q, q = ListRequest(f, o, c)
    PROVE  /\ q \in Requests
           /\ q.stage = "rows" /\ q.first = f /\ q.orderBy = o /\ q.after = c
           /\ q.rows = <<>>
<1>1. "rows" \in Stages
  BY FieldValues
<1> QED BY <1>1, FieldValues DEF NoRequest, Requests, ListRequest

WithRows(r, page) == [r EXCEPT !.stage = "count", !.rows = page]

LEMMA RowsRequest ==
    ASSUME NEW r \in Requests, NEW page \in Pages,
           NEW q, q = WithRows(r, page)
    PROVE  /\ q \in Requests
           /\ q.stage = "count" /\ q.rows = page
           /\ q.first = r.first /\ q.orderBy = r.orderBy /\ q.after = r.after
           /\ After(q) = After(r) /\ PageSize(q) = PageSize(r)
           /\ Limit(q) = Limit(r) /\ (RoundsToZero(q) <=> RoundsToZero(r))
<1>1. "count" \in Stages
  BY FieldValues
<1>2. /\ q \in Requests
      /\ q.stage = "count" /\ q.rows = page
      /\ q.first = r.first /\ q.orderBy = r.orderBy /\ q.after = r.after
  BY <1>1 DEF Requests, WithRows
<1> QED BY <1>2, SameSize DEF After

WithCount(r, more, end) == [r EXCEPT !.stage = "answered", !.more = more,
                                     !.endCursor = end]

LEMMA CountRequest ==
    ASSUME NEW r \in Requests, NEW more \in Truths, NEW end \in Cursors,
           NEW q, q = WithCount(r, more, end)
    PROVE  /\ q \in Requests
           /\ q.stage = "answered" /\ q.more = more /\ q.endCursor = end
           /\ q.first = r.first /\ q.orderBy = r.orderBy /\ q.after = r.after
           /\ q.rows = r.rows
           /\ After(q) = After(r) /\ PageSize(q) = PageSize(r)
           /\ Limit(q) = Limit(r) /\ (RoundsToZero(q) <=> RoundsToZero(r))
           /\ GetEndCursor(q) = GetEndCursor(r)
<1>1. "answered" \in Stages
  BY FieldValues
<1>2. /\ q \in Requests
      /\ q.stage = "answered" /\ q.more = more /\ q.endCursor = end
      /\ q.first = r.first /\ q.orderBy = r.orderBy /\ q.after = r.after
      /\ q.rows = r.rows
  BY <1>1 DEF Requests, WithCount
<1> QED BY <1>2, SameSize DEF After, GetEndCursor, MakeCursor

NextPage(r) == [r EXCEPT !.stage = "rows", !.rows = <<>>, !.after = r.endCursor,
                         !.more = FALSE, !.endCursor = Unset]

LEMMA NextRequest ==
    ASSUME NEW r \in Requests, NEW q, q = NextPage(r)
    PROVE  /\ q \in Requests
           /\ q.stage = "rows" /\ q.rows = <<>> /\ q.after = r.endCursor
           /\ q.first = r.first /\ q.orderBy = r.orderBy
           /\ PageSize(q) = PageSize(r) /\ Limit(q) = Limit(r)
           /\ RoundsToZero(q) <=> RoundsToZero(r)
<1>1. "rows" \in Stages
  BY FieldValues
<1>2. /\ q \in Requests
      /\ q.stage = "rows" /\ q.rows = <<>> /\ q.after = r.endCursor
      /\ q.first = r.first /\ q.orderBy = r.orderBy
  BY <1>1, FieldValues DEF Requests, NextPage
<1> QED BY <1>2, SameSize

AtStage(r, stage) == [r EXCEPT !.stage = stage]

LEMMA StageRequest ==
    ASSUME NEW r \in Requests, NEW stage \in Stages,
           NEW q, q = AtStage(r, stage)
    PROVE  /\ q \in Requests
           /\ q.stage = stage /\ q.more = r.more /\ q.endCursor = r.endCursor
           /\ q.first = r.first /\ q.orderBy = r.orderBy /\ q.after = r.after
           /\ q.rows = r.rows
           /\ After(q) = After(r) /\ PageSize(q) = PageSize(r)
           /\ Limit(q) = Limit(r) /\ (RoundsToZero(q) <=> RoundsToZero(r))
           /\ GetEndCursor(q) = GetEndCursor(r)
<1>1. /\ q \in Requests
      /\ q.stage = stage /\ q.more = r.more /\ q.endCursor = r.endCursor
      /\ q.first = r.first /\ q.orderBy = r.orderBy /\ q.after = r.after
      /\ q.rows = r.rows
  BY DEF Requests, AtStage
<1> QED BY <1>1, SameSize DEF After, GetEndCursor, MakeCursor

LEMMA RequestType ==
    ASSUME NEW r \in Requests
    PROVE  /\ r.stage \in Stages /\ r.first \in Firsts /\ r.orderBy \in OrderBys
           /\ r.after \in Cursors /\ r.rows \in Pages /\ r.more \in Truths
           /\ r.endCursor \in Cursors
           /\ PageSize(r) \in Int /\ Limit(r) \in Int
           /\ PageSize(r) = 0 => Limit(r) = 0
           /\ Len(r.rows) \in Nat
           /\ r.after # Garbage => After(r) \in Nat
<1>1. /\ r.stage \in Stages /\ r.first \in Firsts /\ r.orderBy \in OrderBys
      /\ r.after \in Cursors /\ r.rows \in Pages /\ r.more \in Truths
      /\ r.endCursor \in Cursors
  BY DEF Requests
<1>2. Len(r.rows) \in Nat
  BY <1>1 DEF Pages
<1> QED BY <1>1, <1>2, LimitFacts, AfterType
-----------------------------------------------------------------------------
(* The inductive invariant.                                                *)

TypeInv ==
    /\ table \in Tables
    /\ Ties \/ Untied(table)
    /\ request \in Requests
    /\ Limit(request) >= 1 \/ RoundsToZero(request) =>
          Len(request.rows) <= Limit(request)
    /\ listed \in [Accounts -> 0 .. 2]
    /\ stayed \subseteq Present
    /\ changes \in Histories

Fetched == request.stage \in {"count", "answered", "done"}

(* The offset the walk has reached: that of the request and the rows of    *)
(* its page.                                                               *)
Reached == After(request) + Len(request.rows)

RequestInv ==
    /\ request.stage = "idle" =>
          changes = NoChanges /\ \A a \in Accounts : listed[a] = 0
    /\ request.stage = "rows" => request.rows = <<>>
    /\ Fetched => Limit(request) >= 0 /\ request.after # Garbage
    /\ Fetched /\ request.rows # <<>> => Reached <= Cardinality(Accounts)
    /\ request.stage \in {"answered", "done"} =>
          request.endCursor = GetEndCursor(request)
    /\ request.stage = "done" => ~request.more

(* Between the two statements: the page is one of a table that had n rows, *)
(* and the table has become longer by no more than was inserted.           *)
CountInv ==
    request.stage = "count" =>
        \E n \in Nat :
            /\ Len(request.rows) = PageLength(request, n)
            /\ Cardinality(Present) <= n + changes.between
            /\ changes.inserts = 0 /\ changes.deletes = 0 =>
                  Cardinality(Present) = n

(* What the client has of the walk, the page it waits for included.        *)
OnPage(a) == request.stage = "count" /\ a \in ToSet(request.rows)
Seen(a) == listed[a] # 0 \/ OnPage(a)
Twice(a) == listed[a] = 2 \/ (listed[a] = 1 /\ OnPage(a))
RankOf(a) == Rank(table, request.orderBy, a)

(* Rows the walk has passed by and will not come to, and rows it has seen  *)
(* and returned again, or will when it comes to where they stand now.      *)
Missed == {a \in stayed : ~Seen(a) /\ RankOf(a) < Reached}
Again == {a \in stayed : Twice(a) \/ (Seen(a) /\ Reached <= RankOf(a))}

(* The page is the last one: it was not full, or the count has said so.    *)
(* Then no row the walk has not seen will be seen any more.                *)
LastFetched ==
    /\ Fetched
    /\ \/ PageSize(request) = 0
       \/ Len(request.rows) < Limit(request)
       \/ request.stage # "count" /\ ~request.more
Unseen == {a \in stayed : ~Seen(a)}

Judged ==
    /\ request.stage \in {"rows", "count", "answered", "done"}
    /\ request.after # Garbage
    /\ TotalOrder
    /\ changes.restarts = 0

WalkInv ==
    Judged => /\ Cardinality(Missed) <= changes.deletes
              /\ Cardinality(Again) <= changes.inserts
              /\ LastFetched => Cardinality(Unseen) <= changes.deletes

IInv == TypeInv /\ RequestInv /\ CountInv /\ HasNextPageIsRight /\ WalkInv

-----------------------------------------------------------------------------
LEMMA HistoryType ==
    ASSUME TypeInv
    PROVE  /\ changes.inserts \in Nat /\ changes.deletes \in Nat
           /\ changes.between \in Nat /\ changes.restarts \in Nat
BY DEF TypeInv, Histories

LEMMA JudgedFacts ==
    ASSUME TypeInv, Judged
    PROVE  /\ request.orderBy \in {"ASC", "DESC"}
           /\ Untied(table)
           /\ After(request) \in Nat
<1>1. request.orderBy \in OrderBys /\ request.after # Garbage
  BY RequestType DEF TypeInv, Judged
<1>2. After(request) \in Nat
  BY <1>1, RequestType DEF TypeInv
<1>3. request.orderBy \in {"ASC", "DESC"}
  BY <1>1, ParameterAssumption
     DEF ParameterAssumption, OrderBys, Judged, TotalOrder
<1> QED BY <1>2, <1>3 DEF TypeInv, Judged, TotalOrder

LEMMA WalkSets ==
    ASSUME TypeInv
    PROVE  /\ Missed \in SUBSET Accounts /\ IsFiniteSet(Missed)
           /\ Again \in SUBSET Accounts /\ IsFiniteSet(Again)
           /\ Unseen \in SUBSET Accounts /\ IsFiniteSet(Unseen)
           /\ Cardinality(Missed) \in Nat
           /\ Cardinality(Again) \in Nat
           /\ Cardinality(Unseen) \in Nat
<1>1. stayed \in SUBSET Accounts
  BY PresentType DEF TypeInv
<1>2. /\ Missed \in SUBSET Accounts /\ Again \in SUBSET Accounts
      /\ Unseen \in SUBSET Accounts
  BY <1>1 DEF Missed, Again, Unseen
<1> QED BY <1>2, Finite

(* A step of the client or the server leaves the history of changes alone  *)
(* and lets the rows missed and seen again become fewer at most.           *)
LEMMA WalkStep ==
    ASSUME TypeInv, WalkInv, Judged' => Judged,
           Judged' => Missed' \subseteq Missed,
           Judged' => Again' \subseteq Again,
           Judged' /\ LastFetched' =>
              \/ Unseen' \subseteq Missed
              \/ LastFetched /\ Unseen' \subseteq Unseen,
           changes'.inserts = changes.inserts, changes'.deletes = changes.deletes
    PROVE  WalkInv'
<1> SUFFICES ASSUME Judged'
             PROVE  /\ Cardinality(Missed') <= changes.deletes
                    /\ Cardinality(Again') <= changes.inserts
                    /\ LastFetched' => Cardinality(Unseen') <= changes.deletes
  BY DEF WalkInv
<1>1. /\ changes.inserts \in Nat /\ changes.deletes \in Nat
      /\ IsFiniteSet(Missed) /\ IsFiniteSet(Again) /\ IsFiniteSet(Unseen)
      /\ Cardinality(Missed) \in Nat /\ Cardinality(Again) \in Nat
      /\ Cardinality(Unseen) \in Nat
  BY HistoryType, WalkSets
<1>2. \A S, T : IsFiniteSet(S) /\ T \subseteq S =>
         Cardinality(T) \in Nat /\ Cardinality(T) <= Cardinality(S)
  BY FS_Subset, FS_CardinalityType
<1>3. /\ Cardinality(Missed) <= changes.deletes
      /\ Cardinality(Again) <= changes.inserts
      /\ LastFetched => Cardinality(Unseen) <= changes.deletes
  BY DEF WalkInv
<1>4. Cardinality(Missed') <= changes.deletes
  BY <1>1, <1>2, <1>3
<1>5. Cardinality(Again') <= changes.inserts
  BY <1>1, <1>2, <1>3
<1>6. ASSUME LastFetched' PROVE Cardinality(Unseen') <= changes.deletes
  BY <1>1, <1>2, <1>3, <1>6
<1> QED BY <1>4, <1>5, <1>6

-----------------------------------------------------------------------------
LEMMA InitInv == Init => IInv
<1> SUFFICES ASSUME Init PROVE IInv
  OBVIOUS
<1>1. /\ "idle" \in Stages /\ NoRequest \in Requests
      /\ request.stage = "idle" /\ request.rows = <<>>
  BY FieldValues DEF Init, NoRequest, Requests
<1>2. NoChanges \in Histories
  BY DEF NoChanges, Histories
<1>3. Len(request.rows) = 0
  BY <1>1
<1>4. PageSize(request) \in Int /\ Limit(request) \in Int
  BY <1>1, RequestType DEF Init
<1>5. TypeInv
  BY <1>1, <1>2, <1>3, <1>4 DEF Init, TypeInv, Tables, RoundsToZero
<1>6. RequestInv
  BY <1>1 DEF Init, RequestInv, Fetched
<1> QED BY <1>1, <1>5, <1>6 DEF IInv, CountInv, HasNextPageIsRight, WalkInv,
                                Judged

LEMMA StartListInv ==
    ASSUME IInv, NEW f \in FirstValues, NEW o \in Orders,
           NEW c \in {Unset, Garbage}, StartList(f, o, c)
    PROVE  IInv'
<1>1. /\ request.stage = "idle"
      /\ UNCHANGED <<table, listed, changes>> /\ stayed' = Present
  BY DEF StartList
<1>2. f \in Firsts /\ o \in OrderBys /\ c \in Cursors
  BY DEF Firsts, OrderBys, Cursors
<1>3. PICK q : q = ListRequest(f, o, c) /\ request' = q
  BY DEF StartList, ListRequest
<1>4. /\ q \in Requests
      /\ q.stage = "rows" /\ q.first = f /\ q.orderBy = o /\ q.after = c
      /\ q.rows = <<>>
  BY <1>2, <1>3, NewRequest
<1>5. Len(q.rows) = 0 /\ Limit(q) \in Int
  BY <1>4, RequestType
<1>6. Present' = Present
  BY <1>1 DEF Present
<1>7. TypeInv'
  BY <1>1, <1>3, <1>4, <1>5, <1>6 DEF IInv, TypeInv, Untied, RoundsToZero
<1>8. RequestInv'
  BY <1>3, <1>4 DEF RequestInv, Fetched
<1>9. CountInv' /\ HasNextPageIsRight'
  BY <1>3, <1>4 DEF CountInv, HasNextPageIsRight
<1>10. WalkInv'
  <2> SUFFICES ASSUME Judged'
               PROVE  /\ Missed' = {} /\ Again' = {} /\ ~LastFetched'
                      /\ changes'.deletes \in Nat /\ changes'.inserts \in Nat
    BY FS_EmptySet DEF WalkInv
  <2>1. c = Unset
    BY <1>3, <1>4 DEF Judged
  <2>2. Reached' = 0
    BY <1>3, <1>4, <1>5, <2>1 DEF Reached, After
  <2>3. \A a \in Accounts : ~Seen(a)' /\ ~Twice(a)'
    BY <1>1, <1>3, <1>4 DEF IInv, RequestInv, Seen, Twice, OnPage
  <2>4. \A a \in Accounts : ~(RankOf(a)' < 0)
    BY RankType DEF RankOf
  <2>5. stayed' \in SUBSET Accounts
    BY <1>1, PresentType
  <2>6. Missed' = {} /\ Again' = {}
    BY <2>2, <2>3, <2>4, <2>5 DEF Missed, Again
  <2>7. ~LastFetched'
    BY <1>3, <1>4 DEF LastFetched, Fetched
  <2>8. changes'.deletes \in Nat /\ changes'.inserts \in Nat
    BY <1>1, HistoryType DEF IInv
  <2> QED BY <2>6, <2>7, <2>8
<1> QED BY <1>7, <1>8, <1>9, <1>10 DEF IInv

LEMMA FetchRefusedInv ==
    ASSUME IInv, FetchRefused
    PROVE  IInv'
<1>1. /\ UNCHANGED <<table, listed, stayed, changes>>
      /\ request \in Requests /\ "failed" \in Stages
  BY FieldValues DEF FetchRefused, IInv, TypeInv
<1>2. PICK q : q = AtStage(request, "failed") /\ request' = q
  BY DEF FetchRefused, AtStage
<1>3. /\ q \in Requests
      /\ q.stage = "failed" /\ q.rows = request.rows
      /\ Limit(q) = Limit(request)
      /\ RoundsToZero(q) <=> RoundsToZero(request)
  BY <1>1, <1>2, StageRequest
<1>4. Present' = Present
  BY <1>1 DEF Present
<1>5. TypeInv'
  BY <1>1, <1>2, <1>3, <1>4 DEF IInv, TypeInv, Untied
<1>6. RequestInv'
  BY <1>2, <1>3 DEF RequestInv, Fetched
<1> QED BY <1>2, <1>3, <1>5, <1>6
        DEF IInv, CountInv, HasNextPageIsRight, WalkInv, Judged

(* The page holds the rows from the offset on: those not seen before stand *)
(* where the walk has come to, and those seen before had moved there.      *)
LEMMA FetchRowsInv ==
    ASSUME IInv, FetchRows
    PROVE  IInv'
<1>1. /\ request.stage = "rows" /\ ~Refused(request)
      /\ UNCHANGED <<table, listed, stayed>>
      /\ changes' = [changes EXCEPT !.between = 0]
  BY DEF FetchRows
<1>2. /\ request \in Requests /\ request.rows = <<>>
      /\ Len(request.rows) = 0
      /\ changes \in Histories
  BY <1>1 DEF IInv, TypeInv, RequestInv
<1>3. /\ request.after # Garbage
      /\ After(request) \in Nat /\ Limit(request) \in Nat
      /\ PageSize(request) \in Int /\ (PageSize(request) = 0 => Limit(request) = 0)
  BY <1>1, <1>2, RequestType DEF Refused
<1>4. PICK s \in Listings(request.orderBy) :
         request' = [request EXCEPT !.stage = "count",
                                    !.rows = Paginate(request, s)]
  BY DEF FetchRows
<1>5. s \in Seq(Accounts) /\ Len(s) = Cardinality(Present)
  BY ListingType
<1>6. PICK N \in Nat : N = Cardinality(Present)
  BY PresentType
<1>7. PICK page : page = Paginate(request, s)
  OBVIOUS
<1>8. page \in Pages /\ Len(page) = PageLength(request, N)
  BY <1>3, <1>5, <1>6, <1>7, PageRows
<1>9. PICK q : q = WithRows(request, page)
  OBVIOUS
<1>10. request' = q
  BY <1>4, <1>7, <1>9 DEF WithRows
<1>11. /\ q \in Requests
       /\ q.stage = "count" /\ q.rows = page
       /\ q.first = request.first /\ q.orderBy = request.orderBy
       /\ q.after = request.after
       /\ After(q) = After(request) /\ PageSize(q) = PageSize(request)
       /\ Limit(q) = Limit(request)
       /\ RoundsToZero(q) <=> RoundsToZero(request)
  BY <1>2, <1>8, <1>9, RowsRequest
<1>12. /\ changes' \in Histories
       /\ changes'.inserts = changes.inserts
       /\ changes'.deletes = changes.deletes
       /\ changes'.between = 0
       /\ changes'.restarts = changes.restarts
  BY <1>1, <1>2 DEF Histories
<1>13. Present' = Present
  BY <1>1 DEF Present
<1>14. PICK l \in Nat : l = PageLength(request, N)
  BY <1>3, LastPage
<1>15. /\ Limit(request) >= 1 \/ RoundsToZero(request) => l <= Limit(request)
       /\ l # 0 => After(request) + l <= N
       /\ PageSize(request) = 0 \/ l < Limit(request) =>
             N <= After(request) + l
  BY <1>3, <1>14, LastPage
<1>16. TypeInv'
  BY <1>1, <1>8, <1>10, <1>11, <1>12, <1>13, <1>14, <1>15
     DEF IInv, TypeInv, Untied
<1>17. RequestInv'
  <2>1. N <= Cardinality(Accounts) /\ Cardinality(Accounts) \in Nat
    BY <1>6, PresentType, Finite
  <2>2. page # <<>> => l # 0
    BY <1>8, <1>14 DEF Pages
  <2>3. page # <<>> => After(request) + l <= Cardinality(Accounts)
    BY <1>3, <1>15, <2>1, <2>2
  <2>4. Reached' = After(request) + l
    BY <1>8, <1>10, <1>11, <1>14 DEF Reached
  <2> QED BY <1>3, <1>10, <1>11, <2>3, <2>4 DEF RequestInv
<1>18. CountInv'
  <2>1. PageLength(q, N) = PageLength(request, N)
    BY <1>11 DEF PageLength
  <2>2. Len(request'.rows) = PageLength(request, N)'
    BY <1>8, <1>10, <1>11, <2>1
  <2>3. Cardinality(Present') = N /\ N <= N + changes'.between
    BY <1>6, <1>12, <1>13
  <2> QED BY <2>2, <2>3 DEF CountInv
<1>19. HasNextPageIsRight'
  BY <1>10, <1>11 DEF HasNextPageIsRight
<1>20. WalkInv'
  <2> DEFINE A == After(request)
  <2>1. Judged' => Judged
    BY <1>1, <1>3, <1>10, <1>11, <1>12 DEF Judged, TotalOrder
  <2>2. Reached = A /\ Reached' = A + l
    BY <1>2, <1>3, <1>8, <1>10, <1>11, <1>14 DEF Reached
  <2>3. \A a \in stayed : a \in Present /\ a \in Accounts
    BY PresentType DEF IInv, TypeInv
  <2>4. \A a \in Accounts : RankOf(a)' = RankOf(a) /\ RankOf(a) \in Nat
    BY <1>1, <1>10, <1>11, RankType DEF RankOf
  <2>5. \A a \in Accounts : /\ Seen(a) <=> listed[a] # 0
                            /\ Twice(a) <=> listed[a] = 2
                            /\ Seen(a)' <=> listed[a] # 0 \/ a \in ToSet(page)
                            /\ Twice(a)' <=> \/ listed[a] = 2
                                             \/ listed[a] = 1 /\ a \in ToSet(page)
    BY <1>1, <1>10, <1>11 DEF Seen, Twice, OnPage
  <2>6. ASSUME Judged'
        PROVE  \A a \in stayed : a \in ToSet(page) <=>
                  A <= RankOf(a) /\ RankOf(a) < A + l
    <3>1. /\ request.orderBy \in {"ASC", "DESC"} /\ Untied(table)
          /\ table \in Tables
      BY <2>1, <2>6, JudgedFacts DEF IInv, TypeInv
    <3>2. Len(page) = l
      BY <1>8, <1>14
    <3> QED BY <1>3, <1>7, <2>3, <3>1, <3>2, PageMembers DEF RankOf
  <2>7. ASSUME Judged', PageSize(request) = 0 \/ l < Limit(request)
        PROVE  \A a \in stayed : RankOf(a) < A + l
    <3>1. \A a \in stayed : RankOf(a) < N
      BY <1>6, <2>3, PresentType, RankBound DEF IInv, TypeInv, RankOf
    <3> QED BY <1>3, <1>15, <2>3, <2>4, <2>7, <3>1
  <2>8. stayed' = stayed /\ A \in Nat
    BY <1>1, <1>3
  <2> HIDE DEF A
  <2>9. ASSUME Judged' PROVE Missed' \subseteq Missed
    BY <2>2, <2>3, <2>4, <2>5, <2>6, <2>8, <2>9 DEF Missed
  <2>10. ASSUME Judged' PROVE Again' \subseteq Again
    BY <2>2, <2>3, <2>4, <2>5, <2>6, <2>8, <2>10, <1>14,
       \A a \in Accounts : listed[a] = 1 => listed[a] # 0
       DEF Again
  <2>11. LastFetched' => PageSize(request) = 0 \/ l < Limit(request)
    BY <1>8, <1>10, <1>11, <1>14 DEF LastFetched
  <2>12. ASSUME Judged', LastFetched' PROVE Unseen' \subseteq Missed
    BY <2>2, <2>3, <2>4, <2>5, <2>6, <2>7, <2>8, <2>11, <2>12
       DEF Missed, Unseen
  <2> QED BY <1>12, <2>1, <2>9, <2>10, <2>12, WalkStep DEF IInv
<1> QED BY <1>16, <1>17, <1>18, <1>19, <1>20 DEF IInv

(* What hasNextPage says of a page of a table that had n rows, when the    *)
(* count finds N.                                                          *)
LEMMA CountArithmetic ==
    ASSUME NEW r, r.first \in Firsts, After(r) \in Nat, Limit(r) \in Nat,
           NEW n \in Nat, NEW N \in Nat, NEW between \in Nat,
           NEW l, l = PageLength(r, n), N <= n + between
    PROVE  /\ N = n => (HasNextPage(r, N) <=>
                          \/ After(r) + l < N
                          \/ PageSize(r) = 0 /\ l # 0
                          \/ /\ RoundedUp(r)
                             /\ After(r) + l = N
                             /\ l = Limit(r))
           /\ HasNextPage(r, N) /\ l = 0 =>
                 RoundsToZero(r) \/ between * Unit > PageSize(r)
<1>1. PICK m \in Int : m = N - After(r)
  OBVIOUS
<1>2. /\ PageSize(r) \in Int /\ Unit \in Nat \ {0}
      /\ PageSize(r) = 0 => Limit(r) = 0
      /\ Limit(r) < m => m * Unit > PageSize(r)
      /\ m < Limit(r) => m * Unit < PageSize(r)
  BY <1>1, LimitFacts, ParameterAssumption DEF ParameterAssumption
<1>3. HasNextPage(r, N) <=> m * Unit > PageSize(r)
  BY <1>1 DEF HasNextPage
<1>4. RoundedUp(r) <=> Limit(r) * Unit > PageSize(r)
  BY DEF RoundedUp
<1>5. PICK p \in Int : p = m * Unit
  BY <1>2
<1>6. ASSUME N = n
      PROVE  p > PageSize(r) <=> \/ After(r) + l < N
                                 \/ PageSize(r) = 0 /\ l # 0
                                 \/ /\ RoundedUp(r)
                                    /\ After(r) + l = N
                                    /\ l = Limit(r)
  <2>1. CASE m < Limit(r)
    BY <1>1, <1>2, <1>5, <1>6, <2>1 DEF PageLength
  <2>2. CASE m = Limit(r)
    <3>1. p > PageSize(r) <=> RoundedUp(r)
      BY <1>4, <1>5, <2>2
    <3>2. After(r) + l = N /\ l = Limit(r)
      BY <1>1, <1>6, <2>2 DEF PageLength
    <3>3. PageSize(r) = 0 => l = 0
      BY <1>2, <3>2
    <3> QED BY <3>1, <3>2, <3>3
  <2>3. CASE Limit(r) < m
    <3>1. p > PageSize(r)
      BY <1>2, <1>5, <2>3
    <3>2. CASE PageSize(r) = 0
      BY <1>1, <1>6, <2>3, <3>1, <3>2 DEF PageLength
    <3>3. CASE PageSize(r) # 0
      BY <1>1, <1>6, <2>3, <3>1, <3>3 DEF PageLength
    <3> QED BY <3>2, <3>3
  <2> QED BY <1>2, <2>1, <2>2, <2>3
<1>7. ASSUME p > PageSize(r), l = 0, ~RoundsToZero(r)
      PROVE  between * Unit > PageSize(r)
  <2>1. n <= After(r)
    BY <1>2, <1>7 DEF PageLength, RoundsToZero
  <2>2. PICK k \in Nat : between = m + k
    <3>1. between - m \in Nat /\ between = m + (between - m)
      BY <1>1, <2>1
    <3> QED BY <3>1
  <2>3. between * Unit = m * Unit + k * Unit /\ k * Unit \in Nat
    BY <1>2, <2>2
  <2> QED BY <1>2, <1>5, <1>7, <2>3
<1> QED BY <1>3, <1>5, <1>6, <1>7

(* The count makes the page one of the pages the client has.  If there is  *)
(* no page after a full one, all rows stand before the offset reached.     *)
LEMMA FetchCountInv ==
    ASSUME IInv, FetchCount
    PROVE  IInv'
<1>1. /\ request.stage = "count"
      /\ UNCHANGED <<table, stayed, changes>>
      /\ listed' = [a \in Accounts |->
                      IF a \in ToSet(request.rows) /\ listed[a] < 2
                      THEN listed[a] + 1 ELSE listed[a]]
  BY DEF FetchCount
<1>2. /\ request \in Requests /\ changes \in Histories
      /\ listed \in [Accounts -> 0 .. 2]
  BY DEF IInv, TypeInv
<1>3. /\ request.after # Garbage
      /\ After(request) \in Nat /\ Limit(request) \in Nat
      /\ PageSize(request) \in Int /\ (PageSize(request) = 0 => Limit(request) = 0)
  BY <1>1, <1>2, RequestType DEF IInv, RequestInv, Fetched
<1>4. PICK N \in Nat : N = Cardinality(Present)
  BY PresentType
<1>5. PICK more \in Truths : more = HasNextPage(request, N)
  <2>1. HasNextPage(request, N) \in BOOLEAN
    BY DEF HasNextPage
  <2>2. HasNextPage(request, N) \in Truths
    BY <2>1 DEF Truths
  <2> QED BY <2>2
<1>6. request.rows \in Pages /\ Len(request.rows) \in Nat
  BY <1>2, RequestType
<1>7. PICK end \in Cursors : end = GetEndCursor(request)
  <2>1. CASE request.rows = <<>>
    BY <2>1, FieldValues DEF GetEndCursor
  <2>2. CASE request.rows # <<>>
    <3>1. After(request) + Len(request.rows) <= Cardinality(Accounts)
      BY <1>1, <2>2 DEF IInv, RequestInv, Fetched, Reached
    <3>2. GetEndCursor(request) \in RowCursors
      BY <1>3, <1>6, <2>2, <3>1, EndCursor
    <3> QED BY <3>2 DEF Cursors
  <2> QED BY <2>1, <2>2
<1>8. PICK q : q = WithCount(request, more, end)
  OBVIOUS
<1>9. request' = q
  BY <1>4, <1>5, <1>7, <1>8 DEF FetchCount, WithCount
<1>10. /\ q \in Requests
       /\ q.stage = "answered" /\ q.more = more /\ q.endCursor = end
       /\ q.first = request.first /\ q.orderBy = request.orderBy
       /\ q.after = request.after
       /\ q.rows = request.rows
       /\ After(q) = After(request) /\ PageSize(q) = PageSize(request)
       /\ Limit(q) = Limit(request)
       /\ RoundsToZero(q) <=> RoundsToZero(request)
       /\ GetEndCursor(q) = GetEndCursor(request)
  BY <1>2, <1>8, CountRequest
<1>11. Present' = Present
  BY <1>1 DEF Present
<1>12. /\ listed' \in [Accounts -> 0 .. 2]
       /\ \A a \in Accounts :
             /\ listed'[a] # 0 <=> listed[a] # 0 \/ a \in ToSet(request.rows)
             /\ listed'[a] = 2 <=> \/ listed[a] = 2
                                   \/ listed[a] = 1 /\ a \in ToSet(request.rows)
  BY <1>1, <1>2
<1>13. PICK l \in Nat : l = Len(request.rows)
  BY <1>6
<1>14. Limit(request) >= 1 \/ RoundsToZero(request) => l <= Limit(request)
  BY <1>13 DEF IInv, TypeInv
<1>15. TypeInv'
  BY <1>1, <1>9, <1>10, <1>11, <1>12, <1>13, <1>14 DEF IInv, TypeInv, Untied
<1>16. RequestInv'
  <2>1. Reached' = Reached
    BY <1>9, <1>10 DEF Reached
  <2>2. request.rows # <<>> => Reached <= Cardinality(Accounts)
    BY <1>1 DEF IInv, RequestInv, Fetched
  <2> QED BY <1>3, <1>7, <1>9, <1>10, <2>1, <2>2 DEF RequestInv
<1>17. CountInv'
  BY <1>9, <1>10 DEF CountInv
<1>18. HasNextPageIsRight'
  <2>1. PICK n \in Nat :
            /\ l = PageLength(request, n)
            /\ N <= n + changes.between
            /\ changes.inserts = 0 /\ changes.deletes = 0 => N = n
    BY <1>1, <1>4, <1>13 DEF IInv, CountInv
  <2>2. changes.between \in Nat
    BY HistoryType DEF IInv
  <2>3. /\ N = n => (more <=> \/ After(request) + l < N
                              \/ PageSize(request) = 0 /\ l # 0
                              \/ /\ RoundedUp(request)
                                 /\ After(request) + l = N
                                 /\ l = Limit(request))
        /\ more /\ l = 0 => \/ RoundsToZero(request)
                            \/ changes.between * Unit > PageSize(request)
    BY <1>2, <1>3, <1>4, <1>5, <1>13, <2>1, <2>2, CountArithmetic, RequestType
  <2>4. l # 0 <=> request.rows # <<>>
    BY <1>6, <1>13 DEF Pages
  <2>5. end = Unset => l = 0
    <3>1. CASE request.rows # <<>>
      <4>1. After(request) + Len(request.rows) <= Cardinality(Accounts)
        BY <1>1, <3>1 DEF IInv, RequestInv, Fetched, Reached
      <4> QED BY <1>3, <1>6, <1>7, <3>1, <4>1, EndCursor
    <3>2. CASE request.rows = <<>>
      BY <2>4, <3>2
    <3> QED BY <3>1, <3>2
  <2>6. PageSize(request) = 0 <=> request.first = 0
    <3>1. /\ DefaultPageSize \in Nat \ {0} /\ Unit \in Nat \ {0}
          /\ Unset \notin Int
      BY ParameterAssumption DEF ParameterAssumption
    <3>2. DefaultPageSize * Unit # 0
      BY <3>1
    <3> QED BY <3>1, <3>2 DEF PageSize
  <2>7. changes = NoChanges => N = n
    BY <2>1 DEF NoChanges
  <2>8. RoundedUp(request') <=> RoundedUp(request)
    BY <1>9, <1>10, SameSize
  <2>9. changes' = NoChanges =>
           (request'.more <=> \/ (After(request) + Len(request.rows))'
                                    < Cardinality(Present)'
                              \/ request'.first = 0 /\ request'.rows # <<>>
                              \/ /\ RoundedUp(request')
                                 /\ (After(request) + Len(request.rows))'
                                       = Cardinality(Present)'
                                 /\ Len(request'.rows) = Limit(request'))
    BY <1>1, <1>4, <1>9, <1>10, <1>11, <1>13, <2>3, <2>4, <2>6, <2>7, <2>8
  <2>10. request'.more /\ request'.endCursor = Unset =>
            \/ RoundsToZero(request')
            \/ changes'.between * Unit > PageSize(request')
    BY <1>1, <1>9, <1>10, <2>3, <2>5
  <2> QED BY <2>9, <2>10 DEF HasNextPageIsRight
<1>19. WalkInv'
  <2>1. Judged' => Judged
    BY <1>1, <1>9, <1>10 DEF Judged, TotalOrder
  <2>2. Reached = After(request) + l /\ Reached' = Reached
    BY <1>9, <1>10, <1>13 DEF Reached
  <2>3. \A a \in stayed : a \in Present /\ a \in Accounts
    BY PresentType DEF IInv, TypeInv
  <2>4. \A a \in Accounts : RankOf(a)' = RankOf(a)
    BY <1>1, <1>9, <1>10 DEF RankOf
  <2>5. \A a \in Accounts : (Seen(a)' <=> Seen(a)) /\ (Twice(a)' <=> Twice(a))
    BY <1>1, <1>9, <1>10, <1>12 DEF Seen, Twice, OnPage
  <2>6. /\ Missed' = Missed /\ Again' = Again /\ Unseen' = Unseen
    BY <1>1, <2>2, <2>3, <2>4, <2>5 DEF Missed, Again, Unseen
  <2>7. ASSUME LastFetched', ~LastFetched
        PROVE  Unseen \subseteq Missed
    <3>1. l >= Limit(request) /\ PageSize(request) # 0
      BY <1>1, <1>3, <1>13, <2>7 DEF LastFetched, Fetched
    <3>2. ~more
      BY <1>1, <1>9, <1>10, <1>13, <2>7 DEF LastFetched, Fetched
    <3>3. N <= After(request) + l
      <4>1. ~HasNextPage(request, N)
        BY <1>5, <3>2
      <4>2. PICK m \in Int : m = N - After(request)
        BY <1>3
      <4>3. ~(m * Unit > PageSize(request))
        BY <4>1, <4>2 DEF HasNextPage
      <4>4. ~(Limit(request) < m)
        BY <1>2, <4>3, LimitFacts, RequestType
      <4> QED BY <1>3, <1>13, <3>1, <4>2, <4>4
    <3>4. \A a \in stayed : RankOf(a) < N /\ RankOf(a) \in Nat
      BY <1>4, <2>3, PresentType, RankBound, RankType DEF IInv, TypeInv, RankOf
    <3>5. \A a \in stayed : RankOf(a) < Reached
      BY <1>3, <1>4, <1>13, <2>2, <3>3, <3>4
    <3> QED BY <3>5 DEF Unseen, Missed
  <2> QED BY <1>1, <2>1, <2>6, <2>7, WalkStep DEF IInv
<1> QED BY <1>15, <1>16, <1>17, <1>18, <1>19 DEF IInv

(* The walk goes on from the offset it has reached.                        *)
LEMMA FollowCursorInv ==
    ASSUME IInv, FollowCursor
    PROVE  IInv'
<1>1. /\ request.stage = "answered"
      /\ UNCHANGED <<table, listed, stayed>>
      /\ changes' = IF request.endCursor = Unset
                    THEN [changes EXCEPT !.restarts = 1] ELSE changes
  BY DEF FollowCursor
<1>2. request \in Requests /\ changes \in Histories
  BY DEF IInv, TypeInv
<1>3. /\ request.after # Garbage
      /\ After(request) \in Nat /\ Limit(request) \in Nat
      /\ request.rows \in Pages /\ Len(request.rows) \in Nat
      /\ request.endCursor = GetEndCursor(request)
  BY <1>1, <1>2, RequestType DEF IInv, RequestInv, Fetched
<1>4. PICK q : q = NextPage(request) /\ request' = q
  BY DEF FollowCursor, NextPage
<1>5. /\ q \in Requests
      /\ q.stage = "rows" /\ q.rows = <<>> /\ q.after = request.endCursor
      /\ q.first = request.first /\ q.orderBy = request.orderBy
      /\ Limit(q) = Limit(request)
      /\ RoundsToZero(q) <=> RoundsToZero(request)
  BY <1>2, <1>4, NextRequest
<1>6. Len(q.rows) = 0
  BY <1>5
<1>7. /\ changes' \in Histories
      /\ changes'.inserts = changes.inserts
      /\ changes'.deletes = changes.deletes
      /\ request.endCursor = Unset => changes'.restarts = 1
      /\ request.endCursor # Unset => changes' = changes
  BY <1>1, <1>2 DEF Histories
<1>8. Present' = Present
  BY <1>1 DEF Present
<1>9. TypeInv'
  BY <1>1, <1>3, <1>4, <1>5, <1>6, <1>7, <1>8 DEF IInv, TypeInv, Untied
<1>10. RequestInv'
  BY <1>4, <1>5 DEF RequestInv, Fetched
<1>11. CountInv' /\ HasNextPageIsRight'
  BY <1>4, <1>5 DEF CountInv, HasNextPageIsRight
<1>12. WalkInv'
  <2>1. ASSUME Judged' PROVE request.endCursor # Unset /\ changes' = changes
    BY <1>7, <2>1 DEF Judged
  <2>2. Judged' => Judged
    BY <1>1, <1>3, <1>4, <1>5, <2>1 DEF Judged, TotalOrder
  <2>3. ASSUME Judged' PROVE Reached' = Reached
    <3>1. request.rows # <<>>
      BY <1>3, <2>1, <2>3 DEF GetEndCursor
    <3>2. After(request) + Len(request.rows) <= Cardinality(Accounts)
      BY <1>1, <3>1 DEF IInv, RequestInv, Fetched, Reached
    <3>3. DecodeCursor(request.endCursor) = After(request) + Len(request.rows)
      BY <1>3, <3>1, <3>2, EndCursor
    <3>4. After(q) = After(request) + Len(request.rows)
      BY <1>5, <2>1, <2>3, <3>3 DEF After
    <3> QED BY <1>3, <1>4, <1>6, <3>4 DEF Reached
  <2>4. \A a \in Accounts : RankOf(a)' = RankOf(a)
    BY <1>1, <1>4, <1>5 DEF RankOf
  <2>5. \A a \in Accounts : (Seen(a)' <=> Seen(a)) /\ (Twice(a)' <=> Twice(a))
    BY <1>1, <1>4, <1>5 DEF Seen, Twice, OnPage
  <2>6. stayed \in SUBSET Accounts
    BY PresentType DEF IInv, TypeInv
  <2>7. ASSUME Judged' PROVE Missed' = Missed /\ Again' = Again
    BY <1>1, <2>3, <2>4, <2>5, <2>6, <2>7 DEF Missed, Again
  <2>8. ~LastFetched'
    BY <1>4, <1>5 DEF LastFetched, Fetched
  <2> QED BY <1>7, <2>2, <2>7, <2>8, WalkStep DEF IInv
<1> QED BY <1>9, <1>10, <1>11, <1>12 DEF IInv

LEMMA StopWalkInv ==
    ASSUME IInv, StopWalk
    PROVE  IInv'
<1>1. /\ request.stage = "answered" /\ ~request.more
      /\ UNCHANGED <<table, listed, stayed, changes>>
  BY DEF StopWalk
<1>2. request \in Requests /\ "done" \in Stages
  BY FieldValues DEF IInv, TypeInv
<1>3. PICK q : q = AtStage(request, "done") /\ request' = q
  BY DEF StopWalk, AtStage
<1>4. /\ q \in Requests
      /\ q.stage = "done" /\ q.more = request.more
      /\ q.endCursor = request.endCursor
      /\ q.first = request.first /\ q.orderBy = request.orderBy
      /\ q.after = request.after /\ q.rows = request.rows
      /\ After(q) = After(request) /\ Limit(q) = Limit(request)
      /\ RoundsToZero(q) <=> RoundsToZero(request)
      /\ GetEndCursor(q) = GetEndCursor(request)
  BY <1>2, <1>3, StageRequest
<1>5. Present' = Present
  BY <1>1 DEF Present
<1>6. TypeInv'
  BY <1>1, <1>3, <1>4, <1>5 DEF IInv, TypeInv, Untied
<1>7. Reached' = Reached
  BY <1>3, <1>4 DEF Reached
<1>8. RequestInv'
  BY <1>1, <1>3, <1>4, <1>7 DEF IInv, RequestInv, Fetched
<1>9. CountInv' /\ HasNextPageIsRight'
  BY <1>3, <1>4 DEF CountInv, HasNextPageIsRight
<1>10. WalkInv'
  <2>1. Judged' => Judged
    BY <1>1, <1>3, <1>4 DEF Judged, TotalOrder
  <2>2. \A a \in Accounts : RankOf(a)' = RankOf(a)
    BY <1>1, <1>3, <1>4 DEF RankOf
  <2>3. \A a \in Accounts : (Seen(a)' <=> Seen(a)) /\ (Twice(a)' <=> Twice(a))
    BY <1>1, <1>3, <1>4 DEF Seen, Twice, OnPage
  <2>4. stayed \in SUBSET Accounts
    BY PresentType DEF IInv, TypeInv
  <2>5. Missed' = Missed /\ Again' = Again /\ Unseen' = Unseen
    BY <1>1, <1>7, <2>2, <2>3, <2>4 DEF Missed, Again, Unseen
  <2>6. LastFetched
    BY <1>1 DEF LastFetched, Fetched
  <2> QED BY <1>1, <2>1, <2>5, <2>6, WalkStep DEF IInv
<1> QED BY <1>6, <1>8, <1>9, <1>10 DEF IInv

-----------------------------------------------------------------------------
(* Changes by others.                                                      *)

(* At most one row has a given rank: whoever joins a set must have it.     *)
LEMMA OneJoins ==
    ASSUME NEW S \in SUBSET Accounts, NEW T \in SUBSET Accounts,
           \A a, b \in T \ S : a = b
    PROVE  Cardinality(T) <= Cardinality(S) + 1
<1>1. IsFiniteSet(S) /\ Cardinality(S) \in Nat
  BY Finite
<1>2. CASE T \subseteq S
  <2>1. Cardinality(T) <= Cardinality(S)
    BY <1>1, <1>2, FS_Subset
  <2>2. Cardinality(T) \in Nat
    BY Finite
  <2> QED BY <1>1, <2>1, <2>2
<1>3. CASE ~(T \subseteq S)
  <2>1. PICK x \in T : x \notin S
    BY <1>3
  <2>2. T \subseteq S \cup {x}
    BY <2>1
  <2> QED BY <1>1, <2>2, OneMore
<1> QED BY <1>2, <1>3

Changed(h, ins, del) == [h EXCEPT !.inserts = @ + ins, !.deletes = @ + del,
                                  !.between = @ + ins]

LEMMA ChangedHistory ==
    ASSUME NEW h \in Histories, NEW ins \in Nat, NEW del \in Nat,
           NEW g, g = Changed(h, ins, del)
    PROVE  /\ g \in Histories
           /\ g.inserts = h.inserts + ins
           /\ g.deletes = h.deletes + del
           /\ g.between = h.between + ins
           /\ g.restarts = h.restarts
<1>1. h.inserts \in Nat /\ h.deletes \in Nat /\ h.between \in Nat
  BY DEF Histories
<1>2. PICK i \in Nat : i = h.inserts + ins
  BY <1>1
<1>3. PICK d \in Nat : d = h.deletes + del
  BY <1>1
<1>4. PICK b \in Nat : b = h.between + ins
  BY <1>1
<1>5. g = [h EXCEPT !.inserts = i, !.deletes = d, !.between = b]
  BY <1>2, <1>3, <1>4, Zenon DEF Changed
<1>6. /\ g \in Histories
      /\ g.inserts = i /\ g.deletes = d /\ g.between = b
      /\ g.restarts = h.restarts
  BY <1>5 DEF Histories
<1> QED BY <1>2, <1>3, <1>4, <1>6

(* The rows that others insert, delete or move are not among those that    *)
(* stayed.  An insertion may push one row over the offset reached, to be   *)
(* seen again, and a deletion may pull one over it, to be missed.          *)
LEMMA ChangeInv ==
    ASSUME IInv, NEW x \in Accounts, NEW key \in Keys \cup {Unset},
           NEW ins \in {0, 1}, NEW del \in {0, 1}, Change(x, key, ins, del),
           ins + del >= 1,
           ins = 0 => key = Unset,
           del = 0 => table[x] = Unset,
           ins = 1 /\ del = 1 => table[x] # Unset
    PROVE  IInv'
<1>1. /\ Walking
      /\ table' = [table EXCEPT ![x] = key]
      /\ Ties \/ Untied(table')
      /\ stayed' = stayed \ {x}
      /\ request' = request /\ listed' = listed
  BY DEF Change
<1>2. PICK g : g = Changed(changes, ins, del) /\ changes' = g
  BY DEF Change, Changed
<1>3. /\ changes \in Histories /\ table \in Tables
      /\ request \in Requests
      /\ ins \in Nat /\ del \in Nat
  BY DEF IInv, TypeInv
<1>4. /\ changes' \in Histories
      /\ changes'.inserts = changes.inserts + ins
      /\ changes'.deletes = changes.deletes + del
      /\ changes'.between = changes.between + ins
      /\ changes'.restarts = changes.restarts
      /\ changes.inserts \in Nat /\ changes.deletes \in Nat
      /\ changes.between \in Nat
  <2>1. /\ g \in Histories
        /\ g.inserts = changes.inserts + ins
        /\ g.deletes = changes.deletes + del
        /\ g.between = changes.between + ins
        /\ g.restarts = changes.restarts
    <3>1. changes \in Histories /\ ins \in Nat /\ del \in Nat
      BY <1>3
    <3>2. g = Changed(changes, ins, del)
      BY <1>2
    <3> QED BY <3>1, <3>2, ChangedHistory
  <2>2. /\ changes.inserts \in Nat /\ changes.deletes \in Nat
        /\ changes.between \in Nat
    BY HistoryType DEF IInv
  <2> QED BY <1>2, <2>1, <2>2
<1>5. /\ table' \in Tables
      /\ table'[x] = key
      /\ \A a \in Accounts \ {x} : table'[a] = table[a]
  BY <1>1, <1>3 DEF Tables
<1>6. /\ Present \in SUBSET Accounts
      /\ Present' = {a \in Accounts : table'[a] # Unset}
      /\ \A a \in Accounts : a \in Present <=> table[a] # Unset
  BY DEF Present
<1>7. stayed' \in SUBSET Accounts /\ stayed' \subseteq Present'
  BY <1>1, <1>5, <1>6 DEF IInv, TypeInv
<1>8. TypeInv'
  BY <1>1, <1>4, <1>5, <1>7 DEF IInv, TypeInv
<1>9. /\ Reached' = Reached
      /\ request.stage # "idle"
      /\ ~(changes'.inserts = 0 /\ changes'.deletes = 0)
  <2>1. ins = 1 \/ del = 1
    OBVIOUS
  <2>2. /\ changes'.inserts = changes.inserts + ins
        /\ changes'.deletes = changes.deletes + del
        /\ changes.inserts \in Nat /\ changes.deletes \in Nat
    BY <1>4
  <2>3. ~(changes'.inserts = 0 /\ changes'.deletes = 0)
    BY <2>1, <2>2
  <2> QED BY <1>1, <2>3 DEF Reached, Walking
<1>10. RequestInv'
  BY <1>1, <1>9 DEF IInv, RequestInv, Fetched
<1>11. /\ Cardinality(Present) \in Nat /\ Cardinality(Present') \in Nat
       /\ Cardinality(Present') <= Cardinality(Present) + ins
  <2>1. Present' \in SUBSET Accounts
    BY <1>6
  <2>2. Cardinality(Present') \in Nat /\ Cardinality(Present) \in Nat
    BY <1>6, <2>1, Finite
  <2>3. CASE ins = 0
    <3>1. Present' \subseteq Present
      BY <1>5, <1>6, <2>3
    <3>2. IsFiniteSet(Present)
      BY PresentType
    <3>3. Cardinality(Present') <= Cardinality(Present)
      BY <3>1, <3>2, FS_Subset
    <3> QED BY <2>2, <2>3, <3>3
  <2>4. CASE ins = 1
    <3>1. Present' \subseteq Present \cup {x}
      BY <1>5, <1>6
    <3>2. Cardinality(Present') <= Cardinality(Present) + 1
      BY <3>1, PresentType, OneMore
    <3> QED BY <2>2, <2>4, <3>2
  <2> QED BY <2>3, <2>4
<1>12. CountInv'
  <2> SUFFICES ASSUME request.stage = "count"
               PROVE  \E n \in Nat :
                        /\ Len(request'.rows) = PageLength(request', n)
                        /\ Cardinality(Present') <= n + changes'.between
                        /\ changes'.inserts = 0 /\ changes'.deletes = 0 =>
                              Cardinality(Present') = n
    BY <1>1 DEF CountInv, PageLength, After
  <2>1. PICK n \in Nat : /\ Len(request.rows) = PageLength(request, n)
                         /\ Cardinality(Present) <= n + changes.between
    BY DEF IInv, CountInv
  <2>2. Cardinality(Present') <= n + changes'.between
    BY <1>3, <1>4, <1>11, <2>1
  <2>3. ~(changes'.inserts = 0 /\ changes'.deletes = 0)
    BY <1>9
  <2>4. Len(request'.rows) = PageLength(request', n)
    BY <1>1, <2>1
  <2> QED BY <2>2, <2>3, <2>4
<1>13. HasNextPageIsRight'
  <2> SUFFICES ASSUME request.stage = "answered", request.more,
                      request.endCursor = Unset, ~RoundsToZero(request)
               PROVE  changes'.between * Unit > PageSize(request)
    BY <1>1, <1>9 DEF HasNextPageIsRight, NoChanges
  <2>1. changes.between * Unit > PageSize(request)
    BY DEF IInv, HasNextPageIsRight
  <2>2. PageSize(request) \in Int /\ Unit \in Nat
    BY <1>3, RequestType, ParameterAssumption DEF ParameterAssumption
  <2>3. changes'.between * Unit = changes.between * Unit + ins * Unit
    BY <1>3, <1>4, <2>2
  <2>4. ins * Unit \in Nat /\ changes.between * Unit \in Int
    BY <1>3, <1>4, <2>2
  <2> QED BY <2>1, <2>2, <2>3, <2>4
<1>14. WalkInv'
  <2> SUFFICES ASSUME Judged
               PROVE  /\ Cardinality(Missed') <= changes.deletes + del
                      /\ Cardinality(Again') <= changes.inserts + ins
                      /\ LastFetched' =>
                            Cardinality(Unseen') <= changes.deletes + del
    BY <1>1, <1>4 DEF WalkInv, Judged, TotalOrder
  <2>1. /\ request.orderBy \in {"ASC", "DESC"} /\ Untied(table)
        /\ After(request) \in Nat /\ Len(request.rows) \in Nat
    BY <1>3, RequestType, JudgedFacts DEF IInv
  <2>2. Reached \in Nat
    BY <2>1 DEF Reached
  <2>3. \A a \in stayed : a \in Accounts /\ a \in PresentIn(table)
    BY <1>6 DEF IInv, TypeInv, PresentIn
  <2>4. \A a \in Accounts : /\ RankOf(a) \in Nat /\ RankOf(a)' \in Nat
                            /\ RankOf(a) = Rank(table, request.orderBy, a)
                            /\ RankOf(a)' = Rank(table', request.orderBy, a)
    BY <1>1, RankType DEF RankOf
  <2>5. \A a \in Accounts \ {x} :
           /\ RankOf(a)' <= RankOf(a) + 1
           /\ RankOf(a) <= RankOf(a)' + 1
           /\ ins = 0 => RankOf(a)' <= RankOf(a)
           /\ del = 0 => RankOf(a) <= RankOf(a)'
    <3> SUFFICES ASSUME NEW a \in Accounts \ {x}
                 PROVE  /\ RankOf(a)' <= RankOf(a) + 1
                        /\ RankOf(a) <= RankOf(a)' + 1
                        /\ ins = 0 => RankOf(a)' <= RankOf(a)
                        /\ del = 0 => RankOf(a) <= RankOf(a)'
      OBVIOUS
    <3>1. PICK t : t = [table EXCEPT ![x] = key] /\ table' = t
      BY <1>1
    <3>2. PICK o : o = request.orderBy
      OBVIOUS
    <3>3. /\ Rank(t, o, a) <= Rank(table, o, a) + 1
          /\ Rank(table, o, a) <= Rank(t, o, a) + 1
          /\ key = Unset => Rank(t, o, a) <= Rank(table, o, a)
          /\ table[x] = Unset => Rank(table, o, a) <= Rank(t, o, a)
      BY <1>3, <3>1, RankMoves
    <3> QED BY <2>4, <3>1, <3>2, <3>3
  <2>6. \A a, b \in stayed : RankOf(a) = RankOf(b) => a = b
    BY <1>3, <2>1, <2>3, <2>4, RankInjective
  <2>7. \A a \in Accounts : (Seen(a)' <=> Seen(a)) /\ (Twice(a)' <=> Twice(a))
    BY <1>1 DEF Seen, Twice, OnPage
  <2>8. /\ changes.inserts \in Nat /\ changes.deletes \in Nat
        /\ IsFiniteSet(Missed) /\ IsFiniteSet(Again) /\ IsFiniteSet(Unseen)
        /\ Cardinality(Missed) \in Nat /\ Cardinality(Again) \in Nat
        /\ Cardinality(Unseen) \in Nat
        /\ Missed \in SUBSET Accounts /\ Again \in SUBSET Accounts
    BY HistoryType, WalkSets DEF IInv
  <2>9. /\ Missed' \in SUBSET Accounts /\ Cardinality(Missed') \in Nat
        /\ Again' \in SUBSET Accounts /\ Cardinality(Again') \in Nat
        /\ Unseen' \in SUBSET Accounts /\ Cardinality(Unseen') \in Nat
    <3>1. /\ Missed' \in SUBSET Accounts /\ Again' \in SUBSET Accounts
          /\ Unseen' \in SUBSET Accounts
      BY <1>7 DEF Missed, Again, Unseen
    <3> QED BY <3>1, Finite
  <2>10. /\ Cardinality(Missed) <= changes.deletes
         /\ Cardinality(Again) <= changes.inserts
         /\ LastFetched => Cardinality(Unseen) <= changes.deletes
    BY DEF IInv, WalkInv
  <2>11. Cardinality(Missed') <= changes.deletes + del
    <3>1. CASE del = 0
      <4>1. Missed' \subseteq Missed
        BY <1>1, <1>9, <2>2, <2>3, <2>4, <2>5, <2>7, <3>1 DEF Missed
      <4>2. Cardinality(Missed') <= Cardinality(Missed)
        BY <2>8, <4>1, FS_Subset
      <4> QED BY <2>8, <2>9, <2>10, <3>1, <4>2
    <3>2. CASE del = 1
      <4>1. \A a \in Missed' \ Missed : a \in stayed /\ RankOf(a) = Reached
        BY <1>1, <1>9, <2>2, <2>3, <2>4, <2>5, <2>7 DEF Missed
      <4>2. Cardinality(Missed') <= Cardinality(Missed) + 1
        BY <2>6, <2>8, <2>9, <4>1, OneJoins
      <4> QED BY <2>8, <2>9, <2>10, <3>2, <4>2
    <3> QED BY <3>1, <3>2
  <2>12. Cardinality(Again') <= changes.inserts + ins
    <3>1. CASE ins = 0
      <4>1. Again' \subseteq Again
        BY <1>1, <1>9, <2>2, <2>3, <2>4, <2>5, <2>7, <3>1 DEF Again
      <4>2. Cardinality(Again') <= Cardinality(Again)
        BY <2>8, <4>1, FS_Subset
      <4> QED BY <2>8, <2>9, <2>10, <3>1, <4>2
    <3>2. CASE ins = 1
      <4>1. \A a \in Again' \ Again : a \in stayed /\ RankOf(a) = Reached - 1
        BY <1>1, <1>9, <2>2, <2>3, <2>4, <2>5, <2>7 DEF Again
      <4>2. Cardinality(Again') <= Cardinality(Again) + 1
        BY <2>6, <2>8, <2>9, <4>1, OneJoins
      <4> QED BY <2>8, <2>9, <2>10, <3>2, <4>2
    <3> QED BY <3>1, <3>2
  <2>13. ASSUME LastFetched'
         PROVE  Cardinality(Unseen') <= changes.deletes + del
    <3>1. Unseen' \subseteq Unseen
      BY <1>1, <2>3, <2>7 DEF Unseen
    <3>2. Cardinality(Unseen') <= Cardinality(Unseen)
      BY <2>8, <3>1, FS_Subset
    <3>3. LastFetched
      BY <1>1, <2>13 DEF LastFetched, Fetched
    <3> QED BY <1>3, <2>8, <2>9, <2>10, <3>2, <3>3
  <2> QED BY <2>11, <2>12, <2>13
<1> QED BY <1>8, <1>10, <1>12, <1>13, <1>14 DEF IInv

LEMMA StepInv == IInv /\ [Next]_vars => IInv'
<1> SUFFICES ASSUME IInv, [Next]_vars PROVE IInv'
  OBVIOUS
<1>1. \A k \in Keys : k # Unset /\ k \in Keys \cup {Unset}
  BY KeysAssumption, ParameterAssumption
     DEF KeysAssumption, ParameterAssumption
<1>2. ASSUME NEW a \in Accounts, Insert(a) PROVE IInv'
  <2>1. PICK k \in Keys : table[a] = Unset /\ Change(a, k, 1, 0)
    BY <1>2 DEF Insert
  <2> QED BY <1>1, <2>1, ChangeInv
<1>3. ASSUME NEW a \in Accounts, Delete(a) PROVE IInv'
  BY <1>3, ChangeInv DEF Delete
<1>4. ASSUME NEW a \in Accounts, Touch(a) PROVE IInv'
  <2>1. PICK k \in Keys : table[a] # Unset /\ Change(a, k, 1, 1)
    BY <1>4 DEF Touch
  <2> QED BY <1>1, <2>1, ChangeInv
<1>5. CASE Request
  BY <1>5, FetchRefusedInv, FetchRowsInv, FetchCountInv DEF Request
<1>6. CASE Client
  BY <1>6, StartListInv, FollowCursorInv, StopWalkInv DEF Client
<1>7. CASE UNCHANGED vars
  <2>1. UNCHANGED <<table, request, listed, stayed, changes>>
    BY <1>7 DEF vars
  <2>2. TypeInv'
    BY <2>1 DEF IInv, TypeInv, Untied, Present
  <2>3. RequestInv'
    BY <2>1 DEF IInv, RequestInv, Fetched, Reached
  <2>4. CountInv'
    BY <2>1 DEF IInv, CountInv, Present
  <2>5. HasNextPageIsRight'
    BY <2>1 DEF IInv, HasNextPageIsRight, Present
  <2>6. WalkInv'
    BY <2>1 DEF IInv, WalkInv, Judged, TotalOrder, Missed, Again, Unseen,
                LastFetched, Fetched, Seen, Twice, OnPage, RankOf, Reached
  <2> QED BY <2>2, <2>3, <2>4, <2>5, <2>6 DEF IInv
<1> QED BY <1>2, <1>3, <1>4, <1>5, <1>6, <1>7 DEF Next, Others

(* Every step of the client, the server and the others keeps the           *)
(* invariant, whatever the accounts, keys, page sizes and orders.          *)
THEOREM InductiveInvariant == Spec => []IInv
  BY InitInv, StepInv, PTL DEF Spec

(* Requests, cursors and pages keep their types: whatever number first is, *)
(* a page holds no more rows than that number rounds to (no limit goes     *)
(* with first = 0), and an end cursor points into the list.                *)
THEOREM TypeCorrect == Spec => []TypeOK
<1>1. IInv => TypeOK
  <2> SUFFICES ASSUME IInv PROVE TypeOK
    OBVIOUS
  <2>1. request \in Requests /\ changes \in Histories
    BY DEF IInv, TypeInv
  <2>2. /\ request.stage \in {"idle", "rows", "count", "answered", "done", "failed"}
        /\ request.first \in FirstValues \cup {Unset}
        /\ request.orderBy \in Orders \cup {"none"}
        /\ {request.after, request.endCursor} \subseteq Cursors
        /\ request.rows \in Seq(Accounts)
        /\ request.more \in BOOLEAN
    <3>1. /\ request.stage \in Stages /\ request.first \in Firsts
          /\ request.orderBy \in OrderBys /\ request.rows \in Pages
          /\ request.after \in Cursors /\ request.endCursor \in Cursors
          /\ request.more \in Truths
      BY <2>1, RequestType
    <3> QED BY <3>1 DEF Stages, Firsts, OrderBys, Pages, Truths
  <2>3. \A f \in {"inserts", "deletes", "between", "restarts"} : changes[f] \in Nat
    BY <2>1 DEF Histories
  <2>4. stayed \subseteq Accounts
    BY PresentType DEF IInv, TypeInv
  <2> QED BY <2>2, <2>3, <2>4 DEF IInv, TypeInv, TypeOK, Tables
<1> QED BY <1>1, InductiveInvariant, PTL

(* For page sizes of any fraction: while nobody changes the rows,          *)
(* hasNextPage is true exactly if rows follow the page, but for first = 0  *)
(* and for a full last page whose size LIMIT rounded up.  And it sends a   *)
(* client back to the first page only with a size that is rounded to zero, *)
(* or if more rows than a page holds were inserted between the two         *)
(* statements of its request (typeorm-connection.ts:117 and 299).          *)
THEOREM HasNextPageRight == Spec => []HasNextPageIsRight
<1>1. IInv => HasNextPageIsRight
  BY DEF IInv
<1> QED BY <1>1, InductiveInvariant, PTL

(* A client that has followed the end cursors to the last page has missed  *)
(* no more of the rows that stayed than were deleted meanwhile, and has    *)
(* got no more of them twice than were inserted; all of them exactly once  *)
(* if nothing changed.                                                     *)
THEOREM DamageBounded == Spec => []DamageBoundedByChanges
<1>1. IInv => DamageBoundedByChanges
  <2> SUFFICES ASSUME IInv, WalkDone, TotalOrder, changes.restarts = 0
               PROVE  /\ Cardinality({a \in stayed : listed[a] = 0})
                            <= changes.deletes
                      /\ Cardinality({a \in stayed : listed[a] = 2})
                            <= changes.inserts
    BY DEF DamageBoundedByChanges
  <2>1. Judged
    BY DEF Judged, WalkDone
  <2>2. LastFetched
    BY DEF IInv, RequestInv, LastFetched, Fetched, WalkDone
  <2>3. {a \in stayed : listed[a] = 0} = Unseen
    BY DEF Unseen, Seen, OnPage, WalkDone
  <2>4. {a \in stayed : listed[a] = 2} \subseteq Again
    BY DEF Again, Twice
  <2>5. /\ Cardinality(Unseen) <= changes.deletes
        /\ Cardinality(Again) <= changes.inserts
    BY <2>1, <2>2 DEF IInv, WalkInv
  <2>6. /\ IsFiniteSet(Again) /\ Cardinality(Again) \in Nat
        /\ changes.inserts \in Nat
    BY WalkSets, HistoryType DEF IInv
  <2>7. /\ Cardinality({a \in stayed : listed[a] = 2}) <= Cardinality(Again)
        /\ Cardinality({a \in stayed : listed[a] = 2}) \in Nat
    BY <2>4, <2>6, FS_Subset, FS_CardinalityType
  <2> QED BY <2>3, <2>5, <2>6, <2>7
<1> QED BY <1>1, InductiveInvariant, PTL
=============================================================================
