--------------------------- MODULE PaginationProofs ---------------------------
(***************************************************************************)
(* Theorems of Pagination, for any items, any page sizes and any number of *)
(* changes.  Between two pages the offset cuts the list into a front, that *)
(* counts as read, and a back, still to come.  What was listed all along   *)
(* but sits in the front unread is lost; what was read and sits in the     *)
(* back will come again.  A change of the list moves one item at most      *)
(* across the cut, the offset being the number of items read.              *)
(***************************************************************************)
EXTENDS Pagination, FiniteSetTheorems, SequenceTheorems, TLAPS

Front(l, o) == {l[j] : j \in {k \in 1..Len(l) : k <= o}}
Back(l, o) == {l[j] : j \in {k \in 1..Len(l) : k > o}}

Lost(l, o) == (stayed \cap Front(l, o)) \ Elements(yielded)
Again(l, o) == Back(l, o) \cap Elements(yielded)

(* An iteration between two pages.                                         *)
FewLost == Cardinality(Lost(list, offset)) <= deletes
FewAgain ==
    Len(yielded) + Cardinality(Again(list, offset))
        - Cardinality(Elements(yielded)) <= inserts
ExactSoFar ==
    inserts + deletes = 0 =>
        offset <= Len(list) /\ yielded = SubSeq(list, 1, offset)

IInv ==
    /\ TypeOK
    /\ QuietIterationExact
    /\ EachChangeCostsOneItem
    /\ pc = "fetch" => FewLost /\ FewAgain /\ ExactSoFar
-----------------------------------------------------------------------------
(* Lists.                                                                  *)

LEMMA Positions ==
    ASSUME NEW l \in Seq(Item)
    PROVE  /\ Len(l) \in Nat
           /\ \A x : x \in Elements(l) <=> \E j \in 1..Len(l) : x = l[j]
           /\ \A o, x : x \in Front(l, o) <=> \E j \in 1..Len(l) : j <= o /\ x = l[j]
           /\ \A o, x : x \in Back(l, o) <=> \E j \in 1..Len(l) : j > o /\ x = l[j]
  <1>1. Len(l) \in Nat /\ DOMAIN l = 1..Len(l)
    BY LenProperties
  <1>2. QED
    BY <1>1 DEF Elements, Front, Back

LEMMA FiniteElements ==
    ASSUME NEW l \in Seq(Item)
    PROVE  IsFiniteSet(Elements(l)) /\ Cardinality(Elements(l)) \in Nat
  <1>1. Len(l) \in Nat /\ DOMAIN l = 1..Len(l) /\ l \in [1..Len(l) -> Item]
    BY LenProperties
  <1>2. IsFiniteSet(1..Len(l))
    BY <1>1, FS_Interval
  <1>3. l \in Surjection(1..Len(l), Elements(l))
    BY <1>1 DEF Elements, Surjection
  <1>4. IsFiniteSet(Elements(l))
    BY <1>2, <1>3, FS_Surjection
  <1>5. QED
    BY <1>4, FS_CardinalityType

LEMMA Part ==
    ASSUME NEW l \in Seq(Item), NEW m \in 1..(Len(l) + 1), NEW n \in (m - 1)..Len(l)
    PROVE  /\ SubSeq(l, m, n) \in Seq(Item)
           /\ Len(SubSeq(l, m, n)) = n - m + 1
           /\ \A j \in 1..(n - m + 1) : SubSeq(l, m, n)[j] = l[m + j - 1]
  <1>1. Len(l) \in Nat /\ \A j \in 1..Len(l) : l[j] \in Item
    BY LenProperties
  <1>2. m \in Int /\ n \in Int /\ \A j \in m..n : l[j] \in Item
    BY <1>1
  <1>3. QED
    BY <1>2, SubSeqProperties

(* A list without repetitions has as many elements as positions.           *)
LEMMA CardinalityOfSet ==
    ASSUME NEW l \in Seq(Item), IsSet(l)
    PROVE  Cardinality(Elements(l)) = Len(l)
  <1>1. Len(l) \in Nat /\ DOMAIN l = 1..Len(l) /\ l \in [1..Len(l) -> Item]
    BY LenProperties
  <1>2. IsFiniteSet(1..Len(l)) /\ Cardinality(1..Len(l)) = Len(l)
    BY <1>1, FS_Interval
  <1>3. l \in Bijection(1..Len(l), Elements(l))
    BY <1>1 DEF Elements, IsSet, Bijection, Injection, IsInjective, Surjection
  <1>4. ExistsBijection(1..Len(l), Elements(l))
    BY <1>3 DEF ExistsBijection
  <1>5. QED
    BY <1>2, <1>4, FS_Bijection

(* The cut parts a list without repetitions.                               *)
LEMMA CutParts ==
    ASSUME NEW l \in Seq(Item), IsSet(l), NEW o \in Nat
    PROVE  /\ Front(l, o) \cup Back(l, o) = Elements(l)
           /\ Front(l, o) \cap Back(l, o) = {}
  <1>1. DOMAIN l = 1..Len(l)
    BY LenProperties
  <1>2. QED
    BY <1>1, Positions DEF IsSet

LEMMA WholeFront ==
    ASSUME NEW l \in Seq(Item), NEW o \in Nat, o >= Len(l)
    PROVE  Front(l, o) = Elements(l)
  <1>1. \A j \in 1..Len(l) : j <= o
    BY Positions
  <1>2. \A x : x \in Front(l, o) <=> x \in Elements(l)
    BY <1>1, Positions
  <1>3. QED
    BY <1>2

(* A new item moves one item at most to the back.                          *)
LEMMA InsertMovesOne ==
    ASSUME NEW l \in Seq(Item), IsSet(l), NEW o \in Nat,
           NEW i \in 0..Len(l), NEW x \in Item, x \notin Elements(l)
    PROVE  LET m == SubSeq(l, 1, i) \o <<x>> \o SubSeq(l, i + 1, Len(l))
           IN  /\ m \in Seq(Item) /\ IsSet(m)
               /\ Len(m) = Len(l) + 1
               /\ Elements(m) = Elements(l) \cup {x}
               /\ Front(m, o) \subseteq Front(l, o) \cup {x}
               /\ Back(m, o) \subseteq Back(l, o) \cup {IF i >= o THEN x ELSE l[o]}
  <1> DEFINE a == SubSeq(l, 1, i)
             b == SubSeq(l, i + 1, Len(l))
             c == a \o <<x>>
             m == c \o b
  <1>1. Len(l) \in Nat /\ DOMAIN l = 1..Len(l) /\ \A j \in 1..Len(l) : l[j] \in Item
    BY LenProperties
  <1>2. /\ a \in Seq(Item) /\ Len(a) = i
        /\ \A j \in 1..i : a[j] = l[j]
    BY <1>1, Part
  <1>3. /\ b \in Seq(Item) /\ Len(b) = Len(l) - i
        /\ \A j \in 1..(Len(l) - i) : b[j] = l[i + j]
    <2>1. i + 1 \in 1..(Len(l) + 1) /\ Len(l) \in ((i + 1) - 1)..Len(l)
      BY <1>1
    <2>2. /\ b \in Seq(Item) /\ Len(b) = Len(l) - (i + 1) + 1
          /\ \A j \in 1..(Len(l) - (i + 1) + 1) : b[j] = l[(i + 1) + j - 1]
      BY <2>1, Part
    <2> HIDE DEF b
    <2>3. QED
      BY <1>1, <2>2
  <1> HIDE DEF a, b
  <1>4. /\ c \in Seq(Item) /\ Len(c) = i + 1
        /\ \A j \in 1..(i + 1) : c[j] = IF j <= i THEN l[j] ELSE x
    BY <1>2
  <1> HIDE DEF c
  <1>5. /\ m \in Seq(Item) /\ Len(m) = Len(l) + 1
        /\ \A j \in 1..(Len(l) + 1) :
              m[j] = IF j <= i THEN l[j] ELSE IF j = i + 1 THEN x ELSE l[j - 1]
    <2>1. /\ m \in Seq(Item) /\ Len(m) = Len(l) + 1
          /\ \A j \in 1..Len(m) : m[j] = IF j <= Len(c) THEN c[j] ELSE b[j - Len(c)]
      BY <1>1, <1>3, <1>4, ConcatProperties
    <2> HIDE DEF m
    <2>2. ASSUME NEW j \in 1..(Len(l) + 1)
          PROVE  m[j] = IF j <= i THEN l[j] ELSE IF j = i + 1 THEN x ELSE l[j - 1]
      <3>1. CASE j <= i + 1
        BY <1>1, <1>4, <2>1, <3>1
      <3>2. CASE j > i + 1
        <4>1. m[j] = b[j - (i + 1)] /\ j - (i + 1) \in 1..(Len(l) - i)
          BY <1>1, <1>4, <2>1, <3>2
        <4>2. b[j - (i + 1)] = l[i + (j - (i + 1))] /\ i + (j - (i + 1)) = j - 1
          BY <1>3, <4>1
        <4>3. QED
          BY <3>2, <4>1, <4>2
      <3>3. QED
        BY <3>1, <3>2
    <2>3. QED
      BY <2>1, <2>2
  <1> HIDE DEF m
  <1>6. IsSet(m)
    <2>1. DOMAIN m = 1..(Len(l) + 1)
      BY <1>5, LenProperties
    <2>2. \A j \in 1..Len(l) : l[j] # x
      BY Positions
    <2>3. QED
      <3> SUFFICES ASSUME NEW j \in 1..(Len(l) + 1), NEW k \in 1..(Len(l) + 1), j < k
                   PROVE  m[j] # m[k]
        BY <1>1, <2>1 DEF IsSet
      <3>1. \/ j <= i /\ m[j] = l[j] /\ j \in 1..Len(l)
            \/ j = i + 1 /\ m[j] = x
            \/ j > i + 1 /\ m[j] = l[j - 1] /\ j - 1 \in 1..Len(l)
        BY <1>1, <1>5
      <3>2. \/ k <= i /\ m[k] = l[k] /\ k \in 1..Len(l)
            \/ k = i + 1 /\ m[k] = x
            \/ k > i + 1 /\ m[k] = l[k - 1] /\ k - 1 \in 1..Len(l)
        BY <1>1, <1>5
      <3>3. \A p, q \in 1..Len(l) : p # q => l[p] # l[q]
        BY <1>1 DEF IsSet
      <3>4. QED
        BY <2>2, <3>1, <3>2, <3>3
  <1>7. Elements(m) = Elements(l) \cup {x}
    <2>1. ASSUME NEW y \in Elements(m) PROVE y \in Elements(l) \cup {x}
      BY <1>1, <1>5, Positions
    <2>2. x \in Elements(m)
      <3>1. i + 1 \in 1..(Len(l) + 1) /\ m[i + 1] = x
        BY <1>1, <1>5
      <3>2. QED
        BY <1>5, <3>1, Positions
    <2>3. ASSUME NEW y \in Elements(l) PROVE y \in Elements(m)
      <3>1. PICK j \in 1..Len(l) : y = l[j]
        BY Positions
      <3>2. \/ j \in 1..Len(m) /\ y = m[j]
            \/ j + 1 \in 1..Len(m) /\ y = m[j + 1]
        BY <1>1, <1>5, <3>1
      <3>3. QED
        BY <1>5, <3>2, Positions
    <2>4. QED
      BY <2>1, <2>2, <2>3
  <1>8. Front(m, o) \subseteq Front(l, o) \cup {x}
    <2> SUFFICES ASSUME NEW y \in Front(m, o), y # x PROVE y \in Front(l, o)
      OBVIOUS
    <2>1. PICK j \in 1..Len(m) : j <= o /\ y = m[j]
      BY <1>5, Positions
    <2>2. \/ j \in 1..Len(l) /\ y = l[j]
          \/ j - 1 \in 1..Len(l) /\ j - 1 <= o /\ y = l[j - 1]
      BY <1>1, <1>5, <2>1
    <2>3. QED
      BY <2>1, <2>2, Positions
  <1>9. Back(m, o) \subseteq Back(l, o) \cup {IF i >= o THEN x ELSE l[o]}
    <2>1. CASE i >= o
      <3> SUFFICES ASSUME NEW y \in Back(m, o), y # x PROVE y \in Back(l, o)
        BY <2>1
      <3>1. PICK j \in 1..Len(m) : j > o /\ y = m[j]
        BY <1>5, Positions
      <3>2. \/ j \in 1..Len(l) /\ y = l[j]
            \/ j - 1 \in 1..Len(l) /\ j - 1 > o /\ y = l[j - 1]
        BY <1>1, <1>5, <2>1, <3>1
      <3>3. QED
        BY <3>1, <3>2, Positions
    <2>2. CASE i < o
      <3> SUFFICES ASSUME NEW y \in Back(m, o), y # l[o] PROVE y \in Back(l, o)
        BY <1>1, <2>2
      <3>1. PICK j \in 1..Len(m) : j > o /\ y = m[j]
        BY <1>5, Positions
      <3>2. j - 1 \in 1..Len(l) /\ j - 1 >= o /\ y = l[j - 1]
        BY <1>1, <1>5, <2>2, <3>1
      <3>3. QED
        BY <3>2, Positions
    <2>3. QED
      BY <1>1, <2>1, <2>2
  <1>10. QED
    BY <1>5, <1>6, <1>7, <1>8, <1>9 DEF m, c, a, b

(* One that goes moves one item at most to the front.                      *)
LEMMA DeleteMovesOne ==
    ASSUME NEW l \in Seq(Item), IsSet(l), NEW o \in Nat, NEW i \in 1..Len(l)
    PROVE  LET m == SubSeq(l, 1, i - 1) \o SubSeq(l, i + 1, Len(l))
           IN  /\ m \in Seq(Item) /\ IsSet(m)
               /\ Elements(m) = Elements(l) \ {l[i]}
               /\ \E y : Front(m, o) \subseteq Front(l, o) \cup {y}
               /\ Back(m, o) \subseteq Back(l, o)
  <1> DEFINE a == SubSeq(l, 1, i - 1)
             b == SubSeq(l, i + 1, Len(l))
             m == a \o b
  <1>1. Len(l) \in Nat /\ DOMAIN l = 1..Len(l) /\ \A j \in 1..Len(l) : l[j] \in Item
    BY LenProperties
  <1>2. /\ a \in Seq(Item) /\ Len(a) = i - 1
        /\ \A j \in 1..(i - 1) : a[j] = l[j]
    BY <1>1, Part
  <1>3. /\ b \in Seq(Item) /\ Len(b) = Len(l) - i
        /\ \A j \in 1..(Len(l) - i) : b[j] = l[i + j]
    <2>1. i + 1 \in 1..(Len(l) + 1) /\ Len(l) \in ((i + 1) - 1)..Len(l)
      BY <1>1
    <2>2. /\ b \in Seq(Item) /\ Len(b) = Len(l) - (i + 1) + 1
          /\ \A j \in 1..(Len(l) - (i + 1) + 1) : b[j] = l[(i + 1) + j - 1]
      BY <2>1, Part
    <2> HIDE DEF b
    <2>3. QED
      BY <1>1, <2>2
  <1> HIDE DEF a, b
  <1>4. /\ m \in Seq(Item) /\ Len(m) = Len(l) - 1
        /\ \A j \in 1..(Len(l) - 1) : m[j] = IF j < i THEN l[j] ELSE l[j + 1]
    <2>1. /\ m \in Seq(Item) /\ Len(m) = Len(l) - 1
          /\ \A j \in 1..Len(m) : m[j] = IF j <= Len(a) THEN a[j] ELSE b[j - Len(a)]
      <3>1. /\ m \in Seq(Item) /\ Len(m) = Len(a) + Len(b)
            /\ \A j \in 1..(Len(a) + Len(b)) :
                  m[j] = IF j <= Len(a) THEN a[j] ELSE b[j - Len(a)]
        BY <1>2, <1>3, ConcatProperties
      <3>2. QED
        BY <1>1, <1>2, <1>3, <3>1
    <2> HIDE DEF m
    <2>2. ASSUME NEW j \in 1..(Len(l) - 1)
          PROVE  m[j] = IF j < i THEN l[j] ELSE l[j + 1]
      <3>1. CASE j < i
        BY <1>1, <1>2, <2>1, <3>1
      <3>2. CASE j >= i
        <4>1. m[j] = b[j - (i - 1)] /\ j - (i - 1) \in 1..(Len(l) - i)
          BY <1>1, <1>2, <2>1, <3>2
        <4>2. b[j - (i - 1)] = l[i + (j - (i - 1))] /\ i + (j - (i - 1)) = j + 1
          BY <1>3, <4>1
        <4>3. QED
          BY <3>2, <4>1, <4>2
      <3>3. QED
        BY <3>1, <3>2
    <2>3. QED
      BY <2>1, <2>2
  <1> HIDE DEF m
  <1>5. IsSet(m)
    <2>1. DOMAIN m = 1..(Len(l) - 1)
      BY <1>4, LenProperties
    <2>2. QED
      BY <1>1, <1>4, <2>1 DEF IsSet
  <1>6. Elements(m) = Elements(l) \ {l[i]}
    <2>1. ASSUME NEW y \in Elements(m) PROVE y \in Elements(l) \ {l[i]}
      <3>1. PICK j \in 1..Len(m) : y = m[j]
        BY <1>4, Positions
      <3>2. PICK k \in 1..Len(l) : k # i /\ y = l[k]
        BY <1>1, <1>4, <3>1
      <3>3. QED
        BY <1>1, <3>2, Positions DEF IsSet
    <2>2. ASSUME NEW y \in Elements(l) \ {l[i]} PROVE y \in Elements(m)
      <3>1. PICK j \in 1..Len(l) : y = l[j] /\ j # i
        BY Positions
      <3>2. \/ j \in 1..Len(m) /\ y = m[j]
            \/ j - 1 \in 1..Len(m) /\ y = m[j - 1]
        BY <1>1, <1>4, <3>1
      <3>3. QED
        BY <1>4, <3>2, Positions
    <2>3. QED
      BY <2>1, <2>2
  <1>7. \E y : Front(m, o) \subseteq Front(l, o) \cup {y}
    <2> SUFFICES ASSUME NEW y \in Front(m, o), y # l[o + 1] PROVE y \in Front(l, o)
      OBVIOUS
    <2>1. PICK j \in 1..Len(m) : j <= o /\ y = m[j]
      BY <1>4, Positions
    <2>2. \/ j \in 1..Len(l) /\ y = l[j]
          \/ j + 1 \in 1..Len(l) /\ j + 1 <= o /\ y = l[j + 1]
      BY <1>1, <1>4, <2>1
    <2>3. QED
      BY <2>1, <2>2, Positions
  <1>8. Back(m, o) \subseteq Back(l, o)
    <2> SUFFICES ASSUME NEW y \in Back(m, o) PROVE y \in Back(l, o)
      OBVIOUS
    <2>1. PICK j \in 1..Len(m) : j > o /\ y = m[j]
      BY <1>4, Positions
    <2>2. \/ j \in 1..Len(l) /\ y = l[j]
          \/ j + 1 \in 1..Len(l) /\ j + 1 > o /\ y = l[j + 1]
      BY <1>1, <1>4, <2>1
    <2>3. QED
      BY <2>1, <2>2, Positions
  <1>9. QED
    BY <1>4, <1>5, <1>6, <1>7, <1>8 DEF m, a, b

-----------------------------------------------------------------------------
(* A page is what stands right behind the cut, and the next cut is behind  *)
(* the page.                                                               *)
LEMMA CutBehind ==
    ASSUME NEW l \in Seq(Item), IsSet(l), NEW o \in Nat, NEW n \in Nat,
           o <= n, n <= Len(l)
    PROVE  LET p == SubSeq(l, o + 1, n)
           IN  /\ p \in Seq(Item) /\ IsSet(p) /\ Len(p) = n - o
               /\ Elements(p) \subseteq Back(l, o)
               /\ Back(l, n) = Back(l, o) \ Elements(p)
               /\ Front(l, n) = Front(l, o) \cup Elements(p)
  <1> DEFINE p == SubSeq(l, o + 1, n)
  <1>1. Len(l) \in Nat /\ DOMAIN l = 1..Len(l)
    BY LenProperties
  <1>2. /\ p \in Seq(Item) /\ Len(p) = n - o
        /\ \A j \in 1..(n - o) : p[j] = l[o + j] /\ o + j \in 1..Len(l)
    <2>1. o + 1 \in 1..(Len(l) + 1) /\ n \in ((o + 1) - 1)..Len(l)
      BY <1>1
    <2>2. /\ p \in Seq(Item) /\ Len(p) = n - (o + 1) + 1
          /\ \A j \in 1..(n - (o + 1) + 1) : p[j] = l[(o + 1) + j - 1]
      BY <2>1, Part
    <2> HIDE DEF p
    <2>3. QED
      BY <1>1, <2>2
  <1> HIDE DEF p
  <1>3. IsSet(p)
    <2>1. DOMAIN p = 1..(n - o)
      BY <1>2, LenProperties
    <2>2. QED
      BY <1>1, <1>2, <2>1 DEF IsSet
  <1>4. \A x : x \in Elements(p) <=>
           \E j \in 1..Len(l) : j > o /\ j <= n /\ x = l[j]
    <2>1. ASSUME NEW x \in Elements(p)
          PROVE  \E j \in 1..Len(l) : j > o /\ j <= n /\ x = l[j]
      <3>1. PICK j \in 1..(n - o) : x = p[j]
        BY <1>2, Positions
      <3>2. o + j \in 1..Len(l) /\ o + j > o /\ o + j <= n /\ x = l[o + j]
        BY <1>1, <1>2, <3>1
      <3>3. QED
        BY <3>2
    <2>2. ASSUME NEW j \in 1..Len(l), j > o, j <= n PROVE l[j] \in Elements(p)
      <3>1. j - o \in 1..(n - o) /\ o + (j - o) = j
        BY <1>1, <2>2
      <3>2. p[j - o] = l[j]
        BY <1>2, <3>1
      <3>3. QED
        BY <1>2, <3>1, <3>2, Positions
    <2>3. QED
      BY <2>1, <2>2
  <1>5. Back(l, n) = Back(l, o) \ Elements(p)
    <2>1. ASSUME NEW x \in Back(l, n) PROVE x \in Back(l, o) \ Elements(p)
      <3>1. PICK j \in 1..Len(l) : j > n /\ x = l[j]
        BY Positions
      <3>2. \A k \in 1..Len(l) : l[k] = l[j] => k = j
        BY <1>1 DEF IsSet
      <3>3. x \notin Elements(p)
        BY <1>1, <1>4, <3>1, <3>2
      <3>4. j > o
        BY <1>1, <3>1
      <3>5. QED
        BY <3>1, <3>3, <3>4, Positions
    <2>2. ASSUME NEW x \in Back(l, o), x \notin Elements(p) PROVE x \in Back(l, n)
      <3>1. PICK j \in 1..Len(l) : j > o /\ x = l[j]
        BY Positions
      <3>2. j > n
        BY <1>1, <1>4, <2>2, <3>1
      <3>3. QED
        BY <3>1, <3>2, Positions
    <2>3. QED
      BY <2>1, <2>2
  <1>6. Front(l, n) = Front(l, o) \cup Elements(p)
    <2>1. ASSUME NEW x \in Front(l, n) PROVE x \in Front(l, o) \cup Elements(p)
      <3>1. PICK j \in 1..Len(l) : j <= n /\ x = l[j]
        BY Positions
      <3>2. j <= o \/ j > o
        BY <1>1
      <3>3. QED
        BY <1>4, <3>1, <3>2, Positions
    <2>2. ASSUME NEW x \in Front(l, o) PROVE x \in Front(l, n)
      <3>1. PICK j \in 1..Len(l) : j <= o /\ x = l[j]
        BY Positions
      <3>2. j <= n
        BY <1>1, <3>1
      <3>3. QED
        BY <3>1, <3>2, Positions
    <2>3. Elements(p) \subseteq Front(l, n)
      BY <1>4, Positions
    <2>4. QED
      BY <2>1, <2>2, <2>3
  <1>7. Elements(p) \subseteq Back(l, o)
    BY <1>4, Positions
  <1>8. QED
    BY <1>2, <1>3, <1>5, <1>6, <1>7 DEF p

(* The page that is fetched, by either offset.  The last one reaches the   *)
(* end of the list; any other is full.                                     *)
LEMMA PageFacts ==
    ASSUME list \in Seq(Item), IsSet(list), offset \in Nat
    PROVE  /\ Page \in Seq(Item) /\ IsSet(Page) /\ Len(Page) \in Nat
           /\ Elements(Page) \subseteq Back(list, offset)
           /\ Back(list, offset + Len(Page)) = Back(list, offset) \ Elements(Page)
           /\ Front(list, offset + Len(Page)) = Front(list, offset) \cup Elements(Page)
           /\ LastPage => offset + Len(Page) >= Len(list)
           /\ ~LastPage => NextOffset = offset + Len(Page)
           /\ offset <= Len(list) =>
                 /\ offset + Len(Page) <= Len(list)
                 /\ Page = SubSeq(list, offset + 1, offset + Len(Page))
  <1>1. Len(list) \in Nat
    BY LenProperties
  <1>2. PICK lim \in Nat \ {0} : Limit = lim
    BY PaginationAssumption DEF Limit, Least
  <1>3. PICK n \in Nat : /\ n = Least(offset + lim, Len(list))
                         /\ n <= Len(list)
                         /\ n <= offset + lim
                         /\ n = offset + lim \/ n = Len(list)
    BY <1>1 DEF Least
  <1>4. Page = SubSeq(list, offset + 1, n)
    BY <1>2, <1>3 DEF Page
  <1>5. NextOffset = IF api = "admin" THEN offset + lim ELSE offset + Len(Page)
    BY <1>2 DEF NextOffset
  <1>6. CASE offset <= n
    <2>1. /\ Page \in Seq(Item) /\ IsSet(Page) /\ Len(Page) = n - offset
          /\ Elements(Page) \subseteq Back(list, offset)
          /\ Back(list, n) = Back(list, offset) \ Elements(Page)
          /\ Front(list, n) = Front(list, offset) \cup Elements(Page)
      BY <1>3, <1>4, <1>6, CutBehind
    <2>2. offset + Len(Page) = n /\ Len(Page) \in Nat
      BY <1>6, <2>1
    <2>3. LastPage => n >= Len(list)
      BY <1>1, <1>3, <1>5, <2>2 DEF LastPage
    <2>4. ~LastPage => NextOffset = n
      BY <1>1, <1>3, <1>5, <2>2 DEF LastPage
    <2>5. QED
      BY <1>3, <1>4, <2>1, <2>2, <2>3, <2>4
  <1>7. CASE offset > n
    <2>1. n = Len(list)
      BY <1>1, <1>3, <1>7
    <2>2. Page = <<>>
      BY <1>1, <1>3, <1>4, <1>7, SubSeqEmpty
    <2>3. Page \in Seq(Item) /\ Elements(Page) = {} /\ IsSet(Page) /\ Len(Page) = 0
      BY <2>2 DEF Elements, IsSet
    <2>4. LastPage
      BY <1>1, <1>5, <1>7, <2>1, <2>2 DEF LastPage
    <2>5. QED
      BY <1>1, <1>7, <2>1, <2>3, <2>4
  <1>8. QED
    BY <1>6, <1>7

(* One element more makes a set larger by one at most.                     *)
LEMMA OneMore ==
    ASSUME NEW S, NEW T, NEW y, IsFiniteSet(T), S \subseteq T \cup {y}
    PROVE  IsFiniteSet(S) /\ Cardinality(S) <= Cardinality(T) + 1
  <1>1. /\ IsFiniteSet(T \cup {y}) /\ Cardinality(T) \in Nat
        /\ Cardinality(T \cup {y}) <= Cardinality(T) + 1
    BY FS_AddElement, FS_CardinalityType
  <1>2. IsFiniteSet(S) /\ Cardinality(S) <= Cardinality(T \cup {y}) /\ Cardinality(S) \in Nat
    BY <1>1, FS_Subset, FS_CardinalityType
  <1>3. Cardinality(T \cup {y}) \in Nat
    BY <1>1, FS_CardinalityType
  <1>4. QED
    BY <1>1, <1>2, <1>3

(* What a list has in common with others is finite.                        *)
LEMMA FiniteParts ==
    ASSUME NEW l \in Seq(Item), NEW y \in Seq(Item), IsSet(l), NEW o \in Nat, NEW S
    PROVE  /\ IsFiniteSet((S \cap Front(l, o)) \ Elements(y))
           /\ IsFiniteSet(Back(l, o) \cap Elements(y))
           /\ Cardinality((S \cap Front(l, o)) \ Elements(y)) \in Nat
           /\ Cardinality(Back(l, o) \cap Elements(y)) \in Nat
  <1>1. IsFiniteSet(Elements(l)) /\ IsFiniteSet(Elements(y))
    BY FiniteElements
  <1>2. (S \cap Front(l, o)) \ Elements(y) \subseteq Elements(l)
    BY CutParts
  <1>3. QED
    BY <1>1, <1>2, FS_Subset, FS_CardinalityType

LEMMA ElementsOfConcat ==
    ASSUME NEW y \in Seq(Item), NEW p \in Seq(Item)
    PROVE  /\ y \o p \in Seq(Item) /\ Len(y \o p) = Len(y) + Len(p)
           /\ Elements(y \o p) = Elements(y) \cup Elements(p)
  <1> DEFINE z == y \o p
  <1>1. /\ z \in Seq(Item) /\ Len(z) = Len(y) + Len(p)
        /\ \A i \in 1..(Len(y) + Len(p)) : z[i] = IF i <= Len(y) THEN y[i] ELSE p[i - Len(y)]
    BY ConcatProperties
  <1>2. Len(y) \in Nat /\ Len(p) \in Nat
    BY LenProperties
  <1> HIDE DEF z
  <1>3. ASSUME NEW x \in Elements(z) PROVE x \in Elements(y) \cup Elements(p)
    <2>1. PICK i \in 1..(Len(y) + Len(p)) : x = z[i]
      BY <1>1, Positions
    <2>2. \/ i \in 1..Len(y) /\ x = y[i]
          \/ i - Len(y) \in 1..Len(p) /\ x = p[i - Len(y)]
      BY <1>1, <1>2, <2>1
    <2>3. QED
      BY <2>2, Positions
  <1>4. ASSUME NEW x \in Elements(y) PROVE x \in Elements(z)
    <2>1. PICK i \in 1..Len(y) : x = y[i]
      BY Positions
    <2>2. i \in 1..Len(z) /\ x = z[i]
      BY <1>1, <1>2, <2>1
    <2>3. QED
      BY <1>1, <2>2, Positions
  <1>5. ASSUME NEW x \in Elements(p) PROVE x \in Elements(z)
    <2>1. PICK i \in 1..Len(p) : x = p[i]
      BY Positions
    <2> DEFINE k == Len(y) + i
    <2>2. k \in 1..(Len(y) + Len(p)) /\ ~(k <= Len(y)) /\ k - Len(y) = i
      BY <1>2, <2>1
    <2> HIDE DEF k
    <2>3. k \in 1..Len(z) /\ x = z[k]
      BY <1>1, <2>1, <2>2
    <2>4. QED
      BY <1>1, <2>3, Positions
  <1>6. QED
    BY <1>1, <1>3, <1>4, <1>5 DEF z

(* Reading a page p out of the back b: every element of it that was read   *)
(* before is a repetition, and one less that will come again.              *)
LEMMA PageCounts ==
    ASSUME NEW e, NEW b, NEW p, IsFiniteSet(e), IsFiniteSet(p), p \subseteq b
    PROVE  Cardinality(e \cup p) + Cardinality(b \cap e)
              = Cardinality(e) + Cardinality(p) + Cardinality((b \ p) \cap (e \cup p))
  <1>1. Cardinality(e \cup p) = Cardinality(e) + Cardinality(p) - Cardinality(e \cap p)
    BY FS_Union
  <1>2. IsFiniteSet(b \cap e)
    BY FS_Intersection
  <1>3. (b \ p) \cap (e \cup p) = (b \cap e) \ p /\ (b \cap e) \cap p = e \cap p
    OBVIOUS
  <1>4. Cardinality((b \cap e) \ p) = Cardinality(b \cap e) - Cardinality(e \cap p)
    BY <1>2, <1>3, FS_Difference
  <1>5. /\ Cardinality(e) \in Nat /\ Cardinality(p) \in Nat
        /\ Cardinality(b \cap e) \in Nat /\ Cardinality(e \cap p) \in Nat
    BY <1>2, FS_Intersection, FS_CardinalityType
  <1>6. Cardinality((b \ p) \cap (e \cup p)) = Cardinality(b \cap e) - Cardinality(e \cap p)
    BY <1>3, <1>4
  <1>7. QED
    BY <1>1, <1>5, <1>6

-----------------------------------------------------------------------------
(* The invariant.                                                          *)

LEMMA InitInv == Init => IInv
  <1> SUFFICES ASSUME Init PROVE IInv
    OBVIOUS
  <1>1. list \in Seq(Item) /\ IsSet(list)
    <2>1. PICK n \in 0..Cardinality(Item) : list \in [1..n -> Item]
      BY DEF Init, Lists
    <2>2. n \in Nat
      BY <2>1
    <2>3. QED
      BY <2>1, <2>2 DEF Init, Lists
  <1>2. Elements(<<>>) = {}
    BY DEF Elements
  <1>3. yielded = <<>> /\ Len(yielded) = 0 /\ Cardinality(Elements(yielded)) = 0
    BY <1>2, FS_EmptySet DEF Init
  <1>4. QED
    BY <1>1, <1>3, PaginationAssumption
    DEF Init, IInv, TypeOK, QuietIterationExact, EachChangeCostsOneItem

(* The parts that hold between two pages suffice for what holds always.    *)
LEMMA FewAgainSuffices ==
    ASSUME NEW y \in Seq(Item), NEW l \in Seq(Item), IsSet(l), NEW o \in Nat,
           NEW n \in Nat,
           Len(y) + Cardinality(Back(l, o) \cap Elements(y)) - Cardinality(Elements(y)) <= n
    PROVE  Len(y) - Cardinality(Elements(y)) <= n
  <1>1. Cardinality(Back(l, o) \cap Elements(y)) \in Nat
    BY FiniteParts
  <1>2. Cardinality(Elements(y)) \in Nat /\ Len(y) \in Nat
    BY FiniteElements, LenProperties
  <1>3. QED
    BY <1>1, <1>2

LEMMA BeginKeepsInv ==
    ASSUME IInv, Begin PROVE IInv'
  <1>1. /\ pc' = "fetch" /\ offset' = 0 /\ yielded' = <<>> /\ stayed' = Elements(list)
        /\ inserts' = 0 /\ deletes' = 0 /\ api' = api /\ list' = list
        /\ list \in Seq(Item) /\ IsSet(list) /\ Len(list) \in Nat /\ MaxChanges \in Nat
    BY LenProperties, PaginationAssumption DEF Begin, IInv, TypeOK
  <1>2. Elements(<<>>) = {}
    BY DEF Elements
  <1>3. Front(list, 0) = {}
    BY <1>1, Positions
  <1>4. Lost(list, offset)' = {} /\ Again(list, offset)' = {} /\ Elements(yielded)' = {}
    BY <1>1, <1>2, <1>3 DEF Lost, Again
  <1>5. /\ Cardinality(Lost(list, offset)') = 0
        /\ Cardinality(Again(list, offset)') = 0
        /\ Cardinality(Elements(yielded)') = 0
        /\ Len(yielded') = 0
    BY <1>1, <1>4, FS_EmptySet
  <1>6. yielded' = SubSeq(list, 1, 0)
    BY <1>1, SubSeqEmpty
  <1>7. FewLost' /\ FewAgain' /\ ExactSoFar' /\ EachChangeCostsOneItem'
    BY <1>1, <1>5, <1>6 DEF FewLost, FewAgain, ExactSoFar, EachChangeCostsOneItem
  <1>8. TypeOK'
    <2>1. yielded' \in Seq(Item)
      BY <1>1
    <2>2. QED
      BY <1>1, <1>5, <2>1 DEF TypeOK, IInv
  <1>9. QED
    BY <1>1, <1>7, <1>8 DEF IInv, QuietIterationExact

LEMMA FetchFailsKeepsInv ==
    ASSUME IInv, FetchFails PROVE IInv'
  <1>1. /\ pc = "fetch" /\ pc' = "failed"
        /\ UNCHANGED <<api, list, offset, yielded, stayed, inserts, deletes>>
    BY DEF FetchFails
  <1>2. QED
    BY <1>1 DEF IInv, TypeOK, QuietIterationExact, EachChangeCostsOneItem

(* A page moves its elements from the back to the front, and all of them   *)
(* are read; at the end of the list the front is all of it.                *)
LEMMA FetchKeepsInv ==
    ASSUME IInv, FetchPage PROVE IInv'
  <1> DEFINE e == offset + Len(Page)
             lost == (stayed \cap Front(list, e)) \ Elements(yielded')
             again == Back(list, e) \cap Elements(yielded')
  <1>1. /\ pc = "fetch" /\ yielded' = yielded \o Page
        /\ UNCHANGED <<api, list, stayed, inserts, deletes>>
        /\ LastPage => pc' = "done" /\ offset' = offset
        /\ ~LastPage => pc' = pc /\ offset' = NextOffset
    BY DEF FetchPage
  <1>2. /\ list \in Seq(Item) /\ IsSet(list) /\ offset \in Nat /\ Len(list) \in Nat
        /\ yielded \in Seq(Item) /\ offset = Len(yielded)
        /\ stayed \subseteq Elements(list) /\ inserts \in Nat /\ deletes \in Nat
        /\ FewLost /\ FewAgain /\ ExactSoFar
    BY <1>1, LenProperties DEF IInv, TypeOK
  <1>3. /\ Page \in Seq(Item) /\ IsSet(Page) /\ Len(Page) \in Nat
        /\ Elements(Page) \subseteq Back(list, offset)
        /\ Back(list, e) = Back(list, offset) \ Elements(Page)
        /\ Front(list, e) = Front(list, offset) \cup Elements(Page)
        /\ LastPage => e >= Len(list)
        /\ ~LastPage => NextOffset = e
        /\ offset <= Len(list) => e <= Len(list) /\ Page = SubSeq(list, offset + 1, e)
    BY <1>2, PageFacts
  <1>4. /\ yielded' \in Seq(Item) /\ Len(yielded') = e /\ e \in Nat
        /\ Elements(yielded') = Elements(yielded) \cup Elements(Page)
    BY <1>1, <1>2, <1>3, ElementsOfConcat
  <1>5. Cardinality(lost) <= deletes
    <2>1. lost \subseteq Lost(list, offset)
      BY <1>3, <1>4 DEF Lost
    <2>2. IsFiniteSet(Lost(list, offset)) /\ Cardinality(Lost(list, offset)) \in Nat
      BY <1>2, FiniteParts DEF Lost
    <2>3. Cardinality(lost) <= Cardinality(Lost(list, offset)) /\ Cardinality(lost) \in Nat
      BY <2>1, <2>2, FS_Subset, FS_CardinalityType
    <2>4. QED
      BY <1>2, <2>2, <2>3 DEF FewLost
  <1>6. Len(yielded') + Cardinality(again) - Cardinality(Elements(yielded')) <= inserts
    <2>1. IsFiniteSet(Elements(yielded)) /\ IsFiniteSet(Elements(Page))
      BY <1>2, <1>3, FiniteElements
    <2>2. Cardinality(Elements(Page)) = Len(Page)
      BY <1>3, CardinalityOfSet
    <2>3. Cardinality(Elements(yielded')) + Cardinality(Again(list, offset))
             = Cardinality(Elements(yielded)) + Len(Page) + Cardinality(again)
      <3>1. Cardinality(Elements(yielded) \cup Elements(Page))
                  + Cardinality(Back(list, offset) \cap Elements(yielded))
               = Cardinality(Elements(yielded)) + Cardinality(Elements(Page))
                  + Cardinality((Back(list, offset) \ Elements(Page))
                                   \cap (Elements(yielded) \cup Elements(Page)))
        BY <1>3, <2>1, PageCounts
      <3>2. again = (Back(list, offset) \ Elements(Page))
                       \cap (Elements(yielded) \cup Elements(Page))
        BY <1>3, <1>4
      <3> HIDE DEF again
      <3>3. QED
        BY <1>4, <2>2, <3>1, <3>2 DEF Again
    <2>4. /\ Cardinality(Elements(yielded)) \in Nat /\ Cardinality(Elements(yielded')) \in Nat
          /\ Cardinality(Again(list, offset)) \in Nat /\ Cardinality(again) \in Nat
      BY <1>2, <1>4, FiniteElements, FiniteParts DEF Again
    <2> HIDE DEF again
    <2>5. QED
      BY <1>2, <1>3, <1>4, <2>3, <2>4 DEF FewAgain
  <1>7. inserts + deletes = 0 => e <= Len(list) /\ yielded' = SubSeq(list, 1, e)
    <2> SUFFICES ASSUME inserts + deletes = 0
                 PROVE  e <= Len(list) /\ yielded' = SubSeq(list, 1, e)
      OBVIOUS
    <2>1. offset <= Len(list) /\ yielded = SubSeq(list, 1, offset)
      BY <1>2 DEF ExactSoFar
    <2>2. e <= Len(list) /\ yielded' = SubSeq(list, 1, offset) \o SubSeq(list, offset + 1, e)
      BY <1>1, <1>3, <2>1
    <2>3. 1 \in 1..(Len(list) + 1) /\ offset \in (1 - 1)..Len(list) /\ e \in offset..Len(list)
      BY <1>2, <1>3, <2>1, <2>2
    <2> HIDE DEF e
    <2>4. SubSeq(list, 1, offset) \o SubSeq(list, offset + 1, e) = SubSeq(list, 1, e)
      BY <1>2, <2>3, ConcatAdjacentSubSeq
    <2>5. QED
      BY <2>2, <2>4
  <1>8. Len(yielded') - Cardinality(Elements(yielded')) <= inserts
    BY <1>2, <1>4, <1>6, FewAgainSuffices
  <1> HIDE DEF lost, again
  <1>9. CASE LastPage
    <2>1. stayed \ Elements(yielded') \subseteq lost
      <3>1. Front(list, e) = Elements(list)
        <4>1. e \in Nat /\ e >= Len(list)
          BY <1>3, <1>4, <1>9
        <4> HIDE DEF e
        <4>2. QED
          BY <1>2, <4>1, WholeFront
      <3>2. QED
        BY <1>2, <3>1 DEF lost
    <2>2. IsFiniteSet(lost) /\ Cardinality(lost) \in Nat
      BY <1>2, <1>4, FiniteParts DEF lost
    <2>3. /\ Cardinality(stayed \ Elements(yielded')) <= Cardinality(lost)
          /\ Cardinality(stayed \ Elements(yielded')) \in Nat
      BY <2>1, <2>2, FS_Subset, FS_CardinalityType
    <2>4. EachChangeCostsOneItem'
      BY <1>1, <1>2, <1>5, <1>8, <2>2, <2>3 DEF EachChangeCostsOneItem
    <2>5. QuietIterationExact'
      <3> SUFFICES ASSUME inserts + deletes = 0 PROVE yielded' = list
        BY <1>1 DEF QuietIterationExact
      <3>1. e = Len(list)
        BY <1>2, <1>3, <1>4, <1>7, <1>9
      <3>2. QED
        BY <1>2, <1>7, <3>1, SubSeqFull
    <2>6. TypeOK'
      BY <1>1, <1>4, <1>9 DEF IInv, TypeOK
    <2>7. QED
      BY <1>1, <1>9, <2>4, <2>5, <2>6 DEF IInv
  <1>10. CASE ~LastPage
    <2>1. pc' = "fetch" /\ offset' = e
      BY <1>1, <1>3, <1>10
    <2>2. FewLost' /\ FewAgain' /\ ExactSoFar'
      BY <1>1, <1>5, <1>6, <1>7, <2>1
      DEF FewLost, FewAgain, ExactSoFar, Lost, Again, lost, again
    <2>3. EachChangeCostsOneItem' /\ QuietIterationExact'
      BY <1>1, <1>8, <2>1 DEF EachChangeCostsOneItem, QuietIterationExact
    <2>4. TypeOK'
      BY <1>1, <1>4, <2>1 DEF IInv, TypeOK
    <2>5. QED
      BY <2>2, <2>3, <2>4 DEF IInv
  <1>11. QED
    BY <1>9, <1>10

(* A change of the list, which loses one item more at most if it deletes   *)
(* one and repeats one more at most if it makes one.                       *)
LEMMA InsertKeepsInv ==
    ASSUME IInv, NEW x \in Item, NEW i \in 0..Len(list), Insert(x, i)
    PROVE  IInv'
  <1>1. /\ pc = "fetch" /\ x \notin Elements(list)
        /\ list' = SubSeq(list, 1, i) \o <<x>> \o SubSeq(list, i + 1, Len(list))
        /\ inserts + deletes < MaxChanges /\ inserts' = inserts + 1
        /\ UNCHANGED <<api, pc, offset, yielded, stayed, deletes>>
    BY DEF Insert, iterVars
  <1>2. /\ list \in Seq(Item) /\ IsSet(list) /\ offset \in Nat
        /\ yielded \in Seq(Item) /\ stayed \subseteq Elements(list)
        /\ inserts \in Nat /\ deletes \in Nat /\ MaxChanges \in Nat
        /\ FewLost /\ FewAgain
    BY <1>1, PaginationAssumption DEF IInv, TypeOK
  <1>3. /\ list' \in Seq(Item) /\ IsSet(list')
        /\ Elements(list') = Elements(list) \cup {x}
        /\ Front(list', offset) \subseteq Front(list, offset) \cup {x}
    BY <1>1, <1>2, InsertMovesOne
  <1> DEFINE y == IF i >= offset THEN x ELSE list[offset]
  <1>4. Back(list', offset) \subseteq Back(list, offset) \cup {y}
    BY <1>1, <1>2, InsertMovesOne
  <1> HIDE DEF y
  <1> DEFINE lost == (stayed \cap Front(list', offset)) \ Elements(yielded)
             again == Back(list', offset) \cap Elements(yielded)
  <1>5. /\ IsFiniteSet(Lost(list, offset)) /\ IsFiniteSet(Again(list, offset))
        /\ Cardinality(Lost(list, offset)) \in Nat /\ Cardinality(Again(list, offset)) \in Nat
        /\ Cardinality(lost) \in Nat /\ Cardinality(again) \in Nat
        /\ Cardinality(Elements(yielded)) \in Nat /\ Len(yielded) \in Nat
    BY <1>2, <1>3, FiniteParts, FiniteElements, LenProperties DEF Lost, Again
  <1>6. Cardinality(lost) <= deletes
    <2>1. lost \subseteq Lost(list, offset)
      BY <1>1, <1>2, <1>3 DEF Lost
    <2>2. QED
      BY <1>2, <1>5, <2>1, FS_Subset DEF FewLost
  <1>7. Cardinality(again) <= Cardinality(Again(list, offset)) + 1
    <2>1. again \subseteq Again(list, offset) \cup {y}
      BY <1>4 DEF Again
    <2> HIDE DEF again
    <2>2. QED
      BY <1>5, <2>1, OneMore
  <1> HIDE DEF lost, again
  <1>8. Len(yielded) + Cardinality(again) - Cardinality(Elements(yielded)) <= inserts + 1
    BY <1>2, <1>5, <1>7 DEF FewAgain
  <1>9. FewLost' /\ FewAgain'
    BY <1>1, <1>6, <1>8 DEF FewLost, FewAgain, Lost, Again, lost, again
  <1>10. ExactSoFar' /\ QuietIterationExact'
    <2>1. inserts' + deletes' # 0 /\ pc' = "fetch"
      BY <1>1, <1>2
    <2>2. QED
      BY <2>1 DEF ExactSoFar, QuietIterationExact
  <1>11. EachChangeCostsOneItem'
    BY <1>1, <1>2, <1>5, <1>8 DEF EachChangeCostsOneItem
  <1>12. TypeOK'
    <2>1. inserts' \in 0..MaxChanges /\ stayed' \subseteq Elements(list')
      BY <1>1, <1>2, <1>3
    <2>2. QED
      BY <1>1, <1>3, <2>1 DEF IInv, TypeOK
  <1>13. QED
    BY <1>9, <1>10, <1>11, <1>12 DEF IInv

LEMMA DeleteKeepsInv ==
    ASSUME IInv, NEW i \in 1..Len(list), Delete(i)
    PROVE  IInv'
  <1>1. /\ pc = "fetch"
        /\ list' = SubSeq(list, 1, i - 1) \o SubSeq(list, i + 1, Len(list))
        /\ stayed' = stayed \ {list[i]}
        /\ inserts + deletes < MaxChanges /\ deletes' = deletes + 1
        /\ UNCHANGED <<api, pc, offset, yielded, inserts>>
    BY DEF Delete, iterVars
  <1>2. /\ list \in Seq(Item) /\ IsSet(list) /\ offset \in Nat
        /\ yielded \in Seq(Item) /\ stayed \subseteq Elements(list)
        /\ inserts \in Nat /\ deletes \in Nat /\ MaxChanges \in Nat
        /\ FewLost /\ FewAgain
    BY <1>1, PaginationAssumption DEF IInv, TypeOK
  <1>3. /\ list' \in Seq(Item) /\ IsSet(list')
        /\ Elements(list') = Elements(list) \ {list[i]}
        /\ Back(list', offset) \subseteq Back(list, offset)
    BY <1>1, <1>2, DeleteMovesOne
  <1>4. PICK y : Front(list', offset) \subseteq Front(list, offset) \cup {y}
    BY <1>1, <1>2, DeleteMovesOne
  <1> DEFINE lost == (stayed' \cap Front(list', offset)) \ Elements(yielded)
             again == Back(list', offset) \cap Elements(yielded)
  <1>5. /\ IsFiniteSet(Lost(list, offset)) /\ IsFiniteSet(Again(list, offset))
        /\ Cardinality(Lost(list, offset)) \in Nat /\ Cardinality(Again(list, offset)) \in Nat
        /\ Cardinality(lost) \in Nat /\ Cardinality(again) \in Nat
        /\ Cardinality(Elements(yielded)) \in Nat /\ Len(yielded) \in Nat
    BY <1>2, <1>3, FiniteParts, FiniteElements, LenProperties DEF Lost, Again
  <1>6. Cardinality(lost) <= Cardinality(Lost(list, offset)) + 1
    <2>1. lost \subseteq Lost(list, offset) \cup {y}
      BY <1>1, <1>4 DEF Lost
    <2> HIDE DEF lost
    <2>2. QED
      BY <1>5, <2>1, OneMore
  <1>7. Cardinality(again) <= Cardinality(Again(list, offset))
    <2>1. again \subseteq Again(list, offset)
      BY <1>3 DEF Again
    <2>2. QED
      BY <1>5, <2>1, FS_Subset
  <1> HIDE DEF lost, again
  <1>8. /\ Cardinality(lost) <= deletes + 1
        /\ Len(yielded) + Cardinality(again) - Cardinality(Elements(yielded)) <= inserts
    BY <1>2, <1>5, <1>6, <1>7 DEF FewLost, FewAgain
  <1>9. FewLost' /\ FewAgain'
    BY <1>1, <1>8 DEF FewLost, FewAgain, Lost, Again, lost, again
  <1>10. ExactSoFar' /\ QuietIterationExact'
    <2>1. inserts' + deletes' # 0 /\ pc' = "fetch"
      BY <1>1, <1>2
    <2>2. QED
      BY <2>1 DEF ExactSoFar, QuietIterationExact
  <1>11. EachChangeCostsOneItem'
    BY <1>1, <1>2, <1>5, <1>8 DEF EachChangeCostsOneItem
  <1>12. TypeOK'
    <2>1. deletes' \in 0..MaxChanges /\ stayed' \subseteq Elements(list')
      BY <1>1, <1>2, <1>3
    <2>2. QED
      BY <1>1, <1>3, <2>1 DEF IInv, TypeOK
  <1>13. QED
    BY <1>9, <1>10, <1>11, <1>12 DEF IInv

LEMMA StepInv == IInv /\ [Next]_vars => IInv'
  <1>1. ASSUME IInv, UNCHANGED vars PROVE IInv'
    BY <1>1
    DEF vars, IInv, TypeOK, QuietIterationExact, EachChangeCostsOneItem,
        FewLost, FewAgain, ExactSoFar, Lost, Again
  <1>2. QED
    BY <1>1, BeginKeepsInv, FetchKeepsInv, FetchFailsKeepsInv, InsertKeepsInv,
       DeleteKeepsInv DEF Next

(* The inductive invariant holds in every reachable state.                 *)
THEOREM InvariantHolds == Spec => []IInv
  BY InitInv, StepInv, PTL DEF Spec

-----------------------------------------------------------------------------
(* The list never holds an item twice, and the offset of the next page     *)
(* counts the items already yielded, whatever the page sizes and whichever *)
(* side keeps the count (_iter_paginated, _iter_ifm_paginated).            *)
THEOREM TypeCorrect == Spec => []TypeOK
  <1>1. IInv => TypeOK
    BY DEF IInv
  <1>2. QED
    BY InvariantHolds, <1>1, PTL

(* A list of any length that nobody changes is yielded exactly as it is,   *)
(* for any page size and any limit of the server (_iter_paginated,         *)
(* _iter_ifm_paginated).                                                   *)
THEOREM QuietIterationsExact == Spec => []QuietIterationExact
  <1>1. IInv => QuietIterationExact
    BY DEF IInv
  <1>2. QED
    BY InvariantHolds, <1>1, PTL

(* However many items are created and deleted between the pages, each      *)
(* deletion hides one item at most and each creation repeats one at most   *)
(* (_iter_paginated, _iter_ifm_paginated).                                 *)
THEOREM ChangesCostOneItemEach == Spec => []EachChangeCostsOneItem
  <1>1. IInv => EachChangeCostsOneItem
    BY DEF IInv
  <1>2. QED
    BY InvariantHolds, <1>1, PTL
===============================================================================
