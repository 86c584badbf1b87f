--------------------------- MODULE CommentsProofs ---------------------------
(***************************************************************************)
(* Theorems about Comments, for any number of comments, page size and      *)
(* deletions at a time.                                                    *)
(*                                                                         *)
(* First what Filter and FlattenSeq compute, by induction over sequences;  *)
(* then the pages of a descending listing.  Then four invariants: the      *)
(* types; CleanInv, what an undisturbed load has read is what the server   *)
(* has; CalmInv, the shown pages and the copies that deletions keep        *)
(* descend, hold the hearts the server has or is about to have, and end    *)
(* above the next page; FullInv, they are the first pages of the listing.  *)
(***************************************************************************)
EXTENDS Comments, SequenceTheorems, WellFoundedInduction, TLAPS

-----------------------------------------------------------------------------
(* Induction, over numbers and over sequences; a property is the set of what has it. *)

(* A nonempty set of numbers has a least one. *)
LEMMA LeastNat ==
    ASSUME NEW T \in SUBSET Nat, T # {}
    PROVE  \E x \in T : \A y \in T : x <= y
<1>1. PICK x \in T : \A y \in T : ~ (<<y, x>> \in OpToRel(<, Nat))
  BY NatLessThanWellFounded, WFMin
<1>2. ASSUME NEW y \in T PROVE x <= y
  <2>1. ~(y < x)
    BY <1>1, Zenon DEF OpToRel
  <2>. QED
    BY <2>1
<1>. QED
  BY <1>2

(* Induction, for a set of numbers. *)
LEMMA Induction ==
    ASSUME NEW P, 0 \in P, \A n \in Nat : n \in P => n + 1 \in P
    PROVE  Nat \subseteq P
<1> SUFFICES ASSUME NEW k \in Nat, k \notin P
             PROVE  FALSE
  OBVIOUS
<1>1. Nat \ P \in SUBSET Nat /\ Nat \ P # {}
  OBVIOUS
<1>2. PICK x \in Nat \ P : \A y \in Nat \ P : x <= y
  BY <1>1, LeastNat
<1>3. x # 0 /\ x - 1 \in Nat
  BY <1>2
<1>4. x - 1 \in P
  BY <1>2, <1>3
<1>5. (x - 1) + 1 \in P
  BY <1>3, <1>4
<1>. QED
  BY <1>2, <1>5

(* Induction over sequences, for a set of sequences. *)
LEMMA SeqInduction ==
    ASSUME NEW S, NEW P, <<>> \in P,
           \A s \in Seq(S), x \in S : s \in P => Append(s, x) \in P
    PROVE  Seq(S) \subseteq P
<1> DEFINE N == {n \in Nat : \A s \in Seq(S) : Len(s) = n => s \in P}
<1>1. 0 \in N
  OBVIOUS
<1>2. ASSUME NEW n \in Nat, n \in N PROVE n + 1 \in N
  <2> SUFFICES ASSUME NEW s \in Seq(S), Len(s) = n + 1 PROVE s \in P
    OBVIOUS
  <2> DEFINE front == [i \in 1..n |-> s[i]]
  <2>1. front \in Seq(S) /\ Len(front) = n /\ s[n + 1] \in S
    OBVIOUS
  <2>2. front \in P
    BY <1>2, <2>1
  <2>3. s = Append(front, s[n + 1])
    BY <2>1
  <2>. QED
    BY <2>1, <2>2, <2>3
<1>3. Nat \subseteq N
  BY <1>1, <1>2, Induction
<1>. QED
  BY <1>3

-----------------------------------------------------------------------------
(* Sequences without some of their members. *)

(* f is the recursive function behind s without X. *)
IsFilters(s, X, f) ==
    f = [n \in 0..Len(s) |-> IF n = 0 THEN <<>>
                             ELSE IF s[n] \in X THEN f[n - 1]
                             ELSE Append(f[n - 1], s[n])]

(* That function exists: it is extended member by member. *)
LEMMA FiltersUnfold ==
    ASSUME NEW X, NEW s \in Seq(Nat)
    PROVE  IsFilters(s, X, Filters(s, X))
<1> DEFINE P == {u \in Seq(Nat) : \E f : IsFilters(u, X, f)}
<1>1. <<>> \in P
  <2>1. IsFilters(<<>>, X, [n \in 0..0 |-> <<>>])
    BY DEF IsFilters
  <2>. QED
    BY <2>1
<1>2. ASSUME NEW u \in Seq(Nat), NEW x \in Nat, u \in P
      PROVE  Append(u, x) \in P
  <2>1. PICK f : IsFilters(u, X, f)
    BY <1>2
  <2> DEFINE m == Len(u) + 1
             g == [n \in 0..m |-> IF n = m
                                  THEN IF x \in X THEN f[Len(u)] ELSE Append(f[Len(u)], x)
                                  ELSE f[n]]
  <2>2. Append(u, x) \in Seq(Nat) /\ Len(Append(u, x)) = m /\ m \in Nat \ {0}
    OBVIOUS
  <2>3. ASSUME NEW n \in 0..m
        PROVE  g[n] = IF n = 0 THEN <<>>
                      ELSE IF Append(u, x)[n] \in X THEN g[n - 1]
                      ELSE Append(g[n - 1], Append(u, x)[n])
    <3>1. CASE n = 0
      BY <2>1, <3>1 DEF IsFilters
    <3>2. CASE n # 0 /\ n # m
      <4>1. n \in 0..Len(u) /\ n - 1 \in 0..Len(u) /\ Append(u, x)[n] = u[n]
        BY <3>2
      <4>2. f[n] = IF u[n] \in X THEN f[n - 1] ELSE Append(f[n - 1], u[n])
        BY <2>1, <3>2, <4>1 DEF IsFilters
      <4>3. g[n] = f[n] /\ g[n - 1] = f[n - 1]
        BY <3>2, <4>1
      <4>. QED
        BY <3>2, <4>1, <4>2, <4>3
    <3>3. CASE n = m
      <4>1. /\ Append(u, x)[m] = x /\ m - 1 = Len(u) /\ m - 1 \in 0..m
            /\ m \in 0..m /\ m - 1 # m
        OBVIOUS
      <4>2. g[m] = (IF x \in X THEN f[Len(u)] ELSE Append(f[Len(u)], x)) /\ g[m - 1] = f[Len(u)]
        BY <4>1
      <4>. QED
        BY <2>2, <3>3, <4>1, <4>2
    <3>. QED
      BY <3>1, <3>2, <3>3
  <2>4. IsFilters(Append(u, x), X, g)
    BY <2>2, <2>3 DEF IsFilters
  <2>. QED
    BY <2>2, <2>4
<1>3. Seq(Nat) \subseteq P
  <2> HIDE DEF P
  <2>. QED
    BY <1>1, <1>2, SeqInduction
<1>4. \E f : IsFilters(s, X, f)
  BY <1>3
<1>5. Filters(s, X) = CHOOSE f : IsFilters(s, X, f)
  BY DEF Filters, IsFilters
<1>. QED
  BY <1>4, <1>5

(* A member more at the end is kept or left out. *)
LEMMA FilterAppend ==
    ASSUME NEW X
    PROVE  /\ Filter(<<>>, X) = <<>>
           /\ \A s \in Seq(Nat), x \in Nat :
                 Filter(Append(s, x), X)
                   = IF x \in X THEN Filter(s, X) ELSE Append(Filter(s, X), x)
<1>1. Filter(<<>>, X) = <<>>
  <2>1. <<>> \in Seq(Nat)
    OBVIOUS
  <2>2. IsFilters(<<>>, X, Filters(<<>>, X))
    BY <2>1, FiltersUnfold
  <2>. QED
    BY <2>2 DEF Filter, IsFilters
<1>2. ASSUME NEW s \in Seq(Nat), NEW x \in Nat
      PROVE  Filter(Append(s, x), X)
               = IF x \in X THEN Filter(s, X) ELSE Append(Filter(s, X), x)
  <2> DEFINE t == Append(s, x)
             f == Filters(s, X)
             g == Filters(t, X)
  <2>1. t \in Seq(Nat) /\ Len(t) = Len(s) + 1 /\ t[Len(s) + 1] = x
    OBVIOUS
  <2>2. IsFilters(s, X, f) /\ IsFilters(t, X, g)
    BY <2>1, FiltersUnfold
  <2> DEFINE P == {n \in Nat : n <= Len(s) => f[n] = g[n]}
  <2>3. 0 \in P
    BY <2>1, <2>2 DEF IsFilters
  <2>4. ASSUME NEW n \in Nat, n \in P PROVE n + 1 \in P
    <3> SUFFICES ASSUME n + 1 <= Len(s) PROVE f[n + 1] = g[n + 1]
      OBVIOUS
    <3>1. f[n] = g[n] /\ s[n + 1] = t[n + 1]
      BY <2>4
    <3>2. n + 1 \in 0..Len(s) /\ n + 1 \in 0..Len(t) /\ n + 1 # 0 /\ (n + 1) - 1 = n
      BY <2>1
    <3>3. f[n + 1] = IF s[n + 1] \in X THEN f[n] ELSE Append(f[n], s[n + 1])
      BY <2>2, <3>2 DEF IsFilters
    <3>4. g[n + 1] = IF t[n + 1] \in X THEN g[n] ELSE Append(g[n], t[n + 1])
      BY <2>2, <3>2 DEF IsFilters
    <3>. QED
      BY <3>1, <3>3, <3>4
  <2>5. Nat \subseteq P
    <3> HIDE DEF P
    <3>. QED
      BY <2>3, <2>4, Induction
  <2>6. f[Len(s)] = g[Len(s)]
    BY <2>5
  <2>7. g[Len(s) + 1] = IF x \in X THEN g[Len(s)] ELSE Append(g[Len(s)], x)
    <3>1. Len(s) + 1 \in 0..Len(t) /\ Len(s) + 1 # 0 /\ (Len(s) + 1) - 1 = Len(s)
      BY <2>1
    <3>. QED
      BY <2>1, <2>2, <3>1 DEF IsFilters
  <2>. QED
    BY <2>1, <2>6, <2>7 DEF Filter
<1>. QED
  BY <1>1, <1>2

(* The later a member, the smaller. *)
Desc(s) == \A i, j \in 1..Len(s) : i < j => s[i] > s[j]

(* What a member more at the end changes. *)
LEMMA DescAppend ==
    ASSUME NEW s \in Seq(Nat), NEW x \in Nat
    PROVE  /\ ToSet(Append(s, x)) = ToSet(s) \cup {x}
           /\ Desc(Append(s, x)) <=> Desc(s) /\ \A y \in ToSet(s) : y > x
<1> DEFINE t == Append(s, x)
<1>1. /\ t \in Seq(Nat) /\ Len(t) = Len(s) + 1 /\ t[Len(s) + 1] = x /\ Len(s) \in Nat
      /\ \A i \in 1..Len(s) : t[i] = s[i] /\ s[i] \in Nat
      /\ DOMAIN s = 1..Len(s) /\ DOMAIN t = 1..(Len(s) + 1)
  OBVIOUS
<1> HIDE DEF t
<1>2. ToSet(t) = ToSet(s) \cup {x}
  <2>1. ASSUME NEW y \in ToSet(t) PROVE y \in ToSet(s) \cup {x}
    <3>1. PICK i \in 1..(Len(s) + 1) : y = t[i]
      BY <1>1 DEF ToSet
    <3>2. i = Len(s) + 1 \/ i \in 1..Len(s)
      BY <1>1
    <3>. QED
      BY <1>1, <3>1, <3>2 DEF ToSet
  <2>2. ASSUME NEW y \in ToSet(s) \cup {x} PROVE y \in ToSet(t)
    <3>1. CASE y = x
      <4>1. Len(s) + 1 \in DOMAIN t
        BY <1>1
      <4>. QED
        BY <1>1, <3>1, <4>1 DEF ToSet
    <3>2. CASE y \in ToSet(s)
      <4>1. PICK i \in 1..Len(s) : y = s[i]
        BY <1>1, <3>2 DEF ToSet
      <4>2. i \in DOMAIN t /\ t[i] = y
        BY <1>1, <4>1
      <4>. QED
        BY <4>2 DEF ToSet
    <3>. QED
      BY <3>1, <3>2
  <2>. QED
    BY <2>1, <2>2
<1>3. ASSUME Desc(t) PROVE Desc(s) /\ \A y \in ToSet(s) : y > x
  <2>1. Desc(s)
    BY <1>1, <1>3 DEF Desc
  <2>2. ASSUME NEW y \in ToSet(s) PROVE y > x
    <3>1. PICK i \in 1..Len(s) : y = s[i]
      BY <1>1 DEF ToSet
    <3>2. i \in 1..Len(t) /\ Len(s) + 1 \in 1..Len(t) /\ i < Len(s) + 1
      BY <1>1
    <3>. QED
      BY <1>1, <1>3, <3>1, <3>2 DEF Desc
  <2>. QED
    BY <2>1, <2>2
<1>4. ASSUME Desc(s), \A y \in ToSet(s) : y > x PROVE Desc(t)
  <2> SUFFICES ASSUME NEW i \in 1..Len(t), NEW j \in 1..Len(t), i < j
               PROVE  t[i] > t[j]
    BY DEF Desc
  <2>1. i \in 1..Len(s) /\ (j = Len(s) + 1 \/ j \in 1..Len(s))
    BY <1>1, SMTT(30)
  <2>2. s[i] \in ToSet(s)
    BY <1>1, <2>1 DEF ToSet
  <2>. QED
    BY <1>1, <1>4, <2>1, <2>2 DEF Desc
<1>. QED
  BY <1>2, <1>3, <1>4 DEF t

(* What is left keeps its order, and no member moves towards the end. *)
LEMMA FilterFacts ==
    ASSUME NEW X, NEW s \in Seq(Nat)
    PROVE  /\ Filter(s, X) \in Seq(Nat)
           /\ ToSet(Filter(s, X)) = ToSet(s) \ X
           /\ Desc(s) => Desc(Filter(s, X))
           /\ \A k \in 1..Len(Filter(s, X)) :
                 \E j \in 1..Len(s) : k <= j /\ Filter(s, X)[k] = s[j]
<1> DEFINE Moved(u) == \A k \in 1..Len(Filter(u, X)) :
                          \E j \in 1..Len(u) : k <= j /\ Filter(u, X)[k] = u[j]
           P == {u \in Seq(Nat) : /\ Filter(u, X) \in Seq(Nat)
                                  /\ ToSet(Filter(u, X)) = ToSet(u) \ X
                                  /\ Desc(u) => Desc(Filter(u, X))
                                  /\ Len(Filter(u, X)) <= Len(u)
                                  /\ Moved(u)}
<1>1. <<>> \in P
  <2>1. <<>> \in Seq(Nat) /\ ToSet(<<>>) = {} /\ Filter(<<>>, X) = <<>> /\ Len(<<>>) = 0
    BY FilterAppend DEF ToSet
  <2>2. Moved(<<>>)
    BY <2>1
  <2>3. Desc(<<>>)
    BY <2>1 DEF Desc
  <2>4. /\ Filter(<<>>, X) \in Seq(Nat) /\ ToSet(Filter(<<>>, X)) = ToSet(<<>>) \ X
        /\ Len(Filter(<<>>, X)) <= Len(<<>>) /\ Desc(Filter(<<>>, X))
    <3>1. ToSet(<<>>) \ X = ToSet(<<>>)
      BY <2>1
    <3>2. Len(<<>>) <= Len(<<>>)
      BY <2>1
    <3>. QED
      BY <2>1, <2>3, <3>1, <3>2, Zenon
  <2> HIDE DEF Moved
  <2>. QED
    BY <2>1, <2>2, <2>4
<1>2. ASSUME NEW u \in Seq(Nat), NEW x \in Nat, u \in P
      PROVE  Append(u, x) \in P
  <2> DEFINE t == Append(u, x)
             f == Filter(u, X)
             g == Filter(t, X)
  <2>1. /\ t \in Seq(Nat) /\ Len(t) = Len(u) + 1 /\ t[Len(u) + 1] = x /\ Len(u) \in Nat
        /\ \A i \in 1..Len(u) : t[i] = u[i]
    OBVIOUS
  <2>2. g = IF x \in X THEN f ELSE Append(f, x)
    BY FilterAppend
  <2>3. /\ f \in Seq(Nat) /\ ToSet(f) = ToSet(u) \ X /\ (Desc(u) => Desc(f))
        /\ Moved(u) /\ Len(f) <= Len(u) /\ Len(f) \in Nat
    <3> HIDE DEF Moved
    <3>1. /\ f \in Seq(Nat) /\ ToSet(f) = ToSet(u) \ X /\ (Desc(u) => Desc(f))
          /\ Moved(u) /\ Len(f) <= Len(u)
      BY <1>2
    <3> HIDE DEF f
    <3>. QED
      BY <3>1
  <2>4. /\ ToSet(t) = ToSet(u) \cup {x}
        /\ Desc(t) <=> Desc(u) /\ \A y \in ToSet(u) : y > x
    BY <2>1, DescAppend
  <2> HIDE DEF t, f, g
  <2>5. ASSUME NEW k \in 1..Len(f) PROVE \E j \in 1..Len(t) : k <= j /\ f[k] = t[j]
    <3>1. PICK j \in 1..Len(u) : k <= j /\ f[k] = u[j]
      BY <2>3 DEF f
    <3>. QED
      BY <2>1, <3>1
  <2>6. CASE x \in X
    <3>1. g = f
      BY <2>2, <2>6
    <3>2. Moved(t)
      BY <2>5, <3>1 DEF g
    <3> HIDE DEF Moved
    <3>. QED
      BY <2>1, <2>3, <2>4, <2>6, <3>1, <3>2 DEF t, g
  <2>7. CASE x \notin X
    <3>1. g = Append(f, x)
      BY <2>2, <2>7
    <3>2. /\ ToSet(g) = ToSet(f) \cup {x}
          /\ Desc(g) <=> Desc(f) /\ \A y \in ToSet(f) : y > x
      BY <2>1, <2>3, <3>1, DescAppend
    <3>3. /\ g \in Seq(Nat) /\ Len(g) = Len(f) + 1 /\ g[Len(f) + 1] = x
          /\ \A k \in 1..Len(f) : g[k] = f[k]
      BY <2>1, <2>3, <3>1
    <3>4. Moved(t)
      <4> SUFFICES ASSUME NEW k \in 1..Len(g)
                   PROVE  \E j \in 1..Len(t) : k <= j /\ g[k] = t[j]
        BY DEF g
      <4>1. CASE k = Len(f) + 1
        <5>1. Len(u) + 1 \in 1..Len(t) /\ k <= Len(u) + 1 /\ g[k] = t[Len(u) + 1]
          BY <2>1, <2>3, <3>3, <4>1
        <5>. QED
          BY <5>1
      <4>2. CASE k # Len(f) + 1
        <5>1. k \in 1..Len(f) /\ g[k] = f[k]
          BY <2>3, <3>3, <4>2
        <5>. QED
          BY <2>5, <5>1
      <4>. QED
        BY <4>1, <4>2
    <3> HIDE DEF Moved
    <3>5. Len(g) <= Len(t)
      BY <2>1, <2>3, <3>3
    <3>. QED
      BY <2>1, <2>3, <2>4, <2>7, <3>2, <3>3, <3>4, <3>5 DEF t, g
  <2>. QED
    BY <2>6, <2>7
<1>3. Seq(Nat) \subseteq P
  <2> HIDE DEF P
  <2>. QED
    BY <1>1, <1>2, SeqInduction
<1> HIDE DEF Moved
<1>4. s \in P
  BY <1>3
<1>5. /\ Filter(s, X) \in Seq(Nat) /\ ToSet(Filter(s, X)) = ToSet(s) \ X
      /\ Desc(s) => Desc(Filter(s, X))
      /\ Moved(s)
  BY <1>4
<1>. QED
  BY <1>5 DEF Moved

(* Two passes are one. *)
LEMMA FilterTwice ==
    ASSUME NEW X, NEW Y, NEW s \in Seq(Nat)
    PROVE  Filter(Filter(s, X), Y) = Filter(s, X \cup Y)
<1> DEFINE P == {u \in Seq(Nat) : Filter(Filter(u, X), Y) = Filter(u, X \cup Y)}
<1>1. <<>> \in P
  <2>1. <<>> \in Seq(Nat) /\ Filter(<<>>, X) = <<>> /\ Filter(<<>>, Y) = <<>>
           /\ Filter(<<>>, X \cup Y) = <<>>
    BY FilterAppend
  <2>. QED
    BY <2>1
<1>2. ASSUME NEW u \in Seq(Nat), NEW x \in Nat, u \in P
      PROVE  Append(u, x) \in P
  <2>1. Append(u, x) \in Seq(Nat) /\ Filter(u, X) \in Seq(Nat)
    BY FilterFacts
  <2>2. Filter(Append(u, x), X) = IF x \in X THEN Filter(u, X) ELSE Append(Filter(u, X), x)
    BY FilterAppend
  <2>3. Filter(Append(u, x), X \cup Y)
          = IF x \in X \cup Y THEN Filter(u, X \cup Y) ELSE Append(Filter(u, X \cup Y), x)
    <3> DEFINE Z == X \cup Y
    <3> HIDE DEF Z
    <3>1. Filter(Append(u, x), Z) = IF x \in Z THEN Filter(u, Z) ELSE Append(Filter(u, Z), x)
      BY FilterAppend
    <3>. QED
      BY <3>1 DEF Z
  <2>4. Filter(Append(Filter(u, X), x), Y)
          = IF x \in Y THEN Filter(Filter(u, X), Y) ELSE Append(Filter(Filter(u, X), Y), x)
    BY <2>1, FilterAppend
  <2>5. Filter(Filter(u, X), Y) = Filter(u, X \cup Y)
    BY <1>2
  <2>6. Filter(Filter(Append(u, x), X), Y) = Filter(Append(u, x), X \cup Y)
    BY <2>2, <2>3, <2>4, <2>5
  <2>. QED
    BY <2>1, <2>6
<1> HIDE DEF P
<1>3. Seq(Nat) \subseteq P
  BY <1>1, <1>2, SeqInduction
<1>. QED
  BY <1>3 DEF P

(* A descending sequence is known by its members. *)
LEMMA DescEqual ==
    ASSUME NEW s \in Seq(Nat), NEW t \in Seq(Nat), Desc(s), Desc(t), ToSet(s) = ToSet(t)
    PROVE  s = t
<1> DEFINE P == {u \in Seq(Nat) : \A v \in Seq(Nat) :
                    Desc(u) /\ Desc(v) /\ ToSet(u) = ToSet(v) => u = v}
<1>1. <<>> \in P
  <2> SUFFICES ASSUME NEW v \in Seq(Nat), ToSet(<<>>) = ToSet(v)
               PROVE  v = <<>>
    OBVIOUS
  <2>1. ToSet(<<>>) = {}
    BY DEF ToSet
  <2>2. Len(v) = 0
    <3> SUFFICES ASSUME Len(v) # 0 PROVE FALSE
      OBVIOUS
    <3>1. 1 \in DOMAIN v
      OBVIOUS
    <3>2. v[1] \in ToSet(v)
      BY <3>1 DEF ToSet
    <3>. QED
      BY <2>1, <3>2
  <2>. QED
    BY <2>2
<1>2. ASSUME NEW u \in Seq(Nat), NEW x \in Nat, u \in P
      PROVE  Append(u, x) \in P
  <2>0. Append(u, x) \in Seq(Nat)
    OBVIOUS
  <2> SUFFICES ASSUME NEW v \in Seq(Nat), Desc(Append(u, x)), Desc(v),
                      ToSet(Append(u, x)) = ToSet(v)
               PROVE  Append(u, x) = v
    BY <2>0
  <2> DEFINE n == Len(v) - 1
             w == [i \in 1..n |-> v[i]]
             y == v[Len(v)]
  <2>1. /\ ToSet(Append(u, x)) = ToSet(u) \cup {x}
        /\ Desc(u) /\ \A z \in ToSet(u) : z > x
    BY DescAppend
  <2>2. Len(v) # 0
    <3> SUFFICES ASSUME Len(v) = 0 PROVE FALSE
      OBVIOUS
    <3>1. ToSet(v) = {}
      BY DEF ToSet
    <3>. QED
      BY <2>1, <3>1
  <2>3. w \in Seq(Nat) /\ y \in Nat /\ v = Append(w, y)
    BY <2>2
  <2> HIDE DEF w, y
  <2>4. /\ ToSet(v) = ToSet(w) \cup {y}
        /\ Desc(w) /\ \A z \in ToSet(w) : z > y
    BY <2>3, DescAppend
  <2>5. x = y
    <3>1. x \in ToSet(w) \cup {y} /\ y \in ToSet(u) \cup {x}
      BY <2>1, <2>4
    <3>2. CASE x \in ToSet(w) /\ y \in ToSet(u)
      <4>1. x > y /\ y > x
        BY <2>1, <2>4, <3>2
      <4>. QED
        BY <2>3, <4>1
    <3>. QED
      BY <3>1, <3>2
  <2>6. ~(x > x)
    OBVIOUS
  <2>7. ToSet(u) = ToSet(w)
    BY <2>1, <2>4, <2>5, <2>6
  <2>8. u = w
    BY <1>2, <2>1, <2>3, <2>4, <2>7
  <2>. QED
    BY <2>3, <2>5, <2>8
<1> HIDE DEF P
<1>3. Seq(Nat) \subseteq P
  BY <1>1, <1>2, SeqInduction
<1>. QED
  BY <1>3 DEF P

(* Two descending sequences, one below the other. *)
LEMMA DescConcat ==
    ASSUME NEW s \in Seq(Nat), NEW t \in Seq(Nat)
    PROVE  /\ s \o t \in Seq(Nat) /\ ToSet(s \o t) = ToSet(s) \cup ToSet(t)
           /\ Desc(s) /\ Desc(t) /\ (\A c \in ToSet(s), d \in ToSet(t) : c > d) => Desc(s \o t)
<1> DEFINE r == s \o t
           m == Len(s)
<1>1. /\ r \in Seq(Nat) /\ Len(r) = m + Len(t) /\ m \in Nat /\ Len(t) \in Nat
      /\ \A i \in 1..m : r[i] = s[i]
      /\ \A i \in 1..Len(t) : r[m + i] = t[i]
      /\ DOMAIN r = 1..(m + Len(t)) /\ DOMAIN s = 1..m /\ DOMAIN t = 1..Len(t)
  OBVIOUS
<1> HIDE DEF r, m
<1>2. ASSUME NEW k \in 1..(m + Len(t))
      PROVE  \/ k \in 1..m /\ r[k] = s[k] /\ r[k] \in ToSet(s)
             \/ k > m /\ k - m \in 1..Len(t) /\ r[k] = t[k - m] /\ r[k] \in ToSet(t)
  <2>1. CASE k <= m
    <3>1. k \in 1..m
      BY <1>1, <2>1
    <3>. QED
      BY <1>1, <3>1 DEF ToSet
  <2>2. CASE k > m
    <3>1. k - m \in 1..Len(t) /\ m + (k - m) = k
      BY <1>1, <2>2
    <3>. QED
      BY <1>1, <2>2, <3>1 DEF ToSet
  <2>. QED
    BY <1>1, <2>1, <2>2
<1>3. ToSet(r) = ToSet(s) \cup ToSet(t)
  <2>1. ASSUME NEW y \in ToSet(r) PROVE y \in ToSet(s) \cup ToSet(t)
    <3>1. PICK k \in 1..(m + Len(t)) : y = r[k]
      BY <1>1 DEF ToSet
    <3>. QED
      BY <1>2, <3>1
  <2>2. ASSUME NEW y \in ToSet(s) PROVE y \in ToSet(r)
    <3>1. PICK k \in 1..m : y = s[k]
      BY <1>1 DEF ToSet
    <3>2. k \in DOMAIN r /\ r[k] = y
      BY <1>1, <3>1
    <3>. QED
      BY <3>2 DEF ToSet
  <2>3. ASSUME NEW y \in ToSet(t) PROVE y \in ToSet(r)
    <3>1. PICK k \in 1..Len(t) : y = t[k]
      BY <1>1 DEF ToSet
    <3>2. m + k \in DOMAIN r /\ r[m + k] = y
      BY <1>1, <3>1
    <3>. QED
      BY <3>2 DEF ToSet
  <2>. QED
    BY <2>1, <2>2, <2>3
<1>4. ASSUME Desc(s), Desc(t), \A c \in ToSet(s), d \in ToSet(t) : c > d
      PROVE  Desc(r)
  <2> SUFFICES ASSUME NEW i \in 1..Len(r), NEW j \in 1..Len(r), i < j
               PROVE  r[i] > r[j]
    BY DEF Desc
  <2>0. i \in 1..(m + Len(t)) /\ j \in 1..(m + Len(t))
    BY <1>1
  <2>1. CASE i <= m /\ j <= m
    <3>1. i \in 1..Len(s) /\ j \in 1..Len(s) /\ r[i] = s[i] /\ r[j] = s[j]
      BY <1>1, <2>0, <2>1 DEF m
    <3>. QED
      BY <1>4, <3>1 DEF Desc
  <2>2. CASE i <= m /\ j > m
    <3>1. r[i] \in ToSet(s) /\ r[j] \in ToSet(t)
      BY <1>1, <1>2, <2>0, <2>2
    <3>. QED
      BY <1>4, <3>1
  <2>3. CASE i > m /\ j > m
    <3>1. /\ i - m \in 1..Len(t) /\ j - m \in 1..Len(t) /\ r[i] = t[i - m] /\ r[j] = t[j - m]
          /\ i - m < j - m
      BY <1>1, <1>2, <2>0, <2>3
    <3>. QED
      BY <1>4, <3>1 DEF Desc
  <2>. QED
    BY <1>1, <2>0, <2>1, <2>2, <2>3
<1>. QED
  BY <1>1, <1>3, <1>4 DEF r

(* f is the recursive function behind the concatenation of the members of ss. *)
IsFlat(ss, f) ==
    f = [i \in 1..Len(ss) |-> IF i = 1 THEN ss[i] ELSE f[i - 1] \o ss[i]]
Flats(ss) == CHOOSE f : IsFlat(ss, f)

(* That function exists. *)
LEMMA FlatsUnfold ==
    ASSUME NEW ss \in Seq(Seq(Nat))
    PROVE  IsFlat(ss, Flats(ss))
<1> DEFINE P == {u \in Seq(Seq(Nat)) : \E f : IsFlat(u, f)}
<1>1. <<>> \in P
  <2>1. IsFlat(<<>>, [n \in 1..0 |-> <<>>])
    BY DEF IsFlat
  <2>. QED
    BY <2>1
<1>2. ASSUME NEW u \in Seq(Seq(Nat)), NEW x \in Seq(Nat), u \in P
      PROVE  Append(u, x) \in P
  <2>1. PICK f : IsFlat(u, f)
    BY <1>2
  <2> DEFINE m == Len(u) + 1
             g == [n \in 1..m |-> IF n = m THEN IF m = 1 THEN x ELSE f[Len(u)] \o x ELSE f[n]]
  <2>2. Append(u, x) \in Seq(Seq(Nat)) /\ Len(Append(u, x)) = m /\ m \in Nat \ {0}
    OBVIOUS
  <2>3. ASSUME NEW n \in 1..m
        PROVE  g[n] = IF n = 1 THEN Append(u, x)[n] ELSE g[n - 1] \o Append(u, x)[n]
    <3>1. CASE n # m
      <4>1. n \in 1..Len(u) /\ Append(u, x)[n] = u[n] /\ g[n] = f[n]
        BY <3>1
      <4>2. f[n] = IF n = 1 THEN u[n] ELSE f[n - 1] \o u[n]
        BY <2>1, <4>1 DEF IsFlat
      <4>3. n # 1 => g[n - 1] = f[n - 1]
        BY <3>1, <4>1
      <4>. QED
        BY <4>1, <4>2, <4>3
    <3>2. CASE n = m
      <4>1. Append(u, x)[m] = x /\ m \in 1..m
        OBVIOUS
      <4>2. g[m] = IF m = 1 THEN x ELSE f[Len(u)] \o x
        BY <4>1
      <4>3. m # 1 => m - 1 \in 1..m /\ m - 1 # m /\ m - 1 = Len(u) /\ g[m - 1] = f[Len(u)]
        OBVIOUS
      <4>. QED
        BY <3>2, <4>1, <4>2, <4>3
    <3>. QED
      BY <3>1, <3>2
  <2>4. IsFlat(Append(u, x), g)
    BY <2>2, <2>3, ZenonT(30) DEF IsFlat
  <2>. QED
    BY <2>2, <2>4
<1>3. Seq(Seq(Nat)) \subseteq P
  <2> HIDE DEF P
  <2>. QED
    BY <1>1, <1>2, SeqInduction
<1>4. \E f : IsFlat(ss, f)
  BY <1>3
<1>. QED
  BY <1>4 DEF Flats

(* FlattenSeq is its value at the last index. *)
LEMMA FlattenAsFlats ==
    ASSUME NEW ss \in Seq(Seq(Nat)), Len(ss) # 0
    PROVE  FlattenSeq(ss) = Flats(ss)[Len(ss)]
<1>. QED
  BY DEF FlattenSeq, Flats, IsFlat

(* One sequence more at the end. *)
LEMMA FlattenAppend ==
    /\ FlattenSeq(<<>>) = <<>>
    /\ \A ss \in Seq(Seq(Nat)), s \in Seq(Nat) :
          FlattenSeq(Append(ss, s)) = FlattenSeq(ss) \o s
<1>1. FlattenSeq(<<>>) = <<>>
  BY DEF FlattenSeq
<1>2. ASSUME NEW ss \in Seq(Seq(Nat)), NEW s \in Seq(Nat)
      PROVE  FlattenSeq(Append(ss, s)) = FlattenSeq(ss) \o s
  <2> DEFINE t == Append(ss, s)
             f == Flats(ss)
             g == Flats(t)
  <2>1. t \in Seq(Seq(Nat)) /\ Len(t) = Len(ss) + 1 /\ t[Len(ss) + 1] = s
    OBVIOUS
  <2>2. IsFlat(ss, f) /\ IsFlat(t, g)
    BY <2>1, FlatsUnfold
  <2>3. FlattenSeq(t) = g[Len(ss) + 1]
    <3>1. Len(t) # 0
      BY <2>1
    <3>. QED
      BY <2>1, <3>1, FlattenAsFlats
  <2>4. CASE ss = <<>>
    <3>1. Len(ss) = 0 /\ 1 \in 1..Len(t)
      BY <2>1, <2>4
    <3>2. g[1] = t[1]
      BY <2>2, <3>1 DEF IsFlat
    <3>3. <<>> \o s = s
      OBVIOUS
    <3>. QED
      BY <1>1, <2>1, <2>3, <2>4, <3>1, <3>2, <3>3
  <2>5. CASE ss # <<>>
    <3>0. Len(ss) \in Nat \ {0}
      BY <2>5
    <3> DEFINE P == {n \in Nat : n + 1 <= Len(ss) => f[n + 1] = g[n + 1]}
    <3>1. 0 \in P
      <4>1. 1 \in 1..Len(ss) /\ 1 \in 1..Len(t) /\ ss[1] = t[1]
        BY <2>1, <3>0
      <4>. QED
        BY <2>2, <4>1 DEF IsFlat
    <3>2. ASSUME NEW n \in Nat, n \in P PROVE n + 1 \in P
      <4> SUFFICES ASSUME (n + 1) + 1 <= Len(ss) PROVE f[(n + 1) + 1] = g[(n + 1) + 1]
        OBVIOUS
      <4> DEFINE k == n + 1
      <4>1. f[k] = g[k] /\ k \in Nat \ {0}
        BY <3>2
      <4>2. /\ k + 1 \in 1..Len(ss) /\ k + 1 \in 1..Len(t) /\ k + 1 # 1 /\ (k + 1) - 1 = k
            /\ ss[k + 1] = t[k + 1]
        BY <2>1, <4>1
      <4> HIDE DEF k
      <4>3. f[k + 1] = f[k] \o ss[k + 1]
        BY <2>2, <4>2 DEF IsFlat
      <4>4. g[k + 1] = g[k] \o t[k + 1]
        BY <2>2, <4>2 DEF IsFlat
      <4>. QED
        BY <4>1, <4>2, <4>3, <4>4 DEF k
    <3>3. Nat \subseteq P
      <4> HIDE DEF P
      <4>. QED
        BY <3>1, <3>2, Induction
    <3>4. f[Len(ss)] = g[Len(ss)]
      <4>1. Len(ss) - 1 \in P /\ (Len(ss) - 1) + 1 = Len(ss)
        <5>1. Len(ss) - 1 \in Nat /\ (Len(ss) - 1) + 1 = Len(ss)
          BY <3>0
        <5> HIDE DEF P
        <5>. QED
          BY <3>3, <5>1
      <4>. QED
        BY <4>1
    <3>5. g[Len(ss) + 1] = g[Len(ss)] \o s
      <4>1. Len(ss) + 1 \in 1..Len(t) /\ Len(ss) + 1 # 1 /\ (Len(ss) + 1) - 1 = Len(ss)
        BY <2>1, <3>0
      <4>. QED
        BY <2>1, <2>2, <4>1 DEF IsFlat
    <3>6. FlattenSeq(ss) = f[Len(ss)]
      BY <3>0, FlattenAsFlats
    <3>. QED
      BY <2>3, <3>4, <3>5, <3>6
  <2>. QED
    BY <2>4, <2>5
<1>. QED
  BY <1>1, <1>2

(* Sequences that descend from one to the next make one that descends. *)
Falling(ss) ==
    /\ \A i \in 1..Len(ss) : Desc(ss[i])
    /\ \A i, j \in 1..Len(ss) : i < j => \A c \in ToSet(ss[i]), d \in ToSet(ss[j]) : c > d

(* What FlattenSeq holds, and in which order. *)
LEMMA FlattenFacts ==
    ASSUME NEW ss \in Seq(Seq(Nat))
    PROVE  /\ FlattenSeq(ss) \in Seq(Nat)
           /\ \A c : c \in ToSet(FlattenSeq(ss)) <=> \E i \in 1..Len(ss) : c \in ToSet(ss[i])
           /\ Falling(ss) => Desc(FlattenSeq(ss))
<1> DEFINE Members(u) == \A c : c \in ToSet(FlattenSeq(u))
                                <=> \E i \in 1..Len(u) : c \in ToSet(u[i])
           P == {u \in Seq(Seq(Nat)) : /\ FlattenSeq(u) \in Seq(Nat)
                                       /\ Members(u)
                                       /\ Falling(u) => Desc(FlattenSeq(u))}
<1>1. <<>> \in P
  <2>1. FlattenSeq(<<>>) = <<>> /\ ToSet(<<>>) = {} /\ Len(<<>>) = 0
    BY FlattenAppend DEF ToSet
  <2>2. Members(<<>>)
    BY <2>1
  <2>3. Desc(<<>>) /\ <<>> \in Seq(Nat) /\ <<>> \in Seq(Seq(Nat))
    BY <2>1 DEF Desc
  <2> HIDE DEF Members
  <2>. QED
    BY <2>1, <2>2, <2>3
<1>2. ASSUME NEW u \in Seq(Seq(Nat)), NEW x \in Seq(Nat), u \in P
      PROVE  Append(u, x) \in P
  <2> DEFINE t == Append(u, x)
             f == FlattenSeq(u)
  <2>1. /\ t \in Seq(Seq(Nat)) /\ Len(t) = Len(u) + 1 /\ t[Len(u) + 1] = x /\ Len(u) \in Nat
        /\ \A i \in 1..Len(u) : t[i] = u[i]
    OBVIOUS
  <2>2. FlattenSeq(t) = f \o x
    BY FlattenAppend
  <2>3. f \in Seq(Nat) /\ Members(u) /\ (Falling(u) => Desc(f))
    <3> HIDE DEF Members
    <3>. QED
      BY <1>2
  <2> HIDE DEF t
  <2>4. /\ f \o x \in Seq(Nat) /\ ToSet(f \o x) = ToSet(f) \cup ToSet(x)
        /\ Desc(f) /\ Desc(x) /\ (\A c \in ToSet(f), d \in ToSet(x) : c > d) => Desc(f \o x)
    BY <2>3, DescConcat
  <2>5. Members(t)
    <3> SUFFICES ASSUME NEW c
                 PROVE  c \in ToSet(FlattenSeq(t)) <=> \E i \in 1..Len(t) : c \in ToSet(t[i])
      OBVIOUS
    <3>1. c \in ToSet(FlattenSeq(t)) <=> (\E i \in 1..Len(u) : c \in ToSet(u[i])) \/ c \in ToSet(x)
      BY <2>2, <2>3, <2>4
    <3>2. (\E i \in 1..Len(t) : c \in ToSet(t[i]))
            <=> (\E i \in 1..Len(u) : c \in ToSet(u[i])) \/ c \in ToSet(x)
      <4>1. 1..Len(t) = (1..Len(u)) \cup {Len(u) + 1}
        BY <2>1
      <4>. QED
        BY <2>1, <4>1
    <3>. QED
      BY <3>1, <3>2
  <2>6. ASSUME Falling(t) PROVE Desc(f \o x)
    <3>1. Falling(u)
      <4>1. \A i \in 1..Len(u) : i \in 1..Len(t)
        BY <2>1
      <4>. QED
        BY <2>1, <2>6, <4>1 DEF Falling
    <3>2. Len(u) + 1 \in 1..Len(t) /\ \A i \in 1..Len(u) : i \in 1..Len(t) /\ i < Len(u) + 1
      BY <2>1
    <3>3. Desc(x)
      BY <2>1, <2>6, <3>2 DEF Falling
    <3>4. ASSUME NEW c \in ToSet(f), NEW d \in ToSet(x) PROVE c > d
      <4>1. PICK i \in 1..Len(u) : c \in ToSet(u[i])
        BY <2>3
      <4>. QED
        BY <2>1, <2>6, <3>2, <4>1 DEF Falling
    <3>. QED
      BY <2>3, <2>4, <3>1, <3>3, <3>4
  <2> HIDE DEF Members
  <2>. QED
    BY <2>1, <2>2, <2>4, <2>5, <2>6 DEF t
<1>3. Seq(Seq(Nat)) \subseteq P
  <2> HIDE DEF P
  <2>. QED
    BY <1>1, <1>2, SeqInduction
<1> HIDE DEF Members
<1>4. FlattenSeq(ss) \in Seq(Nat) /\ Members(ss) /\ (Falling(ss) => Desc(FlattenSeq(ss)))
  BY <1>3
<1>. QED
  BY <1>4 DEF Members

-----------------------------------------------------------------------------
(* The listing of the server and its pages. *)

Numbers(n) == [i \in 1..n |-> n + 1 - i]

(* Newest first, without what is deleted. *)
LEMMA ListingFacts ==
    ASSUME NEW n \in Nat, NEW X
    PROVE  /\ Filter(Numbers(n), X) \in Seq(Nat)
           /\ Desc(Filter(Numbers(n), X))
           /\ ToSet(Filter(Numbers(n), X)) = (1..n) \ X
<1> DEFINE s == Numbers(n)
<1>1. s \in Seq(Nat) /\ Len(s) = n /\ \A i \in 1..n : s[i] = n + 1 - i
  BY DEF Numbers
<1>2. Desc(s) /\ ToSet(s) = 1..n
  <2>1. ToSet(s) = {n + 1 - i : i \in 1..n}
    BY <1>1 DEF ToSet
  <2>2. ASSUME NEW k \in 1..n PROVE k \in ToSet(s)
    <3>1. n + 1 - k \in 1..n /\ n + 1 - (n + 1 - k) = k
      OBVIOUS
    <3>. QED
      BY <2>1, <3>1
  <2>3. ASSUME NEW i \in 1..n PROVE n + 1 - i \in 1..n
    OBVIOUS
  <2>. QED
    BY <1>1, <2>1, <2>2, <2>3 DEF Desc
<1> HIDE DEF s
<1>3. /\ Filter(s, X) \in Seq(Nat) /\ ToSet(Filter(s, X)) = ToSet(s) \ X
      /\ Desc(s) => Desc(Filter(s, X))
  BY <1>1, FilterFacts
<1>. QED
  BY <1>2, <1>3 DEF s

(* What M has of L is no further down. *)
MovedUp(L, M) == \A k \in 1..Len(M) : \E j \in 1..Len(L) : k <= j /\ M[k] = L[j]

(* A deletion takes its comment out of the listing; what stays does not move down. *)
LEMMA ListingDelete ==
    ASSUME NEW n \in Nat, NEW X, NEW d, NEW Y, Y = X \cup {d}
    PROVE  MovedUp(Filter(Numbers(n), X), Filter(Numbers(n), Y))
<1> DEFINE s == Numbers(n)
           D == {d}
<1>1. s \in Seq(Nat)
  BY DEF Numbers
<1> HIDE DEF s, D
<1>2. Filter(s, X) \in Seq(Nat) /\ Filter(Filter(s, X), D) = Filter(s, X \cup D)
  BY <1>1, FilterFacts, FilterTwice
<1> DEFINE L == Filter(s, X)
           M == Filter(L, D)
<1>3. \A k \in 1..Len(M) : \E j \in 1..Len(L) : k <= j /\ M[k] = L[j]
  <2> HIDE DEF L
  <2>1. L \in Seq(Nat)
    BY <1>2 DEF L
  <2>. QED
    BY <2>1, FilterFacts
<1>. QED
  BY <1>2, <1>3 DEF s, D, MovedUp

(* Page p of the listing L. *)
UpTo(L, p) == IF p * PageSize < Len(L) THEN p * PageSize ELSE Len(L)
IdsOf(L, p) == SubSeq(L, (p - 1) * PageSize + 1, UpTo(L, p))
CurOf(L, p) == IF IdsOf(L, p) = <<>> THEN 1 ELSE p
LastOf(L, p) == IF IdsOf(L, p) = <<>> THEN 1 ELSE (Len(L) + PageSize - 1) \div PageSize

(* A page as it is read. *)
LEMMA PageIs ==
    ASSUME NEW p
    PROVE  Page(p) = [ids |-> IdsOf(Listing, p), liked |-> ToSet(IdsOf(Listing, p)) \cap liked,
                      cur |-> CurOf(Listing, p), last |-> LastOf(Listing, p)]
  BY Zenon DEF Page, IdsOf, UpTo, CurOf, LastOf

(* Bounds of pages. *)
LEMMA Products ==
    ASSUME NEW p \in Nat, NEW q \in Nat
    PROVE  /\ p * PageSize \in Nat
           /\ (p + 1) * PageSize = p * PageSize + PageSize
           /\ p <= q => p * PageSize <= q * PageSize
<1>1. PageSize \in Nat
  BY CommentsAssumption
<1>2. p * PageSize \in Nat /\ (p + 1) * PageSize = p * PageSize + PageSize
  BY <1>1
<1>3. ASSUME p <= q PROVE p * PageSize <= q * PageSize
  <2>1. q - p \in Nat
    BY <1>3
  <2>2. (q - p) * PageSize \in Nat
    BY <1>1, <2>1
  <2>3. (q - p) * PageSize = q * PageSize - p * PageSize
    BY <1>1
  <2>. QED
    BY <1>1, <2>2, <2>3
<1>. QED
  BY <1>2, <1>3

(* The comments of a page are those at its positions. *)
LEMMA PageFacts ==
    ASSUME NEW L \in Seq(Nat), NEW p \in Nat \ {0}, Desc(L)
    PROVE  /\ IdsOf(L, p) \in Seq(Nat) /\ Desc(IdsOf(L, p))
           /\ CurOf(L, p) \in Nat \ {0} /\ LastOf(L, p) \in Nat
           /\ \A c : c \in ToSet(IdsOf(L, p)) <=>
                        \E k \in 1..Len(L) : (p - 1) * PageSize < k /\ k <= p * PageSize /\ c = L[k]
           /\ CurOf(L, p) < LastOf(L, p) => CurOf(L, p) = p
<1> DEFINE a == (p - 1) * PageSize
           b == UpTo(L, p)
           s == SubSeq(L, a + 1, b)
<1>0. /\ a \in Nat /\ b \in Nat /\ b <= Len(L) /\ p * PageSize = a + PageSize
      /\ PageSize \in Nat \ {0}
  <2>1. p - 1 \in Nat /\ (p - 1) + 1 = p
    OBVIOUS
  <2>2. a \in Nat /\ p * PageSize = a + PageSize
    BY <2>1, Products
  <2>3. PageSize \in Nat \ {0} /\ Len(L) \in Nat
    BY CommentsAssumption
  <2> HIDE DEF a
  <2>. QED
    BY <2>2, <2>3 DEF UpTo
<1>1. b = IF a + PageSize < Len(L) THEN a + PageSize ELSE Len(L)
  BY <1>0 DEF UpTo
<1> HIDE DEF a, b
<1>2. /\ s \in Seq(Nat) /\ Len(s) = (IF a + 1 <= b THEN b - a ELSE 0)
      /\ \A i \in 1..Len(s) : s[i] = L[a + i] /\ a + i \in 1..Len(L)
  BY <1>0
<1>3. IdsOf(L, p) = s
  BY DEF IdsOf, a, b
<1> HIDE DEF s
<1>4. Desc(s)
  BY <1>0, <1>2 DEF Desc
<1>5. ASSUME NEW c
      PROVE  c \in ToSet(s) <=> \E k \in 1..Len(L) : a < k /\ k <= a + PageSize /\ c = L[k]
  <2>1. ASSUME c \in ToSet(s)
        PROVE  \E k \in 1..Len(L) : a < k /\ k <= a + PageSize /\ c = L[k]
    <3>1. PICK i \in 1..Len(s) : c = s[i]
      BY <1>2, <2>1 DEF ToSet
    <3>2. a + i \in 1..Len(L) /\ c = L[a + i]
      BY <1>2, <3>1
    <3>3. a < a + i /\ a + i <= a + PageSize
      <4>1. Len(s) \in Nat /\ Len(s) <= PageSize
        BY <1>0, <1>1, <1>2
      <4>. QED
        BY <1>0, <3>1, <4>1
    <3>. QED
      BY <3>2, <3>3
  <2>2. ASSUME NEW k \in 1..Len(L), a < k, k <= a + PageSize, c = L[k]
        PROVE  c \in ToSet(s)
    <3>1. k - a \in 1..Len(s) /\ a + (k - a) = k
      <4>1. a \in Nat /\ k \in Nat /\ k <= Len(L) /\ Len(L) \in Nat
        BY <1>0, <2>2
      <4>2. k <= b
        BY <1>1, <2>2, <4>1
      <4>3. Len(s) = b - a
        BY <1>0, <1>2, <2>2, <4>1, <4>2
      <4>. QED
        BY <1>0, <2>2, <4>1, <4>2, <4>3
    <3>2. s[k - a] = c /\ k - a \in DOMAIN s
      BY <1>2, <2>2, <3>1
    <3>. QED
      BY <3>2 DEF ToSet
  <2>. QED
    BY <2>1, <2>2
<1>6. CurOf(L, p) \in Nat \ {0} /\ LastOf(L, p) \in Nat
  <2>1. (Len(L) + PageSize - 1) \div PageSize \in Nat
    BY <1>0
  <2>. QED
    BY <2>1 DEF CurOf, LastOf
<1>7. CurOf(L, p) < LastOf(L, p) => CurOf(L, p) = p
  BY DEF CurOf, LastOf
<1>. QED
  BY <1>0, <1>2, <1>3, <1>4, <1>5, <1>6, <1>7 DEF a

-----------------------------------------------------------------------------
(* Types. *)

CPage == [ids : Seq(Nat), gen : Gens, cur : Nat, last : Nat]
FPage == [ids : Seq(Nat), liked : SUBSET Nat, cur : Nat, last : Nat]
FetchRec == [kind : {"none", "all", "next"}, got : Seq(FPage), want : Nat,
             base : Seq(CPage), clean : BOOLEAN]
LikeRec == [st : ReqSt, on : BOOLEAN, gen : Gens, mounted : BOOLEAN]
OlderRec == [id : Hearts, st : ReqSt, on : BOOLEAN, gen : Gens]
DelRec == [st : ReqSt, id : Nat, snap : Seq(CPage)]

ServerTypes == created \in 0..MaxId /\ liked \subseteq Hearts /\ mine \subseteq Nat
FetchTypes ==
    /\ fetch \in FetchRec
    /\ fetch.kind = "none" => fetch = NoFetch
    /\ fetch.kind = "next" => fetch.base # <<>>
LikeTypes ==
    /\ like \in [Ids -> {Idle} \cup LikeRec]
    /\ \A c \in Ids : like[c] # Idle => c \in Hearts
OlderTypes == older \in [Slots -> {Idle} \cup OlderRec]
DelTypes == dels \in [Slots -> {Idle} \cup DelRec]
Types ==
    /\ ServerTypes /\ data \in Seq(CPage) /\ FetchTypes /\ LikeTypes /\ OlderTypes /\ DelTypes
    /\ DOMAIN post = Slots
    /\ calm \in BOOLEAN /\ cut \in BOOLEAN

(* The listing of the server at any time. *)
LEMMA ListingNow ==
    ASSUME created \in Nat
    PROVE  Listing \in Seq(Nat) /\ Desc(Listing) /\ ToSet(Listing) = (1..created) \ gone
<1>1. Listing = Filter(Numbers(created), gone)
  BY DEF Listing, Numbers
<1>. QED
  BY <1>1, ListingFacts

(* What a load reads is a page. *)
LEMMA PageType ==
    ASSUME created \in Nat, NEW p \in Nat \ {0}
    PROVE  Page(p) \in FPage
<1>1. Listing \in Seq(Nat) /\ Desc(Listing)
  BY ListingNow
<1>2. IdsOf(Listing, p) \in Seq(Nat) /\ CurOf(Listing, p) \in Nat /\ LastOf(Listing, p) \in Nat
  BY <1>1, PageFacts
<1>3. ToSet(IdsOf(Listing, p)) \in SUBSET Nat
  BY <1>2 DEF ToSet
<1>. QED
  BY <1>2, <1>3, PageIs DEF FPage

(* A nonempty sequence has a last member. *)
LEMMA LastIn ==
    ASSUME NEW S, NEW s \in Seq(S), s # <<>>
    PROVE  Last(s) \in S /\ Len(s) \in DOMAIN s /\ Len(s) \in Nat \ {0}
<1>1. Len(s) # 0 /\ Len(s) \in Nat
  OBVIOUS
<1>. QED
  BY <1>1 DEF Last

(* The loads that are begun. *)
LEMMA LoadingType ==
    ASSUME Types, NEW kind \in {"all", "next"}, NEW want \in Nat
    PROVE  /\ Loading(kind, want) \in FetchRec /\ Loading(kind, want).kind = kind
           /\ Loading(kind, want).got = <<>> /\ Loading(kind, want).want = want
           /\ Loading(kind, want).base = (IF kind = "next" THEN data ELSE <<>>)
           /\ Loading(kind, want).clean = NothingPending
<1>1. NothingPending \in BOOLEAN
  BY DEF NothingPending
<1>2. data \in Seq(CPage) /\ <<>> \in Seq(CPage) /\ <<>> \in Seq(FPage)
  BY DEF Types
<1> HIDE DEF NothingPending
<1>. QED
  BY <1>1, <1>2 DEF Loading, FetchRec

(* No load under way, as a record. *)
LEMMA NoFetchType == NoFetch \in FetchRec /\ NoFetch.kind = "none" /\ NoFetch.base = <<>>
<1>1. <<>> \in Seq(CPage) /\ <<>> \in Seq(FPage)
  OBVIOUS
<1>. QED
  BY <1>1 DEF NoFetch, FetchRec

(* A disturbed load is not a clean one. *)
LEMMA DisturbedType ==
    ASSUME FetchTypes
    PROVE  /\ Disturbed \in FetchRec /\ Disturbed.kind = fetch.kind /\ Disturbed.base = fetch.base
           /\ Disturbed.kind # "none" => ~Disturbed.clean
           /\ Disturbed.kind = "none" => Disturbed = NoFetch
  BY NoFetchType DEF Disturbed, FetchRec, FetchTypes

(* The pages a full load asks for. *)
LEMMA WantedType ==
    ASSUME data \in Seq(CPage)
    PROVE  Wanted \in Nat
  BY DEF Wanted

(* The load that follows a post. *)
LEMMA InvalidatedType ==
    ASSUME Types, NEW s \in Slots
    PROVE  /\ Invalidated(s) \in FetchRec
           /\ ~FirstLoad =>
                /\ Invalidated(s).kind = "all" /\ Invalidated(s).got = <<>>
                /\ Invalidated(s).clean <=>
                     /\ \A c \in Ids : like[c] = Idle
                     /\ \A t \in Slots : /\ older[t] = Idle /\ dels[t] = Idle
                                         /\ t # s => post[t] = Idle
<1> DEFINE calmly == /\ \A c \in Ids : like[c] = Idle
                     /\ \A t \in Slots : /\ older[t] = Idle /\ dels[t] = Idle
                                         /\ t # s => post[t] = Idle
<1>1. CASE FirstLoad
  BY <1>1 DEF Invalidated, Types, FetchTypes
<1>2. CASE ~FirstLoad
  <2>1. Invalidated(s) = [Loading("all", Wanted) EXCEPT !.clean = calmly]
    BY <1>2 DEF Invalidated
  <2>2. Loading("all", Wanted) \in FetchRec /\ Loading("all", Wanted).kind = "all"
        /\ Loading("all", Wanted).got = <<>>
    BY LoadingType, WantedType DEF Types
  <2>3. calmly \in BOOLEAN
    OBVIOUS
  <2> HIDE DEF calmly
  <2>4. Invalidated(s) \in FetchRec /\ Invalidated(s).kind = "all" /\ Invalidated(s).got = <<>>
        /\ Invalidated(s).clean = calmly
    BY <2>1, <2>2, <2>3 DEF FetchRec
  <2>. QED
    BY <1>2, <2>4 DEF calmly
<1>. QED
  BY <1>1, <1>2

(* The page a comment is shown on. *)
LEMMA ShownOn ==
    ASSUME NEW P \in Seq(CPage), NEW c
    PROVE  /\ IsShown(c, P) <=> \E i \in DOMAIN P : c \in ToSet(P[i].ids)
           /\ IsShown(c, P) => \E i \in DOMAIN P : /\ c \in ToSet(P[i].ids)
                                                   /\ GenOf(c, P) = P[i].gen /\ GenOf(c, P) \in Gens
<1>1. ASSUME NEW i \in DOMAIN P
      PROVE  P[i] \in CPage /\ (Contains(P[i].ids, c) <=> c \in ToSet(P[i].ids))
  <2>1. P[i] \in CPage
    OBVIOUS
  <2>2. P[i].ids \in Seq(Nat)
    BY <2>1 DEF CPage
  <2>. QED
    BY <2>1, <2>2 DEF Contains, ToSet
<1>2. IsShown(c, P) <=> \E i \in DOMAIN P : c \in ToSet(P[i].ids)
  BY <1>1 DEF IsShown
<1>3. ASSUME IsShown(c, P)
      PROVE  \E i \in DOMAIN P : /\ c \in ToSet(P[i].ids)
                                 /\ GenOf(c, P) = P[i].gen /\ GenOf(c, P) \in Gens
  <2> DEFINE n == CHOOSE i \in DOMAIN P : Contains(P[i].ids, c)
  <2>1. n \in DOMAIN P /\ Contains(P[n].ids, c)
    BY <1>3 DEF IsShown
  <2>2. GenOf(c, P) = P[n].gen
    BY DEF GenOf
  <2> HIDE DEF n
  <2>. QED
    BY <1>1, <2>1, <2>2 DEF CPage
<1>. QED
  BY <1>2, <1>3

(* The pages without a comment. *)
LEMMA WithoutFacts ==
    ASSUME NEW P \in Seq(CPage), NEW c
    PROVE  /\ Without(P, c) \in Seq(CPage)
           /\ Len(Without(P, c)) = Len(P) /\ DOMAIN Without(P, c) = DOMAIN P
           /\ (Without(P, c) = <<>>) <=> (P = <<>>)
           /\ \A i \in DOMAIN P :
                 /\ Without(P, c)[i].gen = P[i].gen /\ Without(P, c)[i].cur = P[i].cur
                 /\ Without(P, c)[i].last = P[i].last
                 /\ ToSet(Without(P, c)[i].ids) = ToSet(P[i].ids) \ {c}
                 /\ Desc(P[i].ids) => Desc(Without(P, c)[i].ids)
<1> DEFINE W == Without(P, c)
           D == {c}
<1>1. W = [i \in DOMAIN P |-> [P[i] EXCEPT !.ids = Filter(P[i].ids, D)]]
  BY DEF Without
<1> HIDE DEF W, D
<1>2. ASSUME NEW i \in DOMAIN P
      PROVE  /\ W[i] \in CPage /\ W[i].gen = P[i].gen /\ W[i].cur = P[i].cur /\ W[i].last = P[i].last
             /\ ToSet(W[i].ids) = ToSet(P[i].ids) \ D
             /\ Desc(P[i].ids) => Desc(W[i].ids)
  <2>1. P[i] \in CPage
    OBVIOUS
  <2>2. P[i].ids \in Seq(Nat)
    BY <2>1 DEF CPage
  <2> DEFINE f == Filter(P[i].ids, D)
  <2>3. f \in Seq(Nat) /\ ToSet(f) = ToSet(P[i].ids) \ D /\ (Desc(P[i].ids) => Desc(f))
    BY <2>2, FilterFacts
  <2>4. W[i] = [P[i] EXCEPT !.ids = f]
    BY <1>1
  <2> HIDE DEF f
  <2>5. /\ W[i] \in CPage /\ W[i].ids = f
        /\ W[i].gen = P[i].gen /\ W[i].cur = P[i].cur /\ W[i].last = P[i].last
    BY <2>1, <2>3, <2>4 DEF CPage
  <2>. QED
    BY <2>3, <2>5
<1>3. DOMAIN W = DOMAIN P /\ W = [i \in DOMAIN P |-> W[i]] /\ DOMAIN P = 1..Len(P) /\ Len(P) \in Nat
  BY <1>1
<1>4. W \in Seq(CPage)
  BY <1>2, <1>3
<1>5. Len(W) = Len(P)
  BY <1>3, <1>4
<1>6. (W = <<>>) <=> (P = <<>>)
  <2>1. (W = <<>>) <=> (Len(W) = 0)
    BY <1>4, EmptySeq
  <2>2. (P = <<>>) <=> (Len(P) = 0)
    BY EmptySeq
  <2>. QED
    BY <1>5, <2>1, <2>2
<1>. QED
  BY <1>2, <1>3, <1>4, <1>5, <1>6 DEF W, D

(* A like that is under way keeps its request; the object it is about is that of
   the pages, when they have one. *)
LEMMA RenderedFacts ==
    ASSUME LikeTypes, NEW P \in Seq(CPage)
    PROVE  /\ Rendered(P) \in [Ids -> {Idle} \cup LikeRec]
           /\ \A c \in Ids :
                 /\ (Rendered(P)[c] = Idle) <=> (like[c] = Idle)
                 /\ like[c] # Idle =>
                      /\ Rendered(P)[c].st = like[c].st /\ Rendered(P)[c].on = like[c].on
                      /\ \/ Rendered(P)[c].gen = like[c].gen
                         \/ IsShown(c, P) /\ Rendered(P)[c].gen = GenOf(c, P)
<1> DEFINE R == Rendered(P)
<1>1. ASSUME NEW c \in Ids
      PROVE  /\ R[c] \in {Idle} \cup LikeRec
             /\ (R[c] = Idle) <=> (like[c] = Idle)
             /\ like[c] # Idle => /\ R[c].st = like[c].st /\ R[c].on = like[c].on
                                  /\ \/ R[c].gen = like[c].gen
                                     \/ IsShown(c, P) /\ R[c].gen = GenOf(c, P)
  <2>1. R[c] = IF like[c] = Idle \/ ~like[c].mounted THEN like[c]
               ELSE IF IsShown(c, P) THEN [like[c] EXCEPT !.gen = GenOf(c, P)]
               ELSE [like[c] EXCEPT !.mounted = FALSE]
    BY DEF Rendered
  <2>2. like[c] \in {Idle} \cup LikeRec
    BY DEF LikeTypes
  <2>3. IsShown(c, P) => GenOf(c, P) \in Gens
    BY ShownOn
  <2>4. ASSUME NEW r \in LikeRec PROVE r # Idle
    BY DEF LikeRec, Idle, ReqSt
  <2> HIDE DEF R
  <2>5. CASE like[c] = Idle \/ ~like[c].mounted
    BY <2>1, <2>2, <2>5
  <2>6. CASE like[c] # Idle /\ like[c].mounted /\ IsShown(c, P)
    <3>1. R[c] = [like[c] EXCEPT !.gen = GenOf(c, P)] /\ like[c] \in LikeRec
      BY <2>1, <2>2, <2>6
    <3>2. R[c] \in LikeRec /\ R[c].st = like[c].st /\ R[c].on = like[c].on /\ R[c].gen = GenOf(c, P)
      BY <2>3, <2>6, <3>1 DEF LikeRec
    <3>. QED
      BY <2>4, <2>6, <3>2
  <2>7. CASE like[c] # Idle /\ like[c].mounted /\ ~IsShown(c, P)
    <3>1. R[c] = [like[c] EXCEPT !.mounted = FALSE] /\ like[c] \in LikeRec
      BY <2>1, <2>2, <2>7
    <3>2. R[c] \in LikeRec /\ R[c].st = like[c].st /\ R[c].on = like[c].on /\ R[c].gen = like[c].gen
      BY <3>1 DEF LikeRec
    <3>. QED
      BY <2>4, <2>7, <3>2
  <2>. QED
    BY <2>5, <2>6, <2>7
<1>2. DOMAIN R = Ids /\ R = [c \in Ids |-> R[c]]
  BY DEF Rendered
<1> HIDE DEF R
<1>3. R \in [Ids -> {Idle} \cup LikeRec]
  BY <1>1, <1>2
<1>. QED
  BY <1>1, <1>3 DEF R

(* The pages a load makes. *)
FreshOf(got, gen) ==
    [i \in DOMAIN got |-> [ids |-> got[i].ids, gen |-> gen, cur |-> got[i].cur, last |-> got[i].last]]

(* They are cached pages. *)
LEMMA FreshType ==
    ASSUME NEW got \in Seq(FPage), NEW gen \in Gens
    PROVE  FreshOf(got, gen) \in Seq(CPage) /\ Len(FreshOf(got, gen)) = Len(got)
<1>1. ASSUME NEW i \in DOMAIN got
      PROVE  [ids |-> got[i].ids, gen |-> gen, cur |-> got[i].cur, last |-> got[i].last] \in CPage
  <2>1. got[i] \in FPage
    OBVIOUS
  <2>. QED
    BY <2>1 DEF FPage, CPage
<1>2. DOMAIN got = 1..Len(got) /\ Len(got) \in Nat
  OBVIOUS
<1>. QED
  BY <1>1, <1>2 DEF FreshOf

(* FetchDone, with the name it gives to its objects. *)
Done(gen) ==
    /\ fetch # NoFetch /\ Complete
    /\ gen \in Gens \ UsedGens(fetch.base)
    /\ data' = IF fetch.kind = "all" THEN FreshOf(fetch.got, gen)
               ELSE fetch.base \o FreshOf(fetch.got, gen)
    /\ hearts' = {h \in hearts : h[2] \in UsedGens(data') \ {gen}}
                 \cup UNION {(fetch.got[i].liked \cap Hearts) \X {gen} : i \in DOMAIN fetch.got}
    /\ like' = Rendered(data')
    /\ fetch' = NoFetch
    /\ calm' = (fetch.clean /\ (fetch.kind = "all" \/ calm))
    /\ cut' = (cut /\ ~(fetch.kind = "all" /\ fetch.clean))
    /\ UNCHANGED <<server, older, dels, post>>

(* FetchDone names its objects. *)
LEMMA FetchDoneIs == FetchDone => \E gen \in Gens : Done(gen)
<1> SUFFICES ASSUME FetchDone PROVE \E gen \in Gens : Done(gen)
  OBVIOUS
<1>1. PICK gen \in Gens \ UsedGens(fetch.base) :
          /\ data' = IF fetch.kind = "all" THEN FreshOf(fetch.got, gen)
                     ELSE fetch.base \o FreshOf(fetch.got, gen)
          /\ hearts' = {h \in hearts : h[2] \in UsedGens(data') \ {gen}}
                       \cup UNION {(fetch.got[i].liked \cap Hearts) \X {gen} : i \in DOMAIN fetch.got}
  BY Zenon DEF FetchDone, FreshOf
<1>. QED
  BY <1>1, Zenon DEF FetchDone, Done

(* The parameter of the next page is a page number. *)
LEMMA PageParamType ==
    ASSUME FetchTypes, fetch # NoFetch
    PROVE  PageParam \in Nat \ {0}
<1>0. fetch.base \in Seq(CPage) /\ fetch.got \in Seq(FPage)
  BY DEF FetchTypes, FetchRec
<1>1. CASE fetch.kind = "next"
  <2>1. Last(fetch.base) \in CPage
    BY <1>0, <1>1, LastIn DEF FetchTypes
  <2>2. Last(fetch.base).cur \in Nat
    BY <2>1 DEF CPage
  <2>3. PageParam = Last(fetch.base).cur + 1
    BY <1>1 DEF PageParam
  <2>. QED
    BY <2>2, <2>3
<1>2. CASE fetch.kind # "next" /\ fetch.got = <<>>
  BY <1>2 DEF PageParam
<1>3. CASE fetch.kind # "next" /\ fetch.got # <<>>
  <2>1. Last(fetch.got) \in FPage
    BY <1>0, <1>3, LastIn
  <2>2. Last(fetch.got).cur \in Nat
    BY <2>1 DEF FPage
  <2>3. PageParam = Last(fetch.got).cur + 1
    BY <1>3 DEF PageParam
  <2>. QED
    BY <2>2, <2>3
<1>. QED
  BY <1>1, <1>2, <1>3

(* The types hold before the first load. *)
LEMMA TypesInit == Init => Types
<1> SUFFICES ASSUME Init PROVE Types
  OBVIOUS
<1>1. ServerTypes
  BY CommentsAssumption DEF Init, ServerTypes
<1>2. FetchTypes
  BY NoFetchType DEF Init, FetchTypes
<1>3. LikeTypes /\ OlderTypes /\ DelTypes /\ DOMAIN post = Slots
  BY DEF Init, LikeTypes, OlderTypes, DelTypes
<1>4. data \in Seq(CPage) /\ calm \in BOOLEAN /\ cut \in BOOLEAN
  <2>1. <<>> \in Seq(CPage)
    OBVIOUS
  <2>. QED
    BY <2>1 DEF Init
<1>. QED
  BY <1>1, <1>2, <1>3, <1>4 DEF Types

(* What a step leaves of the server's types. *)
LEMMA ServerTypesStep == Types /\ [Next]_vars => ServerTypes'
<1> SUFFICES ASSUME Types, [Next]_vars PROVE ServerTypes'
  OBVIOUS
<1>0. ServerTypes /\ MaxId \in Nat
  BY CommentsAssumption DEF Types
<1>1. CASE UNCHANGED <<created, liked, mine>>
  BY <1>0, <1>1 DEF ServerTypes
<1>2. ASSUME OtherPosts \/ \E s \in Slots : ServePost(s) PROVE ServerTypes'
  <2>1. /\ created < MaxId /\ created' = created + 1 /\ liked' = liked
        /\ mine' \in {mine, mine \cup {created + 1}}
    BY <1>2 DEF ServePost, OtherPosts
  <2>2. created' \in 0..MaxId /\ created + 1 \in Nat
    BY <1>0, <2>1 DEF ServerTypes
  <2>. QED
    BY <1>0, <2>1, <2>2 DEF ServerTypes
<1>3. ASSUME NEW c \in Ids, ServeLike(c) PROVE ServerTypes'
  <2>1. c \in Hearts
    BY <1>3 DEF ServeLike, Types, LikeTypes
  <2>. QED
    BY <1>0, <1>3, <2>1 DEF ServerTypes, ServeLike, ServedLike
<1>7. ASSUME NEW s \in Slots, ServeOlder(s) PROVE ServerTypes'
  <2>1. older[s] \in OlderRec
    BY <1>7 DEF ServeOlder, Types, OlderTypes
  <2>2. older[s].id \in Hearts
    BY <2>1 DEF OlderRec
  <2>. QED
    BY <1>0, <1>7, <2>2 DEF ServerTypes, ServeOlder, ServedLike
<1>4. CASE UNCHANGED server
  BY <1>1, <1>4 DEF server
<1>5. ASSUME NEW s \in Slots, ServeDelete(s) PROVE ServerTypes'
  BY <1>1, <1>5 DEF ServeDelete
<1>6. CASE OtherDeletes
  BY <1>1, <1>6 DEF OtherDeletes
<1>. QED
  BY <1>2, <1>3, <1>4, <1>5, <1>6, <1>7
     DEF Next, vars, Load, FetchNextPage, GetComments, FetchDone, FetchFails, ClickPost,
         PostSucceeds, PostFails, ClickLike, ClickLikeAgain, LikeSucceeds, LikeFails, OlderSucceeds,
         OlderFails, Remount, ClickDelete, DeleteSucceeds, DeleteFails

(* Of the pages'. *)
LEMMA DataTypesStep == Types /\ [Next]_vars => data' \in Seq(CPage)
<1> SUFFICES ASSUME Types, [Next]_vars PROVE data' \in Seq(CPage)
  OBVIOUS
<1>0. data \in Seq(CPage)
  BY DEF Types
<1>1. CASE UNCHANGED data
  BY <1>0, <1>1
<1>2. CASE FetchDone
  <2>1. PICK gen \in Gens : Done(gen)
    BY <1>2, FetchDoneIs
  <2>2. fetch.got \in Seq(FPage) /\ fetch.base \in Seq(CPage)
    BY DEF Types, FetchTypes, FetchRec
  <2>3. FreshOf(fetch.got, gen) \in Seq(CPage)
    BY <2>2, FreshType
  <2>. QED
    BY <2>1, <2>2, <2>3 DEF Done
<1>3. ASSUME NEW c \in Ids, NEW s \in Slots, ClickDelete(c, s) PROVE data' \in Seq(CPage)
  BY <1>0, <1>3, WithoutFacts DEF ClickDelete
<1>4. ASSUME NEW s \in Slots, DeleteFails(s) PROVE data' \in Seq(CPage)
  <2>1. dels[s] \in DelRec
    BY <1>4 DEF DeleteFails, Types, DelTypes
  <2>. QED
    BY <1>4, <2>1 DEF DeleteFails, DelRec
<1>. QED
  BY <1>1, <1>2, <1>3, <1>4
     DEF Next, vars, page, Load, FetchNextPage, GetComments, FetchFails, ClickPost, ServePost,
         PostSucceeds, PostFails, ClickLike, ClickLikeAgain, ServeLike, LikeSucceeds, LikeFails,
         ServeOlder, OlderSucceeds, OlderFails, Remount,
         ServeDelete, DeleteSucceeds, OtherPosts, OtherDeletes

(* Of the load's. *)
LEMMA FetchTypesStep == Types /\ [Next]_vars => FetchTypes'
<1> SUFFICES ASSUME Types, [Next]_vars PROVE FetchTypes'
  OBVIOUS
<1>0. FetchTypes /\ data \in Seq(CPage)
  BY DEF Types
<1>1. CASE UNCHANGED fetch
  BY <1>0, <1>1 DEF FetchTypes
<1>2. CASE fetch' = NoFetch
  BY <1>2, NoFetchType DEF FetchTypes
<1>3. CASE fetch' = Disturbed
  BY <1>0, <1>3, DisturbedType DEF FetchTypes
<1>4. CASE Load
  <2>1. fetch' = Loading("all", Wanted)
    BY <1>4 DEF Load
  <2>. QED
    BY <1>0, <2>1, LoadingType, WantedType DEF FetchTypes
<1>5. CASE FetchNextPage
  <2>1. fetch' = Loading("next", 1) /\ data # <<>>
    BY <1>5 DEF FetchNextPage, HasNextPage
  <2>. QED
    BY <1>0, <2>1, LoadingType DEF FetchTypes
<1>6. CASE GetComments
  <2> DEFINE q == Page(PageParam)
  <2>1. fetch # NoFetch /\ fetch' = [fetch EXCEPT !.got = Append(fetch.got, q)]
    BY <1>6 DEF GetComments
  <2>2. q \in FPage
    <3>1. created \in Nat
      BY DEF Types, ServerTypes
    <3>. QED
      BY <1>0, <2>1, <3>1, PageParamType, PageType
  <2> HIDE DEF q
  <2> DEFINE g == Append(fetch.got, q)
  <2>3. fetch \in FetchRec /\ g \in Seq(FPage)
    <3>1. fetch \in FetchRec /\ fetch.got \in Seq(FPage)
      BY <1>0 DEF FetchTypes, FetchRec
    <3>. QED
      BY <2>2, <3>1
  <2> HIDE DEF g
  <2>4. /\ fetch' \in FetchRec /\ fetch'.kind = fetch.kind /\ fetch'.base = fetch.base
    <3>1. fetch' = [fetch EXCEPT !.got = g]
      BY <2>1 DEF g
    <3>. QED
      BY <2>3, <3>1 DEF FetchRec
  <2>. QED
    BY <1>0, <2>1, <2>4 DEF FetchTypes, NoFetch
<1>7. ASSUME NEW s \in Slots, PostSucceeds(s) PROVE FetchTypes'
  <2>1. fetch' = Invalidated(s)
    BY <1>7 DEF PostSucceeds
  <2>2. CASE FirstLoad
    BY <1>1, <2>1, <2>2 DEF Invalidated
  <2>3. CASE ~FirstLoad
    BY <2>1, <2>3, InvalidatedType DEF FetchTypes
  <2>. QED
    BY <2>2, <2>3
<1>. QED
  BY <1>1, <1>2, <1>3, <1>4, <1>5, <1>6, <1>7
     DEF Next, vars, FetchDone, FetchFails, ClickPost, ServePost, PostFails, ClickLike, ClickLikeAgain,
         ServeLike, LikeSucceeds, LikeFails, ServeOlder, OlderSucceeds, OlderFails, Remount,
         ClickDelete, Cancelled, ServeDelete, DeleteSucceeds, DeleteFails,
         OtherPosts, OtherDeletes

(* Of the likes'. *)
LEMMA LikeTypesStep == Types /\ [Next]_vars => LikeTypes'
<1> SUFFICES ASSUME Types, [Next]_vars PROVE LikeTypes'
  OBVIOUS
<1>0. LikeTypes /\ data \in Seq(CPage) /\ data' \in Seq(CPage)
  BY DataTypesStep DEF Types
<1>1. CASE UNCHANGED like
  BY <1>0, <1>1 DEF LikeTypes
<1>2. CASE like' = Rendered(data')
  BY <1>0, <1>2, RenderedFacts DEF LikeTypes
<1>3. ASSUME NEW c \in Ids, ClickLike(c) \/ \E s \in Slots : ClickLikeAgain(c, s) PROVE LikeTypes'
  <2> DEFINE r == [st |-> "sent", on |-> <<c, GenOf(c, data)>> \notin hearts,
                   gen |-> GenOf(c, data), mounted |-> TRUE]
  <2>1. c \in Hearts /\ IsShown(c, data) /\ like' = [like EXCEPT ![c] = r]
    BY <1>3 DEF ClickLike, ClickLikeAgain, Liking
  <2>2. GenOf(c, data) \in Gens
    BY <1>0, <2>1, ShownOn
  <2>3. r \in LikeRec
    <3>1. (<<c, GenOf(c, data)>> \notin hearts) \in BOOLEAN
      OBVIOUS
    <3>. QED
      BY <2>2, <3>1 DEF LikeRec, ReqSt
  <2> HIDE DEF r
  <2>. QED
    BY <1>0, <2>1, <2>3 DEF LikeTypes
<1>4. ASSUME NEW c \in Ids, ServeLike(c) PROVE LikeTypes'
  <2>1. /\ like[c] \in LikeRec /\ c \in Hearts
        /\ like' = [like EXCEPT ![c] = [like[c] EXCEPT !.st = "done"]]
    BY <1>0, <1>4 DEF ServeLike, LikeTypes
  <2>2. [like[c] EXCEPT !.st = "done"] \in LikeRec
    BY <2>1 DEF LikeRec, ReqSt
  <2>. QED
    BY <1>0, <2>1, <2>2 DEF LikeTypes
<1>5. ASSUME NEW c \in Ids, like' = [like EXCEPT ![c] = Idle] PROVE LikeTypes'
  BY <1>0, <1>5 DEF LikeTypes
<1>6. CASE Remount
  <2>1. like' = [c \in Ids |-> Unmounted(like[c])]
    BY <1>6 DEF Remount
  <2>2. ASSUME NEW c \in Ids
        PROVE  /\ Unmounted(like[c]) \in {Idle} \cup LikeRec
               /\ Unmounted(like[c]) # Idle => like[c] # Idle
    BY <1>0 DEF LikeTypes, Unmounted, LikeRec
  <2>3. ASSUME NEW c \in Ids
        PROVE  like'[c] \in {Idle} \cup LikeRec /\ (like'[c] # Idle => like[c] # Idle)
    <3>1. like'[c] = Unmounted(like[c])
      BY <2>1
    <3>. QED
      BY <2>2, <3>1
  <2>4. like' \in [Ids -> {Idle} \cup LikeRec]
    <3>1. DOMAIN like' = Ids /\ like' = [c \in Ids |-> like'[c]]
      BY <2>1
    <3>. QED
      BY <2>3, <3>1
  <2>. QED
    BY <1>0, <2>3, <2>4 DEF LikeTypes
<1>. QED
  BY <1>1, <1>2, <1>3, <1>4, <1>5, <1>6
     DEF Next, vars, requests, Load, FetchNextPage, GetComments, FetchDone, FetchFails, ClickPost,
         ServePost, PostSucceeds, PostFails, LikeSucceeds, LikeFails, ServeOlder, OlderSucceeds,
         OlderFails, ClickDelete, ServeDelete, DeleteSucceeds, DeleteFails, OtherPosts, OtherDeletes

(* Of the earlier likes'. *)
LEMMA OlderTypesStep == Types /\ [Next]_vars => OlderTypes'
<1> SUFFICES ASSUME Types, [Next]_vars PROVE OlderTypes'
  OBVIOUS
<1>0. OlderTypes /\ LikeTypes
  BY DEF Types
<1>1. CASE UNCHANGED older
  BY <1>0, <1>1 DEF OlderTypes
<1>2. ASSUME NEW c \in Ids, NEW s \in Slots, ClickLikeAgain(c, s) PROVE OlderTypes'
  <2> DEFINE r == [id |-> c, st |-> like[c].st, on |-> like[c].on, gen |-> like[c].gen]
  <2>1. like[c] \in LikeRec /\ c \in Hearts /\ older' = [older EXCEPT ![s] = r]
    BY <1>0, <1>2 DEF ClickLikeAgain, LikeTypes
  <2>2. r \in OlderRec
    BY <2>1 DEF LikeRec, OlderRec
  <2> HIDE DEF r
  <2>. QED
    BY <1>0, <2>1, <2>2 DEF OlderTypes
<1>3. ASSUME NEW s \in Slots, ServeOlder(s) PROVE OlderTypes'
  <2>1. older[s] \in OlderRec /\ older' = [older EXCEPT ![s] = [older[s] EXCEPT !.st = "done"]]
    BY <1>0, <1>3 DEF ServeOlder, OlderTypes
  <2>2. [older[s] EXCEPT !.st = "done"] \in OlderRec
    BY <2>1 DEF OlderRec, ReqSt
  <2>. QED
    BY <1>0, <2>1, <2>2 DEF OlderTypes
<1>4. ASSUME NEW s \in Slots, older' = [older EXCEPT ![s] = Idle] PROVE OlderTypes'
  BY <1>0, <1>4 DEF OlderTypes
<1>. QED
  BY <1>1, <1>2, <1>3, <1>4
     DEF Next, vars, requests, Load, FetchNextPage, GetComments, FetchDone, FetchFails, ClickPost,
         ServePost, PostSucceeds, PostFails, ClickLike, ServeLike, LikeSucceeds, LikeFails,
         OlderSucceeds, OlderFails, Remount, ClickDelete, ServeDelete, DeleteSucceeds, DeleteFails,
         OtherPosts, OtherDeletes

(* Of the deletions'. *)
LEMMA DelTypesStep == Types /\ [Next]_vars => DelTypes'
<1> SUFFICES ASSUME Types, [Next]_vars PROVE DelTypes'
  OBVIOUS
<1>0. DelTypes /\ data \in Seq(CPage)
  BY DEF Types
<1>1. CASE UNCHANGED dels
  BY <1>0, <1>1 DEF DelTypes
<1>2. ASSUME NEW c \in Ids, NEW s \in Slots, ClickDelete(c, s) PROVE DelTypes'
  <2>1. c \in Nat
    BY CommentsAssumption DEF Ids
  <2>2. [st |-> "sent", id |-> c, snap |-> data] \in DelRec
    BY <1>0, <2>1 DEF DelRec, ReqSt
  <2>. QED
    BY <1>0, <1>2, <2>2 DEF ClickDelete, DelTypes
<1>3. ASSUME NEW s \in Slots, ServeDelete(s) PROVE DelTypes'
  <2>1. dels[s] \in DelRec /\ dels' = [dels EXCEPT ![s] = [dels[s] EXCEPT !.st = "done"]]
    BY <1>0, <1>3 DEF ServeDelete, DelTypes
  <2>2. [dels[s] EXCEPT !.st = "done"] \in DelRec
    BY <2>1 DEF DelRec, ReqSt
  <2>. QED
    BY <1>0, <2>1, <2>2 DEF DelTypes
<1>4. ASSUME NEW s \in Slots, dels' = [dels EXCEPT ![s] = Idle] PROVE DelTypes'
  BY <1>0, <1>4 DEF DelTypes
<1>. QED
  BY <1>1, <1>2, <1>3, <1>4
     DEF Next, vars, requests, Load, FetchNextPage, GetComments, FetchDone, FetchFails, ClickPost,
         ServePost, PostSucceeds, PostFails, ClickLike, ClickLikeAgain, ServeLike, LikeSucceeds,
         LikeFails, ServeOlder, OlderSucceeds, OlderFails, Remount, DeleteSucceeds, DeleteFails,
         OtherPosts, OtherDeletes

(* Every step keeps the types. *)
LEMMA TypesStep == Types /\ [Next]_vars => Types'
<1> SUFFICES ASSUME Types, [Next]_vars PROVE Types'
  OBVIOUS
<1>1. calm' \in BOOLEAN /\ cut' \in BOOLEAN
  BY DEF Types, Next, vars, ghosts, Load, FetchNextPage, GetComments, FetchDone, FetchFails, ClickPost,
         ServePost, PostSucceeds, PostFails, ClickLike, ClickLikeAgain, ServeLike, LikeSucceeds,
         LikeFails, ServeOlder, OlderSucceeds, OlderFails, Remount, ClickDelete,
         ServeDelete, DeleteSucceeds, DeleteFails, OtherPosts, OtherDeletes
<1>2. DOMAIN post' = Slots
  <2>1. DOMAIN post = Slots
    BY DEF Types
  <2>2. CASE UNCHANGED post
    BY <2>1, <2>2
  <2>3. ASSUME NEW s \in Slots, ClickPost(s) \/ ServePost(s) \/ PostSucceeds(s) \/ PostFails(s)
        PROVE  DOMAIN post' = Slots
    BY <2>1, <2>3 DEF ClickPost, ServePost, PostSucceeds, PostFails
  <2>4. CASE Remount
    BY <2>4 DEF Remount
  <2>. QED
    BY <2>2, <2>3, <2>4
       DEF Next, vars, requests, Load, FetchNextPage, GetComments, FetchDone, FetchFails, ClickLike,
           ClickLikeAgain, ServeLike, LikeSucceeds, LikeFails, ServeOlder, OlderSucceeds, OlderFails,
           ClickDelete, ServeDelete, DeleteSucceeds, DeleteFails, OtherPosts, OtherDeletes
<1>. QED
  BY <1>1, <1>2, ServerTypesStep, DataTypesStep, FetchTypesStep, LikeTypesStep, OlderTypesStep,
     DelTypesStep DEF Types

-----------------------------------------------------------------------------
(* Loads that nothing disturbed. *)

(* No request is under way while such a load runs, and what it has read is what the
   server has; a load of the next page goes on from the pages that are shown. *)
CleanInv ==
    fetch.kind # "none" /\ fetch.clean =>
        /\ NothingPending
        /\ fetch.kind = "all" => \A i \in DOMAIN fetch.got : fetch.got[i] = Page(i)
        /\ fetch.kind = "next" =>
              /\ fetch.base = data /\ HasNextPage /\ fetch.want = 1
              /\ fetch.got = <<>> \/ fetch.got = <<Page(Last(data).cur + 1)>>

(* No load is under way at first. *)
LEMMA CleanInit == Init => CleanInv
  BY DEF Init, CleanInv, NoFetch

(* A page that has a page after it is not empty, and has its number. *)
LEMMA NotLastPage ==
    ASSUME created \in Nat, NEW p \in Nat \ {0}, Page(p).cur < Page(p).last
    PROVE  Page(p).cur = p
<1>1. Listing \in Seq(Nat) /\ Desc(Listing)
  BY ListingNow
<1>2. Page(p).cur = CurOf(Listing, p) /\ Page(p).last = LastOf(Listing, p)
  BY PageIs
<1>. QED
  BY <1>1, <1>2, PageFacts

(* Whatever could make the reading of a load wrong disturbs it. *)
LEMMA CleanStep == Types /\ CleanInv /\ [Next]_vars => CleanInv'
<1> SUFFICES ASSUME Types, CleanInv, [Next]_vars PROVE CleanInv'
  OBVIOUS
<1>0. FetchTypes /\ data \in Seq(CPage) /\ created \in Nat
  BY DEF Types, ServerTypes
<1>1. CASE UNCHANGED <<server, page, fetch>> /\ (NothingPending => NothingPending')
  <2>1. UNCHANGED <<created, gone, liked, data, fetch>>
    BY <1>1 DEF server, page
  <2>2. UNCHANGED HasNextPage /\ \A i : UNCHANGED Page(i)
    BY <2>1 DEF HasNextPage, Page, Listing
  <2> HIDE DEF NothingPending, HasNextPage, Page
  <2>. QED
    BY <1>1, <2>1, <2>2 DEF CleanInv
<1>2. CASE fetch' = NoFetch
  BY <1>2 DEF CleanInv, NoFetch
<1>3. CASE fetch' = Disturbed
  BY <1>0, <1>3, DisturbedType DEF CleanInv
<1>4. CASE UNCHANGED fetch /\ ~NothingPending
  BY <1>4 DEF CleanInv
<1>5. CASE Load
  <2>1. fetch' = Loading("all", Wanted) /\ UNCHANGED requests
    BY <1>5 DEF Load
  <2>2. fetch'.kind = "all" /\ fetch'.got = <<>> /\ fetch'.clean = NothingPending
    BY <1>0, <2>1, LoadingType, WantedType
  <2>3. NothingPending' = NothingPending
    BY <2>1 DEF requests, NothingPending
  <2>4. DOMAIN fetch'.got = {}
    BY <2>2
  <2>. QED
    BY <2>2, <2>3, <2>4 DEF CleanInv
<1>6. CASE FetchNextPage
  <2>1. fetch' = Loading("next", 1) /\ UNCHANGED requests /\ HasNextPage /\ UNCHANGED data
    BY <1>6 DEF FetchNextPage, page
  <2>2. /\ fetch'.kind = "next" /\ fetch'.got = <<>> /\ fetch'.clean = NothingPending
        /\ fetch'.base = data /\ fetch'.want = 1
    BY <1>0, <2>1, LoadingType
  <2>3. NothingPending' = NothingPending /\ HasNextPage'
    BY <2>1 DEF requests, NothingPending, HasNextPage
  <2>. QED
    BY <2>1, <2>2, <2>3 DEF CleanInv
<1>7. ASSUME NEW s \in Slots, PostSucceeds(s) PROVE CleanInv'
  <2>1. /\ fetch' = Invalidated(s) /\ post[s] # Idle /\ post' = [post EXCEPT ![s] = Idle]
        /\ UNCHANGED <<like, older, dels>>
    BY <1>7 DEF PostSucceeds
  <2>2. CASE FirstLoad
    <3>1. ~NothingPending
      BY <2>1 DEF NothingPending
    <3>. QED
      BY <1>4, <2>1, <2>2, <3>1 DEF Invalidated
  <2>3. CASE ~FirstLoad
    <3>1. /\ fetch'.kind = "all" /\ fetch'.got = <<>>
          /\ fetch'.clean <=> /\ \A c \in Ids : like[c] = Idle
                              /\ \A t \in Slots : /\ older[t] = Idle /\ dels[t] = Idle
                                                  /\ t # s => post[t] = Idle
      BY <2>1, <2>3, InvalidatedType
    <3>2. fetch'.clean => NothingPending'
      <4>1. ASSUME NEW t \in Slots, t # s => post[t] = Idle PROVE post'[t] = Idle
        BY <2>1, <4>1 DEF Types
      <4>. QED
        BY <2>1, <3>1, <4>1 DEF NothingPending
    <3>3. DOMAIN fetch'.got = {}
      BY <3>1
    <3>. QED
      BY <3>1, <3>2, <3>3 DEF CleanInv
  <2>. QED
    BY <2>2, <2>3
<1>8. CASE GetComments
  <2> DEFINE q == Page(PageParam)
             got == fetch.got
  <2>1. /\ fetch # NoFetch /\ ~Complete /\ fetch' = [fetch EXCEPT !.got = Append(got, q)]
        /\ UNCHANGED <<created, gone, liked, data, like, older, dels, post>>
    BY <1>8 DEF GetComments, server, page, requests
  <2>2. /\ fetch.kind \in {"all", "next"} /\ fetch'.kind = fetch.kind /\ fetch'.clean = fetch.clean
        /\ fetch'.got = Append(got, q) /\ fetch'.base = fetch.base /\ fetch'.want = fetch.want
        /\ got \in Seq(FPage)
    <3> HIDE DEF q
    <3>. QED
      BY <1>0, <2>1 DEF FetchTypes, FetchRec
  <2>3. UNCHANGED NothingPending /\ UNCHANGED HasNextPage /\ \A i : UNCHANGED Page(i)
    BY <2>1 DEF NothingPending, HasNextPage, Page, Listing
  <2> SUFFICES ASSUME fetch.clean PROVE CleanInv'
    BY <2>2 DEF CleanInv
  <2>4. CASE fetch.kind = "all"
    <3>1. NothingPending /\ \A i \in DOMAIN got : got[i] = Page(i)
      BY <2>4 DEF CleanInv
    <3>2. q = Page(Len(got) + 1)
      <4>1. CASE got = <<>>
        <5>1. Len(got) + 1 = 1
          BY <4>1
        <5>. QED
          BY <2>4, <4>1, <5>1 DEF PageParam
      <4>2. CASE got # <<>>
        <5>1. Len(got) \in DOMAIN got /\ Len(got) \in Nat \ {0} /\ Last(got) \in FPage
          BY <2>2, <4>2, LastIn
        <5>2. Last(got) = Page(Len(got))
          BY <3>1, <5>1 DEF Last
        <5>3. ~(Last(got).cur >= Last(got).last)
          BY <2>1, <4>2 DEF Complete
        <5>4. Last(got).cur < Last(got).last
          <6>1. Last(got).cur \in Nat /\ Last(got).last \in Nat
            BY <5>1 DEF FPage
          <6>. QED
            BY <5>3, <6>1
        <5>5. Last(got).cur = Len(got)
          BY <1>0, <5>1, <5>2, <5>4, NotLastPage
        <5>. QED
          BY <2>4, <4>2, <5>5 DEF PageParam
      <4>. QED
        BY <4>1, <4>2
    <3> HIDE DEF q
    <3> SUFFICES ASSUME NEW i \in DOMAIN Append(got, q)
                 PROVE  Append(got, q)[i] = Page(i)
      BY <2>2, <2>3, <2>4, <3>1 DEF CleanInv
    <3>3. i \in DOMAIN got \/ i = Len(got) + 1
      BY <2>2
    <3>4. Append(got, q)[Len(got) + 1] = q /\ \A j \in DOMAIN got : Append(got, q)[j] = got[j]
      BY <2>2
    <3>. QED
      BY <3>1, <3>2, <3>3, <3>4
  <2>5. CASE fetch.kind = "next"
    <3>1. /\ NothingPending /\ fetch.base = data /\ HasNextPage /\ fetch.want = 1
          /\ got = <<>> \/ got = <<Page(Last(data).cur + 1)>>
      BY <2>5 DEF CleanInv
    <3>2. got = <<>>
      <4> SUFFICES ASSUME got = <<Page(Last(data).cur + 1)>> PROVE FALSE
        BY <3>1
      <4>1. Len(got) = 1 /\ got # <<>>
        OBVIOUS
      <4>. QED
        BY <2>1, <3>1, <4>1 DEF Complete
    <3>3. q = Page(Last(data).cur + 1)
      BY <2>5, <3>1 DEF PageParam
    <3>4. fetch'.got = <<Page(Last(data).cur + 1)>>
      BY <2>2, <3>2, <3>3
    <3>5. data' = data
      BY <2>1
    <3>. QED
      BY <2>2, <2>3, <2>5, <3>1, <3>4, <3>5 DEF CleanInv
  <2>. QED
    BY <2>2, <2>4, <2>5
<1>9. ASSUME NEW c \in Ids, ServeLike(c) \/ LikeSucceeds(c) \/ LikeFails(c) PROVE CleanInv'
  BY <1>4, <1>9 DEF ServeLike, LikeSucceeds, LikeFails, NothingPending
<1>10. ASSUME NEW s \in Slots, ServeDelete(s) \/ DeleteSucceeds(s) \/ DeleteFails(s) PROVE CleanInv'
  BY <1>4, <1>10 DEF ServeDelete, DeleteSucceeds, DeleteFails, NothingPending
<1>11. ASSUME NEW s \in Slots,
              \/ ServePost(s) \/ PostFails(s) \/ ServeOlder(s) \/ OlderSucceeds(s) \/ OlderFails(s)
       PROVE  CleanInv'
  BY <1>4, <1>11 DEF ServePost, PostFails, ServeOlder, OlderSucceeds, OlderFails, NothingPending
<1>12. CASE UNCHANGED vars
  BY <1>1, <1>12 DEF vars, requests, NothingPending
<1>17. CASE Remount
  <2>1. /\ UNCHANGED <<server, page, fetch, older, dels>>
        /\ \A c \in Ids : like'[c] = Unmounted(like[c])
        /\ \A s \in Slots : post'[s] = Unmounted(post[s])
    BY <1>17 DEF Remount
  <2>2. NothingPending => NothingPending'
    BY <2>1 DEF NothingPending, Unmounted
  <2>. QED
    BY <1>1, <2>1, <2>2
<1>18. ASSUME NEW c \in Ids, NEW s \in Slots, ClickLikeAgain(c, s) PROVE CleanInv'
  BY <1>3, <1>18 DEF ClickLikeAgain
<1>13. CASE FetchDone \/ FetchFails
  BY <1>2, <1>13 DEF FetchDone, FetchFails
<1>14. ASSUME OtherPosts \/ OtherDeletes \/ \E s \in Slots : ClickPost(s) PROVE CleanInv'
  BY <1>3, <1>14 DEF ClickPost, OtherPosts, OtherDeletes
<1>15. ASSUME NEW c \in Ids, ClickLike(c) PROVE CleanInv'
  BY <1>3, <1>15 DEF ClickLike
<1>16. ASSUME NEW c \in Ids, NEW s \in Slots, ClickDelete(c, s) PROVE CleanInv'
  BY <1>2, <1>16 DEF ClickDelete, Cancelled
<1>. QED
  BY <1>5, <1>6, <1>7, <1>8, <1>9, <1>10, <1>11, <1>12, <1>13, <1>14, <1>15, <1>16, <1>17,
     <1>18 DEF Next

-----------------------------------------------------------------------------
(* The pages, and the copies that deletions keep, when nothing happened that the page
   cannot know of. *)

Pending == {s \in Slots : dels[s] # Idle}
PendIds == {dels[s].id : s \in Pending}
Copies == {data} \cup {dels[s].snap : s \in Pending}

(* The pages descend. *)
Ordered(P) ==
    /\ \A i \in DOMAIN P : Desc(P[i].ids) /\ ToSet(P[i].ids) \subseteq Ids
    /\ \A i, j \in DOMAIN P : i < j => \A c \in ToSet(P[i].ids), d \in ToSet(P[j].ids) : c > d

(* What a load of the next page would read is below everything shown. *)
NextBelow(P, L) ==
    Last(P).cur < Last(P).last =>
        \A i \in DOMAIN P : \A c \in ToSet(P[i].ids), k \in 1..Len(L) :
            k > Last(P).cur * PageSize => c > L[k]

(* The heart of a comment object: that of the server, or what a request under way
   makes of it. *)
HeartOf(c, g) ==
    /\ like[c] = Idle => (<<c, g>> \in hearts <=> c \in liked)
    /\ like[c] # Idle => /\ like[c].gen = g
                         /\ (<<c, g>> \in hearts <=> like[c].on)
                         /\ like[c].st = "sent" => (like[c].on <=> c \notin liked)
                         /\ like[c].st # "sent" => (like[c].on <=> c \in liked)
HeartsTrue(P) == \A i \in DOMAIN P : \A c \in ToSet(P[i].ids) : HeartOf(c, P[i].gen)

(* A comment has one object. *)
SameObjects(P, Q) ==
    \A i \in DOMAIN P, j \in DOMAIN Q :
        \A c \in ToSet(P[i].ids) \cap ToSet(Q[j].ids) : P[i].gen = Q[j].gen

CopiesInv == \A P \in Copies : P # <<>> /\ Ordered(P) /\ NextBelow(P, Listing) /\ HeartsTrue(P)
ObjectsInv == \A P, Q \in Copies : SameObjects(P, Q)
DeletedInv ==
    /\ \A i \in DOMAIN data : ToSet(data[i].ids) \cap (gone \cup PendIds) = {}
    /\ \A s, t \in Pending : dels[s].id = dels[t].id => s = t
    /\ \A s \in Pending : dels[s].st = "sent" => dels[s].id \notin gone
CalmInv == calm => CopiesInv /\ ObjectsInv /\ DeletedInv

(* The copies are pages too. *)
LEMMA CopiesType ==
    ASSUME Types
    PROVE  Copies \subseteq Seq(CPage) /\ \A s \in Pending : dels[s] \in DelRec
<1>1. ASSUME NEW s \in Pending PROVE dels[s] \in DelRec
  BY DEF Pending, Types, DelTypes
<1>2. ASSUME NEW s \in Pending PROVE dels[s].snap \in Seq(CPage)
  BY <1>1 DEF DelRec
<1>. QED
  BY <1>1, <1>2 DEF Copies, Types

(* Fewer copies and the same hearts. *)
LEMMA CopiesKept ==
    ASSUME CopiesInv, ObjectsInv, Copies' \subseteq Copies, Listing' = Listing,
           \A P \in Copies : HeartsTrue(P)'
    PROVE  CopiesInv' /\ ObjectsInv'
  BY DEF CopiesInv, ObjectsInv

(* What does not concern the thread. *)
LEMMA CalmFrame ==
    ASSUME CalmInv, UNCHANGED <<created, gone, liked, data, hearts, like, calm>>,
           UNCHANGED dels
    PROVE  CalmInv'
<1>1. UNCHANGED Pending /\ UNCHANGED PendIds /\ UNCHANGED Copies /\ UNCHANGED Listing
  BY DEF Pending, PendIds, Copies, Listing
<1>2. ASSUME NEW P, HeartsTrue(P) PROVE HeartsTrue(P)'
  BY <1>2 DEF HeartsTrue, HeartOf
<1> SUFFICES ASSUME calm PROVE CopiesInv' /\ ObjectsInv' /\ DeletedInv'
  BY DEF CalmInv
<1>3. CopiesInv /\ ObjectsInv /\ DeletedInv
  BY DEF CalmInv
<1>4. CopiesInv' /\ ObjectsInv'
  BY <1>1, <1>2, <1>3, CopiesKept DEF CopiesInv
<1>5. DeletedInv'
  BY <1>1, <1>3 DEF DeletedInv
<1>. QED
  BY <1>4, <1>5

(* A like or unlike, served, answered or failed, keeps the hearts of all copies true. *)
LEMMA CalmLikes ==
    ASSUME Types, CalmInv, NEW c \in Ids,
           ClickLike(c) \/ ServeLike(c) \/ LikeSucceeds(c) \/ LikeFails(c)
    PROVE  CalmInv'
<1>1. UNCHANGED <<created, gone, data, dels>>
  BY DEF ClickLike, ServeLike, LikeSucceeds, LikeFails, server, page
<1>2. UNCHANGED Pending /\ UNCHANGED PendIds /\ UNCHANGED Copies /\ UNCHANGED Listing
  BY <1>1 DEF Pending, PendIds, Copies, Listing
<1> SUFFICES ASSUME calm' PROVE CopiesInv' /\ ObjectsInv' /\ DeletedInv'
  BY DEF CalmInv
<1>3. CopiesInv /\ ObjectsInv /\ DeletedInv /\ (LikeFails(c) => like[c].st = "sent")
  BY DEF CalmInv, ClickLike, ServeLike, LikeSucceeds, LikeFails, ghosts
<1>4. DeletedInv'
  BY <1>1, <1>2, <1>3 DEF DeletedInv
<1>5. LikeTypes /\ data \in Seq(CPage) /\ Copies \subseteq Seq(CPage) /\ data \in Copies
  BY CopiesType DEF Types, Copies
<1>6. ASSUME NEW P \in Copies, NEW i \in DOMAIN P, NEW d \in ToSet(P[i].ids)
      PROVE  HeartOf(d, P[i].gen)'
  <2> DEFINE g == P[i].gen
  <2>1. HeartOf(d, g) /\ d \in Ids
    BY <1>3 DEF CopiesInv, HeartsTrue, Ordered
  <2>2. CASE d # c
    <3>1. like'[d] = like[d]
      BY <1>5, <2>1, <2>2 DEF LikeTypes, ClickLike, ServeLike, LikeSucceeds, LikeFails
    <3>2. \A x : <<d, x>> \in hearts' <=> <<d, x>> \in hearts
      <4>1. ASSUME NEW y, hearts' = Flip(c, y), NEW x
            PROVE  <<d, x>> \in hearts' <=> <<d, x>> \in hearts
        <5>1. <<d, x>> # <<c, y>>
          BY <2>2
        <5>. QED
          BY <4>1, <5>1, Zenon DEF Flip
      <4>2. hearts' = hearts \/ \E y : hearts' = Flip(c, y)
        BY DEF ClickLike, ServeLike, LikeSucceeds, LikeFails, page
      <4>. QED
        BY <4>1, <4>2
    <3>3. d \in liked' <=> d \in liked
      BY <2>2 DEF ClickLike, ServeLike, ServedLike, LikeSucceeds, LikeFails, server
    <3> HIDE DEF g
    <3>. QED
      BY <2>1, <3>1, <3>2, <3>3 DEF HeartOf, g
  <2>3. CASE d = c /\ ClickLike(c)
    <3>1. PICK j \in DOMAIN data : c \in ToSet(data[j].ids) /\ GenOf(c, data) = data[j].gen
      BY <1>5, <2>3, ShownOn DEF ClickLike
    <3>2. g = GenOf(c, data)
      BY <1>3, <1>5, <2>3, <3>1 DEF ObjectsInv, SameObjects
    <3> DEFINE r == [st |-> "sent", on |-> <<c, g>> \notin hearts, gen |-> g, mounted |-> TRUE]
    <3> HIDE DEF g
    <3>3. like[c] = Idle /\ like' = [like EXCEPT ![c] = r] /\ hearts' = Flip(c, g) /\ liked' = liked
      BY <2>3, <3>2 DEF ClickLike, Liking, server
    <3>4. like'[c] = r
      BY <1>5, <3>3 DEF LikeTypes
    <3>5. r # Idle /\ r.gen = g /\ r.st = "sent" /\ (r.on <=> <<c, g>> \notin hearts)
      BY DEF Idle
    <3> HIDE DEF r
    <3>6. <<c, g>> \in hearts <=> c \in liked
      BY <2>1, <2>3, <3>3 DEF HeartOf
    <3>7. <<c, g>> \in hearts' <=> <<c, g>> \notin hearts
      BY <3>3 DEF Flip
    <3>8. HeartOf(c, g)'
      BY <3>3, <3>4, <3>5, <3>6, <3>7 DEF HeartOf
    <3>. QED
      BY <2>3, <3>8 DEF g
  <2>4. CASE d = c /\ ServeLike(c)
    <3> HIDE DEF g
    <3> DEFINE r == [like[c] EXCEPT !.st = "done"]
    <3>1. /\ like[c] # Idle /\ like[c].st = "sent" /\ hearts' = hearts /\ like' = [like EXCEPT ![c] = r]
          /\ liked' = IF like[c].on THEN liked \cup {c} ELSE liked \ {c}
      BY <2>4 DEF ServeLike, ServedLike, page
    <3>2. like[c] \in LikeRec
      BY <1>5, <3>1 DEF LikeTypes
    <3>3. like'[c] = r
      BY <1>5, <3>1 DEF LikeTypes
    <3>4. r # Idle /\ r.st = "done" /\ r.on = like[c].on /\ r.gen = like[c].gen
      BY <3>2 DEF LikeRec, Idle
    <3> HIDE DEF r
    <3>5. c \in liked' <=> like[c].on
      BY <3>1
    <3>6. HeartOf(c, g)'
      BY <2>1, <2>4, <3>1, <3>3, <3>4, <3>5 DEF HeartOf
    <3>. QED
      BY <2>4, <3>6 DEF g
  <2>5. CASE d = c /\ LikeSucceeds(c)
    <3> HIDE DEF g
    <3>1. /\ like[c] # Idle /\ like[c].st = "done" /\ hearts' = hearts /\ like'[c] = Idle
          /\ liked' = liked
      BY <1>5, <2>5 DEF LikeSucceeds, page, server, LikeTypes
    <3>2. HeartOf(c, g)'
      BY <2>1, <2>5, <3>1 DEF HeartOf
    <3>. QED
      BY <2>5, <3>2 DEF g
  <2>6. CASE d = c /\ LikeFails(c)
    <3> HIDE DEF g
    <3>1. /\ like[c] # Idle /\ like[c].st = "sent" /\ hearts' = Flip(c, like[c].gen)
          /\ like'[c] = Idle /\ liked' = liked
      BY <1>3, <1>5, <2>6 DEF LikeFails, server, LikeTypes
    <3>2. like[c].gen = g /\ (<<c, g>> \in hearts <=> c \notin liked)
      BY <2>1, <2>6, <3>1 DEF HeartOf
    <3>3. <<c, g>> \in hearts' <=> <<c, g>> \notin hearts
      BY <3>1, <3>2 DEF Flip
    <3>4. HeartOf(c, g)'
      BY <3>1, <3>2, <3>3 DEF HeartOf
    <3>. QED
      BY <2>6, <3>4 DEF g
  <2>. QED
    BY <2>2, <2>3, <2>4, <2>5, <2>6
<1>7. \A P \in Copies : HeartsTrue(P)'
  BY <1>6 DEF HeartsTrue
<1>. QED
  BY <1>2, <1>3, <1>4, <1>7, CopiesKept

(* A like that is under way stays with its object when the pages change. *)
LEMMA RenderedHearts ==
    ASSUME LikeTypes, NEW D \in Seq(CPage), HeartsTrue(D), like' = Rendered(D),
           UNCHANGED <<hearts, liked>>, NEW c \in Ids, NEW g, HeartOf(c, g)
    PROVE  HeartOf(c, g)'
<1>1. CASE like[c] = Idle
  <2>1. like'[c] = Idle
    BY <1>1, RenderedFacts
  <2>. QED
    BY <1>1, <2>1 DEF HeartOf
<1>2. CASE like[c] # Idle
  <2>1. /\ like'[c] # Idle /\ like'[c].st = like[c].st /\ like'[c].on = like[c].on
        /\ like'[c].gen = like[c].gen \/ (IsShown(c, D) /\ like'[c].gen = GenOf(c, D))
    BY <1>2, RenderedFacts
  <2>2. ASSUME IsShown(c, D) PROVE GenOf(c, D) = like[c].gen
    <3>1. PICK i \in DOMAIN D : c \in ToSet(D[i].ids) /\ GenOf(c, D) = D[i].gen
      BY <2>2, ShownOn
    <3>2. HeartOf(c, D[i].gen)
      BY <3>1 DEF HeartsTrue
    <3>. QED
      BY <1>2, <3>1, <3>2 DEF HeartOf
  <2>3. like'[c].gen = like[c].gen
    BY <2>1, <2>2
  <2>. QED
    BY <1>2, <2>1, <2>3 DEF HeartOf
<1>. QED
  BY <1>1, <1>2

(* A deletion takes its comment out of the pages, and keeps them. *)
LEMMA CalmClickDelete ==
    ASSUME Types, CalmInv, NEW c \in Ids, NEW s \in Slots, ClickDelete(c, s)
    PROVE  CalmInv'
<1> SUFFICES ASSUME calm' PROVE CopiesInv' /\ ObjectsInv' /\ DeletedInv'
  BY DEF CalmInv
<1> DEFINE W == Without(data, c)
<1>1. /\ IsShown(c, data) /\ dels[s] = Idle /\ data' = W /\ like' = Rendered(W)
      /\ dels' = [dels EXCEPT ![s] = [st |-> "sent", id |-> c, snap |-> data]]
      /\ UNCHANGED <<created, gone, liked, hearts>> /\ calm
  BY DEF ClickDelete, FreeSlot, server
<1>2. CopiesInv /\ ObjectsInv /\ DeletedInv
  BY <1>1 DEF CalmInv
<1>3. /\ LikeTypes /\ DelTypes /\ data \in Seq(CPage) /\ Copies \subseteq Seq(CPage) /\ data \in Copies
  BY CopiesType DEF Types, Copies
<1>4. /\ dels'[s] = [st |-> "sent", id |-> c, snap |-> data] /\ dels'[s] # Idle
      /\ \A t \in Slots : t # s => dels'[t] = dels[t]
  BY <1>1, <1>3 DEF DelTypes, Idle
<1>5. Pending' = Pending \cup {s} /\ s \notin Pending /\ \A t \in Pending : dels'[t] = dels[t]
  BY <1>1, <1>4 DEF Pending
<1>6. PendIds' = PendIds \cup {c}
  BY <1>4, <1>5 DEF PendIds
<1>7. Copies' = Copies \cup {W}
  BY <1>1, <1>4, <1>5 DEF Copies
<1>8. Listing' = Listing
  BY <1>1 DEF Listing
<1>9. /\ W \in Seq(CPage) /\ Len(W) = Len(data) /\ DOMAIN W = DOMAIN data
      /\ (W = <<>>) <=> (data = <<>>)
      /\ \A i \in DOMAIN data : /\ W[i].gen = data[i].gen /\ W[i].cur = data[i].cur
                                /\ W[i].last = data[i].last
                                /\ ToSet(W[i].ids) = ToSet(data[i].ids) \ {c}
                                /\ Desc(data[i].ids) => Desc(W[i].ids)
  BY <1>3, WithoutFacts
<1> HIDE DEF W
<1>10. data # <<>> /\ Ordered(data) /\ NextBelow(data, Listing) /\ HeartsTrue(data)
  BY <1>2, <1>3 DEF CopiesInv
<1>11. W # <<>> /\ Ordered(W) /\ NextBelow(W, Listing) /\ HeartsTrue(W)
  <2>1. W # <<>>
    BY <1>9, <1>10
  <2>2. Ordered(W)
    BY <1>9, <1>10 DEF Ordered
  <2>3. Last(W).cur = Last(data).cur /\ Last(W).last = Last(data).last
    BY <1>3, <1>9, <1>10, LastIn DEF Last
  <2>4. NextBelow(W, Listing)
    BY <1>9, <1>10, <2>3 DEF NextBelow
  <2>5. HeartsTrue(W)
    BY <1>9, <1>10 DEF HeartsTrue
  <2>. QED
    BY <2>1, <2>2, <2>4, <2>5
<1>12. \A P \in Copies' : P # <<>> /\ Ordered(P) /\ NextBelow(P, Listing) /\ HeartsTrue(P)
  BY <1>2, <1>7, <1>11 DEF CopiesInv
<1>13. ASSUME NEW P \in Copies' PROVE HeartsTrue(P)'
  <2> SUFFICES ASSUME NEW i \in DOMAIN P, NEW d \in ToSet(P[i].ids)
               PROVE  HeartOf(d, P[i].gen)'
    BY DEF HeartsTrue
  <2>1. HeartOf(d, P[i].gen) /\ d \in Ids
    BY <1>12 DEF HeartsTrue, Ordered
  <2>. QED
    BY <1>1, <1>3, <1>9, <1>11, <2>1, RenderedHearts
<1>14. CopiesInv'
  BY <1>8, <1>12, <1>13 DEF CopiesInv
<1>15. ObjectsInv'
  <2>1. ASSUME NEW P \in Copies PROVE SameObjects(W, P) /\ SameObjects(P, W)
    <3>1. SameObjects(data, P) /\ SameObjects(P, data)
      BY <1>2, <1>3 DEF ObjectsInv
    <3>2. ASSUME NEW i \in DOMAIN W, NEW j \in DOMAIN P, NEW e \in ToSet(W[i].ids) \cap ToSet(P[j].ids)
          PROVE  W[i].gen = P[j].gen
      <4>1. i \in DOMAIN data /\ W[i].gen = data[i].gen /\ e \in ToSet(data[i].ids) \cap ToSet(P[j].ids)
        BY <1>9
      <4>. QED
        BY <3>1, <4>1 DEF SameObjects
    <3>. QED
      BY <3>2 DEF SameObjects
  <2>2. SameObjects(W, W)
    <3>1. SameObjects(data, data)
      BY <1>2, <1>3 DEF ObjectsInv
    <3>2. ASSUME NEW i \in DOMAIN W, NEW j \in DOMAIN W, NEW e \in ToSet(W[i].ids) \cap ToSet(W[j].ids)
          PROVE  W[i].gen = W[j].gen
      <4>1. /\ i \in DOMAIN data /\ W[i].gen = data[i].gen
            /\ j \in DOMAIN data /\ W[j].gen = data[j].gen
            /\ e \in ToSet(data[i].ids) \cap ToSet(data[j].ids)
        BY <1>9
      <4>. QED
        BY <3>1, <4>1 DEF SameObjects
    <3>. QED
      BY <3>2 DEF SameObjects
  <2>. QED
    BY <1>2, <1>7, <2>1, <2>2 DEF ObjectsInv
<1>16. DeletedInv'
  <2>1. PICK j \in DOMAIN data : c \in ToSet(data[j].ids)
    BY <1>1, <1>3, ShownOn
  <2>2. c \notin gone /\ c \notin PendIds
    BY <1>2, <2>1 DEF DeletedInv
  <2>3. \A i \in DOMAIN data' : ToSet(data'[i].ids) \cap (gone' \cup PendIds') = {}
    BY <1>1, <1>2, <1>6, <1>9 DEF DeletedInv
  <2>4. \A t \in Pending : dels[t].id # c
    BY <2>2 DEF PendIds
  <2>5. dels'[s].id = c /\ dels'[s].st = "sent"
    BY <1>4
  <2>6. \A t, u \in Pending' : dels'[t].id = dels'[u].id => t = u
    BY <1>2, <1>5, <2>4, <2>5 DEF DeletedInv
  <2>7. \A t \in Pending' : dels'[t].st = "sent" => dels'[t].id \notin gone'
    BY <1>1, <1>2, <1>5, <2>2, <2>5 DEF DeletedInv
  <2>. QED
    BY <2>3, <2>6, <2>7 DEF DeletedInv
<1>. QED
  BY <1>14, <1>15, <1>16

(* The server deletes what the page does not show any more. *)
LEMMA CalmServeDelete ==
    ASSUME Types, CalmInv, NEW s \in Slots, ServeDelete(s)
    PROVE  CalmInv'
<1> SUFFICES ASSUME calm' PROVE CopiesInv' /\ ObjectsInv' /\ DeletedInv'
  BY DEF CalmInv
<1> DEFINE d == dels[s].id
           r == [dels[s] EXCEPT !.st = "done"]
<1>1. /\ dels[s] # Idle /\ dels[s].st = "sent" /\ gone' = gone \cup {d}
      /\ dels' = [dels EXCEPT ![s] = r]
      /\ UNCHANGED <<created, liked, data, hearts, like>> /\ calm
  BY DEF ServeDelete, page
<1>2. CopiesInv /\ ObjectsInv /\ DeletedInv
  BY <1>1 DEF CalmInv
<1>3. DelTypes /\ dels[s] \in DelRec /\ s \in Pending /\ created \in Nat
  BY <1>1, CopiesType DEF Types, ServerTypes, Pending
<1>4. dels'[s] = r /\ \A t \in Slots : t # s => dels'[t] = dels[t]
  BY <1>1, <1>3 DEF DelTypes
<1>5. r # Idle /\ r.st = "done" /\ r.id = dels[s].id /\ r.snap = dels[s].snap
  BY <1>3 DEF DelRec, Idle
<1> HIDE DEF r, d
<1>6. /\ Pending' = Pending
      /\ \A t \in Pending : dels'[t].id = dels[t].id /\ dels'[t].snap = dels[t].snap
      /\ \A t \in Pending : t # s => dels'[t].st = dels[t].st
  BY <1>1, <1>4, <1>5 DEF Pending
<1>7. PendIds' = PendIds /\ Copies' = Copies
  BY <1>1, <1>6 DEF PendIds, Copies
<1>8. Listing = Filter(Numbers(created), gone) /\ Listing' = Filter(Numbers(created), gone')
  BY <1>1 DEF Listing, Numbers
<1>9. MovedUp(Listing, Listing')
  BY <1>1, <1>3, <1>8, ListingDelete
<1>10. Listing' \in Seq(Nat) /\ Listing \in Seq(Nat)
  BY <1>3, <1>8, ListingFacts
<1>11. ASSUME NEW P \in Copies PROVE NextBelow(P, Listing')
  <2>0. P \in Seq(CPage) /\ P # <<>>
    BY <1>2, CopiesType DEF CopiesInv
  <2>1. Last(P).cur * PageSize \in Nat
    <3>1. Last(P).cur \in Nat
      <4>1. Last(P) \in CPage
        BY <2>0, LastIn
      <4>. QED
        BY <4>1 DEF CPage
    <3>. QED
      BY <3>1, Products
  <2> DEFINE b == Last(P).cur * PageSize
  <2> SUFFICES ASSUME Last(P).cur < Last(P).last, NEW i \in DOMAIN P, NEW c \in ToSet(P[i].ids),
                      NEW k \in 1..Len(Listing'), k > b
               PROVE  c > Listing'[k]
    BY DEF NextBelow
  <2>2. PICK j \in 1..Len(Listing) : k <= j /\ Listing'[k] = Listing[j]
    BY <1>9 DEF MovedUp
  <2>3. j > b
    BY <1>10, <2>1, <2>2
  <2>4. c > Listing[j]
    BY <1>2, <2>3 DEF CopiesInv, NextBelow
  <2>. QED
    BY <2>2, <2>4
<1>12. ASSUME NEW P, HeartsTrue(P) PROVE HeartsTrue(P)'
  BY <1>1, <1>12 DEF HeartsTrue, HeartOf
<1>13. CopiesInv' /\ ObjectsInv'
  BY <1>2, <1>7, <1>11, <1>12 DEF CopiesInv, ObjectsInv
<1>14. DeletedInv'
  <2>1. d \in PendIds
    BY <1>3 DEF PendIds, d
  <2>2. \A i \in DOMAIN data' : ToSet(data'[i].ids) \cap (gone' \cup PendIds') = {}
    BY <1>1, <1>2, <1>7, <2>1 DEF DeletedInv
  <2>3. \A t, u \in Pending' : dels'[t].id = dels'[u].id => t = u
    BY <1>2, <1>6 DEF DeletedInv
  <2>4. ASSUME NEW t \in Pending', dels'[t].st = "sent" PROVE dels'[t].id \notin gone'
    <3>1. t # s
      BY <1>4, <1>5, <2>4
    <3>2. dels[t].id # d
      BY <1>2, <1>3, <1>6, <3>1 DEF DeletedInv, d
    <3>. QED
      BY <1>1, <1>2, <1>6, <2>4, <3>1, <3>2 DEF DeletedInv
  <2>. QED
    BY <2>2, <2>3, <2>4 DEF DeletedInv
<1>. QED
  BY <1>13, <1>14

(* A deletion that ended keeps no copy. *)
LEMMA CalmDeleteSucceeds ==
    ASSUME Types, CalmInv, NEW s \in Slots, DeleteSucceeds(s)
    PROVE  CalmInv'
<1> SUFFICES ASSUME calm' PROVE CopiesInv' /\ ObjectsInv' /\ DeletedInv'
  BY DEF CalmInv
<1>1. /\ dels' = [dels EXCEPT ![s] = Idle] /\ calm
      /\ UNCHANGED <<created, gone, liked, data, hearts, like>>
  BY DEF DeleteSucceeds, page, server, ghosts
<1>2. CopiesInv /\ ObjectsInv /\ DeletedInv
  BY <1>1 DEF CalmInv
<1>3. Pending' = Pending \ {s} /\ \A t \in Pending' : dels'[t] = dels[t]
  BY <1>1 DEF Types, DelTypes, Pending
<1>4. Copies' \subseteq Copies /\ PendIds' \subseteq PendIds /\ Listing' = Listing
  BY <1>1, <1>3 DEF Copies, PendIds, Listing
<1>5. ASSUME NEW P, HeartsTrue(P) PROVE HeartsTrue(P)'
  BY <1>1, <1>5 DEF HeartsTrue, HeartOf
<1>6. CopiesInv' /\ ObjectsInv'
  BY <1>2, <1>4, <1>5, CopiesKept DEF CopiesInv
<1>7. DeletedInv'
  BY <1>1, <1>2, <1>3, <1>4 DEF DeletedInv
<1>. QED
  BY <1>6, <1>7

(* An error puts the copy back, which shows the comment again. *)
LEMMA CalmDeleteFails ==
    ASSUME Types, CalmInv, NEW s \in Slots, DeleteFails(s)
    PROVE  CalmInv'
<1> SUFFICES ASSUME calm' PROVE CopiesInv' /\ ObjectsInv' /\ DeletedInv'
  BY DEF CalmInv
<1> DEFINE Q == dels[s].snap
           d == dels[s].id
<1>1. /\ dels[s] # Idle /\ data' = Q /\ dels' = [dels EXCEPT ![s] = Idle] /\ like' = Rendered(Q)
      /\ UNCHANGED <<created, gone, liked, hearts>>
      /\ calm /\ dels[s].st = "sent" /\ data = Without(Q, d)
  BY DEF DeleteFails, server
<1>2. CopiesInv /\ ObjectsInv /\ DeletedInv
  BY <1>1 DEF CalmInv
<1>3. s \in Pending /\ LikeTypes /\ Copies \subseteq Seq(CPage)
  BY <1>1, CopiesType DEF Pending, Types
<1>4. Pending' = Pending \ {s} /\ \A t \in Pending' : dels'[t] = dels[t]
  BY <1>1 DEF Types, DelTypes, Pending
<1>5. Q \in Copies /\ Q \in Seq(CPage)
  BY <1>3 DEF Copies
<1>6. Copies' \subseteq Copies /\ PendIds' \subseteq PendIds /\ Listing' = Listing
  BY <1>1, <1>3, <1>4 DEF Copies, PendIds, Listing
<1>7. d \notin PendIds'
  BY <1>2, <1>3, <1>4 DEF DeletedInv, PendIds
<1>8. d \notin gone
  BY <1>1, <1>2, <1>3 DEF DeletedInv
<1>9. ASSUME NEW P \in Copies PROVE HeartsTrue(P)'
  <2> SUFFICES ASSUME NEW i \in DOMAIN P, NEW c \in ToSet(P[i].ids)
               PROVE  HeartOf(c, P[i].gen)'
    BY DEF HeartsTrue
  <2>1. HeartOf(c, P[i].gen) /\ c \in Ids /\ HeartsTrue(Q)
    BY <1>2, <1>5 DEF CopiesInv, HeartsTrue, Ordered
  <2> HIDE DEF Q
  <2>. QED
    BY <1>1, <1>3, <1>5, <2>1, RenderedHearts
<1>10. CopiesInv' /\ ObjectsInv'
  BY <1>2, <1>6, <1>9, CopiesKept
<1>11. DeletedInv'
  <2> HIDE DEF Q, d
  <2>1. DOMAIN data = DOMAIN Q /\ \A i \in DOMAIN Q : ToSet(data[i].ids) = ToSet(Q[i].ids) \ {d}
    BY <1>1, <1>5, WithoutFacts
  <2>2. \A i \in DOMAIN Q : ToSet(Q[i].ids) \cap (gone \cup PendIds') = {}
    BY <1>2, <1>6, <1>7, <1>8, <2>1 DEF DeletedInv
  <2>. QED
    BY <1>1, <1>2, <1>4, <2>2 DEF DeletedInv
<1>. QED
  BY <1>10, <1>11

(* The comments of a page are above those at later positions. *)
LEMMA PageAbove ==
    ASSUME NEW L \in Seq(Nat), Desc(L), NEW i \in Nat \ {0}, NEW c \in ToSet(IdsOf(L, i)),
           NEW k \in 1..Len(L), k > i * PageSize
    PROVE  c > L[k]
<1>1. PICK m \in 1..Len(L) : m <= i * PageSize /\ c = L[m]
  BY PageFacts
<1>2. i * PageSize \in Nat
  BY Products
<1>3. m < k
  BY <1>1, <1>2
<1>. QED
  BY <1>1, <1>3 DEF Desc

(* A page is above the pages after it. *)
LEMMA PageOrder ==
    ASSUME NEW L \in Seq(Nat), Desc(L), NEW i \in Nat \ {0}, NEW j \in Nat \ {0}, i < j,
           NEW c \in ToSet(IdsOf(L, i)), NEW d \in ToSet(IdsOf(L, j))
    PROVE  c > d
<1>1. PICK k \in 1..Len(L) : (j - 1) * PageSize < k /\ d = L[k]
  BY PageFacts
<1>2. i * PageSize \in Nat /\ (j - 1) * PageSize \in Nat /\ i * PageSize <= (j - 1) * PageSize
  <2>1. j - 1 \in Nat /\ i <= j - 1
    OBVIOUS
  <2>. QED
    BY <2>1, Products
<1>3. k > i * PageSize
  BY <1>1, <1>2
<1>. QED
  BY <1>1, <1>3, PageAbove

(* The comments of a page are in the listing. *)
LEMMA PageInListing ==
    ASSUME NEW L \in Seq(Nat), Desc(L), NEW p \in Nat \ {0}
    PROVE  ToSet(IdsOf(L, p)) \subseteq ToSet(L)
<1> SUFFICES ASSUME NEW c \in ToSet(IdsOf(L, p)) PROVE c \in ToSet(L)
  OBVIOUS
<1>1. PICK k \in 1..Len(L) : c = L[k]
  BY PageFacts
<1>. QED
  BY <1>1 DEF ToSet

(* The page f as page p of the listing. *)
IsPage(f, L, p) == f.ids = IdsOf(L, p) /\ f.cur = CurOf(L, p) /\ f.last = LastOf(L, p)

(* Pages that were read together. *)
LEMMA AllPages ==
    ASSUME NEW L \in Seq(Nat), Desc(L), ToSet(L) \subseteq Ids, NEW F \in Seq(CPage), F # <<>>,
           \A i \in DOMAIN F : IsPage(F[i], L, i)
    PROVE  Ordered(F) /\ NextBelow(F, L)
<1>0. \A i \in DOMAIN F : i \in Nat \ {0}
  OBVIOUS
<1>1. Ordered(F)
  <2>1. ASSUME NEW i \in DOMAIN F PROVE Desc(F[i].ids) /\ ToSet(F[i].ids) \subseteq Ids
    <3>1. F[i].ids = IdsOf(L, i) /\ i \in Nat \ {0}
      BY <1>0 DEF IsPage
    <3>2. Desc(IdsOf(L, i)) /\ ToSet(IdsOf(L, i)) \subseteq ToSet(L)
      BY <3>1, PageFacts, PageInListing
    <3>. QED
      BY <3>1, <3>2
  <2>2. ASSUME NEW i \in DOMAIN F, NEW j \in DOMAIN F, i < j,
               NEW c \in ToSet(F[i].ids), NEW d \in ToSet(F[j].ids)
        PROVE  c > d
    BY <1>0, <2>2, PageOrder DEF IsPage
  <2>. QED
    BY <2>1, <2>2 DEF Ordered
<1>2. NextBelow(F, L)
  <2> DEFINE n == Len(F)
  <2>1. n \in DOMAIN F /\ n \in Nat \ {0} /\ Last(F) = F[n]
    BY LastIn DEF Last
  <2> SUFFICES ASSUME Last(F).cur < Last(F).last, NEW i \in DOMAIN F, NEW c \in ToSet(F[i].ids),
                      NEW k \in 1..Len(L), k > Last(F).cur * PageSize
               PROVE  c > L[k]
    BY DEF NextBelow
  <2>2. Last(F).cur = n
    <3>1. Last(F).cur = CurOf(L, n) /\ Last(F).last = LastOf(L, n)
      BY <2>1 DEF IsPage
    <3>2. CurOf(L, n) < LastOf(L, n)
      BY <3>1
    <3> HIDE DEF n
    <3>. QED
      BY <2>1, <3>1, <3>2, PageFacts
  <2>3. i \in Nat \ {0} /\ i <= n
    OBVIOUS
  <2> HIDE DEF n
  <2>4. i * PageSize \in Nat /\ n * PageSize \in Nat /\ i * PageSize <= n * PageSize
    BY <2>1, <2>3, Products
  <2>5. k > i * PageSize
    BY <2>2, <2>4
  <2>6. c \in ToSet(IdsOf(L, i))
    BY DEF IsPage
  <2>. QED
    BY <2>3, <2>5, <2>6, PageAbove
<1>. QED
  BY <1>1, <1>2

(* A page more, read after the others. *)
LEMMA OnePageMore ==
    ASSUME NEW L \in Seq(Nat), Desc(L), ToSet(L) \subseteq Ids,
           NEW P \in Seq(CPage), P # <<>>, Ordered(P), NextBelow(P, L), Last(P).cur < Last(P).last,
           NEW E \in Seq(CPage), Len(E) = Len(P) + 1, \A i \in 1..Len(P) : E[i] = P[i],
           IsPage(E[Len(P) + 1], L, Last(P).cur + 1)
    PROVE  Ordered(E) /\ NextBelow(E, L)
<1> DEFINE n == Len(P)
           f == E[n + 1]
           q == Last(P).cur + 1
<1>0. /\ n \in Nat /\ DOMAIN P = 1..n /\ DOMAIN E = 1..(n + 1) /\ q \in Nat \ {0} /\ Last(P).cur = q - 1
      /\ Last(P).cur \in Nat
  <2>1. Last(P) \in CPage
    BY LastIn
  <2>2. Last(P).cur \in Nat
    BY <2>1 DEF CPage
  <2>. QED
    BY <2>2
<1>1. IsPage(f, L, q)
  OBVIOUS
<1> HIDE DEF f, q, n
<1>2. \A i \in DOMAIN E : (i \in DOMAIN P /\ E[i] = P[i]) \/ (i = n + 1 /\ E[i] = f)
  BY <1>0 DEF f, n
<1>3. ASSUME NEW i \in DOMAIN P, NEW c \in ToSet(P[i].ids), NEW d \in ToSet(f.ids)
      PROVE  c > d
  <2>1. PICK k \in 1..Len(L) : (q - 1) * PageSize < k /\ d = L[k]
    BY <1>0, <1>1, PageFacts DEF IsPage
  <2>2. k > Last(P).cur * PageSize
    <3>1. (q - 1) * PageSize \in Nat
      <4>1. q - 1 \in Nat
        BY <1>0
      <4>. QED
        BY <4>1, Products
    <3>. QED
      BY <1>0, <2>1, <3>1
  <2>. QED
    BY <2>1, <2>2 DEF NextBelow
<1>4. Desc(f.ids) /\ ToSet(f.ids) \subseteq Ids
  BY <1>0, <1>1, PageFacts, PageInListing DEF IsPage
<1>5. Ordered(E)
  <2>1. \A i \in DOMAIN E : Desc(E[i].ids) /\ ToSet(E[i].ids) \subseteq Ids
    BY <1>2, <1>4 DEF Ordered
  <2>2. ASSUME NEW i \in DOMAIN E, NEW j \in DOMAIN E, i < j,
               NEW c \in ToSet(E[i].ids), NEW d \in ToSet(E[j].ids)
        PROVE  c > d
    <3>1. i \in DOMAIN P /\ E[i] = P[i]
      BY <1>0, <1>2, <2>2
    <3>2. CASE j \in DOMAIN P /\ E[j] = P[j]
      BY <2>2, <3>1, <3>2 DEF Ordered
    <3>3. CASE E[j] = f
      BY <1>3, <3>1, <3>3
    <3>. QED
      BY <1>2, <3>2, <3>3
  <2>. QED
    BY <2>1, <2>2 DEF Ordered
<1>6. NextBelow(E, L)
  <2>1. Last(E) = f
    BY DEF Last, f, n
  <2> SUFFICES ASSUME f.cur < f.last, NEW i \in DOMAIN E, NEW c \in ToSet(E[i].ids),
                      NEW k \in 1..Len(L), k > f.cur * PageSize
               PROVE  c > L[k]
    BY <2>1 DEF NextBelow
  <2>2. f.cur = q
    BY <1>0, <1>1, PageFacts DEF IsPage
  <2>3. k > q * PageSize /\ q * PageSize \in Nat
    BY <1>0, <2>2, Products
  <2>4. CASE i \in DOMAIN P /\ E[i] = P[i]
    <3>1. Last(P).cur * PageSize \in Nat /\ Last(P).cur * PageSize <= q * PageSize
      <4>1. Last(P).cur <= q
        BY <1>0
      <4>. QED
        BY <1>0, <4>1, Products
    <3>2. k > Last(P).cur * PageSize
      BY <2>3, <3>1
    <3>. QED
      BY <2>4, <3>2 DEF NextBelow
  <2>5. CASE E[i] = f
    BY <1>0, <1>1, <2>3, <2>5, PageAbove DEF IsPage
  <2>. QED
    BY <1>2, <2>4, <2>5
<1>. QED
  BY <1>5, <1>6

(* The pages with one more. *)
LEMMA ConcatOne ==
    ASSUME NEW s \in Seq(CPage), NEW t \in Seq(CPage), Len(t) = 1
    PROVE  /\ Len(s \o t) = Len(s) + 1 /\ \A i \in 1..Len(s) : (s \o t)[i] = s[i]
           /\ (s \o t)[Len(s) + 1] = t[1]
<1> DEFINE r == s \o t
           m == Len(s)
<1>1. m \in Nat /\ Len(t) \in Nat
  OBVIOUS
<1>2. Len(r) = m + Len(t)
  BY ConcatProperties
<1>3. \A i \in 1..m : r[i] = s[i]
  OBVIOUS
<1>4. \A i \in 1..Len(t) : r[m + i] = t[i]
  <2> SUFFICES ASSUME NEW i \in 1..Len(t) PROVE r[m + i] = t[i]
    OBVIOUS
  <2>1. m + i \in 1..(m + Len(t)) /\ ~(m + i <= m) /\ (m + i) - m = i
    BY <1>1
  <2>. QED
    BY <2>1, ConcatProperties
<1>5. 1 \in 1..Len(t)
  BY <1>1
<1> HIDE DEF r, m
<1>6. Len(r) = m + 1 /\ r[m + 1] = t[1]
  BY <1>1, <1>2, <1>4, <1>5
<1>. QED
  BY <1>3, <1>6 DEF r, m

(* A load that ends without having been disturbed: what it makes of the pages. *)
LEMMA DoneClean ==
    ASSUME Types, CleanInv, NEW gen \in Gens, Done(gen), fetch.clean
    PROVE  /\ fetch.kind \in {"all", "next"}
           /\ Pending' = {} /\ Listing' = Listing /\ UNCHANGED <<created, gone, liked>>
           /\ \A c \in Ids : like'[c] = Idle
           /\ data' \in Seq(CPage) /\ data' # <<>>
           /\ fetch.kind = "all" => \A i \in DOMAIN data' : /\ IsPage(data'[i], Listing, i)
                                                            /\ data'[i].gen = gen
           /\ fetch.kind = "next" =>
                 /\ HasNextPage /\ fetch.base = data /\ Len(data') = Len(data) + 1
                 /\ \A i \in 1..Len(data) : data'[i] = data[i]
                 /\ IsPage(data'[Len(data) + 1], Listing, Last(data).cur + 1)
                 /\ data'[Len(data) + 1].gen = gen
           /\ \A i \in DOMAIN fetch.got : fetch.got[i].liked = ToSet(fetch.got[i].ids) \cap liked
           /\ fetch.kind = "all" => /\ DOMAIN data' = DOMAIN fetch.got
                                    /\ \A i \in DOMAIN data' : data'[i].ids = fetch.got[i].ids
           /\ fetch.kind = "next" => /\ 1 \in DOMAIN fetch.got
                                     /\ data'[Len(data) + 1].ids = fetch.got[1].ids
<1> DEFINE got == fetch.got
           F == FreshOf(got, gen)
           L == Listing
<1>1. /\ fetch # NoFetch /\ Complete
      /\ data' = (IF fetch.kind = "all" THEN F ELSE fetch.base \o F)
      /\ like' = Rendered(data') /\ UNCHANGED <<created, gone, liked, dels>>
  BY DEF Done, server
<1>2. fetch.kind \in {"all", "next"} /\ got \in Seq(FPage) /\ got # <<>> /\ fetch.base \in Seq(CPage)
  BY <1>1 DEF Types, FetchTypes, FetchRec, Complete
<1>3. NothingPending
  BY <1>2 DEF CleanInv
<1>4. Pending' = {} /\ Listing' = Listing
  BY <1>1, <1>3 DEF NothingPending, Pending, Listing
<1>5. F \in Seq(CPage) /\ Len(F) = Len(got) /\ Len(got) \in Nat \ {0}
  BY <1>2, FreshType, LastIn
<1>6. \A i \in DOMAIN got : /\ F[i].ids = got[i].ids /\ F[i].gen = gen
                            /\ F[i].cur = got[i].cur /\ F[i].last = got[i].last
  BY DEF FreshOf
<1>7. DOMAIN F = DOMAIN got /\ DOMAIN got = 1..Len(got) /\ 1 \in DOMAIN got
  BY <1>2, <1>5
<1>8. ASSUME NEW p, NEW i \in DOMAIN got, got[i] = Page(p)
      PROVE  IsPage(F[i], L, p) /\ got[i].liked = ToSet(got[i].ids) \cap liked
  BY <1>6, <1>8, PageIs DEF IsPage
<1> HIDE DEF F, got, L
<1>9. data' \in Seq(CPage) /\ data' # <<>>
  <2>1. data' \in Seq(CPage)
    BY <1>1, <1>2, <1>5
  <2>2. Len(data') # 0
    BY <1>1, <1>2, <1>5
  <2>. QED
    BY <2>1, <2>2
<1>10. \A c \in Ids : like'[c] = Idle
  BY <1>1, <1>3, <1>9, RenderedFacts DEF NothingPending, Types
<1>11. CASE fetch.kind = "all"
  <2>1. \A i \in DOMAIN got : got[i] = Page(i)
    BY <1>11 DEF CleanInv, got
  <2>2. data' = F
    BY <1>1, <1>11
  <2>3. \A i \in DOMAIN got : IsPage(F[i], L, i) /\ got[i].liked = ToSet(got[i].ids) \cap liked
    BY <1>8, <2>1
  <2>. QED
    BY <1>1, <1>4, <1>6, <1>7, <1>9, <1>10, <1>11, <2>2, <2>3 DEF got, L
<1>12. CASE fetch.kind = "next"
  <2>1. /\ fetch.base = data /\ HasNextPage
        /\ got = <<Page(Last(data).cur + 1)>>
    BY <1>2, <1>12 DEF CleanInv, got
  <2>2. Len(got) = 1 /\ got[1] = Page(Last(data).cur + 1)
    BY <2>1
  <2>3. data' = data \o F /\ data \in Seq(CPage)
    BY <1>1, <1>2, <1>12, <2>1
  <2>4. /\ Len(data') = Len(data) + 1 /\ \A i \in 1..Len(data) : data'[i] = data[i]
        /\ data'[Len(data) + 1] = F[1]
    <3>1. Len(F) = 1
      BY <1>5, <2>2
    <3>. QED
      BY <1>5, <2>3, <3>1, ConcatOne
  <2>5. IsPage(F[1], L, Last(data).cur + 1) /\ got[1].liked = ToSet(got[1].ids) \cap liked
    BY <1>7, <1>8, <2>2
  <2>6. \A i \in DOMAIN got : i = 1
    BY <1>7, <2>2
  <2>7. F[1].gen = gen /\ F[1].ids = got[1].ids
    BY <1>6, <1>7
  <2>8. /\ HasNextPage /\ fetch.base = data /\ Len(data') = Len(data) + 1
        /\ \A i \in 1..Len(data) : data'[i] = data[i]
        /\ IsPage(data'[Len(data) + 1], Listing, Last(data).cur + 1)
        /\ data'[Len(data) + 1].gen = gen /\ data'[Len(data) + 1].ids = got[1].ids
        /\ 1 \in DOMAIN got
    BY <1>7, <2>1, <2>4, <2>5, <2>7 DEF L
  <2>9. \A i \in DOMAIN got : got[i].liked = ToSet(got[i].ids) \cap liked
    BY <2>5, <2>6
  <2>. QED
    BY <1>1, <1>4, <1>9, <1>10, <1>12, <2>8, <2>9 DEF got
<1>. QED
  BY <1>2, <1>11, <1>12

(* The hearts of the objects it made, and of those that were there. *)
LEMMA DoneHearts ==
    ASSUME Types, NEW gen \in Gens, Done(gen),
           \A i \in DOMAIN fetch.got : fetch.got[i].liked = ToSet(fetch.got[i].ids) \cap liked
    PROVE  /\ \A i \in DOMAIN fetch.got : \A c \in ToSet(fetch.got[i].ids) :
                 <<c, gen>> \in hearts' <=> c \in liked
           /\ \A c, g : g # gen /\ (\E j \in DOMAIN data' : g = data'[j].gen)
                          => (<<c, g>> \in hearts' <=> <<c, g>> \in hearts)
<1> DEFINE old == {h \in hearts : h[2] \in UsedGens(data') \ {gen}}
           new == UNION {(fetch.got[i].liked \cap Hearts) \X {gen} : i \in DOMAIN fetch.got}
<1>1. hearts' = old \cup new /\ liked \subseteq Hearts
  BY DEF Done, Types, ServerTypes
<1>2. \A c, g : <<c, g>> \in new
                  <=> g = gen /\ \E i \in DOMAIN fetch.got : c \in fetch.got[i].liked \cap Hearts
  OBVIOUS
<1>3. \A c, g : <<c, g>> \in old <=> <<c, g>> \in hearts /\ g \in UsedGens(data') /\ g # gen
  OBVIOUS
<1> HIDE DEF old, new
<1>4. \A j \in DOMAIN data' : data'[j].gen \in UsedGens(data')
  BY DEF UsedGens
<1>5. ASSUME NEW i \in DOMAIN fetch.got, NEW c \in ToSet(fetch.got[i].ids)
      PROVE  <<c, gen>> \in hearts' <=> c \in liked
  BY <1>1, <1>2, <1>3
<1>6. ASSUME NEW c, NEW g, g # gen, NEW j \in DOMAIN data', g = data'[j].gen
      PROVE  <<c, g>> \in hearts' <=> <<c, g>> \in hearts
  BY <1>1, <1>2, <1>3, <1>4, <1>6
<1>. QED
  BY <1>5, <1>6

(* A load that ends leaves the pages in agreement with the server, or says that they
   may not be. *)
LEMMA CalmDone ==
    ASSUME Types, CleanInv, CalmInv, NEW gen \in Gens, Done(gen)
    PROVE  CalmInv'
<1> SUFFICES ASSUME calm' PROVE CopiesInv' /\ ObjectsInv' /\ DeletedInv'
  BY DEF CalmInv
<1> DEFINE D == data'
           L == Listing
           n == Len(data)
<1>1. fetch.clean /\ (fetch.kind = "all" \/ calm) /\ gen \notin UsedGens(fetch.base)
  BY DEF Done
<1>2. /\ fetch.kind \in {"all", "next"}
      /\ Pending' = {} /\ Listing' = Listing /\ UNCHANGED <<created, gone, liked>>
      /\ \A c \in Ids : like'[c] = Idle
      /\ D \in Seq(CPage) /\ D # <<>>
      /\ \A i \in DOMAIN fetch.got : fetch.got[i].liked = ToSet(fetch.got[i].ids) \cap liked
  BY <1>1, DoneClean
<1>3. /\ L \in Seq(Nat) /\ Desc(L) /\ ToSet(L) \subseteq Ids /\ ToSet(L) \cap gone = {}
  BY ListingNow, CommentsAssumption DEF Types, ServerTypes, Ids
<1>4. Copies' = {D} /\ PendIds' = {}
  BY <1>2 DEF Copies, PendIds
<1>5. /\ \A i \in DOMAIN fetch.got : \A c \in ToSet(fetch.got[i].ids) :
            <<c, gen>> \in hearts' <=> c \in liked
      /\ \A c, g : g # gen /\ (\E j \in DOMAIN D : g = D[j].gen)
                     => (<<c, g>> \in hearts' <=> <<c, g>> \in hearts)
  BY <1>2, DoneHearts
<1> HIDE DEF D, L, n
<1>6. /\ Ordered(D) /\ NextBelow(D, L)
      /\ \A i \in DOMAIN D : ToSet(D[i].ids) \cap gone = {}
      /\ \A i \in DOMAIN D : \A c \in ToSet(D[i].ids) : <<c, D[i].gen>> \in hearts' <=> c \in liked
      /\ SameObjects(D, D)
  <2>1. CASE fetch.kind = "all"
    <3>1. /\ \A i \in DOMAIN D : IsPage(D[i], L, i) /\ D[i].gen = gen /\ D[i].ids = fetch.got[i].ids
          /\ DOMAIN D = DOMAIN fetch.got
      BY <1>1, <2>1, DoneClean DEF D, L
    <3>2. Ordered(D) /\ NextBelow(D, L)
      BY <1>2, <1>3, <3>1, AllPages
    <3>3. ASSUME NEW i \in DOMAIN D PROVE ToSet(D[i].ids) \cap gone = {}
      <4>1. i \in Nat \ {0}
        BY <1>2
      <4>2. ToSet(D[i].ids) \subseteq ToSet(L)
        BY <1>3, <3>1, <4>1, PageInListing DEF IsPage
      <4>. QED
        BY <1>3, <4>2
    <3>4. \A i \in DOMAIN D : \A c \in ToSet(D[i].ids) : <<c, D[i].gen>> \in hearts' <=> c \in liked
      BY <1>5, <3>1
    <3>5. SameObjects(D, D)
      BY <3>1 DEF SameObjects
    <3>. QED
      BY <3>2, <3>3, <3>4, <3>5
  <2>2. CASE fetch.kind = "next"
    <3>1. /\ HasNextPage /\ fetch.base = data /\ Len(D) = n + 1
          /\ \A i \in 1..n : D[i] = data[i]
          /\ IsPage(D[n + 1], L, Last(data).cur + 1)
          /\ D[n + 1].gen = gen
          /\ 1 \in DOMAIN fetch.got /\ D[n + 1].ids = fetch.got[1].ids
      BY <1>1, <2>2, DoneClean DEF D, L, n
    <3>2. CopiesInv /\ ObjectsInv /\ DeletedInv /\ data \in Copies
      BY <1>1, <2>2 DEF CalmInv, Copies
    <3>3. /\ data # <<>> /\ Ordered(data) /\ NextBelow(data, L) /\ HeartsTrue(data)
          /\ SameObjects(data, data)
      BY <3>2 DEF CopiesInv, ObjectsInv, L
    <3>4. data \in Seq(CPage) /\ Last(data).cur < Last(data).last /\ DOMAIN data = 1..n /\ n \in Nat
      BY <3>1 DEF Types, HasNextPage, n
    <3>5. Ordered(D) /\ NextBelow(D, L)
      BY <1>2, <1>3, <3>1, <3>3, <3>4, OnePageMore DEF n
    <3>6. \A i \in DOMAIN D : i \in Nat \ {0} /\ ((i \in DOMAIN data /\ D[i] = data[i]) \/ i = n + 1)
      BY <1>2, <3>1, <3>4
    <3>7. ToSet(D[n + 1].ids) \cap gone = {}
      <4>1. Last(data) \in CPage
        BY <3>3, <3>4, LastIn
      <4>2. Last(data).cur + 1 \in Nat \ {0}
        <5>1. Last(data).cur \in Nat
          BY <4>1 DEF CPage
        <5>. QED
          BY <5>1
      <4>3. ToSet(D[n + 1].ids) \subseteq ToSet(L)
        BY <1>3, <3>1, <4>2, PageInListing DEF IsPage
      <4>. QED
        BY <1>3, <4>3
    <3>8. \A i \in DOMAIN D : ToSet(D[i].ids) \cap gone = {}
      BY <3>2, <3>6, <3>7 DEF DeletedInv
    <3>9. ASSUME NEW i \in DOMAIN D, NEW c \in ToSet(D[i].ids)
          PROVE  <<c, D[i].gen>> \in hearts' <=> c \in liked
      <4>1. CASE i \in DOMAIN data /\ D[i] = data[i]
        <5>1. HeartOf(c, data[i].gen) /\ c \in Ids
          BY <3>3, <3>9, <4>1 DEF HeartsTrue, Ordered
        <5>2. like[c] = Idle
          <6>1. NothingPending
            BY <1>1, <2>2 DEF CleanInv
          <6>. QED
            BY <5>1, <6>1 DEF NothingPending
        <5>3. <<c, data[i].gen>> \in hearts <=> c \in liked
          BY <5>1, <5>2 DEF HeartOf
        <5>4. data[i].gen # gen
          BY <1>1, <3>1, <4>1 DEF UsedGens
        <5>. QED
          BY <1>5, <4>1, <5>3, <5>4
      <4>2. CASE i = n + 1
        BY <1>5, <3>1, <3>9, <4>2
      <4>. QED
        BY <3>6, <4>1, <4>2
    <3>10. SameObjects(D, D)
      <4> SUFFICES ASSUME NEW i \in DOMAIN D, NEW j \in DOMAIN D,
                          NEW c \in ToSet(D[i].ids) \cap ToSet(D[j].ids)
                   PROVE  D[i].gen = D[j].gen
        BY DEF SameObjects
      <4>1. c \in Nat /\ i \in Nat /\ j \in Nat
        BY <3>5, <3>6, CommentsAssumption DEF Ordered, Ids
      <4>2. ~(i < j) /\ ~(j < i)
        <5>1. i < j => c > c
          BY <3>5 DEF Ordered
        <5>2. j < i => c > c
          BY <3>5 DEF Ordered
        <5>. QED
          BY <4>1, <5>1, <5>2
      <4>3. i = j
        BY <4>1, <4>2
      <4>. QED
        BY <4>3
    <3>. QED
      BY <3>5, <3>8, <3>9, <3>10
  <2>. QED
    BY <1>2, <2>1, <2>2
<1>7. ASSUME NEW P, P = D PROVE HeartsTrue(P)'
  <2> SUFFICES ASSUME NEW i \in DOMAIN P, NEW c \in ToSet(P[i].ids)
               PROVE  HeartOf(c, P[i].gen)'
    BY DEF HeartsTrue
  <2>1. c \in Ids
    BY <1>6, <1>7 DEF Ordered
  <2>2. like'[c] = Idle /\ (<<c, P[i].gen>> \in hearts' <=> c \in liked')
    BY <1>2, <1>6, <1>7, <2>1
  <2>. QED
    BY <2>2 DEF HeartOf
<1>8. CopiesInv'
  <2> SUFFICES ASSUME NEW P \in Copies'
               PROVE  P # <<>> /\ Ordered(P) /\ NextBelow(P, Listing') /\ HeartsTrue(P)'
    BY DEF CopiesInv
  <2>1. P = D
    BY <1>4
  <2>. QED
    BY <1>2, <1>6, <1>7, <2>1 DEF L
<1>9. ObjectsInv'
  BY <1>4, <1>6 DEF ObjectsInv
<1>10. DeletedInv'
  BY <1>2, <1>4, <1>6 DEF DeletedInv, D
<1>. QED
  BY <1>8, <1>9, <1>10

(* Nothing is claimed before the first load. *)
LEMMA CalmInit == Init => CalmInv
  BY DEF Init, CalmInv

(* The buttons of a new mount know nothing of the likes under way, which stay the same. *)
LEMMA CalmRemount ==
    ASSUME Types, CalmInv, Remount
    PROVE  CalmInv'
<1>1. /\ UNCHANGED <<created, gone, liked, data, hearts, dels, calm>>
      /\ like' = [c \in Ids |-> Unmounted(like[c])]
  BY DEF Remount, server, page, ghosts
<1>2. UNCHANGED Pending /\ UNCHANGED PendIds /\ UNCHANGED Copies /\ UNCHANGED Listing
  BY <1>1 DEF Pending, PendIds, Copies, Listing
<1> SUFFICES ASSUME calm' PROVE CopiesInv' /\ ObjectsInv' /\ DeletedInv'
  BY DEF CalmInv
<1>3. CopiesInv /\ ObjectsInv /\ DeletedInv
  BY <1>1 DEF CalmInv
<1>4. DeletedInv'
  BY <1>1, <1>2, <1>3 DEF DeletedInv
<1>5. ASSUME NEW d \in Ids, NEW g, HeartOf(d, g) PROVE HeartOf(d, g)'
  <2>1. like'[d] = Unmounted(like[d])
    BY <1>1
  <2>2. CASE like[d] = Idle
    BY <1>1, <1>5, <2>1, <2>2 DEF HeartOf, Unmounted
  <2>3. CASE like[d] # Idle
    <3>1. like[d] \in LikeRec /\ like'[d] = [like[d] EXCEPT !.mounted = FALSE]
      BY <2>1, <2>3 DEF Types, LikeTypes, Unmounted
    <3>2. /\ like'[d] # Idle /\ like'[d].st = like[d].st /\ like'[d].on = like[d].on
          /\ like'[d].gen = like[d].gen
      BY <3>1 DEF LikeRec, Idle
    <3>. QED
      BY <1>1, <1>5, <2>3, <3>2 DEF HeartOf
  <2>. QED
    BY <2>2, <2>3
<1>6. ASSUME NEW P \in Copies, NEW i \in DOMAIN P, NEW d \in ToSet(P[i].ids)
      PROVE  HeartOf(d, P[i].gen)'
  BY <1>3, <1>5 DEF CopiesInv, HeartsTrue, Ordered
<1>7. \A P \in Copies : HeartsTrue(P)'
  BY <1>6 DEF HeartsTrue
<1>. QED
  BY <1>2, <1>3, <1>4, <1>7, CopiesKept

(* No two likes of a comment are under way while nothing happened that the page cannot
   know of. *)
OlderInv == calm => \A s \in Slots : older[s] = Idle

(* Nothing is claimed before the first load. *)
LEMMA OlderInit == Init => OlderInv
  BY DEF Init, OlderInv

(* A second like is such a thing, until a load after both. *)
LEMMA OlderStep == Types /\ CleanInv /\ OlderInv /\ [Next]_vars => OlderInv'
<1> SUFFICES ASSUME Types, CleanInv, OlderInv, [Next]_vars PROVE OlderInv'
  OBVIOUS
<1>1. CASE UNCHANGED older /\ (calm' => calm)
  BY <1>1 DEF OlderInv
<1>2. CASE FetchDone
  <2>1. PICK gen \in Gens : Done(gen)
    BY <1>2, FetchDoneIs
  <2>2. UNCHANGED older /\ fetch # NoFetch /\ (calm' => fetch.clean)
    BY <2>1 DEF Done
  <2>3. fetch.kind # "none"
    BY <2>2 DEF Types, FetchTypes
  <2>4. calm' => NothingPending
    BY <2>2, <2>3 DEF CleanInv
  <2>. QED
    BY <2>2, <2>4 DEF OlderInv, NothingPending
<1>3. ASSUME NEW c \in Ids, NEW s \in Slots, ClickLikeAgain(c, s) PROVE OlderInv'
  BY <1>3 DEF ClickLikeAgain, OlderInv
<1>4. ASSUME NEW s \in Slots, ServeOlder(s) \/ OlderSucceeds(s) \/ OlderFails(s) PROVE OlderInv'
  BY <1>4 DEF ServeOlder, OlderSucceeds, OlderFails, OlderInv, ghosts
<1>5. ASSUME NEW c \in Ids, ClickLike(c) \/ ServeLike(c) \/ LikeSucceeds(c) \/ LikeFails(c)
      PROVE  OlderInv'
  BY <1>1, <1>5 DEF ClickLike, ServeLike, LikeSucceeds, LikeFails, ghosts
<1>6. ASSUME NEW c \in Ids, NEW s \in Slots, ClickDelete(c, s) PROVE OlderInv'
  BY <1>1, <1>6 DEF ClickDelete
<1>7. ASSUME NEW s \in Slots, ServeDelete(s) \/ DeleteSucceeds(s) \/ DeleteFails(s) PROVE OlderInv'
  BY <1>1, <1>7 DEF ServeDelete, DeleteSucceeds, DeleteFails, ghosts
<1>8. ASSUME NEW s \in Slots, ClickPost(s) \/ ServePost(s) \/ PostSucceeds(s) \/ PostFails(s)
      PROVE  OlderInv'
  BY <1>1, <1>8 DEF ClickPost, ServePost, PostSucceeds, PostFails, ghosts
<1>9. CASE Load \/ FetchNextPage \/ GetComments \/ FetchFails \/ Remount \/ OtherPosts \/ OtherDeletes
  BY <1>1, <1>9 DEF Load, FetchNextPage, GetComments, FetchFails, Remount, OtherPosts, OtherDeletes,
                    requests, ghosts
<1>10. CASE UNCHANGED vars
  BY <1>1, <1>10 DEF vars, requests, ghosts
<1>. QED
  BY <1>2, <1>3, <1>4, <1>5, <1>6, <1>7, <1>8, <1>9, <1>10 DEF Next

(* Every step keeps the pages in order and the hearts true, or is not calm. *)
LEMMA CalmStep == Types /\ CleanInv /\ OlderInv /\ CalmInv /\ [Next]_vars => CalmInv'
<1> SUFFICES ASSUME Types, CleanInv, OlderInv, CalmInv, [Next]_vars PROVE CalmInv'
  OBVIOUS
<1>1. CASE UNCHANGED <<server, page, like, dels, calm>>
  BY <1>1, CalmFrame DEF server, page
<1>2. CASE UNCHANGED vars
  BY <1>1, <1>2 DEF vars, requests, ghosts
<1>3. CASE Load \/ FetchNextPage \/ GetComments \/ FetchFails
  BY <1>1, <1>3 DEF Load, FetchNextPage, GetComments, FetchFails, requests, ghosts
<1>4. ASSUME NEW s \in Slots, ClickPost(s) \/ PostSucceeds(s) \/ PostFails(s) PROVE CalmInv'
  BY <1>1, <1>4 DEF ClickPost, PostSucceeds, PostFails, ghosts
<1>5. ASSUME OtherPosts \/ OtherDeletes \/ \E s \in Slots : ServePost(s) PROVE CalmInv'
  BY <1>5 DEF ServePost, OtherPosts, OtherDeletes, CalmInv
<1>6. CASE FetchDone
  BY <1>6, FetchDoneIs, CalmDone
<1>7. ASSUME NEW c \in Ids, ClickLike(c) \/ ServeLike(c) \/ LikeSucceeds(c) \/ LikeFails(c)
      PROVE  CalmInv'
  BY <1>7, CalmLikes
<1>8. ASSUME NEW c \in Ids, NEW s \in Slots, ClickDelete(c, s) PROVE CalmInv'
  BY <1>8, CalmClickDelete
<1>9. ASSUME NEW s \in Slots, ServeDelete(s) \/ DeleteSucceeds(s) \/ DeleteFails(s) PROVE CalmInv'
  BY <1>9, CalmServeDelete, CalmDeleteSucceeds, CalmDeleteFails
<1>10. ASSUME NEW c \in Ids, NEW s \in Slots, ClickLikeAgain(c, s) PROVE CalmInv'
  BY <1>10 DEF ClickLikeAgain, CalmInv
<1>11. ASSUME NEW s \in Slots, ServeOlder(s) \/ OlderSucceeds(s) \/ OlderFails(s) PROVE CalmInv'
  BY <1>11 DEF ServeOlder, OlderSucceeds, OlderFails, OlderInv, CalmInv, ghosts
<1>12. CASE Remount
  BY <1>12, CalmRemount
<1>. QED
  BY <1>2, <1>3, <1>4, <1>5, <1>6, <1>7, <1>8, <1>9, <1>10, <1>11, <1>12 DEF Next

(* The texts of the pages one after the other. *)
LEMMA ShownFacts ==
    ASSUME data \in Seq(CPage)
    PROVE  /\ [i \in DOMAIN data |-> data[i].ids] \in Seq(Seq(Nat))
           /\ Shown \in Seq(Nat)
           /\ \A c : c \in ToSet(Shown) <=> \E i \in DOMAIN data : c \in ToSet(data[i].ids)
           /\ Ordered(data) => Desc(Shown)
<1> DEFINE ss == [i \in DOMAIN data |-> data[i].ids]
<1>1. \A i \in DOMAIN data : data[i] \in CPage
  OBVIOUS
<1>2. \A i \in DOMAIN data : data[i].ids \in Seq(Nat)
  BY <1>1 DEF CPage
<1>3. DOMAIN data = 1..Len(data) /\ Len(data) \in Nat
  OBVIOUS
<1>4. ss \in Seq(Seq(Nat)) /\ Len(ss) = Len(data)
  BY <1>2, <1>3
<1>5. \A i \in 1..Len(ss) : i \in DOMAIN data /\ ss[i] = data[i].ids
  BY <1>3, <1>4
<1>6. Shown = FlattenSeq(ss)
  BY DEF Shown
<1> HIDE DEF ss
<1>7. /\ FlattenSeq(ss) \in Seq(Nat)
      /\ \A c : c \in ToSet(FlattenSeq(ss)) <=> \E i \in 1..Len(ss) : c \in ToSet(ss[i])
      /\ Falling(ss) => Desc(FlattenSeq(ss))
  BY <1>4, FlattenFacts
<1>8. ASSUME Ordered(data) PROVE Falling(ss)
  BY <1>5, <1>8 DEF Ordered, Falling
<1>9. \A c : c \in ToSet(Shown) <=> \E i \in DOMAIN data : c \in ToSet(data[i].ids)
  BY <1>3, <1>4, <1>5, <1>6, <1>7
<1>. QED
  BY <1>4, <1>6, <1>7, <1>8, <1>9 DEF ss

(* The invariant makes the page the mirror of the server. *)
LEMMA CalmMirror == Types /\ CalmInv => Mirror
<1> SUFFICES ASSUME Types, CalmInv, calm, NothingPending
             PROVE  /\ \A c \in ToSet(Shown) :
                          c \notin gone /\ (<<c, GenOf(c, data)>> \in hearts <=> c \in liked)
                    /\ \A i \in 1..(Len(Shown) - 1) : Shown[i] > Shown[i + 1]
  BY DEF Mirror
<1>1. data \in Seq(CPage) /\ Ordered(data) /\ HeartsTrue(data) /\ DeletedInv
  BY DEF Types, CalmInv, CopiesInv, Copies
<1>2. /\ Shown \in Seq(Nat) /\ Desc(Shown)
      /\ \A c : c \in ToSet(Shown) <=> \E i \in DOMAIN data : c \in ToSet(data[i].ids)
  BY <1>1, ShownFacts
<1>3. ASSUME NEW c \in ToSet(Shown)
      PROVE  c \notin gone /\ (<<c, GenOf(c, data)>> \in hearts <=> c \in liked)
  <2>1. PICK j \in DOMAIN data : c \in ToSet(data[j].ids)
    BY <1>2
  <2>2. IsShown(c, data)
    BY <1>1, <2>1, ShownOn
  <2>3. PICK i \in DOMAIN data : c \in ToSet(data[i].ids) /\ GenOf(c, data) = data[i].gen
    BY <1>1, <2>2, ShownOn
  <2>4. HeartOf(c, data[i].gen) /\ c \in Ids
    BY <1>1, <2>3 DEF HeartsTrue, Ordered
  <2>5. like[c] = Idle
    BY <2>4 DEF NothingPending
  <2>6. c \notin gone
    BY <1>1, <2>1 DEF DeletedInv
  <2>. QED
    BY <2>3, <2>4, <2>5, <2>6 DEF HeartOf
<1>4. ASSUME NEW i \in 1..(Len(Shown) - 1) PROVE Shown[i] > Shown[i + 1]
  <2>1. i \in 1..Len(Shown) /\ i + 1 \in 1..Len(Shown) /\ i < i + 1
    BY <1>2
  <2>. QED
    BY <1>2, <2>1 DEF Desc
<1>. QED
  BY <1>3, <1>4

(* Optimistic likes and deletions leave the page in agreement with the server
   (CommentThread.tsx 116-165): when no request is under way, every comment shown exists, in
   the server's order, once, with the heart the server has; for any number of comments, pages
   and requests at a time.  Nothing is claimed (calm), until the next full load that nothing
   disturbs, after an answer that was lost; a post, by this user or another, or another user's
   deletion; a load that ran across a change; two likes of one comment that overlapped; and a
   deletion that failed after another change of the pages. *)
THEOREM PageMirrorsServer == Spec => []Mirror
<1> DEFINE Inv == Types /\ CleanInv /\ OlderInv /\ CalmInv
<1>1. Init => Inv
  BY TypesInit, CleanInit, OlderInit, CalmInit
<1>2. Inv /\ [Next]_vars => Inv'
  BY TypesStep, CleanStep, OlderStep, CalmStep
<1>3. Inv => Mirror
  BY CalmMirror
<1> HIDE DEF Inv
<1>. QED
  BY <1>1, <1>2, <1>3, PTL DEF Spec

-----------------------------------------------------------------------------
(* The pages while this user has deleted nothing since they were loaded. *)

(* Page i is page i of the listing, but for what is being deleted. *)
Within(P, L) ==
    \A i \in DOMAIN P : /\ P[i].cur = CurOf(L, i) /\ P[i].last = LastOf(L, i)
                        /\ ToSet(P[i].ids) \subseteq ToSet(IdsOf(L, i))
Covers(P, X, L) == \A i \in DOMAIN P : ToSet(IdsOf(L, i)) \subseteq ToSet(P[i].ids) \cup X
(* A copy has the comment it is kept for where the listing has it. *)
PutsBack(d, L) ==
    \A i \in DOMAIN d.snap : d.id \in ToSet(IdsOf(L, i)) => d.id \in ToSet(d.snap[i].ids)
FullInv ==
    calm /\ ~cut =>
        /\ \A P \in Copies : Within(P, Listing)
        /\ Covers(data, PendIds, Listing)
        /\ \A s \in Pending : dels[s].st = "sent" /\ PutsBack(dels[s], Listing)

(* Nothing is claimed before the first load. *)
LEMMA FullInit == Init => FullInv
  BY DEF Init, FullInv

(* What is taken out of the pages is being deleted. *)
LEMMA FullClickDelete ==
    ASSUME Types, CalmInv, FullInv, NEW c \in Ids, NEW s \in Slots, ClickDelete(c, s)
    PROVE  FullInv'
<1> SUFFICES ASSUME calm', ~cut'
             PROVE  /\ \A P \in Copies' : Within(P, Listing')
                    /\ Covers(data', PendIds', Listing')
                    /\ \A t \in Pending' : dels'[t].st = "sent" /\ PutsBack(dels'[t], Listing')
  BY DEF FullInv
<1> DEFINE W == Without(data, c)
           L == Listing
<1>1. /\ IsShown(c, data) /\ dels[s] = Idle /\ data' = W
      /\ dels' = [dels EXCEPT ![s] = [st |-> "sent", id |-> c, snap |-> data]]
      /\ UNCHANGED <<created, gone>> /\ calm /\ ~cut
  BY DEF ClickDelete, FreeSlot, server
<1>2. DelTypes /\ data \in Seq(CPage) /\ data \in Copies /\ DeletedInv
  BY <1>1 DEF Types, Copies, CalmInv
<1>3. /\ \A P \in Copies : Within(P, L)
      /\ Covers(data, PendIds, L)
      /\ \A t \in Pending : dels[t].st = "sent" /\ PutsBack(dels[t], L)
  BY <1>1 DEF FullInv
<1>4. /\ dels'[s] = [st |-> "sent", id |-> c, snap |-> data] /\ dels'[s] # Idle
      /\ \A t \in Slots : t # s => dels'[t] = dels[t]
  BY <1>1, <1>2 DEF DelTypes, Idle
<1>5. Pending' = Pending \cup {s} /\ s \notin Pending /\ \A t \in Pending : dels'[t] = dels[t]
  BY <1>1, <1>4 DEF Pending
<1>6. PendIds' = PendIds \cup {c}
  BY <1>4, <1>5 DEF PendIds
<1>7. Copies' = Copies \cup {W}
  BY <1>1, <1>4, <1>5 DEF Copies
<1>8. Listing' = L
  BY <1>1 DEF Listing
<1>9. /\ W \in Seq(CPage) /\ Len(W) = Len(data) /\ DOMAIN W = DOMAIN data
      /\ (W = <<>>) <=> (data = <<>>)
      /\ \A i \in DOMAIN data : /\ W[i].gen = data[i].gen /\ W[i].cur = data[i].cur
                                /\ W[i].last = data[i].last
                                /\ ToSet(W[i].ids) = ToSet(data[i].ids) \ {c}
                                /\ Desc(data[i].ids) => Desc(W[i].ids)
  BY <1>2, WithoutFacts
<1> HIDE DEF W, L
<1>10. Within(W, L)
  BY <1>2, <1>3, <1>9 DEF Within
<1>11. Covers(W, PendIds', L)
  BY <1>3, <1>6, <1>9 DEF Covers
<1>12. PutsBack(dels'[s], L)
  <2>1. c \notin PendIds
    <3>1. PICK j \in DOMAIN data : c \in ToSet(data[j].ids)
      BY <1>1, <1>2, ShownOn
    <3>. QED
      BY <1>2, <3>1 DEF DeletedInv
  <2>2. \A i \in DOMAIN data : c \in ToSet(IdsOf(L, i)) => c \in ToSet(data[i].ids)
    BY <1>3, <2>1 DEF Covers
  <2>3. dels'[s].id = c /\ dels'[s].snap = data
    BY <1>4
  <2>. QED
    BY <2>2, <2>3 DEF PutsBack
<1>13. dels'[s].st = "sent"
  BY <1>4
<1>. QED
  BY <1>1, <1>3, <1>5, <1>7, <1>8, <1>10, <1>11, <1>12, <1>13

(* What is put back was there. *)
LEMMA FullDeleteFails ==
    ASSUME Types, CalmInv, FullInv, NEW s \in Slots, DeleteFails(s)
    PROVE  FullInv'
<1> SUFFICES ASSUME calm', ~cut'
             PROVE  /\ \A P \in Copies' : Within(P, Listing')
                    /\ Covers(data', PendIds', Listing')
                    /\ \A t \in Pending' : dels'[t].st = "sent" /\ PutsBack(dels'[t], Listing')
  BY DEF FullInv
<1> DEFINE Q == dels[s].snap
           d == dels[s].id
           L == Listing
<1>1. /\ dels[s] # Idle /\ data' = Q /\ dels' = [dels EXCEPT ![s] = Idle]
      /\ UNCHANGED <<created, gone>> /\ calm /\ ~cut /\ data = Without(Q, d)
  BY DEF DeleteFails, server
<1>2. /\ \A P \in Copies : Within(P, L)
      /\ Covers(data, PendIds, L)
      /\ \A t \in Pending : dels[t].st = "sent" /\ PutsBack(dels[t], L)
  BY <1>1 DEF FullInv
<1>3. s \in Pending /\ Copies \subseteq Seq(CPage)
  BY <1>1, CopiesType DEF Pending
<1>4. Pending' = Pending \ {s} /\ \A t \in Pending' : dels'[t] = dels[t]
  BY <1>1 DEF Types, DelTypes, Pending
<1>5. Q \in Copies /\ Q \in Seq(CPage)
  BY <1>3 DEF Copies
<1>6. Copies' \subseteq Copies /\ Listing' = L
  BY <1>1, <1>3, <1>4 DEF Copies, Listing
<1>7. PendIds \subseteq PendIds' \cup {d}
  <2>1. ASSUME NEW t \in Pending, t # s PROVE dels[t].id \in PendIds'
    <3>1. t \in Pending' /\ dels'[t] = dels[t]
      BY <1>4, <2>1
    <3>. QED
      BY <3>1 DEF PendIds
  <2>. QED
    BY <2>1 DEF PendIds
<1>8. PutsBack(dels[s], L)
  BY <1>2, <1>3
<1>9. \A i \in DOMAIN Q : d \in ToSet(IdsOf(L, i)) => d \in ToSet(Q[i].ids)
  BY <1>8 DEF PutsBack
<1> HIDE DEF Q, d, L
<1>10. DOMAIN data = DOMAIN Q /\ \A i \in DOMAIN Q : ToSet(data[i].ids) = ToSet(Q[i].ids) \ {d}
  BY <1>1, <1>5, WithoutFacts
<1>11. Covers(Q, PendIds', L)
  BY <1>2, <1>7, <1>9, <1>10 DEF Covers
<1>. QED
  BY <1>1, <1>2, <1>4, <1>6, <1>11

(* A load that was not disturbed makes the first pages, or the next one. *)
LEMMA FullDone ==
    ASSUME Types, CleanInv, FullInv, NEW gen \in Gens, Done(gen)
    PROVE  FullInv'
<1> SUFFICES ASSUME calm', ~cut'
             PROVE  /\ \A P \in Copies' : Within(P, Listing')
                    /\ Covers(data', PendIds', Listing')
                    /\ \A t \in Pending' : dels'[t].st = "sent" /\ PutsBack(dels'[t], Listing')
  BY DEF FullInv
<1> DEFINE D == data'
           L == Listing
           n == Len(data)
<1>1. fetch.clean /\ (fetch.kind = "all" \/ (calm /\ ~cut))
  BY DEF Done
<1>2. fetch.kind \in {"all", "next"} /\ Pending' = {} /\ Listing' = L /\ D \in Seq(CPage)
  BY <1>1, DoneClean
<1>3. Copies' = {D}
  BY <1>2 DEF Copies
<1> HIDE DEF D, L, n
<1>4. \A i \in DOMAIN D : /\ D[i].cur = CurOf(L, i) /\ D[i].last = LastOf(L, i)
                          /\ ToSet(D[i].ids) \subseteq ToSet(IdsOf(L, i))
                          /\ ToSet(IdsOf(L, i)) \subseteq ToSet(D[i].ids) \cup PendIds'
  <2>1. CASE fetch.kind = "all"
    <3>1. \A i \in DOMAIN D : IsPage(D[i], L, i)
      BY <1>1, <2>1, DoneClean DEF D, L
    <3>. QED
      BY <3>1 DEF IsPage
  <2>2. CASE fetch.kind = "next"
    <3>1. /\ HasNextPage /\ Len(D) = n + 1
          /\ \A i \in 1..n : D[i] = data[i]
          /\ IsPage(D[n + 1], L, Last(data).cur + 1)
      BY <1>1, <2>2, DoneClean DEF D, L, n
    <3>2. Within(data, L) /\ Covers(data, PendIds, L)
      BY <1>1, <2>2 DEF FullInv, Copies, L
    <3>3. PendIds = {}
      <4>1. NothingPending
        BY <1>1, <2>2 DEF CleanInv
      <4>. QED
        BY <4>1 DEF NothingPending, PendIds, Pending
    <3>4. data \in Seq(CPage) /\ data # <<>> /\ Last(data).cur < Last(data).last
      BY <3>1 DEF Types, HasNextPage
    <3>5. n \in DOMAIN data /\ n \in Nat \ {0} /\ DOMAIN data = 1..n /\ Last(data) = data[n]
      BY <3>4, LastIn DEF n, Last
    <3>6. Last(data).cur = n
      <4>1. Last(data).cur = CurOf(L, n) /\ Last(data).last = LastOf(L, n)
        BY <3>2, <3>5 DEF Within
      <4>2. L \in Seq(Nat) /\ Desc(L)
        BY ListingNow DEF Types, ServerTypes, L
      <4>. QED
        BY <3>4, <3>5, <4>1, <4>2, PageFacts
    <3>7. \A i \in DOMAIN D : (i \in DOMAIN data /\ D[i] = data[i]) \/ i = n + 1
      BY <1>2, <3>1, <3>5
    <3>8. IsPage(D[n + 1], L, n + 1)
      BY <3>1, <3>6
    <3>. QED
      BY <3>2, <3>3, <3>7, <3>8 DEF Within, Covers, IsPage
  <2>. QED
    BY <1>2, <2>1, <2>2
<1>5. Within(D, L) /\ Covers(D, PendIds', L)
  BY <1>4 DEF Within, Covers
<1>. QED
  BY <1>2, <1>3, <1>5 DEF D

(* Every step keeps the pages those of the listing, or cuts them. *)
LEMMA FullStep == Types /\ CleanInv /\ CalmInv /\ FullInv /\ [Next]_vars => FullInv'
<1> SUFFICES ASSUME Types, CleanInv, CalmInv, FullInv, [Next]_vars PROVE FullInv'
  OBVIOUS
<1>1. CASE UNCHANGED <<created, gone, data, dels, cut>> /\ (calm' => calm)
  <2>1. UNCHANGED Pending /\ UNCHANGED PendIds /\ UNCHANGED Copies /\ UNCHANGED Listing
    BY <1>1 DEF Pending, PendIds, Copies, Listing
  <2>. QED
    BY <1>1, <2>1 DEF FullInv
<1>2. CASE UNCHANGED vars
  BY <1>1, <1>2 DEF vars, requests, ghosts, server, page
<1>3. CASE Load \/ FetchNextPage \/ GetComments \/ FetchFails
  BY <1>1, <1>3 DEF Load, FetchNextPage, GetComments, FetchFails, requests, ghosts, server, page
<1>4. ASSUME NEW s \in Slots, ClickPost(s) \/ PostSucceeds(s) \/ PostFails(s) PROVE FullInv'
  BY <1>1, <1>4 DEF ClickPost, PostSucceeds, PostFails, ghosts, server, page
<1>5. ASSUME OtherPosts \/ OtherDeletes \/ \E s \in Slots : ServePost(s) PROVE FullInv'
  BY <1>5 DEF ServePost, OtherPosts, OtherDeletes, FullInv
<1>6. CASE FetchDone
  BY <1>6, FetchDoneIs, FullDone
<1>7. ASSUME NEW c \in Ids, ClickLike(c) \/ ServeLike(c) \/ LikeSucceeds(c) \/ LikeFails(c)
      PROVE  FullInv'
  <2>1. UNCHANGED <<created, gone, data, dels, cut>> /\ (calm' => calm)
    <3>1. CASE ClickLike(c)
      BY <3>1 DEF ClickLike, ghosts, server
    <3>2. CASE ServeLike(c)
      BY <3>2 DEF ServeLike, ghosts, page
    <3>3. CASE LikeSucceeds(c)
      BY <3>3 DEF LikeSucceeds, ghosts, server, page
    <3>4. CASE LikeFails(c)
      BY <3>4 DEF LikeFails, server
    <3>. QED
      BY <1>7, <3>1, <3>2, <3>3, <3>4
  <2>. QED
    BY <1>1, <2>1
<1>8. ASSUME NEW c \in Ids, NEW s \in Slots, ClickDelete(c, s) PROVE FullInv'
  BY <1>8, FullClickDelete
<1>9. ASSUME NEW s \in Slots, DeleteFails(s) PROVE FullInv'
  BY <1>9, FullDeleteFails
<1>10. ASSUME NEW s \in Slots, ServeDelete(s) PROVE FullInv'
  BY <1>10 DEF ServeDelete, FullInv
<1>11. ASSUME NEW s \in Slots, DeleteSucceeds(s) PROVE FullInv'
  <2>1. s \in Pending /\ dels[s].st = "done" /\ (calm' /\ ~cut' => calm /\ ~cut)
    BY <1>11 DEF DeleteSucceeds, Pending, ghosts
  <2>2. "done" # "sent"
    OBVIOUS
  <2>3. ~(calm /\ ~cut)
    BY <2>1, <2>2 DEF FullInv
  <2>. QED
    BY <2>1, <2>3 DEF FullInv
<1>12. ASSUME NEW c \in Ids, NEW s \in Slots, ClickLikeAgain(c, s) PROVE FullInv'
  BY <1>12 DEF ClickLikeAgain, FullInv
<1>13. ASSUME NEW s \in Slots, ServeOlder(s) \/ OlderSucceeds(s) \/ OlderFails(s) PROVE FullInv'
  BY <1>1, <1>13 DEF ServeOlder, OlderSucceeds, OlderFails, ghosts, server, page
<1>14. CASE Remount
  BY <1>1, <1>14 DEF Remount, ghosts, server, page
<1>. QED
  BY <1>2, <1>3, <1>4, <1>5, <1>6, <1>7, <1>8, <1>9, <1>10, <1>11, <1>12, <1>13, <1>14 DEF Next

(* A beginning and what follows it. *)
LEMMA SubSeqConcat ==
    ASSUME NEW L \in Seq(Nat), NEW a \in Nat, NEW b \in Nat, a <= b, b <= Len(L)
    PROVE  SubSeq(L, 1, a) \o SubSeq(L, a + 1, b) = SubSeq(L, 1, b)
<1> DEFINE s == SubSeq(L, 1, a)
           t == SubSeq(L, a + 1, b)
           r == SubSeq(L, 1, b)
<1>0. Len(L) \in Nat
  OBVIOUS
<1>1. s \in Seq(Nat) /\ Len(s) = a /\ \A i \in 1..a : s[i] = L[i]
  BY <1>0
<1>2. t \in Seq(Nat) /\ Len(t) = b - a /\ \A i \in 1..(b - a) : t[i] = L[a + i]
  BY <1>0
<1>3. r \in Seq(Nat) /\ Len(r) = b /\ \A i \in 1..b : r[i] = L[i]
  BY <1>0
<1> HIDE DEF s, t, r
<1>4. /\ s \o t \in Seq(Nat) /\ Len(s \o t) = Len(s) + Len(t)
      /\ \A i \in 1..(Len(s) + Len(t)) :
            (s \o t)[i] = IF i <= Len(s) THEN s[i] ELSE t[i - Len(s)]
  BY <1>1, <1>2, ConcatProperties, ZenonT(30)
<1>5. Len(s) + Len(t) = b
  BY <1>1, <1>2
<1>6. ASSUME NEW i \in 1..b PROVE (s \o t)[i] = r[i]
  <2>1. (s \o t)[i] = IF i <= a THEN s[i] ELSE t[i - a]
    BY <1>1, <1>4, <1>5
  <2>2. CASE i <= a
    <3>1. i \in 1..a /\ s[i] = L[i] /\ r[i] = L[i]
      BY <1>1, <1>3, <2>2
    <3>. QED
      BY <2>1, <2>2, <3>1
  <2>3. CASE ~(i <= a)
    <3>1. i - a \in 1..(b - a) /\ a + (i - a) = i
      BY <2>3
    <3>. QED
      BY <1>2, <1>3, <2>1, <2>3, <3>1
  <2>. QED
    BY <2>2, <2>3
<1> DEFINE u == s \o t
<1>7. u \in Seq(Nat) /\ Len(u) = b /\ \A i \in 1..b : u[i] = r[i]
  BY <1>4, <1>5, <1>6
<1> HIDE DEF u
<1>8. u = r
  BY <1>3, <1>7
<1>. QED
  BY <1>8 DEF u, s, t, r

(* The first pages of a listing are its beginning. *)
LEMMA FirstPages ==
    ASSUME NEW L \in Seq(Nat), Desc(L), NEW k \in Nat
    PROVE  FlattenSeq([i \in 1..k |-> IdsOf(L, i)]) = SubSeq(L, 1, UpTo(L, k))
<1> DEFINE pages(n) == [i \in 1..n |-> IdsOf(L, i)]
           P == {n \in Nat : FlattenSeq(pages(n)) = SubSeq(L, 1, UpTo(L, n))}
<1>0. Len(L) \in Nat /\ PageSize \in Nat \ {0}
  BY CommentsAssumption
<1>1. 0 \in P
  <2>1. pages(0) = <<>>
    OBVIOUS
  <2>2. UpTo(L, 0) = 0
    BY <1>0 DEF UpTo
  <2>3. SubSeq(L, 1, 0) = <<>>
    OBVIOUS
  <2>4. FlattenSeq(<<>>) = <<>>
    BY FlattenAppend
  <2> HIDE DEF pages
  <2>. QED
    BY <2>1, <2>2, <2>3, <2>4
<1>2. ASSUME NEW n \in Nat, n \in P PROVE n + 1 \in P
  <2> DEFINE x == IdsOf(L, n + 1)
             a == UpTo(L, n)
             b == UpTo(L, n + 1)
  <2>1. n + 1 \in Nat \ {0} /\ (n + 1) - 1 = n
    OBVIOUS
  <2>2. \A i \in 1..(n + 1) : IdsOf(L, i) \in Seq(Nat)
    BY PageFacts
  <2>3. pages(n) \in Seq(Seq(Nat)) /\ x \in Seq(Nat) /\ pages(n + 1) = Append(pages(n), x)
    <3>1. pages(n) \in Seq(Seq(Nat)) /\ Len(pages(n)) = n
      BY <2>2
    <3>2. x \in Seq(Nat)
      BY <2>1, <2>2
    <3>3. pages(n + 1) \in Seq(Seq(Nat)) /\ Len(pages(n + 1)) = n + 1
      BY <2>2
    <3> DEFINE f == Append(pages(n), x)
    <3>4. f \in Seq(Seq(Nat)) /\ Len(f) = n + 1
      BY <3>1, <3>2
    <3>5. ASSUME NEW i \in 1..(n + 1) PROVE pages(n + 1)[i] = f[i]
      <4>1. CASE i = n + 1
        <5>1. f[n + 1] = x
          <6> HIDE DEF pages, x
          <6>. QED
            BY <3>1, <3>2
        <5>. QED
          BY <4>1, <5>1
      <4>2. CASE i # n + 1
        <5>1. i \in 1..n
          BY <4>2
        <5>2. f[i] = pages(n)[i]
          <6> HIDE DEF pages, x
          <6>. QED
            BY <3>1, <3>2, <5>1
        <5>. QED
          BY <5>1, <5>2
      <4>. QED
        BY <4>1, <4>2
    <3> DEFINE g == pages(n + 1)
    <3> HIDE DEF f, g
    <3>6. g = f
      <4>1. g \in Seq(Seq(Nat)) /\ Len(g) = n + 1 /\ \A i \in 1..(n + 1) : g[i] = f[i]
        BY <3>3, <3>5 DEF g
      <4>. QED
        BY <3>4, <4>1
    <3>. QED
      BY <3>1, <3>2, <3>6 DEF f, g
  <2>4. FlattenSeq(pages(n)) = SubSeq(L, 1, a)
    BY <1>2
  <2> HIDE DEF pages
  <2>5. FlattenSeq(pages(n + 1)) = SubSeq(L, 1, a) \o x
    BY <2>3, <2>4, FlattenAppend
  <2>6. n * PageSize \in Nat /\ (n + 1) * PageSize = n * PageSize + PageSize
    BY Products
  <2>7. SubSeq(L, 1, a) \o x = SubSeq(L, 1, b)
    <3>1. CASE n * PageSize < Len(L)
      <4>1. a = n * PageSize /\ b \in Nat /\ a <= b /\ b <= Len(L)
        BY <1>0, <2>6, <3>1 DEF UpTo
      <4>2. x = SubSeq(L, a + 1, b)
        BY <2>1, <4>1 DEF IdsOf
      <4> HIDE DEF a, b, x
      <4>. QED
        BY <2>6, <4>1, <4>2, SubSeqConcat
    <3>2. CASE ~(n * PageSize < Len(L))
      <4>1. a = Len(L) /\ b = Len(L)
        BY <1>0, <2>6, <3>2 DEF UpTo
      <4>2. x = <<>>
        <5>1. x = SubSeq(L, n * PageSize + 1, Len(L))
          BY <2>1, <4>1 DEF IdsOf
        <5>2. n * PageSize + 1 > Len(L)
          BY <1>0, <2>6, <3>2
        <5> DEFINE m == n * PageSize + 1
        <5>3. m \in Nat
          BY <2>6
        <5> HIDE DEF m
        <5>4. SubSeq(L, m, Len(L)) = <<>>
          BY <1>0, <5>2, <5>3 DEF m
        <5>. QED
          BY <5>1, <5>4 DEF m
      <4>3. SubSeq(L, 1, Len(L)) \in Seq(Nat)
        BY <1>0
      <4>4. SubSeq(L, 1, Len(L)) \o <<>> = SubSeq(L, 1, Len(L))
        BY <4>3, ConcatEmptySeq
      <4> HIDE DEF a, b, x
      <4>. QED
        BY <4>1, <4>2, <4>4
    <3>. QED
      BY <3>1, <3>2
  <2>. QED
    BY <2>1, <2>5, <2>7
<1> HIDE DEF P
<1>3. Nat \subseteq P
  BY <1>1, <1>2, Induction
<1>. QED
  BY <1>3 DEF P

(* The last page ends with the listing. *)
LEMMA LastPageEnds ==
    ASSUME NEW L \in Seq(Nat), Desc(L), NEW n \in Nat \ {0}, ~(CurOf(L, n) < LastOf(L, n))
    PROVE  UpTo(L, n) = Len(L)
<1> DEFINE a == (n - 1) * PageSize
           x == Len(L) + PageSize - 1
           q == x \div PageSize
<1>0. Len(L) \in Nat /\ PageSize \in Nat \ {0}
  BY CommentsAssumption
<1>1. a \in Nat /\ n * PageSize = a + PageSize
  <2>1. n - 1 \in Nat /\ (n - 1) + 1 = n
    OBVIOUS
  <2>. QED
    BY <2>1, Products
<1>2. CASE IdsOf(L, n) = <<>>
  <2> SUFFICES ASSUME n * PageSize < Len(L) PROVE FALSE
    BY DEF UpTo
  <2>1. IdsOf(L, n) = SubSeq(L, a + 1, a + PageSize)
    BY <1>1 DEF IdsOf, UpTo
  <2> HIDE DEF a
  <2>2. a + 1 <= a + PageSize /\ a + PageSize <= Len(L)
    BY <1>0, <1>1
  <2>3. Len(SubSeq(L, a + 1, a + PageSize)) = PageSize
    BY <1>0, <1>1, <2>2
  <2>4. Len(<<>>) = 0
    OBVIOUS
  <2>. QED
    BY <1>0, <1>2, <2>1, <2>3, <2>4
<1>3. CASE IdsOf(L, n) # <<>>
  <2>1. CurOf(L, n) = n /\ LastOf(L, n) = q
    BY <1>3 DEF CurOf, LastOf
  <2>2. x \in Nat
    BY <1>0
  <2>3. q \in Nat /\ x = PageSize * q + (x % PageSize) /\ x % PageSize \in 0..(PageSize - 1)
    <3> HIDE DEF x
    <3>. QED
      BY <1>0, <2>2
  <2>4. q <= n
    <3> HIDE DEF q
    <3>. QED
      BY <2>1, <2>3
  <2> DEFINE z == q * PageSize
  <2>5. z \in Nat /\ n * PageSize \in Nat /\ z <= n * PageSize
    <3> HIDE DEF q
    <3>. QED
      BY <2>3, <2>4, Products
  <2>6. PageSize * q = z
    <3> HIDE DEF q
    <3>. QED
      BY <1>0, <2>3
  <2>7. Len(L) <= z
    <3> DEFINE y == x % PageSize
    <3>1. Len(L) + PageSize - 1 = z + y /\ y \in 0..(PageSize - 1)
      BY <2>3, <2>6
    <3> HIDE DEF y, z
    <3>. QED
      BY <1>0, <2>5, <3>1
  <2>8. ~(n * PageSize < Len(L))
    <3> HIDE DEF z
    <3>. QED
      BY <1>0, <2>5, <2>7
  <2>. QED
    BY <2>8 DEF UpTo
<1>. QED
  BY <1>2, <1>3

(* The invariants leave no gap. *)
LEMMA FullNoneSkipped == Types /\ CalmInv /\ FullInv => NoneSkipped
<1> SUFFICES ASSUME Types, CalmInv, FullInv, calm, NothingPending, ~cut
             PROVE  IsPrefix(Shown, Listing) /\ (HasNextPage \/ Shown = Listing)
  BY DEF NoneSkipped
<1> DEFINE L == Listing
           n == Len(data)
           u == UpTo(L, n)
<1>1. data \in Seq(CPage) /\ data # <<>> /\ Ordered(data)
  BY DEF Types, CalmInv, CopiesInv, Copies
<1>2. L \in Seq(Nat) /\ Desc(L)
  BY ListingNow DEF Types, ServerTypes
<1>3. PendIds = {}
  BY DEF NothingPending, PendIds, Pending
<1>4. Within(data, L) /\ Covers(data, {}, L)
  BY <1>3 DEF FullInv, Copies
<1>5. n \in Nat \ {0} /\ DOMAIN data = 1..n /\ Last(data) = data[n] /\ n \in DOMAIN data
  BY <1>1, LastIn DEF Last
<1> HIDE DEF L, n
<1>6. ASSUME NEW i \in 1..n PROVE data[i].ids = IdsOf(L, i)
  <2>1. data[i] \in CPage /\ i \in Nat \ {0}
    BY <1>1, <1>5
  <2>2. data[i].ids \in Seq(Nat)
    BY <2>1 DEF CPage
  <2>3. Desc(data[i].ids) /\ ToSet(data[i].ids) = ToSet(IdsOf(L, i))
    <3>1. Desc(data[i].ids)
      BY <1>1, <1>5 DEF Ordered
    <3>2. ToSet(data[i].ids) \subseteq ToSet(IdsOf(L, i))
      BY <1>4, <1>5 DEF Within
    <3>3. ToSet(IdsOf(L, i)) \subseteq ToSet(data[i].ids) \cup {}
      BY <1>4, <1>5 DEF Covers
    <3>. QED
      BY <3>1, <3>2, <3>3
  <2>4. IdsOf(L, i) \in Seq(Nat) /\ Desc(IdsOf(L, i))
    BY <1>2, <2>1, PageFacts
  <2>. QED
    BY <2>2, <2>3, <2>4, DescEqual
<1>7. [i \in DOMAIN data |-> data[i].ids] = [i \in 1..n |-> IdsOf(L, i)]
  BY <1>5, <1>6
<1>8. Shown = SubSeq(L, 1, u)
  BY <1>2, <1>5, <1>7, FirstPages DEF Shown
<1>9. u \in Nat /\ u <= Len(L) /\ Len(L) \in Nat
  <2>1. n * PageSize \in Nat
    BY <1>5, Products
  <2>. QED
    BY <1>2, <2>1 DEF UpTo
<1> HIDE DEF u
<1>10. Shown \in Seq(Nat) /\ Len(Shown) = u
  BY <1>2, <1>8, <1>9
<1>11. IsPrefix(Shown, L)
  <2>1. SubSeq(Shown, 1, Len(Shown)) = Shown
    BY <1>10
  <2>. QED
    BY <1>8, <1>9, <1>10, <2>1 DEF IsPrefix
<1>12. ASSUME ~HasNextPage PROVE Shown = L
  <2>1. ~(Last(data).cur < Last(data).last)
    BY <1>1, <1>12 DEF HasNextPage
  <2>2. Last(data).cur = CurOf(L, n) /\ Last(data).last = LastOf(L, n)
    BY <1>4, <1>5 DEF Within
  <2>3. u = Len(L)
    BY <1>2, <1>5, <2>1, <2>2, LastPageEnds DEF u
  <2>4. SubSeq(L, 1, Len(L)) = L
    BY <1>2
  <2>. QED
    BY <1>8, <2>3, <2>4
<1>. QED
  BY <1>11, <1>12 DEF L

(* Paging leaves no gap (CommentThread.tsx 26-42, meta.ts): in the same circumstances,
   as long as this user deleted nothing since the last full load, the page shows the
   first comments of the thread, and all of them when there is no next page; for any
   page size and any number of comments. *)
THEOREM PagingLeavesNoGap == Spec => []NoneSkipped
<1> DEFINE Inv == Types /\ CleanInv /\ OlderInv /\ CalmInv /\ FullInv
<1>1. Init => Inv
  BY TypesInit, CleanInit, OlderInit, CalmInit, FullInit
<1>2. Inv /\ [Next]_vars => Inv'
  BY TypesStep, CleanStep, OlderStep, CalmStep, FullStep
<1>3. Inv => NoneSkipped
  BY FullNoneSkipped
<1> HIDE DEF Inv
<1>. QED
  BY <1>1, <1>2, <1>3, PTL DEF Spec

=============================================================================
