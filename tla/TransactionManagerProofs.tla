---------------------- MODULE TransactionManagerProofs ----------------------
(***************************************************************************)
(* Theorems about TransactionManager, for every value of its constants.    *)
(*                                                                         *)
(* First what SumFunctionOnSet computes on a finite set, which the proofs  *)
(* about balances, stakes and payments use.  The sum is the value at S of  *)
(* a function defined by recursion on the subsets of S.  The induction     *)
(* over those subsets is the well-foundedness of strict inclusion on       *)
(* finite sets: a nonempty set of subsets has a minimal member             *)
(* (MinimalSubset).                                                        *)
(*                                                                         *)
(* Then the ledger, for any accounts, keys and amounts: what one transfer  *)
(* and one loop of payments do to the types, the policies of the accounts  *)
(* and the double entry.  Then the steps of the manager.                   *)
(***************************************************************************)
EXTENDS TransactionManager, Functions, FiniteSetTheorems, TLAPS

Pick(s) == CHOOSE x \in s : TRUE

(* g is the recursive function behind the sum of f over S. *)
IsSum(f, S, g) ==
    g = [s \in SUBSET S |-> IF s = {} THEN 0 ELSE f[Pick(s)] + g[s \ {Pick(s)}]]

-----------------------------------------------------------------------------
(* A nonempty set of subsets of a finite set has a minimal member. *)
LEMMA MinimalSubset ==
    ASSUME NEW S, IsFiniteSet(S), NEW B \in SUBSET (SUBSET S), B # {}
    PROVE  \E s \in B : \A t \in B : t \subseteq s => t = s
<1>1. IsWellFoundedOn(StrictSubsetOrdering(S), SUBSET S)
  BY FS_StrictSubsetOrderingWellFounded, FS_FiniteSubsetsOfFinite
<1>2. PICK s \in B : \A t \in B : <<t, s>> \notin StrictSubsetOrdering(S)
  BY <1>1, WFMin
<1>3. ASSUME NEW t \in B, t \subseteq s, t # s PROVE FALSE
  <2>1. <<t, s>> \in (SUBSET S) \X (SUBSET S)
    BY <1>3
  <2>2. <<t, s>> \in StrictSubsetOrdering(S)
    BY <1>3, <2>1 DEF StrictSubsetOrdering
  <2> QED BY <1>2, <2>2
<1> QED BY <1>3

(* Functions that sum over S and over a larger set agree on the subsets of S. *)
LEMMA SumsAgree ==
    ASSUME NEW f, NEW S, IsFiniteSet(S), NEW T, S \subseteq T,
           NEW g, IsSum(f, S, g), NEW h, IsSum(f, T, h)
    PROVE  \A s \in SUBSET S : g[s] = h[s]
<1> DEFINE Bad == {s \in SUBSET S : g[s] # h[s]}
<1> SUFFICES ASSUME Bad # {} PROVE FALSE
  OBVIOUS
<1>1. PICK s \in Bad : \A t \in Bad : t \subseteq s => t = s
  <2>1. Bad \in SUBSET (SUBSET S)
    OBVIOUS
  <2> HIDE DEF Bad
  <2> QED BY <2>1, MinimalSubset
<1>2. /\ g[s] = IF s = {} THEN 0 ELSE f[Pick(s)] + g[s \ {Pick(s)}]
      /\ h[s] = IF s = {} THEN 0 ELSE f[Pick(s)] + h[s \ {Pick(s)}]
  BY DEF IsSum
<1>3. s # {}
  BY <1>2
<1>4. Pick(s) \in s
  BY <1>3 DEF Pick
<1>5. s \ {Pick(s)} \notin Bad
  BY <1>1, <1>4
<1> QED BY <1>2, <1>3, <1>5

(* The recursion has a solution on every finite set. *)
LEMMA SumExists ==
    ASSUME NEW f, NEW S, IsFiniteSet(S)
    PROVE  \E g : IsSum(f, S, g)
<1> DEFINE Bad == {s \in SUBSET S : ~ \E g : IsSum(f, s, g)}
<1> SUFFICES ASSUME Bad # {} PROVE FALSE
  OBVIOUS
<1>1. PICK s \in Bad : \A t \in Bad : t \subseteq s => t = s
  <2>1. Bad \in SUBSET (SUBSET S)
    OBVIOUS
  <2> HIDE DEF Bad
  <2> QED BY <2>1, MinimalSubset
<1> DEFINE G(t) == CHOOSE g : IsSum(f, t, g)
           Rest(t) == t \ {Pick(t)}
           h == [t \in SUBSET s |->
                   IF t = {} THEN 0 ELSE f[Pick(t)] + G(Rest(t))[Rest(t)]]
<1>2. ASSUME NEW t \in SUBSET s, t # s PROVE IsSum(f, t, G(t)) /\ IsFiniteSet(t)
  <2>1. t \notin Bad
    BY <1>1, <1>2
  <2>2. \E g : IsSum(f, t, g)
    BY <2>1
  <2> QED BY <2>2, FS_Subset
<1>3. ASSUME NEW t \in SUBSET s, t # {}
      PROVE  Rest(t) \in SUBSET s /\ Rest(t) # s /\ Rest(t) \subseteq t
  BY <1>3 DEF Pick
<1>4. ASSUME NEW u \in SUBSET s, u # s PROVE h[u] = G(u)[u]
  <2>1. IsSum(f, u, G(u))
    BY <1>2, <1>4
  <2>2. G(u)[u] = IF u = {} THEN 0 ELSE f[Pick(u)] + G(u)[Rest(u)]
    <3> HIDE DEF G
    <3> QED BY <2>1 DEF IsSum
  <2>3. CASE u = {}
    BY <2>2, <2>3
  <2>4. CASE u # {}
    <3>1. Rest(u) \in SUBSET s /\ Rest(u) # s /\ Rest(u) \subseteq u
      BY <2>4, <1>3
    <3>2. IsSum(f, Rest(u), G(Rest(u))) /\ IsFiniteSet(Rest(u))
      BY <1>2, <3>1
    <3>3. G(Rest(u))[Rest(u)] = G(u)[Rest(u)]
      <4> HIDE DEF G, Rest
      <4> QED BY <2>1, <3>1, <3>2, SumsAgree
    <3> QED BY <2>2, <2>4, <3>3
  <2> QED BY <2>3, <2>4
<1>5. IsSum(f, s, h)
  <2> HIDE DEF G
  <2>1. \A t \in SUBSET s : t # {} => h[Rest(t)] = G(Rest(t))[Rest(t)]
    BY <1>3, <1>4
  <2> QED BY <2>1 DEF IsSum
<1> QED BY <1>5

-----------------------------------------------------------------------------
(* The recursive function of the sum over S, and its value at S. *)
SumOf(f, S) == CHOOSE g : IsSum(f, S, g)

(* SumFunctionOnSet is the value of that function. *)
LEMMA SumUnfold ==
    ASSUME NEW f, NEW S, IsFiniteSet(S)
    PROVE  IsSum(f, S, SumOf(f, S)) /\ SumFunctionOnSet(f, S) = SumOf(f, S)[S]
<1>1. IsSum(f, S, SumOf(f, S))
  BY SumExists DEF SumOf
<1>2. SumFunctionOnSet(f, S) = SumOf(f, S)[S]
  BY DEF SumFunctionOnSet, FoldFunctionOnSet, MapThenFoldSet, SumOf, IsSum, Pick
<1> QED BY <1>1, <1>2
(* The sum over a nonempty set is that of its picked element and the rest. *)
LEMMA SumPick ==
    ASSUME NEW f, NEW S, IsFiniteSet(S), S # {}
    PROVE  SumFunctionOnSet(f, S) = f[Pick(S)] + SumFunctionOnSet(f, S \ {Pick(S)})
<1> DEFINE R == S \ {Pick(S)}
<1>1. R \subseteq S /\ IsFiniteSet(R)
  BY FS_Subset
<1>2. IsSum(f, S, SumOf(f, S)) /\ SumFunctionOnSet(f, S) = SumOf(f, S)[S]
  BY SumUnfold
<1>3. IsSum(f, R, SumOf(f, R)) /\ SumFunctionOnSet(f, R) = SumOf(f, R)[R]
  BY <1>1, SumUnfold
<1>4. SumOf(f, R)[R] = SumOf(f, S)[R]
  <2> HIDE DEF R
  <2> QED BY <1>1, <1>2, <1>3, SumsAgree
<1>5. SumOf(f, S)[S] = f[Pick(S)] + SumOf(f, S)[R]
  BY <1>2 DEF IsSum
<1> QED BY <1>2, <1>3, <1>4, <1>5

(* The sum over no element. *)
LEMMA SumEmpty ==
    ASSUME NEW f
    PROVE  SumFunctionOnSet(f, {}) = 0
<1>1. IsSum(f, {}, SumOf(f, {})) /\ SumFunctionOnSet(f, {}) = SumOf(f, {})[{}]
  BY FS_EmptySet, SumUnfold
<1> QED BY <1>1 DEF IsSum

(* A sum of integers is an integer. *)
LEMMA SumInt ==
    ASSUME NEW f, NEW S, IsFiniteSet(S), \A x \in S : f[x] \in Int
    PROVE  SumFunctionOnSet(f, S) \in Int
<1> DEFINE Bad == {s \in SUBSET S : SumFunctionOnSet(f, s) \notin Int}
<1> SUFFICES ASSUME Bad # {} PROVE FALSE
  OBVIOUS
<1>1. PICK s \in Bad : \A t \in Bad : t \subseteq s => t = s
  <2>1. Bad \in SUBSET (SUBSET S)
    OBVIOUS
  <2> HIDE DEF Bad
  <2> QED BY <2>1, MinimalSubset
<1>2. s \subseteq S /\ IsFiniteSet(s)
  BY FS_Subset
<1>3. s # {}
  BY SumEmpty
<1>4. Pick(s) \in s
  BY <1>3 DEF Pick
<1>5. SumFunctionOnSet(f, s \ {Pick(s)}) \in Int
  BY <1>1, <1>2, <1>4
<1>6. SumFunctionOnSet(f, s) = f[Pick(s)] + SumFunctionOnSet(f, s \ {Pick(s)})
  BY <1>2, <1>3, SumPick
<1> QED BY <1>2, <1>4, <1>5, <1>6

(* Any element can be taken out first. *)
LEMMA SumRemove ==
    ASSUME NEW f, NEW S, IsFiniteSet(S), \A x \in S : f[x] \in Int, NEW e \in S
    PROVE  SumFunctionOnSet(f, S) = f[e] + SumFunctionOnSet(f, S \ {e})
<1> DEFINE Sum(s) == SumFunctionOnSet(f, s)
           Bad == {s \in SUBSET S : \E x \in s : Sum(s) # f[x] + Sum(s \ {x})}
<1> SUFFICES ASSUME Bad # {} PROVE FALSE
  OBVIOUS
<1>1. PICK s \in Bad : \A t \in Bad : t \subseteq s => t = s
  <2>1. Bad \in SUBSET (SUBSET S)
    OBVIOUS
  <2> HIDE DEF Bad
  <2> QED BY <2>1, MinimalSubset
<1>2. PICK x \in s : Sum(s) # f[x] + Sum(s \ {x})
  OBVIOUS
<1>3. s \subseteq S /\ IsFiniteSet(s)
  BY FS_Subset
<1> DEFINE p == Pick(s)
<1>4. p \in s /\ Sum(s) = f[p] + Sum(s \ {p})
  BY <1>2, <1>3, SumPick DEF Pick
<1>5. p # x
  BY <1>2, <1>4
<1>6. s \ {p} \notin Bad /\ s \ {x} \notin Bad
  BY <1>1, <1>2, <1>4
<1> HIDE DEF p
<1>7. Sum(s \ {p}) = f[x] + Sum((s \ {p}) \ {x})
  BY <1>2, <1>3, <1>5, <1>6
<1>8. Sum(s \ {x}) = f[p] + Sum((s \ {x}) \ {p})
  BY <1>3, <1>4, <1>5, <1>6
<1>9. (s \ {p}) \ {x} = (s \ {x}) \ {p}
  OBVIOUS
<1>10. Sum((s \ {p}) \ {x}) \in Int
  <2>1. (s \ {p}) \ {x} \in SUBSET S
    BY <1>3
  <2>2. IsFiniteSet((s \ {p}) \ {x})
    BY <2>1, FS_Subset
  <2> QED BY <2>1, <2>2, SumInt
<1>11. f[p] \in Int /\ f[x] \in Int
  BY <1>2, <1>3, <1>4
<1>12. Sum(s \ {x}) = f[p] + Sum((s \ {p}) \ {x})
  BY <1>8, <1>9
<1>13. Sum(s) = f[p] + (f[x] + Sum((s \ {p}) \ {x}))
  BY <1>4, <1>7 DEF p
<1>14. Sum(s) = f[x] + (f[p] + Sum((s \ {p}) \ {x}))
  BY <1>10, <1>11, <1>13
<1> QED BY <1>2, <1>12, <1>14

(* An element more adds its value. *)
THEOREM SumAdd ==
    ASSUME NEW f, NEW S, IsFiniteSet(S), \A x \in S : f[x] \in Int,
           NEW e, e \notin S, f[e] \in Int
    PROVE  SumFunctionOnSet(f, S \cup {e}) = SumFunctionOnSet(f, S) + f[e]
<1>1. IsFiniteSet(S \cup {e}) /\ (S \cup {e}) \ {e} = S
  BY FS_AddElement
<1>2. SumFunctionOnSet(f, S \cup {e}) = f[e] + SumFunctionOnSet(f, (S \cup {e}) \ {e})
  BY <1>1, SumRemove
<1>3. SumFunctionOnSet(f, S) \in Int
  BY SumInt
<1>4. SumFunctionOnSet(f, S \cup {e}) = f[e] + SumFunctionOnSet(f, S)
  BY <1>1, <1>2
<1> QED BY <1>3, <1>4

(* The sum depends only on the values of the elements. *)
THEOREM SumSame ==
    ASSUME NEW f, NEW g, NEW S, IsFiniteSet(S), \A x \in S : f[x] = g[x]
    PROVE  SumFunctionOnSet(f, S) = SumFunctionOnSet(g, S)
<1> DEFINE Bad == {s \in SUBSET S : SumFunctionOnSet(f, s) # SumFunctionOnSet(g, s)}
<1> SUFFICES ASSUME Bad # {} PROVE FALSE
  OBVIOUS
<1>1. PICK s \in Bad : \A t \in Bad : t \subseteq s => t = s
  <2>1. Bad \in SUBSET (SUBSET S)
    OBVIOUS
  <2> HIDE DEF Bad
  <2> QED BY <2>1, MinimalSubset
<1>2. s \subseteq S /\ IsFiniteSet(s)
  BY FS_Subset
<1>3. s # {}
  BY SumEmpty
<1>4. Pick(s) \in s
  BY <1>3 DEF Pick
<1>5. SumFunctionOnSet(f, s \ {Pick(s)}) = SumFunctionOnSet(g, s \ {Pick(s)})
  BY <1>1, <1>2, <1>4
<1>6. /\ SumFunctionOnSet(f, s) = f[Pick(s)] + SumFunctionOnSet(f, s \ {Pick(s)})
      /\ SumFunctionOnSet(g, s) = g[Pick(s)] + SumFunctionOnSet(g, s \ {Pick(s)})
  BY <1>2, <1>3, SumPick
<1> QED BY <1>2, <1>4, <1>5, <1>6
(* The sum over two disjoint sets. *)
THEOREM SumUnion ==
    ASSUME NEW f, NEW S, IsFiniteSet(S), NEW T, IsFiniteSet(T), S \cap T = {},
           \A x \in S \cup T : f[x] \in Int
    PROVE  SumFunctionOnSet(f, S \cup T) = SumFunctionOnSet(f, S) + SumFunctionOnSet(f, T)
<1> DEFINE Sum(s) == SumFunctionOnSet(f, s)
           Bad == {t \in SUBSET T : Sum(S \cup t) # Sum(S) + Sum(t)}
<1> SUFFICES ASSUME Bad # {} PROVE FALSE
  OBVIOUS
<1>1. PICK t \in Bad : \A u \in Bad : u \subseteq t => u = t
  <2>1. Bad \in SUBSET (SUBSET T)
    OBVIOUS
  <2> HIDE DEF Bad
  <2> QED BY <2>1, MinimalSubset
<1>2. t \subseteq T /\ IsFiniteSet(t)
  BY FS_Subset
<1>3. Sum(S) \in Int
  BY SumInt
<1>4. t # {}
  <2>1. Sum({}) = 0 /\ S \cup {} = S
    BY SumEmpty
  <2>2. Sum(S \cup {}) = Sum(S) + Sum({})
    BY <1>3, <2>1
  <2> QED BY <2>2
<1>5. PICK e : e \in t
  BY <1>4
<1> DEFINE u == t \ {e}
<1>6. u \subseteq T /\ IsFiniteSet(u) /\ e \notin u /\ t = u \cup {e}
  BY <1>2, <1>5, FS_RemoveElement
<1>7. u \notin Bad
  BY <1>1, <1>5, <1>6
<1> HIDE DEF u
<1>8. Sum(S \cup u) = Sum(S) + Sum(u)
  BY <1>6, <1>7
<1>9. IsFiniteSet(S \cup u) /\ e \notin S \cup u /\ S \cup t = (S \cup u) \cup {e}
  BY <1>2, <1>5, <1>6, FS_Union
<1>10. Sum((S \cup u) \cup {e}) = Sum(S \cup u) + f[e]
  BY <1>2, <1>5, <1>6, <1>9, SumAdd
<1>11. Sum(u \cup {e}) = Sum(u) + f[e]
  BY <1>2, <1>5, <1>6, SumAdd
<1>12. Sum(u) \in Int /\ f[e] \in Int
  BY <1>2, <1>5, <1>6, SumInt
<1>13. Sum(t) = Sum(u) + f[e] /\ Sum(S \cup t) = Sum(S \cup u) + f[e]
  BY <1>6, <1>9, <1>10, <1>11
<1>14. Sum(S \cup t) = Sum(S) + Sum(t)
  BY <1>3, <1>8, <1>12, <1>13
<1> QED BY <1>14

(* Naming the elements otherwise does not change the sum. *)
THEOREM SumReindex ==
    ASSUME NEW S, IsFiniteSet(S), NEW f, \A x \in S : f[x] \in Int,
           NEW h, \A x, y \in S : h[x] = h[y] => x = y,
           NEW g, \A x \in S : g[h[x]] = f[x]
    PROVE  SumFunctionOnSet(g, {h[x] : x \in S}) = SumFunctionOnSet(f, S)
<1> DEFINE Image(s) == {h[x] : x \in s}
           Bad == {s \in SUBSET S :
                     SumFunctionOnSet(g, Image(s)) # SumFunctionOnSet(f, s)}
<1> SUFFICES ASSUME Bad # {} PROVE FALSE
  OBVIOUS
<1>1. PICK s \in Bad : \A t \in Bad : t \subseteq s => t = s
  <2>1. Bad \in SUBSET (SUBSET S)
    OBVIOUS
  <2> HIDE DEF Bad
  <2> QED BY <2>1, MinimalSubset
<1>2. s \subseteq S /\ IsFiniteSet(s)
  BY FS_Subset
<1>3. s # {}
  <2>1. Image({}) = {}
    OBVIOUS
  <2>2. SumFunctionOnSet(g, Image({})) = SumFunctionOnSet(f, {})
    BY <2>1, SumEmpty
  <2> QED BY <2>2
<1>4. PICK e : e \in s
  BY <1>3
<1> DEFINE t == s \ {e}
<1>5. t \subseteq S /\ IsFiniteSet(t) /\ e \notin t /\ s = t \cup {e} /\ e \in S
  BY <1>2, <1>4, FS_RemoveElement
<1>6. t \notin Bad
  BY <1>1, <1>4, <1>5
<1> HIDE DEF t
<1>7. SumFunctionOnSet(g, Image(t)) = SumFunctionOnSet(f, t)
  BY <1>5, <1>6
<1>8. Image(s) = Image(t) \cup {h[e]} /\ h[e] \notin Image(t)
  BY <1>5
<1>9. IsFiniteSet(Image(t))
  <2>1. [x \in t |-> h[x]] \in Surjection(t, Image(t))
    BY DEF Surjection
  <2> QED BY <1>5, <2>1, FS_Surjection
<1>10. (\A y \in Image(t) : g[y] \in Int) /\ g[h[e]] = f[e] /\ f[e] \in Int
  BY <1>5
<1>11. SumFunctionOnSet(g, Image(t) \cup {h[e]}) = SumFunctionOnSet(g, Image(t)) + g[h[e]]
  <2> HIDE DEF Image
  <2> QED BY <1>8, <1>9, <1>10, SumAdd
<1>12. SumFunctionOnSet(f, t \cup {e}) = SumFunctionOnSet(f, t) + f[e]
  BY <1>5, SumAdd
<1>13. SumFunctionOnSet(g, Image(s)) = SumFunctionOnSet(f, s)
  <2> HIDE DEF Image
  <2> QED BY <1>5, <1>7, <1>8, <1>10, <1>11, <1>12
<1> QED BY <1>13

-----------------------------------------------------------------------------
(* AmountOf of a set of transfers. *)

(* No transfer, no amount. *)
LEMMA AmountOfNone == AmountOf({}) = 0
<1>1. DOMAIN [t \in {} |-> t.amount] = {}
  OBVIOUS
<1> QED BY <1>1, SumEmpty DEF AmountOf, SumFunction

(* Two sets of transfers that have none in common. *)
LEMMA AmountOfUnion ==
    ASSUME NEW S \in SUBSET Transfer, IsFiniteSet(S),
           NEW T \in SUBSET Transfer, IsFiniteSet(T), S \cap T = {}
    PROVE  AmountOf(S \cup T) = AmountOf(S) + AmountOf(T)
<1> DEFINE f == [t \in S \cup T |-> t.amount]
           g == [t \in S |-> t.amount]
           h == [t \in T |-> t.amount]
<1>1. \A t \in S \cup T : f[t] \in Int
  BY DEF Transfer
<1>2. /\ AmountOf(S \cup T) = SumFunctionOnSet(f, S \cup T)
      /\ AmountOf(S) = SumFunctionOnSet(g, S)
      /\ AmountOf(T) = SumFunctionOnSet(h, T)
  BY DEF AmountOf, SumFunction
<1>3. (\A t \in S : f[t] = g[t]) /\ (\A t \in T : f[t] = h[t])
  OBVIOUS
<1> HIDE DEF f, g, h
<1>4. SumFunctionOnSet(f, S) = SumFunctionOnSet(g, S)
  BY <1>3, SumSame
<1>5. SumFunctionOnSet(f, T) = SumFunctionOnSet(h, T)
  BY <1>3, SumSame
<1>6. SumFunctionOnSet(f, S \cup T) = SumFunctionOnSet(f, S) + SumFunctionOnSet(f, T)
  BY <1>1, SumUnion
<1> QED BY <1>2, <1>4, <1>5, <1>6

(* The amount of a set of transfers is an integer, that of one transfer its
   amount. *)
LEMMA AmountOfInt ==
    ASSUME NEW S \in SUBSET Transfer, IsFiniteSet(S)
    PROVE  AmountOf(S) \in Int
<1> DEFINE f == [t \in S |-> t.amount]
<1>1. AmountOf(S) = SumFunctionOnSet(f, S)
  BY DEF AmountOf, SumFunction
<1>2. \A t \in S : f[t] \in Int
  BY DEF Transfer
<1> HIDE DEF f
<1> QED BY <1>1, <1>2, SumInt

(* The amount of a single transfer. *)
LEMMA AmountOfOne ==
    ASSUME NEW t \in Transfer
    PROVE  AmountOf({t}) = t.amount
<1> DEFINE f == [s \in {t} |-> s.amount]
<1>0. DOMAIN f = {t}
  OBVIOUS
<1>1. AmountOf({t}) = SumFunctionOnSet(f, {t})
  BY <1>0 DEF AmountOf, SumFunction
<1>2. f[t] = t.amount /\ t.amount \in Int
  BY DEF Transfer
<1> HIDE DEF f
<1>3. SumFunctionOnSet(f, {t}) = f[t] + SumFunctionOnSet(f, {t} \ {t})
  <2>1. IsFiniteSet({t}) /\ t \in {t} /\ \A x \in {t} : f[x] \in Int
    BY <1>2, FS_Singleton
  <2> QED BY <2>1, SumRemove
<1>4. {t} \ {t} = {}
  OBVIOUS
<1>5. SumFunctionOnSet(f, {t}) = f[t] + 0
  BY <1>3, <1>4, SumEmpty
<1> QED BY <1>1, <1>2, <1>5
-----------------------------------------------------------------------------
(* Double entry. *)

Received(a) == {t \in transfers : t.to = a}
Sent(a) == {t \in transfers : t.from = a}
Moves(a) == {t \in transfers : a \in {t.from, t.to}}

BooksInv == LedgerTypeOK /\ IsFiniteSet(transfers) /\ BooksBalance

(* The books balance when new rows N are added to ledger_transfers and every
   balance and every version moves by what they say. *)
LEMMA BooksWith ==
    ASSUME BooksInv, LedgerTypeOK',
           NEW N \in SUBSET Transfer, IsFiniteSet(N), N \cap transfers = {},
           transfers' = transfers \cup N,
           \A a \in Accounts :
              /\ balance'[a] = balance[a] + AmountOf({t \in N : t.to = a})
                                 - AmountOf({t \in N : t.from = a})
              /\ version'[a] = version[a] + Cardinality({t \in N : a \in {t.from, t.to}})
    PROVE  BooksInv'
<1>1. IsFiniteSet(transfers')
  BY FS_Union DEF BooksInv
<1>2. SUFFICES ASSUME NEW a \in Accounts
               PROVE  /\ balance'[a] = AmountOf({t \in transfers' : t.to = a})
                                         - AmountOf({t \in transfers' : t.from = a})
                      /\ version'[a] = Cardinality({t \in transfers' : a \in {t.from, t.to}})
  BY <1>1 DEF BooksInv, BooksBalance
<1> DEFINE nr == {t \in N : t.to = a}
           ns == {t \in N : t.from = a}
           nm == {t \in N : a \in {t.from, t.to}}
<1>3. /\ {t \in transfers' : t.to = a} = Received(a) \cup nr
      /\ {t \in transfers' : t.from = a} = Sent(a) \cup ns
      /\ {t \in transfers' : a \in {t.from, t.to}} = Moves(a) \cup nm
  BY DEF Received, Sent, Moves
<1>4. /\ Received(a) \in SUBSET Transfer /\ Sent(a) \in SUBSET Transfer
      /\ Received(a) \subseteq transfers /\ Sent(a) \subseteq transfers
      /\ Moves(a) \subseteq transfers
  BY DEF BooksInv, LedgerTypeOK, Received, Sent, Moves
<1>5. nr \in SUBSET N /\ ns \in SUBSET N /\ nm \in SUBSET N
  OBVIOUS
<1>6. /\ IsFiniteSet(Received(a)) /\ IsFiniteSet(Sent(a)) /\ IsFiniteSet(Moves(a))
      /\ IsFiniteSet(nr) /\ IsFiniteSet(ns) /\ IsFiniteSet(nm)
  <2> HIDE DEF nr, ns, nm
  <2> QED BY <1>4, <1>5, FS_Subset DEF BooksInv
<1>7. Received(a) \cap nr = {} /\ Sent(a) \cap ns = {} /\ Moves(a) \cap nm = {}
  BY <1>4
<1>8. /\ balance[a] = AmountOf(Received(a)) - AmountOf(Sent(a))
      /\ version[a] = Cardinality(Moves(a))
  BY DEF BooksInv, BooksBalance, Received, Sent, Moves
<1>9. /\ balance'[a] = balance[a] + AmountOf(nr) - AmountOf(ns)
      /\ version'[a] = version[a] + Cardinality(nm)
  OBVIOUS
<1> HIDE DEF nr, ns, nm
<1>10. /\ AmountOf(Received(a) \cup nr) = AmountOf(Received(a)) + AmountOf(nr)
       /\ AmountOf(Sent(a) \cup ns) = AmountOf(Sent(a)) + AmountOf(ns)
  <2>1. nr \in SUBSET Transfer /\ ns \in SUBSET Transfer
    BY <1>5
  <2> QED BY <1>4, <1>6, <1>7, <2>1, AmountOfUnion
<1>11. /\ AmountOf(Received(a)) \in Int /\ AmountOf(Sent(a)) \in Int
       /\ AmountOf(nr) \in Int /\ AmountOf(ns) \in Int
  BY <1>4, <1>5, <1>6, AmountOfInt
<1>12. Cardinality(Moves(a) \cup nm) = Cardinality(Moves(a)) + Cardinality(nm)
  <2>1. Cardinality(Moves(a) \cup nm) =
          Cardinality(Moves(a)) + Cardinality(nm) - Cardinality(Moves(a) \cap nm)
    BY <1>6, FS_Union
  <2>2. Cardinality(Moves(a) \cap nm) = 0
    BY <1>7, FS_EmptySet
  <2>3. Cardinality(Moves(a)) \in Nat /\ Cardinality(nm) \in Nat
    BY <1>6, FS_CardinalityType
  <2> QED BY <2>1, <2>2, <2>3
<1>13. balance'[a] = AmountOf(Received(a) \cup nr) - AmountOf(Sent(a) \cup ns)
  BY <1>8, <1>9, <1>10, <1>11
<1>14. version'[a] = Cardinality(Moves(a) \cup nm)
  BY <1>8, <1>9, <1>12
<1> QED BY <1>3, <1>13, <1>14

(* A transfer keeps the types of the ledger and every account within its
   policy (TransferMoney, ledger_create_transfer). *)
LEMMA TransferMoneySafe ==
    ASSUME LedgerTypeOK,
           NEW from \in Accounts, NEW to \in Accounts,
           NEW amount \in Nat, NEW key \in Keys,
           TransferMoney(from, to, amount, key)
    PROVE  LedgerTypeOK' /\ (PolicyHolds => PolicyHolds')
<1> USE DEF LedgerTypeOK, TransferMoney, Posted, DebitOK
<1>1. balance' \in [Accounts -> Int] /\ version' \in [Accounts -> Nat]
  OBVIOUS
<1>2. transfers' \subseteq Transfer
  BY DEF Transfer
<1>3. ASSUME PolicyHolds PROVE PolicyHolds'
  BY <1>3, <1>1 DEF PolicyHolds, PolicyOK
<1> QED BY <1>1, <1>2, <1>3

(* It moves its amount from one account to the other, in the balances as in
   the table of transfers. *)
LEMMA TransferMoneyBooks ==
    ASSUME BooksInv,
           NEW from \in Accounts, NEW to \in Accounts,
           NEW amount \in Nat, NEW key \in Keys,
           TransferMoney(from, to, amount, key)
    PROVE  BooksInv'
<1> DEFINE t == [key |-> key, from |-> from, to |-> to, amount |-> amount]
<1>0. LedgerTypeOK
  BY DEF BooksInv
<1>1. LedgerTypeOK'
  BY <1>0, TransferMoneySafe
<1>2. t \in Transfer /\ t.key = key /\ t.from = from /\ t.to = to /\ t.amount = amount
  BY DEF Transfer
<1>3. transfers' = transfers \cup {t} /\ from # to
  BY DEF TransferMoney
<1>4. t \notin transfers
  BY <1>2 DEF TransferMoney, KeyUsed
<1>5. \A a \in Accounts :
         /\ balance'[a] = IF a = from THEN balance[a] - amount
                          ELSE IF a = to THEN balance[a] + amount ELSE balance[a]
         /\ version'[a] = IF a \in {from, to} THEN version[a] + 1 ELSE version[a]
         /\ balance[a] \in Int /\ version[a] \in Nat
  BY <1>0, <1>3 DEF TransferMoney, Posted, LedgerTypeOK
<1> HIDE DEF t
<1>6. ASSUME NEW a \in Accounts
      PROVE  /\ balance'[a] = balance[a] + AmountOf({s \in {t} : s.to = a})
                                - AmountOf({s \in {t} : s.from = a})
             /\ version'[a] = version[a] + Cardinality({s \in {t} : a \in {s.from, s.to}})
  <2>1. /\ AmountOf({t}) = amount /\ AmountOf({}) = 0
        /\ Cardinality({t}) = 1 /\ Cardinality({}) = 0
    BY <1>2, AmountOfOne, AmountOfNone, FS_Singleton, FS_EmptySet
  <2>2. /\ {s \in {t} : s.to = a} = IF a = to THEN {t} ELSE {}
        /\ {s \in {t} : s.from = a} = IF a = from THEN {t} ELSE {}
        /\ {s \in {t} : a \in {s.from, s.to}} = IF a \in {from, to} THEN {t} ELSE {}
    BY <1>2
  <2>3. /\ AmountOf({s \in {t} : s.to = a}) = IF a = to THEN amount ELSE 0
        /\ AmountOf({s \in {t} : s.from = a}) = IF a = from THEN amount ELSE 0
        /\ Cardinality({s \in {t} : a \in {s.from, s.to}}) = IF a \in {from, to} THEN 1 ELSE 0
    BY <2>1, <2>2
  <2> QED BY <1>3, <1>5, <2>3
<1>7. {t} \in SUBSET Transfer /\ IsFiniteSet({t}) /\ {t} \cap transfers = {}
  BY <1>2, <1>4, FS_Singleton
<1> QED BY <1>1, <1>3, <1>6, <1>7, BooksWith
(* The loop of payments of a settlement keeps the types and the policies too. *)
LEMMA TransferAllSafe ==
    ASSUME LedgerTypeOK,
           NEW from \in Accounts, from \in AllowPositive,
           NEW W \in SUBSET Accounts, IsFiniteSet(W),
           NEW due \in [W -> Nat], NEW key \in [W -> Keys],
           TransferAll(from, due, key)
    PROVE  LedgerTypeOK' /\ (PolicyHolds => PolicyHolds')
<1> USE DEF LedgerTypeOK
<1>0. DOMAIN due = W /\ Cardinality(W) \in Nat
  BY FS_CardinalityType
<1>1. PICK total \in 0 .. balance[from] :
        /\ \A a \in W : PolicyOK(a, balance[a] + due[a])
        /\ balance' = [a \in Accounts |->
              IF a = from THEN balance[a] - total
              ELSE IF a \in W THEN balance[a] + due[a]
              ELSE balance[a]]
        /\ version' = [a \in Accounts |->
              IF a = from THEN version[a] + Cardinality(W)
              ELSE IF a \in W THEN version[a] + 1
              ELSE version[a]]
        /\ transfers' = transfers \cup
              {[key |-> key[a], from |-> from, to |-> a, amount |-> due[a]] : a \in W}
  BY <1>0 DEF TransferAll
<1>2. balance' \in [Accounts -> Int]
  BY <1>1
<1>3. version' \in [Accounts -> Nat]
  BY <1>0, <1>1
<1>4. transfers' \subseteq Transfer
  BY <1>1 DEF Transfer
<1>5. ASSUME PolicyHolds PROVE PolicyHolds'
  <2>1. SUFFICES ASSUME NEW a \in Accounts PROVE PolicyOK(a, balance'[a])
    BY DEF PolicyHolds
  <2>2. CASE a = from
    <3>1. balance'[a] \in Int /\ balance'[a] >= 0
      BY <1>1, <2>2
    <3> QED BY <3>1, <2>2 DEF PolicyOK
  <2>3. CASE a # from /\ a \in W
    BY <1>1, <2>3
  <2>4. CASE a # from /\ a \notin W
    BY <1>1, <2>4, <1>5 DEF PolicyHolds
  <2> QED BY <2>2, <2>3, <2>4
<1> QED BY <1>2, <1>3, <1>4, <1>5

(* It moves the payments, in the balances as in the table of transfers. *)
LEMMA TransferAllBooks ==
    ASSUME BooksInv,
           NEW from \in Accounts, from \in AllowPositive,
           NEW W \in SUBSET Accounts, IsFiniteSet(W),
           NEW due \in [W -> Nat], NEW key \in [W -> Keys],
           TransferAll(from, due, key)
    PROVE  BooksInv'
<1> DEFINE Pay(a) == [key |-> key[a], from |-> from, to |-> a, amount |-> due[a]]
           N == {Pay(a) : a \in W}
<1>0. LedgerTypeOK
  BY DEF BooksInv
<1>1. LedgerTypeOK'
  BY <1>0, TransferAllSafe
<1>2. DOMAIN due = W
  OBVIOUS
<1>3. PICK total \in 0 .. balance[from] :
        /\ total = SumFunction(due)
        /\ \A a \in W : due[a] > 0 /\ a # from /\ ~ KeyUsed(key[a])
        /\ balance' = [a \in Accounts |->
              IF a = from THEN balance[a] - total
              ELSE IF a \in W THEN balance[a] + due[a]
              ELSE balance[a]]
        /\ version' = [a \in Accounts |->
              IF a = from THEN version[a] + Cardinality(W)
              ELSE IF a \in W THEN version[a] + 1
              ELSE version[a]]
        /\ transfers' = transfers \cup N
  BY <1>2 DEF TransferAll
<1>4. \A a \in W : /\ Pay(a) \in Transfer /\ Pay(a).key = key[a] /\ Pay(a).from = from
                   /\ Pay(a).to = a /\ Pay(a).amount = due[a] /\ due[a] \in Nat
  BY DEF Transfer
<1> HIDE DEF Pay
<1>5. N \in SUBSET Transfer
  BY <1>4
<1>6. N \cap transfers = {}
  BY <1>3, <1>4 DEF KeyUsed
<1>7. IsFiniteSet(N) /\ Cardinality(N) = Cardinality(W)
  <2>1. [a \in W |-> Pay(a)] \in Bijection(W, N)
    BY <1>4 DEF Bijection, Injection, IsInjective, Surjection
  <2> QED BY <2>1, FS_Bijection DEF ExistsBijection
<1>8. AmountOf(N) = total
  <2> DEFINE h == [a \in W |-> Pay(a)]
             g == [t \in N |-> t.amount]
  <2>1. {h[a] : a \in W} = N
    OBVIOUS
  <2>2. AmountOf(N) = SumFunctionOnSet(g, N)
    BY DEF AmountOf, SumFunction
  <2>3. \A a, b \in W : h[a] = h[b] => a = b
    BY <1>4
  <2>4. \A a \in W : g[h[a]] = due[a] /\ due[a] \in Int
    BY <1>4
  <2> HIDE DEF h, g, N
  <2>5. SumFunctionOnSet(g, {h[a] : a \in W}) = SumFunctionOnSet(due, W)
    BY <2>3, <2>4, SumReindex
  <2> QED BY <1>2, <1>3, <2>1, <2>2, <2>5 DEF SumFunction
<1>9. ASSUME NEW a \in Accounts
      PROVE  /\ balance'[a] = balance[a] + AmountOf({t \in N : t.to = a})
                                - AmountOf({t \in N : t.from = a})
             /\ version'[a] = version[a] + Cardinality({t \in N : a \in {t.from, t.to}})
  <2>0. balance[a] \in Int /\ version[a] \in Nat /\ total \in Int
    BY <1>0, <1>3 DEF LedgerTypeOK
  <2>1. AmountOf({}) = 0 /\ Cardinality({}) = 0
    BY AmountOfNone, FS_EmptySet
  <2>2. CASE a = from
    <3>1. /\ {t \in N : t.to = a} = {} /\ {t \in N : t.from = a} = N
          /\ {t \in N : a \in {t.from, t.to}} = N
      BY <1>3, <1>4, <2>2
    <3>2. balance'[a] = balance[a] - total /\ version'[a] = version[a] + Cardinality(W)
      BY <1>3, <2>2
    <3> HIDE DEF N
    <3>4. /\ AmountOf({t \in N : t.to = a}) = 0
          /\ AmountOf({t \in N : t.from = a}) = total
          /\ Cardinality({t \in N : a \in {t.from, t.to}}) = Cardinality(W)
      BY <1>7, <1>8, <2>1, <3>1
    <3>5. Cardinality(W) \in Nat
      BY FS_CardinalityType
    <3> QED BY <2>0, <3>2, <3>4, <3>5
  <2>3. CASE a # from /\ a \in W
    <3>1. /\ {t \in N : t.to = a} = {Pay(a)} /\ {t \in N : t.from = a} = {}
          /\ {t \in N : a \in {t.from, t.to}} = {Pay(a)}
      BY <1>4, <2>3
    <3>2. balance'[a] = balance[a] + due[a] /\ version'[a] = version[a] + 1
      BY <1>3, <2>3
    <3>3. AmountOf({Pay(a)}) = due[a] /\ Cardinality({Pay(a)}) = 1 /\ due[a] \in Int
      <4>1. Pay(a) \in Transfer /\ Pay(a).amount = due[a] /\ due[a] \in Nat
        BY <1>4, <2>3
      <4>2. AmountOf({Pay(a)}) = Pay(a).amount
        BY <4>1, AmountOfOne
      <4>3. Cardinality({Pay(a)}) = 1
        BY FS_Singleton
      <4> QED BY <4>1, <4>2, <4>3
    <3> HIDE DEF N
    <3>4. /\ AmountOf({t \in N : t.to = a}) = due[a]
          /\ AmountOf({t \in N : t.from = a}) = 0
          /\ Cardinality({t \in N : a \in {t.from, t.to}}) = 1
      BY <2>1, <3>1, <3>3
    <3> QED BY <2>0, <3>2, <3>3, <3>4
  <2>4. CASE a # from /\ a \notin W
    <3>1. /\ {t \in N : t.to = a} = {} /\ {t \in N : t.from = a} = {}
          /\ {t \in N : a \in {t.from, t.to}} = {}
      BY <1>4, <2>4
    <3>2. balance'[a] = balance[a] /\ version'[a] = version[a]
      BY <1>3, <2>4
    <3> HIDE DEF N
    <3>4. /\ AmountOf({t \in N : t.to = a}) = 0
          /\ AmountOf({t \in N : t.from = a}) = 0
          /\ Cardinality({t \in N : a \in {t.from, t.to}}) = 0
      BY <2>1, <3>1
    <3> QED BY <2>0, <3>2, <3>4
  <2> QED BY <2>2, <2>3, <2>4
<1> HIDE DEF N
<1> QED BY <1>1, <1>3, <1>5, <1>6, <1>7, <1>9, BooksWith

(* The books of the empty ledger balance. *)
LEMMA BooksInit == LedgerInit => BooksInv
<1> SUFFICES ASSUME LedgerInit PROVE BooksInv
  OBVIOUS
<1>1. LedgerTypeOK /\ IsFiniteSet(transfers)
  BY FS_EmptySet DEF LedgerInit, LedgerTypeOK
<1>2. BooksBalance
  <2>1. SUFFICES ASSUME NEW a \in Accounts
                 PROVE  /\ balance[a] = AmountOf({t \in transfers : t.to = a})
                                          - AmountOf({t \in transfers : t.from = a})
                        /\ version[a] = Cardinality({t \in transfers : a \in {t.from, t.to}})
    BY DEF BooksBalance
  <2>2. /\ {t \in transfers : t.to = a} = {} /\ {t \in transfers : t.from = a} = {}
        /\ {t \in transfers : a \in {t.from, t.to}} = {}
        /\ balance[a] = 0 /\ version[a] = 0
    BY DEF LedgerInit
  <2>3. /\ AmountOf({t \in transfers : t.to = a}) = 0
        /\ AmountOf({t \in transfers : t.from = a}) = 0
        /\ Cardinality({t \in transfers : a \in {t.from, t.to}}) = 0
    BY <2>2, AmountOfNone, FS_EmptySet
  <2> QED BY <2>2, <2>3
<1> QED BY <1>1, <1>2 DEF BooksInv

-----------------------------------------------------------------------------
(* Type correctness.  The bets stay finite, so that a settlement raises the
   version of the house account by a number. *)
TypeInv == TypeOK /\ IsFiniteSet(bets)

(* The empty tables have their types. *)
LEMMA TypeInit == Init => TypeInv
BY ManagerAssumption, FS_EmptySet
   DEF Init, LedgerInit, TypeInv, TypeOK, LedgerTypeOK, Market, Outcome, Status

(* The accounts that a settlement pays, and what it pays them. *)
LEMMA SettleTransfers ==
    ASSUME TypeInv, NEW o \in OutcomeIds, SettleMarket(o)
    PROVE  \E W \in SUBSET Users : \E key \in [W -> Keys], due \in [W -> Nat] :
              /\ IsFiniteSet(W)
              /\ W = {b.account : b \in PaidBets(o)}
              /\ key = [u \in W |-> SettleKey(MarketOf[o], u)]
              /\ \A u \in W : due[u] = SumPayout({b \in PaidBets(o) : b.account = u})
              /\ TransferAll(MarketOf[o], due, key)
<1> DEFINE m == MarketOf[o]
           W == {b.account : b \in PaidBets(o)}
           key == [u \in W |-> SettleKey(m, u)]
<1>1. m \in MarketIds /\ balance[m] \in Int
  BY ManagerAssumption DEF TypeInv, TypeOK, LedgerTypeOK
<1>2. W \in SUBSET Users /\ IsFiniteSet(W)
  <2>1. PaidBets(o) \subseteq bets
    BY DEF PaidBets
  <2>2. IsFiniteSet(PaidBets(o))
    BY <2>1, FS_Subset DEF TypeInv
  <2>3. IsFiniteSet(W)
    <3>1. [b \in PaidBets(o) |-> b.account] \in Surjection(PaidBets(o), W)
      BY DEF Surjection
    <3> QED BY <2>2, <3>1, FS_Surjection
  <2> QED BY <2>1, <2>3 DEF TypeInv, TypeOK, Bet
<1>3. key \in [W -> Keys]
  BY <1>1, <1>2, ManagerAssumption
<1>4. PICK due \in [W -> 1 .. balance[m]] :
        /\ \A u \in W : due[u] = SumPayout({b \in PaidBets(o) : b.account = u})
        /\ TransferAll(m, due, key)
  BY DEF SettleMarket
<1>5. due \in [W -> Nat]
  BY <1>1, <1>4
<1> QED BY <1>2, <1>3, <1>4, <1>5

(* The ways a step changes the ledger: not at all, by a transfer, or by the
   payments of a settlement. *)
LEMMA LedgerChanges ==
    ASSUME TypeInv, Next
    PROVE  \/ UNCHANGED ledgerVars
           \/ \E from, to \in Accounts, amount \in Nat, key \in Keys :
                 TransferMoney(from, to, amount, key)
           \/ \E from \in AllowPositive, W \in SUBSET Accounts :
                 \E key \in [W -> Keys], due \in [W -> Nat] :
                    IsFiniteSet(W) /\ TransferAll(from, due, key)
<1> DEFINE OneTransfer == \E from, to \in Accounts, amount \in Nat, key \in Keys :
                             TransferMoney(from, to, amount, key)
<1> USE ManagerAssumption, LedgerAssumption
<1>1. ASSUME NEW a \in Users \cup MarketIds, NEW n \in Deposits,
             NEW k \in DepositKeys, Deposit(a, n, k)
      PROVE  OneTransfer
  <2>1. Custody \in Accounts /\ a \in Accounts /\ n \in Nat /\ k \in Keys
    OBVIOUS
  <2> QED BY <1>1, <2>1 DEF Deposit
<1>2. ASSUME NEW m \in MarketIds,
             \/ CreateMarket(m)
             \/ \E target \in {"opened", "paused"} : ReadStatus(m, target)
             \/ \E past \in BOOLEAN : SetCloseTime(m, past)
             \/ CancelMarket(m)
      PROVE  UNCHANGED ledgerVars
  BY <1>2 DEF CreateMarket, ReadStatus, SetCloseTime, CancelMarket
<1>3. ASSUME NEW r \in statusReqs, WriteStatus(r) PROVE UNCHANGED ledgerVars
  BY <1>3 DEF WriteStatus
<1>4. ASSUME NEW u \in Users, NEW o \in OutcomeIds, NEW side \in Side,
             NEW amount \in Stakes, NEW gain \in Payouts, NEW key \in ClientKeys,
             AddBet(u, o, side, amount, gain, key)
      PROVE  OneTransfer
  <2>1. u \in Accounts /\ MarketOf[o] \in Accounts /\ amount \in Nat /\ key \in Keys
    OBVIOUS
  <2> QED BY <1>4, <2>1 DEF AddBet
<1>5. ASSUME NEW b \in bets, NEW key \in ClientKeys, ReadBet(b, key)
      PROVE  UNCHANGED ledgerVars
  BY <1>5 DEF ReadBet
<1>6. ASSUME NEW r \in cashoutReqs, NEW gain \in SellQuotes(r.bet.payout),
             CashoutBet(r, gain)
      PROVE  OneTransfer
  <2>1. r.bet \in Bet /\ r.key \in ClientKeys
    BY DEF TypeInv, TypeOK
  <2>2. /\ MarketOf[r.bet.outcome] \in Accounts /\ r.bet.account \in Accounts
        /\ gain \in Nat /\ r.key \in Keys
    BY <2>1 DEF Bet, SellQuotes
  <2> QED BY <1>6, <2>2 DEF CashoutBet
<1>7. ASSUME NEW r \in cashoutReqs, CashoutFails(r) PROVE UNCHANGED ledgerVars
  BY <1>7 DEF CashoutFails
<1>8. ASSUME NEW o \in OutcomeIds, SettleMarket(o)
      PROVE  \E from \in AllowPositive, W \in SUBSET Accounts :
                \E key \in [W -> Keys], due \in [W -> Nat] :
                   IsFiniteSet(W) /\ TransferAll(from, due, key)
  <2>1. PICK W \in SUBSET Users : \E key \in [W -> Keys], due \in [W -> Nat] :
          IsFiniteSet(W) /\ TransferAll(MarketOf[o], due, key)
    BY <1>8, SettleTransfers
  <2>2. MarketOf[o] \in AllowPositive /\ W \in SUBSET Accounts
    OBVIOUS
  <2> QED BY <2>1, <2>2
<1> QED BY <1>1, <1>2, <1>3, <1>4, <1>5, <1>6, <1>7, <1>8 DEF Next

(* The ledger part of TypeOK and the policies survive every step. *)
LEMMA LedgerStep ==
    ASSUME TypeInv, Next
    PROVE  LedgerTypeOK' /\ (PolicyHolds => PolicyHolds')
<1>1. LedgerTypeOK
  BY DEF TypeInv, TypeOK
<1>2. CASE UNCHANGED ledgerVars
  BY <1>1, <1>2 DEF ledgerVars, LedgerTypeOK, PolicyHolds
<1>3. ASSUME NEW from \in Accounts, NEW to \in Accounts, NEW amount \in Nat,
             NEW key \in Keys, TransferMoney(from, to, amount, key)
      PROVE  LedgerTypeOK' /\ (PolicyHolds => PolicyHolds')
  BY <1>1, <1>3, TransferMoneySafe
<1>4. ASSUME NEW from \in AllowPositive, NEW W \in SUBSET Accounts,
             NEW key \in [W -> Keys], NEW due \in [W -> Nat],
             IsFiniteSet(W), TransferAll(from, due, key)
      PROVE  LedgerTypeOK' /\ (PolicyHolds => PolicyHolds')
  <2>1. from \in Accounts
    BY LedgerAssumption
  <2> QED BY <1>1, <1>4, <2>1, TransferAllSafe
<1> QED BY <1>2, <1>3, <1>4, LedgerChanges

(* So does the double entry. *)
LEMMA BooksStep == ASSUME TypeInv, BooksInv, [Next]_vars PROVE BooksInv'
<1>1. CASE UNCHANGED ledgerVars
  BY <1>1 DEF ledgerVars, BooksInv, LedgerTypeOK, BooksBalance
<1>2. ASSUME NEW from \in Accounts, NEW to \in Accounts, NEW amount \in Nat,
             NEW key \in Keys, TransferMoney(from, to, amount, key)
      PROVE  BooksInv'
  BY <1>2, TransferMoneyBooks
<1>3. ASSUME NEW from \in AllowPositive, NEW W \in SUBSET Accounts,
             NEW key \in [W -> Keys], NEW due \in [W -> Nat],
             IsFiniteSet(W), TransferAll(from, due, key)
      PROVE  BooksInv'
  <2>1. from \in Accounts
    BY LedgerAssumption
  <2> QED BY <1>3, <2>1, TransferAllBooks
<1> QED BY <1>1, <1>2, <1>3, LedgerChanges DEF vars

(* Every action keeps the types of the tables. *)
LEMMA TypeStep == ASSUME TypeInv, [Next]_vars PROVE TypeInv'
<1> USE ManagerAssumption DEF TypeInv
<1> DEFINE TablesOK ==
      /\ markets \in [MarketIds -> Market]
      /\ outcomes \in [OutcomeIds -> Outcome]
      /\ bets \subseteq Bet
      /\ cashouts \subseteq Cashout
      /\ resolutions \in [MarketIds -> OutcomeIds \cup {None}]
      /\ cancellations \subseteq MarketIds
      /\ totalWagered \in [Users -> Nat]
      /\ cashoutReqs \subseteq [bet : Bet, key : ClientKeys]
      /\ statusReqs \subseteq [market : MarketIds, target : {"opened", "paused"}]
      /\ IsFiniteSet(bets)
<1>t. TablesOK
  BY DEF TypeOK
<1>u. CASE UNCHANGED vars
  BY <1>u DEF vars, tables, requests, ledgerVars, TypeOK, LedgerTypeOK
<1>1. ASSUME NEW a \in Users \cup MarketIds, NEW n \in Deposits,
             NEW k \in DepositKeys, Deposit(a, n, k)
      PROVE  TablesOK'
  BY <1>1, <1>t DEF Deposit, tables, requests
<1>2. ASSUME NEW m \in MarketIds, CreateMarket(m) PROVE TablesOK'
  <2>1. markets' \in [MarketIds -> Market]
    BY <1>2, <1>t DEF CreateMarket, Market, Status
  <2>2. outcomes' \in [OutcomeIds -> Outcome]
    BY <1>2, <1>t DEF CreateMarket, Outcome
  <2> QED BY <1>2, <1>t, <2>1, <2>2 DEF CreateMarket, requests
<1>3. ASSUME NEW m \in MarketIds, NEW target \in {"opened", "paused"},
             ReadStatus(m, target)
      PROVE  TablesOK'
  BY <1>3, <1>t DEF ReadStatus, tables
<1>4. ASSUME NEW m \in MarketIds, NEW past \in BOOLEAN, SetCloseTime(m, past)
      PROVE  TablesOK'
  <2>1. markets' \in [MarketIds -> Market]
    BY <1>4, <1>t DEF SetCloseTime, Market
  <2> QED BY <1>4, <1>t, <2>1 DEF SetCloseTime, requests
<1>5. ASSUME NEW m \in MarketIds, CancelMarket(m) PROVE TablesOK'
  <2>1. markets' \in [MarketIds -> Market]
    BY <1>5, <1>t DEF CancelMarket, Market, Status
  <2> QED BY <1>5, <1>t, <2>1 DEF CancelMarket, requests
<1>6. ASSUME NEW r \in statusReqs, WriteStatus(r) PROVE TablesOK'
  <2>1. markets' \in [MarketIds -> Market]
    BY <1>6, <1>t DEF WriteStatus, Market, Status
  <2> QED BY <1>6, <1>t, <2>1 DEF WriteStatus
<1>7. ASSUME NEW u \in Users, NEW o \in OutcomeIds, NEW side \in Side,
             NEW amount \in Stakes, NEW gain \in Payouts, NEW key \in ClientKeys,
             AddBet(u, o, side, amount, gain, key)
      PROVE  TablesOK'
  <2>0. amount \in Nat /\ gain \in Nat /\ MarketOf[o] \in MarketIds
    OBVIOUS
  <2>1. markets' \in [MarketIds -> Market]
    <3>1. PICK m \in MarketIds : markets' =
            [markets EXCEPT ![m].version = @ + 1, ![m].volume = @ + amount]
      BY <1>7, <2>0 DEF AddBet
    <3>2. ASSUME NEW row \in Market
          PROVE  [row EXCEPT !.version = @ + 1, !.volume = @ + amount] \in Market
      <4>1. row.version + 1 \in Nat /\ row.volume + amount \in Nat
        BY <2>0 DEF Market
      <4>2. ASSUME NEW n \in Nat PROVE [row EXCEPT !.version = n] \in Market
        BY DEF Market
      <4>3. ASSUME NEW x \in Market, NEW n \in Nat
            PROVE  [x EXCEPT !.volume = n] \in Market
        BY DEF Market
      <4> QED BY <4>1, <4>2, <4>3
    <3>3. [markets[m] EXCEPT !.version = @ + 1, !.volume = @ + amount] \in Market
      BY <3>2, <1>t
    <3> QED BY <3>1, <3>3, <1>t
  <2>2. outcomes' \in [OutcomeIds -> Outcome]
    BY <1>7, <1>t, <2>0 DEF AddBet, Outcome
  <2>3. bets' \subseteq Bet
    BY <1>7, <1>t, <2>0 DEF AddBet, BetRow, Bet
  <2>4. IsFiniteSet(bets')
    BY <1>7, <1>t, FS_AddElement DEF AddBet
  <2>5. totalWagered' \in [Users -> Nat]
    BY <1>7, <1>t, <2>0 DEF AddBet, Wagered
  <2> QED BY <1>7, <1>t, <2>1, <2>2, <2>3, <2>4, <2>5 DEF AddBet, requests
<1>8. ASSUME NEW b \in bets, NEW key \in ClientKeys, ReadBet(b, key)
      PROVE  TablesOK'
  BY <1>8, <1>t DEF ReadBet, tables
<1>9. ASSUME NEW r \in cashoutReqs, NEW gain \in SellQuotes(r.bet.payout),
             CashoutBet(r, gain)
      PROVE  TablesOK'
  <2>0. r.bet \in Bet /\ r.key \in ClientKeys
    BY <1>t
  <2>1. /\ MarketOf[r.bet.outcome] \in MarketIds
        /\ gain \in Nat /\ r.bet.payout \in Nat
    BY <2>0 DEF Bet, SellQuotes
  <2>2. markets' \in [MarketIds -> Market]
    <3>1. PICK m \in MarketIds : markets' = [markets EXCEPT ![m].version = @ + 1]
      BY <1>9, <2>1 DEF CashoutBet
    <3> QED BY <3>1, <1>t DEF Market
  <2>3. outcomes' \in [OutcomeIds -> Outcome]
    BY <1>9, <1>t, <2>1 DEF CashoutBet, Outcome, Hedged
  <2>4. cashouts' \subseteq Cashout
    BY <1>9, <1>t, <2>0, <2>1 DEF CashoutBet, Cashout
  <2> QED BY <1>9, <1>t, <2>2, <2>3, <2>4 DEF CashoutBet
<1>10. ASSUME NEW r \in cashoutReqs, CashoutFails(r) PROVE TablesOK'
  BY <1>10, <1>t DEF CashoutFails, tables
<1>11. ASSUME NEW o \in OutcomeIds, SettleMarket(o) PROVE TablesOK'
  <2>1. markets' \in [MarketIds -> Market]
    BY <1>11, <1>t DEF SettleMarket, Market, Status
  <2> QED BY <1>11, <1>t, <2>1 DEF SettleMarket, requests
<1>12. ASSUME Next PROVE TablesOK'
  BY <1>12, <1>1, <1>2, <1>3, <1>4, <1>5, <1>6, <1>7, <1>8, <1>9, <1>10, <1>11
     DEF Next
<1> QED BY <1>u, <1>12, LedgerStep DEF TypeOK

(* Every value in the tables and the ledger has its type: amounts, quantities
   and versions stay natural numbers, the tables hold rows of their schema. *)
THEOREM TypeCorrect == Spec => []TypeOK
<1>1. Init => TypeInv
  BY TypeInit
<1>2. TypeInv /\ [Next]_vars => TypeInv'
  BY TypeStep
<1>3. TypeInv => TypeOK
  BY DEF TypeInv
<1> QED BY <1>1, <1>2, <1>3, PTL DEF Spec

(* No user and no house account is ever overdrawn, whatever bets, cashouts,
   settlements and deposits are made. *)
THEOREM AccountsWithinPolicy == Spec => []PolicyHolds
<1>1. Init => TypeInv /\ PolicyHolds
  BY TypeInit DEF Init, LedgerInit, PolicyHolds, PolicyOK
<1>2. TypeInv /\ PolicyHolds /\ [Next]_vars => TypeInv' /\ PolicyHolds'
  BY TypeStep, LedgerStep DEF vars, ledgerVars, PolicyHolds
<1> QED BY <1>1, <1>2, PTL DEF Spec

(* The books balance, after any history of deposits, bets, cashouts and
   settlements: the balance of every account is the sum of the transfers to it
   minus the sum of the transfers from it, and its version counts them. *)
THEOREM BooksAlwaysBalance == Spec => []BooksBalance
<1>1. Init => TypeInv /\ BooksInv
  BY TypeInit, BooksInit DEF Init
<1>2. TypeInv /\ BooksInv /\ [Next]_vars => TypeInv' /\ BooksInv'
  BY TypeStep, BooksStep
<1>3. BooksInv => BooksBalance
  BY DEF BooksInv
<1> QED BY <1>1, <1>2, <1>3, PTL DEF Spec

-----------------------------------------------------------------------------
(* Status and cashouts. *)

(* A status changes only with its row: the trigger stops a stale pause or resume
   of a final market, and settlement and cancellation exclude each other. *)
LEMMA StatusStep == ASSUME TypeInv, StatusMatchesRows, [Next]_vars PROVE StatusMatchesRows'
<1> USE ManagerAssumption
<1>t. /\ markets \in [MarketIds -> Market]
      /\ resolutions \in [MarketIds -> OutcomeIds \cup {None}]
  BY DEF TypeInv, TypeOK
<1>s. \A n \in MarketIds :
        /\ markets[n].status = "resolved" <=> resolutions[n] # None
        /\ markets[n].status = "cancelled" <=> n \in cancellations
  BY DEF StatusMatchesRows
<1>k. ASSUME \A n \in MarketIds : markets'[n].status = markets[n].status,
             resolutions' = resolutions, cancellations' = cancellations
      PROVE  StatusMatchesRows'
  BY <1>k, <1>s DEF StatusMatchesRows
<1>u. CASE UNCHANGED vars
  BY <1>u, <1>k DEF vars, tables
<1>1. ASSUME NEW m \in MarketIds, NEW st \in Status \ Final,
             UpdateAllowed(markets[m].status, st),
             markets' = [markets EXCEPT ![m].status = st],
             resolutions' = resolutions, cancellations' = cancellations
      PROVE  StatusMatchesRows'
  <2>1. markets[m].status \notin Final /\ markets'[m].status = st
    BY <1>1, <1>t DEF UpdateAllowed, Market
  <2>2. \A n \in MarketIds \ {m} : markets'[n] = markets[n]
    BY <1>1, <1>t
  <2> QED BY <2>1, <2>2, <1>1, <1>s DEF StatusMatchesRows, Final
<1>2. ASSUME NEW a \in Users \cup MarketIds, NEW n \in Deposits,
             NEW k \in DepositKeys, Deposit(a, n, k)
      PROVE  StatusMatchesRows'
  BY <1>2, <1>k DEF Deposit, tables
<1>3. ASSUME NEW m \in MarketIds, CreateMarket(m) PROVE StatusMatchesRows'
  BY <1>3, <1>1 DEF CreateMarket, UpdateAllowed, Status, Final
<1>4. ASSUME NEW m \in MarketIds, NEW target \in {"opened", "paused"},
             ReadStatus(m, target)
      PROVE  StatusMatchesRows'
  BY <1>4, <1>k DEF ReadStatus, tables
<1>5. ASSUME NEW m \in MarketIds, NEW past \in BOOLEAN, SetCloseTime(m, past)
      PROVE  StatusMatchesRows'
  <2>1. \A n \in MarketIds : markets'[n].status = markets[n].status
    BY <1>5, <1>t DEF SetCloseTime, Market
  <2> QED BY <2>1, <1>5, <1>k DEF SetCloseTime
<1>6. ASSUME NEW m \in MarketIds, CancelMarket(m) PROVE StatusMatchesRows'
  <2>1. /\ markets[m].status \notin Final
        /\ markets'[m].status = "cancelled"
        /\ cancellations' = cancellations \cup {m}
        /\ resolutions' = resolutions
    BY <1>6, <1>t DEF CancelMarket, Final, Market
  <2>2. \A n \in MarketIds \ {m} : markets'[n] = markets[n]
    BY <1>6, <1>t DEF CancelMarket
  <2> QED BY <2>1, <2>2, <1>s DEF StatusMatchesRows, Final
<1>7. ASSUME NEW r \in statusReqs, WriteStatus(r) PROVE StatusMatchesRows'
  <2>1. r.market \in MarketIds /\ r.target \in Status \ Final
    BY DEF TypeInv, TypeOK, Status, Final
  <2>2. resolutions' = resolutions /\ cancellations' = cancellations
    BY <1>7 DEF WriteStatus
  <2>3. CASE UpdateAllowed(markets[r.market].status, r.target)
    BY <2>1, <2>2, <2>3, <1>7, <1>1 DEF WriteStatus
  <2>4. CASE ~ UpdateAllowed(markets[r.market].status, r.target)
    BY <2>2, <2>4, <1>7, <1>k DEF WriteStatus
  <2> QED BY <2>3, <2>4
<1>8. ASSUME NEW u \in Users, NEW o \in OutcomeIds, NEW side \in Side,
             NEW amount \in Stakes, NEW gain \in Payouts, NEW key \in ClientKeys,
             AddBet(u, o, side, amount, gain, key)
      PROVE  StatusMatchesRows'
  <2>1. \A n \in MarketIds : markets'[n].status = markets[n].status
    BY <1>8, <1>t DEF AddBet, Market
  <2> QED BY <2>1, <1>8, <1>k DEF AddBet
<1>9. ASSUME NEW b \in bets, NEW key \in ClientKeys, ReadBet(b, key)
      PROVE  StatusMatchesRows'
  BY <1>9, <1>k DEF ReadBet, tables
<1>10. ASSUME NEW r \in cashoutReqs, NEW gain \in SellQuotes(r.bet.payout),
              CashoutBet(r, gain)
       PROVE  StatusMatchesRows'
  <2>1. \A n \in MarketIds : markets'[n].status = markets[n].status
    BY <1>10, <1>t DEF CashoutBet, Market
  <2> QED BY <2>1, <1>10, <1>k DEF CashoutBet
<1>11. ASSUME NEW r \in cashoutReqs, CashoutFails(r) PROVE StatusMatchesRows'
  BY <1>11, <1>k DEF CashoutFails, tables
<1>12. ASSUME NEW o \in OutcomeIds, SettleMarket(o) PROVE StatusMatchesRows'
  <2> DEFINE m == MarketOf[o]
  <2>1. /\ m \in MarketIds /\ o # None
        /\ markets[m].status \notin Final
        /\ markets'[m].status = "resolved"
        /\ resolutions' = [resolutions EXCEPT ![m] = o]
        /\ cancellations' = cancellations
    BY <1>12, <1>t DEF SettleMarket, Final, Market
  <2>2. \A n \in MarketIds \ {m} : markets'[n] = markets[n]
    BY <1>12, <1>t DEF SettleMarket
  <2> HIDE DEF m
  <2> QED BY <2>1, <2>2, <1>s, <1>t DEF StatusMatchesRows, Final
<1> QED BY <1>u, <1>2, <1>3, <1>4, <1>5, <1>6, <1>7, <1>8, <1>9, <1>10,
           <1>11, <1>12 DEF Next

(* Settled markets are the ones with a resolution, cancelled markets the ones
   with a cancellation, whatever requests to pause or resume were under way. *)
THEOREM StatusAgrees == Spec => []StatusMatchesRows
<1>1. Init => TypeInv /\ StatusMatchesRows
  BY TypeInit DEF Init, StatusMatchesRows
<1>2. TypeInv /\ StatusMatchesRows /\ [Next]_vars => TypeInv' /\ StatusMatchesRows'
  BY TypeStep, StatusStep
<1> QED BY <1>1, <1>2, PTL DEF Spec

(* A bet is never cashed out twice, however many calls of CashoutBet read it
   before the first commits: UNIQUE (bet_id) decides. *)
THEOREM CashedOutOnce == Spec => []OneCashoutPerBet
<1>1. Init => OneCashoutPerBet
  BY DEF Init, OneCashoutPerBet
<1>2. ASSUME OneCashoutPerBet, [Next]_vars PROVE OneCashoutPerBet'
  <2>1. ASSUME NEW r \in cashoutReqs, NEW gain \in SellQuotes(r.bet.payout),
               CashoutBet(r, gain)
        PROVE  OneCashoutPerBet'
    BY <1>2, <2>1 DEF CashoutBet, CashoutRowFree, OneCashoutPerBet
  <2>2. CASE cashouts' = cashouts
    BY <1>2, <2>2 DEF OneCashoutPerBet
  <2>3. \/ cashouts' = cashouts
        \/ \E r \in cashoutReqs : \E gain \in SellQuotes(r.bet.payout) :
              CashoutBet(r, gain)
    <3>1. /\ \A a, n, k : Deposit(a, n, k) => cashouts' = cashouts
          /\ \A b, k : ReadBet(b, k) => cashouts' = cashouts
          /\ \A r : CashoutFails(r) => cashouts' = cashouts
          /\ \A m, target : ReadStatus(m, target) => cashouts' = cashouts
      BY DEF Deposit, ReadBet, CashoutFails, ReadStatus, tables
    <3>2. /\ \A m : CreateMarket(m) => cashouts' = cashouts
          /\ \A m, past : SetCloseTime(m, past) => cashouts' = cashouts
          /\ \A m : CancelMarket(m) => cashouts' = cashouts
          /\ \A r : WriteStatus(r) => cashouts' = cashouts
      BY DEF CreateMarket, SetCloseTime, CancelMarket, WriteStatus
    <3>3. \A u, o, side, amount, gain, key :
             AddBet(u, o, side, amount, gain, key) => cashouts' = cashouts
      BY DEF AddBet
    <3>4. \A o : SettleMarket(o) => cashouts' = cashouts
      BY DEF SettleMarket
    <3>5. UNCHANGED vars => cashouts' = cashouts
      BY DEF vars, tables
    <3> QED BY <1>2, <3>1, <3>2, <3>3, <3>4, <3>5 DEF Next
  <2> QED BY <2>1, <2>2, <2>3
<1> QED BY <1>1, <1>2, PTL DEF Spec
-----------------------------------------------------------------------------
(* Where the money went. *)

(* The steps that move money or take a bet, and what the others leave alone. *)
Quiet ==
    /\ UNCHANGED <<ledgerVars, bets, cashouts, resolutions, totalWagered>>
    /\ \A m \in MarketIds : markets'[m].volume = markets[m].volume
    /\ \A r \in cashoutReqs' : r \in cashoutReqs \/ r.bet \in bets

(* A step is quiet, or one of the four that move money. *)
LEMMA MoneyActions ==
    ASSUME TypeInv, [Next]_vars
    PROVE  \/ Quiet
           \/ \E a \in Users \cup MarketIds, n \in Deposits, k \in DepositKeys :
                 Deposit(a, n, k)
           \/ \E u \in Users, o \in OutcomeIds, side \in Side,
                 amount \in Stakes, gain \in Payouts, key \in ClientKeys :
                 AddBet(u, o, side, amount, gain, key)
           \/ \E r \in cashoutReqs : \E gain \in SellQuotes(r.bet.payout) :
                 CashoutBet(r, gain)
           \/ \E o \in OutcomeIds : SettleMarket(o)
<1>0. markets \in [MarketIds -> Market]
  BY DEF TypeInv, TypeOK
<1>1. CASE UNCHANGED vars
  BY <1>1 DEF vars, tables, requests, Quiet
<1>2. ASSUME NEW m \in MarketIds, CreateMarket(m) PROVE Quiet
  BY <1>0, <1>2 DEF CreateMarket, requests, Quiet, Market
<1>3. ASSUME NEW m \in MarketIds, NEW target, ReadStatus(m, target) PROVE Quiet
  BY <1>3 DEF ReadStatus, tables, Quiet
<1>4. ASSUME NEW m \in MarketIds, NEW past, SetCloseTime(m, past) PROVE Quiet
  BY <1>0, <1>4 DEF SetCloseTime, requests, Quiet, Market
<1>5. ASSUME NEW m \in MarketIds, CancelMarket(m) PROVE Quiet
  BY <1>0, <1>5 DEF CancelMarket, requests, Quiet, Market
<1>6. ASSUME NEW r \in statusReqs, WriteStatus(r) PROVE Quiet
  BY <1>0, <1>6 DEF WriteStatus, Quiet, Market
<1>7. ASSUME NEW b \in bets, NEW key, ReadBet(b, key) PROVE Quiet
  BY <1>7 DEF ReadBet, tables, Quiet
<1>8. ASSUME NEW r \in cashoutReqs, CashoutFails(r) PROVE Quiet
  BY <1>8 DEF CashoutFails, tables, Quiet
<1> QED BY <1>1, <1>2, <1>3, <1>4, <1>5, <1>6, <1>7, <1>8 DEF Next

(* The keys of the settlements differ from each other and from all others. *)
LEMMA SettleKeys ==
    /\ \A m, n \in MarketIds, u, v \in Users :
          SettleKey(m, u) = SettleKey(n, v) => m = n /\ u = v
    /\ \A m \in MarketIds, u \in Users :
          SettleKey(m, u) \notin ClientKeys \cup DepositKeys
BY ManagerAssumption DEF SettleKey

(* The transfers of a settlement: one to each account with a bet on the winning
   outcome, of the sum of the payouts of its bets, under a key not used before. *)
LEMMA SettlePays ==
    ASSUME TypeInv, NEW o \in OutcomeIds, SettleMarket(o)
    PROVE  \E W \in SUBSET Users : \E due \in [W -> Nat] :
              /\ W = {b.account : b \in PaidBets(o)}
              /\ \A u \in W : ~ KeyUsed(SettleKey(MarketOf[o], u))
              /\ transfers' = transfers \cup
                   {[key |-> SettleKey(MarketOf[o], u), from |-> MarketOf[o], to |-> u,
                     amount |-> due[u]] : u \in W}
              /\ \A u \in W : due[u] = SumPayout({b \in PaidBets(o) : b.account = u})
<1> DEFINE m == MarketOf[o]
           key(W) == [u \in W |-> SettleKey(m, u)]
<1>1. PICK W \in SUBSET Users : \E due \in [W -> Nat] :
        /\ W = {b.account : b \in PaidBets(o)}
        /\ \A u \in W : due[u] = SumPayout({b \in PaidBets(o) : b.account = u})
        /\ TransferAll(m, due, key(W))
  BY SettleTransfers
<1>2. PICK due \in [W -> Nat] :
        /\ W = {b.account : b \in PaidBets(o)}
        /\ \A u \in W : due[u] = SumPayout({b \in PaidBets(o) : b.account = u})
        /\ TransferAll(m, due, key(W))
  BY <1>1
<1>3. DOMAIN due = W
  OBVIOUS
<1>4. /\ \A u \in W : ~ KeyUsed(key(W)[u])
      /\ transfers' = transfers \cup
           {[key |-> key(W)[u], from |-> m, to |-> u, amount |-> due[u]] : u \in W}
  <2> HIDE DEF key, m
  <2> QED BY <1>2, <1>3 DEF TransferAll
<1>5. {[key |-> key(W)[u], from |-> m, to |-> u, amount |-> due[u]] : u \in W}
      = {[key |-> SettleKey(m, u), from |-> m, to |-> u, amount |-> due[u]] : u \in W}
  OBVIOUS
<1>6. \A u \in W : ~ KeyUsed(SettleKey(m, u))
  BY <1>4
<1>7. transfers' = transfers \cup
        {[key |-> SettleKey(m, u), from |-> m, to |-> u, amount |-> due[u]] : u \in W}
  BY <1>4, <1>5
<1> QED BY <1>2, <1>6, <1>7

(* A cashout in progress is of a bet that exists. *)
RequestsOfBets == \A r \in cashoutReqs : r.bet \in bets

MoneyInv == TypeInv /\ MoneyTrail /\ RequestsOfBets

(* A transfer that has its reason in the tables after the step. *)
HasReason(t) ==
    \/ t.from = Custody /\ t.key \in DepositKeys
    \/ \E b \in bets : t = BetTransfer(b)
    \/ \E c \in cashouts : t = CashoutTransfer(c)
    \/ \E m \in MarketIds, u \in Users :
          /\ t.key = SettleKey(m, u) /\ t.from = m /\ t.to = u
          /\ resolutions[m] # None
          /\ \E b \in bets : b.outcome = resolutions[m] /\ b.account = u

(* A reason stays when no row is deleted and no resolution is changed. *)
LEMMA ReasonsStay ==
    ASSUME bets \subseteq bets', cashouts \subseteq cashouts',
           \A m \in MarketIds : resolutions[m] # None => resolutions'[m] = resolutions[m],
           NEW t, HasReason(t)
    PROVE  HasReason(t)'
<1>1. CASE t.from = Custody /\ t.key \in DepositKeys
  BY <1>1 DEF HasReason
<1>2. CASE \E b \in bets : t = BetTransfer(b)
  BY <1>2 DEF HasReason, BetTransfer
<1>3. CASE \E c \in cashouts : t = CashoutTransfer(c)
  BY <1>3 DEF HasReason, CashoutTransfer
<1>4. ASSUME NEW m \in MarketIds, NEW u \in Users,
             t.key = SettleKey(m, u), t.from = m, t.to = u, resolutions[m] # None,
             \E b \in bets : b.outcome = resolutions[m] /\ b.account = u
      PROVE  HasReason(t)'
  <2>1. /\ resolutions'[m] # None
        /\ \E b \in bets' : b.outcome = resolutions'[m] /\ b.account = u
    BY <1>4
  <2> QED BY <1>4, <2>1 DEF HasReason
<1> QED BY <1>1, <1>2, <1>3, <1>4 DEF HasReason

(* A transfer with a fresh key leaves one transfer per key. *)
LEMMA OneMoreTransfer ==
    ASSUME OneTransferPerKey, NEW from, NEW to, NEW amount, NEW key,
           TransferMoney(from, to, amount, key)
    PROVE  OneTransferPerKey'
<1> DEFINE t == [key |-> key, from |-> from, to |-> to, amount |-> amount]
<1>1. t.key = key /\ transfers' = transfers \cup {t}
  BY DEF TransferMoney
<1>2. \A s \in transfers : s.key # key
  BY DEF TransferMoney, KeyUsed
<1> HIDE DEF t
<1> QED BY <1>1, <1>2 DEF OneTransferPerKey
(* Each step that moves money writes the row that explains it in the same
   transaction, under a key that no other transfer has. *)
LEMMA MoneyStep == ASSUME MoneyInv, [Next]_vars PROVE MoneyInv'
<1> USE ManagerAssumption
<1>0. /\ TypeInv /\ OneTransferPerKey /\ RequestsOfBets
      /\ \A b \in bets : BetTransfer(b) \in transfers
      /\ \A c \in cashouts : c.bet \in bets /\ CashoutTransfer(c) \in transfers
      /\ \A t \in transfers : HasReason(t)
  BY DEF MoneyInv, MoneyTrail, HasReason
<1>t. TypeInv'
  BY <1>0, TypeStep
<1>g. SUFFICES /\ OneTransferPerKey' /\ RequestsOfBets'
               /\ \A b \in bets' : BetTransfer(b) \in transfers'
               /\ \A c \in cashouts' : c.bet \in bets' /\ CashoutTransfer(c) \in transfers'
               /\ \A t \in transfers' : HasReason(t)'
  BY <1>t DEF MoneyInv, MoneyTrail, HasReason, BetTransfer, CashoutTransfer
<1>1. CASE Quiet
  <2>1. UNCHANGED <<bets, cashouts, resolutions, transfers>>
    BY <1>1 DEF Quiet, ledgerVars
  <2>2. OneTransferPerKey'
    BY <1>0, <2>1 DEF OneTransferPerKey
  <2>3. RequestsOfBets'
    BY <1>0, <1>1, <2>1 DEF RequestsOfBets, Quiet
  <2>4. \A t \in transfers' : HasReason(t)'
    BY <1>0, <2>1, ReasonsStay
  <2> QED BY <1>0, <2>1, <2>2, <2>3, <2>4
<1>2. ASSUME NEW a \in Users \cup MarketIds, NEW n \in Deposits, NEW k \in DepositKeys,
             Deposit(a, n, k)
      PROVE  /\ OneTransferPerKey' /\ RequestsOfBets'
             /\ \A b \in bets' : BetTransfer(b) \in transfers'
             /\ \A c \in cashouts' : c.bet \in bets' /\ CashoutTransfer(c) \in transfers'
             /\ \A t \in transfers' : HasReason(t)'
  <2> DEFINE new == [key |-> k, from |-> Custody, to |-> a, amount |-> n]
  <2>1. /\ UNCHANGED <<bets, cashouts, resolutions, cashoutReqs>>
        /\ transfers' = transfers \cup {new}
        /\ TransferMoney(Custody, a, n, k)
    BY <1>2 DEF Deposit, tables, requests, TransferMoney
  <2>2. OneTransferPerKey'
    BY <1>0, <2>1, OneMoreTransfer
  <2>3. HasReason(new)'
    BY DEF HasReason
  <2>4. \A t \in transfers : HasReason(t)'
    BY <1>0, <2>1, ReasonsStay
  <2> HIDE DEF new
  <2>5. RequestsOfBets'
    BY <1>0, <2>1 DEF RequestsOfBets
  <2> QED BY <1>0, <2>1, <2>2, <2>3, <2>4, <2>5
<1>3. ASSUME NEW u \in Users, NEW o \in OutcomeIds, NEW side \in Side,
             NEW amount \in Stakes, NEW gain \in Payouts, NEW key \in ClientKeys,
             AddBet(u, o, side, amount, gain, key)
      PROVE  /\ OneTransferPerKey' /\ RequestsOfBets'
             /\ \A b \in bets' : BetTransfer(b) \in transfers'
             /\ \A c \in cashouts' : c.bet \in bets' /\ CashoutTransfer(c) \in transfers'
             /\ \A t \in transfers' : HasReason(t)'
  <2> DEFINE row == BetRow(u, o, side, amount, gain, key)
             new == [key |-> key, from |-> u, to |-> MarketOf[o], amount |-> amount]
  <2>1. /\ UNCHANGED <<cashouts, resolutions, cashoutReqs>>
        /\ bets' = bets \cup {row}
        /\ transfers' = transfers \cup {new}
        /\ TransferMoney(u, MarketOf[o], amount, key)
    BY <1>3 DEF AddBet, requests, TransferMoney
  <2>2. BetTransfer(row) = new
    BY DEF BetTransfer, BetRow
  <2> HIDE DEF new, row
  <2>3. OneTransferPerKey'
    BY <1>0, <2>1, OneMoreTransfer
  <2>4. HasReason(new)'
    BY <2>1, <2>2 DEF HasReason, BetTransfer
  <2>5. \A t \in transfers : HasReason(t)'
    BY <1>0, <2>1, ReasonsStay
  <2>6. RequestsOfBets'
    BY <1>0, <2>1 DEF RequestsOfBets
  <2> QED BY <1>0, <2>1, <2>2, <2>3, <2>4, <2>5, <2>6
<1>4. ASSUME NEW r \in cashoutReqs, NEW gain \in SellQuotes(r.bet.payout),
             CashoutBet(r, gain)
      PROVE  /\ OneTransferPerKey' /\ RequestsOfBets'
             /\ \A b \in bets' : BetTransfer(b) \in transfers'
             /\ \A c \in cashouts' : c.bet \in bets' /\ CashoutTransfer(c) \in transfers'
             /\ \A t \in transfers' : HasReason(t)'
  <2> DEFINE m == MarketOf[r.bet.outcome]
             row == [key |-> r.key, bet |-> r.bet, payout |-> gain]
             new == [key |-> r.key, from |-> m, to |-> r.bet.account, amount |-> gain]
  <2>1. /\ UNCHANGED <<bets, resolutions>>
        /\ cashoutReqs' \subseteq cashoutReqs
        /\ cashouts' = cashouts \cup {row}
        /\ transfers' = transfers \cup {new}
        /\ TransferMoney(m, r.bet.account, gain, r.key)
    BY <1>4 DEF CashoutBet, TransferMoney
  <2>2. CashoutTransfer(row) = new /\ row.bet = r.bet
    BY DEF CashoutTransfer
  <2>3. r.bet \in bets
    BY <1>0 DEF RequestsOfBets
  <2> HIDE DEF new, row
  <2>4. OneTransferPerKey'
    BY <1>0, <2>1, OneMoreTransfer
  <2>5. HasReason(new)'
    BY <2>1, <2>2 DEF HasReason, CashoutTransfer
  <2>6. \A t \in transfers : HasReason(t)'
    BY <1>0, <2>1, ReasonsStay
  <2>7. RequestsOfBets'
    BY <1>0, <2>1 DEF RequestsOfBets
  <2> QED BY <1>0, <2>1, <2>2, <2>3, <2>4, <2>5, <2>6, <2>7
<1>5. ASSUME NEW o \in OutcomeIds, SettleMarket(o)
      PROVE  /\ OneTransferPerKey' /\ RequestsOfBets'
             /\ \A b \in bets' : BetTransfer(b) \in transfers'
             /\ \A c \in cashouts' : c.bet \in bets' /\ CashoutTransfer(c) \in transfers'
             /\ \A t \in transfers' : HasReason(t)'
  <2> DEFINE m == MarketOf[o]
  <2>0. PICK W \in SUBSET Users : \E due \in [W -> Nat] :
          /\ W = {b.account : b \in PaidBets(o)}
          /\ \A u \in W : ~ KeyUsed(SettleKey(MarketOf[o], u))
          /\ transfers' = transfers \cup
               {[key |-> SettleKey(MarketOf[o], u), from |-> MarketOf[o], to |-> u,
                 amount |-> due[u]] : u \in W}
          /\ \A u \in W : due[u] = SumPayout({b \in PaidBets(o) : b.account = u})
    BY <1>0, <1>5, SettlePays
  <2>1. PICK due \in [W -> Nat] :
          /\ W = {b.account : b \in PaidBets(o)}
          /\ \A u \in W : ~ KeyUsed(SettleKey(MarketOf[o], u))
          /\ transfers' = transfers \cup
               {[key |-> SettleKey(MarketOf[o], u), from |-> MarketOf[o], to |-> u,
                 amount |-> due[u]] : u \in W}
          /\ \A u \in W : due[u] = SumPayout({b \in PaidBets(o) : b.account = u})
    BY <2>0
  <2> DEFINE Pay(u) == [key |-> SettleKey(m, u), from |-> m, to |-> u, amount |-> due[u]]
  <2>2. m \in MarketIds /\ o # None /\ resolutions \in [MarketIds -> OutcomeIds \cup {None}]
    BY <1>0 DEF TypeInv, TypeOK
  <2>3. /\ UNCHANGED <<bets, cashouts, cashoutReqs>>
        /\ resolutions[m] = None
        /\ resolutions' = [resolutions EXCEPT ![m] = o]
    BY <1>5 DEF SettleMarket, requests
  <2>4. \A u \in W : /\ Pay(u).key = SettleKey(m, u) /\ Pay(u).from = m /\ Pay(u).to = u
                     /\ u \in Users
    OBVIOUS
  <2> HIDE DEF Pay
  <2>5. transfers' = transfers \cup {Pay(u) : u \in W}
    BY <2>1 DEF Pay
  <2>6. OneTransferPerKey'
    <3>1. \A u, v \in W : Pay(u).key = Pay(v).key => u = v
      BY <2>2, <2>4, SettleKeys
    <3>2. \A t \in transfers, u \in W : t.key # Pay(u).key
      BY <2>1, <2>4 DEF KeyUsed
    <3> QED BY <1>0, <2>5, <3>1, <3>2 DEF OneTransferPerKey
  <2>7. \A t \in transfers : HasReason(t)'
    BY <1>0, <2>2, <2>3, ReasonsStay
  <2>8. ASSUME NEW u \in W PROVE HasReason(Pay(u))'
    <3>1. PICK b \in bets : b.outcome = o /\ b.account = u
      BY <2>1 DEF PaidBets
    <3>2. resolutions'[m] = o /\ b \in bets'
      BY <2>2, <2>3
    <3> QED BY <2>2, <2>4, <3>1, <3>2 DEF HasReason
  <2>9. RequestsOfBets'
    BY <1>0, <2>3 DEF RequestsOfBets
  <2> QED BY <1>0, <2>3, <2>5, <2>6, <2>7, <2>8, <2>9
<1> QED BY <1>0, <1>1, <1>2, <1>3, <1>4, <1>5, MoneyActions

(* Every bet and every cashout was paid for, every transfer has its reason, and
   no idempotency key pays twice, although bets, cashouts and settlements share
   the key space of ledger_transfers. *)
THEOREM MoneyAccountedFor == Spec => []MoneyTrail
<1>1. Init => MoneyInv
  BY TypeInit DEF Init, LedgerInit, MoneyInv, MoneyTrail, OneTransferPerKey, RequestsOfBets
<1>2. MoneyInv /\ [Next]_vars => MoneyInv'
  BY MoneyStep
<1>3. MoneyInv => MoneyTrail
  BY DEF MoneyInv
<1> QED BY <1>1, <1>2, <1>3, PTL DEF Spec
-----------------------------------------------------------------------------
(* The counters of stakes. *)

(* The stakes of no bet, and of one bet more. *)
LEMMA SumPaidNone == SumPaid({}) = 0
<1>1. DOMAIN [b \in {} |-> b.paid] = {}
  OBVIOUS
<1> QED BY <1>1, SumEmpty DEF SumPaid, SumFunction

(* A bet that is added adds its stake. *)
LEMMA SumPaidAdd ==
    ASSUME NEW S \in SUBSET Bet, IsFiniteSet(S), NEW b \in Bet, b \notin S
    PROVE  SumPaid(S \cup {b}) = SumPaid(S) + b.paid
<1> DEFINE f == [x \in S \cup {b} |-> x.paid]
           g == [x \in S |-> x.paid]
<1>1. (\A x \in S : f[x] \in Int /\ f[x] = g[x]) /\ f[b] \in Int /\ f[b] = b.paid
  BY DEF Bet
<1>2. DOMAIN f = S \cup {b} /\ DOMAIN g = S
  OBVIOUS
<1>3. SumPaid(S \cup {b}) = SumFunctionOnSet(f, S \cup {b}) /\ SumPaid(S) = SumFunctionOnSet(g, S)
  BY <1>2 DEF SumPaid, SumFunction
<1> HIDE DEF f, g
<1>4. SumFunctionOnSet(f, S \cup {b}) = SumFunctionOnSet(f, S) + f[b]
  BY <1>1, SumAdd
<1>5. SumFunctionOnSet(f, S) = SumFunctionOnSet(g, S)
  BY <1>1, SumSame
<1> QED BY <1>1, <1>3, <1>4, <1>5

(* AddBet adds its stake to the volume of its market and to the total of its
   user; nothing else takes a bet or moves these counters. *)
LEMMA StakesStep == ASSUME TypeInv, StakesCounted, [Next]_vars PROVE StakesCounted'
<1> USE ManagerAssumption
<1>t. /\ markets \in [MarketIds -> Market] /\ totalWagered \in [Users -> Nat]
      /\ bets \subseteq Bet /\ IsFiniteSet(bets)
  BY DEF TypeInv, TypeOK
<1>0. ASSUME UNCHANGED <<bets, totalWagered>>,
             \A m \in MarketIds : markets'[m].volume = markets[m].volume
      PROVE  StakesCounted'
  BY <1>0 DEF StakesCounted, BetsOn
<1>1. CASE Quiet
  BY <1>0, <1>1 DEF Quiet
<1>2. ASSUME NEW a, NEW n, NEW k, Deposit(a, n, k) PROVE StakesCounted'
  BY <1>0, <1>2 DEF Deposit, tables
<1>3. ASSUME NEW r \in cashoutReqs, NEW gain, CashoutBet(r, gain) PROVE StakesCounted'
  <2>1. \A m \in MarketIds : markets'[m].volume = markets[m].volume
    BY <1>t, <1>3 DEF CashoutBet, Market
  <2> QED BY <1>0, <1>3, <2>1 DEF CashoutBet
<1>4. ASSUME NEW o \in OutcomeIds, SettleMarket(o) PROVE StakesCounted'
  <2>1. \A m \in MarketIds : markets'[m].volume = markets[m].volume
    BY <1>t, <1>4 DEF SettleMarket, Market
  <2> QED BY <1>0, <1>4, <2>1 DEF SettleMarket
<1>5. ASSUME NEW u \in Users, NEW o \in OutcomeIds, NEW side \in Side,
             NEW amount \in Stakes, NEW gain \in Payouts, NEW key \in ClientKeys,
             AddBet(u, o, side, amount, gain, key)
      PROVE  StakesCounted'
  <2> DEFINE row == BetRow(u, o, side, amount, gain, key)
             mk == MarketOf[o]
  <2>1. /\ mk \in MarketIds /\ row \in Bet /\ row.paid = amount /\ row.account = u
        /\ row.outcome = o /\ row.key = key
    BY DEF BetRow, Bet
  <2>2. /\ bets' = bets \cup {row} /\ \A b \in bets : b.key # key
        /\ markets' = [markets EXCEPT ![mk].version = @ + 1, ![mk].volume = @ + amount]
        /\ totalWagered' = [totalWagered EXCEPT ![u] = @ + amount]
    BY <1>5 DEF AddBet, Wagered
  <2>3. \A m \in MarketIds :
           markets'[m].volume = IF m = mk THEN markets[m].volume + amount ELSE markets[m].volume
    BY <1>t, <2>1, <2>2 DEF Market
  <2>4. \A v \in Users :
           totalWagered'[v] = IF v = u THEN totalWagered[v] + amount ELSE totalWagered[v]
    BY <1>t, <2>2
  <2> HIDE DEF row, mk
  <2>5. row \notin bets
    BY <2>1, <2>2
  <2>6. ASSUME NEW m \in MarketIds PROVE markets'[m].volume = SumPaid(BetsOn(m)')
    <3>1. BetsOn(m)' = IF m = mk THEN BetsOn(m) \cup {row} ELSE BetsOn(m)
      BY <2>1, <2>2 DEF BetsOn, mk
    <3>2. BetsOn(m) \in SUBSET bets /\ BetsOn(m) \in SUBSET Bet /\ row \notin BetsOn(m)
      BY <1>t, <2>5 DEF BetsOn
    <3>3. IsFiniteSet(BetsOn(m))
      BY <1>t, <3>2, FS_Subset
    <3>4. SumPaid(BetsOn(m) \cup {row}) = SumPaid(BetsOn(m)) + row.paid
      BY <2>1, <3>2, <3>3, SumPaidAdd
    <3>5. markets[m].volume = SumPaid(BetsOn(m))
      BY DEF StakesCounted
    <3> QED BY <2>1, <2>3, <3>1, <3>4, <3>5
  <2>7. ASSUME NEW v \in Users
        PROVE  totalWagered'[v] = SumPaid({b \in bets' : b.account = v})
    <3> DEFINE mine == {b \in bets : b.account = v}
    <3>1. {b \in bets' : b.account = v} = IF v = u THEN mine \cup {row} ELSE mine
      BY <2>1, <2>2
    <3>2. mine \in SUBSET bets /\ mine \in SUBSET Bet /\ row \notin mine
      BY <1>t, <2>5
    <3>3. totalWagered[v] = SumPaid(mine)
      BY DEF StakesCounted
    <3> HIDE DEF mine
    <3>4. IsFiniteSet(mine)
      BY <1>t, <3>2, FS_Subset
    <3>5. SumPaid(mine \cup {row}) = SumPaid(mine) + row.paid
      BY <2>1, <3>2, <3>4, SumPaidAdd
    <3>6. CASE v = u
      <4>1. SumPaid({b \in bets' : b.account = v}) = SumPaid(mine \cup {row})
        BY <3>1, <3>6
      <4> QED BY <2>1, <2>4, <3>3, <3>5, <3>6, <4>1
    <3>7. CASE v # u
      <4>1. SumPaid({b \in bets' : b.account = v}) = SumPaid(mine)
        BY <3>1, <3>7
      <4> QED BY <2>4, <3>3, <3>7, <4>1
    <3> QED BY <3>6, <3>7
  <2> QED BY <2>6, <2>7 DEF StakesCounted, BetsOn
<1> QED BY <1>1, <1>2, <1>3, <1>4, <1>5, MoneyActions

(* The volume of a market and the total of a user are the sums of the stakes of
   their bets, after any number of bets, cashouts and settlements. *)
THEOREM StakesAlwaysCounted == Spec => []StakesCounted
<1>1. Init => TypeInv /\ StakesCounted
  <2> SUFFICES ASSUME Init PROVE StakesCounted
    BY TypeInit
  <2>1. \A m \in MarketIds : BetsOn(m) = {} /\ markets[m].volume = 0
    BY DEF Init, BetsOn
  <2>2. \A u \in Users : {b \in bets : b.account = u} = {} /\ totalWagered[u] = 0
    BY DEF Init
  <2> QED BY <2>1, <2>2, SumPaidNone DEF StakesCounted
<1>2. TypeInv /\ StakesCounted /\ [Next]_vars => TypeInv' /\ StakesCounted'
  BY TypeStep, StakesStep
<1> QED BY <1>1, <1>2, PTL DEF Spec
-----------------------------------------------------------------------------
(* Settlement. *)

(* A market is resolved by one of its own outcomes. *)
ResolvedByOwn ==
    \A m \in MarketIds : resolutions[m] # None => MarketOf[resolutions[m]] = m

Won(m, u) == {b \in bets : b.outcome = resolutions[m] /\ b.account = u}
PaidFor(m, u) == {t \in transfers : t.key = SettleKey(m, u)}

(* What the settlement of m owes u, as a set of transfers. *)
Owed(m, u) ==
    IF resolutions[m] # None /\ Won(m, u) # {}
      THEN {[key |-> SettleKey(m, u), from |-> m, to |-> u, amount |-> SumPayout(Won(m, u))]}
      ELSE {}

SettledInv == TypeInv /\ StatusMatchesRows /\ ResolvedByOwn /\ SettledInFull

(* A transfer under another key is not of a settlement. *)
LEMMA OtherKey ==
    ASSUME NEW m \in MarketIds, NEW u \in Users,
           NEW from, NEW to, NEW amount, NEW key \in ClientKeys \cup DepositKeys,
           TransferMoney(from, to, amount, key)
    PROVE  PaidFor(m, u)' = PaidFor(m, u)
<1> DEFINE t == [key |-> key, from |-> from, to |-> to, amount |-> amount]
<1>1. transfers' = transfers \cup {t} /\ t.key = key
  BY DEF TransferMoney
<1>2. t.key # SettleKey(m, u)
  BY <1>1, SettleKeys
<1> HIDE DEF t
<1> QED BY <1>1, <1>2 DEF PaidFor

(* Only the settlement of a market pays for it, and a bet is taken only while the
   market has no resolution. *)
LEMMA SettledStep == ASSUME SettledInv, [Next]_vars PROVE SettledInv'
<1> USE ManagerAssumption
<1>0. /\ TypeInv /\ StatusMatchesRows /\ ResolvedByOwn
      /\ \A m \in MarketIds, u \in Users : PaidFor(m, u) = Owed(m, u)
  BY DEF SettledInv, SettledInFull, PaidFor, Owed, Won
<1>t. /\ bets \subseteq Bet /\ markets \in [MarketIds -> Market]
      /\ resolutions \in [MarketIds -> OutcomeIds \cup {None}]
      /\ cashoutReqs \subseteq [bet : Bet, key : ClientKeys]
  BY <1>0 DEF TypeInv, TypeOK
<1>g. SUFFICES /\ ResolvedByOwn'
               /\ \A m \in MarketIds, u \in Users : PaidFor(m, u)' = Owed(m, u)'
  <2>1. TypeInv' /\ StatusMatchesRows'
    BY <1>0, TypeStep, StatusStep
  <2> QED BY <1>g, <2>1 DEF SettledInv, SettledInFull, PaidFor, Owed, Won
<1>k. ASSUME UNCHANGED <<bets, resolutions>>
      PROVE  ResolvedByOwn' /\ \A m \in MarketIds, u \in Users : Owed(m, u)' = Owed(m, u)
  BY <1>0, <1>k DEF ResolvedByOwn, Owed, Won, SumPayout
<1>1. CASE Quiet
  <2>1. \A m \in MarketIds, u \in Users : PaidFor(m, u)' = PaidFor(m, u)
    BY <1>1 DEF Quiet, ledgerVars, PaidFor
  <2> QED BY <1>0, <1>1, <1>k, <2>1 DEF Quiet
<1>2. ASSUME NEW a \in Users \cup MarketIds, NEW n \in Deposits, NEW k \in DepositKeys,
             Deposit(a, n, k)
      PROVE  ResolvedByOwn' /\ \A m \in MarketIds, u \in Users : PaidFor(m, u)' = Owed(m, u)'
  <2>1. UNCHANGED <<bets, resolutions>> /\ TransferMoney(Custody, a, n, k)
    BY <1>2 DEF Deposit, tables
  <2>2. \A m \in MarketIds, u \in Users : PaidFor(m, u)' = PaidFor(m, u)
    BY <2>1, OtherKey
  <2> QED BY <1>0, <1>k, <2>1, <2>2
<1>3. ASSUME NEW r \in cashoutReqs, NEW gain, CashoutBet(r, gain)
      PROVE  ResolvedByOwn' /\ \A m \in MarketIds, u \in Users : PaidFor(m, u)' = Owed(m, u)'
  <2>1. /\ UNCHANGED <<bets, resolutions>> /\ r.key \in ClientKeys
        /\ TransferMoney(MarketOf[r.bet.outcome], r.bet.account, gain, r.key)
    BY <1>t, <1>3 DEF CashoutBet
  <2>2. \A m \in MarketIds, u \in Users : PaidFor(m, u)' = PaidFor(m, u)
    BY <2>1, OtherKey
  <2> QED BY <1>0, <1>k, <2>1, <2>2
<1>4. ASSUME NEW v \in Users, NEW o \in OutcomeIds, NEW side \in Side,
             NEW amount \in Stakes, NEW gain \in Payouts, NEW key \in ClientKeys,
             AddBet(v, o, side, amount, gain, key)
      PROVE  ResolvedByOwn' /\ \A m \in MarketIds, u \in Users : PaidFor(m, u)' = Owed(m, u)'
  <2> DEFINE row == BetRow(v, o, side, amount, gain, key)
  <2>1. /\ resolutions' = resolutions /\ bets' = bets \cup {row}
        /\ TransferMoney(v, MarketOf[o], amount, key)
        /\ markets[MarketOf[o]].status = "opened"
    BY <1>4 DEF AddBet, Trading
  <2>2. row.outcome = o
    BY DEF BetRow
  <2> HIDE DEF row
  <2>3. resolutions[MarketOf[o]] = None
    BY <1>0, <2>1 DEF StatusMatchesRows
  <2>4. \A m \in MarketIds : resolutions[m] # None => resolutions[m] # o
    BY <1>0, <2>3 DEF ResolvedByOwn
  <2>5. \A m \in MarketIds, u \in Users : resolutions[m] # None => Won(m, u)' = Won(m, u)
    BY <2>1, <2>2, <2>4 DEF Won
  <2>6. \A m \in MarketIds, u \in Users : Owed(m, u)' = Owed(m, u)
    BY <2>1, <2>5 DEF Owed, SumPayout
  <2>7. \A m \in MarketIds, u \in Users : PaidFor(m, u)' = PaidFor(m, u)
    BY <2>1, OtherKey
  <2> QED BY <1>0, <2>1, <2>6, <2>7 DEF ResolvedByOwn
<1>5. ASSUME NEW o \in OutcomeIds, SettleMarket(o)
      PROVE  ResolvedByOwn' /\ \A m \in MarketIds, u \in Users : PaidFor(m, u)' = Owed(m, u)'
  <2> DEFINE mk == MarketOf[o]
  <2>0. PICK W \in SUBSET Users : \E due \in [W -> Nat] :
          /\ W = {b.account : b \in PaidBets(o)}
          /\ \A u \in W : ~ KeyUsed(SettleKey(MarketOf[o], u))
          /\ transfers' = transfers \cup
               {[key |-> SettleKey(MarketOf[o], u), from |-> MarketOf[o], to |-> u,
                 amount |-> due[u]] : u \in W}
          /\ \A u \in W : due[u] = SumPayout({b \in PaidBets(o) : b.account = u})
    BY <1>0, <1>5, SettlePays
  <2>1. PICK due \in [W -> Nat] :
          /\ W = {b.account : b \in PaidBets(o)}
          /\ \A u \in W : ~ KeyUsed(SettleKey(MarketOf[o], u))
          /\ transfers' = transfers \cup
               {[key |-> SettleKey(MarketOf[o], u), from |-> MarketOf[o], to |-> u,
                 amount |-> due[u]] : u \in W}
          /\ \A u \in W : due[u] = SumPayout({b \in PaidBets(o) : b.account = u})
    BY <2>0
  <2> DEFINE Pay(u) == [key |-> SettleKey(mk, u), from |-> mk, to |-> u, amount |-> due[u]]
  <2>2. mk \in MarketIds /\ o # None
    OBVIOUS
  <2>3. /\ bets' = bets /\ resolutions[mk] = None
        /\ resolutions' = [resolutions EXCEPT ![mk] = o]
    BY <1>5 DEF SettleMarket
  <2>4. \A u \in W : Pay(u).key = SettleKey(mk, u)
    OBVIOUS
  <2>5. transfers' = transfers \cup {Pay(u) : u \in W}
    BY <2>1
  <2>6. ResolvedByOwn'
    BY <1>0, <1>t, <2>2, <2>3 DEF ResolvedByOwn
  <2>7. ASSUME NEW m \in MarketIds \ {mk}, NEW u \in Users
        PROVE  PaidFor(m, u)' = Owed(m, u)'
    <3> HIDE DEF Pay, mk
    <3>1. PaidFor(m, u)' = PaidFor(m, u)
      BY <2>2, <2>4, <2>5, SettleKeys DEF PaidFor
    <3>2. resolutions'[m] = resolutions[m]
      BY <1>t, <2>3
    <3>3. Won(m, u)' = Won(m, u)
      BY <2>3, <3>2 DEF Won
    <3>4. Owed(m, u)' = Owed(m, u)
      BY <3>2, <3>3 DEF Owed, SumPayout
    <3> QED BY <1>0, <3>1, <3>4
  <2>8. ASSUME NEW u \in Users PROVE PaidFor(mk, u)' = Owed(mk, u)'
    <3>1. PaidFor(mk, u) = {}
      BY <1>0, <2>2, <2>3 DEF Owed
    <3>2. PaidFor(mk, u)' = IF u \in W THEN {Pay(u)} ELSE {}
      <4> HIDE DEF Pay, mk
      <4> QED BY <2>2, <2>4, <2>5, <3>1, SettleKeys DEF PaidFor
    <3>3. resolutions'[mk] = o
      BY <1>t, <2>2, <2>3
    <3>4. Won(mk, u)' = {b \in PaidBets(o) : b.account = u}
      BY <2>3, <3>3 DEF Won, PaidBets
    <3>5. u \in W <=> Won(mk, u)' # {}
      BY <2>1, <3>4
    <3>6. CASE u \notin W
      BY <3>2, <3>5, <3>6 DEF Owed
    <3>7. CASE u \in W
      <4>1. due[u] = SumPayout(Won(mk, u)')
        BY <2>1, <3>4, <3>7
      <4>2. Owed(mk, u)' = {Pay(u)}
        BY <2>2, <3>3, <3>5, <3>7, <4>1 DEF Owed, SumPayout
      <4> QED BY <3>2, <3>7, <4>2
    <3> QED BY <3>6, <3>7
  <2> QED BY <2>6, <2>7, <2>8
<1> QED BY <1>0, <1>1, <1>2, <1>3, <1>4, <1>5, MoneyActions

(* A settled market has paid every account the sum of the payouts of its bets on
   the winning outcome, in one transfer, and nobody else; bets cannot arrive
   between the sum and the final status. *)
THEOREM SettlementsComplete == Spec => []SettledInFull
<1>1. Init => SettledInv
  BY TypeInit DEF Init, LedgerInit, SettledInv, StatusMatchesRows, ResolvedByOwn, SettledInFull
<1>2. SettledInv /\ [Next]_vars => SettledInv'
  BY SettledStep
<1>3. SettledInv => SettledInFull
  BY DEF SettledInv
<1> QED BY <1>1, <1>2, <1>3, PTL DEF Spec
-----------------------------------------------------------------------------
(* Final markets. *)

KeepsFinal ==
    \A m \in MarketIds : markets[m].status \in Final =>
        /\ markets'[m].status = markets[m].status
        /\ BetsOn(m)' = BetsOn(m)
        /\ balance'[m] >= balance[m]

(* The checks of a step are made in its own transaction, or by the trigger: none
   of them lets a final market be traded, paid from or given another status. *)
LEMMA FinalStep == ASSUME TypeInv, [Next]_vars PROVE KeepsFinal
<1> USE ManagerAssumption
<1>t. /\ balance \in [Accounts -> Int] /\ markets \in [MarketIds -> Market]
      /\ statusReqs \subseteq [market : MarketIds, target : {"opened", "paused"}]
      /\ cashoutReqs \subseteq [bet : Bet, key : ClientKeys]
  BY DEF TypeInv, TypeOK, LedgerTypeOK
<1>k. ASSUME bets' = bets, balance' = balance,
             \A m \in MarketIds : markets[m].status \in Final =>
                markets'[m].status = markets[m].status
      PROVE  KeepsFinal
  BY <1>t, <1>k DEF KeepsFinal, BetsOn
<1>m. ASSUME NEW mk \in MarketIds, markets[mk].status \notin Final,
             NEW row, markets' = [markets EXCEPT ![mk] = row]
      PROVE  \A m \in MarketIds : markets[m].status \in Final =>
                m # mk /\ markets'[m].status = markets[m].status
  BY <1>t, <1>m
<1>1. CASE UNCHANGED vars
  BY <1>k, <1>1 DEF vars, tables, ledgerVars
<1>2. ASSUME NEW a \in Users \cup MarketIds, NEW n \in Deposits, NEW k \in DepositKeys,
             Deposit(a, n, k)
      PROVE  KeepsFinal
  <2>1. bets' = bets /\ markets' = markets /\ n \in Nat
    BY <1>2 DEF Deposit, tables
  <2>2. balance' = [balance EXCEPT ![Custody] = @ - n, ![a] = @ + n]
    BY <1>2 DEF Deposit, TransferMoney, Posted
  <2>3. \A m \in MarketIds : balance'[m] >= balance[m]
    BY <1>t, <2>1, <2>2
  <2> QED BY <2>1, <2>3 DEF KeepsFinal, BetsOn
<1>3. ASSUME NEW m \in MarketIds, CreateMarket(m) PROVE KeepsFinal
  BY <1>k, <1>m, <1>3 DEF CreateMarket, ledgerVars, Final
<1>4. ASSUME NEW m \in MarketIds, NEW target, ReadStatus(m, target) PROVE KeepsFinal
  BY <1>k, <1>4 DEF ReadStatus, tables, ledgerVars
<1>5. ASSUME NEW m \in MarketIds, NEW past \in BOOLEAN, SetCloseTime(m, past) PROVE KeepsFinal
  <2>1. \A n \in MarketIds : markets'[n].status = markets[n].status
    BY <1>t, <1>5 DEF SetCloseTime, Market
  <2> QED BY <1>k, <1>5, <2>1 DEF SetCloseTime, ledgerVars
<1>6. ASSUME NEW m \in MarketIds, CancelMarket(m) PROVE KeepsFinal
  <2>1. \A n \in MarketIds : markets[n].status \in Final => markets'[n] = markets[n]
    BY <1>t, <1>6 DEF CancelMarket, Final
  <2> QED BY <1>k, <1>6, <2>1 DEF CancelMarket, ledgerVars
<1>7. ASSUME NEW r \in statusReqs, WriteStatus(r) PROVE KeepsFinal
  <2>1. r.market \in MarketIds /\ r.target \notin Final
    BY <1>t DEF Final
  <2>2. \A n \in MarketIds : markets[n].status \in Final => markets'[n] = markets[n]
    BY <1>t, <1>7, <2>1 DEF WriteStatus, UpdateAllowed
  <2> QED BY <1>k, <1>7, <2>2 DEF WriteStatus, ledgerVars
<1>8. ASSUME NEW u \in Users, NEW o \in OutcomeIds, NEW side \in Side,
             NEW amount \in Stakes, NEW gain \in Payouts, NEW key \in ClientKeys,
             AddBet(u, o, side, amount, gain, key)
      PROVE  KeepsFinal
  <2> DEFINE mk == MarketOf[o]
             row == BetRow(u, o, side, amount, gain, key)
  <2>1. /\ mk \in MarketIds /\ amount \in Nat /\ row.outcome = o
        /\ markets[mk].status \notin Final
        /\ bets' = bets \cup {row}
        /\ balance' = [balance EXCEPT ![u] = @ - amount, ![mk] = @ + amount]
        /\ markets' = [markets EXCEPT ![mk].version = @ + 1, ![mk].volume = @ + amount]
    BY <1>8 DEF AddBet, Trading, Final, TransferMoney, Posted, BetRow
  <2> HIDE DEF row
  <2>2. \A m \in MarketIds : markets[m].status \in Final =>
           m # mk /\ markets'[m] = markets[m] /\ balance'[m] = balance[m]
    BY <1>t, <2>1
  <2>3. \A m \in MarketIds : m # mk => BetsOn(m)' = BetsOn(m)
    BY <2>1 DEF BetsOn
  <2> QED BY <1>t, <2>2, <2>3 DEF KeepsFinal
<1>9. ASSUME NEW b \in bets, NEW key, ReadBet(b, key) PROVE KeepsFinal
  BY <1>k, <1>9 DEF ReadBet, tables, ledgerVars
<1>10. ASSUME NEW r \in cashoutReqs, NEW gain \in SellQuotes(r.bet.payout),
              CashoutBet(r, gain)
       PROVE  KeepsFinal
  <2> DEFINE mk == MarketOf[r.bet.outcome]
  <2>0. r.bet.outcome \in OutcomeIds /\ r.bet.account \in Users
    BY <1>t DEF Bet
  <2>1. /\ mk \in MarketIds /\ gain \in Int
        /\ markets[mk].status \notin Final
        /\ bets' = bets
        /\ balance' = [balance EXCEPT ![mk] = @ - gain, ![r.bet.account] = @ + gain]
        /\ markets' = [markets EXCEPT ![mk].version = @ + 1]
    BY <1>10, <2>0 DEF CashoutBet, Trading, Final, TransferMoney, Posted, SellQuotes
  <2>2. \A m \in MarketIds : markets[m].status \in Final =>
           markets'[m] = markets[m] /\ balance'[m] = balance[m]
    BY <1>t, <2>0, <2>1
  <2> QED BY <1>t, <2>1, <2>2 DEF KeepsFinal, BetsOn
<1>11. ASSUME NEW r \in cashoutReqs, CashoutFails(r) PROVE KeepsFinal
  BY <1>k, <1>11 DEF CashoutFails, tables, ledgerVars
<1>12. ASSUME NEW o \in OutcomeIds, SettleMarket(o) PROVE KeepsFinal
  <2> DEFINE mk == MarketOf[o]
  <2>1. /\ mk \in MarketIds /\ bets' = bets
        /\ markets[mk].status \notin Final
        /\ markets' = [markets EXCEPT ![mk].status = "resolved", ![mk].version = @ + 1]
    BY <1>12 DEF SettleMarket, Final
  <2>2. PICK W \in SUBSET Users : \E due \in [W -> Nat], key \in [W -> Keys] :
          TransferAll(mk, due, key)
    BY <1>12, SettleTransfers
  <2>3. PICK due \in [W -> Nat], key \in [W -> Keys] : TransferAll(mk, due, key)
    BY <2>2
  <2>4. DOMAIN due = W
    OBVIOUS
  <2>5. \E total : balance' = [a \in Accounts |->
              IF a = mk THEN balance[a] - total
              ELSE IF a \in W THEN balance[a] + due[a]
              ELSE balance[a]]
    BY <2>3, <2>4 DEF TransferAll
  <2>6. \A m \in MarketIds : markets[m].status \in Final =>
           markets'[m] = markets[m] /\ balance'[m] = balance[m]
    BY <1>t, <2>1, <2>5
  <2> QED BY <1>t, <2>1, <2>6 DEF KeepsFinal, BetsOn
<1> QED BY <1>1, <1>2, <1>3, <1>4, <1>5, <1>6, <1>7, <1>8, <1>9, <1>10, <1>11, <1>12
        DEF Next

(* A market that is settled or cancelled stays so, takes no bet, and its house
   account pays nobody, whatever requests were checked before. *)
THEOREM FinalStaysFinal == Spec => FinalIsFinal
<1>1. Init => TypeInv
  BY TypeInit
<1>2. TypeInv /\ [Next]_vars => TypeInv' /\ [KeepsFinal]_vars
  BY TypeStep, FinalStep
<1>3. FinalIsFinal <=> [][KeepsFinal]_vars
  BY DEF FinalIsFinal, KeepsFinal
<1> QED BY <1>1, <1>2, <1>3, PTL DEF Spec
=============================================================================
