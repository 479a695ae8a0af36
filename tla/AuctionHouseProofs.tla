-------------------------- MODULE AuctionHouseProofs --------------------------
(***************************************************************************)
(* For any players, items, prices and mail ids: mail and auctions keep     *)
(* their types, lose nothing the players were told when the process dies,  *)
(* never lose or double an item, make no gold and settle every sale.       *)
(* First sums over finite sets; then what every operation on mails keeps,  *)
(* whatever is in auctions; the auctions, and the whole; gold; and what    *)
(* everybody has paid and been paid for what is on sale.                   *)
(***************************************************************************)
EXTENDS AuctionHouse, FiniteSetTheorems, NaturalsInduction, WellFoundedInduction, TLAPS

-----------------------------------------------------------------------------
(* Sums over finite sets.                                                  *)

LEMMA NaturalsWellFounded ==
  IsWellFoundedOn({r \in Nat \X Nat : r[1] < r[2]}, Nat)
  BY NatLessThanWellFounded, Zenon DEF OpToRel

LEMMA SetInduction ==
  ASSUME NEW T \in SUBSET Nat, 0 \in T, \A n \in T : n + 1 \in T
  PROVE  T = Nat
<1> DEFINE R == {r \in Nat \X Nat : r[1] < r[2]}
<1> SUFFICES ASSUME Nat \ T # {} PROVE FALSE
  OBVIOUS
<1>1. PICK x \in Nat \ T : \A y \in Nat \ T : <<y, x>> \notin R
  <2> HIDE DEF R
  <2> QED BY WFMin, NaturalsWellFounded DEF R
<1>2. x - 1 \in Nat /\ x - 1 < x /\ x - 1 + 1 = x
  BY SMT
<1>3. <<x - 1, x>> \in R
  BY <1>2, SMT
<1>4. x - 1 \in T
  <2> HIDE DEF R
  <2> QED BY <1>1, <1>2, <1>3
<1> QED BY <1>2, <1>4

\* What holds of a set when it holds of the set without any one of its elements
\* holds of every subset.
LEMMA SubsetInduction ==
  ASSUME NEW S, IsFiniteSet(S), NEW T,
         \A s \in SUBSET S : (\A x \in s : s \ {x} \in T) => s \in T
  PROVE  \A s \in SUBSET S : s \in T
<1> DEFINE N == {n \in Nat : \A s \in SUBSET S : Cardinality(s) = n => s \in T}
<1>0. \A s \in SUBSET S : IsFiniteSet(s) /\ Cardinality(s) \in Nat
  BY FS_Subset, FS_CardinalityType
<1>1. 0 \in N
  <2> SUFFICES ASSUME NEW s \in SUBSET S, Cardinality(s) = 0 PROVE s \in T
    OBVIOUS
  <2>1. s = {}
    BY <1>0, FS_EmptySet
  <2> QED BY <2>1
<1>2. ASSUME NEW n \in N PROVE n + 1 \in N
  <2>1. n \in Nat
    OBVIOUS
  <2> SUFFICES ASSUME NEW s \in SUBSET S, Cardinality(s) = n + 1 PROVE s \in T
    BY <2>1
  <2> SUFFICES ASSUME NEW x \in s PROVE s \ {x} \in T
    OBVIOUS
  <2>2. Cardinality(s \ {x}) = Cardinality(s) - 1
    BY <1>0, FS_RemoveElement
  <2>3. s \ {x} \in SUBSET S /\ Cardinality(s \ {x}) = n
    BY <2>1, <2>2
  <2> QED BY <2>3
<1>3. N = Nat
  <2> HIDE DEF N
  <2>1. N \in SUBSET Nat
    BY DEF N
  <2> QED BY <1>1, <1>2, <2>1, SetInduction
<1> QED BY <1>0, <1>3

\* The function by which the sum is defined.
IsTotal(f, S, g) ==
  g = [s \in SUBSET S |-> IF s = {} THEN 0
                          ELSE LET x == CHOOSE x \in s : TRUE IN f[x] + g[s \ {x}]]

Total(f, S) == MapThenSumSet(LAMBDA x : f[x], S)

LEMMA TotalChoose ==
  ASSUME NEW S, NEW f
  PROVE  Total(f, S) = (CHOOSE g : IsTotal(f, S, g))[S]
BY Zenon DEF Total, MapThenSumSet, MapThenFoldSet, IsTotal

Any(s) == CHOOSE x \in s : TRUE

LEMMA TotalStep ==
  ASSUME NEW S, NEW f, NEW g, IsTotal(f, S, g)
  PROVE  /\ g[{}] = 0
         /\ \A s \in SUBSET S : s # {} => Any(s) \in s /\ g[s] = f[Any(s)] + g[s \ {Any(s)}]
<1>1. \A s \in SUBSET S : g[s] = IF s = {} THEN 0 ELSE f[Any(s)] + g[s \ {Any(s)}]
  BY Zenon DEF IsTotal, Any
<1>2. \A s : s # {} => Any(s) \in s
  BY DEF Any
<1> QED BY <1>1, <1>2

LEMMA TotalExists ==
  ASSUME NEW S, IsFiniteSet(S), NEW f
  PROVE  \E g : IsTotal(f, S, g)
<1> DEFINE G(n) == {s \in SUBSET S : Cardinality(s) <= n}
           V(g, s) == IF s = {} THEN 0 ELSE f[Any(s)] + g[s \ {Any(s)}]
           T == {n \in Nat : \E g : g = [s \in G(n) |-> V(g, s)]}
<1>0. \A s \in SUBSET S : IsFiniteSet(s) /\ Cardinality(s) \in Nat /\ Cardinality(s) <= Cardinality(S)
  BY FS_Subset, FS_CardinalityType
<1>1. 0 \in T
  <2> DEFINE g == [s \in G(0) |-> 0]
  <2>1. \A s \in G(0) : s = {}
    BY <1>0, FS_EmptySet
  <2>2. g = [s \in G(0) |-> V(g, s)]
    BY <2>1
  <2> QED BY <2>2
<1>2. ASSUME NEW n \in T PROVE n + 1 \in T
  <2>1. PICK g : g = [s \in G(n) |-> V(g, s)]
    OBVIOUS
  <2> DEFINE h == [s \in G(n + 1) |-> V(g, s)]
  <2>2. ASSUME NEW s \in G(n + 1) PROVE V(g, s) = V(h, s)
    <3> SUFFICES ASSUME s # {} PROVE g[s \ {Any(s)}] = h[s \ {Any(s)}]
      OBVIOUS
    <3> DEFINE t == s \ {Any(s)}
    <3>1. Any(s) \in s
      BY DEF Any
    <3>2. t \in SUBSET S /\ Cardinality(t) = Cardinality(s) - 1
      BY <1>0, <3>1, FS_RemoveElement
    <3>3. t \in G(n) /\ t \in G(n + 1)
      BY <1>0, <3>2
    <3> HIDE DEF t, G, V
    <3>4. g[t] = V(g, t)
      BY <2>1, <3>3
    <3>5. h[t] = V(g, t)
      BY <3>3
    <3> QED BY <3>4, <3>5 DEF t
  <2>3. h = [s \in G(n + 1) |-> V(h, s)]
    <3> HIDE DEF G, V
    <3> QED BY <2>2
  <2>4. n \in Nat /\ n + 1 \in Nat
    OBVIOUS
  <2> HIDE DEF h, G, V
  <2> QED BY <2>3, <2>4
<1>3. T = Nat
  <2> HIDE DEF T
  <2>1. T \in SUBSET Nat
    BY DEF T
  <2> QED BY <1>1, <1>2, <2>1, SetInduction
<1>4. G(Cardinality(S)) = SUBSET S
  BY <1>0
<1>5. Cardinality(S) \in Nat
  BY <1>0
<1>6. PICK g : g = [s \in G(Cardinality(S)) |-> V(g, s)]
  BY <1>3, <1>5
<1>7. IsTotal(f, S, g)
  BY <1>4, <1>6 DEF IsTotal, Any
<1> QED BY <1>7

\* The terms determine the sum.
LEMMA TotalsAgree ==
  ASSUME NEW S, IsFiniteSet(S), NEW R, S \subseteq R, NEW f, NEW h, NEW g, NEW k,
         IsTotal(f, S, g), IsTotal(h, R, k), \A x \in S : f[x] = h[x]
  PROVE  \A s \in SUBSET S : g[s] = k[s]
<1>0. /\ g[{}] = 0 /\ k[{}] = 0
      /\ \A s \in SUBSET S : s # {} => Any(s) \in s /\ g[s] = f[Any(s)] + g[s \ {Any(s)}]
      /\ \A s \in SUBSET R : s # {} => k[s] = h[Any(s)] + k[s \ {Any(s)}]
  BY TotalStep
<1> DEFINE T == {s \in SUBSET S : g[s] = k[s]}
<1>1. ASSUME NEW s \in SUBSET S, \A x \in s : s \ {x} \in T PROVE s \in T
  <2>0. s \in SUBSET R
    OBVIOUS
  <2>1. CASE s = {}
    BY <1>0, <2>1
  <2>2. CASE s # {}
    <3>1. Any(s) \in s /\ g[s] = f[Any(s)] + g[s \ {Any(s)}]
      BY <1>0, <2>2
    <3>2. k[s] = h[Any(s)] + k[s \ {Any(s)}]
      BY <1>0, <2>0, <2>2
    <3>3. g[s \ {Any(s)}] = k[s \ {Any(s)}] /\ f[Any(s)] = h[Any(s)]
      BY <1>1, <3>1
    <3> QED BY <3>1, <3>2, <3>3
  <2> QED BY <2>1, <2>2
<1>2. \A s \in SUBSET S : s \in T
  <2> HIDE DEF T
  <2> QED BY <1>1, SubsetInduction
<1> QED BY <1>2

LEMMA TotalIs ==
  ASSUME NEW R, IsFiniteSet(R), NEW f, NEW k, IsTotal(f, R, k), NEW S \in SUBSET R
  PROVE  Total(f, S) = k[S]
<1>1. IsFiniteSet(S)
  BY FS_Subset
<1> DEFINE g == CHOOSE g : IsTotal(f, S, g)
<1>2. IsTotal(f, S, g)
  BY <1>1, TotalExists
<1>3. Total(f, S) = g[S]
  BY TotalChoose
<1> HIDE DEF g
<1> QED BY <1>1, <1>2, <1>3, TotalsAgree

LEMMA TotalNone ==
  ASSUME NEW f
  PROVE  Total(f, {}) = 0
<1>1. PICK g : IsTotal(f, {}, g)
  BY FS_EmptySet, TotalExists
<1> QED BY <1>1, FS_EmptySet, TotalIs, TotalStep

LEMMA TotalEqual ==
  ASSUME NEW S, IsFiniteSet(S), NEW f, NEW h, \A x \in S : f[x] = h[x]
  PROVE  Total(f, S) = Total(h, S)
<1>1. PICK g : IsTotal(f, S, g)
  BY TotalExists
<1>2. PICK k : IsTotal(h, S, k)
  BY TotalExists
<1>3. Total(f, S) = g[S]
  BY <1>1, TotalIs
<1>4. Total(h, S) = k[S]
  BY <1>2, TotalIs
<1>5. \A s \in SUBSET S : g[s] = k[s]
  BY <1>1, <1>2, TotalsAgree
<1> QED BY <1>3, <1>4, <1>5

\* The sum takes an element away, whichever it chooses.
LEMMA TotalTakes ==
  ASSUME NEW R, IsFiniteSet(R), NEW f
  PROVE  \A s \in SUBSET R : s # {} =>
           Any(s) \in s /\ Total(f, s) = f[Any(s)] + Total(f, s \ {Any(s)})
<1>1. PICK g : IsTotal(f, R, g)
  BY TotalExists
<1> SUFFICES ASSUME NEW s \in SUBSET R, s # {}
             PROVE  Any(s) \in s /\ Total(f, s) = f[Any(s)] + Total(f, s \ {Any(s)})
  OBVIOUS
<1>2. Any(s) \in s /\ g[s] = f[Any(s)] + g[s \ {Any(s)}]
  BY <1>1, TotalStep
<1>3. s \ {Any(s)} \in SUBSET R
  OBVIOUS
<1>4. Total(f, s) = g[s]
  BY <1>1, TotalIs
<1>5. Total(f, s \ {Any(s)}) = g[s \ {Any(s)}]
  BY <1>1, <1>3, TotalIs
<1> QED BY <1>2, <1>4, <1>5

LEMMA TotalType ==
  ASSUME NEW S, IsFiniteSet(S), NEW f, \A x \in S : f[x] \in Int
  PROVE  Total(f, S) \in Int
<1>0. \A s \in SUBSET S : s # {} =>
        Any(s) \in s /\ Total(f, s) = f[Any(s)] + Total(f, s \ {Any(s)})
  BY TotalTakes
<1> DEFINE T == {s \in SUBSET S : Total(f, s) \in Int}
<1>1. ASSUME NEW s \in SUBSET S, \A x \in s : s \ {x} \in T PROVE s \in T
  <2>1. CASE s = {}
    BY <2>1, TotalNone
  <2>2. CASE s # {}
    <3>1. Any(s) \in s /\ Total(f, s) = f[Any(s)] + Total(f, s \ {Any(s)})
      BY <1>0, <2>2
    <3>2. Total(f, s \ {Any(s)}) \in Int /\ f[Any(s)] \in Int
      BY <1>1, <3>1
    <3> QED BY <3>1, <3>2
  <2> QED BY <2>1, <2>2
<1>2. \A s \in SUBSET S : s \in T
  <2> HIDE DEF T
  <2> QED BY <1>1, SubsetInduction
<1> QED BY <1>2

\* Nor does it depend on the order in which it chooses them.
LEMMA TotalAdd ==
  ASSUME NEW S, IsFiniteSet(S), NEW x, x \notin S, NEW f, \A y \in S \cup {x} : f[y] \in Int
  PROVE  Total(f, S \cup {x}) = Total(f, S) + f[x]
<1> DEFINE R == S \cup {x}
           T == {s \in SUBSET S : \A y \in R \ s : Total(f, s \cup {y}) = Total(f, s) + f[y]}
<1>0. IsFiniteSet(R) /\ S \in SUBSET R /\ \A y \in R : f[y] \in Int
  BY FS_AddElement
<1> HIDE DEF R
<1>1. \A s \in SUBSET R : Total(f, s) \in Int
  BY <1>0, FS_Subset, TotalType
<1>2. \A s \in SUBSET R : s # {} =>
        Any(s) \in s /\ Total(f, s) = f[Any(s)] + Total(f, s \ {Any(s)})
  BY <1>0, TotalTakes
<1>3. ASSUME NEW s \in SUBSET S, \A z \in s : s \ {z} \in T PROVE s \in T
  <2> SUFFICES ASSUME NEW y \in R \ s PROVE Total(f, s \cup {y}) = Total(f, s) + f[y]
    OBVIOUS
  <2> DEFINE A == s \cup {y}
             c == Any(A)
             t == s \ {c}
  <2>1. A \in SUBSET R /\ A # {} /\ s \in SUBSET R /\ y \in R
    BY <1>0
  <2>2. c \in A /\ Total(f, A) = f[c] + Total(f, A \ {c})
    BY <1>2, <2>1
  <2> HIDE DEF c
  <2>3. CASE c = y
    <3>1. A \ {c} = s
      BY <2>3
    <3>2. Total(f, s) \in Int /\ f[y] \in Int
      BY <1>0, <1>1, <2>1
    <3>3. Total(f, A) = f[y] + Total(f, s)
      BY <2>2, <2>3, <3>1
    <3> QED BY <3>2, <3>3
  <2>4. CASE c # y
    <3>1. c \in s /\ A \ {c} = t \cup {y} /\ t \cup {c} = s
      BY <2>2, <2>4
    <3>2. t \in T /\ t \in SUBSET R /\ y \in R \ t /\ c \in R \ t
      BY <1>3, <2>1, <3>1
    <3> HIDE DEF t
    <3>3. Total(f, t \cup {y}) = Total(f, t) + f[y] /\ Total(f, t \cup {c}) = Total(f, t) + f[c]
      BY <3>2
    <3>4. Total(f, t) \in Int /\ f[y] \in Int /\ f[c] \in Int
      BY <1>0, <1>1, <3>2
    <3>5. Total(f, A) = f[c] + (Total(f, t) + f[y]) /\ Total(f, s) = Total(f, t) + f[c]
      BY <2>2, <3>1, <3>3
    <3> QED BY <3>4, <3>5
  <2> QED BY <2>3, <2>4
<1>4. \A s \in SUBSET S : s \in T
  <2> HIDE DEF T
  <2> QED BY <1>3, SubsetInduction
<1>5. S \in T /\ x \in R \ S
  BY <1>4 DEF R
<1> QED BY <1>5

\* One term changes.
LEMMA TotalChange ==
  ASSUME NEW S, IsFiniteSet(S), NEW x \in S, NEW f, NEW h, \A y \in S : f[y] \in Int,
         h[x] \in Int, \A y \in S \ {x} : h[y] = f[y]
  PROVE  Total(h, S) = Total(f, S) - f[x] + h[x]
<1> DEFINE R == S \ {x}
<1>1. IsFiniteSet(R) /\ R \cup {x} = S /\ x \notin R
  BY FS_Subset
<1>2. \A y \in R \cup {x} : f[y] \in Int /\ h[y] \in Int
  OBVIOUS
<1>5. \A y \in R : f[y] = h[y]
  OBVIOUS
<1> HIDE DEF R
<1>3. Total(f, S) = Total(f, R) + f[x]
  BY <1>1, <1>2, TotalAdd
<1>4. Total(h, S) = Total(h, R) + h[x]
  BY <1>1, <1>2, TotalAdd
<1>6. Total(f, R) = Total(h, R)
  BY <1>1, <1>5, TotalEqual
<1>7. Total(f, R) \in Int
  BY <1>1, <1>2, TotalType
<1> QED BY <1>3, <1>4, <1>6, <1>7

\* Sums are added term by term.
LEMMA TotalPlus ==
  ASSUME NEW S, IsFiniteSet(S), NEW f, NEW g, NEW h, \A x \in S : f[x] \in Int /\ g[x] \in Int,
         \A x \in S : h[x] = f[x] + g[x]
  PROVE  Total(h, S) = Total(f, S) + Total(g, S)
<1>0. \A s \in SUBSET S : s # {} =>
        /\ Any(s) \in s /\ Total(f, s) = f[Any(s)] + Total(f, s \ {Any(s)})
        /\ Total(g, s) = g[Any(s)] + Total(g, s \ {Any(s)}) /\ Total(h, s) = h[Any(s)] + Total(h, s \ {Any(s)})
  BY TotalTakes
<1> DEFINE T == {s \in SUBSET S : Total(h, s) = Total(f, s) + Total(g, s)}
<1>1. ASSUME NEW s \in SUBSET S, \A x \in s : s \ {x} \in T PROVE s \in T
  <2>1. CASE s = {}
    BY <2>1, TotalNone
  <2>2. CASE s # {}
    <3> DEFINE t == s \ {Any(s)}
    <3>1. Any(s) \in s /\ Total(f, s) = f[Any(s)] + Total(f, t)
      BY <1>0, <2>2
    <3>2. Total(g, s) = g[Any(s)] + Total(g, t) /\ Total(h, s) = h[Any(s)] + Total(h, t)
      BY <1>0, <2>2
    <3>3. Total(h, t) = Total(f, t) + Total(g, t)
      BY <1>1, <3>1
    <3>4. /\ f[Any(s)] \in Int /\ g[Any(s)] \in Int /\ h[Any(s)] = f[Any(s)] + g[Any(s)]
          /\ t \in SUBSET S
      BY <3>1
    <3> HIDE DEF t
    <3>5. Total(f, t) \in Int /\ Total(g, t) \in Int
      BY <3>4, FS_Subset, TotalType
    <3> QED BY <3>1, <3>2, <3>3, <3>4, <3>5
  <2> QED BY <2>1, <2>2
<1>2. \A s \in SUBSET S : s \in T
  <2> HIDE DEF T
  <2> QED BY <1>1, SubsetInduction
<1> QED BY <1>2

LEMMA TotalLess ==
  ASSUME NEW S, IsFiniteSet(S), NEW f, NEW h, \A x \in S : f[x] \in Int /\ h[x] \in Int,
         \A x \in S : h[x] <= f[x]
  PROVE  Total(h, S) <= Total(f, S)
<1>0. \A s \in SUBSET S : s # {} =>
        /\ Any(s) \in s /\ Total(f, s) = f[Any(s)] + Total(f, s \ {Any(s)})
        /\ Total(h, s) = h[Any(s)] + Total(h, s \ {Any(s)})
  BY TotalTakes
<1> DEFINE T == {s \in SUBSET S : Total(h, s) <= Total(f, s)}
<1>1. ASSUME NEW s \in SUBSET S, \A x \in s : s \ {x} \in T PROVE s \in T
  <2>1. CASE s = {}
    BY <2>1, TotalNone
  <2>2. CASE s # {}
    <3> DEFINE t == s \ {Any(s)}
    <3>1. Any(s) \in s /\ Total(f, s) = f[Any(s)] + Total(f, t)
      BY <1>0, <2>2
    <3>2. Total(h, s) = h[Any(s)] + Total(h, t)
      BY <1>0, <2>2
    <3>3. Total(h, t) <= Total(f, t)
      BY <1>1, <3>1
    <3>4. f[Any(s)] \in Int /\ h[Any(s)] \in Int /\ h[Any(s)] <= f[Any(s)] /\ t \in SUBSET S
      BY <3>1
    <3> HIDE DEF t
    <3>5. Total(f, t) \in Int /\ Total(h, t) \in Int
      BY <3>4, FS_Subset, TotalType
    <3> QED BY <3>1, <3>2, <3>3, <3>4, <3>5
  <2> QED BY <2>1, <2>2
<1>2. \A s \in SUBSET S : s \in T
  <2> HIDE DEF T
  <2> QED BY <1>1, SubsetInduction
<1> QED BY <1>2

\* Terms are put in at places where there was nothing.
Inserts(M, D, f, old, new, term) ==
  /\ f \in Injection(D, M)
  /\ \A m \in M : old[m] \in Int
  /\ \A k \in D : term[k] \in Int /\ old[f[k]] = 0 /\ new[f[k]] = term[k]
  /\ \A m \in M : (\A k \in D : f[k] # m) => new[m] = old[m]

LEMMA TotalInsert ==
  ASSUME NEW M, IsFiniteSet(M), NEW D, NEW f, NEW old, NEW new, NEW term,
         Inserts(M, D, f, old, new, term)
  PROVE  IsFiniteSet(D) /\ Total(new, M) = Total(old, M) + Total(term, D)
<1>9. /\ f \in Injection(D, M)
      /\ \A m \in M : old[m] \in Int
      /\ \A k \in D : term[k] \in Int /\ old[f[k]] = 0 /\ new[f[k]] = term[k]
      /\ \A m \in M : (\A k \in D : f[k] # m) => new[m] = old[m]
  BY DEF Inserts
<1>0. IsFiniteSet(D) /\ f \in [D -> M] /\ \A k, n \in D : f[k] = f[n] => k = n
  BY <1>9, FS_Injection DEF Injection, IsInjective
<1>8. \A s \in SUBSET D : s # {} =>
        Any(s) \in s /\ Total(term, s) = term[Any(s)] + Total(term, s \ {Any(s)})
  <2>1. IsFiniteSet(D)
    BY <1>0
  <2> QED BY <2>1, TotalTakes
<1> DEFINE With(s) == [m \in M |-> IF \E k \in s : f[k] = m THEN new[m] ELSE old[m]]
           T == {s \in SUBSET D : Total(With(s), M) = Total(old, M) + Total(term, s)}
<1>1. \A s \in SUBSET D : \A m \in M : With(s)[m] \in Int
  BY <1>0, <1>9
<1>2. Total(old, M) \in Int
  BY <1>9, TotalType
<1>3. ASSUME NEW s \in SUBSET D, \A x \in s : s \ {x} \in T PROVE s \in T
  <2>1. CASE s = {}
    <3>1. \A m \in M : With(s)[m] = old[m]
      BY <1>9, <2>1
    <3> HIDE DEF With
    <3>2. Total(With(s), M) = Total(old, M)
      BY <3>1, TotalEqual
    <3> QED BY <1>2, <2>1, <3>2, TotalNone
  <2>2. CASE s # {}
    <3> DEFINE c == Any(s)
               t == s \ {c}
    <3>1. c \in s /\ Total(term, s) = term[c] + Total(term, t)
      BY <1>8, <2>2
    <3> HIDE DEF c
    <3>2. f[c] \in M /\ t \in SUBSET D /\ term[c] \in Int /\ IsFiniteSet(t)
      BY <1>0, <1>9, <3>1, FS_Subset
    <3>3. /\ With(t)[f[c]] = 0 /\ With(s)[f[c]] = term[c]
          /\ \A m \in M \ {f[c]} : With(s)[m] = With(t)[m]
      BY <1>0, <1>9, <3>1, <3>2
    <3>4. Total(With(t), M) = Total(old, M) + Total(term, t)
      BY <1>3, <3>1
    <3>5. \A m \in M : With(t)[m] \in Int
      BY <1>1, <3>2
    <3>6. Total(term, t) \in Int
      BY <1>9, <3>2, TotalType
    <3> HIDE DEF t, With
    <3>7. Total(With(s), M) = Total(With(t), M) - With(t)[f[c]] + With(s)[f[c]]
      BY <3>2, <3>3, <3>5, TotalChange
    <3>8. Total(With(s), M) = Total(old, M) + Total(term, s)
      BY <1>2, <3>1, <3>2, <3>3, <3>4, <3>6, <3>7
    <3> QED BY <3>8
  <2> QED BY <2>1, <2>2
<1>4. \A s \in SUBSET D : s \in T
  <2> HIDE DEF T
  <2> QED BY <1>0, <1>3, SubsetInduction
<1>5. \A m \in M : With(D)[m] = new[m]
  BY <1>9
<1>6. Total(With(D), M) = Total(old, M) + Total(term, D)
  BY <1>4
<1> HIDE DEF With
<1>7. Total(With(D), M) = Total(new, M)
  BY <1>5, TotalEqual
<1> QED BY <1>0, <1>6, <1>7

\* A sum of zeros.
LEMMA TotalZero ==
  ASSUME NEW S, IsFiniteSet(S), NEW f, \A x \in S : f[x] = 0
  PROVE  Total(f, S) = 0
<1>0. \A s \in SUBSET S : s # {} =>
        Any(s) \in s /\ Total(f, s) = f[Any(s)] + Total(f, s \ {Any(s)})
  BY TotalTakes
<1> DEFINE T == {s \in SUBSET S : Total(f, s) = 0}
<1>1. ASSUME NEW s \in SUBSET S, \A x \in s : s \ {x} \in T PROVE s \in T
  <2>1. CASE s = {}
    BY <2>1, TotalNone
  <2>2. CASE s # {}
    <3>1. Any(s) \in s /\ Total(f, s) = f[Any(s)] + Total(f, s \ {Any(s)})
      BY <1>0, <2>2
    <3>2. Total(f, s \ {Any(s)}) = 0 /\ f[Any(s)] = 0
      BY <1>1, <3>1
    <3> QED BY <3>1, <3>2
  <2> QED BY <2>1, <2>2
<1>2. \A s \in SUBSET S : s \in T
  <2> HIDE DEF T
  <2> QED BY <1>1, SubsetInduction
<1> QED BY <1>2

\* The terms of a part.
Within(S, P, f, h) ==
  /\ P \in SUBSET S /\ \A x \in P : f[x] \in Int
  /\ \A x \in S : h[x] = IF x \in P THEN f[x] ELSE 0

LEMMA TotalPart ==
  ASSUME NEW S, IsFiniteSet(S), NEW P, NEW f, NEW h, Within(S, P, f, h)
  PROVE  Total(h, S) = Total(f, P)
<1>0. /\ P \in SUBSET S /\ \A x \in P : f[x] \in Int
      /\ \A x \in S : h[x] = IF x \in P THEN f[x] ELSE 0
  BY DEF Within
<1> DEFINE id == [x \in P |-> x]
           none == [x \in S |-> 0]
<1>1. id \in Injection(P, S)
  BY <1>0 DEF Injection, IsInjective
<1>2. Inserts(S, P, id, none, h, f)
  BY <1>0, <1>1 DEF Inserts
<1>3. Total(none, S) = 0
  BY TotalZero
<1>4. Total(f, P) \in Int
  BY <1>0, FS_Subset, TotalType
<1> HIDE DEF id, none
<1>5. Total(h, S) = Total(none, S) + Total(f, P)
  BY <1>2, TotalInsert
<1> QED BY <1>3, <1>4, <1>5

\* One, two and three terms.
LEMMA TotalFew ==
  ASSUME NEW f
  PROVE  /\ f[1] \in Int => Total(f, {1}) = f[1]
         /\ f[1] \in Int /\ f[2] \in Int => Total(f, {1, 2}) = f[1] + f[2]
         /\ f[1] \in Int /\ f[2] \in Int /\ f[3] \in Int =>
              Total(f, {1, 2, 3}) = f[1] + f[2] + f[3]
<1>1. ASSUME f[1] \in Int PROVE Total(f, {1}) = f[1]
  <2>1. Total(f, {} \cup {1}) = Total(f, {}) + f[1]
    BY <1>1, FS_EmptySet, TotalAdd
  <2>2. {} \cup {1} = {1}
    OBVIOUS
  <2> QED BY <1>1, <2>1, <2>2, TotalNone
<1>2. ASSUME f[1] \in Int, f[2] \in Int PROVE Total(f, {1, 2}) = f[1] + f[2]
  <2>1. \A y \in {1} \cup {2} : f[y] \in Int
    BY <1>2
  <2>4. IsFiniteSet({1})
    BY FS_Singleton
  <2>5. 2 \notin {1}
    OBVIOUS
  <2>2. Total(f, {1} \cup {2}) = Total(f, {1}) + f[2]
    BY <2>1, <2>4, <2>5, TotalAdd
  <2>3. {1} \cup {2} = {1, 2}
    OBVIOUS
  <2> QED BY <1>1, <1>2, <2>2, <2>3
<1>3. ASSUME f[1] \in Int, f[2] \in Int, f[3] \in Int
      PROVE  Total(f, {1, 2, 3}) = f[1] + f[2] + f[3]
  <2>1. \A y \in {1, 2} \cup {3} : f[y] \in Int
    BY <1>3
  <2>2. IsFiniteSet({1, 2})
    <3>1. {1, 2} = {1} \cup {2} /\ IsFiniteSet({1})
      BY FS_Singleton
    <3>2. IsFiniteSet({1} \cup {2})
      BY <3>1, FS_AddElement
    <3> QED BY <3>1, <3>2
  <2>3. Total(f, {1, 2} \cup {3}) = Total(f, {1, 2}) + f[3]
    BY <2>1, <2>2, TotalAdd
  <2>4. {1, 2} \cup {3} = {1, 2, 3}
    OBVIOUS
  <2> QED BY <1>2, <1>3, <2>3, <2>4
<1> QED BY <1>1, <1>2, <1>3

\* One term.
LEMMA TotalOnly ==
  ASSUME NEW S, IsFiniteSet(S), NEW x \in S, NEW f, f[x] \in Int, \A y \in S \ {x} : f[y] = 0
  PROVE  Total(f, S) = f[x]
<1> DEFINE none == [y \in S |-> 0]
<1>1. /\ \A y \in S : none[y] = 0 /\ none[y] \in Int
      /\ \A y \in S \ {x} : f[y] = none[y]
  OBVIOUS
<1> HIDE DEF none
<1>2. Total(none, S) = 0
  BY <1>1, TotalZero
<1>3. Total(f, S) = Total(none, S) - none[x] + f[x]
  BY <1>1, TotalChange
<1> QED BY <1>1, <1>2, <1>3

\* A term is dropped.
Drops(S, x, f, h) ==
  x \in S /\ (\A y \in S : f[y] \in Int) /\ h[x] = 0 /\ \A y \in S \ {x} : h[y] = f[y]

LEMMA TotalDrop ==
  ASSUME NEW S, IsFiniteSet(S), NEW x, NEW f, NEW h, Drops(S, x, f, h)
  PROVE  Total(h, S) = Total(f, S) - f[x]
<1>1. /\ x \in S /\ h[x] = 0 /\ f[x] \in Int
      /\ \A y \in S : f[y] \in Int
      /\ \A y \in S \ {x} : h[y] = f[y]
  BY DEF Drops
<1>2. Total(h, S) = Total(f, S) - f[x] + h[x]
  BY <1>1, TotalChange
<1>3. Total(f, S) \in Int
  BY <1>1, TotalType
<1> QED BY <1>1, <1>2, <1>3

-----------------------------------------------------------------------------
(* The sums of the specification.                                          *)

Carried(rows) == [m \in MailIds |-> IF rows[m] = NoMail THEN 0 ELSE rows[m].money]
Held(aucs) == [i \in Items |-> IF aucs[i] = NoAuction THEN 0 ELSE Deposit + aucs[i].bid]

LEMMA Finite == IsFiniteSet(Players) /\ IsFiniteSet(Items) /\ IsFiniteSet(MailIds)
BY MailAssumption, FiniteAssumption

PostTotal(rows) ==
  MapThenSumSet(LAMBDA m : IF rows[m] = NoMail THEN 0 ELSE rows[m].money, MailIds)
HouseTotal(aucs) ==
  MapThenSumSet(LAMBDA i : IF aucs[i] = NoAuction THEN 0 ELSE Deposit + aucs[i].bid, Items)

LEMMA PostIs ==
  ASSUME NEW rows
  PROVE  PostTotal(rows) = Total(Carried(rows), MailIds)
<1> DEFINE P(g) == g = [s \in SUBSET MailIds |->
                          IF s = {} THEN 0
                          ELSE LET x == CHOOSE x \in s : TRUE
                               IN  (IF rows[x] = NoMail THEN 0 ELSE rows[x].money) + g[s \ {x}]]
<1>1. PostTotal(rows) = (CHOOSE g : P(g))[MailIds]
  BY Zenon DEF PostTotal, MapThenSumSet, MapThenFoldSet
<1>2. \A s \in SUBSET MailIds : s # {} => (CHOOSE x \in s : TRUE) \in MailIds
  OBVIOUS
<1>3. \A m \in MailIds : Carried(rows)[m] = IF rows[m] = NoMail THEN 0 ELSE rows[m].money
  BY DEF Carried
<1>4. \A g : P(g) <=> IsTotal(Carried(rows), MailIds, g)
  BY <1>2, <1>3 DEF IsTotal
<1>5. \E g : IsTotal(Carried(rows), MailIds, g)
  BY Finite, TotalExists
<1> DEFINE g == CHOOSE g : P(g)
<1>6. P(g)
  <2> HIDE DEF P
  <2> QED BY <1>4, <1>5
<1>7. IsTotal(Carried(rows), MailIds, g) /\ PostTotal(rows) = g[MailIds]
  BY <1>1, <1>4, <1>6
<1> HIDE DEF g, P
<1>8. MailIds \in SUBSET MailIds
  OBVIOUS
<1> QED BY <1>7, <1>8, Finite, TotalIs

LEMMA HouseIs ==
  ASSUME NEW aucs
  PROVE  HouseTotal(aucs) = Total(Held(aucs), Items)
<1> DEFINE P(g) == g = [s \in SUBSET Items |->
                          IF s = {} THEN 0
                          ELSE LET x == CHOOSE x \in s : TRUE
                               IN  (IF aucs[x] = NoAuction THEN 0 ELSE Deposit + aucs[x].bid)
                                     + g[s \ {x}]]
<1>1. HouseTotal(aucs) = (CHOOSE g : P(g))[Items]
  BY Zenon DEF HouseTotal, MapThenSumSet, MapThenFoldSet
<1>2. \A s \in SUBSET Items : s # {} => (CHOOSE x \in s : TRUE) \in Items
  OBVIOUS
<1>3. \A i \in Items : Held(aucs)[i] = IF aucs[i] = NoAuction THEN 0 ELSE Deposit + aucs[i].bid
  BY DEF Held
<1>4. \A g : P(g) <=> IsTotal(Held(aucs), Items, g)
  BY <1>2, <1>3 DEF IsTotal
<1>5. \E g : IsTotal(Held(aucs), Items, g)
  BY Finite, TotalExists
<1> DEFINE g == CHOOSE g : P(g)
<1>6. P(g)
  <2> HIDE DEF P
  <2> QED BY <1>4, <1>5
<1>7. IsTotal(Held(aucs), Items, g) /\ HouseTotal(aucs) = g[Items]
  BY <1>1, <1>4, <1>6
<1> HIDE DEF g, P
<1>8. Items \in SUBSET Items
  OBVIOUS
<1> QED BY <1>7, <1>8, Finite, TotalIs

GoldIn(rows) == [m \in MailIds |-> rows[m].money]
GoldSum(rows, S) == MapThenSumSet(LAMBDA m : rows[m].money, S)

LEMMA GoldSumIs ==
  ASSUME NEW rows, NEW S \in SUBSET MailIds
  PROVE  GoldSum(rows, S) = Total(GoldIn(rows), S)
<1> DEFINE P(g) == g = [s \in SUBSET S |->
                          IF s = {} THEN 0
                          ELSE LET x == CHOOSE x \in s : TRUE IN rows[x].money + g[s \ {x}]]
<1>1. GoldSum(rows, S) = (CHOOSE g : P(g))[S]
  BY Zenon DEF GoldSum, MapThenSumSet, MapThenFoldSet
<1>2. \A s \in SUBSET S : s # {} => (CHOOSE x \in s : TRUE) \in MailIds
  OBVIOUS
<1>3. \A m \in MailIds : GoldIn(rows)[m] = rows[m].money
  BY DEF GoldIn
<1>4. \A g : P(g) <=> IsTotal(GoldIn(rows), S, g)
  BY <1>2, <1>3 DEF IsTotal
<1>5. IsFiniteSet(S) /\ S \in SUBSET S
  BY Finite, FS_Subset
<1>6. \E g : IsTotal(GoldIn(rows), S, g)
  BY <1>5, TotalExists
<1> DEFINE g == CHOOSE g : P(g)
<1>7. P(g)
  <2> HIDE DEF P
  <2> QED BY <1>4, <1>6
<1>8. IsTotal(GoldIn(rows), S, g) /\ GoldSum(rows, S) = g[S]
  BY <1>1, <1>4, <1>7
<1> HIDE DEF g, P
<1> QED BY <1>5, <1>8, TotalIs

-----------------------------------------------------------------------------
(* What every operation on mails keeps.                                    *)

USE MailAssumption, NoMailAssumption

\* A mail that has to be paid for: it can be sent back, and has items in it and
\* no money.
CODMail(mail) == mail.kind = "normal" /\ mail.checked = "" /\ mail.items # {} /\ mail.money = 0

\* A mail that can be sent back came from a player.
Letters ==
  {mail \in Mails : /\ mail.kind = "normal" => mail.sender \in Players
                    /\ mail.cod # 0 => CODMail(mail)}

\* Nothing has to be paid for most of them.
LEMMA FreeLetter ==
  ASSUME NEW mail \in Mails, mail.kind = "normal" => mail.sender \in Players, mail.cod = 0
  PROVE  mail \in Letters
BY DEF Letters

\* What is said of a mail here.
LEMMA LetterFacts ==
  ASSUME NEW mail \in Letters
  PROVE  /\ mail \in Mails /\ mail.cod \in Nat /\ mail.money \in Nat /\ mail.items \subseteq Items
         /\ mail.receiver \in Players
         /\ mail.kind = "normal" => mail.sender \in Players
         /\ mail.cod > 0 => CODMail(mail) /\ mail.sender \in Players
<1>1. mail \in Mails /\ (mail.kind = "normal" => mail.sender \in Players)
      /\ (mail.cod # 0 => CODMail(mail))
  BY DEF Letters
<1>2. /\ mail.cod \in Nat /\ mail.money \in Nat /\ mail.items \subseteq Items
      /\ mail.receiver \in Players
  BY <1>1 DEF Mails
<1>3. CODMail(mail) => mail.kind = "normal"
  BY DEF CODMail
<1> QED BY <1>1, <1>2, <1>3

Rows == [MailIds -> Letters \cup {NoMail}]
States == [MailIds -> {"unchanged", "changed", "deleted"}]

-----------------------------------------------------------------------------
(* Sending.                                                                *)

\* Every draft has an id of its own that was free.
LEMMA DraftIds ==
  ASSUME NEW drafts, NEW f \in IdsFor(drafts)
  PROVE  /\ Range(f) \subseteq FreeIds
         /\ \A m \in Range(f) : \E k \in DOMAIN drafts :
              f[k] = m /\ DraftAt(drafts, f, m) = drafts[k]
         /\ \A k \in DOMAIN drafts : f[k] \in Range(f) /\ DraftAt(drafts, f, f[k]) = drafts[k]
<1>1. f \in [DOMAIN drafts -> FreeIds] /\ \A a, b \in DOMAIN drafts : f[a] = f[b] => a = b
  BY DEF IdsFor, Injection, IsInjective
<1>2. Range(f) = {f[k] : k \in DOMAIN drafts}
  BY <1>1 DEF Range
<1>3. ASSUME NEW m \in Range(f)
      PROVE  \E k \in DOMAIN drafts : f[k] = m /\ DraftAt(drafts, f, m) = drafts[k]
  <2> DEFINE k == CHOOSE j \in DOMAIN drafts : f[j] = m
  <2>1. k \in DOMAIN drafts /\ f[k] = m
    BY <1>2, <1>3
  <2> QED BY <2>1 DEF DraftAt
<1>4. ASSUME NEW k \in DOMAIN drafts PROVE f[k] \in Range(f) /\ DraftAt(drafts, f, f[k]) = drafts[k]
  <2>1. f[k] \in Range(f)
    BY <1>2
  <2> QED BY <1>1, <1>3, <2>1
<1> QED BY <1>1, <1>2, <1>3, <1>4

LEMMA SendTypes ==
  ASSUME NEW drafts, \A k \in DOMAIN drafts : drafts[k] \in Letters, NEW f \in IdsFor(drafts),
         NEW box \in Rows, NEW rows \in Rows
  PROVE  Delivered(box, drafts, f) \in Rows /\ Inserted(rows, drafts, f) \in Rows
<1>1. \A m \in Range(f) : DraftAt(drafts, f, m) \in Letters
  BY DraftIds
<1> QED BY <1>1 DEF Delivered, Inserted, Rows

-----------------------------------------------------------------------------
(* Saving.                                                                 *)

LEMMA KeptType ==
  ASSUME NEW mail \in Letters
  PROVE  Kept(mail) \in Letters \cup {NoMail}
BY DEF Kept

LEMMA SaveTypes ==
  ASSUME NEW p \in Players, NEW box \in Rows, NEW st \in States, NEW rows \in Rows
  PROVE  /\ Saved(p, box, st, rows) \in Rows
         /\ Unmarked(p, st, box) \in States
         /\ Discarded(p, box, st) \subseteq Items
<1>1. \A m \in MailsOf(p, box) : box[m] \in Letters /\ box[m].items \subseteq Items
  BY DEF MailsOf, Rows, Mails, Letters
<1>2. \A mark : Marked(p, box, st, mark) \subseteq MailsOf(p, box)
  BY DEF Marked
<1>3. Saved(p, box, st, rows) \in Rows
  BY <1>1, <1>2, KeptType DEF Saved, Rows
<1>4. Unmarked(p, st, box) \in States
  BY DEF Unmarked, States
<1>5. Discarded(p, box, st) \subseteq Items
  BY <1>1, <1>2 DEF Discarded
<1> QED BY <1>3, <1>4, <1>5

LEMMA CostType ==
  ASSUME NEW its \in SUBSET Items
  PROVE  Cost(its) \in Nat
<1>1. Cardinality(its) \in Nat
  BY FS_Subset, FS_CardinalityType
<1>2. \A a, b \in Nat : a * b \in Nat
  OBVIOUS
<1> QED BY <1>1, <1>2 DEF Cost

\* The mails and what is marked on them; the players and what they have.
PostTypeOK ==
  /\ inbox \in Rows /\ dbMail \in Rows /\ state \in States /\ destroyed \subseteq Items

OwnTypeOK ==
  /\ money \in [Players -> 0 .. MaxMoney] /\ dbMoney \in [Players -> 0 .. MaxMoney]
  /\ bag \in [Players -> SUBSET Items] /\ dbBag \in [Players -> SUBSET Items]

OnlineTypeOK == online \subseteq Players /\ mailsUpdated \subseteq online

MailInv == PostTypeOK /\ OwnTypeOK /\ OnlineTypeOK

LEMMA MailTypes == MailInv => MailTypeOK
<1> SUFFICES ASSUME MailInv PROVE MailTypeOK
  OBVIOUS
<1>1. Letters \subseteq Mails
  BY DEF Letters
<1>2. inbox \in [MailIds -> Mails \cup {NoMail}] /\ dbMail \in [MailIds -> Mails \cup {NoMail}]
  BY <1>1 DEF MailInv, PostTypeOK, Rows
<1> QED BY <1>2, Zenon DEF MailInv, PostTypeOK, OwnTypeOK, OnlineTypeOK, States, MailTypeOK

LEMMA ReturnedType ==
  ASSUME NEW mail \in Letters, mail.kind = "normal"
  PROVE  Returned(mail) \in Letters /\ Returned(mail).items = mail.items
<1>1. Returned(mail) \in Mails
  BY DEF Returned, Mails, Letters
<1>2. Returned(mail).cod = 0 /\ Returned(mail).sender \in Players /\ Returned(mail).items = mail.items
  BY DEF Returned, Mails, Letters
<1> QED BY <1>1, <1>2, FreeLetter

\* A mail without its items, or without its money.
LEMMA TakenType ==
  ASSUME NEW mail \in Letters, NEW i
  PROVE  /\ [mail EXCEPT !.items = @ \ {i}, !.cod = 0] \in Letters
         /\ [mail EXCEPT !.money = 0] \in Letters
<1>1. mail \in Mails /\ mail.items \ {i} \in SUBSET Items
  BY DEF Mails, Letters
<1>2. [mail EXCEPT !.money = 0] \in Letters
  <2> DEFINE poor == [mail EXCEPT !.money = 0]
  <2>1. poor \in Mails
    BY <1>1 DEF Mails
  <2>2. /\ poor.kind = mail.kind /\ poor.sender = mail.sender /\ poor.cod = mail.cod
        /\ poor.checked = mail.checked /\ poor.items = mail.items /\ poor.money = 0
    BY <1>1 DEF Mails
  <2> HIDE DEF poor
  <2>3. poor \in Letters
    BY <2>1, <2>2 DEF Letters, CODMail
  <2> QED BY <2>3 DEF poor
<1> DEFINE rest == [mail EXCEPT !.items = mail.items \ {i}, !.cod = 0]
<1>3. rest \in Mails
  BY <1>1 DEF Mails
<1>4. rest.kind = mail.kind /\ rest.sender = mail.sender /\ rest.cod = 0
  BY <1>1 DEF Mails
<1> HIDE DEF rest
<1>5. rest \in Letters
  BY <1>3, <1>4 DEF Letters
<1> QED BY <1>2, <1>5 DEF rest

LEMMA InitMail == MailInit => MailInv
<1> SUFFICES ASSUME MailInit PROVE MailInv
  OBVIOUS
<1>1. bag \in [Players -> SUBSET Items]
  BY DEF MailInit
<1> QED BY <1>1 DEF MailInit, MailInv, PostTypeOK, OwnTypeOK, OnlineTypeOK, Rows, States

\* Who pays what he has keeps an amount he can have.
LEMMA Spent ==
  ASSUME NEW has \in 0 .. MaxMoney, NEW price \in Nat, has >= price
  PROVE  has - price \in 0 .. MaxMoney
OBVIOUS

\* Saving what p has keeps the types when that has.
LEMMA SaveOwnType ==
  ASSUME OwnTypeOK, NEW p \in Players, money' \in [Players -> 0 .. MaxMoney],
         bag' \in [Players -> SUBSET Items],
         SaveGold(p), dbBag' = dbBag \/ dbBag' = [dbBag EXCEPT ![p] = bag'[p]]
  PROVE  OwnTypeOK'
<1>1. dbMoney' \in [Players -> 0 .. MaxMoney] /\ dbBag' \in [Players -> SUBSET Items]
  BY DEF OwnTypeOK, SaveGold
<1> QED BY <1>1 DEF OwnTypeOK

-----------------------------------------------------------------------------
(* The types, one lemma for each kind of step.                             *)

\* What HandleSendMail puts together: money is asked only for items, and never
\* sent at the same time.
LEMMA DraftType ==
  ASSUME NEW p \in Players, NEW q \in Players, NEW its \in SUBSET Items, NEW gold \in Nat,
         NEW cod \in Nat, gold = 0 \/ cod = 0
  PROVE  [kind |-> "normal", sender |-> p, receiver |-> q, items |-> its,
          money |-> gold, cod |-> IF its = {} THEN 0 ELSE cod,
          checked |-> "", delay |-> its # {}, subject |-> NoItem] \in Letters
<1> DEFINE draft == [kind |-> "normal", sender |-> p, receiver |-> q, items |-> its,
                     money |-> gold, cod |-> IF its = {} THEN 0 ELSE cod,
                     checked |-> "", delay |-> its # {}, subject |-> NoItem]
<1>1. draft \in Mails
  BY DEF Mails
<1>2. /\ draft.kind = "normal" /\ draft.sender = p /\ draft.checked = "" /\ draft.items = its
      /\ draft.money = gold
      /\ draft.cod # 0 => its # {} /\ cod # 0
  OBVIOUS
<1> HIDE DEF draft
<1>3. draft.cod # 0 => CODMail(draft)
  BY <1>2 DEF CODMail
<1>4. draft \in Letters
  BY <1>1, <1>2, <1>3 DEF Letters
<1> QED BY <1>4 DEF draft

LEMMA SendMailType ==
  ASSUME MailInv, NEW p \in Players, NEW q \in Players, NEW its \in SUBSET Items,
         NEW gold \in Nat, NEW cod \in Nat, SendMail(p, q, its, gold, cod)
  PROVE  MailInv'
<1> DEFINE draft == [kind |-> "normal", sender |-> p, receiver |-> q, items |-> its,
                     money |-> gold, cod |-> IF its = {} THEN 0 ELSE cod,
                     checked |-> "", delay |-> its # {}, subject |-> NoItem]
<1>1. draft \in Letters
  BY DraftType DEF SendMail
<1>3. SendMailTo(<<draft>>) /\ UNCHANGED <<online, state, mailsUpdated, destroyed>>
  BY DEF SendMail
<1> HIDE DEF draft
<1>2. \A k \in DOMAIN <<draft>> : <<draft>>[k] \in Letters
  BY <1>1
<1>4. PostTypeOK'
  BY <1>2, <1>3, SendTypes DEF SendMailTo, MailInv, PostTypeOK
<1>5. money' \in [Players -> 0 .. MaxMoney] /\ bag' \in [Players -> SUBSET Items]
  <2>1. /\ Cost(its) \in Nat /\ money[p] \in 0 .. MaxMoney
        /\ money[p] >= Cost(its) + gold
    BY CostType DEF SendMail, MailInv, OwnTypeOK
  <2>2. money[p] - (Cost(its) + gold) \in 0 .. MaxMoney
    BY <2>1
  <2> QED BY <2>2 DEF SendMail, MailInv, OwnTypeOK
<1>6. OwnTypeOK'
  BY <1>5, SaveOwnType DEF SendMail, SaveInventoryAndGold, MailInv
<1> QED BY <1>3, <1>4, <1>6 DEF MailInv, OnlineTypeOK

LEMMA MarkType ==
  ASSUME MailInv, NEW p \in Players, NEW m \in MailIds, MarkAsRead(p, m) \/ MailDelete(p, m)
  PROVE  MailInv'
<1>1. p \in online /\ mailsUpdated' = mailsUpdated \cup {p}
      /\ UNCHANGED <<online, money, bag, inbox, database, destroyed>>
  BY DEF MarkAsRead, MailDelete, InBox
<1>2. state' \in States
  BY DEF MarkAsRead, MailDelete, MailInv, PostTypeOK, States
<1> QED BY <1>1, <1>2 DEF database, MailInv, PostTypeOK, OwnTypeOK, OnlineTypeOK

LEMMA ReturnType ==
  ASSUME MailInv, NEW p \in Players, NEW m \in MailIds, ReturnToSender(p, m)
  PROVE  MailInv'
<1> DEFINE back == IF inbox[m].kind = "normal" THEN <<Returned(inbox[m])>> ELSE << >>
<1>1. inbox[m] \in Letters /\ inbox[m].items \subseteq Items
  BY DEF ReturnToSender, InBox, MailInv, PostTypeOK, Rows, Letters, Mails
<1>2. \A k \in DOMAIN back : back[k] \in Letters
  BY <1>1, ReturnedType
<1>3. PICK f \in IdsFor(back) :
        /\ inbox' = Delivered([inbox EXCEPT ![m] = NoMail], back, f)
        /\ dbMail' = Inserted([dbMail EXCEPT ![m] = NoMail], back, f)
  BY DEF ReturnToSender
<1>4. [inbox EXCEPT ![m] = NoMail] \in Rows /\ [dbMail EXCEPT ![m] = NoMail] \in Rows
  BY DEF MailInv, PostTypeOK, Rows
<1>5. state' \in States /\ destroyed' \subseteq Items
  BY <1>1 DEF ReturnToSender, MailInv, PostTypeOK, States
<1> HIDE DEF back
<1>6. PostTypeOK'
  BY <1>2, <1>3, <1>4, <1>5, SendTypes DEF PostTypeOK
<1> QED BY <1>6 DEF ReturnToSender, MailInv, OwnTypeOK, OnlineTypeOK

LEMMA TakeItemType ==
  ASSUME MailInv, NEW p \in Players, NEW m \in MailIds, NEW i \in Items, TakeItem(p, m, i)
  PROVE  MailInv'
<1> DEFINE price == inbox[m].cod
           payment == [kind |-> "normal", sender |-> p, receiver |-> inbox[m].sender,
                       items |-> {}, money |-> price, cod |-> 0,
                       checked |-> "cod payment", delay |-> FALSE, subject |-> NoItem]
           drafts == IF price > 0 THEN <<payment>> ELSE << >>
           taken == [inbox EXCEPT ![m].items = @ \ {i}, ![m].cod = 0]
           st == [state EXCEPT ![m] = "changed"]
<1>1. inbox[m] \in Letters /\ price \in Nat /\ (price > 0 => inbox[m].sender \in Players)
  BY LetterFacts DEF TakeItem, InBox, MailInv, PostTypeOK, Rows
<1>2. price > 0 => payment \in Letters
  BY <1>1 DEF Letters, Mails
<1>3. \A k \in DOMAIN drafts : drafts[k] \in Letters
  <2> HIDE DEF payment
  <2>1. CASE price > 0
    BY <1>2, <2>1
  <2>2. CASE ~(price > 0)
    BY <2>2
  <2> QED BY <2>1, <2>2
<1>4. taken \in Rows
  BY <1>1, TakenType DEF MailInv, PostTypeOK, Rows
<1>5. st \in States
  BY DEF MailInv, PostTypeOK, States
<1>6. PICK f \in IdsFor(drafts) :
        SaveMail(p, Delivered(taken, drafts, f), st, Inserted(dbMail, drafts, f))
  BY DEF TakeItem
<1>7. money' \in [Players -> 0 .. MaxMoney] /\ bag' \in [Players -> SUBSET Items]
  <2>1. /\ money[p] \in 0 .. MaxMoney /\ money[p] >= price
        /\ money' = [money EXCEPT ![p] = @ - price] /\ bag' = [bag EXCEPT ![p] = @ \cup {i}]
    BY DEF TakeItem, MailInv, OwnTypeOK
  <2>2. money[p] - price \in 0 .. MaxMoney
    BY <1>1, <2>1, Spent
  <2> QED BY <2>1, <2>2 DEF MailInv, OwnTypeOK
<1>8. OwnTypeOK'
  BY <1>7, SaveOwnType DEF TakeItem, SaveInventoryAndGold, MailInv
<1>9. online' = online
  BY DEF TakeItem
<1> HIDE DEF drafts, taken, st
<1>10. Delivered(taken, drafts, f) \in Rows /\ Inserted(dbMail, drafts, f) \in Rows
  BY <1>3, <1>4, SendTypes DEF MailInv, PostTypeOK
<1>11. PostTypeOK' /\ mailsUpdated' \subseteq mailsUpdated
  BY <1>5, <1>6, <1>10, SaveTypes DEF SaveMail, MailInv, PostTypeOK
<1> QED BY <1>8, <1>9, <1>11 DEF MailInv, OnlineTypeOK

LEMMA TakeMoneyType ==
  ASSUME MailInv, NEW p \in Players, NEW m \in MailIds, TakeMoney(p, m)
  PROVE  MailInv'
<1> DEFINE box == [inbox EXCEPT ![m].money = 0]
           st == [state EXCEPT ![m] = "changed"]
<1>1. inbox[m] \in Letters /\ inbox[m].money \in Nat
  BY DEF TakeMoney, InBox, MailInv, PostTypeOK, Rows, Letters, Mails
<1>2. box \in Rows /\ st \in States
  BY <1>1, TakenType DEF MailInv, PostTypeOK, Rows, States
<1>3. SaveMail(p, box, st, dbMail) /\ UNCHANGED <<online, bag, dbBag>>
  BY DEF TakeMoney
<1>4. money' \in [Players -> 0 .. MaxMoney] /\ bag' \in [Players -> SUBSET Items]
  BY <1>1 DEF TakeMoney, MailInv, OwnTypeOK
<1>5. OwnTypeOK'
  BY <1>4, SaveOwnType DEF TakeMoney, MailInv
<1> HIDE DEF box, st
<1>6. PostTypeOK' /\ mailsUpdated' \subseteq mailsUpdated
  BY <1>2, <1>3, SaveTypes DEF SaveMail, MailInv, PostTypeOK
<1> QED BY <1>3, <1>5, <1>6 DEF MailInv, OnlineTypeOK

LEMMA LoginType ==
  ASSUME MailInv, NEW p \in Players, Login(p)
  PROVE  MailInv'
<1>1. PICK late \in SUBSET {m \in MailsOf(p, dbMail) : dbMail[m].delay} :
        inbox' = [m \in MailIds |-> IF m \in MailsOf(p, dbMail) \ late THEN dbMail[m] ELSE inbox[m]]
  BY DEF Login
<1>2. inbox' \in Rows
  BY <1>1 DEF MailInv, PostTypeOK, Rows
<1> QED BY <1>2 DEF Login, database, MailInv, PostTypeOK, OwnTypeOK, OnlineTypeOK

LEMMA SaveOrLogoutType ==
  ASSUME MailInv, NEW p \in Players, Save(p) \/ Logout(p)
  PROVE  MailInv'
<1>1. UNCHANGED <<money, bag>> /\ SaveInventoryAndGold(p)
  BY DEF Save, Logout
<1>2. OwnTypeOK'
  BY <1>1, SaveOwnType DEF SaveInventoryAndGold, MailInv, OwnTypeOK
<1>3. /\ Saved(p, inbox, state, inbox) \in Rows /\ Saved(p, inbox, state, dbMail) \in Rows
      /\ Unmarked(p, state, inbox) \in States /\ Discarded(p, inbox, state) \subseteq Items
  BY SaveTypes DEF MailInv, PostTypeOK
<1>4. CASE Save(p)
  <2>1. PostTypeOK'
    BY <1>3, <1>4 DEF Save, SaveMail, MailInv, PostTypeOK
  <2>2. OnlineTypeOK'
    BY <1>4 DEF Save, SaveMail, MailInv, OnlineTypeOK
  <2> QED BY <1>2, <2>1, <2>2 DEF MailInv
<1>5. CASE Logout(p)
  <2>1. inbox' \in Rows
    BY <1>5 DEF Logout, MailInv, PostTypeOK, Rows
  <2>2. PostTypeOK'
    BY <1>3, <1>5, <2>1 DEF Logout, MailInv, PostTypeOK
  <2>3. OnlineTypeOK'
    BY <1>5 DEF Logout, MailInv, OnlineTypeOK
  <2> QED BY <1>2, <2>2, <2>3 DEF MailInv
<1> QED BY <1>4, <1>5

LEMMA ReturnOrDeleteType ==
  ASSUME MailInv, NEW expired \in SUBSET {m \in MailIds : dbMail[m] # NoMail},
         ReturnOrDeleteOldMails(expired)
  PROVE  MailInv'
<1> DEFINE old == {m \in expired : dbMail[m].receiver \notin online}
<1>1. \A m \in old : dbMail[m] \in Letters /\ dbMail[m].items \subseteq Items
  BY DEF MailInv, PostTypeOK, Rows, Letters, Mails
<1>2. \A m \in old : Returnable(dbMail[m]) => Returned(dbMail[m]) \in Letters
  BY <1>1, ReturnedType DEF Returnable
<1>3. /\ dbMail' = [m \in MailIds |->
                     IF m \notin old THEN dbMail[m]
                     ELSE IF Returnable(dbMail[m]) THEN Returned(dbMail[m]) ELSE NoMail]
      /\ destroyed' = destroyed \cup UNION {dbMail[m].items : m \in {n \in old : ~Returnable(dbMail[n])}}
      /\ UNCHANGED <<memory, dbMoney, dbBag>>
  BY DEF ReturnOrDeleteOldMails
<1> HIDE DEF old
<1>4. dbMail' \in Rows
  BY <1>2, <1>3 DEF MailInv, PostTypeOK, Rows
<1>5. destroyed' \subseteq Items
  BY <1>1, <1>3 DEF MailInv, PostTypeOK
<1> QED BY <1>3, <1>4, <1>5 DEF memory, MailInv, PostTypeOK, OwnTypeOK, OnlineTypeOK

LEMMA SpendType ==
  ASSUME MailInv, NEW p \in Players, SpendOrEarn(p)
  PROVE  MailInv'
<1>1. PICK n \in 0 .. FirstMoney[p] : money' = [money EXCEPT ![p] = n]
  BY DEF SpendOrEarn
<1>2. n \in 0 .. MaxMoney
  OBVIOUS
<1>3. money' \in [Players -> 0 .. MaxMoney]
  BY <1>1, <1>2 DEF MailInv, OwnTypeOK
<1> QED BY <1>3 DEF SpendOrEarn, database, MailInv, PostTypeOK, OwnTypeOK, OnlineTypeOK

LEMMA CrashType ==
  ASSUME MailInv, MailCrash
  PROVE  MailInv'
BY DEF MailCrash, database, MailInv, PostTypeOK, OwnTypeOK, OnlineTypeOK, Rows, States

LEMMA MailTypeStep ==
  ASSUME MailInv, MailNext
  PROVE  MailInv'
<1>1. \A gold \in Amounts \cup {0} : gold \in Nat
  OBVIOUS
<1>2. \A p \in Writers : p \in Players
  OBVIOUS
<1> QED BY <1>1, <1>2, SendMailType, MarkType, ReturnType, TakeItemType, TakeMoneyType, LoginType,
           SaveOrLogoutType, ReturnOrDeleteType, SpendType
        DEF MailNext

-----------------------------------------------------------------------------
(* The memory and the database.                                            *)

\* What is in memory is what is in the table, and belongs to somebody online.
Synced(box, rows, those) ==
  \A m \in MailIds : box[m] # NoMail => box[m] = rows[m] /\ box[m].receiver \in those

SyncInv == bag = dbBag /\ Synced(inbox, dbMail, online)

LEMMA SendSynced ==
  ASSUME NEW box \in Rows, NEW rows \in Rows, NEW drafts, NEW f \in IdsFor(drafts),
         \A m \in FreeIds : box[m] = NoMail,
         \A m \in MailIds : box[m] # NoMail => box[m].receiver \in online
  PROVE  /\ \A m \in MailIds \ Range(f) :
               Delivered(box, drafts, f)[m] = box[m] /\ Inserted(rows, drafts, f)[m] = rows[m]
         /\ \A m \in Range(f) :
               /\ Inserted(rows, drafts, f)[m] = DraftAt(drafts, f, m)
               /\ Delivered(box, drafts, f)[m] # NoMail =>
                    /\ Delivered(box, drafts, f)[m] = DraftAt(drafts, f, m)
                    /\ DraftAt(drafts, f, m).receiver \in online
<1>1. Range(f) \subseteq FreeIds /\ FreeIds \subseteq MailIds
  BY DraftIds DEF FreeIds
<1> QED BY <1>1 DEF Delivered, Inserted

LEMMA SendKeepsSync ==
  ASSUME NEW box \in Rows, NEW rows \in Rows, NEW drafts, NEW f \in IdsFor(drafts),
         \A m \in FreeIds : box[m] = NoMail, Synced(box, rows, online)
  PROVE  Synced(Delivered(box, drafts, f), Inserted(rows, drafts, f), online)
<1>1. \A m \in MailIds : box[m] # NoMail => box[m].receiver \in online
  BY DEF Synced
<1>2. \A m \in MailIds : m \in Range(f) \/ m \in MailIds \ Range(f)
  OBVIOUS
<1> QED BY <1>1, <1>2, SendSynced DEF Synced

\* Saving writes what was changed: what is left in memory is in the table.
LEMMA SaveKeepsSync ==
  ASSUME NEW p \in Players, NEW box \in Rows, NEW rows \in Rows, NEW st \in States,
         \A m \in MailIds : box[m] # NoMail => box[m].receiver \in online,
         \A m \in MailIds : box[m] # NoMail => box[m] = rows[m] \/ m \in Marked(p, box, st, "changed")
  PROVE  Synced(Saved(p, box, st, box), Saved(p, box, st, rows), online)
<1>1. \A m \in Marked(p, box, st, "changed") :
        box[m] \in Letters /\ Kept(box[m]) \in {NoMail, box[m]} /\ box[m] # NoMail
  BY DEF Marked, MailsOf, Kept, Rows
<1> QED BY <1>1 DEF Synced, Saved

LEMMA SaveBagSync ==
  ASSUME bag = dbBag, MailInv, NEW p \in Players, NEW its,
         bag' = [bag EXCEPT ![p] = its], SaveInventoryAndGold(p)
  PROVE  bag' = dbBag'
BY DEF SaveInventoryAndGold, MailInv, OwnTypeOK

LEMMA SendMailToSync ==
  ASSUME MailInv, SyncInv, NEW drafts, SendMailTo(drafts), online' = online
  PROVE  Synced(inbox', dbMail', online')
<1>1. PICK f \in IdsFor(drafts) :
        inbox' = Delivered(inbox, drafts, f) /\ dbMail' = Inserted(dbMail, drafts, f)
  BY DEF SendMailTo
<1>2. \A m \in FreeIds : inbox[m] = NoMail
  BY DEF FreeIds
<1>3. Synced(inbox, dbMail, online) /\ inbox \in Rows /\ dbMail \in Rows
  BY DEF SyncInv, MailInv, PostTypeOK
<1> QED BY <1>1, <1>2, <1>3, SendKeepsSync

LEMMA ReturnSync ==
  ASSUME MailInv, SyncInv, NEW p \in Players, NEW m \in MailIds, ReturnToSender(p, m)
  PROVE  SyncInv'
<1> DEFINE back == IF inbox[m].kind = "normal" THEN <<Returned(inbox[m])>> ELSE << >>
           box == [inbox EXCEPT ![m] = NoMail]
           rows == [dbMail EXCEPT ![m] = NoMail]
<1>1. PICK f \in IdsFor(back) :
        inbox' = Delivered(box, back, f) /\ dbMail' = Inserted(rows, back, f)
  BY DEF ReturnToSender
<1>2. box \in Rows /\ rows \in Rows
  BY DEF MailInv, PostTypeOK, Rows
<1>3. \A n \in FreeIds : box[n] = NoMail
  BY DEF FreeIds, MailInv, PostTypeOK, Rows
<1>4. Synced(box, rows, online)
  BY DEF SyncInv, Synced, MailInv, PostTypeOK, Rows
<1> HIDE DEF back, box, rows
<1>5. Synced(inbox', dbMail', online)
  BY <1>1, <1>2, <1>3, <1>4, SendKeepsSync
<1> QED BY <1>5 DEF ReturnToSender, SyncInv

\* p takes i out of m: box with the marks st is saved over rows, which has besides
\* the mails of the database at most a payment.
Taking(p, m, i, box, rows, st) ==
  /\ SaveMail(p, box, st, rows)
  /\ box[m] # NoMail /\ box[m].receiver = p /\ box[m].items = dbMail[m].items \ {i}
  /\ dbMail[m] # NoMail /\ i \in dbMail[m].items /\ st[m] = "changed"
  /\ \A n \in MailIds : box[n] # NoMail => box[n].receiver \in online
  /\ \A n \in MailIds \ {m} :
       /\ box[n] # NoMail => box[n] = rows[n]
       /\ IF dbMail[n] = NoMail THEN rows[n] # NoMail => rows[n].items = {}
                                ELSE rows[n] = dbMail[n]

\* The mail of which an item was taken, and what it cost sent to whom it is due.
LEMMA TakeItemSaves ==
  ASSUME MailInv, SyncInv, NEW p \in Players, NEW m \in MailIds, NEW i \in Items, TakeItem(p, m, i)
  PROVE  \E box \in Rows, rows \in Rows, st \in States : Taking(p, m, i, box, rows, st)
<1> DEFINE price == inbox[m].cod
           payment == [kind |-> "normal", sender |-> p, receiver |-> inbox[m].sender,
                       items |-> {}, money |-> price, cod |-> 0,
                       checked |-> "cod payment", delay |-> FALSE, subject |-> NoItem]
           drafts == IF price > 0 THEN <<payment>> ELSE << >>
           taken == [inbox EXCEPT ![m].items = @ \ {i}, ![m].cod = 0]
           st == [state EXCEPT ![m] = "changed"]
<1>1. /\ inbox[m] \in Letters /\ price \in Nat /\ (price > 0 => inbox[m].sender \in Players)
      /\ p \in online /\ inbox[m] # NoMail /\ inbox[m].receiver = p /\ i \in inbox[m].items
  BY LetterFacts DEF TakeItem, InBox, MailInv, PostTypeOK, Rows
<1>2. price > 0 => payment \in Letters
  BY <1>1 DEF Letters, Mails
<1>3. \A k \in DOMAIN drafts : drafts[k] \in Letters /\ drafts[k].items = {}
  <2>1. payment.items = {}
    OBVIOUS
  <2> HIDE DEF payment
  <2>2. CASE price > 0
    BY <1>2, <2>1, <2>2
  <2>3. CASE ~(price > 0)
    BY <2>3
  <2> QED BY <2>2, <2>3
<1>4. /\ taken \in Rows /\ taken[m] # NoMail /\ taken[m].receiver = p
      /\ taken[m].items = inbox[m].items \ {i} /\ \A n \in MailIds \ {m} : taken[n] = inbox[n]
  <2>1. taken[m] = [inbox[m] EXCEPT !.items = @ \ {i}, !.cod = 0]
    BY DEF MailInv, PostTypeOK, Rows
  <2>2. taken \in Rows
    BY <1>1, TakenType DEF MailInv, PostTypeOK, Rows
  <2>3. taken[m] \in Letters
    <3>1. [inbox[m] EXCEPT !.items = @ \ {i}, !.cod = 0] \in Letters
      BY <1>1, TakenType
    <3> QED BY <2>1, <3>1
  <2>4. taken[m].receiver = p /\ taken[m].items = inbox[m].items \ {i}
    BY <1>1, <2>1 DEF Letters, Mails
  <2>5. NoMail \notin Letters
    BY DEF Letters
  <2> QED BY <2>2, <2>3, <2>4, <2>5 DEF MailInv, PostTypeOK, Rows
<1>5. st \in States /\ st[m] = "changed"
  BY DEF MailInv, PostTypeOK, States
<1>6. PICK f \in IdsFor(drafts) :
        SaveMail(p, Delivered(taken, drafts, f), st, Inserted(dbMail, drafts, f))
  BY DEF TakeItem
<1> HIDE DEF drafts, taken, st
<1> DEFINE box == Delivered(taken, drafts, f)
           rows == Inserted(dbMail, drafts, f)
<1>7. box \in Rows /\ rows \in Rows
  BY <1>3, <1>4, SendTypes DEF MailInv, PostTypeOK
<1>8. m \notin FreeIds /\ Range(f) \subseteq FreeIds
      /\ \A n \in FreeIds : taken[n] = NoMail /\ dbMail[n] = NoMail /\ n \in MailIds
  <2>1. m \notin FreeIds /\ Range(f) \subseteq FreeIds
    BY <1>1, DraftIds DEF FreeIds
  <2> QED BY <1>4, <2>1 DEF FreeIds
<1>9. \A n \in MailIds : inbox[n] # NoMail => inbox[n] = dbMail[n] /\ inbox[n].receiver \in online
  BY DEF SyncInv, Synced
<1>10. \A n \in MailIds : taken[n] # NoMail => taken[n].receiver \in online
  BY <1>1, <1>4, <1>9
<1>11. /\ \A n \in MailIds \ Range(f) : box[n] = taken[n] /\ rows[n] = dbMail[n]
       /\ \A n \in Range(f) :
            /\ rows[n] = DraftAt(drafts, f, n)
            /\ box[n] # NoMail => box[n] = DraftAt(drafts, f, n)
                                 /\ DraftAt(drafts, f, n).receiver \in online
  BY <1>4, <1>8, <1>10, SendSynced DEF MailInv, PostTypeOK
<1>12. \A n \in Range(f) : DraftAt(drafts, f, n).items = {}
  BY <1>3, DraftIds
<1> HIDE DEF box, rows
<1>13. box[m] = taken[m] /\ inbox[m] = dbMail[m]
  BY <1>1, <1>8, <1>9, <1>11
<1>14. \A n \in MailIds : box[n] # NoMail => box[n].receiver \in online
  BY <1>10, <1>11
<1>15. ASSUME NEW n \in MailIds \ {m}
       PROVE  /\ box[n] # NoMail => box[n] = rows[n]
              /\ IF dbMail[n] = NoMail THEN rows[n] # NoMail => rows[n].items = {}
                                       ELSE rows[n] = dbMail[n]
  <2>1. CASE n \in Range(f)
    BY <1>8, <1>11, <1>12, <2>1
  <2>2. CASE n \notin Range(f)
    BY <1>4, <1>9, <1>11, <2>2
  <2> QED BY <2>1, <2>2
<1>16. SaveMail(p, box, st, rows)
  BY <1>6 DEF box, rows
<1>17. Taking(p, m, i, box, rows, st)
  BY <1>1, <1>4, <1>5, <1>13, <1>14, <1>15, <1>16 DEF Taking
<1> QED BY <1>5, <1>7, <1>17

LEMMA TakeItemSync ==
  ASSUME MailInv, SyncInv, NEW p \in Players, NEW m \in MailIds, NEW i \in Items, TakeItem(p, m, i)
  PROVE  SyncInv'
<1>0. PICK box \in Rows, rows \in Rows, st \in States : Taking(p, m, i, box, rows, st)
  BY TakeItemSaves
<1>1. /\ SaveMail(p, box, st, rows)
      /\ box[m] # NoMail /\ box[m].receiver = p /\ st[m] = "changed"
      /\ \A n \in MailIds : box[n] # NoMail => box[n].receiver \in online
      /\ \A n \in MailIds \ {m} : box[n] # NoMail => box[n] = rows[n]
  BY <1>0 DEF Taking
<1>2. m \in Marked(p, box, st, "changed")
  BY <1>1 DEF Marked, MailsOf
<1>3. Synced(inbox', dbMail', online)
  BY <1>1, <1>2, SaveKeepsSync DEF SaveMail
<1>4. bag' = dbBag'
  BY SaveBagSync DEF TakeItem, SyncInv
<1> QED BY <1>3, <1>4 DEF TakeItem, SyncInv

LEMMA TakeMoneySync ==
  ASSUME MailInv, SyncInv, NEW p \in Players, NEW m \in MailIds, TakeMoney(p, m)
  PROVE  SyncInv'
<1> DEFINE box == [inbox EXCEPT ![m].money = 0]
           st == [state EXCEPT ![m] = "changed"]
<1>1. inbox[m] \in Letters /\ inbox[m] # NoMail /\ inbox[m].receiver = p /\ p \in online
  BY DEF TakeMoney, InBox, MailInv, PostTypeOK, Rows
<1>2. box \in Rows /\ st \in States /\ st[m] = "changed"
  BY <1>1, TakenType DEF MailInv, PostTypeOK, Rows, States
<1>3. box[m] # NoMail /\ box[m].receiver = p /\ \A n \in MailIds \ {m} : box[n] = inbox[n]
  <2>1. box[m] = [inbox[m] EXCEPT !.money = 0]
    BY DEF MailInv, PostTypeOK, Rows
  <2>2. box[m] \in Letters /\ NoMail \notin Letters
    BY <1>1, <2>1, TakenType DEF Letters
  <2>3. box[m].receiver = p
    BY <1>1, <2>1 DEF Letters, Mails
  <2> QED BY <2>2, <2>3 DEF MailInv, PostTypeOK, Rows
<1>4. SaveMail(p, box, st, dbMail) /\ UNCHANGED <<online, bag, dbBag>>
  BY DEF TakeMoney
<1> HIDE DEF box, st
<1>5. m \in Marked(p, box, st, "changed")
  BY <1>2, <1>3 DEF Marked, MailsOf
<1>6. /\ \A n \in MailIds : box[n] # NoMail => box[n].receiver \in online
      /\ \A n \in MailIds \ {m} : box[n] # NoMail => box[n] = dbMail[n]
  BY <1>1, <1>3 DEF SyncInv, Synced
<1>7. Synced(inbox', dbMail', online)
  BY <1>2, <1>4, <1>5, <1>6, SaveKeepsSync DEF SaveMail, MailInv, PostTypeOK
<1> QED BY <1>4, <1>7 DEF SyncInv

LEMMA SaveSync ==
  ASSUME MailInv, SyncInv, NEW p \in Players, Save(p) \/ Logout(p)
  PROVE  SyncInv'
<1>1. bag' = dbBag' /\ bag' = bag
  BY DEF Save, Logout, SaveInventoryAndGold, SyncInv, MailInv, OwnTypeOK
<1>2. \A m \in MailIds : inbox[m] # NoMail => inbox[m] = dbMail[m] /\ inbox[m].receiver \in online
  BY DEF SyncInv, Synced
<1>3. CASE Save(p)
  <2>1. CASE p \in mailsUpdated
    <3>1. Synced(Saved(p, inbox, state, inbox), Saved(p, inbox, state, dbMail), online)
      BY <1>2, SaveKeepsSync DEF MailInv, PostTypeOK
    <3> QED BY <1>1, <1>3, <2>1, <3>1 DEF Save, SaveMail, SyncInv
  <2>2. CASE p \notin mailsUpdated
    BY <1>1, <1>3, <2>2 DEF Save, SyncInv, Synced
  <2> QED BY <2>1, <2>2
<1>4. CASE Logout(p)
  <2>1. \A m \in MailIds : inbox'[m] # NoMail =>
          m \notin MailsOf(p, inbox) /\ inbox'[m] = inbox[m] /\ inbox[m].receiver \in online'
    BY <1>2, <1>4 DEF Logout, MailsOf
  <2>2. \A m \in MailIds : m \notin MailsOf(p, inbox) => dbMail'[m] = dbMail[m]
    BY <1>4 DEF Logout, Saved, Marked
  <2> QED BY <1>1, <1>2, <2>1, <2>2 DEF SyncInv, Synced
<1> QED BY <1>3, <1>4

LEMMA LoginSync ==
  ASSUME MailInv, SyncInv, NEW p \in Players, Login(p)
  PROVE  SyncInv'
<1>1. /\ online' = online \cup {p} /\ UNCHANGED <<bag, dbBag, dbMail>>
      /\ \A m \in MailIds : inbox'[m] = inbox[m] \/ (m \in MailsOf(p, dbMail) /\ inbox'[m] = dbMail[m])
  BY DEF Login, database
<1> QED BY <1>1 DEF SyncInv, Synced, MailsOf

LEMMA ReturnOrDeleteSync ==
  ASSUME MailInv, SyncInv, NEW expired \in SUBSET {m \in MailIds : dbMail[m] # NoMail},
         ReturnOrDeleteOldMails(expired)
  PROVE  SyncInv'
<1>1. \A m \in MailIds : m \notin expired \/ dbMail[m].receiver \in online => dbMail'[m] = dbMail[m]
  BY DEF ReturnOrDeleteOldMails
<1>2. UNCHANGED <<online, bag, inbox, dbBag>>
  BY DEF ReturnOrDeleteOldMails, memory
<1> QED BY <1>1, <1>2 DEF SyncInv, Synced

LEMMA MailSyncStep ==
  ASSUME MailInv, SyncInv, MailNext
  PROVE  SyncInv'
<1>1. ASSUME NEW p \in Players, NEW q \in Players, NEW its \in SUBSET Items, NEW gold, NEW cod,
             SendMail(p, q, its, gold, cod)
      PROVE  SyncInv'
  <2>1. Synced(inbox', dbMail', online')
    BY <1>1, SendMailToSync DEF SendMail
  <2>2. bag' = dbBag'
    BY <1>1, SaveBagSync DEF SendMail, SyncInv
  <2> QED BY <2>1, <2>2 DEF SyncInv
<1>2. ASSUME NEW p \in Players, NEW m \in MailIds, MarkAsRead(p, m) \/ MailDelete(p, m)
      PROVE  SyncInv'
  BY <1>2 DEF MarkAsRead, MailDelete, database, SyncInv, Synced
<1>3. ASSUME NEW p \in Players, SpendOrEarn(p) PROVE SyncInv'
  BY <1>3 DEF SpendOrEarn, database, SyncInv, Synced
<1>4. \A p \in Writers : p \in Players
  OBVIOUS
<1> QED BY <1>1, <1>2, <1>3, <1>4, ReturnSync, TakeItemSync, TakeMoneySync, SaveSync, LoginSync,
           ReturnOrDeleteSync
        DEF MailNext

LEMMA CrashSync ==
  ASSUME MailInv, MailCrash
  PROVE  SyncInv'
BY DEF MailCrash, database, SyncInv, Synced

-----------------------------------------------------------------------------
(* The place of every item: one function says where it is.                 *)

InBag(p) == <<"bag", p>>
InMail(m) == <<"mail", m>>
InAuction(i) == <<"auction", i>>
Gone == <<"gone", NoItem>>

LEMMA Apart ==
  /\ \A p, q : InBag(p) = InBag(q) <=> p = q
  /\ \A m, n : InMail(m) = InMail(n) <=> m = n
  /\ \A p, m : InBag(p) # InMail(m) /\ InBag(p) # InAuction(m) /\ InMail(p) # InAuction(m)
  /\ \A p : InBag(p) # Gone /\ InMail(p) # Gone /\ InAuction(p) # Gone
BY DEF InBag, InMail, InAuction, Gone

Spots(i) == {InBag(p) : p \in Players} \cup {InMail(m) : m \in MailIds} \cup {InAuction(i), Gone}
Loci == UNION {Spots(i) : i \in Items}

ItemsIn(rows, m) == IF rows[m] = NoMail THEN {} ELSE rows[m].items

\* The item is where loc says and nowhere else; aucs are the items in an auction.
IsAt(loc, i, bags, rows, gone, aucs) ==
  /\ loc[i] \in Spots(i)
  /\ \A p \in Players : i \in bags[p] <=> loc[i] = InBag(p)
  /\ \A m \in MailIds : i \in ItemsIn(rows, m) <=> loc[i] = InMail(m)
  /\ i \in gone <=> loc[i] = Gone
  /\ i \in aucs <=> loc[i] = InAuction(i)

Located(loc, bags, rows, gone, aucs) ==
  loc \in [Items -> Loci] /\ \A i \in Items : IsAt(loc, i, bags, rows, gone, aucs)

LEMMA OneSpot ==
  ASSUME NEW loc, NEW bags, NEW rows, NEW gone, NEW aucs, Located(loc, bags, rows, gone, aucs),
         NEW i \in Items
  PROVE  /\ \A p \in Players : i \in bags[p] =>
              /\ \A q \in Players : i \in bags[q] => q = p
              /\ \A m \in MailIds : i \notin ItemsIn(rows, m)
              /\ i \notin gone /\ i \notin aucs
         /\ \A m \in MailIds : i \in ItemsIn(rows, m) =>
              /\ \A p \in Players : i \notin bags[p]
              /\ \A n \in MailIds : i \in ItemsIn(rows, n) => n = m
              /\ i \notin gone /\ i \notin aucs
         /\ i \in aucs =>
              /\ \A p \in Players : i \notin bags[p]
              /\ \A m \in MailIds : i \notin ItemsIn(rows, m)
              /\ i \notin gone
<1>1. IsAt(loc, i, bags, rows, gone, aucs)
  BY DEF Located
<1> QED BY <1>1, Apart DEF IsAt

\* Nothing is moved but the items its.
Still(its, bags, rows, gone, aucs, bags2, rows2, gone2, aucs2) ==
  \A i \in Items \ its :
    /\ \A p \in Players : i \in bags2[p] <=> i \in bags[p]
    /\ \A m \in MailIds : i \in ItemsIn(rows2, m) <=> i \in ItemsIn(rows, m)
    /\ i \in gone2 <=> i \in gone
    /\ i \in aucs2 <=> i \in aucs

\* The items its are where to says.
AreAt(its, to, bags, rows, gone, aucs) ==
  its \subseteq Items /\ \A i \in its : IsAt(to, i, bags, rows, gone, aucs)

\* The items its go to the places to, all others stay.
LEMMA Relocated ==
  ASSUME NEW loc, NEW bags, NEW rows, NEW gone, NEW aucs, Located(loc, bags, rows, gone, aucs),
         NEW its, NEW to, NEW bags2, NEW rows2, NEW gone2, NEW aucs2,
         AreAt(its, to, bags2, rows2, gone2, aucs2),
         Still(its, bags, rows, gone, aucs, bags2, rows2, gone2, aucs2)
  PROVE  \E loc2 : Located(loc2, bags2, rows2, gone2, aucs2)
<1> DEFINE loc2 == [i \in Items |-> IF i \in its THEN to[i] ELSE loc[i]]
<1>1. \A i \in its : loc2[i] = to[i]
  BY DEF AreAt
<1>2. \A i \in Items \ its : loc2[i] = loc[i] /\ IsAt(loc, i, bags, rows, gone, aucs)
  BY DEF Located
<1>3. loc2 \in [Items -> Loci]
  <2>1. \A i \in its : i \in Items /\ to[i] \in Spots(i)
    BY DEF AreAt, IsAt
  <2> QED BY <2>1 DEF Loci, Located
<1> HIDE DEF loc2
<1>4. ASSUME NEW i \in its PROVE IsAt(loc2, i, bags2, rows2, gone2, aucs2)
  BY <1>1, <1>4 DEF IsAt, AreAt
<1>5. ASSUME NEW i \in Items \ its PROVE IsAt(loc2, i, bags2, rows2, gone2, aucs2)
  BY <1>2, <1>5 DEF IsAt, Still
<1> QED BY <1>3, <1>4, <1>5 DEF Located

\* The mails that are dead are thrown away with what is in them.
Thrown(dead, rows, gone, rows2, gone2) ==
  /\ dead \subseteq MailIds
  /\ \A i \in Items, m \in MailIds :
       i \in ItemsIn(rows2, m) <=> m \notin dead /\ i \in ItemsIn(rows, m)
  /\ \A i \in Items : i \in gone2 <=> i \in gone \/ \E m \in dead : i \in ItemsIn(rows, m)

LEMMA ThrownAway ==
  ASSUME NEW loc, NEW bags, NEW rows, NEW gone, NEW aucs, Located(loc, bags, rows, gone, aucs),
         NEW dead, NEW rows2, NEW gone2, Thrown(dead, rows, gone, rows2, gone2)
  PROVE  \E loc2 : Located(loc2, bags, rows2, gone2, aucs)
<1> DEFINE its == {i \in Items : \E m \in dead : i \in ItemsIn(rows, m)}
           to == [i \in its |-> Gone]
<1>1. \A i \in its : to[i] = Gone /\ to[i] \in Spots(i)
  BY DEF Spots
<1> HIDE DEF to
<1>2. ASSUME NEW i \in its PROVE IsAt(to, i, bags, rows2, gone2, aucs)
  <2>1. PICK m \in dead : i \in ItemsIn(rows, m)
    BY <1>2
  <2>2. /\ \A p \in Players : i \notin bags[p]
        /\ \A n \in MailIds : i \notin ItemsIn(rows2, n)
        /\ i \in gone2 /\ i \notin aucs
    BY <1>2, <2>1, OneSpot DEF Thrown
  <2> QED BY <1>1, <1>2, <2>2, Apart DEF IsAt
<1>3. Still(its, bags, rows, gone, aucs, bags, rows2, gone2, aucs)
  BY DEF Still, Thrown
<1>4. AreAt(its, to, bags, rows2, gone2, aucs)
  BY <1>2 DEF AreAt
<1> HIDE DEF its
<1> QED BY <1>3, <1>4, Relocated

\* What saving does with the items: those of the mails that were deleted are gone.
LEMMA SavePlaces ==
  ASSUME NEW loc, NEW bags, NEW gone, NEW aucs, NEW table \in Rows,
         Located(loc, bags, table, gone, aucs),
         NEW p \in Players, NEW box \in Rows, NEW st \in States,
         \A m \in MailIds : box[m] # NoMail => table[m] # NoMail /\ box[m].items = table[m].items
  PROVE  \E loc2 : Located(loc2, bags, Saved(p, box, st, table), gone \cup Discarded(p, box, st), aucs)
<1> DEFINE dead == Marked(p, box, st, "deleted")
           rows == Saved(p, box, st, table)
           gone2 == gone \cup Discarded(p, box, st)
<1>1. \A m \in MailIds : m \in MailsOf(p, box) => box[m] # NoMail /\ box[m] \in Letters
  BY DEF MailsOf, Rows
<1>2. \A mark : \A m \in Marked(p, box, st, mark) : m \in MailIds /\ m \in MailsOf(p, box)
  BY DEF Marked, MailsOf
<1>3. ASSUME NEW m \in MailIds
      PROVE  ItemsIn(rows, m) = IF m \in dead THEN {} ELSE ItemsIn(table, m)
  <2>1. CASE m \in dead
    BY <2>1 DEF ItemsIn, Saved
  <2>2. CASE m \notin dead /\ m \in Marked(p, box, st, "changed")
    <3>1. rows[m] = Kept(box[m])
      BY <2>2 DEF Saved
    <3>2. box[m].items = ItemsIn(table, m) /\ box[m] \in Letters
      BY <1>1, <1>2, <2>2 DEF ItemsIn
    <3>3. m \in MailsOf(p, box) /\ box[m] # NoMail
      BY <1>1, <1>2, <2>2
    <3>4. Kept(box[m]) = box[m] \/ (Kept(box[m]) = NoMail /\ box[m].items = {})
      BY DEF Kept
    <3> QED BY <2>2, <3>1, <3>2, <3>3, <3>4 DEF ItemsIn
  <2>3. CASE m \notin dead /\ m \notin Marked(p, box, st, "changed")
    BY <2>3 DEF ItemsIn, Saved
  <2> QED BY <2>1, <2>2, <2>3
<1>4. Discarded(p, box, st) = UNION {ItemsIn(table, m) : m \in dead}
  <2>1. \A m \in dead : box[m].items = ItemsIn(table, m)
    BY <1>1, <1>2 DEF ItemsIn
  <2> QED BY <2>1 DEF Discarded
<1>5. dead \in SUBSET MailIds
  BY <1>2
<1> HIDE DEF dead, rows
<1>6. Thrown(dead, table, gone, rows, gone2)
  BY <1>3, <1>4, <1>5 DEF Thrown
<1> HIDE DEF gone2
<1>7. \E loc2 : Located(loc2, bags, rows, gone2, aucs)
  BY <1>6, ThrownAway
<1> QED BY <1>7 DEF rows, gone2

LEMMA OneDraft ==
  ASSUME NEW d \in Letters, NEW f \in IdsFor(<<d>>), NEW rows \in Rows
  PROVE  \E n \in FreeIds :
           /\ Inserted(rows, <<d>>, f)[n] = d
           /\ \A m \in MailIds \ {n} : Inserted(rows, <<d>>, f)[m] = rows[m]
<1> DEFINE ds == <<d>>
<1>1. DOMAIN ds = {1} /\ ds[1] = d
  OBVIOUS
<1> HIDE DEF ds
<1>2. /\ Range(f) \subseteq FreeIds /\ f[1] \in Range(f) /\ DraftAt(ds, f, f[1]) = d
      /\ \A m \in Range(f) : m = f[1]
  BY <1>1, DraftIds DEF ds
<1>3. FreeIds \subseteq MailIds
  BY DEF FreeIds
<1>4. /\ Inserted(rows, ds, f)[f[1]] = d
      /\ \A m \in MailIds \ {f[1]} : Inserted(rows, ds, f)[m] = rows[m]
  BY <1>2, <1>3 DEF Inserted
<1> QED BY <1>2, <1>4 DEF ds

LEMMA NoDraft ==
  ASSUME NEW f \in IdsFor(<< >>), NEW rows \in Rows
  PROVE  \A m \in MailIds : Inserted(rows, << >>, f)[m] = rows[m]
<1>1. \A m \in Range(f) : \E k \in DOMAIN << >> : f[k] = m
  BY DraftIds
<1>2. DOMAIN << >> = {}
  OBVIOUS
<1>3. Range(f) = {}
  BY <1>1, <1>2
<1> QED BY <1>3 DEF Inserted

\* Where things are, for the items aucs in an auction.
Placed(aucs) == \E loc : Located(loc, bag, dbMail, destroyed, aucs)

LEMMA SendMailPlaces ==
  ASSUME MailInv, NEW aucs, Placed(aucs), NEW p \in Players, NEW q \in Players,
         NEW its \in SUBSET Items, NEW gold \in Nat, NEW cod \in Nat, SendMail(p, q, its, gold, cod)
  PROVE  \E loc2 : Located(loc2, bag', dbMail', destroyed', aucs)
<1> DEFINE draft == [kind |-> "normal", sender |-> p, receiver |-> q, items |-> its,
                     money |-> gold, cod |-> IF its = {} THEN 0 ELSE cod,
                     checked |-> "", delay |-> its # {}, subject |-> NoItem]
<1>1. draft \in Letters /\ draft.items = its /\ draft # NoMail
  <2>1. draft \in Letters
    BY DraftType DEF SendMail
  <2>2. draft.items = its
    OBVIOUS
  <2>3. NoMail \notin Letters
    BY DEF Letters
  <2> QED BY <2>1, <2>2, <2>3
<1>2. SendMailTo(<<draft>>) /\ its \subseteq bag[p] /\ destroyed' = destroyed
      /\ bag' = [bag EXCEPT ![p] = @ \ its]
  BY DEF SendMail
<1> HIDE DEF draft
<1>3. dbMail \in Rows /\ bag \in [Players -> SUBSET Items]
  BY DEF MailInv, PostTypeOK, OwnTypeOK
<1>4. PICK f \in IdsFor(<<draft>>) : dbMail' = Inserted(dbMail, <<draft>>, f)
  BY <1>2 DEF SendMailTo
<1>5. PICK n \in FreeIds : dbMail'[n] = draft /\ \A m \in MailIds \ {n} : dbMail'[m] = dbMail[m]
  <2>1. \E n \in FreeIds :
          /\ Inserted(dbMail, <<draft>>, f)[n] = draft
          /\ \A m \in MailIds \ {n} : Inserted(dbMail, <<draft>>, f)[m] = dbMail[m]
    BY <1>1, <1>3, OneDraft
  <2> QED BY <1>4, <2>1
<1>6. n \in MailIds /\ dbMail[n] = NoMail
  BY DEF FreeIds
<1>7. ItemsIn(dbMail', n) = its /\ ItemsIn(dbMail, n) = {}
      /\ \A m \in MailIds \ {n} : ItemsIn(dbMail', m) = ItemsIn(dbMail, m)
  BY <1>1, <1>5, <1>6 DEF ItemsIn
<1>8. PICK loc : Located(loc, bag, dbMail, destroyed, aucs)
  BY DEF Placed
<1> DEFINE to == [i \in its |-> InMail(n)]
<1>9. \A i \in its : to[i] = InMail(n) /\ InMail(n) \in Spots(i)
  BY <1>6 DEF Spots
<1> HIDE DEF to
<1>10. ASSUME NEW i \in its PROVE IsAt(to, i, bag', dbMail', destroyed', aucs)
  <2>1. i \in Items /\ i \in bag[p]
    BY <1>2
  <2>2. /\ \A r \in Players : i \notin bag'[r]
        /\ \A m \in MailIds : i \in ItemsIn(dbMail', m) <=> m = n
        /\ i \notin destroyed' /\ i \notin aucs
    BY <1>2, <1>3, <1>7, <1>8, <2>1, OneSpot
  <2> QED BY <1>9, <2>2, Apart DEF IsAt
<1>11. AreAt(its, to, bag', dbMail', destroyed', aucs)
  BY <1>10 DEF AreAt
<1>12. Still(its, bag, dbMail, destroyed, aucs, bag', dbMail', destroyed', aucs)
  BY <1>2, <1>3, <1>7 DEF Still
<1> QED BY <1>8, <1>11, <1>12, Relocated

LEMMA ReturnPlaces ==
  ASSUME MailInv, SyncInv, NEW aucs, Placed(aucs), NEW p \in Players, NEW m \in MailIds,
         ReturnToSender(p, m)
  PROVE  \E loc2 : Located(loc2, bag', dbMail', destroyed', aucs)
<1> DEFINE back == IF inbox[m].kind = "normal" THEN <<Returned(inbox[m])>> ELSE << >>
           rows == [dbMail EXCEPT ![m] = NoMail]
<1>1. /\ inbox[m] \in Letters /\ inbox[m] # NoMail /\ dbMail[m] = inbox[m]
      /\ bag' = bag
  BY DEF ReturnToSender, InBox, MailInv, PostTypeOK, Rows, SyncInv, Synced
<1>2. dbMail \in Rows /\ rows \in Rows /\ rows[m] = NoMail /\ \A n \in MailIds \ {m} : rows[n] = dbMail[n]
  BY DEF MailInv, PostTypeOK, Rows
<1>3. PICK loc : Located(loc, bag, dbMail, destroyed, aucs)
  BY DEF Placed
<1>4. CASE inbox[m].kind = "normal"
  <2> DEFINE d == Returned(inbox[m])
             its == inbox[m].items
  <2>1. d \in Letters /\ d.items = its /\ NoMail \notin Letters /\ its \subseteq Items
    BY <1>1, <1>4, ReturnedType DEF Letters, Mails
  <2> HIDE DEF d
  <2>2. PICK f \in IdsFor(<<d>>) : dbMail' = Inserted(rows, <<d>>, f)
    BY <1>4 DEF ReturnToSender, d
  <2>3. PICK n \in FreeIds : dbMail'[n] = d /\ \A k \in MailIds \ {n} : dbMail'[k] = rows[k]
    <3>1. \E n \in FreeIds :
            /\ Inserted(rows, <<d>>, f)[n] = d
            /\ \A k \in MailIds \ {n} : Inserted(rows, <<d>>, f)[k] = rows[k]
      <4> HIDE DEF rows
      <4> QED BY <1>2, <2>1, OneDraft
    <3> QED BY <2>2, <3>1
  <2>4. n \in MailIds /\ n # m /\ dbMail[n] = NoMail
    BY <1>1 DEF FreeIds
  <2>5. /\ ItemsIn(dbMail', n) = its /\ ItemsIn(dbMail, n) = {}
        /\ ItemsIn(dbMail', m) = {} /\ ItemsIn(dbMail, m) = its
        /\ \A k \in MailIds \ {m, n} : ItemsIn(dbMail', k) = ItemsIn(dbMail, k)
    BY <1>1, <1>2, <2>1, <2>3, <2>4 DEF ItemsIn
  <2>6. destroyed' = destroyed
    BY <1>4 DEF ReturnToSender
  <2> HIDE DEF its
  <2> DEFINE to == [i \in its |-> InMail(n)]
  <2>7. \A i \in its : to[i] = InMail(n) /\ InMail(n) \in Spots(i)
    BY <2>4 DEF Spots
  <2> HIDE DEF to
  <2>8. ASSUME NEW i \in its PROVE IsAt(to, i, bag', dbMail', destroyed', aucs)
    <3>1. i \in Items /\ i \in ItemsIn(dbMail, m)
      BY <2>1, <2>5
    <3>2. /\ \A r \in Players : i \notin bag'[r]
          /\ \A k \in MailIds : i \in ItemsIn(dbMail', k) <=> k = n
          /\ i \notin destroyed' /\ i \notin aucs
      <4>1. /\ \A r \in Players : i \notin bag[r]
            /\ \A k \in MailIds \ {m} : i \notin ItemsIn(dbMail, k)
            /\ i \notin destroyed /\ i \notin aucs
        BY <1>3, <3>1, OneSpot
      <4> QED BY <1>1, <2>4, <2>5, <2>6, <2>8, <4>1
    <3> QED BY <2>7, <3>2, Apart DEF IsAt
  <2>9. AreAt(its, to, bag', dbMail', destroyed', aucs)
    BY <2>1, <2>8 DEF AreAt
  <2>10. Still(its, bag, dbMail, destroyed, aucs, bag', dbMail', destroyed', aucs)
    BY <1>1, <2>5, <2>6 DEF Still
  <2> QED BY <1>3, <2>9, <2>10, Relocated
<1>5. CASE inbox[m].kind # "normal"
  <2>1. PICK f \in IdsFor(<< >>) : dbMail' = Inserted(rows, << >>, f)
    BY <1>5 DEF ReturnToSender
  <2>2. \A k \in MailIds : dbMail'[k] = rows[k]
    BY <1>2, <2>1, NoDraft
  <2>3. destroyed' = destroyed \cup inbox[m].items
    BY <1>5 DEF ReturnToSender
  <2>4. /\ ItemsIn(dbMail', m) = {} /\ ItemsIn(dbMail, m) = inbox[m].items
        /\ \A k \in MailIds \ {m} : ItemsIn(dbMail', k) = ItemsIn(dbMail, k)
    BY <1>1, <1>2, <2>2 DEF ItemsIn
  <2>5. Thrown({m}, dbMail, destroyed, dbMail', destroyed')
    BY <2>3, <2>4 DEF Thrown
  <2> QED BY <1>1, <1>3, <2>5, ThrownAway
<1> QED BY <1>4, <1>5

LEMMA TakeItemPlaces ==
  ASSUME MailInv, SyncInv, NEW aucs, Placed(aucs), NEW p \in Players, NEW m \in MailIds,
         NEW i \in Items, TakeItem(p, m, i)
  PROVE  \E loc2 : Located(loc2, bag', dbMail', destroyed', aucs)
<1>0. PICK box \in Rows, rows \in Rows, st \in States : Taking(p, m, i, box, rows, st)
  BY TakeItemSaves
<1>1. /\ SaveMail(p, box, st, rows)
      /\ box[m] # NoMail /\ box[m].receiver = p /\ box[m].items = dbMail[m].items \ {i}
      /\ dbMail[m] # NoMail /\ i \in dbMail[m].items /\ st[m] = "changed"
      /\ \A n \in MailIds \ {m} :
           /\ box[n] # NoMail => box[n] = rows[n]
           /\ IF dbMail[n] = NoMail THEN rows[n] # NoMail => rows[n].items = {}
                                    ELSE rows[n] = dbMail[n]
  BY <1>0 DEF Taking
<1> DEFINE dead == Marked(p, box, st, "deleted")
<1>2. /\ dead \subseteq MailIds \ {m} /\ m \in Marked(p, box, st, "changed")
      /\ \A mark : \A n \in Marked(p, box, st, mark) : n \in MailIds /\ box[n] # NoMail
  BY <1>1 DEF Marked, MailsOf
<1>3. \A n \in MailIds \ {m} : ItemsIn(rows, n) = ItemsIn(dbMail, n)
  BY <1>1 DEF ItemsIn
<1>4. dbMail' = Saved(p, box, st, rows) /\ destroyed' = destroyed \cup Discarded(p, box, st)
  BY <1>1 DEF SaveMail
<1>5. ASSUME NEW n \in MailIds \ {m}
      PROVE  ItemsIn(dbMail', n) = IF n \in dead THEN {} ELSE ItemsIn(dbMail, n)
  <2>1. CASE n \in dead
    BY <1>4, <2>1 DEF ItemsIn, Saved
  <2>2. CASE n \notin dead /\ n \in Marked(p, box, st, "changed")
    <3>1. dbMail'[n] = Kept(box[n]) /\ box[n] = rows[n] /\ rows[n] # NoMail
      BY <1>1, <1>2, <1>4, <2>2 DEF Saved
    <3>2. Kept(box[n]) = box[n] \/ (Kept(box[n]) = NoMail /\ box[n].items = {})
      BY DEF Kept
    <3>3. ItemsIn(rows, n) = box[n].items
      BY <3>1 DEF ItemsIn
    <3>4. ItemsIn(dbMail', n) = box[n].items
      BY <3>1, <3>2 DEF ItemsIn
    <3> QED BY <1>3, <2>2, <3>3, <3>4
  <2>3. CASE n \notin dead /\ n \notin Marked(p, box, st, "changed")
    <3>1. dbMail'[n] = rows[n]
      BY <1>4, <2>3 DEF Saved
    <3> QED BY <1>3, <2>3, <3>1 DEF ItemsIn
  <2> QED BY <2>1, <2>2, <2>3
<1>6. ItemsIn(dbMail', m) = ItemsIn(dbMail, m) \ {i} /\ i \in ItemsIn(dbMail, m)
  <2>1. dbMail'[m] = Kept(box[m])
    BY <1>2, <1>4 DEF Saved
  <2>2. Kept(box[m]) = box[m] \/ (Kept(box[m]) = NoMail /\ box[m].items = {})
    BY DEF Kept
  <2> QED BY <1>1, <2>1, <2>2 DEF ItemsIn
<1>7. Discarded(p, box, st) = UNION {ItemsIn(dbMail, n) : n \in dead}
  <2>1. \A n \in dead : box[n].items = ItemsIn(dbMail, n)
    <3> TAKE n \in dead
    <3>1. n \in MailIds \ {m} /\ box[n] # NoMail /\ box[n] = rows[n]
      BY <1>1, <1>2
    <3> QED BY <1>3, <3>1 DEF ItemsIn
  <2> QED BY <2>1 DEF Discarded
<1>8. /\ bag \in [Players -> SUBSET Items] /\ bag' = [bag EXCEPT ![p] = @ \cup {i}]
  BY DEF TakeItem, MailInv, OwnTypeOK
<1> HIDE DEF dead
<1> DEFINE its == {j \in Items : j = i \/ \E n \in dead : j \in ItemsIn(dbMail, n)}
           to == [j \in its |-> IF j = i THEN InBag(p) ELSE Gone]
<1>9. \A j \in its : /\ to[j] = (IF j = i THEN InBag(p) ELSE Gone)
                     /\ to[j] \in Spots(j) /\ j \in Items
                     /\ j = i \/ \E n \in dead : j \in ItemsIn(dbMail, n)
  BY DEF Spots
<1> HIDE DEF to
<1>10. PICK loc : Located(loc, bag, dbMail, destroyed, aucs)
  BY DEF Placed
<1>11. IsAt(to, i, bag', dbMail', destroyed', aucs)
  <2>1. /\ \A r \in Players : i \in bag'[r] <=> r = p
        /\ \A n \in MailIds : i \notin ItemsIn(dbMail', n)
        /\ i \notin destroyed' /\ i \notin aucs
    <3>1. /\ \A r \in Players : i \notin bag[r]
          /\ \A n \in MailIds \ {m} : i \notin ItemsIn(dbMail, n)
          /\ i \notin destroyed /\ i \notin aucs
      BY <1>6, <1>10, OneSpot
    <3>2. i \notin destroyed'
      BY <1>2, <1>4, <1>7, <3>1
    <3> QED BY <1>5, <1>6, <1>8, <3>1, <3>2
  <2> QED BY <1>9, <2>1, Apart DEF IsAt
<1>12. ASSUME NEW j \in its, j # i PROVE IsAt(to, j, bag', dbMail', destroyed', aucs)
  <2>1. PICK n \in dead : j \in ItemsIn(dbMail, n)
    BY <1>9, <1>12
  <2>2. n \in MailIds \ {m} /\ j \in Items
    BY <1>2, <1>9
  <2>3. /\ \A r \in Players : j \notin bag[r]
        /\ \A k \in MailIds : j \in ItemsIn(dbMail, k) => k = n
        /\ j \notin aucs
    <3>1. n \in MailIds /\ j \in ItemsIn(dbMail, n)
      BY <2>1, <2>2
    <3> QED BY <1>10, <2>2, <3>1, OneSpot
  <2>4. /\ \A r \in Players : j \notin bag'[r]
        /\ \A k \in MailIds : j \notin ItemsIn(dbMail', k)
        /\ j \in destroyed'
    BY <1>4, <1>5, <1>6, <1>7, <1>8, <1>12, <2>1, <2>2, <2>3
  <2> QED BY <1>9, <1>12, <2>3, <2>4, Apart DEF IsAt
<1>13. AreAt(its, to, bag', dbMail', destroyed', aucs)
  BY <1>11, <1>12 DEF AreAt
<1>14. Still(its, bag, dbMail, destroyed, aucs, bag', dbMail', destroyed', aucs)
  BY <1>4, <1>5, <1>6, <1>7, <1>8 DEF Still
<1> HIDE DEF its
<1> QED BY <1>10, <1>13, <1>14, Relocated

LEMMA TakeMoneyPlaces ==
  ASSUME MailInv, SyncInv, NEW aucs, Placed(aucs), NEW p \in Players, NEW m \in MailIds,
         TakeMoney(p, m)
  PROVE  \E loc2 : Located(loc2, bag', dbMail', destroyed', aucs)
<1> DEFINE box == [inbox EXCEPT ![m].money = 0]
           st == [state EXCEPT ![m] = "changed"]
<1>1. inbox[m] \in Letters /\ inbox[m] # NoMail
  BY DEF TakeMoney, InBox, MailInv, PostTypeOK, Rows
<1>2. box \in Rows /\ st \in States
  BY <1>1, TakenType DEF MailInv, PostTypeOK, Rows, States
<1>3. box[m].items = inbox[m].items /\ \A n \in MailIds \ {m} : box[n] = inbox[n]
  BY <1>1 DEF MailInv, PostTypeOK, Rows, Letters, Mails
<1>4. bag' = bag /\ dbMail' = Saved(p, box, st, dbMail)
      /\ destroyed' = destroyed \cup Discarded(p, box, st)
  BY DEF TakeMoney, SaveMail
<1> HIDE DEF box, st
<1>5. \A n \in MailIds : box[n] # NoMail => dbMail[n] # NoMail /\ box[n].items = dbMail[n].items
  BY <1>1, <1>3 DEF SyncInv, Synced
<1>6. PICK loc : Located(loc, bag, dbMail, destroyed, aucs)
  BY DEF Placed
<1>7. \E loc2 : Located(loc2, bag, Saved(p, box, st, dbMail), destroyed \cup Discarded(p, box, st), aucs)
  BY <1>2, <1>5, <1>6, SavePlaces DEF MailInv, PostTypeOK
<1> QED BY <1>4, <1>7

LEMMA SaveOrLogoutPlaces ==
  ASSUME MailInv, SyncInv, NEW aucs, Placed(aucs), NEW p \in Players, Save(p) \/ Logout(p)
  PROVE  \E loc2 : Located(loc2, bag', dbMail', destroyed', aucs)
<1>1. PICK loc : Located(loc, bag, dbMail, destroyed, aucs)
  BY DEF Placed
<1>2. bag' = bag
  BY DEF Save, Logout
<1>3. CASE p \in mailsUpdated
  <2>1. dbMail' = Saved(p, inbox, state, dbMail)
        /\ destroyed' = destroyed \cup Discarded(p, inbox, state)
    BY <1>3 DEF Save, Logout, SaveMail
  <2>2. \A n \in MailIds : inbox[n] # NoMail =>
          dbMail[n] # NoMail /\ inbox[n].items = dbMail[n].items
    BY DEF SyncInv, Synced
  <2>3. \E loc2 : Located(loc2, bag, Saved(p, inbox, state, dbMail),
                          destroyed \cup Discarded(p, inbox, state), aucs)
    BY <1>1, <2>2, SavePlaces DEF MailInv, PostTypeOK
  <2> QED BY <1>2, <2>1, <2>3
<1>4. CASE p \notin mailsUpdated
  <2>1. dbMail' = dbMail /\ destroyed' = destroyed
    BY <1>4 DEF Save, Logout
  <2> QED BY <1>1, <1>2, <2>1
<1> QED BY <1>3, <1>4

LEMMA ReturnOrDeletePlaces ==
  ASSUME MailInv, NEW aucs, Placed(aucs), NEW expired \in SUBSET {m \in MailIds : dbMail[m] # NoMail},
         ReturnOrDeleteOldMails(expired)
  PROVE  \E loc2 : Located(loc2, bag', dbMail', destroyed', aucs)
<1> DEFINE old == {m \in expired : dbMail[m].receiver \notin online}
           dead == {m \in old : ~Returnable(dbMail[m])}
<1>1. /\ dbMail' = [m \in MailIds |->
                     IF m \notin old THEN dbMail[m]
                     ELSE IF Returnable(dbMail[m]) THEN Returned(dbMail[m]) ELSE NoMail]
      /\ destroyed' = destroyed \cup UNION {dbMail[m].items : m \in dead}
      /\ bag' = bag
  BY DEF ReturnOrDeleteOldMails, memory
<1>2. \A m \in old : m \in MailIds /\ dbMail[m] \in Letters /\ dbMail[m] # NoMail
  BY DEF MailInv, PostTypeOK, Rows
<1>3. \A m \in old : dbMail[m].items = ItemsIn(dbMail, m)
  BY <1>2 DEF ItemsIn
<1>4. ASSUME NEW m \in MailIds
      PROVE  ItemsIn(dbMail', m) = IF m \in dead THEN {} ELSE ItemsIn(dbMail, m)
  <2>1. CASE m \notin old
    BY <1>1, <2>1 DEF ItemsIn
  <2>2. CASE m \in dead
    BY <1>1, <2>2 DEF ItemsIn
  <2>3. CASE m \in old /\ Returnable(dbMail[m])
    <3>1. Returned(dbMail[m]) \in Letters /\ Returned(dbMail[m]).items = dbMail[m].items
      BY <1>2, <2>3, ReturnedType DEF Returnable
    <3>2. dbMail'[m] = Returned(dbMail[m]) /\ NoMail \notin Letters
      BY <1>1, <2>3 DEF Letters
    <3> QED BY <1>3, <2>3, <3>1, <3>2 DEF ItemsIn
  <2> QED BY <2>1, <2>2, <2>3
<1>5. dead \subseteq MailIds /\ \A m \in dead : dbMail[m].items = ItemsIn(dbMail, m)
  BY <1>2, <1>3
<1> HIDE DEF dead
<1>6. Thrown(dead, dbMail, destroyed, dbMail', destroyed')
  BY <1>1, <1>4, <1>5 DEF Thrown
<1>7. PICK loc : Located(loc, bag, dbMail, destroyed, aucs)
  BY DEF Placed
<1> QED BY <1>1, <1>6, <1>7, ThrownAway

\* No step of the mail system loses or doubles an item.
LEMMA MailPlacesStep ==
  ASSUME MailInv, SyncInv, NEW aucs, Placed(aucs), MailNext
  PROVE  \E loc2 : Located(loc2, bag', dbMail', destroyed', aucs)
<1>1. ASSUME NEW p \in Players, NEW m \in MailIds, MarkAsRead(p, m) \/ MailDelete(p, m)
      PROVE  \E loc2 : Located(loc2, bag', dbMail', destroyed', aucs)
  BY <1>1 DEF MarkAsRead, MailDelete, database, Placed
<1>2. ASSUME NEW p \in Players, Login(p) \/ SpendOrEarn(p)
      PROVE  \E loc2 : Located(loc2, bag', dbMail', destroyed', aucs)
  BY <1>2 DEF Login, SpendOrEarn, database, Placed
<1>3. ASSUME NEW p \in Writers, NEW q \in Players, NEW its \in SUBSET Items,
             NEW gold \in Amounts \cup {0}, NEW cod \in Amounts \cup {0}, SendMail(p, q, its, gold, cod)
      PROVE  \E loc2 : Located(loc2, bag', dbMail', destroyed', aucs)
  <2>1. p \in Players /\ gold \in Nat /\ cod \in Nat
    OBVIOUS
  <2> QED BY <1>3, <2>1, SendMailPlaces
<1> QED BY <1>1, <1>2, <1>3, ReturnPlaces, TakeItemPlaces, TakeMoneyPlaces, SaveOrLogoutPlaces,
           ReturnOrDeletePlaces
        DEF MailNext

-----------------------------------------------------------------------------
(* The auctions.                                                           *)

USE AuctionAssumption, NoAuctionAssumption

\* An auction that can be bought out has not been bid that much.
Priced(a) == a.buyout = 0 \/ a.bid < a.buyout

AuctionInv ==
  /\ auction \in [Items -> Auctions \cup {NoAuction}] /\ dbAuction = auction
  /\ \A i \in Items : auction[i] # NoAuction => Priced(auction[i])

OnSale == {i \in Items : auction[i] # NoAuction}

Inv == MailInv /\ SyncInv /\ AuctionInv /\ Placed(OnSale)

-----------------------------------------------------------------------------
(* What the house takes and what it mails.                                 *)

\* The house never keeps more of a price than the price.
LEMMA CutBound ==
  ASSUME NEW price \in Nat
  PROVE  Cut(price) \in 0 .. price
<1>1. \A x, y \in Nat : x * y \in Nat
  OBVIOUS
<1>2. price * CutPercent \in Nat /\ price * (100 - CutPercent) \in Nat
  BY <1>1
<1>3. price * (100 - CutPercent) = price * 100 - price * CutPercent
  OBVIOUS
<1>4. \A x \in Nat : x <= price * 100 => x \div 100 \in 0 .. price
  OBVIOUS
<1>5. price * CutPercent <= price * 100
  BY <1>2, <1>3
<1> QED BY <1>2, <1>4, <1>5 DEF Cut

LEMMA HouseMail ==
  ASSUME NEW i \in Items, NEW q \in Players, NEW its \in SUBSET Items, NEW gold \in Nat
  PROVE  /\ AuctionMail(i, q, its, gold, TRUE) \in Letters
         /\ AuctionMail(i, q, its, gold, TRUE).items = its
         /\ AuctionMail(i, q, its, gold, FALSE) \in Letters
         /\ AuctionMail(i, q, its, gold, FALSE).items = its
<1>1. ASSUME NEW late \in BOOLEAN
      PROVE  AuctionMail(i, q, its, gold, late) \in Letters
  <2> DEFINE mail == AuctionMail(i, q, its, gold, late)
  <2>1. mail \in Mails
    BY DEF AuctionMail, Mails
  <2>2. mail.kind = "auction" /\ mail.cod = 0
    BY DEF AuctionMail
  <2> HIDE DEF mail
  <2>3. mail \in Letters
    BY <2>1, <2>2 DEF Letters
  <2> QED BY <2>3 DEF mail
<1>2. AuctionMail(i, q, its, gold, TRUE) \in Letters
  BY <1>1, Zenon
<1>3. AuctionMail(i, q, its, gold, FALSE) \in Letters
  BY <1>1, Zenon
<1> QED BY <1>2, <1>3 DEF AuctionMail

\* A mail with an item has no money in it.
LEMMA ItemMail ==
  ASSUME NEW i \in Items, NEW q \in Players
  PROVE  /\ AuctionMail(i, q, {i}, 0, FALSE) \in Letters
         /\ AuctionMail(i, q, {i}, 0, FALSE).items = {i}
<1> DEFINE mail == AuctionMail(i, q, {i}, 0, FALSE)
<1>1. mail \in Mails
  BY DEF AuctionMail, Mails
<1>2. mail.kind = "auction" /\ mail.cod = 0 /\ mail.items = {i}
  BY DEF AuctionMail
<1> HIDE DEF mail
<1>3. mail \in Letters
  BY <1>1, <1>2 DEF Letters
<1> QED BY <1>2, <1>3 DEF mail

LEMMA BidTypes ==
  ASSUME NEW a \in Auctions
  PROVE  a.bid \in Nat /\ a.buyout \in Nat
<1>1. a.bid \in Prices \cup {0} /\ a.buyout \in Prices \cup {0}
  BY DEF Auctions
<1>2. \A x \in Prices \cup {0} : x \in Nat
  OBVIOUS
<1> QED BY <1>1, <1>2, Zenon

LEMMA HouseMails ==
  ASSUME NEW i \in Items, NEW a \in Auctions
  PROVE  /\ Profit(i, a) \in Letters /\ Profit(i, a).items = {}
         /\ ItemBack(i, a) \in Letters /\ ItemBack(i, a).items = {i}
         /\ a.bidder # NoPlayer => /\ Refund(i, a) \in Letters /\ Refund(i, a).items = {}
                                   /\ Won(i, a) \in Letters /\ Won(i, a).items = {i}
<1>1. a.owner \in Players /\ a.bid \in Nat /\ (a.bidder # NoPlayer => a.bidder \in Players)
  BY BidTypes DEF Auctions
<1>2. a.bid + Deposit - Cut(a.bid) \in Nat
  <2>1. Cut(a.bid) \in 0 .. a.bid
    BY <1>1, CutBound
  <2> QED BY <1>1, <2>1
<1>3. {} \in SUBSET Items
  OBVIOUS
<1>4. Profit(i, a) \in Letters /\ Profit(i, a).items = {}
  BY <1>1, <1>2, <1>3, HouseMail DEF Profit
<1>5. ItemBack(i, a) \in Letters /\ ItemBack(i, a).items = {i}
  BY <1>1, ItemMail DEF ItemBack
<1>6. ASSUME a.bidder # NoPlayer
      PROVE  /\ Refund(i, a) \in Letters /\ Refund(i, a).items = {}
             /\ Won(i, a) \in Letters /\ Won(i, a).items = {i}
  <2>1. a.bidder \in Players
    BY <1>1, <1>6
  <2>2. Won(i, a) \in Letters /\ Won(i, a).items = {i}
    BY <2>1, ItemMail DEF Won
  <2>3. Refund(i, a) \in Letters /\ Refund(i, a).items = {}
    BY <1>1, <1>3, <2>1, HouseMail DEF Refund
  <2> QED BY <2>2, <2>3
<1> QED BY <1>4, <1>5, <1>6

\* A step of a player that pays and sends mail, and changes nothing else of the mail's.
LEMMA PaidAndPosted ==
  ASSUME MailInv, SyncInv, NEW p \in Players, NEW price \in Nat, money[p] >= price,
         money' = [money EXCEPT ![p] = @ - price],
         NEW drafts, \A k \in DOMAIN drafts : drafts[k] \in Letters, SendMailTo(drafts),
         UNCHANGED <<bag, online, state, mailsUpdated, destroyed>>, SaveInventoryAndGold(p)
  PROVE  MailInv' /\ SyncInv'
<1>1. money' \in [Players -> 0 .. MaxMoney] /\ bag' \in [Players -> SUBSET Items]
  <2>1. money[p] - price \in 0 .. MaxMoney
    BY DEF MailInv, OwnTypeOK
  <2> QED BY <2>1 DEF MailInv, OwnTypeOK
<1>2. OwnTypeOK'
  BY <1>1, SaveOwnType DEF SaveInventoryAndGold, MailInv
<1>3. PostTypeOK'
  BY SendTypes DEF SendMailTo, MailInv, PostTypeOK
<1>4. bag' = [bag EXCEPT ![p] = bag[p]] /\ bag = dbBag
  BY DEF MailInv, OwnTypeOK, SyncInv
<1>5. bag' = dbBag'
  BY <1>4, SaveBagSync
<1>6. Synced(inbox', dbMail', online')
  BY SendMailToSync
<1> QED BY <1>2, <1>3, <1>5, <1>6 DEF MailInv, OnlineTypeOK, SyncInv

\* The items its leave their auctions, each with one of the mails that are sent.
Packed(its, drafts, of) ==
  /\ \A i \in its : of[i] \in DOMAIN drafts
  /\ \A i \in Items, k \in DOMAIN drafts : i \in drafts[k].items <=> i \in its /\ k = of[i]

LEMMA PostedPlaces ==
  ASSUME MailInv, NEW aucs, Placed(aucs), NEW its \in SUBSET Items, its \subseteq aucs,
         NEW drafts, NEW of, \A k \in DOMAIN drafts : drafts[k] \in Letters,
         Packed(its, drafts, of), SendMailTo(drafts), bag' = bag, destroyed' = destroyed
  PROVE  \E loc2 : Located(loc2, bag', dbMail', destroyed', aucs \ its)
<1>1. PICK f \in IdsFor(drafts) : dbMail' = Inserted(dbMail, drafts, f)
  BY DEF SendMailTo
<1>2. /\ f \in [DOMAIN drafts -> FreeIds]
      /\ \A a, b \in DOMAIN drafts : f[a] = f[b] => a = b
  BY DEF IdsFor, Injection, IsInjective
<1>3. \A m \in FreeIds : m \in MailIds /\ ItemsIn(dbMail, m) = {}
  BY DEF FreeIds, ItemsIn
<1>4. ASSUME NEW m \in MailIds, m \notin Range(f)
      PROVE  ItemsIn(dbMail', m) = ItemsIn(dbMail, m)
  BY <1>1, <1>4 DEF Inserted, ItemsIn
<1>5. ASSUME NEW m \in Range(f), NEW i \in Items
      PROVE  i \in ItemsIn(dbMail', m) <=> i \in its /\ m = f[of[i]]
  <2>1. PICK k \in DOMAIN drafts : f[k] = m /\ DraftAt(drafts, f, m) = drafts[k]
    BY <1>5, DraftIds
  <2>2. m \in MailIds
    BY <1>2, <1>3, <2>1
  <2>3. dbMail'[m] = drafts[k] /\ drafts[k] # NoMail
    BY <1>1, <1>5, <2>1, <2>2 DEF Inserted, Letters
  <2>4. ItemsIn(dbMail', m) = drafts[k].items
    BY <2>3 DEF ItemsIn
  <2>5. i \in drafts[k].items <=> i \in its /\ k = of[i]
    BY DEF Packed
  <2>6. i \in its => of[i] \in DOMAIN drafts
    BY DEF Packed
  <2> QED BY <1>2, <2>1, <2>4, <2>5, <2>6
<1>6. \A i \in its : f[of[i]] \in Range(f) /\ f[of[i]] \in MailIds
  <2> TAKE i \in its
  <2>1. of[i] \in DOMAIN drafts
    BY DEF Packed
  <2> QED BY <1>2, <1>3, <2>1, DraftIds
<1>7. PICK loc : Located(loc, bag, dbMail, destroyed, aucs)
  BY DEF Placed
<1> DEFINE to == [i \in its |-> InMail(f[of[i]])]
<1>8. \A i \in its : to[i] = InMail(f[of[i]]) /\ to[i] \in Spots(i)
  BY <1>6 DEF Spots
<1> HIDE DEF to
<1>9. ASSUME NEW i \in its PROVE IsAt(to, i, bag', dbMail', destroyed', aucs \ its)
  <2>1. /\ \A p \in Players : i \notin bag[p]
        /\ \A m \in MailIds : i \notin ItemsIn(dbMail, m)
        /\ i \notin destroyed
    BY <1>7, OneSpot
  <2>2. \A m \in MailIds : i \in ItemsIn(dbMail', m) <=> m = f[of[i]]
    BY <1>4, <1>5, <1>6, <2>1
  <2> QED BY <1>8, <2>1, <2>2, Apart DEF IsAt
<1>10. AreAt(its, to, bag', dbMail', destroyed', aucs \ its)
  BY <1>9 DEF AreAt
<1>11. ASSUME NEW j \in Items \ its, NEW m \in MailIds
       PROVE  j \in ItemsIn(dbMail', m) <=> j \in ItemsIn(dbMail, m)
  <2>1. CASE m \in Range(f)
    <3>1. ItemsIn(dbMail, m) = {}
      BY <1>3, <2>1, DraftIds
    <3> QED BY <1>5, <2>1, <3>1
  <2> QED BY <1>4, <2>1
<1>12. Still(its, bag, dbMail, destroyed, aucs, bag', dbMail', destroyed', aucs \ its)
  BY <1>11 DEF Still
<1> QED BY <1>7, <1>10, <1>12, Relocated

-----------------------------------------------------------------------------
(* One lemma for each kind of step.                                        *)

LEMMA SellItemStep ==
  ASSUME Inv, NEW p \in Players, NEW i \in Items, NEW startbid \in Prices,
         NEW buyout \in Prices \cup {0}, SellItem(p, i, startbid, buyout)
  PROVE  Inv'
<1> DEFINE a == [owner |-> p, startbid |-> startbid, buyout |-> buyout,
                 bid |-> 0, bidder |-> NoPlayer]
<1>1. a \in Auctions /\ a # NoAuction /\ Priced(a)
  <2>1. a \in Auctions
    BY DEF Auctions
  <2>2. buyout = 0 \/ 0 < buyout
    OBVIOUS
  <2>3. a.buyout = buyout /\ a.bid = 0
    OBVIOUS
  <2> HIDE DEF a
  <2> QED BY <2>1, <2>2, <2>3 DEF Priced
<1>2. /\ auction' = [auction EXCEPT ![i] = a] /\ dbAuction' = [dbAuction EXCEPT ![i] = auction'[i]]
      /\ i \in bag[p] /\ money[p] >= Deposit /\ money' = [money EXCEPT ![p] = @ - Deposit]
      /\ bag' = [bag EXCEPT ![p] = @ \ {i}] /\ SaveInventoryAndGold(p)
      /\ UNCHANGED <<online, inbox, state, mailsUpdated, dbMail, destroyed>>
  BY DEF SellItem
<1> HIDE DEF a
<1>3. MailInv'
  <2>1. money[p] - Deposit \in 0 .. MaxMoney
    BY <1>2 DEF Inv, MailInv, OwnTypeOK
  <2>2. money' \in [Players -> 0 .. MaxMoney] /\ bag' \in [Players -> SUBSET Items]
    BY <1>2, <2>1 DEF Inv, MailInv, OwnTypeOK
  <2>3. OwnTypeOK'
    BY <1>2, <2>2, SaveOwnType DEF Inv, SaveInventoryAndGold, MailInv
  <2> QED BY <1>2, <2>3 DEF Inv, MailInv, PostTypeOK, OnlineTypeOK
<1>4. SyncInv'
  <2>1. bag' = dbBag'
    BY <1>2, SaveBagSync DEF Inv, SyncInv
  <2> QED BY <1>2, <2>1 DEF Inv, SyncInv, Synced
<1>5. AuctionInv' /\ OnSale' = OnSale \cup {i}
  BY <1>1, <1>2 DEF Inv, AuctionInv, OnSale
<1>6. Placed(OnSale)'
  <2>1. PICK loc : Located(loc, bag, dbMail, destroyed, OnSale)
    BY DEF Inv, Placed
  <2> DEFINE to == [j \in {i} |-> InAuction(i)]
  <2>2. to[i] = InAuction(i) /\ to[i] \in Spots(i)
    BY DEF Spots
  <2> HIDE DEF to
  <2>3. /\ \A q \in Players : i \notin bag'[q]
        /\ \A m \in MailIds : i \notin ItemsIn(dbMail, m)
        /\ i \notin destroyed
    BY <1>2, <2>1, OneSpot DEF Inv, MailInv, OwnTypeOK
  <2>4. IsAt(to, i, bag', dbMail', destroyed', OnSale \cup {i})
    BY <1>2, <2>2, <2>3, Apart DEF IsAt
  <2>5. AreAt({i}, to, bag', dbMail', destroyed', OnSale \cup {i})
    BY <2>4 DEF AreAt
  <2>6. Still({i}, bag, dbMail, destroyed, OnSale, bag', dbMail', destroyed', OnSale \cup {i})
    BY <1>2 DEF Still, Inv, MailInv, OwnTypeOK
  <2>7. \E loc2 : Located(loc2, bag', dbMail', destroyed', OnSale \cup {i})
    BY <2>1, <2>5, <2>6, Relocated
  <2> QED BY <1>5, <2>7 DEF Placed
<1> QED BY <1>3, <1>4, <1>5, <1>6 DEF Inv

\* What is due when a bid is accepted: no more than is offered.
LEMMA OwedBound ==
  ASSUME AuctionInv, NEW p \in Players, NEW i \in Items, auction[i] # NoAuction,
         NEW price \in Nat, NEW due \in Nat, due <= price, money[p] \in Nat, money[p] >= price,
         auction[i].bidder = p => due >= auction[i].bid
  PROVE  Owed(p, auction[i], due) \in Nat /\ money[p] >= Owed(p, auction[i], due)
<1>1. auction[i] \in Auctions
  BY DEF AuctionInv
<1>2. auction[i].bid \in Nat
  BY <1>1, BidTypes
<1> QED BY <1>2 DEF Owed

LEMMA PlaceBidStep ==
  ASSUME Inv, NEW p \in Players, NEW i \in Items, NEW price \in Prices, PlaceBid(p, i, price)
  PROVE  Inv'
<1> DEFINE a == auction[i]
           drafts == IF Outbid(p, a) THEN <<Refund(i, a)>> ELSE << >>
           due == Owed(p, a, price)
<1>1. /\ a \in Auctions /\ a # NoAuction /\ price \in Nat /\ price > a.bid /\ money[p] >= price
      /\ ~IsBuyout(a, price) /\ money[p] \in Nat /\ a.bid \in Nat
  BY BidTypes DEF PlaceBid, MayBid, Inv, AuctionInv, MailInv, OwnTypeOK
<1>2. /\ money' = [money EXCEPT ![p] = @ - due] /\ SendMailTo(drafts)
      /\ auction' = [auction EXCEPT ![i].bidder = p, ![i].bid = price]
      /\ dbAuction' = [dbAuction EXCEPT ![i].bidder = p, ![i].bid = price]
      /\ UNCHANGED <<bag, online, state, mailsUpdated, destroyed>> /\ SaveInventoryAndGold(p)
  BY DEF PlaceBid
<1>3. due \in Nat /\ money[p] >= due
  BY <1>1, OwedBound DEF Inv
<1>4. \A k \in DOMAIN drafts : drafts[k] \in Letters /\ drafts[k].items = {}
  <2>1. CASE Outbid(p, a)
    <3>1. Refund(i, a) \in Letters /\ Refund(i, a).items = {}
      BY <1>1, <2>1, HouseMails DEF Outbid
    <3> QED BY <2>1, <3>1
  <2>2. CASE ~Outbid(p, a)
    BY <2>2
  <2> QED BY <2>1, <2>2
<1>5. /\ auction'[i] \in Auctions /\ Priced(auction'[i])
      /\ \A j \in Items \ {i} : auction'[j] = auction[j]
  <2>1. auction'[i] = [a EXCEPT !.bidder = p, !.bid = price]
    BY <1>2 DEF Inv, AuctionInv
  <2>2. auction'[i] \in Auctions /\ auction'[i].buyout = a.buyout /\ auction'[i].bid = price
    BY <1>1, <2>1 DEF Auctions
  <2>3. a.buyout \in Nat
    BY <1>1, BidTypes
  <2>4. a.buyout = 0 \/ price < a.buyout
    BY <1>1, <2>3 DEF IsBuyout
  <2> QED BY <1>2, <2>2, <2>4 DEF Inv, AuctionInv, Priced
<1> HIDE DEF due, drafts
<1>6. MailInv' /\ SyncInv'
  BY <1>2, <1>3, <1>4, PaidAndPosted DEF Inv
<1>7. AuctionInv' /\ OnSale' = OnSale
  <2>1. auction' = dbAuction' /\ auction' \in [Items -> Auctions \cup {NoAuction}]
    <3>1. DOMAIN auction' = Items
      BY <1>2 DEF Inv, AuctionInv
    <3> QED BY <1>2, <1>5, <3>1 DEF Inv, AuctionInv
  <2> QED BY <1>1, <1>5, <2>1 DEF Inv, AuctionInv, OnSale
<1>8. Placed(OnSale)'
  <2>1. Packed({}, drafts, << >>)
    BY <1>4 DEF Packed
  <2>2. \E loc2 : Located(loc2, bag', dbMail', destroyed', OnSale \ {})
    BY <1>2, <1>4, <2>1, PostedPlaces DEF Inv
  <2>3. OnSale \ {} = OnSale'
    BY <1>7
  <2> QED BY <2>2, <2>3 DEF Placed
<1> QED BY <1>6, <1>7, <1>8 DEF Inv

\* The auctions of the items its end, and the mails carry the items away.
Ends(its, drafts, of) ==
  /\ SendMailTo(drafts) /\ \A k \in DOMAIN drafts : drafts[k] \in Letters
  /\ its \subseteq OnSale /\ Packed(its, drafts, of)
  /\ bag' = bag /\ destroyed' = destroyed /\ dbAuction' = auction'
  /\ auction' \in [Items -> Auctions \cup {NoAuction}]
  /\ \A i \in Items : auction'[i] = IF i \in its THEN NoAuction ELSE auction[i]

LEMMA EndStep ==
  ASSUME Inv, NEW its, NEW drafts, NEW of, Ends(its, drafts, of), MailInv', SyncInv'
  PROVE  Inv'
<1>1. AuctionInv' /\ OnSale' = OnSale \ its
  BY DEF Ends, Inv, AuctionInv, OnSale
<1>2. its \in SUBSET Items
  BY DEF Ends, OnSale
<1>3. \E loc2 : Located(loc2, bag', dbMail', destroyed', OnSale \ its)
  BY <1>2, PostedPlaces DEF Ends, Inv
<1>4. Placed(OnSale)'
  BY <1>1, <1>3 DEF Placed
<1> QED BY <1>1, <1>4 DEF Inv

LEMMA BuyoutStep ==
  ASSUME Inv, NEW p \in Players, NEW i \in Items, NEW price \in Prices, Buyout(p, i, price)
  PROVE  Inv'
<1> DEFINE a == auction[i]
           sold == [a EXCEPT !.bidder = p, !.bid = a.buyout]
           drafts == IF Outbid(p, a) THEN <<Refund(i, a), Profit(i, sold), Won(i, sold)>>
                                     ELSE <<Profit(i, sold), Won(i, sold)>>
           due == Owed(p, a, a.buyout)
           of == [j \in {i} |-> IF Outbid(p, a) THEN 3 ELSE 2]
<1>1. /\ a \in Auctions /\ a # NoAuction /\ price \in Nat /\ money[p] >= price
      /\ a.buyout # 0 /\ price >= a.buyout /\ money[p] \in Nat
      /\ a.bid \in Nat /\ a.buyout \in Nat /\ a.bid < a.buyout
  <2>1. /\ a \in Auctions /\ a # NoAuction /\ price \in Nat /\ money[p] >= price
        /\ a.buyout # 0 /\ price >= a.buyout /\ money[p] \in Nat
    BY DEF Buyout, MayBid, IsBuyout, Inv, AuctionInv, MailInv, OwnTypeOK
  <2> QED BY <2>1, BidTypes DEF Inv, AuctionInv, Priced
<1>2. /\ money' = [money EXCEPT ![p] = @ - due] /\ SendMailTo(drafts)
      /\ auction' = [auction EXCEPT ![i] = NoAuction] /\ dbAuction' = [dbAuction EXCEPT ![i] = NoAuction]
      /\ UNCHANGED <<bag, online, state, mailsUpdated, destroyed>> /\ SaveInventoryAndGold(p)
  BY DEF Buyout
<1>3. due \in Nat /\ money[p] >= due
  BY <1>1, OwedBound DEF Inv
<1>4. sold \in Auctions /\ sold.bidder = p
  <2>1. a.buyout \in Prices \cup {0}
    BY <1>1 DEF Auctions
  <2> QED BY <1>1, <2>1 DEF Auctions
<1> HIDE DEF sold, due
<1>5. /\ Profit(i, sold) \in Letters /\ Profit(i, sold).items = {}
      /\ Won(i, sold) \in Letters /\ Won(i, sold).items = {i}
  BY <1>4, HouseMails
<1>6. Outbid(p, a) => Refund(i, a) \in Letters /\ Refund(i, a).items = {}
  BY <1>1, HouseMails DEF Outbid
<1>7. /\ \A k \in DOMAIN drafts : drafts[k] \in Letters
      /\ Packed({i}, drafts, of)
  <2>1. CASE Outbid(p, a)
    <3>1. drafts = <<Refund(i, a), Profit(i, sold), Won(i, sold)>>
      BY <2>1, Zenon
    <3> HIDE DEF drafts
    <3>2. /\ DOMAIN drafts = {1, 2, 3} /\ drafts[1] = Refund(i, a)
          /\ drafts[2] = Profit(i, sold) /\ drafts[3] = Won(i, sold)
      BY <3>1
    <3>3. of[i] = 3
      BY <2>1
    <3> HIDE DEF of
    <3> QED BY <1>5, <1>6, <2>1, <3>2, <3>3 DEF Packed
  <2>2. CASE ~Outbid(p, a)
    <3>1. drafts = <<Profit(i, sold), Won(i, sold)>>
      BY <2>2, Zenon
    <3> HIDE DEF drafts
    <3>2. /\ DOMAIN drafts = {1, 2}
          /\ drafts[1] = Profit(i, sold) /\ drafts[2] = Won(i, sold)
      BY <3>1
    <3>3. of[i] = 2
      BY <2>2
    <3> HIDE DEF of
    <3> QED BY <1>5, <3>2, <3>3 DEF Packed
  <2> QED BY <2>1, <2>2
<1> HIDE DEF drafts, of
<1>8. MailInv' /\ SyncInv'
  BY <1>2, <1>3, <1>7, PaidAndPosted DEF Inv
<1>9. Ends({i}, drafts, of)
  BY <1>1, <1>2, <1>7 DEF Ends, Inv, AuctionInv, OnSale
<1> QED BY <1>8, <1>9, EndStep

LEMMA RemoveItemStep ==
  ASSUME Inv, NEW p \in Players, NEW i \in Items, RemoveItem(p, i)
  PROVE  Inv'
<1> DEFINE a == auction[i]
           fee == IF a.bidder = NoPlayer THEN 0 ELSE Cut(a.bid)
           drafts == IF a.bidder = NoPlayer THEN <<ItemBack(i, a)>>
                                            ELSE <<Refund(i, a), ItemBack(i, a)>>
           of == [j \in {i} |-> IF a.bidder = NoPlayer THEN 1 ELSE 2]
<1>1. a \in Auctions /\ a # NoAuction /\ a.bid \in Nat
  BY BidTypes DEF RemoveItem, Inv, AuctionInv
<1>2. /\ money[p] >= fee /\ money' = [money EXCEPT ![p] = @ - fee] /\ SendMailTo(drafts)
      /\ auction' = [auction EXCEPT ![i] = NoAuction] /\ dbAuction' = [dbAuction EXCEPT ![i] = NoAuction]
      /\ UNCHANGED <<bag, online, state, mailsUpdated, destroyed>> /\ SaveInventoryAndGold(p)
  BY DEF RemoveItem
<1>3. fee \in Nat
  <2>1. Cut(a.bid) \in Nat
    BY <1>1, CutBound
  <2> QED BY <2>1
<1>4. ItemBack(i, a) \in Letters /\ ItemBack(i, a).items = {i}
  BY <1>1, HouseMails
<1>5. a.bidder # NoPlayer => Refund(i, a) \in Letters /\ Refund(i, a).items = {}
  BY <1>1, HouseMails
<1> HIDE DEF fee
<1>6. /\ \A k \in DOMAIN drafts : drafts[k] \in Letters
      /\ Packed({i}, drafts, of)
  <2>1. CASE a.bidder = NoPlayer
    <3>1. drafts = <<ItemBack(i, a)>>
      BY <2>1, Zenon
    <3> HIDE DEF drafts
    <3>2. DOMAIN drafts = {1} /\ drafts[1] = ItemBack(i, a)
      BY <3>1
    <3>3. of[i] = 1
      BY <2>1
    <3> HIDE DEF of
    <3> QED BY <1>4, <3>2, <3>3 DEF Packed
  <2>2. CASE a.bidder # NoPlayer
    <3>1. drafts = <<Refund(i, a), ItemBack(i, a)>>
      BY <2>2, Zenon
    <3> HIDE DEF drafts
    <3>2. DOMAIN drafts = {1, 2} /\ drafts[1] = Refund(i, a) /\ drafts[2] = ItemBack(i, a)
      BY <3>1
    <3>3. of[i] = 2
      BY <2>2
    <3> HIDE DEF of
    <3> QED BY <1>4, <1>5, <2>2, <3>2, <3>3 DEF Packed
  <2> QED BY <2>1, <2>2
<1> HIDE DEF drafts, of
<1>7. MailInv' /\ SyncInv'
  BY <1>2, <1>3, <1>6, PaidAndPosted DEF Inv
<1>8. Ends({i}, drafts, of)
  BY <1>1, <1>2, <1>6 DEF Ends, Inv, AuctionInv, OnSale
<1> QED BY <1>7, <1>8, EndStep

LEMMA UpdateStep ==
  ASSUME Inv, NEW due \in SUBSET OnSale, Update(due)
  PROVE  Inv'
<1> DEFINE of == [i \in due |-> <<"item", i>>]
           drafts == Ended(due)
<1>1. /\ SendMailTo(drafts) /\ UNCHANGED <<online, money, bag, state, mailsUpdated, dbMoney, dbBag, destroyed>>
      /\ auction' = [i \in Items |-> IF i \in due THEN NoAuction ELSE auction[i]]
      /\ dbAuction' = [i \in Items |-> IF i \in due THEN NoAuction ELSE dbAuction[i]]
  BY DEF Update
<1>2. DOMAIN drafts = {"item"} \X due \cup {"profit"} \X Sold(due)
  BY DEF Ended
<1>3. Sold(due) \subseteq due /\ \A i \in due : i \in Items /\ auction[i] \in Auctions
  BY DEF Sold, OnSale, Inv, AuctionInv
<1>4. ASSUME NEW i \in due
      PROVE  /\ <<"item", i>> \in DOMAIN drafts
             /\ drafts[<<"item", i>>] \in Letters /\ drafts[<<"item", i>>].items = {i}
  <2>1. <<"item", i>> \in DOMAIN drafts
    BY <1>2
  <2>2. drafts[<<"item", i>>] = IF i \notin Sold(due) THEN ItemBack(i, auction[i]) ELSE Won(i, auction[i])
    BY <1>2, <2>1 DEF Ended
  <2>3. i \in Sold(due) => auction[i].bidder # NoPlayer
    BY DEF Sold
  <2> HIDE DEF drafts
  <2> QED BY <1>3, <2>1, <2>2, <2>3, HouseMails
<1>5. ASSUME NEW i \in Sold(due)
      PROVE  drafts[<<"profit", i>>] \in Letters /\ drafts[<<"profit", i>>].items = {}
  <2>1. <<"profit", i>> \in DOMAIN drafts
    BY <1>2
  <2>2. drafts[<<"profit", i>>] = Profit(i, auction[i])
    BY <1>2, <2>1 DEF Ended
  <2> HIDE DEF drafts
  <2> QED BY <1>3, <2>2, HouseMails
<1>6. \A k \in DOMAIN drafts :
        (\E i \in due : k = <<"item", i>>) \/ (\E i \in Sold(due) : k = <<"profit", i>>)
  BY <1>2
<1> HIDE DEF drafts
<1>7. \A k \in DOMAIN drafts : drafts[k] \in Letters
  BY <1>4, <1>5, <1>6
<1>8. Packed(due, drafts, of)
  <2>1. \A i \in due : of[i] = <<"item", i>>
    OBVIOUS
  <2> HIDE DEF of
  <2>2. ASSUME NEW j \in Items, NEW k \in DOMAIN drafts
        PROVE  j \in drafts[k].items <=> j \in due /\ k = of[j]
    <3>1. CASE \E i \in due : k = <<"item", i>>
      <4>1. PICK i \in due : k = <<"item", i>>
        BY <3>1
      <4>2. drafts[k].items = {i}
        BY <1>4, <4>1
      <4> QED BY <2>1, <4>1, <4>2
    <3>2. CASE \E i \in Sold(due) : k = <<"profit", i>>
      <4>1. PICK i \in Sold(due) : k = <<"profit", i>>
        BY <3>2
      <4>2. drafts[k].items = {}
        BY <1>5, <4>1
      <4>3. \A a \in due : <<"item", a>> # <<"profit", i>>
        OBVIOUS
      <4> QED BY <2>1, <4>1, <4>2, <4>3
    <3> QED BY <1>6, <3>1, <3>2
  <2>3. \A i \in due : of[i] \in DOMAIN drafts
    BY <1>4, <2>1
  <2> QED BY <2>2, <2>3, Zenon DEF Packed
<1> HIDE DEF of
<1>9. MailInv'
  <2>1. PostTypeOK'
    BY <1>1, <1>7, SendTypes DEF SendMailTo, Inv, MailInv, PostTypeOK
  <2> QED BY <1>1, <2>1 DEF Inv, MailInv, OwnTypeOK, OnlineTypeOK
<1>10. SyncInv'
  <2>1. Synced(inbox', dbMail', online')
    BY <1>1, SendMailToSync DEF Inv
  <2> QED BY <1>1, <2>1 DEF Inv, SyncInv
<1>11. Ends(due, drafts, of)
  <2>1. dbAuction' = auction'
    BY <1>1 DEF Inv, AuctionInv
  <2>2. /\ auction' \in [Items -> Auctions \cup {NoAuction}]
        /\ \A i \in Items : auction'[i] = IF i \in due THEN NoAuction ELSE auction[i]
    BY <1>1 DEF Inv, AuctionInv
  <2> QED BY <1>1, <1>7, <1>8, <2>1, <2>2 DEF Ends
<1> QED BY <1>9, <1>10, <1>11, EndStep

LEMMA CrashStep ==
  ASSUME Inv, Crash
  PROVE  Inv'
<1>1. MailCrash /\ auction' = auction /\ dbAuction' = dbAuction
  BY DEF Crash, Inv, AuctionInv
<1>2. MailInv' /\ SyncInv'
  BY <1>1, CrashType, CrashSync DEF Inv
<1>3. bag' = bag /\ dbMail' = dbMail /\ destroyed' = destroyed
  BY <1>1 DEF MailCrash, database, Inv, SyncInv
<1>4. AuctionInv' /\ OnSale' = OnSale
  BY <1>1 DEF Inv, AuctionInv, OnSale
<1>5. Placed(OnSale)'
  BY <1>3, <1>4 DEF Inv, Placed
<1> QED BY <1>2, <1>4, <1>5 DEF Inv

LEMMA MailStep ==
  ASSUME Inv, MailNext, UNCHANGED auctionVars
  PROVE  Inv'
<1>1. MailInv' /\ SyncInv'
  BY MailTypeStep, MailSyncStep DEF Inv
<1>2. AuctionInv' /\ OnSale' = OnSale
  BY DEF auctionVars, Inv, AuctionInv, OnSale
<1>3. \E loc2 : Located(loc2, bag', dbMail', destroyed', OnSale)
  BY MailPlacesStep DEF Inv
<1>4. Placed(OnSale)'
  BY <1>2, <1>3 DEF Placed
<1> QED BY <1>1, <1>2, <1>4 DEF Inv

-----------------------------------------------------------------------------

LEMMA InitInv == Init => Inv
<1> SUFFICES ASSUME Init PROVE Inv
  OBVIOUS
<1>1. MailInv /\ SyncInv
  BY InitMail DEF Init, MailInit, SyncInv, Synced
<1>2. AuctionInv /\ OnSale = {}
  BY DEF Init, AuctionInv, OnSale
<1>3. Placed(OnSale)
  <2> DEFINE loc == [i \in Items |-> InBag(FirstOwner[i])]
  <2>1. \A i \in Items : loc[i] = InBag(FirstOwner[i]) /\ loc[i] \in Spots(i)
    BY DEF Spots
  <2>2. loc \in [Items -> Loci]
    BY <2>1 DEF Loci
  <2> HIDE DEF loc
  <2>3. ASSUME NEW i \in Items PROVE IsAt(loc, i, bag, dbMail, destroyed, {})
    <3>1. /\ \A p \in Players : i \in bag[p] <=> p = FirstOwner[i]
          /\ \A m \in MailIds : i \notin ItemsIn(dbMail, m)
          /\ i \notin destroyed
      BY DEF Init, MailInit, ItemsIn
    <3> QED BY <2>1, <3>1, Apart DEF IsAt
  <2> QED BY <1>2, <2>2, <2>3 DEF Placed, Located
<1> QED BY <1>1, <1>2, <1>3 DEF Inv

LEMMA StepInv == Inv /\ [Next]_vars => Inv'
<1> SUFFICES ASSUME Inv, [Next]_vars PROVE Inv'
  OBVIOUS
<1>1. CASE MailNext /\ UNCHANGED auctionVars
  BY <1>1, MailStep
<1>2. ASSUME NEW p \in Players, NEW i \in Items,
             NEW startbid \in Prices, NEW buyout \in Prices \cup {0}, SellItem(p, i, startbid, buyout)
      PROVE  Inv'
  BY <1>2, SellItemStep
<1>3. ASSUME NEW p \in Players, NEW i \in Items, NEW price \in Prices,
             PlaceBid(p, i, price) \/ Buyout(p, i, price)
      PROVE  Inv'
  BY <1>3, PlaceBidStep, BuyoutStep
<1>4. ASSUME NEW p \in Players, NEW i \in Items, RemoveItem(p, i) PROVE Inv'
  BY <1>4, RemoveItemStep
<1>5. ASSUME NEW due \in SUBSET {i \in Items : auction[i] # NoAuction} \ {{}}, Update(due) PROVE Inv'
  BY <1>5, UpdateStep DEF OnSale
<1>6. CASE Crash
  BY <1>6, CrashStep
<1>7. CASE UNCHANGED vars
  <2>1. UNCHANGED <<online, money, bag, inbox, state, mailsUpdated, dbMoney, dbBag, dbMail,
                    destroyed, auction, dbAuction>>
    BY <1>7 DEF vars, mailVars, memory, database, auctionVars
  <2>2. MailInv' /\ SyncInv' /\ AuctionInv' /\ OnSale' = OnSale
    BY <2>1 DEF Inv, MailInv, PostTypeOK, OwnTypeOK, OnlineTypeOK, SyncInv, Synced, AuctionInv, OnSale
  <2>3. Placed(OnSale)'
    BY <2>1, <2>2 DEF Inv, Placed
  <2> QED BY <2>2, <2>3 DEF Inv
<1> QED BY <1>1, <1>2, <1>3, <1>4, <1>5, <1>6, <1>7 DEF Next

\* Every behaviour of players, mail and auctions keeps the inductive invariant.
THEOREM Invariant == Spec => []Inv
BY InitInv, StepInv, PTL DEF Spec

\* Players, mails and auctions have their types in memory and in the database.
THEOREM TypeCorrect ==
  Spec => [](MailTypeOK /\ auction \in [Items -> Auctions \cup {NoAuction}] /\ dbAuction = auction)
<1>1. Inv => MailTypeOK /\ auction \in [Items -> Auctions \cup {NoAuction}] /\ dbAuction = auction
  BY MailTypes DEF Inv, AuctionInv
<1> QED BY <1>1, Invariant, PTL

\* What the players have been told is in the database whenever the process dies.
THEOREM AlwaysCrashSafe == Spec => []CrashSafe
<1>1. Inv => CrashSafe
  BY DEF Inv, SyncInv, Synced, AuctionInv, CrashSafe
<1> QED BY <1>1, Invariant, PTL

LEMMA OnePlace ==
  ASSUME NEW loc, NEW bags, NEW rows, NEW gone, NEW auctions,
         Located(loc, bags, rows, gone, {j \in Items : auctions[j] # NoAuction}), NEW i \in Items
  PROVE  Cardinality(Places(i, bags, rows, auctions)) = IF i \in gone THEN 0 ELSE 1
<1>1. IsAt(loc, i, bags, rows, gone, {j \in Items : auctions[j] # NoAuction})
  BY DEF Located
<1>2. /\ \A p \in Players : i \in bags[p] <=> loc[i] = <<"bag", p>>
      /\ \A m \in MailIds : rows[m] # NoMail /\ i \in rows[m].items <=> loc[i] = <<"mail", m>>
      /\ i \in {j \in Items : auctions[j] # NoAuction} <=> loc[i] = <<"auction", i>>
      /\ i \in gone <=> loc[i] = Gone
      /\ loc[i] \in {<<"bag", p>> : p \in Players} \cup {<<"mail", m>> : m \in MailIds}
                     \cup {<<"auction", i>>, Gone}
  BY <1>1 DEF IsAt, InBag, InMail, InAuction, ItemsIn, Spots
<1>3. CASE i \in gone
  <2>1. Places(i, bags, rows, auctions) = {}
    BY <1>2, <1>3, Apart DEF Places, InBag, InMail, InAuction
  <2> QED BY <1>3, <2>1, FS_EmptySet
<1>4. CASE i \notin gone
  <2>1. Places(i, bags, rows, auctions) = {loc[i]}
    <3>1. \A x \in Places(i, bags, rows, auctions) : x = loc[i]
      BY <1>2 DEF Places
    <3>2. loc[i] \in Places(i, bags, rows, auctions)
      BY <1>2, <1>4 DEF Places
    <3> QED BY <3>1, <3>2
  <2> QED BY <1>4, <2>1, FS_Singleton
<1> QED BY <1>3, <1>4

\* Every item is in one bag, one mail or one auction, in memory and in the database,
\* unless it was thrown away with a mail: then it is nowhere.
THEOREM AlwaysItemsOnce == Spec => []ItemsOnce
<1>1. Inv => ItemsOnce
  <2> SUFFICES ASSUME Inv PROVE ItemsOnce
    OBVIOUS
  <2>1. PICK loc : Located(loc, bag, dbMail, destroyed, OnSale)
    BY DEF Inv, Placed
  <2>2. MailNow = dbMail
    BY DEF MailNow, Inv, SyncInv, Synced, MailInv, PostTypeOK, Rows
  <2>3. dbBag = bag /\ dbAuction = auction
    BY DEF Inv, SyncInv, AuctionInv
  <2>4. \A i \in Items :
          Cardinality(Places(i, bag, dbMail, auction)) = IF i \in destroyed THEN 0 ELSE 1
    BY <2>1, OnePlace DEF OnSale
  <2> QED BY <2>2, <2>3, <2>4 DEF ItemsOnce
<1> QED BY <1>1, Invariant, PTL

-----------------------------------------------------------------------------
(* Money.                                                                  *)

\* Who pays or is paid is saved, and nobody else has other money than before.
LEMMA GapSaved ==
  ASSUME MailInv, MailInv', NEW p \in Players, SaveGold(p),
         \A q \in Players \ {p} : money'[q] = money[q]
  PROVE  \A q \in Players : Gap(q)' \in {0, Gap(q)}
<1>1. dbMoney'[p] = money'[p] /\ \A q \in Players \ {p} : dbMoney'[q] = dbMoney[q]
  BY DEF SaveGold, MailInv, OwnTypeOK
<1> SUFFICES ASSUME NEW q \in Players PROVE Gap(q)' \in {0, Gap(q)}
  OBVIOUS
<1>2. CASE q = p
  <2>1. money'[p] \in Int
    BY DEF MailInv, OwnTypeOK
  <2> QED BY <1>1, <1>2, <2>1 DEF Gap
<1>3. CASE q # p
  BY <1>1, <1>3 DEF Gap
<1> QED BY <1>2, <1>3

LEMMA GapMail ==
  ASSUME MailInv, MailInv', MailNext
  PROVE  \A q \in Players : Gap(q)' \in {0, Gap(q)} \/ SpendOrEarn(q)
<1>1. ASSUME UNCHANGED <<money, dbMoney>> PROVE \A q \in Players : Gap(q)' = Gap(q)
  BY <1>1 DEF Gap
<1>2. ASSUME NEW p \in Writers, NEW q \in Players, NEW its \in SUBSET Items,
             NEW gold, NEW cod, SendMail(p, q, its, gold, cod)
      PROVE  \A r \in Players : Gap(r)' \in {0, Gap(r)}
  <2>1. /\ p \in Players /\ SaveGold(p)
        /\ \A r \in Players \ {p} : money'[r] = money[r]
    BY <1>2 DEF SendMail, SaveInventoryAndGold, MailInv, OwnTypeOK
  <2> QED BY <2>1, GapSaved
<1>3. ASSUME NEW p \in Players, NEW m \in MailIds, MarkAsRead(p, m) \/ MailDelete(p, m)
      PROVE  UNCHANGED <<money, dbMoney>>
  BY <1>3 DEF MarkAsRead, MailDelete, database
<1>4. ASSUME NEW p \in Players, NEW m \in MailIds, ReturnToSender(p, m)
      PROVE  UNCHANGED <<money, dbMoney>>
  BY <1>4 DEF ReturnToSender
<1>5. ASSUME NEW p \in Players, NEW m \in MailIds, TakeMoney(p, m)
      PROVE  \A r \in Players : Gap(r)' \in {0, Gap(r)}
  <2>1. SaveGold(p) /\ \A r \in Players \ {p} : money'[r] = money[r]
    BY <1>5 DEF TakeMoney, MailInv, OwnTypeOK
  <2> QED BY <2>1, GapSaved
<1>6. ASSUME NEW p \in Players, NEW m \in MailIds, NEW i \in Items, TakeItem(p, m, i)
      PROVE  \A r \in Players : Gap(r)' \in {0, Gap(r)}
  <2>1. SaveGold(p) /\ \A r \in Players \ {p} : money'[r] = money[r]
    BY <1>6 DEF TakeItem, SaveInventoryAndGold, MailInv, OwnTypeOK
  <2> QED BY <2>1, GapSaved
<1>7. ASSUME NEW p \in Players, Login(p) PROVE UNCHANGED <<money, dbMoney>>
  BY <1>7 DEF Login, database
<1>8. ASSUME NEW p \in Players, Save(p) \/ Logout(p)
      PROVE  \A r \in Players : Gap(r)' \in {0, Gap(r)}
  <2>1. SaveGold(p) /\ money' = money
    BY <1>8 DEF Save, Logout, SaveInventoryAndGold
  <2> QED BY <2>1, GapSaved
<1>9. ASSUME NEW p \in Players, SpendOrEarn(p)
      PROVE  \A q \in Players \ {p} : Gap(q)' = Gap(q)
  <2>1. dbMoney' = dbMoney /\ \A q \in Players \ {p} : money'[q] = money[q]
    BY <1>9 DEF SpendOrEarn, database, MailInv, OwnTypeOK
  <2> QED BY <2>1 DEF Gap
<1>10. ASSUME NEW expired, ReturnOrDeleteOldMails(expired) PROVE UNCHANGED <<money, dbMoney>>
  BY <1>10 DEF ReturnOrDeleteOldMails, memory
<1> QED BY <1>1, <1>2, <1>3, <1>4, <1>5, <1>6, <1>7, <1>8, <1>9, <1>10 DEF MailNext

\* What a step may do to what is not saved.
MoneyStep == \A p \in Players : Gap(p)' \in {0, Gap(p)} \/ SpendOrEarn(p)

\* What a handler takes or gives is saved with it, so that a crash undoes no deal:
\* memory and database differ only by what is spent and earned elsewhere.
THEOREM MoneyIsSaved == Spec => NothingUnsaved
<1>1. Inv /\ Inv' /\ [Next]_vars => [MoneyStep]_vars
  <2> SUFFICES ASSUME Inv, Inv', Next
               PROVE  \A p \in Players : Gap(p)' \in {0, Gap(p)} \/ SpendOrEarn(p)
    BY DEF MoneyStep
  <2>0. MailInv /\ MailInv'
    BY DEF Inv
  <2>1. CASE MailNext
    BY <2>0, <2>1, GapMail
  <2>2. ASSUME NEW p \in Players, SaveInventoryAndGold(p),
               \E n : money' = [money EXCEPT ![p] = n]
        PROVE  \A q \in Players : Gap(q)' \in {0, Gap(q)}
    <3>1. SaveGold(p) /\ \A q \in Players \ {p} : money'[q] = money[q]
      BY <2>0, <2>2 DEF SaveInventoryAndGold, MailInv, OwnTypeOK
    <3> QED BY <2>0, <3>1, GapSaved
  <2>3. ASSUME NEW p \in Players, NEW i \in Items, NEW startbid \in Prices,
               NEW buyout \in Prices \cup {0}, SellItem(p, i, startbid, buyout)
        PROVE  \A q \in Players : Gap(q)' \in {0, Gap(q)}
    BY <2>2, <2>3 DEF SellItem
  <2>4. ASSUME NEW p \in Players, NEW i \in Items, NEW price \in Prices,
               PlaceBid(p, i, price) \/ Buyout(p, i, price)
        PROVE  \A q \in Players : Gap(q)' \in {0, Gap(q)}
    BY <2>2, <2>4 DEF PlaceBid, Buyout
  <2>5. ASSUME NEW p \in Players, NEW i \in Items, RemoveItem(p, i)
        PROVE  \A q \in Players : Gap(q)' \in {0, Gap(q)}
    BY <2>2, <2>5 DEF RemoveItem
  <2>6. ASSUME NEW due, Update(due) PROVE \A q \in Players : Gap(q)' = Gap(q)
    BY <2>6 DEF Update, Gap
  <2>7. CASE Crash
    <3>1. money' = dbMoney /\ dbMoney' = dbMoney
      BY <2>7 DEF Crash, MailCrash, database
    <3>2. \A q \in Players : dbMoney[q] \in Int
      BY <2>0 DEF MailInv, OwnTypeOK
    <3> QED BY <3>1, <3>2 DEF Gap
  <2> QED BY <2>1, <2>3, <2>4, <2>5, <2>6, <2>7 DEF Next
<1>2. NothingUnsaved <=> [][MoneyStep]_vars
  BY DEF NothingUnsaved, MoneyStep
<1> QED BY <1>1, <1>2, Invariant, PTL DEF Spec

-----------------------------------------------------------------------------
(* The mails that have to be paid for.                                     *)

\* A mail is marked as deleted only where nothing has to be paid.
MarksOK(box, st) == \A m \in MailIds : st[m] = "deleted" => box[m] # NoMail /\ box[m].cod = 0
MarksInv == MarksOK(inbox, state)

\* What is sent takes free ids.
LEMMA DeliverLeaves ==
  ASSUME NEW box, NEW drafts, NEW f \in IdsFor(drafts), NEW m \in MailIds, m \notin FreeIds
  PROVE  Delivered(box, drafts, f)[m] = box[m]
<1>1. m \notin Range(f)
  BY DraftIds
<1> QED BY <1>1 DEF Delivered

LEMMA InsertLeaves ==
  ASSUME NEW rows, NEW drafts, NEW f \in IdsFor(drafts), NEW m \in MailIds, m \notin FreeIds
  PROVE  Inserted(rows, drafts, f)[m] = rows[m]
<1>1. m \notin Range(f)
  BY DraftIds
<1> QED BY <1>1 DEF Inserted

LEMMA SendMailToLeaves ==
  ASSUME MailInv, NEW drafts, SendMailTo(drafts)
  PROVE  \A m \in MailIds : /\ inbox[m] # NoMail => inbox'[m] = inbox[m]
                            /\ dbMail[m] # NoMail => dbMail'[m] = dbMail[m]
<1>1. PICK f \in IdsFor(drafts) :
        inbox' = Delivered(inbox, drafts, f) /\ dbMail' = Inserted(dbMail, drafts, f)
  BY DEF SendMailTo
<1>2. \A m \in MailIds : inbox[m] # NoMail \/ dbMail[m] # NoMail => m \notin FreeIds
  BY DEF FreeIds
<1>3. \A m \in MailIds : m \notin FreeIds => inbox'[m] = inbox[m] /\ dbMail'[m] = dbMail[m]
  BY <1>1, DeliverLeaves, InsertLeaves
<1> QED BY <1>2, <1>3

LEMMA MarksKept ==
  ASSUME MarksInv, state' = state, \A m \in MailIds : inbox[m] # NoMail => inbox'[m] = inbox[m]
  PROVE  MarksInv'
BY DEF MarksInv, MarksOK

\* Saving acts on the marks and takes them off.
LEMMA SaveMarks ==
  ASSUME NEW p \in Players, NEW box, NEW st, MarksOK(box, st)
  PROVE  MarksOK(Saved(p, box, st, box), Unmarked(p, st, box))
<1> SUFFICES ASSUME NEW m \in MailIds, Unmarked(p, st, box)[m] = "deleted"
             PROVE  Saved(p, box, st, box)[m] # NoMail /\ Saved(p, box, st, box)[m].cod = 0
  BY DEF MarksOK
<1>1. m \notin MailsOf(p, box) /\ st[m] = "deleted"
  BY DEF Unmarked
<1>2. Saved(p, box, st, box)[m] = box[m]
  BY <1>1 DEF Saved, Marked
<1> QED BY <1>1, <1>2 DEF MarksOK

\* It leaves a mail that has to be paid for as it is.
LEMMA SaveLeaves ==
  ASSUME NEW p \in Players, NEW box \in Rows, NEW st, NEW rows \in Rows, NEW m \in MailIds,
         rows[m] # NoMail, rows[m].cod > 0,
         box[m] # NoMail => box[m] = rows[m] /\ st[m] # "deleted"
  PROVE  Saved(p, box, st, rows)[m] = rows[m]
<1>1. rows[m] \in Letters
  BY DEF Rows
<1>2. rows[m].items # {}
  BY <1>1, LetterFacts DEF CODMail
<1>3. m \notin Marked(p, box, st, "deleted")
  BY DEF Marked, MailsOf
<1>4. m \in Marked(p, box, st, "changed") => box[m] = rows[m]
  BY DEF Marked, MailsOf
<1> QED BY <1>2, <1>3, <1>4 DEF Saved, Kept

-----------------------------------------------------------------------------

LEMMA SendMailMarks ==
  ASSUME MailInv, MarksInv, NEW drafts, SendMailTo(drafts), state' = state
  PROVE  MarksInv'
BY SendMailToLeaves, MarksKept

LEMMA MarkMarks ==
  ASSUME MailInv, MarksInv, NEW p \in Players, NEW m \in MailIds,
         MarkAsRead(p, m) \/ MailDelete(p, m)
  PROVE  MarksInv'
<1>1. /\ inbox' = inbox /\ inbox[m] # NoMail
      /\ \A n \in MailIds \ {m} : state'[n] = state[n]
      /\ state'[m] = "deleted" => state[m] = "deleted" \/ ~(inbox[m].cod > 0)
  BY DEF MarkAsRead, MailDelete, InBox, MailInv, PostTypeOK, States
<1>2. inbox[m].cod \in Nat
  BY <1>1, LetterFacts DEF MailInv, PostTypeOK, Rows
<1> QED BY <1>1, <1>2 DEF MarksInv, MarksOK

LEMMA ReturnMarks ==
  ASSUME MailInv, MarksInv, NEW p \in Players, NEW m \in MailIds, ReturnToSender(p, m)
  PROVE  MarksInv'
<1> DEFINE back == IF inbox[m].kind = "normal" THEN <<Returned(inbox[m])>> ELSE << >>
           box == [inbox EXCEPT ![m] = NoMail]
<1>1. PICK f \in IdsFor(back) : inbox' = Delivered(box, back, f)
  BY DEF ReturnToSender
<1>2. box \in Rows /\ \A n \in MailIds \ {m} : box[n] = inbox[n]
  BY DEF MailInv, PostTypeOK, Rows
<1>3. state' = [state EXCEPT ![m] = "unchanged"]
  BY DEF ReturnToSender
<1> HIDE DEF back, box
<1>4. ASSUME NEW n \in MailIds \ {m}, inbox[n] # NoMail PROVE inbox'[n] = inbox[n]
  <2>1. n \in MailIds /\ n \notin FreeIds
    BY <1>4 DEF FreeIds
  <2>2. Delivered(box, back, f)[n] = box[n]
    BY <2>1, DeliverLeaves
  <2> QED BY <1>1, <1>2, <2>2
<1> QED BY <1>3, <1>4 DEF MarksInv, MarksOK, MailInv, PostTypeOK, States

LEMMA TakeItemMarks ==
  ASSUME MailInv, MarksInv, NEW p \in Players, NEW m \in MailIds, NEW i \in Items,
         TakeItem(p, m, i)
  PROVE  MarksInv'
<1> DEFINE price == inbox[m].cod
           payment == [kind |-> "normal", sender |-> p, receiver |-> inbox[m].sender,
                       items |-> {}, money |-> price, cod |-> 0,
                       checked |-> "cod payment", delay |-> FALSE, subject |-> NoItem]
           drafts == IF price > 0 THEN <<payment>> ELSE << >>
           taken == [inbox EXCEPT ![m].items = @ \ {i}, ![m].cod = 0]
           st == [state EXCEPT ![m] = "changed"]
<1>1. PICK f \in IdsFor(drafts) :
        SaveMail(p, Delivered(taken, drafts, f), st, Inserted(dbMail, drafts, f))
  BY DEF TakeItem
<1>2. /\ taken \in Rows
      /\ \A n \in MailIds \ {m} : taken[n] = inbox[n] /\ st[n] = state[n]
      /\ st[m] = "changed"
  BY TakenType DEF TakeItem, InBox, MailInv, PostTypeOK, Rows, States
<1> HIDE DEF drafts, taken, st
<1>3. ASSUME NEW n \in MailIds \ {m}, inbox[n] # NoMail
      PROVE  Delivered(taken, drafts, f)[n] = inbox[n]
  <2>1. n \in MailIds /\ n \notin FreeIds
    BY <1>3 DEF FreeIds
  <2>2. Delivered(taken, drafts, f)[n] = taken[n]
    BY <2>1, DeliverLeaves
  <2> QED BY <1>2, <2>2
<1>4. MarksOK(Delivered(taken, drafts, f), st)
  BY <1>2, <1>3 DEF MarksInv, MarksOK
<1> QED BY <1>1, <1>4, SaveMarks DEF SaveMail, MarksInv

LEMMA TakeMoneyMarks ==
  ASSUME MailInv, MarksInv, NEW p \in Players, NEW m \in MailIds, TakeMoney(p, m)
  PROVE  MarksInv'
<1> DEFINE box == [inbox EXCEPT ![m].money = 0]
           st == [state EXCEPT ![m] = "changed"]
<1>1. SaveMail(p, box, st, dbMail)
  BY DEF TakeMoney
<1>2. \A n \in MailIds \ {m} : box[n] = inbox[n] /\ st[n] = state[n]
  BY DEF MailInv, PostTypeOK, Rows, States
<1>3. st[m] = "changed"
  BY DEF MailInv, PostTypeOK, States
<1> HIDE DEF box, st
<1>4. MarksOK(box, st)
  BY <1>2, <1>3 DEF MarksInv, MarksOK
<1> QED BY <1>1, <1>4, SaveMarks DEF SaveMail, MarksInv

LEMMA SaveOrLogoutMarks ==
  ASSUME MailInv, MarksInv, NEW p \in Players, Save(p) \/ Logout(p)
  PROVE  MarksInv'
<1>1. CASE Save(p) /\ p \in mailsUpdated
  BY <1>1, SaveMarks DEF Save, SaveMail, MarksInv
<1>2. CASE Save(p) /\ p \notin mailsUpdated
  BY <1>2 DEF Save, MarksInv
<1>3. CASE Logout(p)
  <2>1. /\ inbox' = [m \in MailIds |-> IF m \in MailsOf(p, inbox) THEN NoMail ELSE inbox[m]]
        /\ state' = [m \in MailIds |-> IF m \in MailsOf(p, inbox) THEN "unchanged" ELSE state[m]]
    BY <1>3 DEF Logout, Unmarked
  <2> QED BY <2>1 DEF MarksInv, MarksOK
<1> QED BY <1>1, <1>2, <1>3

LEMMA LoginMarks ==
  ASSUME MailInv, SyncInv, MarksInv, NEW p \in Players, Login(p)
  PROVE  MarksInv'
<1>1. PICK late : inbox' = [m \in MailIds |-> IF m \in MailsOf(p, dbMail) \ late
                                                THEN dbMail[m] ELSE inbox[m]]
  BY DEF Login
<1>2. \A m \in MailIds : inbox[m] # NoMail => inbox'[m] = inbox[m]
  BY <1>1 DEF SyncInv, Synced
<1> QED BY <1>2, MarksKept DEF Login

\* Nobody deletes a mail that he has to pay for.
LEMMA MarksStep == Inv /\ MarksInv /\ [Next]_vars => MarksInv'
<1> SUFFICES ASSUME Inv, MarksInv, [Next]_vars PROVE MarksInv'
  OBVIOUS
<1>0. MailInv /\ SyncInv
  BY DEF Inv
<1>1. UNCHANGED <<inbox, state>> => MarksInv'
  BY DEF MarksInv
<1>2. ASSUME NEW p \in Writers, NEW q \in Players, NEW its, NEW gold, NEW cod,
             SendMail(p, q, its, gold, cod)
      PROVE  MarksInv'
  BY <1>0, <1>2, SendMailMarks DEF SendMail
<1>3. ASSUME NEW p \in Players, NEW m \in MailIds,
             MarkAsRead(p, m) \/ MailDelete(p, m) \/ ReturnToSender(p, m) \/ TakeMoney(p, m)
      PROVE  MarksInv'
  BY <1>0, <1>3, MarkMarks, ReturnMarks, TakeMoneyMarks
<1>4. ASSUME NEW p \in Players, NEW m \in MailIds, NEW i \in Items, TakeItem(p, m, i)
      PROVE  MarksInv'
  BY <1>0, <1>4, TakeItemMarks
<1>5. ASSUME NEW p \in Players, Login(p) \/ Save(p) \/ Logout(p) \/ SpendOrEarn(p)
      PROVE  MarksInv'
  BY <1>0, <1>1, <1>5, LoginMarks, SaveOrLogoutMarks DEF SpendOrEarn
<1>6. ASSUME NEW expired, ReturnOrDeleteOldMails(expired) PROVE MarksInv'
  BY <1>1, <1>6 DEF ReturnOrDeleteOldMails, memory
<1>7. CASE MailNext
  BY <1>2, <1>3, <1>4, <1>5, <1>6, <1>7 DEF MailNext
<1>8. ASSUME NEW p \in Players, NEW i \in Items, NEW startbid, NEW buyout,
             SellItem(p, i, startbid, buyout)
      PROVE  MarksInv'
  BY <1>1, <1>8 DEF SellItem
<1>9. ASSUME NEW p \in Players, NEW i \in Items, NEW price, PlaceBid(p, i, price)
      PROVE  MarksInv'
  BY <1>0, <1>9, SendMailMarks DEF PlaceBid
<1>10. ASSUME NEW p \in Players, NEW i \in Items, NEW price, Buyout(p, i, price)
       PROVE  MarksInv'
  BY <1>0, <1>10, SendMailMarks DEF Buyout
<1>11. ASSUME NEW p \in Players, NEW i \in Items, RemoveItem(p, i) PROVE MarksInv'
  BY <1>0, <1>11, SendMailMarks DEF RemoveItem
<1>12. ASSUME NEW due, Update(due) PROVE MarksInv'
  BY <1>0, <1>12, SendMailMarks DEF Update
<1>13. CASE Crash
  BY <1>13 DEF Crash, MailCrash, MarksInv, MarksOK
<1>14. CASE UNCHANGED vars
  BY <1>1, <1>14 DEF vars, mailVars, memory
<1> QED BY <1>7, <1>8, <1>9, <1>10, <1>11, <1>12, <1>13, <1>14 DEF Next

\* The mail m of the table has to be paid for.
Due(m) == dbMail[m] # NoMail /\ dbMail[m].cod > 0

LEMMA DueFacts ==
  ASSUME MailInv, SyncInv, MarksInv, NEW m \in MailIds, Due(m)
  PROVE  /\ dbMail[m] \in Letters /\ CODMail(dbMail[m]) /\ dbMail[m].sender \in Players
         /\ inbox[m] # NoMail => inbox[m] = dbMail[m] /\ state[m] # "deleted"
<1>1. dbMail[m] \in Letters /\ dbMail[m].cod > 0
  BY DEF Due, MailInv, PostTypeOK, Rows
<1>2. inbox[m] # NoMail => inbox[m] = dbMail[m]
  BY DEF SyncInv, Synced
<1>3. dbMail[m].cod # 0
  BY <1>1, LetterFacts
<1>4. state[m] # "deleted"
  BY <1>2, <1>3 DEF MarksInv, MarksOK
<1> QED BY <1>1, <1>2, <1>4, LetterFacts

LEMMA SavedDue ==
  ASSUME MailInv, SyncInv, MarksInv, NEW p \in Players, NEW m \in MailIds, Due(m)
  PROVE  Saved(p, inbox, state, dbMail)[m] = dbMail[m]
<1>1. inbox \in Rows /\ dbMail \in Rows
  BY DEF MailInv, PostTypeOK
<1>2. dbMail[m] # NoMail /\ dbMail[m].cod > 0
  BY DEF Due
<1>3. inbox[m] # NoMail => inbox[m] = dbMail[m] /\ state[m] # "deleted"
  BY DueFacts
<1> DEFINE box == inbox
           st == state
           rows == dbMail
<1>4. /\ box \in Rows /\ rows \in Rows /\ rows[m] # NoMail /\ rows[m].cod > 0
      /\ box[m] # NoMail => box[m] = rows[m] /\ st[m] # "deleted"
  BY <1>1, <1>2, <1>3
<1> HIDE DEF box, st, rows
<1>5. Saved(p, box, st, rows)[m] = rows[m]
  BY <1>4, SaveLeaves
<1> QED BY <1>5 DEF box, st, rows

LEMMA ReturnDue ==
  ASSUME MailInv, SyncInv, MarksInv, NEW p \in Players, NEW m \in MailIds, ReturnToSender(p, m),
         NEW n \in MailIds, Due(n), dbMail'[n] # dbMail[n]
  PROVE  SentBack(n)
<1> DEFINE back == IF inbox[m].kind = "normal" THEN <<Returned(inbox[m])>> ELSE << >>
           box == [inbox EXCEPT ![m] = NoMail]
           rows == [dbMail EXCEPT ![m] = NoMail]
<1>1. PICK f \in IdsFor(back) : dbMail' = Inserted(rows, back, f)
  BY DEF ReturnToSender
<1>2. /\ rows \in Rows /\ inbox \in Rows /\ rows[m] = NoMail
      /\ \A k \in MailIds \ {m} : rows[k] = dbMail[k]
  BY DEF MailInv, PostTypeOK, Rows
<1>3. inbox[m] # NoMail /\ money' = money
  BY DEF ReturnToSender, InBox
<1> HIDE DEF back, rows
<1>4. n = m
  <2>1. n \in MailIds /\ n \notin FreeIds
    BY DEF Due, FreeIds
  <2>2. Inserted(rows, back, f)[n] = rows[n]
    BY <2>1, InsertLeaves
  <2> QED BY <1>1, <1>2, <2>2
<1> DEFINE mail == dbMail[m]
<1>5. mail \in Letters /\ CODMail(mail) /\ inbox[m] = mail
  BY <1>3, <1>4, DueFacts
<1>6. mail.kind = "normal"
  BY <1>5 DEF CODMail
<1>7. back = <<Returned(mail)>>
  BY <1>5, <1>6 DEF back
<1>8. Returned(mail) \in Letters
  BY <1>5, <1>6, ReturnedType
<1>9. /\ Returned(mail).receiver = mail.sender /\ Returned(mail).items = mail.items
      /\ Returned(mail).money = mail.money /\ Returned(mail).cod = 0
  BY <1>5 DEF Returned, Letters, Mails
<1> HIDE DEF mail
<1>10. PICK k \in FreeIds :
         /\ dbMail'[k] = Returned(mail)
         /\ \A j \in MailIds \ {k} : dbMail'[j] = rows[j]
  BY <1>1, <1>2, <1>7, <1>8, OneDraft
<1>11. k \in MailIds /\ dbMail[k] = NoMail /\ k # m
  BY <1>3, <1>10 DEF FreeIds
<1>12. dbMail'[m] = NoMail
  BY <1>2, <1>10, <1>11
<1>13. dbMail'[k] # NoMail
  BY <1>8, <1>10 DEF Letters
<1>14. MailedAnew(mail.sender, mail.items, mail.money)
  BY <1>9, <1>10, <1>11, <1>13 DEF MailedAnew
<1> QED BY <1>3, <1>4, <1>12, <1>14 DEF SentBack, mail

LEMMA TakeItemDue ==
  ASSUME MailInv, SyncInv, MarksInv, NEW p \in Players, NEW m \in MailIds, NEW i \in Items,
         TakeItem(p, m, i), NEW n \in MailIds, Due(n), dbMail'[n] # dbMail[n]
  PROVE  PaidFor(n)
<1> DEFINE price == inbox[m].cod
           payment == [kind |-> "normal", sender |-> p, receiver |-> inbox[m].sender,
                       items |-> {}, money |-> price, cod |-> 0,
                       checked |-> "cod payment", delay |-> FALSE, subject |-> NoItem]
           drafts == IF price > 0 THEN <<payment>> ELSE << >>
           taken == [inbox EXCEPT ![m].items = @ \ {i}, ![m].cod = 0]
           st == [state EXCEPT ![m] = "changed"]
<1>1. /\ inbox[m] \in Letters /\ price \in Nat /\ inbox[m] # NoMail /\ inbox[m].receiver = p
      /\ money' = [money EXCEPT ![p] = @ - price]
  BY LetterFacts DEF TakeItem, InBox, MailInv, PostTypeOK, Rows
<1>2. PICK f \in IdsFor(drafts) :
        SaveMail(p, Delivered(taken, drafts, f), st, Inserted(dbMail, drafts, f))
  BY DEF TakeItem
<1>3. /\ st[m] = "changed" /\ \A k \in MailIds \ {m} : st[k] = state[k]
  BY DEF MailInv, PostTypeOK, States
<1>4. /\ taken \in Rows /\ taken[m] # NoMail /\ taken[m].receiver = p /\ taken[m].cod = 0
      /\ \A k \in MailIds \ {m} : taken[k] = inbox[k]
  <2>1. taken[m] = [inbox[m] EXCEPT !.items = @ \ {i}, !.cod = 0]
    BY DEF MailInv, PostTypeOK, Rows
  <2>2. taken \in Rows
    BY <1>1, TakenType DEF MailInv, PostTypeOK, Rows
  <2>3. [inbox[m] EXCEPT !.items = @ \ {i}, !.cod = 0] \in Letters
    BY <1>1, TakenType
  <2>4. taken[m].receiver = p /\ taken[m].cod = 0
    BY <1>1, <2>1 DEF Letters, Mails
  <2>5. NoMail \notin Letters
    BY DEF Letters
  <2> QED BY <2>1, <2>2, <2>3, <2>4, <2>5 DEF MailInv, PostTypeOK, Rows
<1>5. /\ payment.money = price /\ payment.receiver = inbox[m].sender
      /\ payment.items = {} /\ payment.cod = 0
  OBVIOUS
<1>6. price > 0 => payment \in Letters /\ drafts = <<payment>>
  <2>1. price > 0 => inbox[m].sender \in Players
    BY <1>1, LetterFacts
  <2> QED BY <1>1, <2>1 DEF Letters, Mails
<1> HIDE DEF drafts, taken, st, payment
<1> DEFINE box == Delivered(taken, drafts, f)
           rows == Inserted(dbMail, drafts, f)
<1>7. dbMail' = Saved(p, box, st, rows)
  BY <1>2 DEF SaveMail
<1>8. ASSUME NEW k \in MailIds, k \notin FreeIds
      PROVE  box[k] = taken[k] /\ rows[k] = dbMail[k]
  BY <1>8, DeliverLeaves, InsertLeaves
<1>9. box \in Rows /\ rows \in Rows
  <2>1. \A k \in DOMAIN drafts : drafts[k] \in Letters
    BY <1>6, <1>1 DEF drafts
  <2> QED BY <1>4, <2>1, SendTypes DEF MailInv, PostTypeOK
<1>10. n = m
  <2> SUFFICES ASSUME n # m PROVE FALSE
    OBVIOUS
  <2>1. box[n] = inbox[n] /\ rows[n] = dbMail[n] /\ st[n] = state[n]
    <3>1. n \notin FreeIds
      BY DEF Due, FreeIds
    <3> QED BY <1>3, <1>4, <1>8, <3>1
  <2>2. inbox[n] # NoMail => inbox[n] = dbMail[n] /\ state[n] # "deleted"
    BY DueFacts
  <2>3. rows[n] # NoMail /\ rows[n].cod > 0
    BY <2>1 DEF Due
  <2> HIDE DEF box, rows
  <2>4. Saved(p, box, st, rows)[n] = rows[n]
    BY <1>9, <2>1, <2>2, <2>3, SaveLeaves
  <2> QED BY <1>7, <2>1, <2>4
<1>11. price > 0 /\ inbox[m] = dbMail[m]
  BY <1>1, <1>10, DueFacts DEF Due
<1>12. box[m] = taken[m]
  BY <1>1, <1>8 DEF FreeIds
<1>13. dbMail'[m] # NoMail => dbMail'[m].cod = 0
  <2>1. m \in Marked(p, box, st, "changed") /\ m \notin Marked(p, box, st, "deleted")
    BY <1>3, <1>4, <1>12 DEF Marked, MailsOf
  <2>2. dbMail'[m] = Kept(taken[m])
    BY <1>7, <1>12, <2>1 DEF Saved
  <2> QED BY <1>4, <2>2 DEF Kept
<1>14. /\ f[1] \in FreeIds /\ f[1] \in Range(f) /\ DraftAt(drafts, f, f[1]) = payment
  <2>1. DOMAIN drafts = {1} /\ drafts[1] = payment
    BY <1>6, <1>11
  <2> QED BY <2>1, DraftIds
<1> DEFINE k == f[1]
<1>15. k \in MailIds /\ dbMail[k] = NoMail /\ inbox[k] = NoMail /\ k # m
  BY <1>1, <1>14 DEF FreeIds
<1>16. rows[k] = payment /\ (box[k] # NoMail => box[k] = payment)
  BY <1>4, <1>14, <1>15 DEF Inserted, Delivered
<1>17. dbMail'[k] = payment
  <2>1. st[k] # "deleted"
    BY <1>3, <1>15 DEF MarksInv, MarksOK
  <2>2. k \notin Marked(p, box, st, "deleted")
    BY <2>1 DEF Marked
  <2>3. k \in Marked(p, box, st, "changed") => box[k] = payment
    BY <1>16 DEF Marked, MailsOf
  <2>4. Kept(payment) = payment
    BY <1>5, <1>11 DEF Kept
  <2> QED BY <1>7, <1>15, <1>16, <2>2, <2>3, <2>4 DEF Saved
<1>18. payment # NoMail
  BY <1>6, <1>11 DEF Letters
<1>19. MailedAnew(dbMail[m].sender, {}, dbMail[m].cod)
  BY <1>5, <1>11, <1>15, <1>17, <1>18 DEF MailedAnew
<1>20. money'[p] = money[p] - price
  BY <1>1 DEF MailInv, OwnTypeOK
<1> QED BY <1>1, <1>10, <1>11, <1>13, <1>19, <1>20 DEF PaidFor

LEMMA TakeMoneyDue ==
  ASSUME MailInv, SyncInv, MarksInv, NEW p \in Players, NEW m \in MailIds, TakeMoney(p, m),
         NEW n \in MailIds, Due(n)
  PROVE  dbMail'[n] = dbMail[n]
<1> DEFINE box == [inbox EXCEPT ![m].money = 0]
           st == [state EXCEPT ![m] = "changed"]
<1>1. SaveMail(p, box, st, dbMail) /\ inbox[m] # NoMail
  BY DEF TakeMoney, InBox
<1>2. inbox[m] \in Letters /\ dbMail \in Rows
  BY <1>1 DEF MailInv, PostTypeOK, Rows
<1>3. box \in Rows
  BY <1>2, TakenType DEF MailInv, PostTypeOK, Rows
<1>4. /\ st[m] = "changed" /\ \A k \in MailIds \ {m} : st[k] = state[k] /\ box[k] = inbox[k]
      /\ box[m] = [inbox[m] EXCEPT !.money = 0]
  BY DEF MailInv, PostTypeOK, Rows, States
<1> HIDE DEF box, st
<1>5. box[n] # NoMail => box[n] = dbMail[n] /\ st[n] # "deleted"
  <2>1. CASE n # m
    BY <1>4, <2>1, DueFacts
  <2>2. CASE n = m
    <3>1. inbox[m] = dbMail[m] /\ inbox[m].money = 0
      BY <1>1, <2>2, DueFacts DEF CODMail
    <3>2. [inbox[m] EXCEPT !.money = 0] = inbox[m]
      BY <1>2, <3>1 DEF Letters, Mails
    <3> QED BY <1>4, <2>2, <3>1, <3>2
  <2> QED BY <2>1, <2>2
<1>6. Saved(p, box, st, dbMail)[n] = dbMail[n]
  BY <1>2, <1>3, <1>5, SaveLeaves DEF Due
<1> QED BY <1>1, <1>6 DEF SaveMail

LEMMA ReturnOrDeleteDue ==
  ASSUME MailInv, SyncInv, MarksInv, NEW expired, ReturnOrDeleteOldMails(expired),
         NEW n \in MailIds, Due(n), dbMail'[n] # dbMail[n]
  PROVE  SentBack(n)
<1>1. dbMail[n] \in Letters /\ CODMail(dbMail[n])
  BY DueFacts
<1>2. Returnable(dbMail[n])
  BY <1>1 DEF CODMail, Returnable
<1>3. dbMail'[n] = Returned(dbMail[n]) /\ money' = money
  BY <1>2 DEF ReturnOrDeleteOldMails, memory
<1>4. dbMail[n].kind = "normal"
  BY <1>1 DEF CODMail
<1>5. Returned(dbMail[n]) \in Letters
  BY <1>1, <1>4, ReturnedType
<1>6. /\ Returned(dbMail[n]).receiver = dbMail[n].sender
      /\ Returned(dbMail[n]).items = dbMail[n].items /\ Returned(dbMail[n]).cod = 0
  BY <1>1 DEF Returned, Letters, Mails
<1>7. dbMail'[n] # NoMail
  BY <1>3, <1>5 DEF Letters
<1> QED BY <1>3, <1>6, <1>7 DEF SentBack

-----------------------------------------------------------------------------

\* What a step may do to a mail that has to be paid for.
CODStep ==
  \A m \in MailIds :
    dbMail[m] # NoMail /\ dbMail[m].cod > 0 /\ dbMail'[m] # dbMail[m] =>
      PaidFor(m) \/ SentBack(m)

LEMMA MailCOD ==
  ASSUME MailInv, SyncInv, MarksInv, MailNext, NEW n \in MailIds, Due(n), dbMail'[n] # dbMail[n]
  PROVE  PaidFor(n) \/ SentBack(n)
<1>1. ASSUME NEW p \in Writers, NEW q \in Players, NEW its, NEW gold, NEW cod,
             SendMail(p, q, its, gold, cod)
      PROVE  FALSE
  BY <1>1, SendMailToLeaves DEF SendMail, Due
<1>2. ASSUME NEW p \in Players, NEW m \in MailIds, MarkAsRead(p, m) \/ MailDelete(p, m)
      PROVE  FALSE
  BY <1>2 DEF MarkAsRead, MailDelete, database
<1>3. ASSUME NEW p \in Players, Login(p) \/ SpendOrEarn(p) PROVE FALSE
  BY <1>3 DEF Login, SpendOrEarn, database
<1>4. ASSUME NEW p \in Players, Save(p) \/ Logout(p) PROVE FALSE
  BY <1>4, SavedDue DEF Save, Logout, SaveMail
<1>5. ASSUME NEW p \in Players, NEW m \in MailIds, ReturnToSender(p, m) \/ TakeMoney(p, m)
      PROVE  SentBack(n)
  BY <1>5, ReturnDue, TakeMoneyDue
<1>6. ASSUME NEW p \in Players, NEW m \in MailIds, NEW i \in Items, TakeItem(p, m, i)
      PROVE  PaidFor(n)
  BY <1>6, TakeItemDue
<1>7. ASSUME NEW expired, ReturnOrDeleteOldMails(expired) PROVE SentBack(n)
  BY <1>7, ReturnOrDeleteDue
<1> QED BY <1>1, <1>2, <1>3, <1>4, <1>5, <1>6, <1>7 DEF MailNext

LEMMA NextCOD == Inv /\ MarksInv /\ [Next]_vars => [CODStep]_vars
<1> SUFFICES ASSUME Inv, MarksInv, Next, NEW n \in MailIds, Due(n), dbMail'[n] # dbMail[n]
             PROVE  PaidFor(n) \/ SentBack(n)
  BY DEF CODStep, Due
<1>0. MailInv /\ SyncInv
  BY DEF Inv
<1>1. CASE MailNext
  BY <1>0, <1>1, MailCOD
<1>2. ASSUME NEW drafts, SendMailTo(drafts) PROVE FALSE
  BY <1>0, <1>2, SendMailToLeaves DEF Due
<1>3. ASSUME NEW p \in Players, NEW i \in Items, NEW startbid, NEW buyout,
             SellItem(p, i, startbid, buyout)
      PROVE  FALSE
  BY <1>3 DEF SellItem
<1>4. ASSUME NEW p \in Players, NEW i \in Items, NEW price,
             PlaceBid(p, i, price) \/ Buyout(p, i, price) \/ RemoveItem(p, i)
      PROVE  FALSE
  BY <1>2, <1>4 DEF PlaceBid, Buyout, RemoveItem
<1>5. ASSUME NEW due, Update(due) PROVE FALSE
  BY <1>2, <1>5 DEF Update
<1>6. CASE Crash
  BY <1>6 DEF Crash, MailCrash, database
<1> QED BY <1>1, <1>3, <1>4, <1>5, <1>6 DEF Next

\* Whoever takes an item out of a mail that has to be paid for pays, once, and the
\* sender is sent the money; else the mail goes back to him whole and for nothing.
THEOREM PaidOrSentBack == Spec => CODHonoured
<1>1. Init => MarksInv
  BY DEF Init, MailInit, MarksInv, MarksOK
<1>2. CODHonoured <=> [][CODStep]_vars
  BY DEF CODHonoured, CODStep
<1> QED BY <1>1, <1>2, MarksStep, NextCOD, Invariant, PTL DEF Spec

-----------------------------------------------------------------------------
(* Gold.                                                                   *)

LEMMA CarriedType ==
  ASSUME NEW rows \in Rows
  PROVE  /\ \A m \in MailIds : Carried(rows)[m] \in Nat
         /\ Total(Carried(rows), MailIds) \in Int
<1>1. \A m \in MailIds : rows[m] # NoMail => rows[m].money \in Nat
  BY LetterFacts DEF Rows
<1>2. \A m \in MailIds : Carried(rows)[m] \in Nat
  BY <1>1 DEF Carried
<1>3. \A m \in MailIds : Carried(rows)[m] \in Int
  BY <1>2
<1> QED BY <1>2, <1>3, Finite, TotalType

LEMMA MoneyType ==
  ASSUME MailInv
  PROVE  (\A p \in Players : money[p] \in Int) /\ Total(money, Players) \in Int
<1>1. \A p \in Players : money[p] \in Int
  BY DEF MailInv, OwnTypeOK
<1> QED BY <1>1, Finite, TotalType

\* What one player pays or is paid.
LEMMA GoldMoved ==
  ASSUME MailInv, MailInv', NEW p \in Players, \A q \in Players \ {p} : money'[q] = money[q]
  PROVE  Total(money', Players) = Total(money, Players) - money[p] + money'[p]
<1>1. \A q \in Players : money[q] \in Int /\ money'[q] \in Int
  BY DEF MailInv, OwnTypeOK
<1> QED BY <1>1, Finite, TotalChange

\* The mails that are sent carry what the drafts say.
Term(drafts) == [k \in DOMAIN drafts |-> drafts[k].money]

LEMMA GoldPosted ==
  ASSUME NEW rows \in Rows, NEW drafts, \A k \in DOMAIN drafts : drafts[k] \in Letters,
         NEW f \in IdsFor(drafts), \A m \in FreeIds : rows[m] = NoMail
  PROVE  /\ IsFiniteSet(DOMAIN drafts)
         /\ Total(Carried(Inserted(rows, drafts, f)), MailIds)
              = Total(Carried(rows), MailIds) + Total(Term(drafts), DOMAIN drafts)
<1> DEFINE D == DOMAIN drafts
           old == Carried(rows)
           new == Carried(Inserted(rows, drafts, f))
           term == Term(drafts)
<1>1. f \in Injection(D, MailIds)
  BY DEF IdsFor, Injection, IsInjective, FreeIds
<1>2. \A m \in MailIds : old[m] \in Int
  BY CarriedType
<1>3. ASSUME NEW k \in D PROVE term[k] \in Int /\ old[f[k]] = 0 /\ new[f[k]] = term[k]
  <2>1. f[k] \in FreeIds /\ f[k] \in Range(f) /\ DraftAt(drafts, f, f[k]) = drafts[k]
    BY DraftIds
  <2>2. drafts[k] \in Letters /\ drafts[k] # NoMail /\ drafts[k].money \in Nat
    BY LetterFacts, NoMailAssumption DEF Letters
  <2>3. f[k] \in MailIds
    BY <2>1 DEF FreeIds
  <2>4. Inserted(rows, drafts, f)[f[k]] = drafts[k]
    BY <2>1, <2>3 DEF Inserted
  <2> QED BY <2>1, <2>2, <2>3, <2>4 DEF Carried, Term
<1>4. ASSUME NEW m \in MailIds, \A k \in D : f[k] # m PROVE new[m] = old[m]
  <2>1. m \notin Range(f)
    BY <1>4, DraftIds
  <2> QED BY <2>1 DEF Carried, Inserted
<1> HIDE DEF D, old, new, term
<1>5. Inserts(MailIds, D, f, old, new, term)
  BY <1>1, <1>2, <1>3, <1>4 DEF Inserts
<1>6. IsFiniteSet(D) /\ Total(new, MailIds) = Total(old, MailIds) + Total(term, D)
  BY <1>5, Finite, TotalInsert
<1> QED BY <1>6 DEF D, old, new, term

LEMMA TermSums ==
  /\ Total(Term(<< >>), DOMAIN << >>) = 0
  /\ \A a \in Letters : Total(Term(<<a>>), DOMAIN <<a>>) = a.money
  /\ \A a, b \in Letters : Total(Term(<<a, b>>), DOMAIN <<a, b>>) = a.money + b.money
  /\ \A a, b, c \in Letters :
       Total(Term(<<a, b, c>>), DOMAIN <<a, b, c>>) = a.money + b.money + c.money
<1>1. DOMAIN << >> = {}
  OBVIOUS
<1>2. \A a \in Letters : a.money \in Nat
  BY LetterFacts
<1>3. ASSUME NEW a \in Letters PROVE Total(Term(<<a>>), DOMAIN <<a>>) = a.money
  <2>1. DOMAIN <<a>> = {1} /\ Term(<<a>>)[1] = a.money
    BY DEF Term
  <2> QED BY <1>2, <2>1, TotalFew
<1>4. ASSUME NEW a \in Letters, NEW b \in Letters
      PROVE  Total(Term(<<a, b>>), DOMAIN <<a, b>>) = a.money + b.money
  <2>1. DOMAIN <<a, b>> = {1, 2} /\ Term(<<a, b>>)[1] = a.money /\ Term(<<a, b>>)[2] = b.money
    BY DEF Term
  <2> QED BY <1>2, <2>1, TotalFew
<1>5. ASSUME NEW a \in Letters, NEW b \in Letters, NEW c \in Letters
      PROVE  Total(Term(<<a, b, c>>), DOMAIN <<a, b, c>>) = a.money + b.money + c.money
  <2> DEFINE t == Term(<<a, b, c>>)
  <2>1. DOMAIN <<a, b, c>> = {1, 2, 3} /\ t[1] = a.money /\ t[2] = b.money /\ t[3] = c.money
    BY DEF Term
  <2> HIDE DEF t
  <2>2. Total(t, {1, 2, 3}) = t[1] + t[2] + t[3]
    BY <1>2, <2>1, TotalFew
  <2> QED BY <2>1, <2>2 DEF t
<1> QED BY <1>1, <1>3, <1>4, <1>5, TotalNone

\* Fewer mails, or mails that carry less.
LEMMA GoldDropped ==
  ASSUME NEW rows \in Rows, NEW rows2 \in Rows,
         \A m \in MailIds : Carried(rows2)[m] <= Carried(rows)[m]
  PROVE  Total(Carried(rows2), MailIds) <= Total(Carried(rows), MailIds)
<1>1. \A m \in MailIds : Carried(rows)[m] \in Int /\ Carried(rows2)[m] \in Int
  BY CarriedType
<1> QED BY <1>1, Finite, TotalLess

LEMMA SavedCarries ==
  ASSUME NEW p \in Players, NEW box \in Rows, NEW st, NEW rows \in Rows, NEW m \in MailIds
  PROVE  /\ Carried(Saved(p, box, st, rows))[m] \in {0, Carried(box)[m], Carried(rows)[m]}
         /\ m \in Marked(p, box, st, "changed") =>
              Carried(Saved(p, box, st, rows))[m] \in {0, Carried(box)[m]}
<1>1. m \in Marked(p, box, st, "changed") => box[m] # NoMail
  BY DEF Marked, MailsOf
<1> DEFINE s == Saved(p, box, st, rows)[m]
<1>2. /\ s \in {NoMail, Kept(box[m]), rows[m]}
      /\ s = Kept(box[m]) \/ s \in {NoMail, rows[m]}
      /\ m \in Marked(p, box, st, "changed") => s \in {NoMail, Kept(box[m])}
      /\ m \notin Marked(p, box, st, "changed") => s \in {NoMail, rows[m]}
  BY DEF Saved
<1>3. m \in Marked(p, box, st, "changed") => Kept(box[m]) \in {NoMail, box[m]}
  BY DEF Kept
<1> QED BY <1>1, <1>2, <1>3 DEF Carried

Purse == Total(money, Players)
Post == Total(Carried(dbMail), MailIds)
House == Total(Held(auction), Items)

LEMMA WealthIs == Inv => Wealth = Purse + Post + House
<1> SUFFICES ASSUME Inv PROVE Wealth = Purse + Post + House
  OBVIOUS
<1>1. Wealth = Total(money, Players) + PostTotal(MailNow) + HouseTotal(auction)
  BY Zenon DEF Wealth, Total, PostTotal, HouseTotal
<1>2. MailNow = dbMail
  BY DEF MailNow, Inv, SyncInv, Synced, MailInv, PostTypeOK, Rows
<1> QED BY <1>1, <1>2, PostIs, HouseIs DEF Purse, Post, House

LEMMA HeldType ==
  ASSUME NEW aucs \in [Items -> Auctions \cup {NoAuction}]
  PROVE  /\ \A i \in Items : Held(aucs)[i] \in Nat
         /\ Total(Held(aucs), Items) \in Int
<1>1. ASSUME NEW i \in Items PROVE Held(aucs)[i] \in Nat
  <2>1. aucs[i] # NoAuction => aucs[i].bid \in Nat
    BY BidTypes
  <2>2. Held(aucs)[i] = IF aucs[i] = NoAuction THEN 0 ELSE Deposit + aucs[i].bid
    BY DEF Held
  <2>3. \A x, y \in Nat : x + y \in Nat
    OBVIOUS
  <2> QED BY <2>1, <2>2, <2>3, AuctionAssumption
<1>2. \A i \in Items : Held(aucs)[i] \in Int
  BY <1>1
<1> QED BY <1>1, <1>2, Finite, TotalType

LEMMA GoldType == Inv => Purse \in Int /\ Post \in Int /\ House \in Int
<1> SUFFICES ASSUME Inv PROVE Purse \in Int /\ Post \in Int /\ House \in Int
  OBVIOUS
<1>1. Purse \in Int
  BY MoneyType DEF Inv, Purse
<1>2. Post \in Int
  BY CarriedType DEF Inv, MailInv, PostTypeOK, Post
<1>3. House \in Int
  BY HeldType DEF Inv, AuctionInv, House
<1> QED BY <1>1, <1>2, <1>3

\* What a step of p takes from him.
LEMMA PursePays ==
  ASSUME MailInv, MailInv', NEW p \in Players, NEW price \in Int,
         money' = [money EXCEPT ![p] = @ - price]
  PROVE  Purse' = Purse - price
<1>1. money[p] \in Int /\ Purse \in Int /\ money'[p] = money[p] - price
      /\ \A q \in Players \ {p} : money'[q] = money[q]
  BY MoneyType DEF MailInv, OwnTypeOK, Purse
<1>2. Purse' = Purse - money[p] + money'[p]
  BY <1>1, GoldMoved DEF Purse
<1> QED BY <1>1, <1>2

\* What is mailed is in the post.
LEMMA PostGrows ==
  ASSUME MailInv, NEW drafts, \A k \in DOMAIN drafts : drafts[k] \in Letters, SendMailTo(drafts)
  PROVE  /\ IsFiniteSet(DOMAIN drafts)
         /\ Post' = Post + Total(Term(drafts), DOMAIN drafts)
<1>1. PICK f \in IdsFor(drafts) : dbMail' = Inserted(dbMail, drafts, f)
  BY DEF SendMailTo
<1>2. dbMail \in Rows /\ \A m \in FreeIds : dbMail[m] = NoMail
  BY DEF MailInv, PostTypeOK, FreeIds
<1>3. /\ IsFiniteSet(DOMAIN drafts)
      /\ Total(Carried(Inserted(dbMail, drafts, f)), MailIds)
           = Total(Carried(dbMail), MailIds) + Total(Term(drafts), DOMAIN drafts)
  BY <1>2, GoldPosted
<1> QED BY <1>1, <1>3 DEF Post

-----------------------------------------------------------------------------

LEMMA SendMailGold ==
  ASSUME MailInv, MailInv', NEW p \in Players, NEW q \in Players, NEW its \in SUBSET Items,
         NEW gold \in Nat, NEW cod \in Nat, SendMail(p, q, its, gold, cod)
  PROVE  Purse' + Post' <= Purse + Post
<1> DEFINE draft == [kind |-> "normal", sender |-> p, receiver |-> q, items |-> its,
                     money |-> gold, cod |-> IF its = {} THEN 0 ELSE cod,
                     checked |-> "", delay |-> its # {}, subject |-> NoItem]
<1>1. draft \in Letters /\ draft.money = gold
  BY DraftType DEF SendMail
<1>2. SendMailTo(<<draft>>) /\ money' = [money EXCEPT ![p] = @ - (Cost(its) + gold)]
  BY DEF SendMail
<1> HIDE DEF draft
<1>3. \A k \in DOMAIN <<draft>> : <<draft>>[k] \in Letters
  BY <1>1
<1>4. Post' = Post + Total(Term(<<draft>>), DOMAIN <<draft>>)
  BY <1>2, <1>3, PostGrows
<1>5. Post' = Post + gold
  BY <1>1, <1>4, TermSums
<1>6. Cost(its) \in Nat /\ Cost(its) + gold \in Int
  BY CostType
<1>7. Purse' = Purse - (Cost(its) + gold)
  BY <1>2, <1>6, PursePays
<1>8. Purse \in Int /\ Post \in Int
  BY MoneyType, CarriedType DEF MailInv, PostTypeOK, Purse, Post
<1> QED BY <1>5, <1>6, <1>7, <1>8

LEMMA ReturnGold ==
  ASSUME MailInv, SyncInv, NEW p \in Players, NEW m \in MailIds, ReturnToSender(p, m)
  PROVE  Purse' = Purse /\ Post' <= Post
<1> DEFINE back == IF inbox[m].kind = "normal" THEN <<Returned(inbox[m])>> ELSE << >>
           rows == [dbMail EXCEPT ![m] = NoMail]
<1>1. inbox[m] \in Letters /\ inbox[m] = dbMail[m] /\ inbox[m] # NoMail
  BY DEF ReturnToSender, InBox, SyncInv, Synced, MailInv, PostTypeOK, Rows
<1>2. PICK f \in IdsFor(back) : dbMail' = Inserted(rows, back, f)
  BY DEF ReturnToSender
<1>3. /\ rows \in Rows /\ rows[m] = NoMail /\ \A n \in MailIds \ {m} : rows[n] = dbMail[n]
      /\ \A n \in FreeIds : rows[n] = NoMail
  BY DEF MailInv, PostTypeOK, Rows, FreeIds
<1>4. dbMail \in Rows /\ Post \in Int
  BY CarriedType DEF MailInv, PostTypeOK, Post
<1>5. Total(Carried(rows), MailIds) = Post - inbox[m].money
  <2> DEFINE old == Carried(dbMail)
             new == Carried(rows)
  <2>1. /\ m \in MailIds /\ new[m] = 0 /\ old[m] = inbox[m].money
        /\ \A n \in MailIds \ {m} : new[n] = old[n]
    BY <1>1, <1>3 DEF Carried
  <2>2. \A n \in MailIds : old[n] \in Int
    BY <1>4, CarriedType
  <2>4. inbox[m].money \in Nat /\ Post = Total(old, MailIds)
    BY <1>1, LetterFacts DEF Post
  <2> HIDE DEF old, new, rows
  <2>5. Drops(MailIds, m, old, new)
    BY <2>1, <2>2 DEF Drops
  <2>3. Total(new, MailIds) = Total(old, MailIds) - old[m]
    BY <2>5, Finite, TotalDrop
  <2>6. Total(new, MailIds) = Post - inbox[m].money
    BY <1>4, <2>1, <2>3, <2>4
  <2> QED BY <2>6 DEF new
<1>6. /\ inbox[m].money \in Nat /\ \A k \in DOMAIN back : back[k] \in Letters
      /\ Total(Term(back), DOMAIN back) <= inbox[m].money
  <2>1. CASE inbox[m].kind = "normal"
    <3>1. Returned(inbox[m]) \in Letters /\ Returned(inbox[m]).money = inbox[m].money
      BY <1>1, <2>1, ReturnedType DEF Returned, Letters, Mails
    <3>2. back = <<Returned(inbox[m])>>
      BY <2>1
    <3> HIDE DEF back
    <3>3. Total(Term(back), DOMAIN back) = inbox[m].money
      BY <3>1, <3>2, TermSums
    <3>4. \A k \in DOMAIN back : back[k] \in Letters
      BY <3>1, <3>2
    <3> QED BY <1>1, <3>3, <3>4, LetterFacts
  <2>2. CASE inbox[m].kind # "normal"
    <3>2. back = << >>
      BY <2>2
    <3> HIDE DEF back
    <3> QED BY <1>1, <3>2, TermSums, LetterFacts
  <2> QED BY <2>1, <2>2
<1> HIDE DEF back, rows
<1>7. Total(Carried(dbMail'), MailIds)
        = Total(Carried(rows), MailIds) + Total(Term(back), DOMAIN back)
  BY <1>2, <1>3, <1>6, GoldPosted
<1>8. Post' = Total(Carried(dbMail'), MailIds)
  BY DEF Post, Carried
<1>9. Total(Term(back), DOMAIN back) \in Int
  <2>1. \A k \in DOMAIN back : Term(back)[k] \in Int
    BY <1>6, LetterFacts DEF Term
  <2>2. IsFiniteSet(DOMAIN back)
    BY <1>3, <1>6, GoldPosted
  <2> QED BY <2>1, <2>2, TotalType
<1>10. Purse' = Purse
  BY DEF ReturnToSender, Purse
<1> QED BY <1>4, <1>5, <1>6, <1>7, <1>8, <1>9, <1>10

\* A save writes no more than was in the table, when what is in memory is no more.
LEMMA SaveDrops ==
  ASSUME NEW p \in Players, NEW box \in Rows, NEW st \in States, NEW rows \in Rows,
         \A m \in MailIds : box[m] # NoMail => Carried(box)[m] <= Carried(rows)[m]
  PROVE  Total(Carried(Saved(p, box, st, rows)), MailIds) <= Total(Carried(rows), MailIds)
<1>1. Saved(p, box, st, rows) \in Rows
  BY SaveTypes
<1>2. ASSUME NEW m \in MailIds
      PROVE  Carried(Saved(p, box, st, rows))[m] <= Carried(rows)[m]
  <2>1. /\ Carried(rows)[m] \in Nat /\ Carried(box)[m] \in Nat
    BY CarriedType
  <2>2. box[m] = NoMail => Carried(box)[m] = 0
    BY DEF Carried
  <2>3. Carried(Saved(p, box, st, rows))[m] \in {0, Carried(box)[m], Carried(rows)[m]}
    BY SavedCarries
  <2> QED BY <2>1, <2>2, <2>3
<1> QED BY <1>1, <1>2, GoldDropped

LEMMA SyncedCarries ==
  ASSUME MailInv, SyncInv
  PROVE  \A m \in MailIds : inbox[m] # NoMail => Carried(inbox)[m] = Carried(dbMail)[m]
BY DEF SyncInv, Synced, Carried

LEMMA SaveOrLogoutGold ==
  ASSUME MailInv, SyncInv, NEW p \in Players, Save(p) \/ Logout(p)
  PROVE  Purse' = Purse /\ Post' <= Post
<1>1. dbMail' = Saved(p, inbox, state, dbMail) \/ dbMail' = dbMail
  BY DEF Save, Logout, SaveMail
<1>2. money' = money
  BY DEF Save, Logout
<1>3. /\ inbox \in Rows /\ dbMail \in Rows /\ state \in States
      /\ \A m \in MailIds : Carried(inbox)[m] \in Nat
  BY CarriedType DEF MailInv, PostTypeOK
<1>4. \A m \in MailIds : inbox[m] # NoMail => Carried(inbox)[m] <= Carried(dbMail)[m]
  BY <1>3, SyncedCarries
<1>5. Total(Carried(Saved(p, inbox, state, dbMail)), MailIds) <= Total(Carried(dbMail), MailIds)
  BY <1>3, <1>4, SaveDrops
<1>6. Total(Carried(dbMail), MailIds) \in Int
  BY <1>3, CarriedType
<1>7. Total(Carried(dbMail'), MailIds) <= Total(Carried(dbMail), MailIds)
  BY <1>1, <1>5, <1>6
<1> QED BY <1>2, <1>7 DEF Purse, Post, Carried

LEMMA ReturnOrDeleteGold ==
  ASSUME MailInv, MailInv', NEW expired \in SUBSET {m \in MailIds : dbMail[m] # NoMail},
         ReturnOrDeleteOldMails(expired)
  PROVE  Purse' = Purse /\ Post' <= Post
<1>1. dbMail \in Rows /\ dbMail' \in Rows
  BY DEF MailInv, PostTypeOK
<1>2. ASSUME NEW m \in MailIds PROVE Carried(dbMail')[m] <= Carried(dbMail)[m]
  <2>1. \/ dbMail'[m] \in {NoMail, dbMail[m]}
        \/ dbMail[m] # NoMail /\ dbMail'[m] = Returned(dbMail[m])
    BY DEF ReturnOrDeleteOldMails
  <2>2. Carried(dbMail)[m] \in Nat
    BY <1>1, CarriedType
  <2>3. CASE dbMail'[m] \in {NoMail, dbMail[m]}
    BY <2>2, <2>3 DEF Carried
  <2>4. CASE dbMail'[m] \notin {NoMail, dbMail[m]}
    <3>1. dbMail[m] \in Letters /\ dbMail'[m] # NoMail /\ dbMail'[m] = Returned(dbMail[m])
      BY <1>1, <2>1, <2>4 DEF Rows
    <3>2. Returned(dbMail[m]).money = dbMail[m].money
      BY <3>1 DEF Returned, Letters, Mails
    <3>3. dbMail[m] # NoMail
      BY <2>1, <2>4
    <3> QED BY <2>2, <3>1, <3>2, <3>3 DEF Carried
  <2> QED BY <2>3, <2>4
<1>3. Total(Carried(dbMail'), MailIds) <= Total(Carried(dbMail), MailIds)
  BY <1>1, <1>2, GoldDropped
<1>4. money' = money
  BY DEF ReturnOrDeleteOldMails, memory
<1> QED BY <1>3, <1>4 DEF Purse, Post, Carried

LEMMA TakeMoneyGold ==
  ASSUME MailInv, MailInv', SyncInv, NEW p \in Players, NEW m \in MailIds, TakeMoney(p, m)
  PROVE  Purse' + Post' <= Purse + Post
<1> DEFINE box == [inbox EXCEPT ![m].money = 0]
           st == [state EXCEPT ![m] = "changed"]
           gold == inbox[m].money
           saved == Saved(p, box, st, dbMail)
<1>1. /\ inbox[m] \in Letters /\ inbox[m] # NoMail /\ inbox[m].receiver = p /\ gold \in Nat
      /\ inbox[m] = dbMail[m] /\ dbMail \in Rows /\ inbox \in Rows
  BY LetterFacts DEF TakeMoney, InBox, SyncInv, Synced, MailInv, PostTypeOK, Rows
<1>2. box \in Rows /\ st \in States /\ st[m] = "changed"
  BY <1>1, TakenType DEF MailInv, PostTypeOK, Rows, States
<1>3. /\ box[m] # NoMail /\ box[m].receiver = p /\ box[m].money = 0
      /\ \A n \in MailIds \ {m} : box[n] = inbox[n]
  <2>1. box[m] = [inbox[m] EXCEPT !.money = 0]
    BY <1>1 DEF Rows
  <2>2. box[m] \in Letters /\ NoMail \notin Letters
    <3>1. box[m] \in Letters \cup {NoMail} /\ NoMail \notin Letters
      BY <1>2, NoMailAssumption DEF Rows, Letters
    <3>2. [inbox[m] EXCEPT !.money = 0] \in Letters
      BY <1>1, TakenType
    <3> QED BY <2>1, <3>1, <3>2
  <2>3. box[m].receiver = p /\ box[m].money = 0
    <3>1. inbox[m] \in Mails
      BY <1>1, LetterFacts
    <3>2. /\ [inbox[m] EXCEPT !.money = 0].receiver = inbox[m].receiver
          /\ [inbox[m] EXCEPT !.money = 0].money = 0
      BY <3>1 DEF Mails
    <3> HIDE DEF box
    <3> QED BY <1>1, <2>1, <3>2
  <2> QED BY <2>2, <2>3 DEF MailInv, PostTypeOK, Rows
<1>4. dbMail' = saved /\ money' = [money EXCEPT ![p] = @ + gold]
  BY DEF TakeMoney, SaveMail
<1> DEFINE old == Carried(dbMail)
           rest == [n \in MailIds |-> IF n = m THEN 0 ELSE old[n]]
<1> HIDE DEF box, st, saved
<1>5. /\ \A n \in MailIds : old[n] \in Nat /\ Carried(box)[n] \in Nat
      /\ old[m] = gold /\ Carried(box)[m] = 0
      /\ \A n \in MailIds \ {m} : box[n] # NoMail => Carried(box)[n] = old[n]
      /\ \A n \in MailIds \ {m} : box[n] = NoMail => Carried(box)[n] = 0
  <2>1. \A n \in MailIds : old[n] \in Nat /\ Carried(box)[n] \in Nat
    BY <1>1, <1>2, CarriedType
  <2>2. old[m] = gold /\ Carried(box)[m] = 0
    BY <1>1, <1>3 DEF Carried
  <2>3. ASSUME NEW n \in MailIds \ {m}, box[n] # NoMail PROVE Carried(box)[n] = old[n]
    BY <1>3, <2>3, SyncedCarries DEF Carried
  <2>4. \A n \in MailIds \ {m} : box[n] = NoMail => Carried(box)[n] = 0
    BY DEF Carried
  <2> QED BY <2>1, <2>2, <2>3, <2>4
<1>6. ASSUME NEW n \in MailIds PROVE Carried(saved)[n] \in Int /\ Carried(saved)[n] <= rest[n]
  <2>1. /\ Carried(saved)[n] \in {0, Carried(box)[n], old[n]}
        /\ n \in Marked(p, box, st, "changed") => Carried(saved)[n] \in {0, Carried(box)[n]}
    BY <1>1, <1>2, SavedCarries DEF saved
  <2>2. CASE n = m
    <3>1. m \in Marked(p, box, st, "changed")
      BY <1>2, <1>3 DEF Marked, MailsOf
    <3> QED BY <1>5, <2>1, <2>2, <3>1
  <2>3. CASE n # m
    <3>1. rest[n] = old[n]
      BY <2>3
    <3> HIDE DEF old, rest
    <3>2. old[n] \in Nat /\ Carried(box)[n] \in {0, old[n]}
      BY <1>5, <2>3
    <3>3. Carried(saved)[n] \in {0, old[n]}
      BY <2>1, <3>2
    <3> QED BY <3>1, <3>2, <3>3
  <2> QED BY <2>2, <2>3
<1>7. /\ \A n \in MailIds : old[n] \in Int /\ rest[n] \in Int
      /\ rest[m] = 0 /\ \A n \in MailIds \ {m} : rest[n] = old[n]
  BY <1>5
<1> HIDE DEF rest, old
<1>8. Drops(MailIds, m, old, rest)
  BY <1>7 DEF Drops
<1>9. Total(rest, MailIds) = Total(old, MailIds) - old[m]
  BY <1>8, Finite, TotalDrop
<1>10. Total(Carried(saved), MailIds) <= Total(rest, MailIds)
  BY <1>6, <1>7, Finite, TotalLess
<1>11. /\ Post' = Total(Carried(saved), MailIds) /\ Post = Total(old, MailIds)
       /\ Post \in Int /\ Post' \in Int /\ Purse \in Int
  <2>1. Post' = Total(Carried(dbMail'), MailIds) /\ dbMail' \in Rows
    BY DEF Post, Carried, MailInv, PostTypeOK
  <2> QED BY <1>1, <1>4, <2>1, CarriedType, MoneyType DEF Post, Purse, old
<1>12. Purse' = Purse - (0 - gold)
  <2>1. money[p] \in Int /\ money[p] + gold = money[p] - (0 - gold) /\ 0 - gold \in Int
    BY <1>1 DEF MailInv, OwnTypeOK
  <2>2. money' = [money EXCEPT ![p] = @ - (0 - gold)]
    BY <1>4, <2>1
  <2> HIDE DEF gold
  <2> QED BY <2>1, <2>2, PursePays
<1> QED BY <1>1, <1>5, <1>7, <1>9, <1>10, <1>11, <1>12

\* As Taking, with what the mails carry: the payment is put among them, and the rest
\* is as it was.
LEMMA TakeItemGold ==
  ASSUME MailInv, MailInv', SyncInv, NEW p \in Players, NEW m \in MailIds, NEW i \in Items,
         TakeItem(p, m, i)
  PROVE  Purse' + Post' <= Purse + Post
<1> DEFINE price == inbox[m].cod
           payment == [kind |-> "normal", sender |-> p, receiver |-> inbox[m].sender,
                       items |-> {}, money |-> price, cod |-> 0,
                       checked |-> "cod payment", delay |-> FALSE, subject |-> NoItem]
           drafts == IF price > 0 THEN <<payment>> ELSE << >>
           taken == [inbox EXCEPT ![m].items = @ \ {i}, ![m].cod = 0]
           st == [state EXCEPT ![m] = "changed"]
<1>1. /\ inbox[m] \in Letters /\ price \in Nat /\ inbox[m] # NoMail
      /\ (price > 0 => inbox[m].sender \in Players) /\ dbMail \in Rows
      /\ \A n \in FreeIds : dbMail[n] = NoMail
  BY LetterFacts DEF TakeItem, InBox, MailInv, PostTypeOK, Rows, FreeIds
<1>2. payment.money = price /\ (price > 0 => payment \in Letters)
  BY <1>1 DEF Letters, Mails
<1>6. PICK f \in IdsFor(drafts) :
        SaveMail(p, Delivered(taken, drafts, f), st, Inserted(dbMail, drafts, f))
  BY DEF TakeItem
<1> HIDE DEF payment
<1>3. /\ \A k \in DOMAIN drafts : drafts[k] \in Letters
      /\ Total(Term(drafts), DOMAIN drafts) = price
  <2>1. CASE price > 0
    <3>1. drafts = <<payment>>
      BY <2>1
    <3> HIDE DEF drafts
    <3> QED BY <1>2, <2>1, <3>1, TermSums
  <2>2. CASE ~(price > 0)
    <3>1. drafts = << >>
      BY <2>2
    <3> HIDE DEF drafts
    <3> QED BY <1>1, <2>2, <3>1, TermSums
  <2> QED BY <2>1, <2>2
<1>4. taken \in Rows /\ st \in States
  BY <1>1, TakenType DEF MailInv, PostTypeOK, Rows, States
<1>5. ASSUME NEW n \in MailIds, taken[n] # NoMail PROVE Carried(taken)[n] = Carried(dbMail)[n]
  <2>1. CASE n # m
    <3>1. taken[n] = inbox[n]
      BY <2>1 DEF MailInv, PostTypeOK, Rows
    <3> QED BY <1>5, <3>1, SyncedCarries DEF Carried
  <2>2. CASE n = m
    <3>1. taken[m] = [inbox[m] EXCEPT !.items = @ \ {i}, !.cod = 0]
      BY DEF MailInv, PostTypeOK, Rows
    <3>4. inbox[m] \in Mails
      BY <1>1, LetterFacts
    <3>2. taken[m].money = inbox[m].money
      BY <3>1, <3>4 DEF Mails
    <3>3. Carried(inbox)[m] = Carried(dbMail)[m]
      BY <1>1, SyncedCarries
    <3> QED BY <1>1, <1>5, <2>2, <3>2, <3>3 DEF Carried
  <2> QED BY <2>1, <2>2
<1>7. money' = [money EXCEPT ![p] = @ - price]
  BY DEF TakeItem
<1> HIDE DEF drafts, taken, st
<1> DEFINE box == Delivered(taken, drafts, f)
           rows == Inserted(dbMail, drafts, f)
<1>8. box \in Rows /\ rows \in Rows
  BY <1>1, <1>3, <1>4, SendTypes
<1>9. ASSUME NEW n \in MailIds, box[n] # NoMail PROVE Carried(box)[n] <= Carried(rows)[n]
  <2>1. \/ box[n] = taken[n] /\ rows[n] = dbMail[n]
        \/ box[n] = rows[n]
        \/ box[n] = taken[n] /\ n \in Range(f)
    BY DEF Delivered, Inserted
  <2>2. Carried(rows)[n] \in Nat
    BY <1>8, CarriedType
  <2>3. n \in Range(f) => taken[n] = NoMail
    <3>1. n \in Range(f) => n \in FreeIds /\ n # m
      BY <1>1, DraftIds DEF FreeIds
    <3>2. n \in FreeIds => inbox[n] = NoMail
      BY DEF FreeIds
    <3>3. n # m => taken[n] = inbox[n]
      BY DEF taken, MailInv, PostTypeOK, Rows
    <3> QED BY <3>1, <3>2, <3>3
  <2> HIDE DEF box, rows
  <2>4. CASE box[n] = taken[n] /\ rows[n] = dbMail[n]
    <3>1. taken[n] # NoMail
      BY <1>9, <2>4
    <3>2. Carried(box)[n] = Carried(taken)[n] /\ Carried(rows)[n] = Carried(dbMail)[n]
      BY <2>4 DEF Carried
    <3> QED BY <1>5, <2>2, <3>1, <3>2
  <2>5. CASE box[n] = rows[n]
    BY <2>2, <2>5 DEF Carried
  <2> QED BY <1>9, <2>1, <2>3, <2>4, <2>5
<1>10. Total(Carried(rows), MailIds) = Total(Carried(dbMail), MailIds) + price
  BY <1>1, <1>3, GoldPosted
<1>11. dbMail' = Saved(p, box, st, rows)
  BY <1>6 DEF SaveMail
<1> HIDE DEF box, rows
<1>12. Total(Carried(dbMail'), MailIds) <= Total(Carried(rows), MailIds)
  BY <1>4, <1>8, <1>9, <1>11, SaveDrops
<1>13. /\ Post' = Total(Carried(dbMail'), MailIds) /\ Post' \in Int /\ Purse \in Int
       /\ Post = Total(Carried(dbMail), MailIds) /\ Post \in Int
  <2>1. Post' = Total(Carried(dbMail'), MailIds) /\ dbMail' \in Rows
    BY DEF Post, Carried, MailInv, PostTypeOK
  <2> QED BY <1>1, <2>1, CarriedType, MoneyType DEF Post, Purse
<1>14. Purse' = Purse - price
  <2>1. price \in Int
    BY <1>1
  <2> HIDE DEF price
  <2> QED BY <1>7, <2>1, PursePays
<1> QED BY <1>1, <1>10, <1>12, <1>13, <1>14

\* Sending and saving, taking and expiring make no gold.
LEMMA MailGold ==
  ASSUME MailInv, MailInv', SyncInv, MailNext
  PROVE  Purse' + Post' <= Purse + Post \/ \E p \in Players : SpendOrEarn(p)
<1>0. Purse \in Int /\ Post \in Int
  BY MoneyType, CarriedType DEF MailInv, PostTypeOK, Purse, Post
<1>1. ASSUME NEW p \in Writers, NEW q \in Players, NEW its \in SUBSET Items,
             NEW gold \in Amounts \cup {0}, NEW cod \in Amounts \cup {0},
             SendMail(p, q, its, gold, cod)
      PROVE  Purse' + Post' <= Purse + Post
  <2>1. p \in Players /\ gold \in Nat /\ cod \in Nat
    BY MailAssumption
  <2> QED BY <1>1, <2>1, SendMailGold
<1>2. ASSUME UNCHANGED <<money, dbMail>> PROVE Purse' + Post' <= Purse + Post
  <2>1. Purse' = Purse /\ Post' = Post
    BY <1>2 DEF Purse, Post, Carried
  <2> QED BY <1>0, <2>1
<1>3. ASSUME NEW p \in Players, NEW m \in MailIds, MarkAsRead(p, m) \/ MailDelete(p, m)
      PROVE  Purse' + Post' <= Purse + Post
  BY <1>2, <1>3 DEF MarkAsRead, MailDelete, database
<1>4. ASSUME NEW p \in Players, Login(p) PROVE Purse' + Post' <= Purse + Post
  BY <1>2, <1>4 DEF Login, database
<1>5. ASSUME Purse' = Purse, Post' <= Post, Post' \in Int PROVE Purse' + Post' <= Purse + Post
  <2>1. \A a, b, c \in Int : c <= b => a + c <= a + b
    OBVIOUS
  <2> QED BY <1>0, <1>5, <2>1
<1>6. Post' \in Int
  <2>1. Post' = Total(Carried(dbMail'), MailIds) /\ dbMail' \in Rows
    BY DEF Post, Carried, MailInv, PostTypeOK
  <2> QED BY <2>1, CarriedType
<1>7. ASSUME NEW p \in Players, NEW m \in MailIds, ReturnToSender(p, m)
      PROVE  Purse' + Post' <= Purse + Post
  BY <1>5, <1>6, <1>7, ReturnGold
<1>8. ASSUME NEW p \in Players, NEW m \in MailIds, TakeMoney(p, m)
      PROVE  Purse' + Post' <= Purse + Post
  BY <1>8, TakeMoneyGold
<1>9. ASSUME NEW p \in Players, NEW m \in MailIds, NEW i \in Items, TakeItem(p, m, i)
      PROVE  Purse' + Post' <= Purse + Post
  BY <1>9, TakeItemGold
<1>10. ASSUME NEW p \in Players, Save(p) \/ Logout(p) PROVE Purse' + Post' <= Purse + Post
  BY <1>5, <1>6, <1>10, SaveOrLogoutGold
<1>11. ASSUME NEW expired \in SUBSET {m \in MailIds : dbMail[m] # NoMail},
              ReturnOrDeleteOldMails(expired)
       PROVE  Purse' + Post' <= Purse + Post
  BY <1>5, <1>6, <1>11, ReturnOrDeleteGold
<1> QED BY <1>1, <1>3, <1>4, <1>7, <1>8, <1>9, <1>10, <1>11 DEF MailNext

-----------------------------------------------------------------------------

\* What the house holds for an item, and nothing else, changes.
LEMMA HouseChanges ==
  ASSUME AuctionInv, NEW i \in Items, Held(auction')[i] \in Int,
         \A j \in Items \ {i} : auction'[j] = auction[j]
  PROVE  House' = House - Held(auction)[i] + Held(auction')[i]
<1> DEFINE old == Held(auction)
           new == Held(auction')
<1>1. House' = Total(new, Items) /\ House = Total(old, Items)
  BY DEF House, Held
<1>2. \A j \in Items : old[j] \in Int
  BY HeldType DEF AuctionInv
<1>3. \A j \in Items \ {i} : new[j] = old[j]
  BY DEF Held
<1>4. new[i] \in Int
  OBVIOUS
<1> HIDE DEF old, new
<1>5. Total(new, Items) = Total(old, Items) - old[i] + new[i]
  BY <1>2, <1>3, <1>4, Finite, TotalChange
<1> QED BY <1>1, <1>5 DEF old, new

LEMMA SellItemGold ==
  ASSUME Inv, MailInv', NEW p \in Players, NEW i \in Items, NEW startbid, NEW buyout,
         SellItem(p, i, startbid, buyout)
  PROVE  Purse' + Post' + House' <= Purse + Post + House
<1>0. /\ MailInv /\ AuctionInv /\ Purse \in Int /\ Post \in Int /\ House \in Int
      /\ Deposit \in Nat /\ Deposit \in Int
  BY GoldType, AuctionAssumption DEF Inv
<1>1. Purse' = Purse - Deposit
  BY <1>0, PursePays DEF SellItem
<1>2. Post' = Post
  BY DEF SellItem, Post, Carried
<1> DEFINE a == [owner |-> p, startbid |-> startbid, buyout |-> buyout,
                 bid |-> 0, bidder |-> NoPlayer]
<1>3. auction' = [auction EXCEPT ![i] = a] /\ auction[i] = NoAuction /\ a.bid = 0
  BY DEF SellItem
<1> HIDE DEF a
<1>4. Held(auction)[i] = 0
  BY <1>3 DEF Held
<1>5. auction'[i] = a /\ \A j \in Items \ {i} : auction'[j] = auction[j]
  BY <1>0, <1>3 DEF AuctionInv
<1>6. Held(auction')[i] \in {0, Deposit}
  BY <1>0, <1>3, <1>5 DEF Held
<1>7. House' = House - 0 + Held(auction')[i]
  BY <1>0, <1>4, <1>5, <1>6, HouseChanges
<1> QED BY <1>0, <1>1, <1>2, <1>6, <1>7

\* What the mails of the house carry.
LEMMA HouseGold ==
  ASSUME NEW i \in Items, NEW a \in Auctions
  PROVE  /\ Refund(i, a).money = a.bid /\ Won(i, a).money = 0 /\ ItemBack(i, a).money = 0
         /\ Profit(i, a).money = a.bid + Deposit - Cut(a.bid)
BY DEF Refund, Won, ItemBack, Profit, AuctionMail

LEMMA PlaceBidGold ==
  ASSUME Inv, MailInv', NEW p \in Players, NEW i \in Items, NEW price \in Prices,
         PlaceBid(p, i, price)
  PROVE  Purse' + Post' + House' <= Purse + Post + House
<1> DEFINE a == auction[i]
           drafts == IF Outbid(p, a) THEN <<Refund(i, a)>> ELSE << >>
           due == Owed(p, a, price)
<1>0. /\ MailInv /\ AuctionInv /\ Purse \in Int /\ Post \in Int /\ House \in Int
      /\ Deposit \in Nat /\ price \in Nat
  BY GoldType, AuctionAssumption DEF Inv
<1>1. a \in Auctions /\ a # NoAuction
  BY <1>0 DEF PlaceBid, MayBid, AuctionInv
<1>2. a.bid \in Nat /\ due \in Int
  BY <1>0, <1>1, BidTypes DEF Owed
<1>3. /\ money' = [money EXCEPT ![p] = @ - due] /\ SendMailTo(drafts)
      /\ auction' = [auction EXCEPT ![i].bidder = p, ![i].bid = price]
  BY DEF PlaceBid
<1>4. /\ \A k \in DOMAIN drafts : drafts[k] \in Letters
      /\ Total(Term(drafts), DOMAIN drafts) = IF Outbid(p, a) THEN a.bid ELSE 0
  <2>1. CASE Outbid(p, a)
    <3>1. Refund(i, a) \in Letters /\ Refund(i, a).money = a.bid
      BY <1>1, <2>1, HouseMails, HouseGold DEF Outbid
    <3>2. drafts = <<Refund(i, a)>>
      BY <2>1
    <3> HIDE DEF drafts
    <3> QED BY <2>1, <3>1, <3>2, TermSums
  <2>2. CASE ~Outbid(p, a)
    <3>1. drafts = << >>
      BY <2>2
    <3> HIDE DEF drafts
    <3> QED BY <2>2, <3>1, TermSums
  <2> QED BY <2>1, <2>2
<1>5. Held(auction)[i] = Deposit + a.bid
  BY <1>1 DEF Held
<1>6. Held(auction')[i] \in {0, Deposit + price} /\ \A j \in Items \ {i} : auction'[j] = auction[j]
  <2>1. /\ auction'[i] = [a EXCEPT !.bidder = p, !.bid = price]
        /\ \A j \in Items \ {i} : auction'[j] = auction[j]
    BY <1>0, <1>3 DEF AuctionInv
  <2>2. auction'[i].bid = price
    BY <1>1, <2>1 DEF Auctions
  <2> QED BY <2>1, <2>2 DEF Held
<1> HIDE DEF drafts
<1>7. Post' = Post + IF Outbid(p, a) THEN a.bid ELSE 0
  BY <1>0, <1>3, <1>4, PostGrows
<1>8. House' = House - (Deposit + a.bid) + Held(auction')[i]
  <2>1. Held(auction')[i] \in Int
    BY <1>0, <1>6
  <2> QED BY <1>0, <1>5, <1>6, <2>1, HouseChanges
<1> HIDE DEF due
<1>9. Purse' = Purse - due
  BY <1>0, <1>2, <1>3, PursePays
<1>10. due = IF a.bidder = p THEN price - a.bid ELSE price
  BY DEF due, Owed
<1>11. Outbid(p, a) => a.bidder # p
  BY DEF Outbid
<1> HIDE DEF a
<1>12. Purse' + Post' <= Purse + Post - price + a.bid
  <2>1. CASE a.bidder = p
    BY <1>0, <1>2, <1>7, <1>9, <1>10, <1>11, <2>1
  <2>2. CASE a.bidder # p
    BY <1>0, <1>2, <1>7, <1>9, <1>10, <2>2
  <2> QED BY <2>1, <2>2
<1>13. House' <= House - a.bid + price /\ House' \in Int
  BY <1>0, <1>2, <1>6, <1>8
<1>14. Purse' \in Int /\ Post' \in Int
  BY <1>0, <1>2, <1>7, <1>9
<1>15. \A u, v, w, x, y, z, up \in Int :
         x + y <= u + v - up /\ z <= w + up => x + y + z <= u + v + w
  OBVIOUS
<1>16. price - a.bid \in Int /\ Purse + Post - (price - a.bid) = Purse + Post - price + a.bid
       /\ House + (price - a.bid) = House - a.bid + price
  BY <1>0, <1>2
<1> QED BY <1>0, <1>12, <1>13, <1>14, <1>15, <1>16

\* The auction of i ends: the house gives back what it held for it.
LEMMA HouseEnds ==
  ASSUME AuctionInv, NEW i \in Items, auction[i] # NoAuction,
         auction' = [auction EXCEPT ![i] = NoAuction]
  PROVE  House' = House - (Deposit + auction[i].bid)
<1>1. auction'[i] = NoAuction /\ \A j \in Items \ {i} : auction'[j] = auction[j]
  BY DEF AuctionInv
<1>2. Held(auction)[i] = Deposit + auction[i].bid /\ Held(auction')[i] = 0
  BY <1>1 DEF Held
<1>5. Held(auction')[i] \in Int
  BY <1>2
<1>3. House' = House - Held(auction)[i] + Held(auction')[i]
  BY <1>1, <1>5, HouseChanges
<1>4. House \in Int /\ Deposit + auction[i].bid \in Int
  <2>1. auction[i].bid \in Nat
    BY BidTypes DEF AuctionInv
  <2> QED BY <2>1, HeldType, AuctionAssumption DEF AuctionInv, House
<1> QED BY <1>2, <1>3, <1>4

LEMMA BuyoutGold ==
  ASSUME Inv, MailInv', NEW p \in Players, NEW i \in Items, NEW price \in Prices,
         Buyout(p, i, price)
  PROVE  Purse' + Post' + House' <= Purse + Post + House
<1> DEFINE a == auction[i]
           sold == [a EXCEPT !.bidder = p, !.bid = a.buyout]
           refund == Refund(i, a)
           profit == Profit(i, sold)
           won == Won(i, sold)
           drafts == IF Outbid(p, a) THEN <<refund, profit, won>> ELSE <<profit, won>>
           due == Owed(p, a, a.buyout)
           gain == a.buyout + Deposit - Cut(a.buyout)
<1>0. /\ MailInv /\ AuctionInv /\ Purse \in Int /\ Post \in Int /\ House \in Int
      /\ Deposit \in Nat
  BY GoldType, AuctionAssumption DEF Inv
<1>1. a \in Auctions /\ a # NoAuction /\ a.buyout # 0
  BY <1>0 DEF Buyout, MayBid, IsBuyout, AuctionInv
<1>2. a.bid \in Nat /\ a.buyout \in Nat /\ due \in Int
  BY <1>1, BidTypes DEF Owed
<1>3. sold \in Auctions /\ sold.bidder = p /\ sold.bid = a.buyout
  BY <1>1 DEF Auctions
<1>4. /\ money' = [money EXCEPT ![p] = @ - due] /\ SendMailTo(drafts)
      /\ auction' = [auction EXCEPT ![i] = NoAuction]
  BY DEF Buyout
<1> HIDE DEF sold
<1>5. /\ profit \in Letters /\ profit.money = gain
      /\ won \in Letters /\ won.money = 0
  <2>1. p # NoPlayer
    BY MailAssumption
  <2> QED BY <1>3, <2>1, HouseMails, HouseGold
<1>6. Outbid(p, a) => refund \in Letters /\ refund.money = a.bid
  BY <1>1, HouseMails, HouseGold DEF Outbid
<1>7. Cut(a.buyout) \in 0 .. a.buyout /\ gain \in Int /\ Cut(a.buyout) \in Nat
  BY <1>0, <1>2, CutBound
<1>8. House' = House - (Deposit + a.bid)
  BY <1>0, <1>1, <1>4, HouseEnds
<1> HIDE DEF refund, profit, won
<1>9. /\ \A k \in DOMAIN drafts : drafts[k] \in Letters
      /\ Total(Term(drafts), DOMAIN drafts) = IF Outbid(p, a) THEN a.bid + gain + 0 ELSE gain + 0
  <2>1. CASE Outbid(p, a)
    <3>1. drafts = <<refund, profit, won>>
      BY <2>1
    <3> HIDE DEF drafts, gain
    <3>2. Total(Term(drafts), DOMAIN drafts) = refund.money + profit.money + won.money
      BY <1>5, <1>6, <2>1, <3>1, TermSums
    <3>3. \A k \in DOMAIN drafts : drafts[k] \in Letters
      BY <1>5, <1>6, <2>1, <3>1
    <3> QED BY <1>5, <1>6, <2>1, <3>2, <3>3
  <2>2. CASE ~Outbid(p, a)
    <3>1. drafts = <<profit, won>>
      BY <2>2
    <3> HIDE DEF drafts, gain
    <3>2. Total(Term(drafts), DOMAIN drafts) = profit.money + won.money
      BY <1>5, <3>1, TermSums
    <3>3. \A k \in DOMAIN drafts : drafts[k] \in Letters
      BY <1>5, <3>1
    <3> QED BY <1>5, <2>2, <3>2, <3>3
  <2> QED BY <2>1, <2>2
<1> HIDE DEF drafts
<1>10. Post' = Post + IF Outbid(p, a) THEN a.bid + gain + 0 ELSE gain + 0
  BY <1>0, <1>4, <1>9, PostGrows
<1> HIDE DEF due
<1>11. Purse' = Purse - due
  BY <1>0, <1>2, <1>4, PursePays
<1>12. due = IF a.bidder = p THEN a.buyout - a.bid ELSE a.buyout
  BY DEF due, Owed
<1>13. Outbid(p, a) => a.bidder # p
  BY DEF Outbid
<1>14. Purse' + Post' <= Purse + Post + Deposit + a.bid /\ Purse' \in Int /\ Post' \in Int
  <2>1. CASE a.bidder = p
    <3>1. Purse' = Purse - (a.buyout - a.bid) /\ Post' = Post + gain
      BY <1>0, <1>7, <1>10, <1>11, <1>12, <1>13, <2>1
    <3> HIDE DEF a
    <3> QED BY <1>0, <1>2, <1>7, <3>1
  <2>2. CASE Outbid(p, a)
    <3>1. Purse' = Purse - a.buyout /\ Post' = Post + a.bid + gain
      <4>1. Post' = Post + (a.bid + gain + 0) /\ Purse' = Purse - a.buyout
        BY <1>10, <1>11, <1>12, <1>13, <2>2
      <4> HIDE DEF a, gain
      <4> QED BY <1>0, <1>2, <1>7, <4>1
    <3> HIDE DEF a
    <3> QED BY <1>0, <1>2, <1>7, <3>1
  <2>3. CASE a.bidder # p /\ ~Outbid(p, a)
    <3>1. Purse' = Purse - a.buyout /\ Post' = Post + gain
      BY <1>0, <1>7, <1>10, <1>11, <1>12, <2>3
    <3> HIDE DEF a
    <3> QED BY <1>0, <1>2, <1>7, <3>1
  <2> QED BY <2>1, <2>2, <2>3
<1> HIDE DEF a
<1> QED BY <1>0, <1>2, <1>8, <1>14

LEMMA RemoveItemGold ==
  ASSUME Inv, MailInv', NEW p \in Players, NEW i \in Items, RemoveItem(p, i)
  PROVE  Purse' + Post' + House' <= Purse + Post + House
<1> DEFINE a == auction[i]
           fee == IF a.bidder = NoPlayer THEN 0 ELSE Cut(a.bid)
           refund == Refund(i, a)
           back == ItemBack(i, a)
           drafts == IF a.bidder = NoPlayer THEN <<back>> ELSE <<refund, back>>
<1>0. /\ MailInv /\ AuctionInv /\ Purse \in Int /\ Post \in Int /\ House \in Int
      /\ Deposit \in Nat
  BY GoldType, AuctionAssumption DEF Inv
<1>1. a \in Auctions /\ a # NoAuction
  BY <1>0 DEF RemoveItem, AuctionInv
<1>2. a.bid \in Nat /\ fee \in Nat
  <2>1. a.bid \in Nat
    BY <1>1, BidTypes
  <2>2. Cut(a.bid) \in Nat
    BY <2>1, CutBound
  <2> QED BY <2>1, <2>2
<1>3. /\ money' = [money EXCEPT ![p] = @ - fee] /\ SendMailTo(drafts)
      /\ auction' = [auction EXCEPT ![i] = NoAuction]
  BY DEF RemoveItem
<1>4. back \in Letters /\ back.money = 0
  BY <1>1, HouseMails, HouseGold
<1>5. a.bidder # NoPlayer => refund \in Letters /\ refund.money = a.bid
  BY <1>1, HouseMails, HouseGold
<1>6. House' = House - (Deposit + a.bid)
  BY <1>0, <1>1, <1>3, HouseEnds
<1> HIDE DEF fee, refund, back
<1>7. /\ \A k \in DOMAIN drafts : drafts[k] \in Letters
      /\ Total(Term(drafts), DOMAIN drafts) \in {0, a.bid}
  <2>1. CASE a.bidder = NoPlayer
    <3>1. drafts = <<back>>
      BY <2>1
    <3> HIDE DEF drafts
    <3>2. Total(Term(drafts), DOMAIN drafts) = back.money
      BY <1>4, <3>1, TermSums
    <3>3. \A k \in DOMAIN drafts : drafts[k] \in Letters
      BY <1>4, <3>1
    <3> QED BY <1>4, <3>2, <3>3
  <2>2. CASE a.bidder # NoPlayer
    <3>1. drafts = <<refund, back>>
      BY <2>2
    <3> HIDE DEF drafts
    <3>2. Total(Term(drafts), DOMAIN drafts) = refund.money + back.money
      BY <1>4, <1>5, <2>2, <3>1, TermSums
    <3>3. \A k \in DOMAIN drafts : drafts[k] \in Letters
      BY <1>4, <1>5, <2>2, <3>1
    <3>4. a.bid + 0 = a.bid
      BY <1>2
    <3> QED BY <1>4, <1>5, <2>2, <3>2, <3>3, <3>4
  <2> QED BY <2>1, <2>2
<1> HIDE DEF drafts
<1>8. Post' \in {Post + 0, Post + a.bid}
  BY <1>0, <1>3, <1>7, PostGrows
<1>9. fee \in Int
  BY <1>2
<1>10. Purse' = Purse - fee
  BY <1>0, <1>3, <1>9, PursePays
<1> HIDE DEF a
<1> QED BY <1>0, <1>2, <1>6, <1>8, <1>10

\* What the mails carry when auctions end is no more than the house held for them.
LEMMA EndedGold ==
  ASSUME AuctionInv, NEW due \in SUBSET OnSale, IsFiniteSet(DOMAIN Ended(due))
  PROVE  Total(Term(Ended(due)), DOMAIN Ended(due)) <= Total(Held(auction), due)
<1> DEFINE D == DOMAIN Ended(due)
           term == Term(Ended(due))
           none == [k \in D |-> 0]
           pay == [i \in Sold(due) |-> auction[i].bid + Deposit - Cut(auction[i].bid)]
           all == [i \in due |-> IF i \in Sold(due) THEN pay[i] ELSE 0]
           held == Held(auction)
           f == [i \in Sold(due) |-> <<"profit", i>>]
<1>0. Deposit \in Nat
  BY AuctionAssumption
<1>1. /\ due \subseteq Items /\ Sold(due) \subseteq due /\ IsFiniteSet(due) /\ IsFiniteSet(Sold(due))
      /\ \A i \in due : auction[i] \in Auctions /\ auction[i] # NoAuction /\ auction[i].bid \in Nat
  <2>1. due \subseteq Items /\ Sold(due) \subseteq due
        /\ \A i \in due : auction[i] \in Auctions /\ auction[i] # NoAuction
    BY DEF OnSale, Sold, AuctionInv
  <2>2. IsFiniteSet(due) /\ IsFiniteSet(Sold(due))
    BY <2>1, Finite, FS_Subset
  <2> QED BY <2>1, <2>2, BidTypes
<1>2. ASSUME NEW i \in Sold(due) PROVE pay[i] \in Nat /\ pay[i] <= Deposit + auction[i].bid
  <2>1. Cut(auction[i].bid) \in 0 .. auction[i].bid /\ auction[i].bid \in Nat
    BY <1>1, CutBound
  <2> QED BY <1>0, <2>1
<1>3. D = {"item"} \X due \cup {"profit"} \X Sold(due)
  BY DEF Ended
<1>4. ASSUME NEW k \in D
      PROVE  IF k[1] = "profit" THEN k[2] \in Sold(due) /\ k = <<"profit", k[2]>> /\ term[k] = pay[k[2]]
                                ELSE term[k] = 0
  <2> DEFINE i == k[2]
  <2>1. \/ k[1] = "profit" /\ i \in Sold(due) /\ k = <<"profit", i>>
        \/ k[1] = "item" /\ i \in due
    BY <1>3
  <2>2. term[k] = Ended(due)[k].money
    BY DEF Term
  <2>3. Ended(due)[k] = IF i \notin Sold(due) THEN ItemBack(i, auction[i])
                        ELSE IF k[1] = "item" THEN Won(i, auction[i]) ELSE Profit(i, auction[i])
    BY <1>3 DEF Ended
  <2>4. i \in Items /\ auction[i] \in Auctions
    BY <1>1, <2>1
  <2>5. /\ Won(i, auction[i]).money = 0 /\ ItemBack(i, auction[i]).money = 0
        /\ Profit(i, auction[i]).money = auction[i].bid + Deposit - Cut(auction[i].bid)
    BY <2>4, HouseGold
  <2> HIDE DEF term
  <2>6. CASE k[1] = "profit"
    BY <2>1, <2>2, <2>3, <2>5, <2>6
  <2>7. CASE k[1] # "profit"
    <3>1. Ended(due)[k] \in {ItemBack(i, auction[i]), Won(i, auction[i])}
      BY <2>1, <2>3, <2>7
    <3> QED BY <2>2, <2>5, <2>7, <3>1
  <2> QED BY <2>6, <2>7
<1>5. Inserts(D, Sold(due), f, none, term, pay)
  <2>1. f \in Injection(Sold(due), D)
    BY <1>3 DEF Injection, IsInjective
  <2>2. \A k \in D : none[k] \in Int
    OBVIOUS
  <2>3. ASSUME NEW i \in Sold(due)
        PROVE  pay[i] \in Int /\ none[f[i]] = 0 /\ term[f[i]] = pay[i]
    <3>1. f[i] = <<"profit", i>> /\ f[i] \in D /\ pay[i] \in Nat
      BY <1>2, <1>3
    <3>2. f[i][1] = "profit" /\ f[i][2] = i
      BY <3>1
    <3>3. term[f[i]] = pay[i]
      <4> HIDE DEF D, f, term, pay
      <4> QED BY <1>4, <3>1, <3>2
    <3>4. none[f[i]] = 0
      BY <3>1
    <3> QED BY <3>1, <3>3, <3>4
  <2>4. ASSUME NEW k \in D, \A i \in Sold(due) : f[i] # k
        PROVE  term[k] = none[k]
    <3>1. k[1] # "profit"
      <4>1. k[1] = "profit" => k[2] \in Sold(due) /\ k = f[k[2]]
        BY <1>4
      <4> QED BY <2>4, <4>1
    <3> HIDE DEF term, D
    <3>2. term[k] = 0
      BY <1>4, <3>1
    <3> QED BY <3>2
  <2> HIDE DEF f, none, term, pay, D
  <2> QED BY <2>1, <2>2, <2>3, <2>4 DEF Inserts
<1>6. \A k \in D : none[k] = 0
  OBVIOUS
<1>7. \A i \in due : all[i] = IF i \in Sold(due) THEN pay[i] ELSE 0
  OBVIOUS
<1>8. ASSUME NEW i \in due PROVE all[i] \in Int /\ held[i] \in Int /\ all[i] <= held[i]
  <2>1. held[i] = Deposit + auction[i].bid /\ auction[i].bid \in Nat
    BY <1>1 DEF Held
  <2> HIDE DEF held
  <2>2. CASE i \in Sold(due)
    <3>1. all[i] = pay[i] /\ pay[i] \in Nat /\ pay[i] <= Deposit + auction[i].bid
      BY <1>2, <2>2
    <3> HIDE DEF all, pay
    <3> QED BY <1>0, <2>1, <3>1
  <2>3. CASE i \notin Sold(due)
    <3>1. all[i] = 0
      BY <2>3
    <3> HIDE DEF all
    <3> QED BY <1>0, <2>1, <3>1
  <2> QED BY <2>2, <2>3
<1>9. \A i \in Sold(due) : pay[i] \in Int
  BY <1>2
<1> HIDE DEF D, term, none, pay, all, f, held
<1>10. IsFiniteSet(D)
  BY DEF D
<1>11. Total(term, D) = Total(none, D) + Total(pay, Sold(due))
  BY <1>5, <1>10, TotalInsert
<1>12. Total(none, D) = 0
  BY <1>6, <1>10, TotalZero
<1>13. Total(pay, Sold(due)) \in Int
  BY <1>1, <1>9, TotalType
<1>14. Sold(due) \in SUBSET due
  BY <1>1
<1>15. Total(all, due) = Total(pay, Sold(due))
  <2>1. Within(due, Sold(due), pay, all)
    BY <1>7, <1>9, <1>14 DEF Within
  <2> QED BY <1>1, <2>1, TotalPart
<1>16. Total(all, due) <= Total(held, due)
  BY <1>1, <1>8, TotalLess
<1>17. Total(term, D) <= Total(held, due)
  BY <1>11, <1>12, <1>13, <1>15, <1>16
<1> QED BY <1>17 DEF term, D, held

LEMMA EndedLetters ==
  ASSUME AuctionInv, NEW due \in SUBSET OnSale
  PROVE  \A k \in DOMAIN Ended(due) : Ended(due)[k] \in Letters
<1>1. DOMAIN Ended(due) = {"item"} \X due \cup {"profit"} \X Sold(due)
  BY DEF Ended
<1> SUFFICES ASSUME NEW k \in DOMAIN Ended(due) PROVE Ended(due)[k] \in Letters
  OBVIOUS
<1> DEFINE i == k[2]
<1>2. i \in Items /\ auction[i] \in Auctions
  BY <1>1 DEF Sold, OnSale, AuctionInv
<1>3. Ended(due)[k] = IF i \notin Sold(due) THEN ItemBack(i, auction[i])
                      ELSE IF k[1] = "item" THEN Won(i, auction[i]) ELSE Profit(i, auction[i])
  BY <1>1 DEF Ended
<1>4. i \in Sold(due) => auction[i].bidder # NoPlayer
  BY DEF Sold
<1> QED BY <1>2, <1>3, <1>4, HouseMails

LEMMA UpdateGold ==
  ASSUME Inv, Inv', NEW due \in SUBSET OnSale, Update(due)
  PROVE  Purse' + Post' + House' <= Purse + Post + House
<1> DEFINE drafts == Ended(due)
           old == Held(auction)
           new == Held(auction')
           gone == [i \in Items |-> IF i \in due THEN old[i] ELSE 0]
<1>0. /\ MailInv /\ AuctionInv /\ AuctionInv' /\ Purse \in Int /\ Post \in Int /\ House \in Int
  BY GoldType DEF Inv
<1>1. /\ SendMailTo(drafts) /\ money' = money
      /\ auction' = [i \in Items |-> IF i \in due THEN NoAuction ELSE auction[i]]
  BY DEF Update
<1>2. \A k \in DOMAIN drafts : drafts[k] \in Letters
  BY EndedLetters DEF Inv
<1>3. /\ IsFiniteSet(DOMAIN drafts)
      /\ Post' = Post + Total(Term(drafts), DOMAIN drafts)
  BY <1>0, <1>1, <1>2, PostGrows
<1>4. Total(Term(drafts), DOMAIN drafts) <= Total(old, due)
  BY <1>0, <1>3, EndedGold
<1>5. Total(Term(drafts), DOMAIN drafts) \in Int
  <2>1. \A k \in DOMAIN drafts : Term(drafts)[k] \in Int
    BY <1>2, LetterFacts DEF Term
  <2> HIDE DEF drafts
  <2> QED BY <1>3, <2>1, TotalType
<1>6. House' = Total(new, Items) /\ House = Total(old, Items)
  BY DEF House, Held
<1>7. /\ \A i \in Items : old[i] \in Int /\ new[i] \in Int
      /\ Total(new, Items) \in Int
  <2>1. auction \in [Items -> Auctions \cup {NoAuction}] /\ auction' \in [Items -> Auctions \cup {NoAuction}]
    BY <1>0 DEF AuctionInv
  <2>2. \A i \in Items : old[i] \in Nat /\ new[i] \in Nat
    BY <2>1, HeldType
  <2>3. Total(new, Items) \in Int
    BY <2>1, HeldType
  <2> QED BY <2>2, <2>3
<1>8. \A i \in Items : gone[i] \in Int /\ old[i] = new[i] + gone[i]
  <2> SUFFICES ASSUME NEW i \in Items PROVE gone[i] \in Int /\ old[i] = new[i] + gone[i]
    OBVIOUS
  <2>1. new[i] = IF i \in due THEN 0 ELSE old[i]
    BY <1>1 DEF Held
  <2>2. gone[i] = IF i \in due THEN old[i] ELSE 0
    OBVIOUS
  <2> HIDE DEF gone, old, new
  <2> QED BY <1>7, <2>1, <2>2
<1>9. due \in SUBSET Items /\ \A i \in Items : gone[i] = IF i \in due THEN old[i] ELSE 0
  BY DEF OnSale
<1> HIDE DEF drafts, old, new, gone
<1>10. Total(old, Items) = Total(new, Items) + Total(gone, Items)
  BY <1>7, <1>8, Finite, TotalPlus
<1>11. Total(gone, Items) = Total(old, due) /\ Total(old, due) \in Int
  <2>1. \A i \in due : old[i] \in Int
    BY <1>7, <1>9
  <2>2. IsFiniteSet(due)
    BY <1>9, Finite, FS_Subset
  <2>3. Total(gone, Items) = Total(old, due)
    <3>1. Within(Items, due, old, gone)
      BY <1>9, <2>1 DEF Within
    <3> QED BY <3>1, Finite, TotalPart
  <2> QED BY <2>1, <2>2, <2>3, TotalType
<1>12. Purse' = Purse
  BY <1>1 DEF Purse
<1>13. House = House' + Total(old, due) /\ House' \in Int
  BY <1>6, <1>7, <1>10, <1>11
<1>14. \A a, b, c, d, t, h \in Int : t <= h /\ d + h = c => a + (b + t) + d <= a + b + c
  OBVIOUS
<1> QED BY <1>0, <1>3, <1>4, <1>5, <1>11, <1>12, <1>13, <1>14

-----------------------------------------------------------------------------

GoldStep == Wealth' <= Wealth \/ (\E p \in Players : SpendOrEarn(p)) \/ Crash

LEMMA NextGold ==
  ASSUME Inv, Inv', Next
  PROVE  \/ Purse' + Post' + House' <= Purse + Post + House
         \/ (\E p \in Players : SpendOrEarn(p)) \/ Crash
<1>0. /\ MailInv /\ MailInv' /\ SyncInv /\ Purse \in Int /\ Post \in Int /\ House \in Int
  BY GoldType DEF Inv
<1>1. CASE MailNext /\ UNCHANGED auctionVars
  <2>1. House' = House
    BY <1>1 DEF auctionVars, House, Held
  <2>2. Purse' \in Int /\ Post' \in Int
    <3>1. Post' = Total(Carried(dbMail'), MailIds) /\ dbMail' \in Rows
      BY <1>0 DEF Post, Carried, MailInv, PostTypeOK
    <3>2. Purse' = Total(money', Players) /\ \A p \in Players : money'[p] \in Int
      BY <1>0 DEF Purse, MailInv, OwnTypeOK
    <3> QED BY <3>1, <3>2, CarriedType, Finite, TotalType
  <2>3. \A x, y, a, b, c \in Int : x + y <= a + b => x + y + c <= a + b + c
    OBVIOUS
  <2> QED BY <1>0, <1>1, <2>1, <2>2, <2>3, MailGold
<1>2. ASSUME NEW p \in Players, NEW i \in Items, NEW startbid \in Prices,
             NEW buyout \in Prices \cup {0}, SellItem(p, i, startbid, buyout)
      PROVE  Purse' + Post' + House' <= Purse + Post + House
  BY <1>0, <1>2, SellItemGold
<1>3. ASSUME NEW p \in Players, NEW i \in Items, NEW price \in Prices,
             PlaceBid(p, i, price) \/ Buyout(p, i, price)
      PROVE  Purse' + Post' + House' <= Purse + Post + House
  BY <1>0, <1>3, PlaceBidGold, BuyoutGold
<1>4. ASSUME NEW p \in Players, NEW i \in Items, RemoveItem(p, i)
      PROVE  Purse' + Post' + House' <= Purse + Post + House
  BY <1>0, <1>4, RemoveItemGold
<1>5. ASSUME NEW due \in SUBSET {i \in Items : auction[i] # NoAuction} \ {{}}, Update(due)
      PROVE  Purse' + Post' + House' <= Purse + Post + House
  BY <1>5, UpdateGold DEF OnSale
<1> QED BY <1>1, <1>2, <1>3, <1>4, <1>5 DEF Next

\* No step of mail or auction makes gold: what players have, what the mails carry and
\* what the house holds is together never more than before, unless players earned it
\* elsewhere or a restart brought back what they spent there.
THEOREM NoGold == Spec => NoGoldMade
<1>1. Inv /\ Inv' /\ Wealth = Purse + Post + House /\ (Wealth = Purse + Post + House)'
        /\ [Next]_vars => [GoldStep]_vars
  <2> SUFFICES ASSUME Inv, Inv', Wealth = Purse + Post + House,
                      Wealth' = Purse' + Post' + House', Next
               PROVE  GoldStep
    OBVIOUS
  <2> QED BY NextGold DEF GoldStep
<1>2. NoGoldMade <=> [][GoldStep]_vars
  BY DEF NoGoldMade, GoldStep
<1> QED BY <1>1, <1>2, WealthIs, Invariant, PTL DEF Spec

\* What the drafts send to p for the auction of i.
Sent(drafts, i, p) ==
  [k \in DOMAIN drafts |->
     IF drafts[k].receiver = p /\ drafts[k].subject = i THEN drafts[k].money ELSE 0]

LEMMA SentType ==
  ASSUME NEW drafts, \A k \in DOMAIN drafts : drafts[k] \in Letters, NEW i, NEW p
  PROVE  \A k \in DOMAIN drafts : Sent(drafts, i, p)[k] \in Int
<1>1. \A k \in DOMAIN drafts : drafts[k].money \in Int
  BY LetterFacts
<1> QED BY <1>1 DEF Sent

LEMMA MailedIs ==
  ASSUME MailInv, NEW drafts, \A k \in DOMAIN drafts : drafts[k] \in Letters, SendMailTo(drafts),
         NEW i, NEW p
  PROVE  /\ IsFiniteSet(DOMAIN drafts)
         /\ Mailed(i, p) = Total(Sent(drafts, i, p), DOMAIN drafts)
<1>1. PICK f \in IdsFor(drafts) : dbMail' = Inserted(dbMail, drafts, f)
  BY DEF SendMailTo
<1> DEFINE D == DOMAIN drafts
           rows == dbMail'
           new == {m \in MailIds : dbMail[m] = NoMail /\ rows[m] # NoMail}
           his == {m \in new : rows[m].receiver = p /\ rows[m].subject = i}
           none == [m \in MailIds |-> 0]
           gold == [m \in MailIds |-> IF m \in his THEN GoldIn(rows)[m] ELSE 0]
<1>2. Mailed(i, p) = GoldSum(rows, his)
  BY Zenon DEF Mailed, GoldSum
<1>3. his \in SUBSET MailIds
  OBVIOUS
<1>4. f \in Injection(D, MailIds)
  BY DEF IdsFor, Injection, IsInjective, FreeIds
<1>5. ASSUME NEW k \in D
      PROVE  /\ f[k] \in MailIds /\ dbMail[f[k]] = NoMail /\ rows[f[k]] = drafts[k]
             /\ rows[f[k]] # NoMail
  <2>1. f[k] \in FreeIds /\ f[k] \in Range(f) /\ DraftAt(drafts, f, f[k]) = drafts[k]
    BY DraftIds
  <2>2. f[k] \in MailIds /\ dbMail[f[k]] = NoMail
    BY <2>1 DEF FreeIds
  <2>3. drafts[k] \in Letters /\ drafts[k] # NoMail
    BY NoMailAssumption DEF Letters
  <2> QED BY <1>1, <2>1, <2>2, <2>3 DEF Inserted
<1>6. ASSUME NEW m \in MailIds, \A k \in D : f[k] # m PROVE rows[m] = dbMail[m]
  <2>1. m \notin Range(f)
    BY <1>6, DraftIds
  <2> QED BY <1>1, <2>1 DEF Inserted
<1>7. Inserts(MailIds, D, f, none, gold, Sent(drafts, i, p))
  <2>1. ASSUME NEW k \in D
        PROVE  /\ Sent(drafts, i, p)[k] \in Int /\ none[f[k]] = 0
               /\ gold[f[k]] = Sent(drafts, i, p)[k]
    <3>1. /\ f[k] \in MailIds /\ dbMail[f[k]] = NoMail /\ rows[f[k]] = drafts[k]
          /\ rows[f[k]] # NoMail
      BY <1>5
    <3>2. GoldIn(rows)[f[k]] = drafts[k].money
      BY <3>1 DEF GoldIn
    <3>3. f[k] \in his <=> drafts[k].receiver = p /\ drafts[k].subject = i
      BY <3>1
    <3>4. Sent(drafts, i, p)[k] = IF drafts[k].receiver = p /\ drafts[k].subject = i
                                  THEN drafts[k].money ELSE 0
      BY DEF Sent
    <3> HIDE DEF his, rows
    <3> QED BY <3>1, <3>2, <3>3, <3>4, SentType
  <2>2. ASSUME NEW m \in MailIds, \A k \in D : f[k] # m PROVE gold[m] = none[m]
    BY <1>6, <2>2
  <2>3. \A m \in MailIds : none[m] \in Int
    OBVIOUS
  <2> HIDE DEF gold, none, D
  <2> QED BY <1>4, <2>1, <2>2, <2>3 DEF Inserts
<1>8. \A m \in MailIds : none[m] = 0
  OBVIOUS
<1>9. \A m \in MailIds : gold[m] = IF m \in his THEN GoldIn(rows)[m] ELSE 0
  OBVIOUS
<1>10. \A m \in his : GoldIn(rows)[m] \in Int
  <2>1. ASSUME NEW m \in his PROVE GoldIn(rows)[m] \in Int
    <3>1. \E k \in D : f[k] = m
      BY <1>6
    <3>2. rows[m] \in Letters
      BY <1>5, <3>1
    <3>3. rows[m].money \in Int
      BY <3>2, LetterFacts
    <3> QED BY <3>3 DEF GoldIn
  <2> QED BY <2>1
<1> HIDE DEF gold, none, D, rows, his
<1>11. IsFiniteSet(D) /\ Total(gold, MailIds) = Total(none, MailIds) + Total(Sent(drafts, i, p), D)
  BY <1>7, Finite, TotalInsert
<1>12. Total(none, MailIds) = 0
  BY <1>8, Finite, TotalZero
<1>13. Total(gold, MailIds) = Total(GoldIn(rows), his)
  <2>1. Within(MailIds, his, GoldIn(rows), gold)
    BY <1>3, <1>9, <1>10 DEF Within
  <2> QED BY <2>1, Finite, TotalPart
<1>14. Total(Sent(drafts, i, p), D) \in Int
  <2>1. \A k \in D : Sent(drafts, i, p)[k] \in Int
    BY SentType DEF D
  <2> QED BY <1>11, <2>1, TotalType
<1>15. Mailed(i, p) = Total(GoldIn(rows), his)
  BY <1>2, <1>3, GoldSumIs
<1>16. Mailed(i, p) = Total(Sent(drafts, i, p), D)
  BY <1>11, <1>12, <1>13, <1>14, <1>15
<1> QED BY <1>11, <1>16 DEF D

\* At most one of the mails brings p gold for i.
Brings(mail, i, p) == mail.receiver = p /\ mail.subject = i /\ mail.money # 0

LEMMA MailedOnly ==
  ASSUME MailInv, NEW drafts, \A k \in DOMAIN drafts : drafts[k] \in Letters, SendMailTo(drafts),
         NEW i, NEW p, NEW n \in DOMAIN drafts, drafts[n].receiver = p, drafts[n].subject = i,
         \A k \in DOMAIN drafts \ {n} : ~Brings(drafts[k], i, p)
  PROVE  Mailed(i, p) = drafts[n].money
<1> DEFINE sent == Sent(drafts, i, p)
           D == DOMAIN drafts
<1>1. IsFiniteSet(D) /\ Mailed(i, p) = Total(sent, D)
  BY MailedIs
<1>2. sent[n] = drafts[n].money /\ sent[n] \in Int
  BY SentType DEF Sent
<1>3. \A k \in D \ {n} : sent[k] = 0
  BY DEF Sent, Brings
<1>4. n \in D
  OBVIOUS
<1> HIDE DEF sent, D
<1>5. Total(sent, D) = sent[n]
  BY <1>1, <1>2, <1>3, <1>4, TotalOnly
<1> QED BY <1>1, <1>2, <1>5

LEMMA MailedNone ==
  ASSUME MailInv, NEW drafts, \A k \in DOMAIN drafts : drafts[k] \in Letters, SendMailTo(drafts),
         NEW i, NEW p, \A k \in DOMAIN drafts : ~Brings(drafts[k], i, p)
  PROVE  Mailed(i, p) = 0
<1> DEFINE sent == Sent(drafts, i, p)
           D == DOMAIN drafts
<1>1. IsFiniteSet(D) /\ Mailed(i, p) = Total(sent, D)
  BY MailedIs
<1>2. \A k \in D : sent[k] = 0
  BY DEF Sent, Brings
<1> HIDE DEF sent, D
<1>3. Total(sent, D) = 0
  BY <1>1, <1>2, TotalZero
<1> QED BY <1>1, <1>3

LEMMA MailedType ==
  ASSUME MailInv, NEW drafts, \A k \in DOMAIN drafts : drafts[k] \in Letters, SendMailTo(drafts),
         NEW i, NEW p
  PROVE  Mailed(i, p) \in Int
<1>1. IsFiniteSet(DOMAIN drafts) /\ Mailed(i, p) = Total(Sent(drafts, i, p), DOMAIN drafts)
  BY MailedIs
<1> QED BY <1>1, SentType, TotalType

\* Every draft arrives.
LEMMA Arrives ==
  ASSUME NEW drafts, \A k \in DOMAIN drafts : drafts[k] \in Letters, SendMailTo(drafts),
         NEW n \in DOMAIN drafts
  PROVE  \E m \in MailIds : dbMail'[m] = drafts[n] /\ dbMail'[m] # NoMail
<1>1. PICK f \in IdsFor(drafts) : dbMail' = Inserted(dbMail, drafts, f)
  BY DEF SendMailTo
<1>2. f[n] \in FreeIds /\ f[n] \in Range(f) /\ DraftAt(drafts, f, f[n]) = drafts[n]
  BY DraftIds
<1>3. f[n] \in MailIds
  BY <1>2 DEF FreeIds
<1>4. dbMail'[f[n]] = drafts[n]
  BY <1>1, <1>2, <1>3 DEF Inserted
<1>5. drafts[n] # NoMail
  BY NoMailAssumption DEF Letters
<1> QED BY <1>3, <1>4, <1>5

-----------------------------------------------------------------------------
(* What has been paid for what is in an auction.                           *)

Share(a, p) == IF p = a.owner THEN Deposit ELSE IF p = a.bidder THEN a.bid ELSE 0

Fair(a) ==
  /\ a.owner # a.bidder
  /\ IF a.bidder = NoPlayer THEN a.bid = 0 ELSE a.bid >= a.startbid

SaleInv ==
  /\ paid \in [Items -> [Players -> Int]]
  /\ \A i \in Items : auction[i] # NoAuction =>
       Fair(auction[i]) /\ \A p \in Players : paid[i][p] = Share(auction[i], p)

\* What a step of the house books.
LEMMA BookedIs ==
  ASSUME MailInv, MailInv', paid \in [Items -> [Players -> Int]],
         NEW drafts, \A k \in DOMAIN drafts : drafts[k] \in Letters, SendMailTo(drafts),
         NEW those, paid' = Booked(those)
  PROVE  /\ paid' \in [Items -> [Players -> Int]]
         /\ \A i \in Items \ those : paid'[i] = paid[i]
         /\ \A i \in Items \cap those, p \in Players :
              paid'[i][p] = paid[i][p] + money[p] - money'[p] - Mailed(i, p)
<1>1. \A i \in Items, p \in Players :
        paid[i][p] + money[p] - money'[p] - Mailed(i, p) \in Int
  <2>1. \A p \in Players : money[p] \in Int /\ money'[p] \in Int
    BY DEF MailInv, OwnTypeOK
  <2>2. \A i \in Items, p \in Players : paid[i][p] \in Int /\ Mailed(i, p) \in Int
    BY MailedType
  <2> QED BY <2>1, <2>2
<1>2. paid' = [i \in Items |->
                 IF i \in those
                   THEN [p \in Players |-> paid[i][p] + money[p] - money'[p] - Mailed(i, p)]
                   ELSE paid[i]]
  BY DEF Booked
<1> QED BY <1>1, <1>2

\* To whom the mails of the house go, for what, and with how much.
LEMMA HouseTells ==
  ASSUME NEW i \in Items, NEW a \in Auctions
  PROVE  /\ Refund(i, a).receiver = a.bidder /\ Refund(i, a).subject = i
         /\ Profit(i, a).receiver = a.owner /\ Profit(i, a).subject = i
         /\ Won(i, a).receiver = a.bidder /\ Won(i, a).subject = i
         /\ ItemBack(i, a).receiver = a.owner /\ ItemBack(i, a).subject = i
BY DEF Refund, Won, ItemBack, Profit, AuctionMail

LEMMA SellItemSale ==
  ASSUME Inv, SaleInv, NEW p \in Players, NEW i \in Items, NEW startbid \in Prices,
         NEW buyout \in Prices \cup {0}, SellItem(p, i, startbid, buyout)
  PROVE  SaleInv'
<1> DEFINE a == [owner |-> p, startbid |-> startbid, buyout |-> buyout,
                 bid |-> 0, bidder |-> NoPlayer]
<1>1. /\ auction' = [auction EXCEPT ![i] = a] /\ money' = [money EXCEPT ![p] = @ - Deposit]
      /\ paid' = [paid EXCEPT ![i] = [q \in Players |-> money[q] - money'[q]]]
  BY DEF SellItem
<1>2. a.owner = p /\ a.bidder = NoPlayer /\ a.bid = 0
  OBVIOUS
<1> HIDE DEF a
<1>3. p # NoPlayer /\ Deposit \in Nat
  BY MailAssumption, AuctionAssumption
<1>4. \A q \in Players : /\ money[q] \in Int /\ money'[q] \in Int
                         /\ money[q] - money'[q] = IF q = p THEN Deposit ELSE 0
  <2>1. \A q \in Players : money[q] \in Int
    BY DEF Inv, MailInv, OwnTypeOK
  <2>2. \A q \in Players : money'[q] = IF q = p THEN money[q] - Deposit ELSE money[q]
    BY <1>1 DEF Inv, MailInv, OwnTypeOK
  <2> QED BY <1>3, <2>1, <2>2
<1>5. /\ auction'[i] = a /\ \A j \in Items \ {i} : auction'[j] = auction[j]
      /\ \A q \in Players : paid'[i][q] = IF q = p THEN Deposit ELSE 0
      /\ \A j \in Items \ {i} : paid'[j] = paid[j]
      /\ paid' \in [Items -> [Players -> Int]]
  <2>1. auction'[i] = a /\ \A j \in Items \ {i} : auction'[j] = auction[j]
    BY <1>1 DEF Inv, AuctionInv
  <2>2. paid'[i] = [q \in Players |-> money[q] - money'[q]]
        /\ \A j \in Items \ {i} : paid'[j] = paid[j]
    BY <1>1 DEF SaleInv
  <2>3. paid' \in [Items -> [Players -> Int]]
    BY <1>1, <1>4 DEF SaleInv
  <2> QED BY <1>4, <2>1, <2>2, <2>3
<1>6. Fair(a) /\ \A q \in Players : Share(a, q) = IF q = p THEN Deposit ELSE 0
  BY <1>2, <1>3 DEF Fair, Share
<1>7. ASSUME NEW j \in Items, auction'[j] # NoAuction
      PROVE  Fair(auction'[j]) /\ \A q \in Players : paid'[j][q] = Share(auction'[j], q)
  <2>1. CASE j = i
    BY <1>5, <1>6, <2>1
  <2>2. CASE j # i
    <3>1. auction'[j] = auction[j] /\ paid'[j] = paid[j]
      BY <1>5, <2>2
    <3> QED BY <1>7, <3>1 DEF SaleInv
  <2> QED BY <2>1, <2>2
<1> QED BY <1>5, <1>7 DEF SaleInv

LEMMA PlaceBidSale ==
  ASSUME Inv, Inv', SaleInv, NEW p \in Players, NEW i \in Items, NEW price \in Prices,
         PlaceBid(p, i, price)
  PROVE  SaleInv'
<1> DEFINE a == auction[i]
           drafts == IF Outbid(p, a) THEN <<Refund(i, a)>> ELSE << >>
           due == Owed(p, a, price)
<1>0. MailInv /\ MailInv' /\ AuctionInv /\ price \in Nat /\ p # NoPlayer
  BY AuctionAssumption, MailAssumption DEF Inv
<1>1. /\ a \in Auctions /\ a # NoAuction /\ a.owner # p /\ price >= a.startbid
      /\ Fair(a) /\ \A q \in Players : paid[i][q] = Share(a, q)
  BY <1>0 DEF PlaceBid, MayBid, AuctionInv, SaleInv
<1>2. a.bid \in Nat /\ due \in Int /\ Deposit \in Int
  BY <1>0, <1>1, BidTypes, AuctionAssumption DEF Owed
<1>3. /\ money' = [money EXCEPT ![p] = @ - due] /\ SendMailTo(drafts)
      /\ auction' = [auction EXCEPT ![i].bidder = p, ![i].bid = price]
      /\ paid' = Booked({i})
  BY DEF PlaceBid
<1>4. /\ Outbid(p, a) => /\ drafts = <<Refund(i, a)>> /\ Refund(i, a) \in Letters
                         /\ Refund(i, a).receiver = a.bidder /\ Refund(i, a).subject = i
                         /\ Refund(i, a).money = a.bid
      /\ ~Outbid(p, a) => drafts = << >>
  <2>1. Outbid(p, a) => Refund(i, a) \in Letters
    BY <1>1, HouseMails DEF Outbid
  <2> QED BY <1>1, <2>1, HouseTells, HouseGold
<1> HIDE DEF drafts
<1>5. \A k \in DOMAIN drafts : drafts[k] \in Letters
  <2>1. CASE Outbid(p, a)
    BY <1>4, <2>1
  <2>2. CASE ~Outbid(p, a)
    BY <1>4, <2>2
  <2> QED BY <2>1, <2>2
<1>6. ASSUME NEW q \in Players
      PROVE  Mailed(i, q) = IF Outbid(p, a) /\ q = a.bidder THEN a.bid ELSE 0
  <2>1. CASE Outbid(p, a) /\ q = a.bidder
    <3>1. 1 \in DOMAIN drafts /\ drafts[1] = Refund(i, a) /\ DOMAIN drafts \ {1} = {}
      BY <1>4, <2>1
    <3>2. drafts[1].receiver = q /\ drafts[1].subject = i /\ drafts[1].money = a.bid
      BY <1>4, <2>1, <3>1
    <3>3. \A k \in DOMAIN drafts \ {1} : ~Brings(drafts[k], i, q)
      BY <3>1
    <3>4. Mailed(i, q) = drafts[1].money
      BY <1>0, <1>3, <1>5, <3>1, <3>2, <3>3, MailedOnly
    <3> QED BY <2>1, <3>2, <3>4
  <2>2. CASE ~(Outbid(p, a) /\ q = a.bidder)
    <3>1. CASE Outbid(p, a)
      <4>1. \A k \in DOMAIN drafts : drafts[k] = Refund(i, a)
        BY <1>4, <3>1
      <4>2. \A k \in DOMAIN drafts : ~Brings(drafts[k], i, q)
        BY <1>4, <2>2, <3>1, <4>1 DEF Brings
      <4> QED BY <1>0, <1>3, <1>5, <2>2, <4>2, MailedNone
    <3>2. CASE ~Outbid(p, a)
      <4>1. \A k \in DOMAIN drafts : ~Brings(drafts[k], i, q)
        BY <1>4, <3>2
      <4> QED BY <1>0, <1>3, <1>5, <2>2, <4>1, MailedNone
    <3> QED BY <3>1, <3>2
  <2> QED BY <2>1, <2>2
<1>7. /\ paid' \in [Items -> [Players -> Int]]
      /\ \A j \in Items \ {i} : paid'[j] = paid[j]
      /\ \A q \in Players : paid'[i][q] = paid[i][q] + money[q] - money'[q] - Mailed(i, q)
  <2>1. paid \in [Items -> [Players -> Int]]
    BY DEF SaleInv
  <2>2. /\ paid' \in [Items -> [Players -> Int]]
        /\ \A j \in Items \ {i} : paid'[j] = paid[j]
        /\ \A j \in Items \cap {i}, q \in Players :
             paid'[j][q] = paid[j][q] + money[q] - money'[q] - Mailed(j, q)
    BY <1>0, <1>3, <1>5, <2>1, BookedIs
  <2> QED BY <2>2
<1>8. \A q \in Players : /\ money[q] \in Int
                         /\ money'[q] = IF q = p THEN money[q] - due ELSE money[q]
  BY <1>0, <1>3 DEF MailInv, OwnTypeOK
<1>9. /\ \A j \in Items \ {i} : auction'[j] = auction[j]
      /\ auction'[i].owner = a.owner /\ auction'[i].bidder = p /\ auction'[i].bid = price
      /\ auction'[i].startbid = a.startbid
  <2>1. /\ auction'[i] = [a EXCEPT !.bidder = p, !.bid = price]
        /\ \A j \in Items \ {i} : auction'[j] = auction[j]
    BY <1>0, <1>3 DEF AuctionInv
  <2> QED BY <1>1, <2>1 DEF Auctions
<1>10. due = IF a.bidder = p THEN price - a.bid ELSE price
  BY DEF Owed
<1>11. Outbid(p, a) <=> a.bidder # NoPlayer /\ a.bidder # p
  BY DEF Outbid
<1> HIDE DEF due
<1>12. ASSUME NEW q \in Players
       PROVE  paid'[i][q] = Share(auction'[i], q)
  <2>1. paid'[i][q] = Share(a, q) + money[q] - money'[q] - Mailed(i, q)
    BY <1>1, <1>7
  <2>2. Share(auction'[i], q) = IF q = a.owner THEN Deposit ELSE IF q = p THEN price ELSE 0
    BY <1>9 DEF Share
  <2>3. Share(a, q) = IF q = a.owner THEN Deposit ELSE IF q = a.bidder THEN a.bid ELSE 0
    BY DEF Share
  <2>4. a.owner # a.bidder /\ a.owner # p /\ q # NoPlayer
    BY <1>1, MailAssumption DEF Fair
  <2>5. money[q] \in Int /\ (money'[q] = IF q = p THEN money[q] - due ELSE money[q])
        /\ Mailed(i, q) = IF Outbid(p, a) /\ q = a.bidder THEN a.bid ELSE 0
    BY <1>6, <1>8
  <2> HIDE DEF a
  <2>6. CASE q = a.owner
    <3>1. Share(a, q) = Deposit /\ money'[q] = money[q] /\ Mailed(i, q) = 0
      BY <2>3, <2>4, <2>5, <2>6
    <3> QED BY <1>2, <2>1, <2>2, <2>5, <2>6, <3>1
  <2>7. CASE q = p
    <3>1. money'[q] = money[q] - due /\ Mailed(i, q) = 0
      BY <1>11, <2>5, <2>7
    <3>2. Share(a, q) = IF a.bidder = p THEN a.bid ELSE 0
      BY <2>3, <2>4, <2>7
    <3>3. Share(auction'[i], q) = price
      BY <2>2, <2>4, <2>7
    <3> QED BY <1>0, <1>2, <1>10, <2>1, <2>5, <3>1, <3>2, <3>3
  <2>8. CASE q # a.owner /\ q # p
    <3>1. money'[q] = money[q] /\ Share(auction'[i], q) = 0 /\ Mailed(i, q) = Share(a, q)
      BY <1>11, <2>2, <2>3, <2>4, <2>5, <2>8
    <3>2. Share(a, q) \in Int
      BY <1>2, <2>3
    <3> QED BY <2>1, <2>5, <3>1, <3>2
  <2> QED BY <2>6, <2>7, <2>8
<1>13. Fair(auction'[i])
  BY <1>0, <1>1, <1>9 DEF Fair
<1> QED BY <1>7, <1>9, <1>12, <1>13 DEF SaleInv

\* What the end of the auction of i must leave.
Settled(i) ==
  \E m \in MailIds :
    LET a == auction[i]
        w == dbMail'[m].receiver
    IN  /\ dbMail'[m] # NoMail /\ i \in dbMail'[m].items
        /\ \A p \in Players \ {a.owner, w} : paid'[i][p] = 0
        /\ \/ w = a.owner /\ paid'[i][w] >= Deposit
           \/ /\ w # a.owner
              /\ paid'[i][w] >= a.bid
              /\ paid'[i][w] >= a.startbid \/ paid'[i][w] = a.buyout
              /\ paid'[i][a.owner] = Cut(paid'[i][w]) - paid'[i][w]

\* An auction that has ended, with what was booked for it.
LEMMA EndSettles ==
  ASSUME Inv, SaleInv, NEW i \in Items, auction[i] # NoAuction,
         NEW m \in MailIds, NEW w \in Players, dbMail'[m] # NoMail, i \in dbMail'[m].items,
         dbMail'[m].receiver = w,
         \A p \in Players \ {auction[i].owner, w} : paid'[i][p] = 0,
         \/ w = auction[i].owner /\ paid'[i][w] >= Deposit
         \/ /\ w # auction[i].owner
            /\ paid'[i][w] >= auction[i].bid
            /\ paid'[i][w] >= auction[i].startbid \/ paid'[i][w] = auction[i].buyout
            /\ paid'[i][auction[i].owner] = Cut(paid'[i][w]) - paid'[i][w]
  PROVE  Settled(i)
BY DEF Settled

LEMMA EndKeepsSale ==
  ASSUME SaleInv, NEW those, paid' \in [Items -> [Players -> Int]],
         \A j \in Items \ those : paid'[j] = paid[j] /\ auction'[j] = auction[j],
         \A j \in Items \cap those : auction'[j] = NoAuction
  PROVE  SaleInv'
BY DEF SaleInv

LEMMA BuyoutSale ==
  ASSUME Inv, Inv', SaleInv, NEW p \in Players, NEW i \in Items, NEW price \in Prices,
         Buyout(p, i, price)
  PROVE  SaleInv' /\ \A j \in Items : auction[j] # NoAuction /\ auction'[j] = NoAuction => Settled(j)
<1> DEFINE a == auction[i]
           sold == [a EXCEPT !.bidder = p, !.bid = a.buyout]
           refund == Refund(i, a)
           profit == Profit(i, sold)
           won == Won(i, sold)
           drafts == IF Outbid(p, a) THEN <<refund, profit, won>> ELSE <<profit, won>>
           due == Owed(p, a, a.buyout)
           gain == a.buyout + Deposit - Cut(a.buyout)
<1>0. MailInv /\ MailInv' /\ AuctionInv /\ p # NoPlayer
  BY MailAssumption DEF Inv
<1>1. /\ a \in Auctions /\ a # NoAuction /\ a.owner # p /\ a.owner \in Players
      /\ a.buyout # 0 /\ Priced(a)
      /\ Fair(a) /\ \A q \in Players : paid[i][q] = Share(a, q)
  BY <1>0 DEF Buyout, MayBid, IsBuyout, AuctionInv, SaleInv, Auctions
<1>2. a.bid \in Nat /\ a.buyout \in Nat /\ due \in Int /\ Deposit \in Nat /\ a.bid < a.buyout
  BY <1>1, BidTypes, AuctionAssumption DEF Owed, Priced
<1>3. sold \in Auctions /\ sold.bidder = p /\ sold.bid = a.buyout /\ sold.owner = a.owner
  BY <1>1 DEF Auctions
<1>4. /\ money' = [money EXCEPT ![p] = @ - due] /\ SendMailTo(drafts)
      /\ auction' = [auction EXCEPT ![i] = NoAuction]
      /\ paid' = Booked({i})
  BY DEF Buyout
<1> HIDE DEF sold
<1>5. /\ profit \in Letters /\ profit.money = gain /\ profit.receiver = a.owner /\ profit.subject = i
      /\ won \in Letters /\ won.money = 0 /\ won.receiver = p /\ won.items = {i}
  BY <1>0, <1>3, HouseMails, HouseGold, HouseTells
<1>6. Outbid(p, a) => /\ refund \in Letters /\ refund.money = a.bid
                      /\ refund.receiver = a.bidder /\ refund.subject = i
  BY <1>1, HouseMails, HouseGold, HouseTells DEF Outbid
<1>7. Cut(a.buyout) \in Int /\ gain \in Int
  BY <1>2, CutBound
<1>8. Outbid(p, a) <=> a.bidder # NoPlayer /\ a.bidder # p
  BY DEF Outbid
<1>9. due = IF a.bidder = p THEN a.buyout - a.bid ELSE a.buyout
  BY DEF Owed
<1> HIDE DEF refund, profit, won
<1>10. /\ \A k \in DOMAIN drafts : drafts[k] \in Letters
       /\ \E n \in DOMAIN drafts : drafts[n] = won
       /\ Mailed(i, a.owner) = gain
       /\ Outbid(p, a) => Mailed(i, a.bidder) = a.bid
       /\ \A q \in Players : q # a.owner /\ ~(Outbid(p, a) /\ q = a.bidder) => Mailed(i, q) = 0
  <2>0. a.owner # a.bidder
    BY <1>1 DEF Fair
  <2>1. CASE Outbid(p, a)
    <3>1. drafts = <<refund, profit, won>>
      BY <2>1
    <3> HIDE DEF drafts, gain, a
    <3>2. /\ DOMAIN drafts = {1, 2, 3}
          /\ drafts[1] = refund /\ drafts[2] = profit /\ drafts[3] = won
      BY <3>1
    <3>3. \A k \in DOMAIN drafts : drafts[k] \in Letters
      BY <1>5, <1>6, <2>1, <3>2
    <3>4. \A q : ~Brings(won, i, q) /\ (q # a.bidder => ~Brings(refund, i, q))
                 /\ (q # a.owner => ~Brings(profit, i, q))
      BY <1>5, <1>6, <2>1 DEF Brings
    <3>5. Mailed(i, a.owner) = gain
      <4>1. 2 \in DOMAIN drafts /\ drafts[2].receiver = a.owner /\ drafts[2].subject = i
            /\ drafts[2].money = gain /\ \A k \in DOMAIN drafts \ {2} : ~Brings(drafts[k], i, a.owner)
        BY <1>5, <2>0, <3>2, <3>4
      <4> QED BY <1>0, <1>4, <3>3, <4>1, MailedOnly
    <3>6. Mailed(i, a.bidder) = a.bid
      <4>1. 1 \in DOMAIN drafts /\ drafts[1].receiver = a.bidder /\ drafts[1].subject = i
            /\ drafts[1].money = a.bid
            /\ \A k \in DOMAIN drafts \ {1} : ~Brings(drafts[k], i, a.bidder)
        BY <1>6, <2>0, <2>1, <3>2, <3>4
      <4> QED BY <1>0, <1>4, <3>3, <4>1, MailedOnly
    <3>7. ASSUME NEW q \in Players, q # a.owner, q # a.bidder PROVE Mailed(i, q) = 0
      <4>1. \A k \in DOMAIN drafts : ~Brings(drafts[k], i, q)
        BY <3>2, <3>4, <3>7
      <4> QED BY <1>0, <1>4, <3>3, <4>1, MailedNone
    <3> QED BY <2>1, <3>2, <3>3, <3>5, <3>6, <3>7
  <2>2. CASE ~Outbid(p, a)
    <3>1. drafts = <<profit, won>>
      BY <2>2
    <3> HIDE DEF drafts, gain, a
    <3>2. DOMAIN drafts = {1, 2} /\ drafts[1] = profit /\ drafts[2] = won
      BY <3>1
    <3>3. \A k \in DOMAIN drafts : drafts[k] \in Letters
      BY <1>5, <3>2
    <3>4. \A q : ~Brings(won, i, q) /\ (q # a.owner => ~Brings(profit, i, q))
      BY <1>5 DEF Brings
    <3>5. Mailed(i, a.owner) = gain
      <4>1. 1 \in DOMAIN drafts /\ drafts[1].receiver = a.owner /\ drafts[1].subject = i
            /\ drafts[1].money = gain /\ \A k \in DOMAIN drafts \ {1} : ~Brings(drafts[k], i, a.owner)
        BY <1>5, <3>2, <3>4
      <4> QED BY <1>0, <1>4, <3>3, <4>1, MailedOnly
    <3>6. ASSUME NEW q \in Players, q # a.owner PROVE Mailed(i, q) = 0
      <4>1. \A k \in DOMAIN drafts : ~Brings(drafts[k], i, q)
        BY <3>2, <3>4, <3>6
      <4> QED BY <1>0, <1>4, <3>3, <4>1, MailedNone
    <3> QED BY <2>2, <3>2, <3>3, <3>5, <3>6
  <2> QED BY <2>1, <2>2
<1> HIDE DEF drafts, due
<1>11. /\ paid' \in [Items -> [Players -> Int]]
       /\ \A j \in Items \ {i} : paid'[j] = paid[j]
       /\ \A q \in Players : paid'[i][q] = paid[i][q] + money[q] - money'[q] - Mailed(i, q)
  <2>1. paid \in [Items -> [Players -> Int]]
    BY DEF SaleInv
  <2>2. /\ paid' \in [Items -> [Players -> Int]]
        /\ \A j \in Items \ {i} : paid'[j] = paid[j]
        /\ \A j \in Items \cap {i}, q \in Players :
             paid'[j][q] = paid[j][q] + money[q] - money'[q] - Mailed(j, q)
    BY <1>0, <1>4, <1>10, <2>1, BookedIs
  <2> QED BY <2>2
<1>12. \A q \in Players : /\ money[q] \in Int
                          /\ money'[q] = IF q = p THEN money[q] - due ELSE money[q]
  BY <1>0, <1>4 DEF MailInv, OwnTypeOK
<1>13. auction'[i] = NoAuction /\ \A j \in Items \ {i} : auction'[j] = auction[j]
  BY <1>0, <1>4 DEF AuctionInv
<1>14. \A q \in Players : paid'[i][q] = Share(a, q) + (money[q] - money'[q]) - Mailed(i, q)
  <2>1. \A q \in Players : paid[i][q] \in Int /\ money[q] \in Int /\ money'[q] \in Int /\ Mailed(i, q) \in Int
    BY <1>0, <1>4, <1>10, MailedType DEF SaleInv, MailInv, OwnTypeOK
  <2>2. \A x, y, z, t \in Int : x + y - z - t = x + (y - z) - t
    OBVIOUS
  <2> QED BY <1>1, <1>11, <2>1, <2>2
<1>15. /\ Share(a, a.owner) = Deposit
       /\ \A q : q # a.owner => Share(a, q) = IF q = a.bidder THEN a.bid ELSE 0
  BY DEF Share
<1>16. \A q \in Players : money[q] - money'[q] = IF q = p THEN due ELSE 0
  BY <1>2, <1>12
<1>17. a.owner # a.bidder
  BY <1>1 DEF Fair
<1> DEFINE o == a.owner
           b == a.bidder
           x == a.bid
           y == a.buyout
           c == Cut(a.buyout)
<1>18. paid'[i][a.owner] = c - y
  <2>1. money[a.owner] - money'[a.owner] = 0
    BY <1>1, <1>16
  <2>2. paid'[i][a.owner] = Deposit + 0 - gain
    BY <1>1, <1>10, <1>14, <1>15, <2>1
  <2>3. gain = y + Deposit - c
    OBVIOUS
  <2> HIDE DEF gain, c, y
  <2> QED BY <1>2, <1>7, <2>2, <2>3 DEF c, y
<1>19. paid'[i][p] = y
  <2>1. money[p] - money'[p] = due /\ Mailed(i, p) = 0
    BY <1>1, <1>8, <1>10, <1>16
  <2>2. paid'[i][p] = (IF p = a.bidder THEN a.bid ELSE 0) + due - 0
    BY <1>1, <1>14, <1>15, <2>1
  <2> HIDE DEF a
  <2> QED BY <1>2, <1>9, <2>2
<1>20. ASSUME NEW q \in Players \ {a.owner, p} PROVE paid'[i][q] = 0
  <2>1. money[q] - money'[q] = 0 /\ Share(a, q) = IF q = a.bidder THEN a.bid ELSE 0
    BY <1>15, <1>16
  <2>2. Mailed(i, q) = IF q = a.bidder THEN a.bid ELSE 0
    BY <1>0, <1>8, <1>10, MailAssumption
  <2>3. paid'[i][q] = Share(a, q) + 0 - Mailed(i, q)
    BY <1>14, <2>1
  <2> HIDE DEF a
  <2> QED BY <1>2, <2>1, <2>2, <2>3
<1>21. PICK m \in MailIds : dbMail'[m] = won /\ dbMail'[m] # NoMail
  BY <1>4, <1>10, Arrives
<1>22. Settled(i)
  <2>1. i \in dbMail'[m].items /\ dbMail'[m].receiver = p /\ p # a.owner
    BY <1>1, <1>5, <1>21
  <2>2. paid'[i][p] >= a.bid /\ paid'[i][p] = a.buyout
        /\ paid'[i][a.owner] = Cut(paid'[i][p]) - paid'[i][p]
    BY <1>2, <1>18, <1>19
  <2> QED BY <1>1, <1>20, <1>21, <2>1, <2>2, EndSettles
<1>23. SaleInv'
  <2>1. /\ \A j \in Items \ {i} : paid'[j] = paid[j] /\ auction'[j] = auction[j]
        /\ \A j \in Items \cap {i} : auction'[j] = NoAuction
    BY <1>11, <1>13
  <2> QED BY <1>11, <2>1, EndKeepsSale
<1> QED BY <1>13, <1>22, <1>23

LEMMA RemoveItemSale ==
  ASSUME Inv, Inv', SaleInv, NEW p \in Players, NEW i \in Items, RemoveItem(p, i)
  PROVE  SaleInv' /\ \A j \in Items : auction[j] # NoAuction /\ auction'[j] = NoAuction => Settled(j)
<1> DEFINE a == auction[i]
           fee == IF a.bidder = NoPlayer THEN 0 ELSE Cut(a.bid)
           refund == Refund(i, a)
           back == ItemBack(i, a)
           drafts == IF a.bidder = NoPlayer THEN <<back>> ELSE <<refund, back>>
<1>0. MailInv /\ MailInv' /\ AuctionInv
  BY DEF Inv
<1>1. /\ a \in Auctions /\ a # NoAuction /\ a.owner = p
      /\ Fair(a) /\ \A q \in Players : paid[i][q] = Share(a, q)
  BY <1>0 DEF RemoveItem, AuctionInv, SaleInv
<1>2. a.bid \in Nat /\ fee \in Nat /\ Deposit \in Nat
  <2>1. a.bid \in Nat
    BY <1>1, BidTypes
  <2>2. Cut(a.bid) \in Nat
    BY <2>1, CutBound
  <2> QED BY <2>1, <2>2, AuctionAssumption
<1>3. /\ money' = [money EXCEPT ![p] = @ - fee] /\ SendMailTo(drafts)
      /\ auction' = [auction EXCEPT ![i] = NoAuction]
      /\ paid' = Booked({i})
  BY DEF RemoveItem
<1>4. /\ back \in Letters /\ back.money = 0 /\ back.receiver = p /\ back.items = {i}
  BY <1>1, HouseMails, HouseGold, HouseTells
<1>5. a.bidder # NoPlayer => /\ refund \in Letters /\ refund.money = a.bid
                             /\ refund.receiver = a.bidder /\ refund.subject = i
  BY <1>1, HouseMails, HouseGold, HouseTells
<1> HIDE DEF fee, refund, back
<1>6. /\ \A k \in DOMAIN drafts : drafts[k] \in Letters
      /\ \E n \in DOMAIN drafts : drafts[n] = back
      /\ a.bidder # NoPlayer => Mailed(i, a.bidder) = a.bid
      /\ \A q \in Players : q # a.bidder => Mailed(i, q) = 0
  <2>1. CASE a.bidder # NoPlayer
    <3>1. drafts = <<refund, back>>
      BY <2>1
    <3> HIDE DEF drafts, a
    <3>2. DOMAIN drafts = {1, 2} /\ drafts[1] = refund /\ drafts[2] = back
      BY <3>1
    <3>3. \A k \in DOMAIN drafts : drafts[k] \in Letters
      BY <1>4, <1>5, <2>1, <3>2
    <3>4. \A q : ~Brings(back, i, q) /\ (q # a.bidder => ~Brings(refund, i, q))
      BY <1>4, <1>5, <2>1 DEF Brings
    <3>5. Mailed(i, a.bidder) = a.bid
      <4>1. 1 \in DOMAIN drafts /\ drafts[1].receiver = a.bidder /\ drafts[1].subject = i
            /\ drafts[1].money = a.bid
            /\ \A k \in DOMAIN drafts \ {1} : ~Brings(drafts[k], i, a.bidder)
        BY <1>5, <2>1, <3>2, <3>4
      <4> QED BY <1>0, <1>3, <3>3, <4>1, MailedOnly
    <3>6. ASSUME NEW q \in Players, q # a.bidder PROVE Mailed(i, q) = 0
      <4>1. \A k \in DOMAIN drafts : ~Brings(drafts[k], i, q)
        BY <3>2, <3>4, <3>6
      <4> QED BY <1>0, <1>3, <3>3, <4>1, MailedNone
    <3> QED BY <3>2, <3>3, <3>5, <3>6
  <2>2. CASE a.bidder = NoPlayer
    <3>1. drafts = <<back>>
      BY <2>2
    <3> HIDE DEF drafts, a
    <3>2. DOMAIN drafts = {1} /\ drafts[1] = back
      BY <3>1
    <3>3. \A k \in DOMAIN drafts : drafts[k] \in Letters
      BY <1>4, <3>2
    <3>4. \A q : ~Brings(back, i, q)
      BY <1>4 DEF Brings
    <3>5. ASSUME NEW q \in Players PROVE Mailed(i, q) = 0
      <4>1. \A k \in DOMAIN drafts : ~Brings(drafts[k], i, q)
        BY <3>2, <3>4
      <4> QED BY <1>0, <1>3, <3>3, <4>1, MailedNone
    <3> QED BY <2>2, <3>2, <3>3, <3>5
  <2> QED BY <2>1, <2>2
<1> HIDE DEF drafts
<1>7. /\ paid' \in [Items -> [Players -> Int]]
      /\ \A j \in Items \ {i} : paid'[j] = paid[j]
      /\ \A q \in Players : paid'[i][q] = paid[i][q] + money[q] - money'[q] - Mailed(i, q)
  <2>1. paid \in [Items -> [Players -> Int]]
    BY DEF SaleInv
  <2>2. /\ paid' \in [Items -> [Players -> Int]]
        /\ \A j \in Items \ {i} : paid'[j] = paid[j]
        /\ \A j \in Items \cap {i}, q \in Players :
             paid'[j][q] = paid[j][q] + money[q] - money'[q] - Mailed(j, q)
    BY <1>0, <1>3, <1>6, <2>1, BookedIs
  <2> QED BY <2>2
<1>8. \A q \in Players : /\ money[q] \in Int
                         /\ money'[q] = IF q = p THEN money[q] - fee ELSE money[q]
  BY <1>0, <1>3 DEF MailInv, OwnTypeOK
<1>9. auction'[i] = NoAuction /\ \A j \in Items \ {i} : auction'[j] = auction[j]
  BY <1>0, <1>3 DEF AuctionInv
<1>10. /\ Share(a, p) = Deposit /\ p # a.bidder
       /\ \A q : q # p => Share(a, q) = IF q = a.bidder THEN a.bid ELSE 0
  BY <1>1 DEF Share, Fair
<1> HIDE DEF a
<1>11. paid'[i][p] >= Deposit
  <2>1. paid'[i][p] = Deposit + money[p] - (money[p] - fee) - 0
    BY <1>1, <1>6, <1>7, <1>8, <1>10
  <2>2. money[p] \in Int
    BY <1>8
  <2> QED BY <1>2, <2>1, <2>2
<1>12. ASSUME NEW q \in Players \ {p} PROVE paid'[i][q] = 0
  <2>1. paid'[i][q] = Share(a, q) + money[q] - money[q] - Mailed(i, q)
    BY <1>1, <1>7, <1>8
  <2>2. Mailed(i, q) = Share(a, q) /\ Share(a, q) \in Int /\ money[q] \in Int
    BY <1>2, <1>6, <1>8, <1>10, MailAssumption
  <2> QED BY <2>1, <2>2
<1>13. PICK m \in MailIds : dbMail'[m] = back /\ dbMail'[m] # NoMail
  BY <1>3, <1>6, Arrives
<1>14. Settled(i)
  <2>1. i \in dbMail'[m].items /\ dbMail'[m].receiver = p
    BY <1>4, <1>13
  <2>2. auction[i] # NoAuction /\ auction[i].owner = p
    BY <1>1 DEF a
  <2> QED BY <1>11, <1>12, <1>13, <2>1, <2>2, EndSettles
<1>15. SaleInv'
  <2>1. /\ \A j \in Items \ {i} : paid'[j] = paid[j] /\ auction'[j] = auction[j]
        /\ \A j \in Items \cap {i} : auction'[j] = NoAuction
    BY <1>7, <1>9
  <2> QED BY <1>7, <2>1, EndKeepsSale
<1> QED BY <1>9, <1>14, <1>15

\* What auctions that end mail to q for one of them: to its owner the price less the
\* cut and his deposit, when there is a bid.
LEMMA EndedMailed ==
  ASSUME Inv, NEW due \in SUBSET OnSale, SendMailTo(Ended(due)), NEW i \in due, NEW q
  PROVE  Mailed(i, q) = IF i \in Sold(due) /\ q = auction[i].owner
                          THEN auction[i].bid + Deposit - Cut(auction[i].bid) ELSE 0
<1> DEFINE drafts == Ended(due)
           a == auction[i]
<1>0. MailInv /\ \A k \in DOMAIN drafts : drafts[k] \in Letters
  BY EndedLetters DEF Inv
<1>1. DOMAIN drafts = {"item"} \X due \cup {"profit"} \X Sold(due)
  BY DEF Ended
<1>2. \A j \in due : j \in Items /\ auction[j] \in Auctions
  BY DEF OnSale, Inv, AuctionInv
<1>3. ASSUME NEW k \in DOMAIN drafts, Brings(drafts[k], i, q)
      PROVE  k = <<"profit", i>> /\ i \in Sold(due) /\ q = a.owner
  <2> DEFINE j == k[2]
  <2>1. \/ k[1] = "profit" /\ j \in Sold(due) /\ k = <<"profit", j>> /\ j \in due
        \/ k[1] = "item" /\ j \in due
    BY <1>1 DEF Sold
  <2>2. drafts[k] = IF j \notin Sold(due) THEN ItemBack(j, auction[j])
                    ELSE IF k[1] = "item" THEN Won(j, auction[j]) ELSE Profit(j, auction[j])
    BY <1>1 DEF Ended
  <2>3. j \in Items /\ auction[j] \in Auctions
    BY <1>2, <2>1
  <2>4. ItemBack(j, auction[j]).money = 0 /\ Won(j, auction[j]).money = 0
    BY <2>3, HouseGold
  <2>5. Profit(j, auction[j]).receiver = auction[j].owner /\ Profit(j, auction[j]).subject = j
    BY <2>3, HouseTells
  <2> HIDE DEF drafts
  <2>6. drafts[k].money # 0 /\ drafts[k].receiver = q /\ drafts[k].subject = i
    BY <1>3 DEF Brings
  <2>7. k[1] # "item" /\ j \in Sold(due) /\ drafts[k] = Profit(j, auction[j])
    BY <2>1, <2>2, <2>4, <2>6
  <2>8. j = i
    BY <2>5, <2>6, <2>7
  <2> QED BY <2>1, <2>5, <2>6, <2>7, <2>8
<1>4. CASE i \in Sold(due) /\ q = a.owner
  <2> DEFINE n == <<"profit", i>>
  <2>1. n \in DOMAIN drafts /\ drafts[n] = Profit(i, a)
    BY <1>1, <1>4 DEF Ended
  <2>2. /\ drafts[n].receiver = q /\ drafts[n].subject = i
        /\ drafts[n].money = a.bid + Deposit - Cut(a.bid)
    BY <1>2, <1>4, <2>1, HouseGold, HouseTells
  <2> HIDE DEF drafts, a
  <2>3. \A k \in DOMAIN drafts \ {n} : ~Brings(drafts[k], i, q)
    BY <1>3
  <2>4. SendMailTo(drafts)
    BY DEF drafts
  <2> HIDE DEF n
  <2>5. Mailed(i, q) = drafts[n].money
    BY <1>0, <2>1, <2>2, <2>3, <2>4, MailedOnly
  <2> QED BY <1>4, <2>2, <2>5 DEF a
<1>5. CASE ~(i \in Sold(due) /\ q = a.owner)
  <2>1. \A k \in DOMAIN drafts : ~Brings(drafts[k], i, q)
    BY <1>3, <1>5
  <2> HIDE DEF drafts
  <2>4. SendMailTo(drafts)
    BY DEF drafts
  <2>5. Mailed(i, q) = 0
    BY <1>0, <2>1, <2>4, MailedNone
  <2> QED BY <1>5, <2>5
<1> QED BY <1>4, <1>5

LEMMA UpdateSale ==
  ASSUME Inv, Inv', SaleInv, NEW due \in SUBSET OnSale, Update(due)
  PROVE  SaleInv' /\ \A j \in Items : auction[j] # NoAuction /\ auction'[j] = NoAuction => Settled(j)
<1> DEFINE drafts == Ended(due)
<1>0. MailInv /\ MailInv' /\ AuctionInv /\ Deposit \in Nat
  BY AuctionAssumption DEF Inv
<1>1. /\ SendMailTo(drafts) /\ money' = money /\ paid' = Booked(due)
      /\ auction' = [i \in Items |-> IF i \in due THEN NoAuction ELSE auction[i]]
  BY DEF Update
<1>2. \A k \in DOMAIN drafts : drafts[k] \in Letters
  BY <1>0, EndedLetters
<1>3. /\ paid' \in [Items -> [Players -> Int]]
      /\ \A j \in Items \ due : paid'[j] = paid[j]
      /\ \A j \in Items \cap due, q \in Players :
           paid'[j][q] = paid[j][q] + money[q] - money'[q] - Mailed(j, q)
  <2>1. paid \in [Items -> [Players -> Int]]
    BY DEF SaleInv
  <2> HIDE DEF drafts
  <2> QED BY <1>0, <1>1, <1>2, <2>1, BookedIs
<1>4. due \subseteq Items /\ \A j \in due : auction[j] # NoAuction
  BY DEF OnSale
<1>5. SaleInv'
  <2>1. /\ \A j \in Items \ due : paid'[j] = paid[j] /\ auction'[j] = auction[j]
        /\ \A j \in Items \cap due : auction'[j] = NoAuction
    BY <1>1, <1>3
  <2> QED BY <1>3, <2>1, EndKeepsSale
<1>6. ASSUME NEW i \in due PROVE Settled(i)
  <2> DEFINE a == auction[i]
             n == <<"item", i>>
             w == IF i \in Sold(due) THEN a.bidder ELSE a.owner
  <2>1. /\ i \in Items /\ a \in Auctions /\ a # NoAuction /\ a.owner \in Players
        /\ Fair(a) /\ \A q \in Players : paid[i][q] = Share(a, q)
    BY <1>0, <1>4 DEF AuctionInv, SaleInv, Auctions
  <2>2. a.bid \in Nat /\ Cut(a.bid) \in Int
    <3>1. a.bid \in Nat
      BY <2>1, BidTypes
    <3> QED BY <3>1, CutBound
  <2>3. i \in Sold(due) <=> a.bidder # NoPlayer
    BY DEF Sold
  <2>4. w \in Players
    BY <2>1, <2>3 DEF Auctions
  <2>5. n \in DOMAIN drafts /\ drafts[n].items = {i} /\ drafts[n].receiver = w
    <3>1. n \in DOMAIN drafts
      BY DEF Ended
    <3>2. drafts[n] = IF i \notin Sold(due) THEN ItemBack(i, a) ELSE Won(i, a)
      BY <3>1 DEF Ended
    <3>3. /\ ItemBack(i, a).items = {i} /\ ItemBack(i, a).receiver = a.owner
          /\ i \in Sold(due) => Won(i, a).items = {i} /\ Won(i, a).receiver = a.bidder
      BY <2>1, <2>3, HouseMails, HouseTells
    <3> HIDE DEF drafts, a
    <3> QED BY <3>1, <3>2, <3>3
  <2> HIDE DEF drafts, n
  <2>6. PICK m \in MailIds : dbMail'[m] = drafts[n] /\ dbMail'[m] # NoMail
    BY <1>1, <1>2, <2>5, Arrives
  <2>7. i \in dbMail'[m].items /\ dbMail'[m].receiver = w
    BY <2>5, <2>6
  <2>8. \A q \in Players : Mailed(i, q) = IF i \in Sold(due) /\ q = a.owner
                                           THEN a.bid + Deposit - Cut(a.bid) ELSE 0
    BY <1>1, EndedMailed DEF drafts
  <2>9. \A q \in Players : paid'[i][q] = Share(a, q) - Mailed(i, q)
    <3>1. \A q \in Players : money[q] \in Int /\ money'[q] = money[q] /\ Share(a, q) \in Int
      BY <1>0, <1>1, <2>1 DEF MailInv, OwnTypeOK, SaleInv
    <3>2. \A q \in Players : Mailed(i, q) \in Int
      BY <1>0, <1>1, <1>2, MailedType
    <3>3. \A x, y, z \in Int : x + y - y - z = x - z
      OBVIOUS
    <3> QED BY <1>3, <2>1, <3>1, <3>2, <3>3
  <2>10. /\ Share(a, a.owner) = Deposit /\ a.owner # a.bidder
         /\ \A q : q # a.owner => Share(a, q) = IF q = a.bidder THEN a.bid ELSE 0
         /\ IF a.bidder = NoPlayer THEN a.bid = 0 ELSE a.bid >= a.startbid
    BY <2>1 DEF Share, Fair
  <2>11. ASSUME NEW q \in Players \ {a.owner, w} PROVE paid'[i][q] = 0
    <3>1. q # NoPlayer /\ q # a.bidder
      BY <2>3, MailAssumption
    <3>2. Share(a, q) = 0 /\ Mailed(i, q) = 0
      BY <2>8, <2>10, <3>1
    <3> QED BY <2>9, <3>2
  <2>12. CASE i \notin Sold(due)
    <3>1. w = a.owner /\ paid'[i][a.owner] = Deposit - 0
      BY <2>1, <2>8, <2>9, <2>10, <2>12
    <3>2. paid'[i][w] >= Deposit
      BY <1>0, <3>1
    <3> QED BY <2>1, <2>4, <2>6, <2>7, <2>11, <3>1, <3>2, EndSettles
  <2>13. CASE i \in Sold(due)
    <3>1. w = a.bidder /\ w # a.owner
      BY <2>10, <2>13
    <3>2. paid'[i][w] = a.bid
      <4>1. Share(a, w) = a.bid /\ Mailed(i, w) = 0
        BY <2>4, <2>8, <2>10, <3>1
      <4>2. paid'[i][w] = a.bid - 0
        BY <2>4, <2>9, <4>1
      <4> QED BY <2>2, <4>2
    <3>3. paid'[i][a.owner] = Cut(a.bid) - a.bid
      <4>1. paid'[i][a.owner] = Deposit - (a.bid + Deposit - Cut(a.bid))
        BY <2>1, <2>8, <2>9, <2>10, <2>13
      <4> HIDE DEF a
      <4> QED BY <1>0, <2>2, <4>1
    <3>4. paid'[i][w] >= a.bid /\ paid'[i][w] >= a.startbid
      BY <2>2, <2>3, <2>10, <2>13, <3>2
    <3> QED BY <2>1, <2>4, <2>6, <2>7, <2>11, <3>1, <3>2, <3>3, <3>4, EndSettles
  <2> QED BY <2>12, <2>13
<1>7. \A j \in Items : auction[j] # NoAuction /\ auction'[j] = NoAuction => j \in due
  BY <1>1
<1> QED BY <1>5, <1>6, <1>7

-----------------------------------------------------------------------------

SaleStep == \A i \in Items : auction[i] # NoAuction /\ auction'[i] = NoAuction => Settled(i)

LEMMA NextSale ==
  ASSUME Inv, Inv', SaleInv, Next
  PROVE  SaleInv' /\ SaleStep
<1>1. ASSUME UNCHANGED <<auction, paid>> PROVE SaleInv' /\ SaleStep
  BY <1>1 DEF SaleInv, SaleStep
<1>2. CASE MailNext /\ UNCHANGED auctionVars
  BY <1>1, <1>2 DEF auctionVars
<1>3. ASSUME NEW p \in Players, NEW i \in Items, NEW startbid \in Prices,
             NEW buyout \in Prices \cup {0}, SellItem(p, i, startbid, buyout)
      PROVE  SaleInv' /\ SaleStep
  <2>1. auction[i] = NoAuction /\ \A j \in Items \ {i} : auction'[j] = auction[j]
    BY <1>3 DEF SellItem, Inv, AuctionInv
  <2>2. SaleStep
    BY <2>1 DEF SaleStep
  <2> QED BY <1>3, <2>2, SellItemSale
<1>4. ASSUME NEW p \in Players, NEW i \in Items, NEW price \in Prices, PlaceBid(p, i, price)
      PROVE  SaleInv' /\ SaleStep
  <2>1. \A j \in Items : auction[j] # NoAuction => auction'[j] # NoAuction
    <3>1. auction' = [auction EXCEPT ![i].bidder = p, ![i].bid = price] /\ auction[i] # NoAuction
      BY <1>4 DEF PlaceBid, MayBid
    <3>2. auction'[i] = [auction[i] EXCEPT !.bidder = p, !.bid = price] /\ auction[i] \in Auctions
          /\ \A j \in Items \ {i} : auction'[j] = auction[j]
      BY <3>1 DEF Inv, AuctionInv
    <3>3. p \in Players /\ price \in Prices
      OBVIOUS
    <3>4. auction'[i] \in Auctions
      BY <3>2, <3>3 DEF Auctions
    <3> QED BY <3>2, <3>4, NoAuctionAssumption
  <2>2. SaleStep
    BY <2>1 DEF SaleStep
  <2> QED BY <1>4, <2>2, PlaceBidSale
<1>5. ASSUME NEW p \in Players, NEW i \in Items, NEW price \in Prices, Buyout(p, i, price)
      PROVE  SaleInv' /\ SaleStep
  BY <1>5, BuyoutSale DEF SaleStep
<1>6. ASSUME NEW p \in Players, NEW i \in Items, RemoveItem(p, i)
      PROVE  SaleInv' /\ SaleStep
  BY <1>6, RemoveItemSale DEF SaleStep
<1>7. ASSUME NEW due \in SUBSET {i \in Items : auction[i] # NoAuction} \ {{}}, Update(due)
      PROVE  SaleInv' /\ SaleStep
  BY <1>7, UpdateSale DEF SaleStep, OnSale
<1>8. CASE Crash
  <2>1. auction' = auction /\ paid' = paid
    BY <1>8 DEF Crash, Inv, AuctionInv
  <2> QED BY <1>1, <2>1
<1> QED BY <1>2, <1>3, <1>4, <1>5, <1>6, <1>7, <1>8 DEF Next

LEMMA InitSale == Init => SaleInv
BY DEF Init, SaleInv

LEMMA StepSale == Inv /\ Inv' /\ SaleInv /\ [Next]_vars => SaleInv' /\ [SaleStep]_vars
<1> SUFFICES ASSUME Inv, Inv', SaleInv, [Next]_vars PROVE SaleInv' /\ [SaleStep]_vars
  OBVIOUS
<1>1. CASE UNCHANGED vars
  BY <1>1 DEF vars, auctionVars, SaleInv
<1> QED BY <1>1, NextSale

\* The types of memory, database and history, what has been paid for items included.
THEOREM AllTyped == Spec => []TypeOK
<1>1. Inv /\ SaleInv => TypeOK
  <2>1. Inv => /\ MailTypeOK /\ auction \in [Items -> Auctions \cup {NoAuction}]
               /\ dbAuction \in [Items -> Auctions \cup {NoAuction}]
    BY MailTypes DEF Inv, AuctionInv
  <2> QED BY <2>1 DEF SaleInv, TypeOK
<1> QED BY <1>1, InitSale, StepSale, Invariant, PTL DEF Spec

\* Every auction that ends is settled: the winner has paid a price, at least the highest
\* bid, the owner got it but for the cut, and nobody else has lost or won anything,
\* however often he bid and was outbid.
THEOREM AlwaysSettled == Spec => SaleSettled
<1>1. SaleSettled <=> [][SaleStep]_vars
  BY DEF SaleSettled, SaleStep, Settled
<1> QED BY <1>1, InitSale, StepSale, Invariant, PTL DEF Spec
=============================================================================
