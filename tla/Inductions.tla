------------------------------ MODULE Inductions ------------------------------
(***************************************************************************)
(* What the proofs of this project know about finite sets, folds and       *)
(* sequences.  The induction theorems of the library take an operator and  *)
(* cannot be instantiated by the installed provers; the inductions here    *)
(* look at a smallest counterexample instead, which is a set.              *)
(***************************************************************************)
EXTENDS Naturals, Sequences, FiniteSetsExt, FiniteSetTheorems, TLAPS

(* A nonempty set of subsets of a finite set has a minimal element.        *)
LEMMA MinimalSubset ==
  ASSUME NEW S, IsFiniteSet(S), NEW B \in SUBSET SUBSET S, B # {}
  PROVE  \E T \in B : \A U \in B : U \subseteq T => U = T
<1>1. IsWellFoundedOn(StrictSubsetOrdering(S), SUBSET S)
  BY FS_StrictSubsetOrderingWellFounded, FS_FiniteSubsetsOfFinite
<1>2. PICK T \in B : \A U \in B : <<U, T>> \notin StrictSubsetOrdering(S)
  BY <1>1, WFMin
<1> QED
  BY <1>2 DEF StrictSubsetOrdering

(* Nonempty sets of numbers up to n have a least and a greatest element.   *)
LEMMA MinOf ==
  ASSUME NEW n \in Nat, NEW s \in SUBSET (0..n), s # {}
  PROVE  Min(s) \in s /\ \A x \in s : Min(s) <= x
<1> DEFINE Up(k) == 0..k
           B == {Up(k) : k \in s}
<1>1. IsFiniteSet(0..n)
  BY FS_Interval
<1>2. B \in SUBSET SUBSET (0..n) /\ B # {}
  <2>1. \A k \in s : Up(k) \in SUBSET (0..n)
    OBVIOUS
  <2>2. PICK k \in s : TRUE
    OBVIOUS
  <2>3. Up(k) \in B
    OBVIOUS
  <2> HIDE DEF Up
  <2>4. B \in SUBSET SUBSET (0..n)
    BY <2>1
  <2> QED
    BY <2>3, <2>4
<1>3. PICK T \in B : \A U \in B : U \subseteq T => U = T
  <2> HIDE DEF B
  <2> DEFINE S == 0..n
  <2>1. IsFiniteSet(S) /\ B \in SUBSET SUBSET S /\ B # {}
    BY <1>1, <1>2
  <2> HIDE DEF S
  <2> QED
    BY <2>1, MinimalSubset
<1>4. PICK m \in s : T = Up(m)
  BY <1>3
<1>5. ASSUME NEW x \in s, x < m PROVE FALSE
  <2>1. Up(x) \subseteq Up(m) /\ Up(x) \in B
    BY <1>4, <1>5
  <2>2. Up(x) = Up(m)
    BY <1>3, <1>4, <2>1
  <2>3. m \in Up(m) /\ m \notin Up(x)
    BY <1>4, <1>5
  <2> QED
    BY <2>2, <2>3
<1>6. \A x \in s : m <= x
  BY <1>5
<1> QED
  BY <1>4, <1>6 DEF Min

LEMMA MaxOf ==
  ASSUME NEW n \in Nat, NEW s \in SUBSET (0..n), s # {}
  PROVE  Max(s) \in s /\ \A x \in s : x <= Max(s)
<1> DEFINE t == {n - x : x \in s}
<1>1. t \in SUBSET (0..n) /\ t # {}
  <2>1. PICK k \in s : TRUE
    OBVIOUS
  <2>2. n - k \in t
    OBVIOUS
  <2>3. \A x \in s : n - x \in 0..n
    OBVIOUS
  <2> QED
    BY <2>2, <2>3
<1>2. Min(t) \in t /\ \A x \in t : Min(t) <= x
  <2> HIDE DEF t
  <2> QED
    BY <1>1, MinOf
<1> DEFINE m == n - Min(t)
<1>3. m \in s /\ \A x \in s : x <= m
  <2>1. PICK y \in s : Min(t) = n - y
    BY <1>2
  <2>2. m = y
    BY <2>1
  <2>3. ASSUME NEW x \in s PROVE x <= m
    <3>1. n - x \in t
      OBVIOUS
    <3>2. n - y <= n - x
      BY <1>2, <2>1, <3>1
    <3> QED
      BY <2>2, <3>2
  <2> QED
    BY <2>2, <2>3
<1> HIDE DEF m
<1>4. \E x \in s : \A y \in s : x >= y
  BY <1>3
<1>5. Max(s) \in s /\ \A y \in s : Max(s) >= y
  BY <1>4 DEF Max
<1> QED
  BY <1>5

-----------------------------------------------------------------------------
(* Folds of the community modules work through a set in the order in which *)
(* a choice function takes its elements.  g is the table of the values     *)
(* over the subsets of S when step gives the next value.                   *)

IsTable(g, S, A, base, ch, step) ==
  /\ g \in [SUBSET S -> A]
  /\ \A s \in SUBSET S : g[s] = IF s = {} THEN base ELSE step[<<g[s \ {ch[s]}], ch[s]>>]

LEMMA TableUnique ==
  ASSUME NEW S, NEW T \in SUBSET S, IsFiniteSet(T), NEW A, NEW base, NEW step,
         NEW ch, \A s \in SUBSET S : s # {} => ch[s] \in s,
         NEW g, NEW h, IsTable(g, S, A, base, ch, step), IsTable(h, T, A, base, ch, step)
  PROVE  \A s \in SUBSET T : g[s] = h[s]
<1> DEFINE B == {s \in SUBSET T : g[s] # h[s]}
<1> SUFFICES ASSUME B # {} PROVE FALSE
  OBVIOUS
<1>1. PICK s \in B : \A U \in B : U \subseteq s => U = s
  <2> HIDE DEF B
  <2>1. B \in SUBSET SUBSET T
    BY DEF B
  <2> QED
    BY <2>1, MinimalSubset
<1> DEFINE x == ch[s]
<1>2. CASE s = {}
  BY <1>1, <1>2 DEF IsTable
<1>3. CASE s # {}
  <2>1. x \in s
    BY <1>1, <1>3
  <2>2. s \ {x} \in SUBSET T /\ s \ {x} # s
    BY <1>1, <2>1
  <2>3. g[s \ {x}] = h[s \ {x}]
    BY <1>1, <2>2
  <2>4. g[s] = step[<<g[s \ {x}], x>>] /\ h[s] = step[<<h[s \ {x}], x>>]
    BY <1>1, <1>3 DEF IsTable
  <2> QED
    BY <1>1, <2>3, <2>4
<1> QED
  BY <1>2, <1>3

(* Every finite set has a table: over a smallest set without one, the      *)
(* tables of its proper subsets would combine into one.                    *)
LEMMA TableExists ==
  ASSUME NEW S, IsFiniteSet(S), NEW A, NEW base \in A, NEW step,
         NEW ch, \A s \in SUBSET S : s # {} => ch[s] \in s,
         \A a \in A, x \in S : step[<<a, x>>] \in A
  PROVE  \E g : IsTable(g, S, A, base, ch, step)
<1> DEFINE Is(g, U) == IsTable(g, U, A, base, ch, step)
           B == {s \in SUBSET S : ~\E g : Is(g, s)}
<1>1. B \in SUBSET SUBSET S
  OBVIOUS
<1>2. S \in B \/ \E g : Is(g, S)
  OBVIOUS
<1> SUFFICES ASSUME B # {} PROVE FALSE
  BY <1>2
<1>3. PICK T \in B : \A U \in B : U \subseteq T => U = T
  <2> HIDE DEF B
  <2> QED
    BY <1>1, MinimalSubset
<1> DEFINE Tab(U) == CHOOSE g : Is(g, U)
           Val(s) == IF s = {} THEN base ELSE step[<<Tab(s \ {ch[s]})[s \ {ch[s]}], ch[s]>>]
           g == [s \in SUBSET T |-> Val(s)]
<1>4. ASSUME NEW U \in SUBSET T, U # T PROVE Is(Tab(U), U)
  <2>1. U \notin B /\ U \in SUBSET S
    BY <1>3, <1>4
  <2>2. \E h : Is(h, U)
    BY <2>1
  <2> QED
    BY <2>2
<1>5. ASSUME NEW U \in SUBSET T, U # T PROVE Tab(U)[U] = Val(U) /\ Tab(U)[U] \in A
  <2>1. Is(Tab(U), U)
    BY <1>4, <1>5
  <2>2. CASE U = {}
    <3> HIDE DEF Tab
    <3> QED
      BY <2>1, <2>2 DEF IsTable
  <2>3. CASE U # {}
    <3> DEFINE x == ch[U]
               V == U \ {x}
    <3>1. x \in U
      BY <1>3, <2>3
    <3>2. V \in SUBSET T /\ V # T /\ V \in SUBSET U /\ IsFiniteSet(V) /\ U \in SUBSET S
      <4>1. V \in SUBSET S
        BY <1>3
      <4> QED
        BY <1>3, <3>1, <4>1, FS_Subset
    <3>3. Is(Tab(V), V)
      BY <1>4, <3>2
    <3> HIDE DEF Tab, V, x
    <3>4. Tab(U)[V] = Tab(V)[V]
      BY <2>1, <3>2, <3>3, TableUnique
    <3>5. Tab(U)[U] = step[<<Tab(U)[V], x>>] /\ Tab(U)[U] \in A
      BY <2>1, <2>3 DEF IsTable, x, V
    <3> QED
      BY <2>3, <3>4, <3>5 DEF x, V
  <2> QED
    BY <2>2, <2>3
<1>6. ASSUME NEW s \in SUBSET T
      PROVE  /\ s = {} => g[s] = base
             /\ s # {} => g[s] = step[<<g[s \ {ch[s]}], ch[s]>>]
             /\ g[s] \in A
  <2>1. CASE s = {}
    BY <2>1
  <2>2. CASE s # {}
    <3> DEFINE V == s \ {ch[s]}
    <3>1. ch[s] \in s /\ ch[s] \in S
      BY <1>3, <2>2
    <3>2. V \in SUBSET T /\ V # T
      BY <3>1
    <3>3. Tab(V)[V] = Val(V) /\ Tab(V)[V] \in A
      BY <1>5, <3>2
    <3>4. g[V] = Val(V) /\ g[s] = Val(s)
      BY <3>2
    <3>5. Val(s) = step[<<Tab(V)[V], ch[s]>>]
      BY <2>2
    <3> HIDE DEF Tab, Val, g
    <3>6. g[s] = step[<<g[V], ch[s]>>] /\ g[V] \in A
      BY <3>3, <3>4, <3>5
    <3>7. g[s] \in A
      BY <3>1, <3>6
    <3> QED
      BY <2>2, <3>6, <3>7
  <2> QED
    BY <2>1, <2>2
<1>7. Is(g, T)
  <2>1. DOMAIN g = SUBSET T /\ g = [s \in SUBSET T |-> g[s]]
    OBVIOUS
  <2> HIDE DEF g
  <2>2. g \in [SUBSET T -> A]
    BY <1>6, <2>1
  <2> QED
    BY <1>6, <2>2 DEF IsTable
<1> QED
  BY <1>3, <1>7

(* Folds of sequences take the greatest index first, so the values over    *)
(* the prefixes follow one another.                                        *)
LEMMA PrefixTable ==
  ASSUME NEW n \in Nat, NEW A, NEW base, NEW step, NEW g,
         NEW ch, \A s \in SUBSET (1..n) : ch[s] = Max(s),
         IsTable(g, 1..n, A, base, ch, step)
  PROVE  /\ g[1..0] = base
         /\ \A k \in 1..n : g[1..k] = step[<<g[1..(k - 1)], k>>]
         /\ \A k \in 0..n : g[1..k] \in A
<1> DEFINE S == 1..n
<1>1. \A k \in 0..n : 1..k \in SUBSET S
  OBVIOUS
<1>2. ASSUME NEW k \in 1..n PROVE ch[1..k] = k /\ (1..k) \ {k} = 1..(k - 1) /\ 1..k # {}
  <2> DEFINE s == 1..k
  <2>1. s \in SUBSET (0..n) /\ s \in SUBSET S /\ k \in s
    OBVIOUS
  <2>2. Max(s) \in s /\ \A x \in s : x <= Max(s)
    <3> HIDE DEF s
    <3> QED
      BY <2>1, MaxOf
  <2>3. ch[s] = Max(s)
    BY <2>1
  <2> QED
    BY <2>1, <2>2, <2>3
<1>3. 1..0 = {} /\ \A k \in 1..n : k - 1 \in 0..n
  OBVIOUS
<1>4. ASSUME NEW s \in SUBSET S
      PROVE  g[s] \in A /\ g[s] = IF s = {} THEN base ELSE step[<<g[s \ {ch[s]}], ch[s]>>]
  <2> HIDE DEF S
  <2>1. /\ g \in [SUBSET S -> A]
        /\ \A r \in SUBSET S : g[r] = IF r = {} THEN base ELSE step[<<g[r \ {ch[r]}], ch[r]>>]
    BY DEF IsTable, S
  <2> QED
    BY <2>1
<1> HIDE DEF S
<1>5. ASSUME NEW k \in 1..n PROVE g[1..k] = step[<<g[1..(k - 1)], k>>]
  <2>1. 1..k \in SUBSET S
    BY <1>1
  <2>2. ch[1..k] = k /\ (1..k) \ {k} = 1..(k - 1) /\ 1..k # {}
    BY <1>2
  <2>3. g[1..k] = step[<<g[(1..k) \ {ch[1..k]}], ch[1..k]>>]
    BY <1>4, <2>1, <2>2
  <2> QED
    BY ONLY <2>2, <2>3
<1>6. g[1..0] = base
  BY <1>1, <1>3, <1>4
<1> QED
  BY <1>1, <1>4, <1>5, <1>6

LEMMA Concatenation ==
  ASSUME NEW U, NEW W, NEW s \in Seq(U), NEW t \in Seq(W)
  PROVE  /\ Len(s \o t) = Len(s) + Len(t)
         /\ \A i \in 1..Len(s) : (s \o t)[i] = s[i]
         /\ \A i \in 1..Len(t) : (s \o t)[Len(s) + i] = t[i]
OBVIOUS

LEMMA Appended ==
  ASSUME NEW U, NEW s \in Seq(U), NEW e
  PROVE  /\ Len(Append(s, e)) = Len(s) + 1
         /\ \A i \in 1..Len(s) : Append(s, e)[i] = s[i]
         /\ Append(s, e)[Len(s) + 1] = e
OBVIOUS

LEMMA FiveTuple ==
  ASSUME NEW a, NEW b, NEW c, NEW d, NEW e
  PROVE  LET t == <<a, b, c, d, e>> IN
         /\ t \in Seq({a, b, c, d, e}) /\ Len(t) = 5
         /\ t[1] = a /\ t[2] = b /\ t[3] = c /\ t[4] = d /\ t[5] = e
OBVIOUS

-----------------------------------------------------------------------------
(* Listings of a finite set in the order of a key.                         *)

Lists(u, n, S, key) ==
  /\ n \in Nat /\ key \in [S -> Nat] /\ u \in [1..n -> S]
  /\ \A x \in S : \E p \in 1..n : u[p] = x
  /\ \A p, q \in 1..n : p < q => key[u[p]] < key[u[q]]

LEMMA ImageOfInterval ==
  ASSUME NEW a \in Nat, NEW b \in Nat, a <= b + 1, NEW T, NEW f \in [a..b -> T],
         \A x \in T : \E p \in a..b : f[p] = x,
         \A p, q \in a..b : p < q => f[p] # f[q]
  PROVE  IsFiniteSet(T) /\ Cardinality(T) = b - a + 1
<1> DEFINE S == a..b
<1>1. IsFiniteSet(S) /\ Cardinality(S) = b - a + 1
  BY FS_Interval
<1>2. \A p, q \in S : f[p] = f[q] => p = q
  OBVIOUS
<1> HIDE DEF S
<1>3. f \in Bijection(S, T)
  BY <1>2 DEF Bijection, Injection, Surjection, IsInjective, S
<1>4. ExistsBijection(S, T)
  BY <1>3 DEF ExistsBijection
<1> QED
  BY <1>1, <1>4, FS_Bijection

UpTo(S, key, b)  == {x \in S : key[x] <= b}
AtLeast(S, key, b) == {x \in S : key[x] >= b}

(* The place of an element in a listing is its rank.                       *)
LEMMA Ranked ==
  ASSUME NEW u, NEW n, NEW S, NEW key, Lists(u, n, S, key)
  PROVE  /\ IsFiniteSet(S) /\ Cardinality(S) = n
         /\ \A p \in 1..n : /\ Cardinality(UpTo(S, key, key[u[p]])) = p
                            /\ Cardinality(AtLeast(S, key, key[u[p]])) = n - p + 1
<1>1. /\ n \in Nat /\ key \in [S -> Nat] /\ u \in [1..n -> S]
      /\ \A x \in S : \E p \in 1..n : u[p] = x
      /\ \A p, q \in 1..n : p < q => key[u[p]] < key[u[q]]
  BY DEF Lists
<1>2. \A p \in 1..n : u[p] \in S /\ key[u[p]] \in Nat
  BY <1>1
<1>3. \A p, q \in 1..n : p < q => u[p] # u[q]
  BY <1>1, <1>2
<1>4. IsFiniteSet(S) /\ Cardinality(S) = n
  <2>1. 1 \in Nat /\ n \in Nat /\ 1 <= n + 1 /\ n - 1 + 1 = n
    BY <1>1
  <2>2. /\ u \in [1..n -> S] /\ \A x \in S : \E p \in 1..n : u[p] = x
        /\ \A p, q \in 1..n : p < q => u[p] # u[q]
    BY <1>1, <1>3
  <2>3. IsFiniteSet(S) /\ Cardinality(S) = n - 1 + 1
    BY <2>1, <2>2, ImageOfInterval
  <2> QED
    BY <2>1, <2>3
<1>5. ASSUME NEW p \in 1..n
      PROVE  Cardinality(UpTo(S, key, key[u[p]])) = p
  <2> DEFINE T == UpTo(S, key, key[u[p]])
             f == [q \in 1..p |-> u[q]]
  <2>1. \A q \in 1..p : q \in 1..n
    BY <1>1
  <2>2. f \in [1..p -> T]
    <3>1. \A q \in 1..p : key[u[q]] <= key[u[p]]
      <4> TAKE q \in 1..p
      <4>1. q < p \/ q = p
        BY <1>1
      <4> QED
        BY <1>1, <1>2, <2>1, <4>1
    <3> QED
      BY <1>2, <2>1, <3>1 DEF UpTo
  <2>3. ASSUME NEW x \in T PROVE \E q \in 1..p : f[q] = x
    <3>1. PICK q \in 1..n : u[q] = x
      BY <1>1 DEF UpTo
    <3>2. ~(p < q)
      <4>1. key[u[q]] <= key[u[p]] /\ key[u[q]] \in Nat /\ key[u[p]] \in Nat
        BY <1>2, <3>1 DEF UpTo
      <4> QED
        BY <1>1, <4>1
    <3>3. q \in 1..p
      BY <1>1, <3>2
    <3> QED
      BY <3>1, <3>3
  <2>4. \A q, r \in 1..p : q < r => f[q] # f[r]
    BY <1>3, <2>1
  <2>5. p \in Nat /\ 1 <= p + 1 /\ p - 1 + 1 = p
    BY <1>1
  <2> HIDE DEF T, f
  <2>6. Cardinality(T) = p - 1 + 1
    BY <2>2, <2>3, <2>4, <2>5, ImageOfInterval
  <2> QED
    BY <2>5, <2>6 DEF T
<1>6. ASSUME NEW p \in 1..n
      PROVE  Cardinality(AtLeast(S, key, key[u[p]])) = n - p + 1
  <2> DEFINE T == AtLeast(S, key, key[u[p]])
             f == [q \in p..n |-> u[q]]
  <2>1. \A q \in p..n : q \in 1..n
    BY <1>1
  <2>2. f \in [p..n -> T]
    <3>1. \A q \in p..n : key[u[q]] >= key[u[p]]
      <4> TAKE q \in p..n
      <4>1. p < q \/ q = p
        BY <1>1
      <4> QED
        BY <1>1, <1>2, <2>1, <4>1
    <3> QED
      BY <1>2, <2>1, <3>1 DEF AtLeast
  <2>3. ASSUME NEW x \in T PROVE \E q \in p..n : f[q] = x
    <3>1. PICK q \in 1..n : u[q] = x
      BY <1>1 DEF AtLeast
    <3>2. ~(q < p)
      <4>1. key[u[q]] >= key[u[p]] /\ key[u[q]] \in Nat /\ key[u[p]] \in Nat
        BY <1>2, <3>1 DEF AtLeast
      <4> QED
        BY <1>1, <4>1
    <3>3. q \in p..n
      BY <1>1, <3>2
    <3> QED
      BY <3>1, <3>3
  <2>4. \A q, r \in p..n : q < r => f[q] # f[r]
    BY <1>3, <2>1
  <2>5. p \in Nat /\ p <= n + 1
    BY <1>1
  <2> HIDE DEF T, f
  <2>6. Cardinality(T) = n - p + 1
    BY <1>1, <2>2, <2>3, <2>4, <2>5, ImageOfInterval
  <2> QED
    BY <2>6 DEF T
<1> QED
  BY <1>4, <1>5, <1>6

(* A listing grows by an element whose key is greater than all others.     *)
LEMMA ListingGrows ==
  ASSUME NEW u, NEW n, NEW S, NEW key, Lists(u, n, S, key), NEW x, x \notin S,
         NEW later \in [S \cup {x} -> Nat],
         \A y \in S : later[y] = key[y] /\ later[y] < later[x]
  PROVE  Lists([p \in 1..(n + 1) |-> IF p = n + 1 THEN x ELSE u[p]], n + 1, S \cup {x}, later)
<1> DEFINE w == [p \in 1..(n + 1) |-> IF p = n + 1 THEN x ELSE u[p]]
<1>1. /\ n \in Nat /\ key \in [S -> Nat] /\ u \in [1..n -> S]
      /\ \A y \in S : \E p \in 1..n : u[p] = y
      /\ \A p, q \in 1..n : p < q => key[u[p]] < key[u[q]]
  BY DEF Lists
<1>2. n + 1 \in Nat /\ n + 1 \in 1..(n + 1) /\ \A p \in 1..n : p \in 1..(n + 1) /\ p # n + 1
  BY <1>1
<1>3. w[n + 1] = x /\ \A p \in 1..n : w[p] = u[p] /\ w[p] \in S
  BY <1>1, <1>2
<1>4. \A p \in 1..(n + 1) : p = n + 1 \/ p \in 1..n
  BY <1>1
<1>5. w \in [1..(n + 1) -> S \cup {x}]
  BY <1>1, <1>4
<1> HIDE DEF w
<1>6. \A y \in S \cup {x} : \E p \in 1..(n + 1) : w[p] = y
  BY <1>1, <1>2, <1>3
<1>7. ASSUME NEW p \in 1..(n + 1), NEW q \in 1..(n + 1), p < q
      PROVE  later[w[p]] < later[w[q]]
  <2>1. p \in 1..n
    BY <1>1, <1>7
  <2>2. CASE q = n + 1
    BY <1>3, <2>1, <2>2
  <2>3. CASE q \in 1..n
    BY <1>1, <1>3, <1>7, <2>1, <2>3
  <2> QED
    BY <1>4, <2>2, <2>3
<1> QED
  BY <1>2, <1>5, <1>6, <1>7 DEF Lists, w
=============================================================================
