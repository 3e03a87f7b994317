----------------------------- MODULE SetLemmas -----------------------------
(***************************************************************************)
(* Facts about natural numbers, finite sets and sequences that the proofs  *)
(* about several components need: least and greatest elements, induction   *)
(* over numbers in the form of a set that holds them, sets as sequences,   *)
(* and the sizes of sets that are matched or divided into classes.         *)
(***************************************************************************)
EXTENDS Integers, Sequences, SequencesExt, FiniteSetTheorems, WellFoundedInduction, TLAPS
-----------------------------------------------------------------------------
(* Natural numbers *)

\* A set of natural numbers has a least element.
LEMMA Least ==
  ASSUME NEW S, S \subseteq Nat, S # {}
  PROVE  \E x \in S : \A y \in S : x <= y
<1> DEFINE Up == {1..x : x \in S}
           Smaller == StrictSubsetOrdering(Nat)
<1>1. IsWellFoundedOn(Smaller, FiniteSubsetsOf(Nat))
  BY FS_StrictSubsetOrderingWellFounded
<1>2. Up \subseteq FiniteSubsetsOf(Nat)
  <2> SUFFICES ASSUME NEW x \in S PROVE 1..x \in FiniteSubsetsOf(Nat)
    OBVIOUS
  <2>1. IsFiniteSet(1..x)
    BY FS_Interval
  <2> QED BY <2>1 DEF FiniteSubsetsOf
<1>3. Up # {}
  OBVIOUS
<1> HIDE DEF Up
<1>4. \E a \in Up : \A b \in Up : ~ (<<b, a>> \in Smaller)
  BY <1>1, <1>2, <1>3, WFMin
<1>5. PICK x \in S : \A y \in S : ~ (<<1..y, 1..x>> \in Smaller)
  BY <1>4 DEF Up
<1>6. ASSUME NEW y \in S, ~(x <= y) PROVE FALSE
  <2>1. 1..y \subseteq Nat /\ 1..x \subseteq Nat /\ 1..y \subseteq 1..x
    BY <1>6
  <2>2. x \in 1..x /\ x \notin 1..y
    BY <1>6
  <2>3. <<1..y, 1..x>> \in Smaller
    BY <2>1, <2>2 DEF StrictSubsetOrdering
  <2> QED BY <2>3, <1>5
<1> QED BY <1>6

\* Induction, for sets: a set with 0 and all successors holds every number.
LEMMA Successors ==
  ASSUME NEW S, 0 \in S, \A n \in Nat : n \in S => n + 1 \in S
  PROVE  \A n \in Nat : n \in S
<1> SUFFICES ASSUME Nat \ S # {} PROVE FALSE
  OBVIOUS
<1>1. PICK x \in Nat \ S : \A y \in Nat \ S : x <= y
  BY Least
<1>2. x - 1 \in Nat /\ x - 1 \notin Nat \ S
  BY <1>1
<1> QED BY <1>1, <1>2

\* The greatest element of S is Max(S), the least is Min(S).
LEMMA MaxIs ==
  ASSUME NEW S, S \subseteq Int, NEW m \in S, \A x \in S : x <= m
  PROVE  Max(S) = m
<1>1. \A k \in S : (\A x \in S : k >= x) => k = m
  OBVIOUS
<1>2. \A x \in S : m >= x
  OBVIOUS
<1> QED BY <1>1, <1>2 DEF Max

LEMMA MinIs ==
  ASSUME NEW S, S \subseteq Int, NEW m \in S, \A x \in S : m <= x
  PROVE  Min(S) = m
<1>1. \A k \in S : (\A x \in S : k <= x) => k = m
  OBVIOUS
<1> QED BY <1>1 DEF Min

\* A set with a bound has a greatest element.
LEMMA Greatest ==
  ASSUME NEW n \in Nat, NEW S, S \subseteq 1..n, S # {}
  PROVE  Max(S) \in S /\ \A x \in S : x <= Max(S)
<1> DEFINE Bounds == {m \in Nat : \A x \in S : x <= m}
<1>1. n \in Bounds
  OBVIOUS
<1>2. PICK m \in Bounds : \A b \in Bounds : m <= b
  BY <1>1, Least
<1>3. m \in S
  <2> SUFFICES ASSUME m \notin S PROVE FALSE
    OBVIOUS
  <2>1. m \in Nat /\ \A x \in S : x \in Nat /\ x <= m /\ x # m /\ x # 0
    OBVIOUS
  <2>2. (\A x \in S : x <= m - 1) /\ m - 1 \in Nat
    <3>1. PICK x \in S : TRUE
      OBVIOUS
    <3> QED BY <2>1, <3>1
  <2>3. m - 1 \in Bounds
    BY <2>1, <2>2
  <2>4. m <= m - 1
    BY <2>3, <1>2
  <2> QED BY <2>1, <2>4
<1>4. S \subseteq Int /\ \A x \in S : x <= m
  OBVIOUS
<1> QED BY <1>3, <1>4, MaxIs

\* So has a finite set of integers, by induction over its subsets, and a
\* least one.
LEMMA GreatestInt ==
  ASSUME NEW S, IsFiniteSet(S), S \subseteq Int, S # {}
  PROVE  \E m \in S : \A x \in S : x <= m
<1> DEFINE HasGreatest(T) == \E m \in T : \A x \in T : x <= m
           Bad == {T \in SUBSET S : T # {} /\ ~HasGreatest(T)}
           Smaller == StrictSubsetOrdering(S)
<1> SUFFICES ASSUME Bad # {} PROVE FALSE
  OBVIOUS
<1>1. IsWellFoundedOn(Smaller, FiniteSubsetsOf(S))
  BY FS_StrictSubsetOrderingWellFounded
<1>2. Bad \subseteq FiniteSubsetsOf(S)
  BY FS_Subset DEF FiniteSubsetsOf
<1>3. \E T \in Bad : \A U \in Bad : ~ (<<U, T>> \in Smaller)
  <2> HIDE DEF Bad
  <2> QED BY <1>1, <1>2, WFMin
<1>4. PICK T \in Bad : \A U \in Bad : ~ (<<U, T>> \in Smaller)
  BY <1>3
<1>5. PICK x \in T : TRUE
  OBVIOUS
<1> DEFINE U == T \ {x}
<1>6. <<U, T>> \in Smaller
  BY <1>5 DEF StrictSubsetOrdering
<1>7. U = {} \/ HasGreatest(U)
  BY <1>4, <1>6
<1>8. CASE U = {}
  <2>1. T = {x} /\ x \in Int
    BY <1>5, <1>8
  <2> QED BY <2>1
<1>9. CASE HasGreatest(U)
  <2>1. PICK m \in U : \A y \in U : y <= m
    BY <1>9
  <2>2. x \in Int /\ m \in Int /\ T \subseteq Int /\ m \in T
    BY <1>5
  <2>3. \A y \in T : y = x \/ y <= m
    BY <2>1
  <2>4. CASE x <= m
    BY <2>2, <2>3, <2>4
  <2>5. CASE ~(x <= m)
    BY <1>5, <2>2, <2>3, <2>5
  <2> QED BY <2>4, <2>5
<1> QED BY <1>7, <1>8, <1>9

LEMMA LeastInt ==
  ASSUME NEW S, IsFiniteSet(S), S \subseteq Int, S # {}
  PROVE  \E m \in S : \A x \in S : m <= x
<1> DEFINE T == {-x : x \in S}
           g == [x \in S |-> -x]
<1>1. g \in Surjection(S, T)
  BY DEF Surjection
<1>2. IsFiniteSet(T)
  <2> HIDE DEF T, g
  <2> QED BY <1>1, FS_Surjection
<1>3. T \subseteq Int
  OBVIOUS
<1>4. T # {}
  <2>1. PICK x \in S : TRUE
    OBVIOUS
  <2>2. -x \in T
    OBVIOUS
  <2> QED BY <2>2
<1>5. PICK n \in T : \A y \in T : y <= n
  <2> HIDE DEF T
  <2> QED BY <1>2, <1>3, <1>4, GreatestInt
<1>6. PICK m \in S : n = -m
  OBVIOUS
<1>7. \A x \in S : -x <= -m
  BY <1>5, <1>6
<1> QED BY <1>6, <1>7

-----------------------------------------------------------------------------
(* Sequences *)

\* A finite set as a sequence has its elements.
LEMMA SetAsSequence ==
  ASSUME NEW S, IsFiniteSet(S)
  PROVE  /\ SetToSeq(S) \in Seq(S)
         /\ ToSet(SetToSeq(S)) = S
<1> DEFINE D == 1..Cardinality(S)
<1>1. Cardinality(S) \in Nat
  BY FS_CardinalityType
<1>2. IsFiniteSet(D) /\ Cardinality(D) = Cardinality(S)
  BY <1>1, FS_Interval
<1>3. \E f \in [D -> S] : IsInjective(f)
  <2>1. PICK f : f \in Bijection(D, S)
    BY <1>2, FS_SameCardinalityBij DEF ExistsBijection
  <2> QED BY <2>1 DEF Bijection, Injection
<1>4. SetToSeq(S) \in [D -> S] /\ IsInjective(SetToSeq(S))
  BY <1>3 DEF SetToSeq
<1>5. SetToSeq(S) \in Surjection(D, S)
  BY <1>2, <1>4, FS_Injection DEF Injection
<1>6. ToSet(SetToSeq(S)) = S
  BY <1>4, <1>5 DEF ToSet, Surjection
<1> QED BY <1>1, <1>4, <1>6

\* Two sequences one after the other have the elements of both.
IsSequence(s) == s \in Seq(ToSet(s))

LEMMA Concatenation ==
  ASSUME NEW s, NEW t, IsSequence(s), IsSequence(t)
  PROVE  IsSequence(s \o t) /\ ToSet(s \o t) = ToSet(s) \cup ToSet(t)
<1>1. ToSet(s \o t) = ToSet(s) \cup ToSet(t)
  <2>1. DOMAIN (s \o t) = 1..(Len(s) + Len(t)) /\ DOMAIN s = 1..Len(s) /\ DOMAIN t = 1..Len(t)
    BY DEF IsSequence
  <2>2. ASSUME NEW i \in DOMAIN (s \o t) PROVE (s \o t)[i] \in ToSet(s) \cup ToSet(t)
    <3>1. (s \o t)[i] = IF i <= Len(s) THEN s[i] ELSE t[i - Len(s)]
      BY <2>1 DEF IsSequence
    <3> QED BY <2>1, <3>1 DEF ToSet, IsSequence
  <2>3. ASSUME NEW i \in DOMAIN s PROVE s[i] \in ToSet(s \o t)
    <3>1. i \in DOMAIN (s \o t) /\ (s \o t)[i] = s[i]
      BY <2>1 DEF IsSequence
    <3> QED BY <3>1 DEF ToSet
  <2>4. ASSUME NEW i \in DOMAIN t PROVE t[i] \in ToSet(s \o t)
    <3>1. i + Len(s) \in DOMAIN (s \o t) /\ (s \o t)[i + Len(s)] = t[i]
      BY <2>1 DEF IsSequence
    <3> QED BY <3>1 DEF ToSet
  <2> QED BY <2>2, <2>3, <2>4 DEF ToSet
<1>2. s \in Seq(ToSet(s) \cup ToSet(t)) /\ t \in Seq(ToSet(s) \cup ToSet(t))
  BY DEF IsSequence
<1> QED BY <1>1, <1>2 DEF IsSequence

\* A sequence of one more element.
LEMMA OneMore ==
  ASSUME NEW s, NEW e, IsSequence(s)
  PROVE  /\ IsSequence(Append(s, e)) /\ Len(s) \in Nat /\ DOMAIN s = 1..Len(s)
         /\ DOMAIN Append(s, e) = 1..(Len(s) + 1) /\ Len(Append(s, e)) = Len(s) + 1
         /\ Append(s, e)[Len(s) + 1] = e
         /\ \A i \in 1..Len(s) : Append(s, e)[i] = s[i]
         /\ ToSet(Append(s, e)) = ToSet(s) \cup {e}
<1>1. s \in Seq(ToSet(s) \cup {e})
  BY DEF IsSequence
<1>2. /\ Append(s, e) \in Seq(ToSet(s) \cup {e})
      /\ DOMAIN s = 1..Len(s) /\ Len(s) \in Nat
      /\ Len(Append(s, e)) = Len(s) + 1 /\ DOMAIN Append(s, e) = 1..(Len(s) + 1)
      /\ Append(s, e)[Len(s) + 1] = e /\ \A i \in 1..Len(s) : Append(s, e)[i] = s[i]
  BY <1>1
<1>3. ToSet(Append(s, e)) = ToSet(s) \cup {e}
  BY <1>2 DEF ToSet
<1> QED BY <1>2, <1>3 DEF IsSequence

-----------------------------------------------------------------------------
(* Cardinalities *)

\* Sets whose elements correspond to each other one by one are of one size.
LEMMA Matching ==
  ASSUME NEW S, NEW T, IsFiniteSet(S), NEW g, \A s \in S : g[s] \in T,
         \A r, s \in S : g[r] = g[s] => r = s,
         \A t \in T : \E s \in S : g[s] = t
  PROVE  IsFiniteSet(T) /\ Cardinality(T) = Cardinality(S)
<1> DEFINE f == [s \in S |-> g[s]]
<1>1. f \in Bijection(S, T)
  BY DEF Bijection, Injection, IsInjective, Surjection
<1>2. ExistsBijection(S, T)
  BY <1>1 DEF ExistsBijection
<1> QED BY <1>2, FS_Bijection

LEMMA Disjoint ==
  ASSUME NEW S, NEW T, IsFiniteSet(S), IsFiniteSet(T), S \cap T = {}
  PROVE  /\ IsFiniteSet(S \cup T)
         /\ Cardinality(S \cup T) = Cardinality(S) + Cardinality(T)
<1>1. Cardinality(S) \in Nat /\ Cardinality(T) \in Nat /\ Cardinality(S \cap T) = 0
  BY FS_CardinalityType, FS_EmptySet
<1>2. IsFiniteSet(S \cup T) /\ Cardinality(S \cup T) = Cardinality(S) + Cardinality(T) - Cardinality(S \cap T)
  BY FS_Union
<1> QED BY <1>1, <1>2

\* Adding up, class by class, how many elements each class has.
LEMMA SumOfClasses ==
  ASSUME NEW M, IsFiniteSet(M), NEW K, NEW key, \A m \in M : key[m] \in K,
         NEW size, \A k \in K : size[k] = Cardinality({m \in M : key[m] = k})
  PROVE  Cardinality(UNION {{k} \X (1..size[k]) : k \in K}) = Cardinality(M)
<1> DEFINE C(k) == {m \in M : key[m] = k}
           U == UNION {{k} \X (1..size[k]) : k \in K}
           b == [k \in K |-> CHOOSE f : f \in Bijection(1..size[k], C(k))]
           g == [m \in M |-> CHOOSE u \in U : u[1] = key[m] /\ b[u[1]][u[2]] = m]
<1>1. ASSUME NEW k \in K
      PROVE  b[k] \in Bijection(1..size[k], C(k))
  <2>1. IsFiniteSet(C(k)) /\ size[k] = Cardinality(C(k))
    BY FS_Subset
  <2>2. size[k] \in Nat
    BY <2>1, FS_CardinalityType
  <2>3. IsFiniteSet(1..size[k]) /\ Cardinality(1..size[k]) = size[k]
    BY <2>2, FS_Interval
  <2>4. ExistsBijection(1..size[k], C(k))
    BY <2>1, <2>3, FS_SameCardinalityBij
  <2> HIDE DEF C
  <2> QED BY <2>4 DEF ExistsBijection
<1> HIDE DEF b
<1>2. \A k \in K : /\ \A i \in 1..size[k] : b[k][i] \in M /\ key[b[k][i]] = k
                   /\ \A i, j \in 1..size[k] : b[k][i] = b[k][j] => i = j
                   /\ \A m \in M : key[m] = k => \E i \in 1..size[k] : b[k][i] = m
  <2> SUFFICES ASSUME NEW k \in K
               PROVE  /\ \A i \in 1..size[k] : b[k][i] \in M /\ key[b[k][i]] = k
                      /\ \A i, j \in 1..size[k] : b[k][i] = b[k][j] => i = j
                      /\ \A m \in M : key[m] = k => \E i \in 1..size[k] : b[k][i] = m
    OBVIOUS
  <2> DEFINE f == b[k]
             D == 1..size[k]
  <2>1. f \in Bijection(D, C(k))
    BY <1>1
  <2> HIDE DEF f, D
  <2>2. \A m : m \in C(k) <=> m \in M /\ key[m] = k
    OBVIOUS
  <2> HIDE DEF C
  <2>3. /\ f \in [D -> C(k)]
        /\ \A i, j \in D : f[i] = f[j] => i = j
        /\ \A m \in C(k) : \E i \in D : f[i] = m
    BY <2>1 DEF Bijection, Injection, IsInjective, Surjection
  <2>4. /\ \A i \in D : f[i] \in M /\ key[f[i]] = k
        /\ \A m \in M : key[m] = k => \E i \in D : f[i] = m
    BY <2>2, <2>3
  <2> QED BY <2>3, <2>4 DEF f, D
<1>3. \A u : u \in U <=> \E k \in K : \E i \in 1..size[k] : u = <<k, i>>
  OBVIOUS
<1> HIDE DEF U
<1>4. \A m \in M : \E u \in U : u[1] = key[m] /\ b[u[1]][u[2]] = m
  <2> SUFFICES ASSUME NEW m \in M PROVE \E u \in U : u[1] = key[m] /\ b[u[1]][u[2]] = m
    OBVIOUS
  <2>1. PICK i \in 1..size[key[m]] : b[key[m]][i] = m
    BY <1>2
  <2>2. <<key[m], i>> \in U
    BY <1>3
  <2> QED BY <2>1, <2>2
<1>5. \A m \in M : g[m] \in U /\ g[m][1] = key[m] /\ b[g[m][1]][g[m][2]] = m
  BY <1>4
<1> HIDE DEF g
<1>6. \A m, n \in M : g[m] = g[n] => m = n
  BY <1>5
<1>7. \A u \in U : \E m \in M : g[m] = u
  <2> SUFFICES ASSUME NEW u \in U PROVE \E m \in M : g[m] = u
    OBVIOUS
  <2>0. PICK k \in K : \E i \in 1..size[k] : u = <<k, i>>
    BY <1>3
  <2>1. PICK i \in 1..size[k] : u = <<k, i>>
    BY <2>0
  <2> DEFINE m == b[k][i]
  <2>2. m \in M /\ key[m] = k
    BY <1>2
  <2> HIDE DEF m
  <2>3. PICK l, j : l \in K /\ j \in 1..size[l] /\ g[m] = <<l, j>>
    BY <1>3, <1>5, <2>2
  <2>4. l = k /\ b[l][j] = m
    BY <1>5, <2>2, <2>3
  <2>5. j = i
    BY <1>2, <2>3, <2>4 DEF m
  <2> QED BY <2>1, <2>2, <2>3, <2>4, <2>5
<1>8. \A m \in M : g[m] \in U
  BY <1>5
<1>9. Cardinality(U) = Cardinality(M)
  BY <1>6, <1>7, <1>8, Matching
<1> QED BY <1>9 DEF U
=============================================================================
