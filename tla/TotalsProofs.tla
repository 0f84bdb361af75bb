----------------------------- MODULE TotalsProofs -----------------------------
(***************************************************************************)
(* Theorems about what the program adds up: the totals and charts of       *)
(* Aggregate, and the charges of ClaudeDedupe.                             *)
(*                                                                         *)
(* Every sum is one of the community modules' SumFunctionOnSet, a fold by  *)
(* CHOOSE, so a table of its values for all subsets is shown to exist and  *)
(* to be the only one, and from it that sums can be split, compared and    *)
(* renamed.  aggregate is then a sum for each of its rows (RowIs), and     *)
(* each invariant one about the sets of events the rows count (Told),      *)
(* which RowsOf decides.  dedupeClaude keeps, from candidate to candidate, *)
(* a map from snapshots to places in its result that has two at one place  *)
(* just when they are of one response (Placed).                            *)
(***************************************************************************)
EXTENDS Aggregate, ClaudeDedupe, FiniteSetTheorems, WellFoundedInduction, TLAPS

-----------------------------------------------------------------------------
(* Induction: over the naturals and over the subsets of a finite set.      *)

\* A set of naturals that is not empty has a least element.
LEMMA Least ==
    ASSUME NEW S \in SUBSET Nat, S # {}
    PROVE  \E x \in S : \A y \in S : x <= y
<1> DEFINE R == {ss \in Nat \X Nat : ss[1] < ss[2]}
<1>1. IsWellFoundedOn(R, Nat)
    BY NatLessThanWellFounded, Zenon DEF OpToRel
<1>2. \A x, y \in Nat : y < x => <<y, x>> \in R
    OBVIOUS
<1> HIDE DEF R
<1>3. PICK x \in S : \A y \in S : ~(<<y, x>> \in R)
    BY <1>1, WFMin
<1>4. \A y \in S : ~(y < x)
    BY <1>2, <1>3
<1>5. x \in Nat /\ \A y \in S : y \in Nat
    OBVIOUS
<1> QED BY <1>4, <1>5

\* What is so at the start and stays so with every step is always so.
LEMMA Steps ==
    ASSUME NEW P, 0 \in P, \A n \in Nat : n \in P => n + 1 \in P
    PROVE  Nat \subseteq P
<1> SUFFICES ASSUME Nat \ P # {} PROVE FALSE
    OBVIOUS
<1>1. PICK n \in Nat \ P : \A m \in Nat \ P : n <= m
    BY Least
<1>2. n # 0
    OBVIOUS
<1>3. n - 1 \in Nat /\ ~(n <= n - 1) /\ n = (n - 1) + 1
    BY <1>2
<1>4. n - 1 \in P
    BY <1>1, <1>3
<1> QED BY <1>3, <1>4, <1>1

\* The size of a finite set, of its subsets, and of it without one element.
LEMMA SizeOf ==
    ASSUME NEW S, IsFiniteSet(S)
    PROVE  /\ Cardinality(S) \in Nat
           /\ Cardinality(S) = 0 <=> S = {}
           /\ \A T \in SUBSET S : IsFiniteSet(T) /\ Cardinality(T) \in Nat /\ Cardinality(T) <= Cardinality(S)
           /\ \A x \in S : /\ IsFiniteSet(S \ {x})
                           /\ Cardinality(S \ {x}) \in Nat
                           /\ Cardinality(S \ {x}) = Cardinality(S) - 1
    BY FS_CardinalityType, FS_EmptySet, FS_Subset, FS_RemoveElement

\* What is so of the empty set and stays so with every element added is so
\* of the whole.
LEMMA SetSteps ==
    ASSUME NEW S, IsFiniteSet(S), NEW P, {} \in P,
           \A T \in SUBSET S, x \in S : T \in P /\ x \notin T => T \cup {x} \in P
    PROVE  S \in P
<1> DEFINE Q == {n \in Nat : \A T \in SUBSET S : Cardinality(T) = n => T \in P}
<1>1. 0 \in Q
    BY SizeOf
<1>2. ASSUME NEW n \in Nat, n \in Q PROVE n + 1 \in Q
    <2> SUFFICES ASSUME NEW T \in SUBSET S, Cardinality(T) = n + 1 PROVE T \in P
        OBVIOUS
    <2>1. IsFiniteSet(T) /\ T # {}
        BY SizeOf
    <2>2. PICK x \in T : TRUE
        BY <2>1
    <2>3. T \ {x} \in P
        BY <2>1, <1>2, SizeOf
    <2>4. T = (T \ {x}) \cup {x}
        OBVIOUS
    <2> QED BY <2>3, <2>4
<1> HIDE DEF Q
<1>3. Nat \subseteq Q
    BY <1>1, <1>2, Steps
<1> QED BY <1>3, SizeOf DEF Q

\* The table of sums MapThenFoldSet computes: of s, those of the subsets in D.
IsSum(g, f, D) == g = [s \in D |-> IF s = {} THEN 0
                                   ELSE LET x == CHOOSE x \in s : TRUE IN f[x] + g[s \ {x}]]

\* The subsets of at most n elements.
UpTo(S, n) == {s \in SUBSET S : Cardinality(s) <= n}

\* There is a table of sums, although each needs those of smaller sets.
LEMMA SumExists ==
    ASSUME NEW f, NEW S, IsFiniteSet(S)
    PROVE  \E g : IsSum(g, f, SUBSET S)
<1> DEFINE P == {n \in Nat : \E g : IsSum(g, f, UpTo(S, n))}
<1>1. 0 \in P
    <2>1. \A s \in UpTo(S, 0) : s = {}
        BY SizeOf DEF UpTo
    <2> DEFINE g == [s \in UpTo(S, 0) |-> 0]
    <2>2. IsSum(g, f, UpTo(S, 0))
        BY <2>1 DEF IsSum
    <2> QED BY <2>2
<1>2. ASSUME NEW n \in Nat, n \in P PROVE n + 1 \in P
    <2>1. PICK g : IsSum(g, f, UpTo(S, n))
        BY <1>2
    <2> DEFINE Part(s) == CHOOSE x \in s : TRUE
    <2> DEFINE h == [s \in UpTo(S, n + 1) |->
                        IF s = {} THEN 0 ELSE f[Part(s)] + g[s \ {Part(s)}]]
    <2>2. ASSUME NEW s \in UpTo(S, n + 1), s # {}
          PROVE  /\ s \ {Part(s)} \in UpTo(S, n) /\ s \ {Part(s)} \in UpTo(S, n + 1)
        <3>1. IsFiniteSet(s) /\ Cardinality(s) <= n + 1 /\ Cardinality(s) \in Nat
            BY SizeOf DEF UpTo
        <3>2. Part(s) \in s
            BY <2>2
        <3>3. Cardinality(s \ {Part(s)}) \in Nat /\ Cardinality(s \ {Part(s)}) = Cardinality(s) - 1
            BY <3>1, <3>2, SizeOf
        <3>4. s \ {Part(s)} \in SUBSET S
            BY DEF UpTo
        <3>5. Cardinality(s \ {Part(s)}) <= n /\ Cardinality(s \ {Part(s)}) <= n + 1
            BY <3>1, <3>3
        <3> QED BY <3>4, <3>5 DEF UpTo
    <2>3. ASSUME NEW s \in UpTo(S, n) PROVE s \in UpTo(S, n + 1) /\ h[s] = g[s]
        <3>1. s \in UpTo(S, n + 1)
            BY SizeOf DEF UpTo
        <3>2. g[s] = IF s = {} THEN 0 ELSE f[Part(s)] + g[s \ {Part(s)}]
            BY <2>1 DEF IsSum
        <3> QED BY <3>1, <3>2
    <2>4. ASSUME NEW s \in UpTo(S, n + 1)
          PROVE  h[s] = IF s = {} THEN 0 ELSE f[Part(s)] + h[s \ {Part(s)}]
        <3> HIDE DEF Part
        <3>1. h[s] = IF s = {} THEN 0 ELSE f[Part(s)] + g[s \ {Part(s)}]
            OBVIOUS
        <3> HIDE DEF h
        <3>2. s # {} => h[s \ {Part(s)}] = g[s \ {Part(s)}]
            BY <2>2, <2>3
        <3> QED BY <3>1, <3>2
    <2>5. IsSum(h, f, UpTo(S, n + 1))
        <3> HIDE DEF h
        <3>1. h = [s \in UpTo(S, n + 1) |-> h[s]]
            BY DEF h
        <3> QED BY <2>4, <3>1 DEF IsSum
    <2> QED BY <2>5
<1> HIDE DEF P
<1>3. Cardinality(S) \in P
    BY <1>1, <1>2, Steps, SizeOf
<1>4. UpTo(S, Cardinality(S)) = SUBSET S
    BY SizeOf DEF UpTo
<1> QED BY <1>3, <1>4 DEF P

\* Two tables agree where both have an entry.
LEMMA SumUnique ==
    ASSUME NEW f, NEW S, IsFiniteSet(S), NEW T \in SUBSET S, NEW g, NEW h,
           IsSum(g, f, SUBSET S), IsSum(h, f, SUBSET T)
    PROVE  \A s \in SUBSET T : g[s] = h[s]
<1> DEFINE P == {n \in Nat : \A s \in SUBSET T : Cardinality(s) = n => g[s] = h[s]}
<1>0. \A s \in SUBSET T : s \in SUBSET S /\ IsFiniteSet(s)
    BY SizeOf
<1>1. 0 \in P
    <2>1. \A s \in SUBSET T : Cardinality(s) = 0 => s = {}
        BY <1>0, SizeOf
    <2>2. g[{}] = 0 /\ h[{}] = 0
        BY DEF IsSum
    <2> QED BY <2>1, <2>2
<1>2. ASSUME NEW n \in Nat, n \in P PROVE n + 1 \in P
    <2> SUFFICES ASSUME NEW s \in SUBSET T, Cardinality(s) = n + 1 PROVE g[s] = h[s]
        OBVIOUS
    <2> DEFINE x == CHOOSE x \in s : TRUE
    <2>1. s # {} /\ x \in s
        BY <1>0, SizeOf
    <2>2. g[s] = f[x] + g[s \ {x}] /\ h[s] = f[x] + h[s \ {x}]
        BY <1>0, <2>1 DEF IsSum
    <2> HIDE DEF x
    <2>3. Cardinality(s \ {x}) = n /\ s \ {x} \in SUBSET T
        <3>1. IsFiniteSet(s) /\ Cardinality(s) - 1 = n
            BY <1>0
        <3>2. Cardinality(s \ {x}) = Cardinality(s) - 1
            BY <3>1, <2>1, SizeOf
        <3> QED BY <3>1, <3>2
    <2> QED BY <1>2, <2>2, <2>3
<1> HIDE DEF P
<1>3. Nat \subseteq P
    BY <1>1, <1>2, Steps
<1>4. \A s \in SUBSET T : Cardinality(s) \in Nat
    BY <1>0, SizeOf
<1> QED BY <1>3, <1>4 DEF P

\* SumFunctionOnSet is the entry of such a table.
LEMMA SumIs ==
    ASSUME NEW f, NEW S, IsFiniteSet(S)
    PROVE  \E g : IsSum(g, f, SUBSET S) /\ SumFunctionOnSet(f, S) = g[S]
<1> DEFINE iter == CHOOSE g : IsSum(g, f, SUBSET S)
<1>1. IsSum(iter, f, SUBSET S)
    BY SumExists
<1>2. SumFunctionOnSet(f, S) = iter[S]
    BY Zenon DEF SumFunctionOnSet, FoldFunctionOnSet, MapThenFoldSet, IsSum
<1> QED BY <1>1, <1>2

\* The sum of nothing.
LEMMA SumEmpty == ASSUME NEW f PROVE SumFunctionOnSet(f, {}) = 0
<1>1. IsFiniteSet({}) /\ {} \in SUBSET {}
    BY FS_EmptySet
<1>2. PICK g : IsSum(g, f, SUBSET {}) /\ SumFunctionOnSet(f, {}) = g[{}]
    BY <1>1, SumIs
<1> QED BY <1>1, <1>2 DEF IsSum

\* The element the definition chooses is added to the sum of the others.
LEMMA SumChosen ==
    ASSUME NEW f, NEW S, IsFiniteSet(S), S # {}
    PROVE  \E x \in S : SumFunctionOnSet(f, S) = f[x] + SumFunctionOnSet(f, S \ {x})
<1> DEFINE x == CHOOSE x \in S : TRUE
<1>1. x \in S /\ IsFiniteSet(S \ {x}) /\ S \ {x} \in SUBSET S
    BY SizeOf
<1>2. PICK g : IsSum(g, f, SUBSET S) /\ SumFunctionOnSet(f, S) = g[S]
    BY SumIs
<1>3. g[S] = f[x] + g[S \ {x}]
    BY <1>2 DEF IsSum
<1> HIDE DEF x
<1>4. PICK h : IsSum(h, f, SUBSET (S \ {x})) /\ SumFunctionOnSet(f, S \ {x}) = h[S \ {x}]
    BY <1>1, SumIs
<1>5. g[S \ {x}] = h[S \ {x}]
    <2> DEFINE T == S \ {x}
    <2>1. T \in SUBSET S /\ T \in SUBSET T /\ IsSum(h, f, SUBSET T)
        BY <1>4
    <2> HIDE DEF T
    <2>2. g[T] = h[T]
        BY <1>2, <2>1, SumUnique
    <2> QED BY <2>2 DEF T
<1> QED BY <1>1, <1>2, <1>3, <1>4, <1>5

\* The values that are added are integers.
Ints(f, S) == \A x \in S : f[x] \in Int

\* It makes no difference which element is chosen.
LEMMA SumSplit ==
    ASSUME NEW f, NEW S, IsFiniteSet(S), Ints(f, S)
    PROVE  /\ SumFunctionOnSet(f, S) \in Int
           /\ \A x \in S : SumFunctionOnSet(f, S) = f[x] + SumFunctionOnSet(f, S \ {x})
<1> DEFINE Good(T) == /\ SumFunctionOnSet(f, T) \in Int
                      /\ \A x \in T : SumFunctionOnSet(f, T) = f[x] + SumFunctionOnSet(f, T \ {x})
<1> DEFINE P == {n \in Nat : \A T \in SUBSET S : Cardinality(T) <= n => Good(T)}
<1>1. 0 \in P
    <2>1. \A T \in SUBSET S : Cardinality(T) <= 0 => T = {}
        BY SizeOf
    <2>2. Good({})
        BY SumEmpty
    <2> QED BY <2>1, <2>2
<1>2. ASSUME NEW n \in Nat, n \in P PROVE n + 1 \in P
    <2> SUFFICES ASSUME NEW T \in SUBSET S, Cardinality(T) <= n + 1 PROVE Good(T)
        OBVIOUS
    <2>0. CASE T = {}
        BY <2>0, SumEmpty
    <2>1. SUFFICES ASSUME T # {} PROVE Good(T)
        BY <2>0
    <2>2. IsFiniteSet(T)
        BY SizeOf
    <2>3. ASSUME NEW x \in T
          PROVE  T \ {x} \in SUBSET S /\ f[x] \in Int /\ Good(T \ {x})
        <3>1. Cardinality(T \ {x}) = Cardinality(T) - 1 /\ Cardinality(T) \in Nat
            BY <2>2, SizeOf
        <3>2. T \ {x} \in SUBSET S /\ f[x] \in Int /\ Cardinality(T \ {x}) <= n
            BY <3>1 DEF Ints
        <3> HIDE DEF Good
        <3>3. Good(T \ {x})
            BY <1>2, <3>2
        <3> QED BY <3>2, <3>3
    <2>4. PICK c \in T : SumFunctionOnSet(f, T) = f[c] + SumFunctionOnSet(f, T \ {c})
        BY <2>1, <2>2, SumChosen
    <2>5. SumFunctionOnSet(f, T) \in Int
        BY <2>3, <2>4
    <2>6. ASSUME NEW x \in T, x # c
          PROVE  SumFunctionOnSet(f, T) = f[x] + SumFunctionOnSet(f, T \ {x})
        <3>1. (T \ {c}) \ {x} = (T \ {x}) \ {c}
            OBVIOUS
        <3>2. SumFunctionOnSet(f, T \ {c}) = f[x] + SumFunctionOnSet(f, (T \ {c}) \ {x})
            BY <2>3, <2>6
        <3>3. SumFunctionOnSet(f, T \ {x}) = f[c] + SumFunctionOnSet(f, (T \ {x}) \ {c})
            BY <2>3, <2>6
        <3>4. SumFunctionOnSet(f, (T \ {c}) \ {x}) \in Int
            <4> HIDE DEF Good, P
            <4>1. Cardinality(T) \in Nat /\ IsFiniteSet(T \ {c}) /\ Cardinality(T \ {c}) = Cardinality(T) - 1
                BY <2>2, SizeOf
            <4>2. Cardinality((T \ {c}) \ {x}) = Cardinality(T \ {c}) - 1
                BY <4>1, <2>6, SizeOf
            <4>3. Good((T \ {c}) \ {x})
                BY <1>2, <4>1, <4>2 DEF P
            <4> QED BY <4>3 DEF Good
        <3> QED BY <2>3, <2>4, <2>6, <3>1, <3>2, <3>3, <3>4
    <2> QED BY <2>4, <2>5, <2>6
<1> HIDE DEF P
<1>3. Nat \subseteq P
    BY <1>1, <1>2, Steps
<1> HIDE DEF Good
<1>4. Cardinality(S) \in P /\ Cardinality(S) \in Nat
    BY <1>3, SizeOf
<1>5. Good(S)
    BY <1>4 DEF P
<1> QED BY <1>5 DEF Good

\* The sum with one element more.
LEMMA SumAdd ==
    ASSUME NEW f, NEW S, IsFiniteSet(S), NEW x, x \notin S, f[x] \in Int, Ints(f, S)
    PROVE  /\ SumFunctionOnSet(f, S) \in Int
           /\ SumFunctionOnSet(f, S \cup {x}) = SumFunctionOnSet(f, S) + f[x]
<1>1. IsFiniteSet(S \cup {x}) /\ Ints(f, S \cup {x})
    BY FS_AddElement DEF Ints
<1>2. (S \cup {x}) \ {x} = S
    OBVIOUS
<1>3. SumFunctionOnSet(f, S) \in Int
    BY SumSplit
<1>4. SumFunctionOnSet(f, S \cup {x}) = f[x] + SumFunctionOnSet(f, (S \cup {x}) \ {x})
    BY <1>1, SumSplit
<1>5. SumFunctionOnSet(f, (S \cup {x}) \ {x}) = SumFunctionOnSet(f, S)
    BY <1>2, Zenon
<1> QED BY <1>3, <1>4, <1>5

\* Equal values have equal sums,
LEMMA SumEqual ==
    ASSUME NEW f, NEW g, NEW S, IsFiniteSet(S), Ints(f, S), \A x \in S : f[x] = g[x]
    PROVE  SumFunctionOnSet(f, S) = SumFunctionOnSet(g, S)
<1> DEFINE P == {T \in SUBSET S : SumFunctionOnSet(f, T) = SumFunctionOnSet(g, T)}
<1>1. {} \in P
    BY SumEmpty
<1>2. ASSUME NEW T \in SUBSET S, NEW x \in S, T \in P, x \notin T PROVE T \cup {x} \in P
    <2>1. IsFiniteSet(T) /\ Ints(f, T) /\ Ints(g, T) /\ f[x] \in Int /\ g[x] \in Int
        BY SizeOf DEF Ints
    <2>2. /\ SumFunctionOnSet(f, T \cup {x}) = SumFunctionOnSet(f, T) + f[x]
          /\ SumFunctionOnSet(g, T \cup {x}) = SumFunctionOnSet(g, T) + g[x]
        BY <1>2, <2>1, SumAdd
    <2> QED BY <1>2, <2>2
<1> HIDE DEF P
<1>3. S \in P
    BY <1>1, <1>2, SetSteps
<1> QED BY <1>3 DEF P

\* smaller ones smaller sums,
LEMMA SumAtMost ==
    ASSUME NEW f, NEW g, NEW S, IsFiniteSet(S), Ints(f, S), Ints(g, S),
           \A x \in S : f[x] <= g[x]
    PROVE  SumFunctionOnSet(f, S) <= SumFunctionOnSet(g, S)
<1> DEFINE P == {T \in SUBSET S : SumFunctionOnSet(f, T) <= SumFunctionOnSet(g, T)}
<1>1. {} \in P
    BY SumEmpty
<1>2. ASSUME NEW T \in SUBSET S, NEW x \in S, T \in P, x \notin T PROVE T \cup {x} \in P
    <2>1. IsFiniteSet(T) /\ Ints(f, T) /\ Ints(g, T) /\ f[x] \in Int /\ g[x] \in Int
        BY SizeOf DEF Ints
    <2>2. /\ SumFunctionOnSet(f, T \cup {x}) = SumFunctionOnSet(f, T) + f[x]
          /\ SumFunctionOnSet(g, T \cup {x}) = SumFunctionOnSet(g, T) + g[x]
          /\ SumFunctionOnSet(f, T) \in Int /\ SumFunctionOnSet(g, T) \in Int
        BY <1>2, <2>1, SumAdd
    <2> QED BY <1>2, <2>1, <2>2
<1> HIDE DEF P
<1>3. S \in P
    BY <1>1, <1>2, SetSteps
<1> QED BY <1>3 DEF P

\* the sum of two added is the two sums added,
LEMMA SumPlus ==
    ASSUME NEW f, NEW g, NEW h, NEW S, IsFiniteSet(S), Ints(f, S), Ints(g, S),
           \A x \in S : h[x] = f[x] + g[x]
    PROVE  SumFunctionOnSet(h, S) = SumFunctionOnSet(f, S) + SumFunctionOnSet(g, S)
<1> DEFINE P == {T \in SUBSET S : SumFunctionOnSet(h, T) =
                                    SumFunctionOnSet(f, T) + SumFunctionOnSet(g, T)}
<1>1. {} \in P
    BY SumEmpty
<1>2. ASSUME NEW T \in SUBSET S, NEW x \in S, T \in P, x \notin T PROVE T \cup {x} \in P
    <2>1. /\ IsFiniteSet(T) /\ Ints(f, T) /\ Ints(g, T) /\ Ints(h, T)
          /\ f[x] \in Int /\ g[x] \in Int /\ h[x] \in Int /\ h[x] = f[x] + g[x]
        BY SizeOf DEF Ints
    <2>2. /\ SumFunctionOnSet(f, T \cup {x}) = SumFunctionOnSet(f, T) + f[x]
          /\ SumFunctionOnSet(g, T \cup {x}) = SumFunctionOnSet(g, T) + g[x]
          /\ SumFunctionOnSet(h, T \cup {x}) = SumFunctionOnSet(h, T) + h[x]
          /\ SumFunctionOnSet(f, T) \in Int /\ SumFunctionOnSet(g, T) \in Int
        BY <1>2, <2>1, SumAdd
    <2> QED BY <1>2, <2>1, <2>2
<1> HIDE DEF P
<1>3. S \in P
    BY <1>1, <1>2, SetSteps
<1> QED BY <1>3 DEF P

\* and a factor can be taken out.
LEMMA SumTimes ==
    ASSUME NEW f, NEW g, NEW S, IsFiniteSet(S), Ints(f, S), NEW c \in Int,
           \A x \in S : g[x] = c * f[x]
    PROVE  SumFunctionOnSet(g, S) = c * SumFunctionOnSet(f, S)
<1> DEFINE P == {T \in SUBSET S : SumFunctionOnSet(g, T) = c * SumFunctionOnSet(f, T)}
<1>1. {} \in P
    BY SumEmpty
<1>2. ASSUME NEW T \in SUBSET S, NEW x \in S, T \in P, x \notin T PROVE T \cup {x} \in P
    <2>1. /\ IsFiniteSet(T) /\ Ints(f, T) /\ Ints(g, T)
          /\ f[x] \in Int /\ g[x] \in Int /\ g[x] = c * f[x]
        BY SizeOf DEF Ints
    <2>2. /\ SumFunctionOnSet(f, T \cup {x}) = SumFunctionOnSet(f, T) + f[x]
          /\ SumFunctionOnSet(g, T \cup {x}) = SumFunctionOnSet(g, T) + g[x]
          /\ SumFunctionOnSet(f, T) \in Int /\ SumFunctionOnSet(g, T) \in Int
        BY <1>2, <2>1, SumAdd
    <2>3. \A a, b \in Int : c * (a + b) = c * a + c * b
        OBVIOUS
    <2>4. c * (SumFunctionOnSet(f, T) + f[x]) = c * SumFunctionOnSet(f, T) + c * f[x]
        BY <2>1, <2>2, <2>3
    <2> QED BY <1>2, <2>1, <2>2, <2>4
<1> HIDE DEF P
<1>3. S \in P
    BY <1>1, <1>2, SetSteps
<1> QED BY <1>3 DEF P

\* The sum over two sets that share nothing.
LEMMA SumUnion ==
    ASSUME NEW f, NEW S, NEW T, IsFiniteSet(S), IsFiniteSet(T), S \cap T = {},
           Ints(f, S \cup T)
    PROVE  SumFunctionOnSet(f, S \cup T) = SumFunctionOnSet(f, S) + SumFunctionOnSet(f, T)
<1> DEFINE P == {U \in SUBSET T : SumFunctionOnSet(f, S \cup U) =
                                    SumFunctionOnSet(f, S) + SumFunctionOnSet(f, U)}
<1>0. SumFunctionOnSet(f, S) \in Int /\ Ints(f, S)
    BY SumSplit DEF Ints
<1>1. {} \in P
    <2>1. S \cup {} = S
        OBVIOUS
    <2> QED BY <1>0, <2>1, SumEmpty
<1>2. ASSUME NEW U \in SUBSET T, NEW x \in T, U \in P, x \notin U PROVE U \cup {x} \in P
    <2>1. /\ IsFiniteSet(U) /\ Ints(f, U) /\ Ints(f, S \cup U)
          /\ f[x] \in Int /\ x \notin S \cup U /\ U \cup {x} \in SUBSET T
        BY <1>2, SizeOf DEF Ints
    <2>2. IsFiniteSet(S \cup U)
        BY <2>1, FS_Union
    <2>3. /\ SumFunctionOnSet(f, U \cup {x}) = SumFunctionOnSet(f, U) + f[x]
          /\ SumFunctionOnSet(f, U) \in Int
        BY <1>2, <2>1, SumAdd
    <2>4. SumFunctionOnSet(f, (S \cup U) \cup {x}) = SumFunctionOnSet(f, S \cup U) + f[x]
        BY <2>1, <2>2, SumAdd
    <2>5. (S \cup U) \cup {x} = S \cup (U \cup {x})
        OBVIOUS
    <2>6. SumFunctionOnSet(f, S \cup (U \cup {x})) = SumFunctionOnSet(f, S \cup U) + f[x]
        BY <2>4, <2>5, Zenon
    <2> QED BY <1>0, <1>2, <2>1, <2>3, <2>6
<1> HIDE DEF P
<1>3. T \in P
    BY <1>1, <1>2, SetSteps
<1> QED BY <1>3 DEF P

\* The sum of zeros.
LEMMA SumZero ==
    ASSUME NEW f, NEW S, IsFiniteSet(S), \A x \in S : f[x] = 0
    PROVE  SumFunctionOnSet(f, S) = 0
<1> DEFINE P == {T \in SUBSET S : SumFunctionOnSet(f, T) = 0}
<1>1. {} \in P
    BY SumEmpty
<1>2. ASSUME NEW T \in SUBSET S, NEW x \in S, T \in P, x \notin T PROVE T \cup {x} \in P
    <2>1. IsFiniteSet(T) /\ Ints(f, T) /\ f[x] = 0
        BY SizeOf DEF Ints
    <2> QED BY <1>2, <2>1, SumAdd
<1> HIDE DEF P
<1>3. S \in P
    BY <1>1, <1>2, SetSteps
<1> QED BY <1>3 DEF P

\* The sum of naturals.
LEMMA SumNat ==
    ASSUME NEW f, NEW S, IsFiniteSet(S), \A x \in S : f[x] \in Nat
    PROVE  SumFunctionOnSet(f, S) \in Nat
<1> DEFINE P == {T \in SUBSET S : SumFunctionOnSet(f, T) \in Nat}
<1>1. {} \in P
    BY SumEmpty
<1>2. ASSUME NEW T \in SUBSET S, NEW x \in S, T \in P, x \notin T PROVE T \cup {x} \in P
    <2>1. IsFiniteSet(T) /\ Ints(f, T) /\ f[x] \in Nat
        BY SizeOf DEF Ints
    <2> QED BY <1>2, <2>1, SumAdd
<1> HIDE DEF P
<1>3. S \in P
    BY <1>1, <1>2, SetSteps
<1> QED BY <1>3 DEF P

\* Of naturals, fewer have no larger sum.
LEMMA SumWithin ==
    ASSUME NEW f, NEW S, IsFiniteSet(S), NEW T \in SUBSET S, \A x \in S : f[x] \in Nat
    PROVE  SumFunctionOnSet(f, T) <= SumFunctionOnSet(f, S)
<1>1. IsFiniteSet(T) /\ IsFiniteSet(S \ T) /\ T \cup (S \ T) = S /\ T \cap (S \ T) = {}
    BY SizeOf
<1>2. Ints(f, T \cup (S \ T))
    BY DEF Ints
<1>3. SumFunctionOnSet(f, T \cup (S \ T)) = SumFunctionOnSet(f, T) + SumFunctionOnSet(f, S \ T)
    BY <1>1, <1>2, SumUnion
<1>4. SumFunctionOnSet(f, T) \in Nat /\ SumFunctionOnSet(f, S \ T) \in Nat
    BY <1>1, SumNat
<1>5. SumFunctionOnSet(f, T \cup (S \ T)) = SumFunctionOnSet(f, S)
    BY <1>1, Zenon
<1> QED BY <1>3, <1>4, <1>5

\* Elements that count nothing can be left out.
LEMMA SumSupport ==
    ASSUME NEW f, NEW S, IsFiniteSet(S), NEW T \in SUBSET S, Ints(f, T),
           \A x \in S \ T : f[x] = 0
    PROVE  SumFunctionOnSet(f, S) = SumFunctionOnSet(f, T)
<1>1. IsFiniteSet(T) /\ IsFiniteSet(S \ T) /\ T \cup (S \ T) = S /\ T \cap (S \ T) = {}
    BY SizeOf
<1>2. Ints(f, T \cup (S \ T))
    BY DEF Ints
<1>3. SumFunctionOnSet(f, T \cup (S \ T)) = SumFunctionOnSet(f, T) + SumFunctionOnSet(f, S \ T)
    BY <1>1, <1>2, SumUnion
<1>4. SumFunctionOnSet(f, T) \in Int /\ SumFunctionOnSet(f, S \ T) = 0
    BY <1>1, SumZero, SumSplit
<1>5. SumFunctionOnSet(f, T \cup (S \ T)) = SumFunctionOnSet(f, S)
    BY <1>1, Zenon
<1> QED BY <1>3, <1>4, <1>5

\* One value changes.
LEMMA SumChange ==
    ASSUME NEW f, NEW g, NEW S, IsFiniteSet(S), Ints(f, S), NEW x \in S, g[x] \in Int,
           \A y \in S \ {x} : g[y] = f[y]
    PROVE  SumFunctionOnSet(g, S) = SumFunctionOnSet(f, S) - f[x] + g[x]
<1>1. IsFiniteSet(S \ {x}) /\ Ints(f, S \ {x}) /\ Ints(g, S) /\ f[x] \in Int
    BY SizeOf DEF Ints
<1>2. SumFunctionOnSet(f, S \ {x}) = SumFunctionOnSet(g, S \ {x})
    BY <1>1, SumEqual
<1>3. /\ SumFunctionOnSet(f, S) = f[x] + SumFunctionOnSet(f, S \ {x})
      /\ SumFunctionOnSet(g, S) = g[x] + SumFunctionOnSet(g, S \ {x})
    BY <1>1, SumSplit
<1>4. SumFunctionOnSet(f, S \ {x}) \in Int
    BY <1>1, SumSplit
<1> QED BY <1>1, <1>2, <1>3, <1>4

\* The same terms under other names.
LEMMA SumImage ==
    ASSUME NEW f, NEW g, NEW h, NEW S, IsFiniteSet(S), Ints(f, S),
           \A x \in S : g[h[x]] = f[x],
           \A x, y \in S : h[x] = h[y] => x = y
    PROVE  /\ IsFiniteSet({h[x] : x \in S})
           /\ SumFunctionOnSet(g, {h[x] : x \in S}) = SumFunctionOnSet(f, S)
<1> DEFINE Of(T) == {h[x] : x \in T}
<1> DEFINE P == {T \in SUBSET S : /\ IsFiniteSet(Of(T))
                                  /\ SumFunctionOnSet(g, Of(T)) = SumFunctionOnSet(f, T)}
<1>1. {} \in P
    <2>1. Of({}) = {}
        OBVIOUS
    <2> QED BY <2>1, SumEmpty, FS_EmptySet
<1>2. ASSUME NEW T \in SUBSET S, NEW x \in S, T \in P, x \notin T PROVE T \cup {x} \in P
    <2>1. IsFiniteSet(T) /\ Ints(f, T) /\ f[x] \in Int /\ g[h[x]] \in Int
        BY SizeOf DEF Ints
    <2>2. Of(T \cup {x}) = Of(T) \cup {h[x]} /\ h[x] \notin Of(T)
        BY <1>2
    <2>3. Ints(g, Of(T)) /\ IsFiniteSet(Of(T))
        BY <1>2, <2>1 DEF Ints
    <2>4. IsFiniteSet(Of(T) \cup {h[x]})
        BY <2>3, FS_AddElement
    <2>5. SumFunctionOnSet(g, Of(T)) = SumFunctionOnSet(f, T)
        BY <1>2
    <2> HIDE DEF Of
    <2>6. SumFunctionOnSet(g, Of(T) \cup {h[x]}) = SumFunctionOnSet(g, Of(T)) + g[h[x]]
        BY <2>1, <2>2, <2>3, SumAdd
    <2>7. SumFunctionOnSet(f, T \cup {x}) = SumFunctionOnSet(f, T) + f[x]
        BY <1>2, <2>1, SumAdd
    <2> QED BY <2>2, <2>4, <2>5, <2>6, <2>7
<1> HIDE DEF P
<1>3. S \in P
    BY <1>1, <1>2, SetSteps
<1> QED BY <1>3 DEF P

-----------------------------------------------------------------------------
(* Events.                                                                 *)

\* The product of naturals (the SMT solver is given no other fact of it).
LEMMA Products == \A a, b \in Nat : a * b \in Nat
    OBVIOUS

\* What the parsers promise of an event.
IsEvent(e) ==
    /\ e.provider \in Providers /\ e.model \in Models /\ e.time \in Times
    /\ e["input"] \in Nat /\ e["output"] \in Nat /\ e["cacheRead"] \in Nat
    /\ e["cacheWrite"] \in Nat /\ e["cost"] \in Nat
    /\ e.provider = Codex => e["cacheRead"] <= e["input"] /\ e["cacheWrite"] = 0 /\ ~e.own
    /\ ~e.own => (e.priced <=> e.model \in DOMAIN Rates)

\* Events of parseClaude keep the promise,
LEMMA ClaudeEventIs ==
    ASSUME NEW m \in Models, NEW t \in Times, NEW c \in ClaudeCounts
    PROVE  IsEvent(ClaudeEvent(m, t, c))
<1> DEFINE e == ClaudeEvent(m, t, c)
<1> DEFINE w == Larger(c.cacheWrite, c.oneHour + c.fiveMin)
<1>1. /\ c.input \in Nat /\ c.output \in Nat /\ c.cacheRead \in Nat /\ c.cacheWrite \in Nat
      /\ c.oneHour \in Nat /\ c.fiveMin \in Nat /\ c.cost \in Nat \cup {-1}
    BY CountsAssumption
<1>2. w \in Nat
    BY <1>1 DEF Larger
<1>3. m \in DOMAIN Rates => priceClaude(Rates[m], c, w) \in Nat
    <2> SUFFICES ASSUME m \in DOMAIN Rates PROVE priceClaude(Rates[m], c, w) \in Nat
        OBVIOUS
    <2> DEFINE h == Smaller(c.oneHour, w)
    <2>1. h \in Nat /\ w - h \in Nat
        BY <1>1, <1>2 DEF Smaller
    <2>2. /\ Rates[m].input \in Nat /\ Rates[m].output \in Nat /\ Rates[m].cacheRead \in Nat
          /\ Rates[m].write5m \in Nat /\ Rates[m].write1h \in Nat
        BY RatesAssumption
    <2> HIDE DEF h, w
    <2>3. /\ c.input * Rates[m].input \in Nat /\ c.output * Rates[m].output \in Nat
          /\ c.cacheRead * Rates[m].cacheRead \in Nat /\ (w - h) * Rates[m].write5m \in Nat
          /\ h * Rates[m].write1h \in Nat
        BY <1>1, <2>1, <2>2, Products
    <2>4. priceClaude(Rates[m], c, w) =
            c.input * Rates[m].input + c.output * Rates[m].output
            + c.cacheRead * Rates[m].cacheRead + (w - h) * Rates[m].write5m + h * Rates[m].write1h
        BY DEF priceClaude, h
    <2> QED BY <2>3, <2>4
<1> HIDE DEF w
<1>4. e = [provider |-> Claude, model |-> m, time |-> t, input |-> c.input,
           output |-> c.output, cacheRead |-> c.cacheRead, cacheWrite |-> w,
           own |-> c.cost # NoCost, priced |-> c.cost # NoCost \/ m \in DOMAIN Rates,
           cost |-> IF c.cost # NoCost THEN c.cost
                    ELSE IF m \in DOMAIN Rates THEN priceClaude(Rates[m], c, w) ELSE 0]
    BY DEF ClaudeEvent, w
<1> HIDE DEF e
<1>5. /\ e.own = (c.cost # NoCost)
      /\ e.priced = (c.cost # NoCost \/ m \in DOMAIN Rates)
      /\ e.model = m
    BY <1>4
<1>6. ~e.own => (e.priced <=> e.model \in DOMAIN Rates)
    BY <1>5, Zenon
<1>7. /\ e.provider = Claude /\ e.model = m /\ e.time = t
      /\ e["input"] = c.input /\ e["output"] = c.output /\ e["cacheRead"] = c.cacheRead
      /\ e["cacheWrite"] = w
      /\ e["cost"] = IF c.cost # NoCost THEN c.cost
                    ELSE IF m \in DOMAIN Rates THEN priceClaude(Rates[m], c, w) ELSE 0
    BY <1>4
<1>8. e["cost"] \in Nat
    BY <1>1, <1>3, <1>7 DEF NoCost
<1>9. IsEvent(e)
    BY <1>1, <1>2, <1>6, <1>7, <1>8 DEF IsEvent, Providers, Claude, Codex
<1> QED BY <1>9 DEF e

\* and those of parseCodexTokenCount.
LEMMA CodexEventIs ==
    ASSUME NEW m \in Models, NEW t \in Times, NEW c \in CodexCounts
    PROVE  IsEvent(CodexEvent(m, t, c))
<1> DEFINE e == CodexEvent(m, t, c)
<1> DEFINE cached == CachedOf(c.cached, c.input)
<1>1. c.input \in Nat /\ c.output \in Nat /\ c.cached \in Nat
    BY CountsAssumption
<1>2. cached \in Nat /\ cached <= c.input /\ c.input - cached \in Nat
    BY <1>1 DEF CachedOf
<1> HIDE DEF cached
<1>3. m \in DOMAIN Rates => priceCodex(Rates[m], c.input, c.output, cached) \in Nat
    <2> SUFFICES ASSUME m \in DOMAIN Rates
                 PROVE  priceCodex(Rates[m], c.input, c.output, cached) \in Nat
        OBVIOUS
    <2>1. Rates[m].input \in Nat /\ Rates[m].output \in Nat /\ Rates[m].cacheRead \in Nat
        BY RatesAssumption
    <2>2. /\ (c.input - cached) * Rates[m].input \in Nat /\ c.output * Rates[m].output \in Nat
          /\ cached * Rates[m].cacheRead \in Nat
        BY <1>1, <1>2, <2>1, Products
    <2> QED BY <2>2 DEF priceCodex
<1>4. e = [provider |-> Codex, model |-> m, time |-> t, input |-> c.input,
           output |-> c.output, cacheRead |-> cached, cacheWrite |-> 0,
           own |-> FALSE, priced |-> m \in DOMAIN Rates,
           cost |-> IF m \in DOMAIN Rates THEN priceCodex(Rates[m], c.input, c.output, cached)
                    ELSE 0]
    BY DEF CodexEvent, cached
<1> HIDE DEF e
<1>5. e.own = FALSE /\ e.priced = (m \in DOMAIN Rates) /\ e.model = m
    BY <1>4
<1>6. e.priced <=> e.model \in DOMAIN Rates
    BY <1>5, Zenon
<1>7. /\ e.provider = Codex /\ e.model = m /\ e.time = t
      /\ e["input"] = c.input /\ e["output"] = c.output /\ e["cacheRead"] = cached
      /\ e["cacheWrite"] = 0
      /\ e["cost"] = IF m \in DOMAIN Rates THEN priceCodex(Rates[m], c.input, c.output, cached)
                    ELSE 0
    BY <1>4
<1>8. ~e.own
    BY <1>5
<1>9. IsEvent(e)
    BY <1>1, <1>2, <1>3, <1>6, <1>7, <1>8 DEF IsEvent, Providers, Claude, Codex
<1> QED BY <1>9 DEF e

\* So all events do.
LEMMA EventsAre == \A e \in Events : IsEvent(e)
    BY ClaudeEventIs, CodexEventIs DEF Events

\* What an event adds to a total.
Worth(e) == Add(Zero, e)

\* The worth of an event is a natural number of everything.
LEMMA WorthIs ==
    ASSUME NEW e \in Events
    PROVE  /\ ProcessedTokens(e) \in Nat
           /\ Worth(e) = [f \in Fields |-> CASE f = "processed" -> ProcessedTokens(e)
                                             [] f = "priced" -> IF e.priced THEN ProcessedTokens(e) ELSE 0
                                             [] f = "records" -> 1
                                             [] OTHER -> e[f]]
           /\ Worth(e) \in [Fields -> Nat]
<1>1. IsEvent(e)
    BY EventsAre
<1>2. ProcessedTokens(e) \in Nat
    BY <1>1 DEF IsEvent, ProcessedTokens
<1> DEFINE v(f) == CASE f = "processed" -> ProcessedTokens(e)
                     [] f = "priced" -> IF e.priced THEN ProcessedTokens(e) ELSE 0
                     [] f = "records" -> 1
                     [] OTHER -> e[f]
<1>3. ASSUME NEW f \in Fields PROVE v(f) \in Nat /\ Zero[f] = 0
    BY <1>1, <1>2 DEF IsEvent, Fields, Zero
<1>4. Worth(e) = [f \in Fields |-> Zero[f] + v(f)]
    BY DEF Worth, Add
<1> HIDE DEF v
<1>5. \A f \in Fields : Zero[f] + v(f) = v(f)
    BY <1>3
<1>6. Worth(e) = [f \in Fields |-> v(f)]
    BY <1>4, <1>5
<1>7. Worth(e) \in [Fields -> Nat]
    BY <1>3, <1>6
<1> QED BY <1>2, <1>6, <1>7 DEF v

\* addEvent adds the worth of the event, field by field.
LEMMA AddIs ==
    ASSUME NEW e \in Events, NEW total \in [Fields -> Nat]
    PROVE  /\ Add(total, e) \in [Fields -> Nat]
           /\ \A f \in Fields : Add(total, e)[f] = total[f] + Worth(e)[f]
<1> DEFINE v(f) == CASE f = "processed" -> ProcessedTokens(e)
                     [] f = "priced" -> IF e.priced THEN ProcessedTokens(e) ELSE 0
                     [] f = "records" -> 1
                     [] OTHER -> e[f]
<1>1. Worth(e) = [f \in Fields |-> v(f)] /\ Worth(e) \in [Fields -> Nat]
    BY WorthIs
<1>2. Add(total, e) = [f \in Fields |-> total[f] + v(f)]
    BY DEF Add
<1> HIDE DEF v
<1> QED BY <1>1, <1>2

-----------------------------------------------------------------------------
(* The loop.                                                               *)

\* The totals after each event of the list.
IsTotals(list, clock, n, totals) ==
    totals = [i \in 0..n |-> IF i = 0 THEN <<>> ELSE AddEvent(totals[i - 1], list[i], clock)]

\* The loop has totals after each event.
LEMMA TotalsExist ==
    ASSUME NEW list, NEW clock, NEW N \in Nat
    PROVE  \E totals : IsTotals(list, clock, N, totals)
<1> DEFINE P == {n \in Nat : \E totals : IsTotals(list, clock, n, totals)}
<1>1. 0 \in P
    <2> DEFINE g == [i \in 0..0 |-> <<>>]
    <2>1. IsTotals(list, clock, 0, g)
        BY DEF IsTotals
    <2> QED BY <2>1
<1>2. ASSUME NEW n \in Nat, n \in P PROVE n + 1 \in P
    <2>1. PICK g : IsTotals(list, clock, n, g)
        BY <1>2
    <2> DEFINE h == [i \in 0..(n + 1) |-> IF i = n + 1 THEN AddEvent(g[n], list[n + 1], clock) ELSE g[i]]
    <2>2. \A i \in 0..n : i \in 0..(n + 1) /\ h[i] = g[i]
        OBVIOUS
    <2>3. h[n + 1] = AddEvent(g[n], list[n + 1], clock)
        OBVIOUS
    <2>4. h = [i \in 0..(n + 1) |-> h[i]]
        OBVIOUS
    <2> HIDE DEF h
    <2>5. ASSUME NEW i \in 0..(n + 1)
          PROVE  h[i] = IF i = 0 THEN <<>> ELSE AddEvent(h[i - 1], list[i], clock)
        <3>1. CASE i = n + 1
            <4>1. n \in 0..n /\ i - 1 = n /\ i # 0
                BY <3>1
            <4> QED BY <2>2, <2>3, <3>1, <4>1
        <3>2. CASE i # n + 1
            <4>1. i \in 0..n /\ (i # 0 => i - 1 \in 0..n)
                BY <3>2
            <4>2. g[i] = IF i = 0 THEN <<>> ELSE AddEvent(g[i - 1], list[i], clock)
                BY <2>1, <4>1 DEF IsTotals
            <4> QED BY <2>2, <4>1, <4>2
        <3> QED BY <3>1, <3>2
    <2>6. IsTotals(list, clock, n + 1, h)
        BY <2>4, <2>5 DEF IsTotals
    <2> QED BY <2>6
<1> HIDE DEF P
<1> QED BY <1>1, <1>2, Steps DEF P

\* The loop, turn by turn.
LEMMA AggregateIs ==
    ASSUME NEW list, NEW clock, Len(list) \in Nat
    PROVE  \E totals : /\ IsTotals(list, clock, Len(list), totals)
                       /\ aggregate(list, clock) = totals[Len(list)]
<1> DEFINE totals == CHOOSE g : IsTotals(list, clock, Len(list), g)
<1>1. IsTotals(list, clock, Len(list), totals)
    BY TotalsExist
<1>2. aggregate(list, clock) = totals[Len(list)]
    BY Zenon DEF aggregate, IsTotals
<1> QED BY <1>1, <1>2

-----------------------------------------------------------------------------
(* The rows of aggregate.                                                  *)

\* Rows of different shapes are different.
LEMMA Tuples ==
    \A a1, a2, a3, a4, b1, b2, b3, b4 :
        /\ <<a1, a2>> = <<b1, b2>> <=> a1 = b1 /\ a2 = b2
        /\ <<a1, a2, a3>> = <<b1, b2, b3>> <=> a1 = b1 /\ a2 = b2 /\ a3 = b3
        /\ <<a1, a2, a3, a4>> = <<b1, b2, b3, b4>> <=> a1 = b1 /\ a2 = b2 /\ a3 = b3 /\ a4 = b4
        /\ <<a1>> = <<b1>> <=> a1 = b1
        /\ <<a1>> # <<b1, b2>> /\ <<a1>> # <<b1, b2, b3>> /\ <<a1>> # <<b1, b2, b3, b4>>
        /\ <<a1, a2>> # <<b1>> /\ <<a1, a2>> # <<b1, b2, b3>> /\ <<a1, a2>> # <<b1, b2, b3, b4>>
        /\ <<a1, a2, a3>> # <<b1, b2, b3, b4>> /\ <<a1, a2, a3>> # <<b1, b2>> /\ <<a1, a2, a3>> # <<b1>>
        /\ <<a1, a2, a3, a4>> # <<b1, b2, b3>> /\ <<a1, a2, a3, a4>> # <<b1, b2>> /\ <<a1, a2, a3, a4>> # <<b1>>
    OBVIOUS

\* The events a row counts, and what each is worth.
Hits(list, clock, r) == {i \in DOMAIN list : r \in RowsOf(list[i], clock)}
Worths(list, f) == [i \in DOMAIN list |-> Worth(list[i])[f]]

\* Each event is worth a natural number of everything.
LEMMA WorthsAre ==
    ASSUME NEW list \in Seq(Events), NEW f \in Fields
    PROVE  /\ Len(list) \in Nat /\ DOMAIN list = 1..Len(list) /\ IsFiniteSet(DOMAIN list)
           /\ \A i \in DOMAIN list : list[i] \in Events /\ Worths(list, f)[i] \in Nat
           /\ \A S \in SUBSET DOMAIN list : IsFiniteSet(S) /\ Ints(Worths(list, f), S)
<1>1. Len(list) \in Nat /\ DOMAIN list = 1..Len(list)
    OBVIOUS
<1>2. IsFiniteSet(DOMAIN list)
    BY <1>1, FS_Interval
<1>3. \A i \in DOMAIN list : list[i] \in Events /\ Worths(list, f)[i] \in Nat
    BY WorthIs DEF Worths
<1>4. \A S \in SUBSET DOMAIN list : IsFiniteSet(S) /\ Ints(Worths(list, f), S)
    BY <1>2, <1>3, FS_Subset DEF Ints
<1> QED BY <1>1, <1>2, <1>3, <1>4

\* A row is the sum over the events it counts, and there is one only for a
\* row that counts one.
LEMMA RowIs ==
    ASSUME NEW list \in Seq(Events), NEW clock, NEW r
    PROVE  LET agg == aggregate(list, clock)
               hits == Hits(list, clock, r)
           IN  /\ r \in DOMAIN agg <=> hits # {}
               /\ At(agg, r) \in [Fields -> Nat]
               /\ \A f \in Fields : At(agg, r)[f] = SumFunctionOnSet(Worths(list, f), hits)
<1> DEFINE To(n) == {i \in 1..n : r \in RowsOf(list[i], clock)}
<1>1. Len(list) \in Nat /\ DOMAIN list = 1..Len(list)
    OBVIOUS
<1>2. PICK g : IsTotals(list, clock, Len(list), g) /\ aggregate(list, clock) = g[Len(list)]
    BY <1>1, AggregateIs
<1> DEFINE Good(n) == /\ r \in DOMAIN g[n] <=> To(n) # {}
                      /\ At(g[n], r) \in [Fields -> Nat]
                      /\ \A f \in Fields : At(g[n], r)[f] = SumFunctionOnSet(Worths(list, f), To(n))
<1> DEFINE P == {n \in Nat : n <= Len(list) => Good(n)}
<1>z. Zero \in [Fields -> Nat] /\ \A f \in Fields : Zero[f] = 0
    BY DEF Zero
<1>3. 0 \in P
    <2>1. To(0) = {}
        OBVIOUS
    <2>2. g[0] = <<>>
        BY <1>1, <1>2 DEF IsTotals
    <2>3. r \notin DOMAIN g[0]
        BY <2>2
    <2>4. At(g[0], r) = Zero
        BY <2>3 DEF At
    <2> HIDE DEF To
    <2>5. \A f \in Fields : SumFunctionOnSet(Worths(list, f), To(0)) = 0
        BY <2>1, SumEmpty
    <2>6. Good(0)
        BY <1>z, <2>1, <2>3, <2>4, <2>5
    <2> QED BY <2>6
<1>4. ASSUME NEW n \in Nat, n \in P PROVE n + 1 \in P
    <2> SUFFICES ASSUME n + 1 <= Len(list) PROVE Good(n + 1)
        OBVIOUS
    <2> DEFINE e == list[n + 1]
    <2> DEFINE w(f) == Worths(list, f)
    <2>1. Good(n)
        BY <1>1, <1>4
    <2>2. n + 1 \in DOMAIN list /\ e \in Events
        BY <1>1
    <2>3. g[n + 1] = AddEvent(g[n], e, clock)
        <3>1. n + 1 \in 0..Len(list) /\ n + 1 # 0 /\ (n + 1) - 1 = n
            BY <1>1
        <3> QED BY <1>2, <3>1 DEF IsTotals
    <2>4. CASE r \in RowsOf(e, clock)
        <3>1. r \in DOMAIN g[n + 1] /\ At(g[n + 1], r) = Add(At(g[n], r), e)
            BY <2>3, <2>4 DEF AddEvent, At
        <3>2. To(n + 1) = To(n) \cup {n + 1} /\ n + 1 \notin To(n) /\ To(n) \in SUBSET DOMAIN list
            BY <1>1, <2>2, <2>4
        <3> HIDE DEF To
        <3>3. /\ At(g[n + 1], r) \in [Fields -> Nat]
              /\ \A f \in Fields : At(g[n + 1], r)[f] = At(g[n], r)[f] + Worth(e)[f]
            BY <2>1, <2>2, <3>1, AddIs
        <3>4. ASSUME NEW f \in Fields
              PROVE  At(g[n + 1], r)[f] = SumFunctionOnSet(w(f), To(n + 1))
            <4>1. w(f)[n + 1] = Worth(e)[f] /\ w(f)[n + 1] \in Int
                BY <2>2, WorthsAre DEF Worths
            <4>2. IsFiniteSet(To(n)) /\ Ints(w(f), To(n))
                BY <3>2, WorthsAre
            <4> HIDE DEF w
            <4>3. SumFunctionOnSet(w(f), To(n) \cup {n + 1}) = SumFunctionOnSet(w(f), To(n)) + w(f)[n + 1]
                BY <3>2, <4>1, <4>2, SumAdd
            <4>4. At(g[n], r)[f] = SumFunctionOnSet(w(f), To(n))
                BY <2>1 DEF w
            <4> QED BY <3>2, <3>3, <4>1, <4>3, <4>4
        <3> QED BY <3>1, <3>2, <3>3, <3>4
    <2>5. CASE r \notin RowsOf(e, clock)
        <3>1. (r \in DOMAIN g[n + 1] <=> r \in DOMAIN g[n]) /\ At(g[n + 1], r) = At(g[n], r)
            BY <2>3, <2>5 DEF AddEvent, At
        <3>2. To(n + 1) = To(n)
            BY <2>5
        <3> QED BY <2>1, <3>1, <3>2
    <2> QED BY <2>4, <2>5
<1> HIDE DEF P
<1>5. Len(list) \in P
    BY <1>1, <1>3, <1>4, Steps
<1>6. Good(Len(list))
    BY <1>1, <1>5 DEF P
<1>7. To(Len(list)) = Hits(list, clock, r)
    BY <1>1 DEF Hits
<1> QED BY <1>2, <1>6, <1>7

\* The totals of rows no event belongs to two of are the total of the events
\* that belong to one of them.
LEMMA RowsAre ==
    ASSUME NEW list \in Seq(Events), NEW clock, NEW R, IsFiniteSet(R),
           NEW K \in SUBSET DOMAIN list,
           \A i \in DOMAIN list : i \in K <=> \E r \in R : r \in RowsOf(list[i], clock),
           \A i \in DOMAIN list : \A q, r \in R :
               q \in RowsOf(list[i], clock) /\ r \in RowsOf(list[i], clock) => q = r,
           NEW f \in Fields
    PROVE  SumFunction([r \in R |-> At(aggregate(list, clock), r)[f]]) =
             SumFunctionOnSet(Worths(list, f), K)
<1> DEFINE w == Worths(list, f)
<1> DEFINE a == [r \in R |-> At(aggregate(list, clock), r)[f]]
<1> DEFINE In(T) == {i \in DOMAIN list : \E r \in T : r \in RowsOf(list[i], clock)}
<1> DEFINE P == {T \in SUBSET R : SumFunctionOnSet(a, T) = SumFunctionOnSet(w, In(T))}
<1>0. \A S \in SUBSET DOMAIN list : IsFiniteSet(S) /\ Ints(w, S)
    BY WorthsAre
<1>a. \A r \in R : a[r] \in Nat /\ a[r] = SumFunctionOnSet(w, Hits(list, clock, r))
    BY RowIs
<1>w. DOMAIN a = R
    OBVIOUS
<1> HIDE DEF w, a
<1>1. {} \in P
    <2>1. In({}) = {}
        OBVIOUS
    <2> QED BY <2>1, SumEmpty
<1>2. ASSUME NEW T \in SUBSET R, NEW x \in R, T \in P, x \notin T PROVE T \cup {x} \in P
    <2>1. In(T \cup {x}) = In(T) \cup Hits(list, clock, x)
        BY DEF Hits
    <2>2. In(T) \cap Hits(list, clock, x) = {}
        BY <1>2 DEF Hits
    <2>3. In(T) \in SUBSET DOMAIN list /\ Hits(list, clock, x) \in SUBSET DOMAIN list
        BY DEF Hits
    <2>4. SumFunctionOnSet(a, T) = SumFunctionOnSet(w, In(T))
        BY <1>2
    <2> HIDE DEF In
    <2>5. /\ IsFiniteSet(In(T)) /\ IsFiniteSet(Hits(list, clock, x))
          /\ Ints(w, In(T) \cup Hits(list, clock, x))
        BY <1>0, <2>3
    <2>6. SumFunctionOnSet(w, In(T) \cup Hits(list, clock, x)) =
            SumFunctionOnSet(w, In(T)) + SumFunctionOnSet(w, Hits(list, clock, x))
        BY <2>2, <2>5, SumUnion
    <2>7. IsFiniteSet(T) /\ Ints(a, T) /\ a[x] \in Int
        BY <1>a, SizeOf DEF Ints
    <2>8. SumFunctionOnSet(a, T \cup {x}) = SumFunctionOnSet(a, T) + a[x]
        BY <1>2, <2>7, SumAdd
    <2> QED BY <1>a, <2>1, <2>4, <2>6, <2>8
<1> HIDE DEF P
<1>3. R \in P
    BY <1>1, <1>2, SetSteps
<1>4. SumFunctionOnSet(a, R) = SumFunctionOnSet(w, In(R))
    BY <1>3 DEF P
<1>5. In(R) = K
    OBVIOUS
<1> HIDE DEF In
<1>6. SumFunction(a) = SumFunctionOnSet(w, K)
    BY <1>w, <1>4, <1>5 DEF SumFunction
<1> QED BY <1>6 DEF a, w

-----------------------------------------------------------------------------
(* The calendar, and which rows an event is counted in.                    *)

\* Division, told to the SMT solver.
LEMMA Quotient ==
    ASSUME NEW a \in Int, NEW h \in Nat \ {0}
    PROVE  /\ a \div h \in Int /\ a % h \in 0..(h - 1)
           /\ h * (a \div h) \in Int
           /\ a = h * (a \div h) + (a % h)
    OBVIOUS

\* Whole days, told likewise.
LEMMA Multiples ==
    ASSUME NEW a \in Int, NEW b \in Int, NEW h \in Nat \ {0}
    PROVE  /\ a * h \in Int /\ h * a = a * h
           /\ a <= b => a * h <= b * h
           /\ (a + 1) * h = a * h + h
           /\ (a - b) * h = a * h - b * h
    OBVIOUS

\* The first hour of a day.
LEMMA DayBegins ==
    ASSUME NEW a \in Int, NEW k \in Int, NEW h \in Nat \ {0}
    PROVE  a \div h >= k <=> a >= k * h
<1> DEFINE q == a \div h
<1>1. q \in Int /\ a % h \in 0..(h - 1) /\ a = h * q + (a % h)
    BY Quotient
<1>2. h * q = q * h /\ q * h \in Int /\ k * h \in Int
    BY <1>1, Multiples
<1> HIDE DEF q
<1>3. CASE q >= k
    <2>1. k * h <= q * h
        BY <1>1, <1>3, Multiples
    <2> QED BY <1>1, <1>2, <1>3, <2>1 DEF q
<1>4. CASE ~(q >= k)
    <2>1. q + 1 <= k /\ q + 1 \in Int
        BY <1>1, <1>4
    <2>2. (q + 1) * h <= k * h /\ (q + 1) * h = q * h + h
        BY <1>1, <2>1, Multiples
    <2> QED BY <1>1, <1>2, <1>4, <2>2 DEF q
<1> QED BY <1>3, <1>4

\* Times are in the days and hours that have rows.
LEMMA DaysAre ==
    ASSUME NEW t \in Times
    PROVE  /\ DayOf(t) \in Days /\ DayOf(t) \in Int /\ HourOf(t) \in Hours
           /\ \A u \in Times : t <= u => DayOf(t) <= DayOf(u)
           /\ \A k \in Int : DayOf(t) >= k <=> t >= k * HoursPerDay - Zone
<1>0. HoursPerDay \in Nat \ {0} /\ Zone \in Nat /\ MaxTime \in Nat
    BY PeriodsAssumption, TimeAssumption
<1> DEFINE h == HoursPerDay
<1> DEFINE last == (MaxTime + Zone) \div h
<1>1. t \in Int /\ t >= 0 /\ t <= MaxTime /\ t + Zone \in Int /\ t + Zone >= 0
    BY <1>0 DEF Times
<1>2. DayOf(t) \in Int /\ HourOf(t) \in Hours /\ last \in Int
    BY <1>0, <1>1, Quotient DEF DayOf, HourOf, Hours
<1>3. \A k \in Int : k * h \in Int /\ (DayOf(t) >= k <=> t + Zone >= k * h)
    BY <1>0, <1>1, DayBegins, Multiples DEF DayOf
<1>4. DayOf(t) >= 0
    <2>1. 0 * h = 0
        BY <1>0
    <2> QED BY <1>1, <1>3, <2>1
<1>5. ASSUME NEW u \in Times, t <= u PROVE DayOf(t) <= DayOf(u)
    <2>1. u \in Int /\ u + Zone \in Int
        BY <1>0 DEF Times
    <2>2. t + Zone >= DayOf(t) * h /\ DayOf(t) * h \in Int
        BY <1>2, <1>3
    <2>3. u + Zone >= DayOf(t) * h
        BY <1>0, <1>1, <1>5, <2>1, <2>2
    <2>4. (u + Zone) \div h >= DayOf(t)
        BY <1>0, <1>2, <2>1, <2>3, DayBegins
    <2>5. (u + Zone) \div h \in Int
        BY <1>0, <2>1, Quotient
    <2> QED BY <1>2, <2>4, <2>5 DEF DayOf
<1>6. MaxTime \in Times /\ DayOf(MaxTime) = last
    BY <1>0 DEF Times, DayOf
<1>7. DayOf(t) <= last
    BY <1>1, <1>5, <1>6
<1>8. DayOf(t) \in Days
    BY <1>2, <1>4, <1>7 DEF Days
<1>9. ASSUME NEW k \in Int PROVE DayOf(t) >= k <=> t >= k * HoursPerDay - Zone
    BY <1>0, <1>1, <1>3
<1> QED BY <1>2, <1>5, <1>8, <1>9

\* A period begins with the first hour of a day, and a longer one earlier.
LEMMA PeriodsBegin ==
    ASSUME NEW clock \in Times, NEW days \in Nat
    PROVE  /\ StartOf(clock, days) \in Int
           /\ StartOf(clock, days) = (DayOf(clock) - days) * HoursPerDay - Zone
           /\ StartOf(clock, days) <= clock
           /\ \A n \in Nat : n <= days => StartOf(clock, days) <= StartOf(clock, n)
<1>0. HoursPerDay \in Nat \ {0} /\ Zone \in Nat
    BY PeriodsAssumption, TimeAssumption
<1>1. DayOf(clock) \in Int /\ clock \in Int
    BY DaysAre, TimeAssumption DEF Times
<1>2. \A n \in Nat : /\ (DayOf(clock) - n) * HoursPerDay \in Int
                     /\ StartOf(clock, n) = (DayOf(clock) - n) * HoursPerDay - Zone
    BY <1>0, <1>1, Multiples DEF StartOf, DayOf
<1>3. DayOf(clock) - days \in Int /\ DayOf(clock) >= DayOf(clock) - days
    BY <1>1
<1>4. StartOf(clock, days) <= clock
    BY <1>0, <1>1, <1>2, <1>3, DaysAre
<1>5. ASSUME NEW n \in Nat, n <= days PROVE StartOf(clock, days) <= StartOf(clock, n)
    <2>1. DayOf(clock) - days <= DayOf(clock) - n /\ DayOf(clock) - n \in Int
        BY <1>1, <1>5
    <2>2. (DayOf(clock) - days) * HoursPerDay <= (DayOf(clock) - n) * HoursPerDay
        BY <1>0, <1>3, <2>1, Multiples
    <2> QED BY <1>0, <1>2, <2>2
<1>6. StartOf(clock, days) \in Int
    BY <1>0, <1>2
<1> QED BY <1>2, <1>4, <1>5, <1>6

\* Which periods an event is in, and its row there.
InPeriod(e, period, clock) ==
    CASE period = "today" -> e.time >= StartOf(clock, 0) /\ e.time <= clock
      [] period = "last30Days" -> e.time >= DailyStart(clock) /\ e.time <= clock
      [] period = "allTime" -> TRUE
RowIn(e, period) == IF period = "today" THEN HourOf(e.time) ELSE DayOf(e.time)

\* The rows of an event: which it is in of each kind.
LEMMA RowsOfIs ==
    ASSUME NEW e, NEW clock, NEW r, e.time \in Int, DailyStart(clock) \in Int
    PROVE  r \in RowsOf(e, clock) <=>
              \/ r = <<"allTime">>
              \/ r = <<"providers", e.provider>>
              \/ r = <<"models", e.model>>
              \/ r = <<"last7Days">> /\ e.time >= StartOf(clock, WeekDays - 1) /\ e.time <= clock
              \/ r = <<"today">> /\ InPeriod(e, "today", clock)
              \/ r = <<"hourly", HourOf(e.time)>> /\ InPeriod(e, "today", clock)
              \/ r = <<"daily", DayOf(e.time)>> /\ e.time >= DailyStart(clock)
              \/ \E period \in Periods : /\ InPeriod(e, period, clock)
                                         /\ r \in Ledger(e, period, RowIn(e, period))
<1> DEFINE T == e.time >= StartOf(clock, 0) /\ e.time <= clock
<1> DEFINE M == e.time >= DailyStart(clock) /\ e.time <= clock
<1>1. /\ InPeriod(e, "today", clock) <=> T
      /\ InPeriod(e, "last30Days", clock) <=> M
      /\ InPeriod(e, "allTime", clock)
    BY DEF InPeriod
<1>2. /\ RowIn(e, "today") = HourOf(e.time)
      /\ RowIn(e, "last30Days") = DayOf(e.time)
      /\ RowIn(e, "allTime") = DayOf(e.time)
    BY DEF RowIn
<1>3. (\E period \in Periods : /\ InPeriod(e, period, clock)
                               /\ r \in Ledger(e, period, RowIn(e, period)))
      <=> \/ T /\ r \in Ledger(e, "today", HourOf(e.time))
          \/ M /\ r \in Ledger(e, "last30Days", DayOf(e.time))
          \/ r \in Ledger(e, "allTime", DayOf(e.time))
    BY <1>1, <1>2 DEF Periods
<1>4. r \in TodayRows(e, clock) <=>
        T /\ (r = <<"today">> \/ r = <<"hourly", HourOf(e.time)>> \/ r \in Ledger(e, "today", HourOf(e.time)))
    BY DEF TodayRows
<1>5. e.time < DailyStart(clock) <=> ~(e.time >= DailyStart(clock))
    OBVIOUS
<1>6. r \in MonthRows(e, clock) <=>
        \/ r = <<"daily", DayOf(e.time)>> /\ e.time >= DailyStart(clock)
        \/ M /\ r \in Ledger(e, "last30Days", DayOf(e.time))
    BY <1>5 DEF MonthRows
<1>7. r \in RowsOf(e, clock) <=>
        \/ r = <<"allTime">> \/ r = <<"providers", e.provider>> \/ r = <<"models", e.model>>
        \/ r \in Ledger(e, "allTime", DayOf(e.time))
        \/ r = <<"last7Days">> /\ e.time >= StartOf(clock, WeekDays - 1) /\ e.time <= clock
        \/ r \in TodayRows(e, clock) \/ r \in MonthRows(e, clock)
    BY DEF RowsOf
<1> HIDE DEF T, M
<1> QED BY <1>1, <1>3, <1>4, <1>6, <1>7, Zenon

\* The three rows of a period.
LEMMA LedgerIs ==
    ASSUME NEW e, NEW a, NEW row
    PROVE  /\ \A x : <<x>> \notin Ledger(e, a, row)
           /\ \A x, y : <<x, y>> \notin Ledger(e, a, row)
           /\ \A p, b, x : <<p, b, x>> \in Ledger(e, a, row) <=>
                              p = e.provider /\ b = a /\ x = "totals"
           /\ \A p, b, x, y : <<p, b, x, y>> \in Ledger(e, a, row) <=>
                              /\ p = e.provider /\ b = a
                              /\ \/ x = "models" /\ y = e.model
                                 \/ x = "timeline" /\ y = row
<1>1. \A r : r \in Ledger(e, a, row) <=>
         \/ r = <<e.provider, a, "totals">>
         \/ r = <<e.provider, a, "models", e.model>>
         \/ r = <<e.provider, a, "timeline", row>>
    BY DEF Ledger
<1> QED BY <1>1, Tuples

\* Of which provider rows an event is.
LEMMA ProviderRows ==
    ASSUME NEW e, NEW clock, e.time \in Int, DailyStart(clock) \in Int,
           NEW p, NEW period \in Periods
    PROVE  /\ <<p, period, "totals">> \in RowsOf(e, clock) <=>
                  p = e.provider /\ InPeriod(e, period, clock)
           /\ \A m : <<p, period, "models", m>> \in RowsOf(e, clock) <=>
                  p = e.provider /\ InPeriod(e, period, clock) /\ m = e.model
           /\ \A row : <<p, period, "timeline", row>> \in RowsOf(e, clock) <=>
                  p = e.provider /\ InPeriod(e, period, clock) /\ row = RowIn(e, period)
<1>1. <<p, period, "totals">> \in RowsOf(e, clock) <=> p = e.provider /\ InPeriod(e, period, clock)
    <2>1. <<p, period, "totals">> \in RowsOf(e, clock) <=>
            \E a \in Periods : /\ InPeriod(e, a, clock)
                               /\ <<p, period, "totals">> \in Ledger(e, a, RowIn(e, a))
        BY RowsOfIs, Tuples
    <2>2. \A a \in Periods : <<p, period, "totals">> \in Ledger(e, a, RowIn(e, a)) <=>
                                p = e.provider /\ period = a
        BY LedgerIs
    <2> QED BY <2>1, <2>2
<1>2. ASSUME NEW x \in {"models", "timeline"}, NEW y
      PROVE  <<p, period, x, y>> \in RowsOf(e, clock) <=>
                /\ p = e.provider /\ InPeriod(e, period, clock)
                /\ \/ x = "models" /\ y = e.model
                   \/ x = "timeline" /\ y = RowIn(e, period)
    <2>1. <<p, period, x, y>> \in RowsOf(e, clock) <=>
            \E a \in Periods : /\ InPeriod(e, a, clock)
                               /\ <<p, period, x, y>> \in Ledger(e, a, RowIn(e, a))
        BY RowsOfIs, Tuples
    <2>2. \A a \in Periods : <<p, period, x, y>> \in Ledger(e, a, RowIn(e, a)) <=>
                                /\ p = e.provider /\ period = a
                                /\ \/ x = "models" /\ y = e.model
                                   \/ x = "timeline" /\ y = RowIn(e, a)
        BY LedgerIs
    <2> QED BY <2>1, <2>2
<1>3. "models" # "timeline"
    OBVIOUS
<1> QED BY <1>1, <1>2, <1>3

\* Of which rows of the overview an event is.
LEMMA OverviewRows ==
    ASSUME NEW e, NEW clock, e.time \in Int, DailyStart(clock) \in Int
    PROVE  /\ <<"allTime">> \in RowsOf(e, clock)
           /\ <<"today">> \in RowsOf(e, clock) <=> InPeriod(e, "today", clock)
           /\ <<"last7Days">> \in RowsOf(e, clock) <=>
                  e.time >= StartOf(clock, WeekDays - 1) /\ e.time <= clock
           /\ \A p : <<"providers", p>> \in RowsOf(e, clock) <=> p = e.provider
           /\ \A m : <<"models", m>> \in RowsOf(e, clock) <=> m = e.model
           /\ \A h : <<"hourly", h>> \in RowsOf(e, clock) <=>
                  InPeriod(e, "today", clock) /\ h = HourOf(e.time)
           /\ \A d : <<"daily", d>> \in RowsOf(e, clock) <=>
                  e.time >= DailyStart(clock) /\ d = DayOf(e.time)
<1>1. ASSUME NEW x \in {"allTime", "today", "last7Days"}
      PROVE  <<x>> \in RowsOf(e, clock) <=>
                \/ x = "allTime"
                \/ x = "today" /\ InPeriod(e, "today", clock)
                \/ x = "last7Days" /\ e.time >= StartOf(clock, WeekDays - 1) /\ e.time <= clock
    BY RowsOfIs, LedgerIs, Tuples
<1>2. ASSUME NEW x \in {"providers", "models", "hourly", "daily"}, NEW y
      PROVE  <<x, y>> \in RowsOf(e, clock) <=>
                \/ x = "providers" /\ y = e.provider
                \/ x = "models" /\ y = e.model
                \/ x = "hourly" /\ y = HourOf(e.time) /\ InPeriod(e, "today", clock)
                \/ x = "daily" /\ y = DayOf(e.time) /\ e.time >= DailyStart(clock)
    BY RowsOfIs, LedgerIs, Tuples
<1> QED BY <1>1, <1>2

-----------------------------------------------------------------------------
(* What is told of finitely many rows.                                     *)

\* The image of a finite set is finite.
LEMMA Renamed ==
    ASSUME NEW S, IsFiniteSet(S), NEW h
    PROVE  IsFiniteSet({h[x] : x \in S})
<1> DEFINE P == {T \in SUBSET S : IsFiniteSet({h[x] : x \in T})}
<1>1. {} \in P
    <2>1. {h[x] : x \in {}} = {}
        OBVIOUS
    <2> QED BY <2>1, FS_EmptySet
<1>2. ASSUME NEW T \in SUBSET S, NEW x \in S, T \in P, x \notin T PROVE T \cup {x} \in P
    <2>1. {h[y] : y \in T \cup {x}} = {h[y] : y \in T} \cup {h[x]}
        OBVIOUS
    <2> DEFINE A == {h[y] : y \in T}
    <2>2. IsFiniteSet(A)
        BY <1>2
    <2> HIDE DEF A
    <2>3. IsFiniteSet(A \cup {h[x]})
        BY <2>2, FS_AddElement
    <2> QED BY <2>1, <2>3 DEF A
<1> HIDE DEF P
<1>3. S \in P
    BY <1>1, <1>2, SetSteps
<1> QED BY <1>3 DEF P

\* Rows of one kind over a finite set are finitely many.
LEMMA RowSetsAreFinite ==
    ASSUME NEW S, IsFiniteSet(S)
    PROVE  /\ \A a : IsFiniteSet({<<a, x>> : x \in S})
           /\ \A a, b, c : IsFiniteSet({<<a, b, c, x>> : x \in S})
           /\ \A b, c : IsFiniteSet({<<x, b, c>> : x \in S})
<1>1. ASSUME NEW a PROVE IsFiniteSet({<<a, x>> : x \in S})
    <2> DEFINE h == [x \in S |-> <<a, x>>]
    <2>1. IsFiniteSet({h[x] : x \in S})
        BY Renamed
    <2> QED BY <2>1
<1>2. ASSUME NEW a, NEW b, NEW c PROVE IsFiniteSet({<<a, b, c, x>> : x \in S})
    <2> DEFINE h == [x \in S |-> <<a, b, c, x>>]
    <2>1. IsFiniteSet({h[x] : x \in S})
        BY Renamed
    <2> QED BY <2>1
<1>3. ASSUME NEW b, NEW c PROVE IsFiniteSet({<<x, b, c>> : x \in S})
    <2> DEFINE h == [x \in S |-> <<x, b, c>>]
    <2>1. IsFiniteSet({h[x] : x \in S})
        BY Renamed
    <2> QED BY <2>1
<1> QED BY <1>1, <1>2, <1>3

\* The sets the totals are added up over.
LEMMA FiniteSets ==
    IsFiniteSet(Models) /\ IsFiniteSet(Providers) /\ IsFiniteSet(Days) /\ IsFiniteSet(Hours)
<1>1. IsFiniteSet(Providers)
    <2>1. IsFiniteSet({Claude})
        BY FS_Singleton
    <2>2. IsFiniteSet({Claude} \cup {Codex})
        BY <2>1, FS_AddElement
    <2>3. Providers = {Claude} \cup {Codex}
        BY DEF Providers
    <2> QED BY <2>2, <2>3
<1>2. (MaxTime + Zone) \div HoursPerDay \in Int /\ HoursPerDay - 1 \in Int
    <2>1. MaxTime + Zone \in Int /\ HoursPerDay \in Nat \ {0}
        BY PeriodsAssumption, TimeAssumption
    <2> QED BY <2>1, Quotient
<1>3. IsFiniteSet(Days) /\ IsFiniteSet(Hours)
    BY <1>2, FS_Interval DEF Days, Hours
<1> QED BY <1>1, <1>3, RatesAssumption

-----------------------------------------------------------------------------
(* The statistics are those of the events they were made of.               *)

\* The inductive invariant: what is shown was computed, at an earlier hour or
\* now, from the events of that time.
StatsInv ==
    /\ events \in Seq(Events)
    /\ known \in Seq(Events)
    /\ now \in Times /\ generated \in Times /\ generated <= now
    /\ stats = aggregate(known, generated)

\* It is so from the start, and every refresh makes it so again.
LEMMA StatsInvHolds == Spec => []StatsInv
<1>1. Init => StatsInv
    BY TimeAssumption DEF Init, StatsInv, Times
<1>2. StatsInv /\ [Next]_vars => StatsInv'
    <2> SUFFICES ASSUME StatsInv, [Next]_vars PROVE StatsInv'
        OBVIOUS
    <2> USE DEF StatsInv
    <2>1. ASSUME NEW e \in Events, Log(e) PROVE StatsInv'
        BY <2>1 DEF Log
    <2>2. CASE TimePasses
        <3>1. now' \in Times /\ generated' <= now'
            BY <2>2, TimeAssumption DEF TimePasses, Times
        <3> QED BY <2>2, <3>1 DEF TimePasses
    <2>3. CASE Refresh
        <3>1. generated' <= now'
            BY <2>3, TimeAssumption DEF Refresh, Times
        <3> QED BY <2>3, <3>1 DEF Refresh
    <2>4. CASE UNCHANGED vars
        BY <2>4 DEF vars
    <2> QED BY <2>1, <2>2, <2>3, <2>4 DEF Next
<1> QED BY <1>1, <1>2, PTL DEF Spec

\* The events of the last refresh keep the promise, and are finitely many.
LEMMA KnownAre ==
    ASSUME StatsInv
    PROVE  /\ DailyStart(generated) \in Int
           /\ \A i \in DOMAIN known :
                 /\ known[i] \in Events /\ IsEvent(known[i])
                 /\ known[i].provider \in Providers /\ known[i].model \in Models
                 /\ known[i].time \in Times /\ known[i].time \in Int
                 /\ DayOf(known[i].time) \in Days /\ HourOf(known[i].time) \in Hours
<1>1. MonthDays - 1 \in Nat
    BY PeriodsAssumption
<1>2. DailyStart(generated) \in Int
    BY <1>1, PeriodsBegin DEF StatsInv, DailyStart
<1>3. Times \subseteq Int
    BY TimeAssumption DEF Times
<1>4. ASSUME NEW i \in DOMAIN known
      PROVE  /\ known[i] \in Events /\ IsEvent(known[i])
             /\ known[i].provider \in Providers /\ known[i].model \in Models
             /\ known[i].time \in Times
    <2>1. known[i] \in Events
        BY DEF StatsInv
    <2>2. IsEvent(known[i])
        BY <2>1, EventsAre
    <2> QED BY <2>1, <2>2 DEF IsEvent
<1> QED BY <1>2, <1>3, <1>4, DaysAre

\* The total of the events K, and what is shown in a row or in several.
Told(K) == [f \in Fields |-> SumFunctionOnSet(Worths(known, f), K)]

\* A row tells of the events it counts,
LEMMA RowTells ==
    ASSUME StatsInv, NEW r
    PROVE  /\ At(stats, r) = Told(Hits(known, generated, r))
           /\ Hits(known, generated, r) \in SUBSET DOMAIN known
           /\ r \in DOMAIN stats => stats[r] = At(stats, r)
           /\ r \in DOMAIN stats <=> Hits(known, generated, r) # {}
<1> DEFINE s == At(stats, r)
<1>1. /\ s \in [Fields -> Nat]
      /\ \A f \in Fields : s[f] = SumFunctionOnSet(Worths(known, f), Hits(known, generated, r))
      /\ r \in DOMAIN stats <=> Hits(known, generated, r) # {}
    BY RowIs DEF StatsInv
<1>2. r \in DOMAIN stats => stats[r] = s
    BY DEF At
<1> HIDE DEF s
<1>3. s = [f \in Fields |-> s[f]]
    BY <1>1
<1>4. s = Told(Hits(known, generated, r))
    BY <1>1, <1>3 DEF Told
<1> QED BY <1>1, <1>2, <1>4 DEF s, Hits

\* and rows of which none counts an event of another, of those of all.
LEMMA RowsTell ==
    ASSUME StatsInv, NEW R, IsFiniteSet(R), NEW K \in SUBSET DOMAIN known,
           \A i \in DOMAIN known : i \in K <=> \E r \in R : r \in RowsOf(known[i], generated),
           \A i \in DOMAIN known : \A q, r \in R :
               q \in RowsOf(known[i], generated) /\ r \in RowsOf(known[i], generated) => q = r
    PROVE  Sum(R) = Told(K)
<1>1. known \in Seq(Events) /\ stats = aggregate(known, generated)
    BY DEF StatsInv
<1>2. ASSUME NEW f \in Fields
      PROVE  SumFunction([r \in R |-> At(aggregate(known, generated), r)[f]]) =
               SumFunctionOnSet(Worths(known, f), K)
    BY <1>1, RowsAre
<1> QED BY <1>1, <1>2 DEF Sum, Told

\* Every event a row counts is counted in one row of R.
LEMMA RowsAddUp ==
    ASSUME StatsInv, NEW r, NEW R, IsFiniteSet(R), NEW row,
           \A i \in DOMAIN known :
               /\ row[i] \in R
               /\ \A q \in R : q \in RowsOf(known[i], generated) <=>
                                  q = row[i] /\ r \in RowsOf(known[i], generated)
    PROVE  At(stats, r) = Sum(R)
<1> DEFINE K == Hits(known, generated, r)
<1>1. K \in SUBSET DOMAIN known
    BY DEF Hits
<1>2. \A i \in DOMAIN known : i \in K <=> \E q \in R : q \in RowsOf(known[i], generated)
    BY DEF Hits
<1>3. \A i \in DOMAIN known : \A p, q \in R :
          p \in RowsOf(known[i], generated) /\ q \in RowsOf(known[i], generated) => p = q
    OBVIOUS
<1> HIDE DEF K
<1>4. Sum(R) = Told(K)
    BY <1>1, <1>2, <1>3, RowsTell
<1> QED BY <1>4, RowTells DEF K

\* A row that counts fewer events tells of no more.
LEMMA RowWithin ==
    ASSUME StatsInv, NEW q, NEW r,
           \A i \in DOMAIN known : q \in RowsOf(known[i], generated) => r \in RowsOf(known[i], generated)
    PROVE  AtMost(At(stats, q), At(stats, r))
<1>1. Hits(known, generated, q) \in SUBSET Hits(known, generated, r)
    BY DEF Hits
<1>2. Hits(known, generated, r) \in SUBSET DOMAIN known
    BY DEF Hits
<1>3. ASSUME NEW f \in Fields PROVE At(stats, q)[f] <= At(stats, r)[f]
    <2> DEFINE w == Worths(known, f)
    <2>1. /\ IsFiniteSet(Hits(known, generated, r))
          /\ \A i \in Hits(known, generated, r) : w[i] \in Nat
        BY <1>2, WorthsAre DEF StatsInv
    <2> HIDE DEF w
    <2>2. SumFunctionOnSet(w, Hits(known, generated, q)) <= SumFunctionOnSet(w, Hits(known, generated, r))
        BY <1>1, <2>1, SumWithin
    <2>3. /\ At(stats, q)[f] = SumFunctionOnSet(w, Hits(known, generated, q))
          /\ At(stats, r)[f] = SumFunctionOnSet(w, Hits(known, generated, r))
        BY RowTells DEF Told, w
    <2> QED BY <2>2, <2>3
<1> QED BY <1>3 DEF AtMost

-----------------------------------------------------------------------------
(* The periods, and the first result.                                      *)

\* No period tells more than a longer one.
LEMMA PeriodsNest ==
    ASSUME StatsInv, NEW i \in DOMAIN known
    PROVE  LET e == known[i]
           IN  /\ InPeriod(e, "allTime", generated)
               /\ InPeriod(e, "today", generated) =>
                     /\ InPeriod(e, "last30Days", generated)
                     /\ e.time >= StartOf(generated, WeekDays - 1) /\ e.time <= generated
<1> DEFINE t == known[i].time
<1>1. t \in Int /\ generated \in Times
    BY KnownAre DEF StatsInv
<1>2. MonthDays - 1 \in Nat /\ WeekDays - 1 \in Nat /\ 0 \in Nat
    BY PeriodsAssumption
<1>3. /\ StartOf(generated, MonthDays - 1) \in Int /\ StartOf(generated, WeekDays - 1) \in Int
      /\ StartOf(generated, MonthDays - 1) <= StartOf(generated, 0)
      /\ StartOf(generated, WeekDays - 1) <= StartOf(generated, 0)
      /\ StartOf(generated, 0) \in Int
    BY <1>1, <1>2, PeriodsBegin
<1> HIDE DEF t
<1>4. t >= StartOf(generated, 0) => t >= DailyStart(generated) /\ t >= StartOf(generated, WeekDays - 1)
    BY <1>1, <1>3 DEF DailyStart
<1> QED BY <1>4 DEF t, InPeriod

\* Every event has a row in the timeline of a period it is in.
LEMMA TimelinesCover ==
    ASSUME StatsInv, NEW p \in Providers, NEW period \in Periods, NEW i \in DOMAIN known
    PROVE  \E row \in RowsIn(period) : row = RowIn(known[i], period)
    BY KnownAre DEF RowsIn, RowIn

\* The timeline of a period adds up to its totals.
LEMMA TimelinesAddUp ==
    ASSUME StatsInv, NEW p \in Providers, NEW period \in Periods
    PROVE  At(stats, <<p, period, "totals">>) =
              Sum({<<p, period, "timeline", row>> : row \in RowsIn(period)})
<1>0. /\ DailyStart(generated) \in Int
      /\ \A i \in DOMAIN known :
            /\ known[i].provider \in Providers /\ known[i].model \in Models
            /\ known[i].time \in Int /\ HourOf(known[i].time) \in Hours
    BY KnownAre
<1> DEFINE R == {<<p, period, "timeline", row>> : row \in RowsIn(period)}
<1>1. IsFiniteSet(R)
    <2>1. IsFiniteSet(RowsIn(period))
        BY FiniteSets DEF RowsIn
    <2>2. \A a, b, c : IsFiniteSet({<<a, b, c, x>> : x \in RowsIn(period)})
        BY <2>1, RowSetsAreFinite
    <2> QED BY <2>2
<1> DEFINE row == [i \in DOMAIN known |-> <<p, period, "timeline", RowIn(known[i], period)>>]
<1>2. ASSUME NEW i \in DOMAIN known
      PROVE  /\ row[i] \in R
             /\ \A q \in R : q \in RowsOf(known[i], generated) <=>
                    q = row[i] /\ <<p, period, "totals">> \in RowsOf(known[i], generated)
    BY <1>0, ProviderRows, TimelinesCover, Tuples
<1> HIDE DEF R, row
<1>3. At(stats, <<p, period, "totals">>) = Sum(R)
    BY <1>1, <1>2, RowsAddUp
<1> QED BY <1>3 DEF R

\* In every state the totals aggregate has made agree with each other, for any
\* number of models, any rates and any calendar: each event is in exactly one row
\* of each division of a period and in every longer period.
THEOREM TotalsAlwaysAgree == Spec => []TotalsAgree
<1>1. StatsInv => TotalsAgree
    <2> SUFFICES ASSUME StatsInv PROVE TotalsAgree
        OBVIOUS
    <2>0. /\ DailyStart(generated) \in Int
          /\ \A i \in DOMAIN known :
                /\ known[i].provider \in Providers /\ known[i].model \in Models
                /\ known[i].time \in Int /\ HourOf(known[i].time) \in Hours
        BY KnownAre
    <2>1. At(stats, <<"allTime">>) = Sum({<<"providers", p>> : p \in Providers})
        <3> DEFINE R == {<<"providers", p>> : p \in Providers}
        <3>1. IsFiniteSet(R)
            BY FiniteSets, RowSetsAreFinite, Zenon
        <3> DEFINE row == [i \in DOMAIN known |-> <<"providers", known[i].provider>>]
        <3>2. ASSUME NEW i \in DOMAIN known
              PROVE  /\ row[i] \in R
                     /\ \A q \in R : q \in RowsOf(known[i], generated) <=>
                            q = row[i] /\ <<"allTime">> \in RowsOf(known[i], generated)
            BY <2>0, OverviewRows, Tuples
        <3> HIDE DEF R, row
        <3>3. At(stats, <<"allTime">>) = Sum(R)
            BY <3>1, <3>2, RowsAddUp
        <3> QED BY <3>3 DEF R
    <2>2. At(stats, <<"allTime">>) = Sum({<<"models", m>> : m \in Models})
        <3> DEFINE R == {<<"models", m>> : m \in Models}
        <3>1. IsFiniteSet(R)
            BY FiniteSets, RowSetsAreFinite, Zenon
        <3> DEFINE row == [i \in DOMAIN known |-> <<"models", known[i].model>>]
        <3>2. ASSUME NEW i \in DOMAIN known
              PROVE  /\ row[i] \in R
                     /\ \A q \in R : q \in RowsOf(known[i], generated) <=>
                            q = row[i] /\ <<"allTime">> \in RowsOf(known[i], generated)
            BY <2>0, OverviewRows, Tuples
        <3> HIDE DEF R, row
        <3>3. At(stats, <<"allTime">>) = Sum(R)
            BY <3>1, <3>2, RowsAddUp
        <3> QED BY <3>3 DEF R
    <2>3. At(stats, <<"allTime">>) = Sum({<<p, "allTime", "totals">> : p \in Providers})
        <3> DEFINE R == {<<p, "allTime", "totals">> : p \in Providers}
        <3>1. IsFiniteSet(R)
            <4>1. IsFiniteSet(Providers)
                BY FiniteSets
            <4>2. \A b, c : IsFiniteSet({<<x, b, c>> : x \in Providers})
                BY <4>1, RowSetsAreFinite
            <4> QED BY <4>2
        <3> DEFINE row == [i \in DOMAIN known |-> <<known[i].provider, "allTime", "totals">>]
        <3>2. ASSUME NEW i \in DOMAIN known
              PROVE  /\ row[i] \in R
                     /\ \A q \in R : q \in RowsOf(known[i], generated) <=>
                            q = row[i] /\ <<"allTime">> \in RowsOf(known[i], generated)
            <4>1. \A p : <<p, "allTime", "totals">> \in RowsOf(known[i], generated) <=>
                            p = known[i].provider /\ InPeriod(known[i], "allTime", generated)
                BY <2>0, ProviderRows DEF Periods
            <4>2. <<"allTime">> \in RowsOf(known[i], generated) <=> InPeriod(known[i], "allTime", generated)
                BY <2>0, OverviewRows, PeriodsNest
            <4> QED BY <2>0, <4>1, <4>2, Tuples
        <3> HIDE DEF R, row
        <3>3. At(stats, <<"allTime">>) = Sum(R)
            BY <3>1, <3>2, RowsAddUp
        <3> QED BY <3>3 DEF R
    <2>4. At(stats, <<"today">>) = Sum({<<p, "today", "totals">> : p \in Providers})
        <3> DEFINE R == {<<p, "today", "totals">> : p \in Providers}
        <3>1. IsFiniteSet(R)
            <4>1. IsFiniteSet(Providers)
                BY FiniteSets
            <4>2. \A b, c : IsFiniteSet({<<x, b, c>> : x \in Providers})
                BY <4>1, RowSetsAreFinite
            <4> QED BY <4>2
        <3> DEFINE row == [i \in DOMAIN known |-> <<known[i].provider, "today", "totals">>]
        <3>2. ASSUME NEW i \in DOMAIN known
              PROVE  /\ row[i] \in R
                     /\ \A q \in R : q \in RowsOf(known[i], generated) <=>
                            q = row[i] /\ <<"today">> \in RowsOf(known[i], generated)
            <4>1. \A p : <<p, "today", "totals">> \in RowsOf(known[i], generated) <=>
                            p = known[i].provider /\ InPeriod(known[i], "today", generated)
                BY <2>0, ProviderRows DEF Periods
            <4>2. <<"today">> \in RowsOf(known[i], generated) <=> InPeriod(known[i], "today", generated)
                BY <2>0, OverviewRows
            <4> QED BY <2>0, <4>1, <4>2, Tuples
        <3> HIDE DEF R, row
        <3>3. At(stats, <<"today">>) = Sum(R)
            BY <3>1, <3>2, RowsAddUp
        <3> QED BY <3>3 DEF R
    <2>5. At(stats, <<"today">>) = Sum(HourlyChart)
        <3> DEFINE row == [i \in DOMAIN known |-> <<"hourly", HourOf(known[i].time)>>]
        <3>1. IsFiniteSet(HourlyChart)
            BY FiniteSets, RowSetsAreFinite, Zenon DEF HourlyChart
        <3>2. ASSUME NEW i \in DOMAIN known
              PROVE  /\ row[i] \in HourlyChart
                     /\ \A q \in HourlyChart : q \in RowsOf(known[i], generated) <=>
                            q = row[i] /\ <<"today">> \in RowsOf(known[i], generated)
            BY <2>0, OverviewRows, Tuples DEF HourlyChart
        <3> HIDE DEF row
        <3> QED BY <3>1, <3>2, RowsAddUp
    <2>6. /\ AtMost(At(stats, <<"today">>), At(stats, <<"last7Days">>))
          /\ AtMost(At(stats, <<"last7Days">>), At(stats, <<"allTime">>))
        <3>1. ASSUME NEW i \in DOMAIN known
              PROVE  /\ <<"allTime">> \in RowsOf(known[i], generated)
                     /\ <<"today">> \in RowsOf(known[i], generated) =>
                            <<"last7Days">> \in RowsOf(known[i], generated)
            BY <2>0, OverviewRows, PeriodsNest
        <3> QED BY <3>1, RowWithin
    <2>7. ASSUME NEW p \in Providers
          PROVE  /\ AtMost(At(stats, <<p, "today", "totals">>), At(stats, <<p, "last30Days", "totals">>))
                 /\ AtMost(At(stats, <<p, "last30Days", "totals">>), At(stats, <<p, "allTime", "totals">>))
        <3>1. ASSUME NEW i \in DOMAIN known
              PROVE  /\ <<p, "today", "totals">> \in RowsOf(known[i], generated) =>
                            <<p, "last30Days", "totals">> \in RowsOf(known[i], generated)
                     /\ <<p, "last30Days", "totals">> \in RowsOf(known[i], generated) =>
                            <<p, "allTime", "totals">> \in RowsOf(known[i], generated)
            BY <2>0, ProviderRows, PeriodsNest DEF Periods
        <3> QED BY <3>1, RowWithin
    <2>8. ASSUME NEW p \in Providers, NEW period \in Periods
          PROVE  At(stats, <<p, period, "totals">>) = Sum({<<p, period, "models", m>> : m \in Models})
        <3> DEFINE R == {<<p, period, "models", m>> : m \in Models}
        <3>1. IsFiniteSet(R)
            <4>1. IsFiniteSet(Models)
                BY FiniteSets
            <4>2. \A a, b, c : IsFiniteSet({<<a, b, c, x>> : x \in Models})
                BY <4>1, RowSetsAreFinite
            <4> QED BY <4>2
        <3> DEFINE row == [i \in DOMAIN known |-> <<p, period, "models", known[i].model>>]
        <3>2. ASSUME NEW i \in DOMAIN known
              PROVE  /\ row[i] \in R
                     /\ \A q \in R : q \in RowsOf(known[i], generated) <=>
                            q = row[i] /\ <<p, period, "totals">> \in RowsOf(known[i], generated)
            BY <2>0, ProviderRows, Tuples
        <3> HIDE DEF R, row
        <3>3. At(stats, <<p, period, "totals">>) = Sum(R)
            BY <3>1, <3>2, RowsAddUp
        <3> QED BY <3>3 DEF R
    <2>9. ASSUME NEW p \in Providers, NEW period \in Periods
          PROVE  At(stats, <<p, period, "totals">>) =
                    Sum({<<p, period, "timeline", row>> : row \in RowsIn(period)})
        BY TimelinesAddUp
    <2> QED BY <2>1, <2>2, <2>3, <2>4, <2>5, <2>6, <2>7, <2>8, <2>9 DEF TotalsAgree
<1> QED BY <1>1, StatsInvHolds, PTL

-----------------------------------------------------------------------------
(* The charts.                                                             *)

\* What the invariants say of events is what Told says.
LEMMA ToldIs ==
    ASSUME StatsInv, NEW K \in SUBSET DOMAIN known
    PROVE  Told(K) = [f \in Fields |-> SumFunction([i \in K |-> Add(Zero, known[i])[f]])]
<1>1. ASSUME NEW f \in Fields
      PROVE  SumFunction([i \in K |-> Add(Zero, known[i])[f]]) = SumFunctionOnSet(Worths(known, f), K)
    <2> DEFINE g == [i \in K |-> Add(Zero, known[i])[f]]
    <2> DEFINE w == Worths(known, f)
    <2>1. IsFiniteSet(K) /\ Ints(w, K)
        BY WorthsAre DEF StatsInv
    <2>2. \A i \in K : w[i] = g[i]
        BY DEF Worths, Worth
    <2>3. DOMAIN g = K
        OBVIOUS
    <2> HIDE DEF g, w
    <2>4. SumFunctionOnSet(w, K) = SumFunctionOnSet(g, K)
        BY <2>1, <2>2, SumEqual
    <2>5. SumFunction(g) = SumFunctionOnSet(w, K)
        BY <2>3, <2>4 DEF SumFunction
    <2> QED BY <2>5 DEF g, w
<1> QED BY <1>1 DEF Told

\* The days of the page are not before those of the statistics.
LEMMA Clocks ==
    ASSUME StatsInv
    PROVE  /\ now \in Times /\ generated \in Times /\ now \in Int /\ generated \in Int
           /\ DayOf(now) \in Int /\ DayOf(generated) \in Int
           /\ DayOf(generated) <= DayOf(now)
           /\ MonthDays \in Nat /\ MonthDays - 1 \in Nat
           /\ StartOf(now, MonthDays - 1) \in Int
           /\ StartOf(now, MonthDays - 1) = (DayOf(now) - (MonthDays - 1)) * HoursPerDay - Zone
           /\ DailyStart(generated) \in Int
           /\ DailyStart(generated) = (DayOf(generated) - (MonthDays - 1)) * HoursPerDay - Zone
           /\ DailyStart(generated) <= generated
           /\ DailyStart(generated) <= StartOf(now, MonthDays - 1)
<1>1. /\ now \in Times /\ generated \in Times /\ generated <= now
      /\ now \in Int /\ generated \in Int
    BY TimeAssumption DEF StatsInv, Times
<1>2. DayOf(now) \in Int /\ DayOf(generated) \in Int /\ DayOf(generated) <= DayOf(now)
    BY <1>1, DaysAre
<1>3. MonthDays \in Nat /\ MonthDays - 1 \in Nat /\ HoursPerDay \in Nat \ {0} /\ Zone \in Nat
    BY PeriodsAssumption, TimeAssumption
<1>4. /\ StartOf(now, MonthDays - 1) \in Int
      /\ StartOf(now, MonthDays - 1) = (DayOf(now) - (MonthDays - 1)) * HoursPerDay - Zone
      /\ DailyStart(generated) \in Int
      /\ DailyStart(generated) = (DayOf(generated) - (MonthDays - 1)) * HoursPerDay - Zone
      /\ DailyStart(generated) <= generated
    BY <1>1, <1>3, PeriodsBegin DEF DailyStart
<1> DEFINE a == DayOf(generated) - (MonthDays - 1)
<1> DEFINE b == DayOf(now) - (MonthDays - 1)
<1>5. a \in Int /\ b \in Int /\ a <= b
    BY <1>2, <1>3
<1> HIDE DEF a, b
<1>6. a * HoursPerDay <= b * HoursPerDay /\ a * HoursPerDay \in Int /\ b * HoursPerDay \in Int
    BY <1>3, <1>5, Multiples
<1>7. a * HoursPerDay - Zone <= b * HoursPerDay - Zone
    BY <1>3, <1>6
<1>8. DailyStart(generated) <= StartOf(now, MonthDays - 1)
    BY <1>4, <1>7 DEF a, b
<1> QED BY <1>1, <1>2, <1>3, <1>4, <1>8

\* A day has a column when it begins in the thirty days the page ends with.
LEMMA ColumnsAre ==
    ASSUME StatsInv, NEW i \in DOMAIN known
    PROVE  LET t == known[i].time
           IN  /\ DayOf(t) \in Columns => t >= StartOf(now, MonthDays - 1)
               /\ t >= StartOf(now, MonthDays - 1) /\ t <= generated => DayOf(t) \in Columns
<1> DEFINE t == known[i].time
<1> DEFINE k == DayOf(now) - (MonthDays - 1)
<1>1. t \in Times /\ t \in Int /\ DayOf(t) \in Days
    BY KnownAre
<1>2. k \in Int
    BY Clocks
<1>3. /\ DayOf(t) \in Int
      /\ DayOf(t) >= k <=> t >= k * HoursPerDay - Zone
      /\ t <= generated => DayOf(t) <= DayOf(generated)
    BY <1>1, <1>2, Clocks, DaysAre
<1>4. DayOf(t) >= k <=> t >= StartOf(now, MonthDays - 1)
    BY <1>3, Clocks
<1> HIDE DEF t
<1>5. DayOf(now) \in Int /\ DayOf(generated) \in Int /\ DayOf(generated) <= DayOf(now) /\ MonthDays \in Nat
    BY Clocks
<1>6. DayOf(t) \in Columns <=> DayOf(t) >= k /\ DayOf(t) <= DayOf(now)
    BY <1>1, <1>3, <1>5 DEF Columns
<1>7. t <= generated => DayOf(t) <= DayOf(now)
    BY <1>3, <1>5
<1> QED BY <1>4, <1>6, <1>7 DEF t

\* The columns are finitely many.
LEMMA ColumnsFinite == IsFiniteSet(Columns)
    BY FiniteSets, FS_Subset DEF Columns

\* What the bars of the last thirty days show, whenever they are drawn.
Shown(p) == {i \in DOMAIN known : /\ known[i].provider = p
                                  /\ known[i].time \in StartOf(now, MonthDays - 1)..generated}

\* The bars of the last thirty days show just those events.
LEMMA BarsShow ==
    ASSUME StatsInv, NEW p \in Providers
    PROVE  Sum(Timeline(p, "last30Days")) = Told(Shown(p))
<1> DEFINE R == {<<p, "last30Days", "timeline", row>> : row \in Columns}
<1>1. Timeline(p, "last30Days") = R
    BY DEF Timeline
<1>2. IsFiniteSet(R)
    <2>1. \A a, b, c : IsFiniteSet({<<a, b, c, x>> : x \in Columns})
        BY ColumnsFinite, RowSetsAreFinite
    <2> QED BY <2>1
<1>3. ASSUME NEW i \in DOMAIN known
      PROVE  i \in Shown(p) <=> /\ known[i].provider = p
                                /\ InPeriod(known[i], "last30Days", generated)
                                /\ DayOf(known[i].time) \in Columns
    <2>1. /\ known[i].time \in Int /\ generated \in Int
          /\ StartOf(now, MonthDays - 1) \in Int /\ DailyStart(generated) \in Int
          /\ DailyStart(generated) <= StartOf(now, MonthDays - 1)
        BY KnownAre, Clocks
    <2>2. /\ DayOf(known[i].time) \in Columns => known[i].time >= StartOf(now, MonthDays - 1)
          /\ known[i].time >= StartOf(now, MonthDays - 1) /\ known[i].time <= generated
                => DayOf(known[i].time) \in Columns
        BY ColumnsAre
    <2>3. InPeriod(known[i], "last30Days", generated) <=>
             known[i].time >= DailyStart(generated) /\ known[i].time <= generated
        BY DEF InPeriod
    <2> QED BY <2>1, <2>2, <2>3 DEF Shown
<1>4. ASSUME NEW i \in DOMAIN known, NEW row
      PROVE  <<p, "last30Days", "timeline", row>> \in RowsOf(known[i], generated) <=>
                /\ p = known[i].provider /\ InPeriod(known[i], "last30Days", generated)
                /\ row = DayOf(known[i].time)
    <2>1. known[i].time \in Int /\ DailyStart(generated) \in Int
        BY KnownAre
    <2>2. RowIn(known[i], "last30Days") = DayOf(known[i].time) /\ "last30Days" \in Periods
        BY DEF RowIn, Periods
    <2> QED BY <2>1, <2>2, ProviderRows
<1>5. ASSUME NEW i \in DOMAIN known
      PROVE  i \in Shown(p) <=> \E r \in R : r \in RowsOf(known[i], generated)
    BY <1>3, <1>4
<1>6. ASSUME NEW i \in DOMAIN known, NEW q \in R, NEW r \in R,
             q \in RowsOf(known[i], generated), r \in RowsOf(known[i], generated)
      PROVE  q = r
    BY <1>4, <1>6
<1>7. Shown(p) \in SUBSET DOMAIN known
    BY DEF Shown
<1> HIDE DEF R
<1>8. Sum(R) = Told(Shown(p))
    BY <1>2, <1>5, <1>6, <1>7, RowsTell
<1> QED BY <1>1, <1>8

\* The all-time chart shows every day, unless it says it is cut.
LEMMA WholeTimeline ==
    ASSUME StatsInv, NEW p \in Providers, ~IsCut(p)
    PROVE  Sum(Timeline(p, "allTime")) = At(stats, <<p, "allTime", "totals">>)
<1> DEFINE R == {<<p, "allTime", "timeline", row>> : row \in ActiveDays(p)}
<1>1. ActiveDays(p) \in SUBSET Days /\ IsFiniteSet(ActiveDays(p))
    BY FiniteSets, FS_Subset DEF ActiveDays
<1>2. Newest(ActiveDays(p)) = ActiveDays(p)
    <2>1. Cardinality(ActiveDays(p)) <= ChartRows /\ Cardinality(ActiveDays(p)) \in Nat /\ ChartRows \in Nat
        BY <1>1, FS_CardinalityType, PeriodsAssumption DEF IsCut
    <2>2. ASSUME NEW d \in ActiveDays(p)
          PROVE  Cardinality({x \in ActiveDays(p) : x > d}) < ChartRows
        <3> DEFINE later == {x \in ActiveDays(p) : x > d}
        <3>1. d \in Int
            BY <1>1, Quotient, PeriodsAssumption, TimeAssumption DEF Days
        <3>2. later \in SUBSET (ActiveDays(p) \ {d})
            BY <3>1
        <3>3. /\ Cardinality(ActiveDays(p) \ {d}) = Cardinality(ActiveDays(p)) - 1
              /\ IsFiniteSet(ActiveDays(p) \ {d})
            BY <1>1, SizeOf
        <3> HIDE DEF later
        <3>4. Cardinality(later) \in Nat /\ Cardinality(later) <= Cardinality(ActiveDays(p) \ {d})
            BY <3>2, <3>3, SizeOf
        <3>5. Cardinality(later) < ChartRows
            BY <2>1, <3>3, <3>4
        <3> QED BY <3>5 DEF later
    <2> QED BY <2>2 DEF Newest
<1>3. Timeline(p, "allTime") = R
    BY <1>2 DEF Timeline
<1>4. IsFiniteSet(R)
    <2>1. \A a, b, c : IsFiniteSet({<<a, b, c, x>> : x \in ActiveDays(p)})
        BY <1>1, RowSetsAreFinite
    <2> QED BY <2>1
<1>5. ASSUME NEW i \in DOMAIN known
      PROVE  /\ <<p, "allTime", "totals">> \in RowsOf(known[i], generated) <=> p = known[i].provider
             /\ \A d : <<p, "allTime", "timeline", d>> \in RowsOf(known[i], generated) <=>
                          p = known[i].provider /\ d = DayOf(known[i].time)
             /\ DayOf(known[i].time) \in Days
    <2>1. /\ known[i].time \in Int /\ DailyStart(generated) \in Int
          /\ DayOf(known[i].time) \in Days
        BY KnownAre
    <2>2. /\ RowIn(known[i], "allTime") = DayOf(known[i].time) /\ "allTime" \in Periods
          /\ InPeriod(known[i], "allTime", generated)
        BY DEF RowIn, Periods, InPeriod
    <2> QED BY <2>1, <2>2, ProviderRows
<1>6. ASSUME NEW i \in DOMAIN known, p = known[i].provider
      PROVE  <<p, "allTime", "timeline", DayOf(known[i].time)>> \in R
    <2> DEFINE r == <<p, "allTime", "timeline", DayOf(known[i].time)>>
    <2>1. i \in Hits(known, generated, r)
        BY <1>5, <1>6 DEF Hits
    <2>2. r \in DOMAIN stats
        BY <2>1, RowTells
    <2>3. DayOf(known[i].time) \in ActiveDays(p)
        BY <1>5, <2>2 DEF ActiveDays
    <2> QED BY <2>3
<1> DEFINE K == Hits(known, generated, <<p, "allTime", "totals">>)
<1>7. ASSUME NEW i \in DOMAIN known
      PROVE  i \in K <=> \E r \in R : r \in RowsOf(known[i], generated)
    <2>1. i \in K <=> p = known[i].provider
        BY <1>5 DEF Hits
    <2>2. CASE p = known[i].provider
        BY <1>5, <1>6, <2>1, <2>2
    <2>3. CASE p # known[i].provider
        BY <1>5, <2>1, <2>3
    <2> QED BY <2>2, <2>3
<1>8. ASSUME NEW i \in DOMAIN known, NEW q \in R, NEW r \in R,
             q \in RowsOf(known[i], generated), r \in RowsOf(known[i], generated)
      PROVE  q = r
    BY <1>5, <1>8
<1>9. K \in SUBSET DOMAIN known
    BY DEF Hits
<1> HIDE DEF R, K
<1>10. Sum(R) = Told(K)
    BY <1>4, <1>7, <1>8, <1>9, RowsTell
<1> QED BY <1>3, <1>10, RowTells DEF K

\* In every state the bars the page draws cover the period its totals are given
\* for, also when the page is drawn days after the refresh: the columns are the
\* days of the last thirty that have begun by then, and their
\* thirty-day ledger has no event dated after them.
THEOREM ChartsAlwaysCoverPeriod == Spec => []ChartsCoverPeriod
<1>1. StatsInv => ChartsCoverPeriod
    <2> SUFFICES ASSUME StatsInv PROVE ChartsCoverPeriod
        OBVIOUS
    <2>1. ASSUME NEW p \in Providers, DayOf(now) = DayOf(generated)
          PROVE  Sum(Timeline(p, "last30Days")) = At(stats, <<p, "last30Days", "totals">>)
        <3> DEFINE r == <<p, "last30Days", "totals">>
        <3>1. DailyStart(generated) = StartOf(now, MonthDays - 1)
            BY <2>1, Clocks
        <3>2. ASSUME NEW i \in DOMAIN known
              PROVE  r \in RowsOf(known[i], generated) <=> i \in Shown(p)
            <4>1. known[i].time \in Int /\ DailyStart(generated) \in Int /\ generated \in Int
                BY KnownAre, Clocks
            <4>2. r \in RowsOf(known[i], generated) <=>
                     p = known[i].provider /\ InPeriod(known[i], "last30Days", generated)
                BY <4>1, ProviderRows DEF Periods
            <4>3. InPeriod(known[i], "last30Days", generated) <=>
                     known[i].time >= DailyStart(generated) /\ known[i].time <= generated
                BY DEF InPeriod
            <4> QED BY <3>1, <4>1, <4>2, <4>3 DEF Shown
        <3>3. Hits(known, generated, r) = Shown(p)
            BY <3>2 DEF Hits, Shown
        <3> QED BY <3>3, BarsShow, RowTells
    <2>2. ASSUME NEW p \in Providers
          PROVE  Sum(Timeline(p, "last30Days")) =
                    SumOf(known, LAMBDA e : /\ e.provider = p
                                            /\ e.time \in StartOf(now, MonthDays - 1)..generated)
        <3>1. Shown(p) \in SUBSET DOMAIN known
            BY DEF Shown
        <3>2. Told(Shown(p)) = [f \in Fields |-> SumFunction([i \in Shown(p) |-> Add(Zero, known[i])[f]])]
            BY <3>1, ToldIs
        <3>3. Told(Shown(p)) =
                SumOf(known, LAMBDA e : /\ e.provider = p
                                        /\ e.time \in StartOf(now, MonthDays - 1)..generated)
            BY <3>2, Zenon DEF SumOf, Shown
        <3> QED BY <3>3, BarsShow
    <2>3. ASSUME NEW p \in Providers
          PROVE  Sum(Timeline(p, "today")) = At(stats, <<p, "today", "totals">>)
        <3>1. Timeline(p, "today") = {<<p, "today", "timeline", row>> : row \in RowsIn("today")}
            BY DEF Timeline, RowsIn
        <3>2. "today" \in Periods
            BY DEF Periods
        <3> QED BY <3>1, <3>2, TimelinesAddUp
    <2>4. ASSUME NEW p \in Providers
          PROVE  IsCut(p) \/ Sum(Timeline(p, "allTime")) = At(stats, <<p, "allTime", "totals">>)
        BY WholeTimeline
    <2> QED BY <2>1, <2>2, <2>3, <2>4 DEF ChartsCoverPeriod
<1> QED BY <1>1, StatsInvHolds, PTL

-----------------------------------------------------------------------------
(* The tab of the overview and those of the providers.                     *)

\* What is told of two sets that share nothing.
LEMMA ToldTogether ==
    ASSUME StatsInv, NEW A \in SUBSET DOMAIN known, NEW B \in SUBSET DOMAIN known, A \cap B = {},
           NEW f \in Fields
    PROVE  /\ Told(A)[f] \in Int /\ Told(B)[f] \in Int
           /\ Told(A \cup B)[f] = Told(A)[f] + Told(B)[f]
<1> DEFINE w == Worths(known, f)
<1>1. /\ IsFiniteSet(A) /\ Ints(w, A) /\ IsFiniteSet(B) /\ Ints(w, B)
      /\ Ints(w, A \cup B)
    BY WorthsAre DEF StatsInv
<1> HIDE DEF w
<1>2. SumFunctionOnSet(w, A \cup B) = SumFunctionOnSet(w, A) + SumFunctionOnSet(w, B)
    BY <1>1, SumUnion
<1>3. SumFunctionOnSet(w, A) \in Int /\ SumFunctionOnSet(w, B) \in Int
    BY <1>1, SumSplit
<1>4. \A S : Told(S)[f] = SumFunctionOnSet(w, S)
    BY DEF Told, w
<1> QED BY <1>2, <1>3, <1>4

\* The bars of the overview: those of both providers, and the future.
LEMMA DailyBarsShow ==
    ASSUME StatsInv, NEW K, K = {i \in DOMAIN known : /\ known[i].time >= DailyStart(generated)
                                                      /\ DayOf(known[i].time) \in Columns}
    PROVE  Sum(DailyChart) = Told(K)
<1>1. IsFiniteSet({<<"daily", d>> : d \in Columns})
    BY ColumnsFinite, RowSetsAreFinite
<1>2. ASSUME NEW i \in DOMAIN known
      PROVE  \A d : <<"daily", d>> \in RowsOf(known[i], generated) <=>
                        known[i].time >= DailyStart(generated) /\ d = DayOf(known[i].time)
    BY KnownAre, OverviewRows
<1>3. ASSUME NEW i \in DOMAIN known
      PROVE  i \in K <=> \E r \in DailyChart : r \in RowsOf(known[i], generated)
    BY <1>2 DEF DailyChart
<1>4. ASSUME NEW i \in DOMAIN known, NEW q \in DailyChart, NEW r \in DailyChart,
             q \in RowsOf(known[i], generated), r \in RowsOf(known[i], generated)
      PROVE  q = r
    BY <1>2, <1>4 DEF DailyChart
<1>5. IsFiniteSet(DailyChart) /\ K \in SUBSET DOMAIN known
    BY <1>1 DEF DailyChart
<1> QED BY <1>3, <1>4, <1>5, RowsTell

\* In every state the daily chart of the overview shows what the two providers'
\* thirty days show, and besides it the events dated after the refresh whose day
\* has a column, and nothing else.
THEOREM TabsAlwaysDifferByTheFuture == Spec => []TabsDifferByTheFuture
<1>1. StatsInv => TabsDifferByTheFuture
    <2> SUFFICES ASSUME StatsInv PROVE TabsDifferByTheFuture
        OBVIOUS
    <2> DEFINE Future == {i \in DOMAIN known : /\ known[i].time > generated
                                               /\ DayOf(known[i].time) \in Columns}
    <2> DEFINE K == {i \in DOMAIN known : /\ known[i].time >= DailyStart(generated)
                                          /\ DayOf(known[i].time) \in Columns}
    <2>1. K = (Shown(Claude) \cup Shown(Codex)) \cup Future
        <3>1. ASSUME NEW i \in DOMAIN known
              PROVE  i \in K <=> i \in Shown(Claude) \/ i \in Shown(Codex) \/ i \in Future
            <4>1. /\ known[i].time \in Int /\ generated \in Int
                  /\ StartOf(now, MonthDays - 1) \in Int /\ DailyStart(generated) \in Int
                  /\ DailyStart(generated) <= generated
                  /\ DailyStart(generated) <= StartOf(now, MonthDays - 1)
                  /\ known[i].provider = Claude \/ known[i].provider = Codex
                BY KnownAre, Clocks DEF Providers
            <4>2. /\ DayOf(known[i].time) \in Columns => known[i].time >= StartOf(now, MonthDays - 1)
                  /\ known[i].time >= StartOf(now, MonthDays - 1) /\ known[i].time <= generated
                        => DayOf(known[i].time) \in Columns
                BY ColumnsAre
            <4> QED BY <4>1, <4>2 DEF Shown
        <3> QED BY <3>1 DEF Shown
    <2>2. /\ Shown(Claude) \in SUBSET DOMAIN known /\ Shown(Codex) \in SUBSET DOMAIN known
          /\ Future \in SUBSET DOMAIN known
          /\ Shown(Claude) \cup Shown(Codex) \in SUBSET DOMAIN known
          /\ Shown(Claude) \cap Shown(Codex) = {}
        BY DEF Shown, Claude, Codex
    <2>3. (Shown(Claude) \cup Shown(Codex)) \cap Future = {}
        BY KnownAre, Clocks DEF Shown
    <2>4. Sum(DailyChart) = Told(K)
        BY DailyBarsShow
    <2>5. Sum(Timeline(Claude, "last30Days")) = Told(Shown(Claude))
        BY BarsShow DEF Providers
    <2>6. Sum(Timeline(Codex, "last30Days")) = Told(Shown(Codex))
        BY BarsShow DEF Providers
    <2>7. SumOf(known, LAMBDA e : e.time > generated /\ DayOf(e.time) \in Columns) = Told(Future)
        <3>1. Told(Future) = [f \in Fields |-> SumFunction([i \in Future |-> Add(Zero, known[i])[f]])]
            BY <2>2, ToldIs
        <3> QED BY <3>1, Zenon DEF SumOf
    <2> HIDE DEF Future, K
    <2>8. ASSUME NEW f \in Fields
          PROVE  Told(K)[f] = Told(Shown(Claude))[f] + Told(Shown(Codex))[f] + Told(Future)[f]
        <3>1. Told(Shown(Claude) \cup Shown(Codex))[f] = Told(Shown(Claude))[f] + Told(Shown(Codex))[f]
            BY <2>2, ToldTogether
        <3>2. Told((Shown(Claude) \cup Shown(Codex)) \cup Future)[f] =
                 Told(Shown(Claude) \cup Shown(Codex))[f] + Told(Future)[f]
            BY <2>2, <2>3, ToldTogether
        <3> QED BY <2>1, <3>1, <3>2
    <2>9. Told(K) = [f \in Fields |->
                        Told(Shown(Claude))[f] + Told(Shown(Codex))[f] + Told(Future)[f]]
        <3>1. Told(K) = [f \in Fields |-> Told(K)[f]]
            BY DEF Told
        <3> QED BY <2>8, <3>1
    <2> QED BY <2>4, <2>5, <2>6, <2>7, <2>9 DEF TabsDifferByTheFuture
<1> QED BY <1>1, StatsInvHolds, PTL

-----------------------------------------------------------------------------
(* What a total is made of.                                                *)

\* The fresh input of an event.
Fresh(e) == IF e.provider = Codex THEN e["input"] - e["cacheRead"] ELSE e["input"]

\* The parts of an event.
LEMMA EventParts ==
    ASSUME NEW e \in Events
    PROVE  /\ Fresh(e) \in Nat
           /\ Worth(e)["processed"] = Fresh(e) + Worth(e)["cacheRead"] + Worth(e)["cacheWrite"]
                                        + Worth(e)["output"]
           /\ Worth(e)["priced"] <= Worth(e)["processed"]
           /\ \A f \in {"input", "output", "cacheRead", "cacheWrite", "cost"} : Worth(e)[f] = e[f]
<1>1. IsEvent(e)
    BY EventsAre
<1>2. /\ e["input"] \in Nat /\ e["output"] \in Nat /\ e["cacheRead"] \in Nat
      /\ e["cacheWrite"] \in Nat /\ e["cost"] \in Nat
      /\ e.provider = Codex => e["cacheRead"] <= e["input"] /\ e["cacheWrite"] = 0
      /\ e.provider = Claude \/ e.provider = Codex
    BY <1>1 DEF IsEvent, Providers
<1>3. ProcessedTokens(e) \in Nat
      /\ ProcessedTokens(e) = Fresh(e) + e["cacheRead"] + e["cacheWrite"] + e["output"]
      /\ Fresh(e) \in Nat
    BY <1>2 DEF ProcessedTokens, Fresh, Claude, Codex
<1>4. /\ Worth(e)["processed"] = ProcessedTokens(e)
      /\ Worth(e)["priced"] = IF e.priced THEN ProcessedTokens(e) ELSE 0
      /\ \A f \in {"input", "output", "cacheRead", "cacheWrite", "cost"} : Worth(e)[f] = e[f]
    BY WorthIs DEF Fields
<1> QED BY <1>3, <1>4

\* A sum of multiples,
LEMMA Scaled ==
    ASSUME NEW f, NEW S, IsFiniteSet(S), Ints(f, S), NEW c \in Int
    PROVE  LET g == [x \in S |-> c * f[x]]
           IN  /\ Ints(g, S) /\ SumFunctionOnSet(g, S) = c * SumFunctionOnSet(f, S)
               /\ SumFunctionOnSet(f, S) \in Int /\ SumFunctionOnSet(g, S) \in Int
<1> DEFINE g == [x \in S |-> c * f[x]]
<1>0. \A n \in Int : c * n \in Int
    OBVIOUS
<1>1. Ints(g, S) /\ \A x \in S : g[x] = c * f[x]
    BY <1>0 DEF Ints
<1> HIDE DEF g
<1>2. SumFunctionOnSet(g, S) = c * SumFunctionOnSet(f, S)
    BY <1>1, SumTimes
<1>3. SumFunctionOnSet(f, S) \in Int /\ SumFunctionOnSet(g, S) \in Int
    BY <1>1, SumSplit
<1> QED BY <1>1, <1>2, <1>3 DEF g

\* of three added,
LEMMA Paired ==
    ASSUME NEW f, NEW g, NEW S, IsFiniteSet(S), Ints(f, S), Ints(g, S)
    PROVE  LET h == [x \in S |-> f[x] + g[x]]
           IN  Ints(h, S) /\ SumFunctionOnSet(h, S) = SumFunctionOnSet(f, S) + SumFunctionOnSet(g, S)
<1> DEFINE h == [x \in S |-> f[x] + g[x]]
<1>1. Ints(h, S) /\ \A x \in S : h[x] = f[x] + g[x]
    BY DEF Ints
<1> HIDE DEF h
<1>2. SumFunctionOnSet(h, S) = SumFunctionOnSet(f, S) + SumFunctionOnSet(g, S)
    BY <1>1, SumPlus
<1> QED BY <1>1, <1>2 DEF h

\* and of four.
LEMMA SumOfFour ==
    ASSUME NEW S, IsFiniteSet(S), NEW a, NEW b, NEW c, NEW d, NEW h,
           Ints(a, S), Ints(b, S), Ints(c, S), Ints(d, S),
           \A x \in S : h[x] = a[x] + b[x] + c[x] + d[x]
    PROVE  /\ Ints(h, S)
           /\ SumFunctionOnSet(h, S) = SumFunctionOnSet(a, S) + SumFunctionOnSet(b, S)
                                         + SumFunctionOnSet(c, S) + SumFunctionOnSet(d, S)
<1> DEFINE two == [x \in S |-> a[x] + b[x]]
<1>1. Ints(two, S) /\ SumFunctionOnSet(two, S) = SumFunctionOnSet(a, S) + SumFunctionOnSet(b, S)
    BY Paired
<1>2. \A x \in S : h[x] = (two[x] + c[x]) + d[x]
    OBVIOUS
<1> HIDE DEF two
<1> DEFINE three == [x \in S |-> two[x] + c[x]]
<1>3. Ints(three, S) /\ SumFunctionOnSet(three, S) = SumFunctionOnSet(two, S) + SumFunctionOnSet(c, S)
    BY <1>1, Paired
<1>4. \A x \in S : h[x] = three[x] + d[x]
    BY <1>2
<1> HIDE DEF three
<1>5. Ints(h, S)
    BY <1>3, <1>4 DEF Ints
<1>6. SumFunctionOnSet(h, S) = SumFunctionOnSet(three, S) + SumFunctionOnSet(d, S)
    BY <1>3, <1>4, SumPlus
<1> QED BY <1>1, <1>3, <1>5, <1>6

\* The fresh input of the events of the last refresh.
Freshes == [i \in DOMAIN known |-> Fresh(known[i])]

\* The parts drawn for a row are those of its events.
LEMMA PartsAre ==
    ASSUME StatsInv, NEW r
    PROVE  LET total == At(stats, r)
               hits == Hits(known, generated, r)
               fresh == SumFunctionOnSet(Freshes, hits)
           IN  /\ Parts(total) = <<fresh, total["cacheRead"], total["cacheWrite"], total["output"]>>
               /\ fresh \in Nat
               /\ \A f \in Fields : total[f] \in Nat
               /\ total["processed"] = fresh + total["cacheRead"] + total["cacheWrite"] + total["output"]
               /\ total["priced"] <= total["processed"]
<1> DEFINE total == At(stats, r)
<1> DEFINE hits == Hits(known, generated, r)
<1> DEFINE w(f) == Worths(known, f)
<1> DEFINE fresh == SumFunctionOnSet(Freshes, hits)
<1>1. hits \in SUBSET DOMAIN known /\ IsFiniteSet(hits) /\ \A i \in hits : known[i] \in Events
    BY WorthsAre, KnownAre DEF StatsInv, Hits, Fields
<1>2. \A f \in Fields : Ints(w(f), hits) /\ \A i \in hits : w(f)[i] \in Nat
    BY <1>1, WorthsAre DEF StatsInv
<1>3. \A f \in Fields : total[f] = SumFunctionOnSet(w(f), hits)
    BY RowTells DEF Told
<1>4. \A i \in hits : /\ Freshes[i] \in Nat
                      /\ \A f \in Fields : w(f)[i] = Worth(known[i])[f]
                      /\ Freshes[i] = Fresh(known[i])
    BY <1>1, EventParts DEF Freshes, Worths
<1>5. {"processed", "priced", "cacheRead", "cacheWrite", "output"} \subseteq Fields
    BY DEF Fields
<1> HIDE DEF w, hits, total
<1>6. \A i \in hits : /\ w("processed")[i] = Freshes[i] + w("cacheRead")[i]
                                              + w("cacheWrite")[i] + w("output")[i]
                      /\ w("priced")[i] <= w("processed")[i]
    <2> TAKE i \in hits
    <2>1. /\ Worth(known[i])["processed"] = Fresh(known[i]) + Worth(known[i])["cacheRead"]
                + Worth(known[i])["cacheWrite"] + Worth(known[i])["output"]
          /\ Worth(known[i])["priced"] <= Worth(known[i])["processed"]
        BY <1>1, EventParts
    <2> QED BY <1>4, <1>5, <2>1
<1>7. Ints(Freshes, hits)
    BY <1>4 DEF Ints
<1>8. SumFunctionOnSet(w("processed"), hits) =
          SumFunctionOnSet(Freshes, hits) + SumFunctionOnSet(w("cacheRead"), hits)
          + SumFunctionOnSet(w("cacheWrite"), hits) + SumFunctionOnSet(w("output"), hits)
    <2>1. Ints(w("cacheRead"), hits) /\ Ints(w("cacheWrite"), hits) /\ Ints(w("output"), hits)
        BY <1>2, <1>5
    <2>2. \A i \in hits : w("processed")[i] = Freshes[i] + w("cacheRead")[i]
                                              + w("cacheWrite")[i] + w("output")[i]
        BY <1>6
    <2> QED BY <1>1, <1>7, <2>1, <2>2, SumOfFour
<1>9. SumFunctionOnSet(w("priced"), hits) <= SumFunctionOnSet(w("processed"), hits)
    BY <1>1, <1>2, <1>5, <1>6, SumAtMost
<1>10. fresh \in Nat /\ \A f \in Fields : total[f] \in Nat
    BY <1>1, <1>2, <1>3, <1>4, SumNat
<1>11. total["processed"] = fresh + total["cacheRead"] + total["cacheWrite"] + total["output"]
    BY <1>3, <1>5, <1>8
<1>12. total["priced"] <= total["processed"]
    BY <1>3, <1>5, <1>9
<1> HIDE DEF fresh
<1>13. Positive(total["processed"] - total["output"] - total["cacheRead"] - total["cacheWrite"]) = fresh
    <2>1. /\ fresh \in Nat /\ total["cacheRead"] \in Nat /\ total["cacheWrite"] \in Nat
          /\ total["output"] \in Nat
        BY <1>5, <1>10
    <2>2. total["processed"] - total["output"] - total["cacheRead"] - total["cacheWrite"] = fresh
        BY <1>11, <2>1
    <2> QED BY <2>1, <2>2 DEF Positive
<1>14. Parts(total) = <<fresh, total["cacheRead"], total["cacheWrite"], total["output"]>>
    BY <1>13 DEF Parts
<1> QED BY <1>10, <1>11, <1>12, <1>14 DEF total, hits, fresh

\* Fresh input is the input but for the cached part of it Codex reports.
LEMMA FreshIs ==
    ASSUME StatsInv, NEW S \in SUBSET DOMAIN known
    PROVE  LET codex == {i \in S : known[i].provider = Codex}
           IN  SumFunctionOnSet(Freshes, S) = Told(S)["input"] - Told(codex)["cacheRead"]
<1> DEFINE codex == {i \in S : known[i].provider = Codex}
<1> DEFINE w(f) == Worths(known, f)
<1> DEFINE cached == [i \in S |-> IF known[i].provider = Codex THEN w("cacheRead")[i] ELSE 0]
<1>0. {"input", "cacheRead"} \subseteq Fields
    BY DEF Fields
<1>1. /\ IsFiniteSet(S) /\ IsFiniteSet(codex) /\ codex \in SUBSET S
      /\ \A i \in S : known[i] \in Events /\ w("input")[i] \in Nat /\ w("cacheRead")[i] \in Nat
    <2>1. codex \in SUBSET DOMAIN known
        OBVIOUS
    <2> QED BY <1>0, <2>1, WorthsAre DEF StatsInv
<1>2. \A i \in S : /\ Freshes[i] \in Nat /\ cached[i] \in Nat
                   /\ w("input")[i] = Freshes[i] + cached[i]
    <2> TAKE i \in S
    <2>1. /\ w("input")[i] = known[i]["input"] /\ w("cacheRead")[i] = known[i]["cacheRead"]
          /\ Freshes[i] = Fresh(known[i]) /\ Fresh(known[i]) \in Nat
        BY <1>0, <1>1, EventParts DEF Freshes, Worths
    <2> HIDE DEF w
    <2>2. cached[i] \in Nat
        BY <1>1
    <2> QED BY <1>1, <2>1, <2>2 DEF Fresh
<1>3. \A i \in codex : cached[i] = w("cacheRead")[i]
    OBVIOUS
<1>4. \A i \in S \ codex : cached[i] = 0
    OBVIOUS
<1>5. Told(S)["input"] = SumFunctionOnSet(w("input"), S)
      /\ Told(codex)["cacheRead"] = SumFunctionOnSet(w("cacheRead"), codex)
    BY <1>0 DEF Told
<1> HIDE DEF cached, w, codex
<1>6. Ints(Freshes, S) /\ Ints(cached, S) /\ Ints(cached, codex)
    BY <1>1, <1>2 DEF Ints
<1>7. SumFunctionOnSet(w("input"), S) = SumFunctionOnSet(Freshes, S) + SumFunctionOnSet(cached, S)
    BY <1>1, <1>2, <1>6, SumPlus
<1>8. SumFunctionOnSet(cached, S) = SumFunctionOnSet(cached, codex)
    BY <1>1, <1>4, <1>6, SumSupport
<1>9. SumFunctionOnSet(cached, codex) = SumFunctionOnSet(w("cacheRead"), codex)
    BY <1>1, <1>3, <1>6, SumEqual
<1>10. SumFunctionOnSet(Freshes, S) \in Int /\ SumFunctionOnSet(cached, S) \in Int
    BY <1>1, <1>6, SumSplit
<1> QED BY <1>5, <1>7, <1>8, <1>9, <1>10 DEF codex

\* In every state the parts tokenCompositionParts makes of a row add up to what
\* the row has as processed, and the fresh part is the input without what Codex
\* had in the cache: no difference is cut off at zero.
THEOREM CompositionAlwaysAddsUp == Spec => []CompositionAddsUp
<1>1. StatsInv => CompositionAddsUp
    <2> SUFFICES ASSUME StatsInv, NEW r \in DOMAIN stats
                 PROVE  LET parts == Parts(stats[r])
                        IN  /\ parts[1] + parts[2] + parts[3] + parts[4] = stats[r]["processed"]
                            /\ stats[r]["priced"] <= stats[r]["processed"]
                            /\ parts[1] = SumOf(known, LAMBDA e : r \in RowsOf(e, generated))["input"]
                                 - SumOf(known, LAMBDA e : /\ r \in RowsOf(e, generated)
                                                           /\ e.provider = Codex)["cacheRead"]
        BY DEF CompositionAddsUp
    <2> DEFINE total == stats[r]
    <2> DEFINE hits == Hits(known, generated, r)
    <2> DEFINE codex == {i \in hits : known[i].provider = Codex}
    <2> DEFINE fresh == SumFunctionOnSet(Freshes, hits)
    <2>1. total = At(stats, r) /\ hits \in SUBSET DOMAIN known
        BY RowTells
    <2>2. /\ Parts(total) = <<fresh, total["cacheRead"], total["cacheWrite"], total["output"]>>
          /\ fresh \in Nat
          /\ \A f \in Fields : total[f] \in Nat
          /\ total["processed"] = fresh + total["cacheRead"] + total["cacheWrite"] + total["output"]
          /\ total["priced"] <= total["processed"]
        BY <2>1, PartsAre
    <2>3. SumOf(known, LAMBDA e : r \in RowsOf(e, generated)) = Told(hits)
        <3>1. Told(hits) = [f \in Fields |-> SumFunction([i \in hits |-> Add(Zero, known[i])[f]])]
            BY <2>1, ToldIs
        <3> QED BY <3>1, Zenon DEF SumOf, Hits
    <2>4. SumOf(known, LAMBDA e : r \in RowsOf(e, generated) /\ e.provider = Codex) = Told(codex)
        <3>1. codex = {i \in DOMAIN known : r \in RowsOf(known[i], generated) /\ known[i].provider = Codex}
            BY DEF Hits
        <3>2. codex \in SUBSET DOMAIN known
            BY <3>1
        <3> HIDE DEF codex
        <3>3. Told(codex) = [f \in Fields |-> SumFunction([i \in codex |-> Add(Zero, known[i])[f]])]
            BY <3>2, ToldIs
        <3> QED BY <3>1, <3>3, Zenon DEF SumOf
    <2>5. fresh = Told(hits)["input"] - Told(codex)["cacheRead"]
        BY <2>1, FreshIs
    <2>6. {"cacheRead", "cacheWrite", "output"} \subseteq Fields
        BY DEF Fields
    <2> HIDE DEF total, fresh, hits, codex
    <2>7. /\ total["cacheRead"] \in Nat /\ total["cacheWrite"] \in Nat /\ total["output"] \in Nat
        BY <2>2, <2>6
    <2>8. Parts(total)[1] = fresh /\ Parts(total)[2] = total["cacheRead"]
          /\ Parts(total)[3] = total["cacheWrite"] /\ Parts(total)[4] = total["output"]
        BY <2>2
    <2>9. Parts(total)[1] + Parts(total)[2] + Parts(total)[3] + Parts(total)[4] = total["processed"]
        BY <2>2, <2>7, <2>8
    <2> QED BY <2>2, <2>3, <2>4, <2>5, <2>8, <2>9 DEF total
<1> QED BY <1>1, StatsInvHolds, PTL

-----------------------------------------------------------------------------
(* What a model cost.                                                      *)

\* Tokens at one of two rates cost no less than at the lower one and no more
\* than at the higher.
LEMMA TwoRates ==
    ASSUME NEW w \in Nat, NEW h \in Nat, h <= w, NEW a \in Nat, NEW b \in Nat, a <= b
    PROVE  /\ w * a <= (w - h) * a + h * b
           /\ (w - h) * a + h * b <= w * b
<1>1. w - h \in Nat
    OBVIOUS
<1>2. (w - h) * a = w * a - h * a /\ (w - h) * b = w * b - h * b
    OBVIOUS
<1>3. \A n \in Nat : n * a <= n * b /\ n * a \in Nat /\ n * b \in Nat
    OBVIOUS
<1>4. h * a <= h * b /\ (w - h) * a <= (w - h) * b
    BY <1>1, <1>3
<1>5. w * a \in Nat /\ w * b \in Nat /\ h * a \in Nat /\ h * b \in Nat
    BY <1>3
<1>6. w * a <= (w - h) * a + h * b
    BY <1>2, <1>4, <1>5
<1>7. (w - h) * a + h * b <= w * b
    BY <1>2, <1>4, <1>5
<1> QED BY <1>6, <1>7

\* What an event costs by the rates, the cache writes apart.
Base(e) == LET rates == Rates[e.model]
           IN  Fresh(e) * rates.input + e["cacheRead"] * rates.cacheRead + e["output"] * rates.output

\* What an event costs by the rates, its cache writes at one of theirs.
LEMMA PricesAre ==
    ASSUME NEW e \in Events, ~e.own, e.model \in DOMAIN Rates
    PROVE  /\ Base(e) + e["cacheWrite"] * Rates[e.model].write5m <= e["cost"]
           /\ e["cost"] <= Base(e) + e["cacheWrite"] * Rates[e.model].write1h
<1>1. ASSUME NEW m \in Models, NEW t \in Times, NEW c \in ClaudeCounts, e = ClaudeEvent(m, t, c)
      PROVE  /\ Base(e) + e["cacheWrite"] * Rates[e.model].write5m <= e["cost"]
             /\ e["cost"] <= Base(e) + e["cacheWrite"] * Rates[e.model].write1h
    <2> DEFINE w == Larger(c.cacheWrite, c.oneHour + c.fiveMin)
    <2> DEFINE h == Smaller(c.oneHour, w)
    <2>1. /\ c.input \in Nat /\ c.output \in Nat /\ c.cacheRead \in Nat /\ c.cacheWrite \in Nat
          /\ c.oneHour \in Nat /\ c.fiveMin \in Nat
        BY CountsAssumption
    <2>2. w \in Nat /\ h \in Nat /\ h <= w
        BY <2>1 DEF Larger, Smaller
    <2>3. /\ e.own = (c.cost # NoCost) /\ e.model = m /\ e.provider = Claude
          /\ e["input"] = c.input /\ e["output"] = c.output /\ e["cacheRead"] = c.cacheRead
          /\ e["cacheWrite"] = w
          /\ e["cost"] = IF c.cost # NoCost THEN c.cost
                         ELSE IF m \in DOMAIN Rates THEN priceClaude(Rates[m], c, w) ELSE 0
        BY <1>1 DEF ClaudeEvent
    <2>4. c.cost = NoCost
        BY <2>3
    <2>5. e["cost"] = priceClaude(Rates[m], c, w)
        BY <2>3, <2>4
    <2>6. /\ Rates[m].input \in Nat /\ Rates[m].output \in Nat /\ Rates[m].cacheRead \in Nat
          /\ Rates[m].write5m \in Nat /\ Rates[m].write1h \in Nat
          /\ Rates[m].write5m <= Rates[m].write1h
        BY <2>3, RatesAssumption
    <2> HIDE DEF w
    <2>7. e["cost"] = c.input * Rates[m].input + c.output * Rates[m].output
            + c.cacheRead * Rates[m].cacheRead + (w - h) * Rates[m].write5m + h * Rates[m].write1h
        BY <2>5 DEF priceClaude
    <2> HIDE DEF h
    <2>8. Base(e) = c.input * Rates[m].input + c.cacheRead * Rates[m].cacheRead + c.output * Rates[m].output
        BY <2>3 DEF Base, Fresh, Claude, Codex
    <2>9. /\ w * Rates[m].write5m <= (w - h) * Rates[m].write5m + h * Rates[m].write1h
          /\ (w - h) * Rates[m].write5m + h * Rates[m].write1h <= w * Rates[m].write1h
        BY <2>2, <2>6, TwoRates
    <2>10. /\ c.input * Rates[m].input \in Nat /\ c.output * Rates[m].output \in Nat
           /\ c.cacheRead * Rates[m].cacheRead \in Nat
           /\ (w - h) * Rates[m].write5m \in Nat /\ h * Rates[m].write1h \in Nat
           /\ w * Rates[m].write5m \in Nat /\ w * Rates[m].write1h \in Nat
        <3>1. w - h \in Nat
            BY <2>2
        <3> QED BY <2>1, <2>2, <2>6, <3>1, Products
    <2> QED BY <2>3, <2>7, <2>8, <2>9, <2>10
<1>2. ASSUME NEW m \in Models, NEW t \in Times, NEW c \in CodexCounts, e = CodexEvent(m, t, c)
      PROVE  /\ Base(e) + e["cacheWrite"] * Rates[e.model].write5m <= e["cost"]
             /\ e["cost"] <= Base(e) + e["cacheWrite"] * Rates[e.model].write1h
    <2> DEFINE cached == CachedOf(c.cached, c.input)
    <2>1. c.input \in Nat /\ c.output \in Nat /\ cached \in Nat /\ c.input - cached \in Nat
        BY CountsAssumption DEF CachedOf
    <2>2. /\ e.model = m /\ e.provider = Codex
          /\ e["input"] = c.input /\ e["output"] = c.output /\ e["cacheRead"] = cached
          /\ e["cacheWrite"] = 0
          /\ e["cost"] = IF m \in DOMAIN Rates THEN priceCodex(Rates[m], c.input, c.output, cached) ELSE 0
        BY <1>2 DEF CodexEvent
    <2> HIDE DEF cached
    <2>3. /\ Rates[m].input \in Nat /\ Rates[m].output \in Nat /\ Rates[m].cacheRead \in Nat
          /\ Rates[m].write5m \in Nat /\ Rates[m].write1h \in Nat
        BY <2>2, RatesAssumption
    <2>4. e["cost"] = (c.input - cached) * Rates[m].input + cached * Rates[m].cacheRead
                        + c.output * Rates[m].output
        BY <2>2 DEF priceCodex
    <2>5. Base(e) = e["cost"]
        BY <2>2, <2>4 DEF Base, Fresh
    <2>6. 0 * Rates[m].write5m = 0 /\ 0 * Rates[m].write1h = 0
        BY <2>3
    <2>7. e["cost"] \in Nat
        BY EventsAre DEF IsEvent
    <2> QED BY <2>2, <2>5, <2>6, <2>7
<1> QED BY <1>1, <1>2 DEF Events

\* In every state a model's estimate is that of the parts drawn for it at its
\* rates, whatever they are, as long as writing for five minutes costs no more
\* than writing for an hour and no log has given a cost of its own.
THEOREM EstimateIsAlwaysOfParts == Spec => []EstimateIsOfParts
<1>1. StatsInv => EstimateIsOfParts
    <2> SUFFICES ASSUME StatsInv, NEW p \in Providers, NEW period \in Periods, NEW m \in DOMAIN Rates,
                        \A i \in DOMAIN known :
                            <<p, period, "models", m>> \in RowsOf(known[i], generated) => ~known[i].own
                 PROVE  LET total == At(stats, <<p, period, "models", m>>)
                            parts == Parts(total)
                            others == parts[1] * Rates[m].input + parts[2] * Rates[m].cacheRead
                                      + parts[4] * Rates[m].output
                        IN  /\ total["cost"] >= others + parts[3] * Rates[m].write5m
                            /\ total["cost"] <= others + parts[3] * Rates[m].write1h
        BY Zenon DEF EstimateIsOfParts
    <2> DEFINE row == <<p, period, "models", m>>
    <2> DEFINE total == At(stats, row)
    <2> DEFINE hits == Hits(known, generated, row)
    <2> DEFINE fresh == SumFunctionOnSet(Freshes, hits)
    <2> DEFINE w(f) == Worths(known, f)
    <2> DEFINE Price(write) == [i \in hits |-> Rates[m].input * Freshes[i] + Rates[m].cacheRead * w("cacheRead")[i]
                                    + Rates[m].output * w("output")[i] + write * w("cacheWrite")[i]]
    <2>1. /\ Parts(total) = <<fresh, total["cacheRead"], total["cacheWrite"], total["output"]>>
          /\ fresh \in Nat
          /\ \A f \in Fields : total[f] \in Nat
        BY PartsAre
    <2>2. /\ hits \in SUBSET DOMAIN known /\ IsFiniteSet(hits)
          /\ total = Told(hits)
        BY RowTells, WorthsAre DEF StatsInv, Fields
    <2>3. {"cost", "cacheRead", "cacheWrite", "output"} \subseteq Fields
        BY DEF Fields
    <2>4. \A f \in Fields : /\ total[f] = SumFunctionOnSet(w(f), hits)
                            /\ Ints(w(f), hits)
        BY <2>2, WorthsAre DEF Told, StatsInv
    <2>5. /\ Rates[m].input \in Nat /\ Rates[m].output \in Nat /\ Rates[m].cacheRead \in Nat
          /\ Rates[m].write5m \in Nat /\ Rates[m].write1h \in Nat
        BY RatesAssumption
    <2>6. ASSUME NEW i \in hits
          PROVE  /\ known[i] \in Events /\ ~known[i].own /\ known[i].model = m
                 /\ Freshes[i] = Fresh(known[i]) /\ Freshes[i] \in Nat
                 /\ \A f \in {"cost", "cacheRead", "cacheWrite", "output"} :
                       w(f)[i] = known[i][f] /\ known[i][f] \in Nat
        <3>1. i \in DOMAIN known /\ row \in RowsOf(known[i], generated)
            BY DEF Hits
        <3>2. /\ known[i] \in Events /\ known[i].time \in Int /\ DailyStart(generated) \in Int
              /\ IsEvent(known[i])
            BY <3>1, KnownAre
        <3>3. known[i].model = m
            BY <3>1, <3>2, ProviderRows
        <3>4. Freshes[i] = Fresh(known[i]) /\ Freshes[i] \in Nat
            BY <3>1, <3>2, EventParts DEF Freshes
        <3>5. \A f \in {"cost", "cacheRead", "cacheWrite", "output"} : w(f)[i] = known[i][f]
            BY <3>1, <3>2, EventParts DEF Worths
        <3>6. \A f \in {"cost", "cacheRead", "cacheWrite", "output"} : known[i][f] \in Nat
            BY <3>2 DEF IsEvent
        <3> QED BY <3>1, <3>2, <3>3, <3>4, <3>5, <3>6
    <2> HIDE DEF hits, total, w, row
    <2>7. ASSUME NEW i \in hits
          PROVE  /\ Price(Rates[m].write5m)[i] \in Int /\ Price(Rates[m].write1h)[i] \in Int
                 /\ Price(Rates[m].write5m)[i] <= w("cost")[i]
                 /\ w("cost")[i] <= Price(Rates[m].write1h)[i]
        <3> DEFINE e == known[i]
        <3>1. /\ e \in Events /\ ~e.own /\ e.model = m
              /\ Freshes[i] = Fresh(e) /\ Freshes[i] \in Nat
              /\ w("cost")[i] = e["cost"] /\ w("cacheRead")[i] = e["cacheRead"]
              /\ w("cacheWrite")[i] = e["cacheWrite"] /\ w("output")[i] = e["output"]
              /\ e["cost"] \in Nat /\ e["cacheRead"] \in Nat /\ e["cacheWrite"] \in Nat
              /\ e["output"] \in Nat
            BY <2>6
        <3>2. /\ Base(e) + e["cacheWrite"] * Rates[m].write5m <= e["cost"]
              /\ e["cost"] <= Base(e) + e["cacheWrite"] * Rates[m].write1h
            BY <3>1, PricesAre
        <3> HIDE DEF e
        <3>3. \A a, b \in Nat : a * b = b * a /\ a * b \in Nat
            OBVIOUS
        <3>4. Base(e) = Rates[m].input * Fresh(e) + Rates[m].cacheRead * e["cacheRead"]
                            + Rates[m].output * e["output"]
            BY <2>5, <3>1, <3>3 DEF Base
        <3>5. Base(e) \in Nat
            <4>1. /\ Rates[m].input * Fresh(e) \in Nat /\ Rates[m].cacheRead * e["cacheRead"] \in Nat
                  /\ Rates[m].output * e["output"] \in Nat
                BY <2>5, <3>1, <3>3
            <4> QED BY <3>4, <4>1
        <3>6. ASSUME NEW n \in Nat
              PROVE  /\ Price(n)[i] = Base(e) + e["cacheWrite"] * n
                     /\ Price(n)[i] \in Nat
            <4>1. Price(n)[i] = Rates[m].input * Fresh(e) + Rates[m].cacheRead * e["cacheRead"]
                                + Rates[m].output * e["output"] + n * e["cacheWrite"]
                BY <3>1
            <4>2. n * e["cacheWrite"] = e["cacheWrite"] * n /\ n * e["cacheWrite"] \in Nat
                BY <3>1, <3>3
            <4> HIDE DEF Price
            <4> QED BY <3>4, <3>5, <4>1, <4>2
        <3> HIDE DEF Price
        <3> QED BY <2>5, <3>1, <3>2, <3>6
    <2>8. Ints(Freshes, hits)
        BY <2>6 DEF Ints
    <2>9. ASSUME NEW n \in Nat
          PROVE  /\ Ints(Price(n), hits)
                 /\ SumFunctionOnSet(Price(n), hits) =
                       Rates[m].input * fresh + Rates[m].cacheRead * total["cacheRead"]
                       + Rates[m].output * total["output"] + n * total["cacheWrite"]
        <3> DEFINE a == [i \in hits |-> Rates[m].input * Freshes[i]]
        <3> DEFINE b == [i \in hits |-> Rates[m].cacheRead * w("cacheRead")[i]]
        <3> DEFINE c == [i \in hits |-> Rates[m].output * w("output")[i]]
        <3> DEFINE d == [i \in hits |-> n * w("cacheWrite")[i]]
        <3>1. /\ Ints(w("cacheRead"), hits) /\ Ints(w("cacheWrite"), hits) /\ Ints(w("output"), hits)
              /\ total["cacheRead"] = SumFunctionOnSet(w("cacheRead"), hits)
              /\ total["cacheWrite"] = SumFunctionOnSet(w("cacheWrite"), hits)
              /\ total["output"] = SumFunctionOnSet(w("output"), hits)
              /\ Rates[m].cacheRead \in Int /\ Rates[m].output \in Int
            BY <2>3, <2>4, <2>5
        <3>2. Ints(a, hits) /\ SumFunctionOnSet(a, hits) = Rates[m].input * fresh
            BY <2>2, <2>5, <2>8, Scaled
        <3>3. Ints(b, hits) /\ SumFunctionOnSet(b, hits) = Rates[m].cacheRead * total["cacheRead"]
            BY <2>2, <3>1, Scaled
        <3>4. Ints(c, hits) /\ SumFunctionOnSet(c, hits) = Rates[m].output * total["output"]
            BY <2>2, <3>1, Scaled
        <3>5. Ints(d, hits) /\ SumFunctionOnSet(d, hits) = n * total["cacheWrite"]
            BY <2>2, <3>1, Scaled
        <3> DEFINE h == Price(n)
        <3>6. \A i \in hits : h[i] = a[i] + b[i] + c[i] + d[i]
            OBVIOUS
        <3> HIDE DEF a, b, c, d, h, fresh
        <3>7. /\ Ints(h, hits)
              /\ SumFunctionOnSet(h, hits) = SumFunctionOnSet(a, hits) + SumFunctionOnSet(b, hits)
                    + SumFunctionOnSet(c, hits) + SumFunctionOnSet(d, hits)
            BY <2>2, <3>2, <3>3, <3>4, <3>5, <3>6, SumOfFour
        <3> QED BY <3>2, <3>3, <3>4, <3>5, <3>7 DEF h
    <2>10. /\ SumFunctionOnSet(Price(Rates[m].write5m), hits) <= total["cost"]
           /\ total["cost"] <= SumFunctionOnSet(Price(Rates[m].write1h), hits)
        <3> DEFINE low == Price(Rates[m].write5m)
        <3> DEFINE high == Price(Rates[m].write1h)
        <3> DEFINE cost == w("cost")
        <3>1. Ints(low, hits) /\ Ints(high, hits)
            BY <2>5, <2>9
        <3>2. Ints(cost, hits) /\ total["cost"] = SumFunctionOnSet(cost, hits)
            BY <2>3, <2>4
        <3>3. \A i \in hits : low[i] <= cost[i] /\ cost[i] <= high[i]
            BY <2>7
        <3> HIDE DEF low, high, cost
        <3>4. SumFunctionOnSet(low, hits) <= SumFunctionOnSet(cost, hits)
            BY <2>2, <3>1, <3>2, <3>3, SumAtMost
        <3>5. SumFunctionOnSet(cost, hits) <= SumFunctionOnSet(high, hits)
            BY <2>2, <3>1, <3>2, <3>3, SumAtMost
        <3> QED BY <3>2, <3>4, <3>5 DEF low, high
    <2> HIDE DEF fresh, Price
    <2> DEFINE others == Rates[m].input * fresh + Rates[m].cacheRead * total["cacheRead"]
                            + Rates[m].output * total["output"]
    <2>11. /\ others + Rates[m].write5m * total["cacheWrite"] <= total["cost"]
           /\ total["cost"] <= others + Rates[m].write1h * total["cacheWrite"]
        BY <2>5, <2>9, <2>10
    <2>12. /\ Parts(total)[1] = fresh /\ Parts(total)[2] = total["cacheRead"]
           /\ Parts(total)[3] = total["cacheWrite"] /\ Parts(total)[4] = total["output"]
        BY <2>1
    <2>13. \A a, b \in Nat : a * b = b * a /\ a * b \in Nat
        OBVIOUS
    <2>14. /\ total["cacheRead"] \in Nat /\ total["cacheWrite"] \in Nat /\ total["output"] \in Nat
           /\ total["cost"] \in Nat
        BY <2>1, <2>3
    <2>15. /\ others = Parts(total)[1] * Rates[m].input + Parts(total)[2] * Rates[m].cacheRead
                         + Parts(total)[4] * Rates[m].output
           /\ Rates[m].write5m * total["cacheWrite"] = Parts(total)[3] * Rates[m].write5m
           /\ Rates[m].write1h * total["cacheWrite"] = Parts(total)[3] * Rates[m].write1h
        BY <2>1, <2>5, <2>12, <2>13, <2>14
    <2> HIDE DEF others
    <2>16. /\ others \in Nat /\ Rates[m].write5m * total["cacheWrite"] \in Nat
           /\ Rates[m].write1h * total["cacheWrite"] \in Nat
        <3>1. /\ Rates[m].input * fresh \in Nat /\ Rates[m].cacheRead * total["cacheRead"] \in Nat
              /\ Rates[m].output * total["output"] \in Nat
            BY <2>1, <2>5, <2>13, <2>14
        <3>2. others \in Nat
            BY <3>1 DEF others
        <3> QED BY <2>5, <2>13, <2>14, <3>2
    <2> QED BY <2>11, <2>14, <2>15, <2>16 DEF total, row
<1> QED BY <1>1, StatsInvHolds, PTL

-----------------------------------------------------------------------------
(* dedupeClaude: the keys.                                                 *)

\* A snapshot of any size.
Candidate == [message : Messages \cup {None}, request : Requests \cup {None}, tokens : Nat]

\* A part of a set of one element, if there is something in it, is the set.
LEMMA SingleIs ==
    ASSUME NEW S, NEW T, IsFiniteSet(S), Cardinality(S) = 1, T \subseteq S, T # {}
    PROVE  T = S /\ Cardinality(T) = 1 /\ \A x, y \in S : x = y
<1>1. PICK x \in T : TRUE
    OBVIOUS
<1>2. Cardinality(S \ {x}) = 0 /\ IsFiniteSet(S \ {x})
    BY <1>1, SizeOf
<1>3. S \ {x} = {}
    BY <1>2, SizeOf
<1> QED BY <1>1, <1>3

\* What a list of candidates is made of.
LEMMA RangeIs ==
    ASSUME NEW cs \in Seq(Candidate)
    PROVE  /\ Len(cs) \in Nat /\ DOMAIN cs = 1..Len(cs) /\ IsFiniteSet(DOMAIN cs)
           /\ Range(cs) \subseteq Candidate /\ IsFiniteSet(Range(cs))
           /\ \A i \in DOMAIN cs : cs[i] \in Range(cs)
           /\ \A c \in Range(cs) : \E i \in DOMAIN cs : c = cs[i]
<1>1. Len(cs) \in Nat /\ DOMAIN cs = 1..Len(cs)
    OBVIOUS
<1>2. IsFiniteSet(DOMAIN cs)
    BY <1>1, FS_Interval
<1>3. Range(cs) = {cs[i] : i \in DOMAIN cs}
    BY DEF Range
<1>4. IsFiniteSet(Range(cs))
    BY <1>2, <1>3, Renamed
<1> QED BY <1>1, <1>2, <1>3, <1>4

\* The requests a message was sent with.
LEMMA RequestsAre ==
    ASSUME NEW cs \in Seq(Candidate), NEW m
    PROVE  /\ IsFiniteSet(RequestsOf(cs, m))
           /\ \A r : r \in RequestsOf(cs, m) <=>
                        \E c \in Range(cs) : c.message = m /\ c.request = r /\ r # None
<1> DEFINE D == {d \in Range(cs) : d.message = m /\ d.request # None}
<1>1. IsFiniteSet(D)
    BY RangeIs, FS_Subset
<1> DEFINE h == [c \in D |-> c.request]
<1>2. RequestsOf(cs, m) = {h[c] : c \in D}
    BY DEF RequestsOf
<1> HIDE DEF h
<1>3. IsFiniteSet({h[c] : c \in D})
    BY <1>1, Renamed
<1>4. \A r : r \in RequestsOf(cs, m) <=>
                        \E c \in Range(cs) : c.message = m /\ c.request = r /\ r # None
    BY DEF RequestsOf
<1> QED BY <1>2, <1>3, <1>4

\* The pass's keys tell exactly which snapshots are of one response.
LEMMA KeysTell ==
    ASSUME NEW cs \in Seq(Candidate), NEW c \in Range(cs), NEW d \in Range(cs)
    PROVE  SameResponse(cs, c, d) <=> Key(cs, c) = Key(cs, d) /\ Key(cs, c) # NoKey
<1> DEFINE only(m) == Cardinality(RequestsOf(cs, m)) = 1
<1> DEFINE it(m) == CHOOSE r \in RequestsOf(cs, m) : TRUE
<1>1. ASSUME NEW m, only(m) PROVE it(m) \in RequestsOf(cs, m) /\ \A r \in RequestsOf(cs, m) : r = it(m)
    <2>1. RequestsOf(cs, m) # {} /\ IsFiniteSet(RequestsOf(cs, m))
        BY <1>1, RequestsAre, SizeOf
    <2>2. it(m) \in RequestsOf(cs, m)
        BY <2>1
    <2>3. RequestsOf(cs, m) \subseteq RequestsOf(cs, m)
        OBVIOUS
    <2> QED BY <1>1, <2>1, <2>2, <2>3, SingleIs
<1>2. ASSUME NEW x \in Range(cs)
      PROVE  /\ Adopted(cs, x) = IF x.message # None /\ x.request = None /\ only(x.message)
                                 THEN it(x.message) ELSE x.request
             /\ x.request # None => x.request \in RequestsOf(cs, x.message)
             /\ Key(cs, x) = IF x.message # None THEN <<x.message, Adopted(cs, x)>>
                             ELSE <<None, x.request>>
    BY RequestsAre DEF Adopted, Key
<1>3. \A m : only(m) => it(m) # None
    BY <1>1, RequestsAre
<1> HIDE DEF only, it
<1>4. SameResponse(cs, c, d) <=>
         /\ c.message = d.message
         /\ c.message # None \/ c.request # None
         /\ \/ c.request = d.request
            \/ c.message # None /\ (c.request = None \/ d.request = None) /\ only(c.message)
    BY DEF SameResponse, only
<1>5. CASE c.message = None
    <2>1. Key(cs, c) = <<None, c.request>>
        BY <1>2, <1>5
    <2>2. CASE d.message = None
        <3>1. Key(cs, d) = <<None, d.request>>
            BY <1>2, <2>2
        <3>2. Key(cs, c) = Key(cs, d) <=> c.request = d.request
            BY <2>1, <3>1, Tuples
        <3>3. Key(cs, c) # NoKey <=> c.request # None
            BY <2>1, Tuples DEF NoKey
        <3> QED BY <1>4, <1>5, <2>2, <3>2, <3>3
    <2>3. CASE d.message # None
        <3>1. Key(cs, d) = <<d.message, Adopted(cs, d)>>
            BY <1>2, <2>3
        <3>2. Key(cs, c) # Key(cs, d)
            BY <2>1, <2>3, <3>1, Tuples
        <3> QED BY <1>4, <1>5, <2>3, <3>2
    <2> QED BY <2>2, <2>3
<1>6. CASE c.message # None
    <2>1. Key(cs, c) = <<c.message, Adopted(cs, c)>>
        BY <1>2, <1>6
    <2>2. Key(cs, c) # NoKey
        BY <1>6, <2>1, Tuples DEF NoKey
    <2>3. CASE d.message # c.message
        <3>1. Key(cs, c) # Key(cs, d)
            BY <1>2, <1>6, <2>1, <2>3, Tuples
        <3> QED BY <1>4, <2>3, <3>1
    <2>4. CASE d.message = c.message
        <3> DEFINE m == c.message
        <3>1. Key(cs, d) = <<m, Adopted(cs, d)>>
            BY <1>2, <1>6, <2>4
        <3>2. Key(cs, c) = Key(cs, d) <=> Adopted(cs, c) = Adopted(cs, d)
            BY <2>1, <3>1, Tuples
        <3>3. /\ Adopted(cs, c) = IF c.request = None /\ only(m) THEN it(m) ELSE c.request
              /\ Adopted(cs, d) = IF d.request = None /\ only(m) THEN it(m) ELSE d.request
              /\ c.request # None /\ only(m) => c.request = it(m)
              /\ d.request # None /\ only(m) => d.request = it(m)
            BY <1>1, <1>2, <1>6, <2>4
        <3>4. SameResponse(cs, c, d) <=>
                 c.request = d.request \/ ((c.request = None \/ d.request = None) /\ only(m))
            BY <1>4, <1>6, <2>4
        <3>5. CASE only(m)
            BY <2>2, <3>2, <3>3, <3>4, <3>5
        <3>6. CASE ~only(m)
            BY <2>2, <3>2, <3>3, <3>4, <3>6
        <3> QED BY <3>5, <3>6
    <2> QED BY <2>3, <2>4
<1> QED BY <1>5, <1>6

-----------------------------------------------------------------------------
(* The pass.                                                               *)

\* The result and the map after each candidate.
IsDone(cs, N, done) ==
    done = [n \in 0..N |-> IF n = 0 THEN [result |-> <<>>, indexes |-> <<>>]
                           ELSE Merge(cs, done[n - 1], cs[n])]

\* There are such.
LEMMA DoneExists ==
    ASSUME NEW cs, NEW N \in Nat
    PROVE  \E done : IsDone(cs, N, done)
<1> DEFINE P == {n \in Nat : \E done : IsDone(cs, n, done)}
<1> DEFINE none == [result |-> <<>>, indexes |-> <<>>]
<1>1. 0 \in P
    <2> DEFINE g == [i \in 0..0 |-> none]
    <2>1. IsDone(cs, 0, g)
        BY DEF IsDone
    <2> QED BY <2>1
<1>2. ASSUME NEW n \in Nat, n \in P PROVE n + 1 \in P
    <2>1. PICK g : IsDone(cs, n, g)
        BY <1>2
    <2> DEFINE h == [i \in 0..(n + 1) |-> IF i = n + 1 THEN Merge(cs, g[n], cs[n + 1]) ELSE g[i]]
    <2>2. \A i \in 0..n : i \in 0..(n + 1) /\ h[i] = g[i]
        OBVIOUS
    <2>3. h[n + 1] = Merge(cs, g[n], cs[n + 1])
        OBVIOUS
    <2>4. h = [i \in 0..(n + 1) |-> h[i]]
        OBVIOUS
    <2> HIDE DEF h
    <2>5. ASSUME NEW i \in 0..(n + 1)
          PROVE  h[i] = IF i = 0 THEN none ELSE Merge(cs, h[i - 1], cs[i])
        <3>1. CASE i = n + 1
            <4>1. n \in 0..n /\ i - 1 = n /\ i # 0
                BY <3>1
            <4> QED BY <2>2, <2>3, <3>1, <4>1
        <3>2. CASE i # n + 1
            <4>1. i \in 0..n /\ (i # 0 => i - 1 \in 0..n)
                BY <3>2
            <4>2. g[i] = IF i = 0 THEN none ELSE Merge(cs, g[i - 1], cs[i])
                BY <2>1, <4>1 DEF IsDone
            <4> QED BY <2>2, <4>1, <4>2
        <3> QED BY <3>1, <3>2
    <2>6. IsDone(cs, n + 1, h)
        BY <2>4, <2>5 DEF IsDone
    <2> QED BY <2>6
<1> HIDE DEF P
<1> QED BY <1>1, <1>2, Steps DEF P

\* The pass, turn by turn.
LEMMA DedupeIs ==
    ASSUME NEW cs, Len(cs) \in Nat
    PROVE  \E done : IsDone(cs, Len(cs), done) /\ dedupeClaude(cs) = done[Len(cs)].result
<1> DEFINE done == CHOOSE g : IsDone(cs, Len(cs), g)
<1>1. IsDone(cs, Len(cs), done)
    BY DoneExists
<1>2. dedupeClaude(cs) = done[Len(cs)].result
    BY Zenon DEF dedupeClaude, IsDone
<1> QED BY <1>1, <1>2

\* The snapshots i and j are counted together.
Same(cs, i, j) == i = j \/ SameResponse(cs, cs[i], cs[j])

\* at tells where in the result the first n snapshots are counted.
Placed(cs, n, result, at) ==
    /\ result \in Seq(Nat)
    /\ at \in [1..n -> 1..Len(result)]
    /\ \A i, j \in 1..n : at[i] = at[j] <=> Same(cs, i, j)
    /\ \A i \in 1..n : cs[i].tokens <= result[at[i]]
    /\ \A q \in 1..Len(result) : \E i \in 1..n : at[i] = q /\ cs[i].tokens = result[q]

\* The map tells for each key where its snapshots are counted.
Indexed(cs, n, indexes, at) ==
    /\ \A i \in 1..n : Key(cs, cs[i]) # NoKey =>
            Key(cs, cs[i]) \in DOMAIN indexes /\ indexes[Key(cs, cs[i])] = at[i]
    /\ \A k \in DOMAIN indexes : \E i \in 1..n : Key(cs, cs[i]) = k /\ k # NoKey

\* They are when they have the same key.
LEMMA SameIs ==
    ASSUME NEW cs \in Seq(Candidate), NEW i \in DOMAIN cs, NEW j \in DOMAIN cs
    PROVE  Same(cs, i, j) <=> i = j \/ (Key(cs, cs[i]) = Key(cs, cs[j]) /\ Key(cs, cs[i]) # NoKey)
<1>1. cs[i] \in Range(cs) /\ cs[j] \in Range(cs)
    BY RangeIs
<1> QED BY <1>1, KeysTell DEF Same

\* The next candidate, and those before.
LEMMA PrefixIs ==
    ASSUME NEW cs \in Seq(Candidate), NEW n \in Nat, n + 1 <= Len(cs)
    PROVE  /\ n + 1 \in DOMAIN cs /\ cs[n + 1] \in Candidate /\ cs[n + 1].tokens \in Nat
           /\ \A i \in 1..n : i \in DOMAIN cs /\ i # n + 1 /\ cs[i].tokens \in Nat
<1>1. Len(cs) \in Nat /\ DOMAIN cs = 1..Len(cs)
    BY RangeIs
<1>2. n + 1 \in 1..Len(cs) /\ \A i \in 1..n : i \in 1..Len(cs) /\ i # n + 1
    BY <1>1
<1>3. \A i \in DOMAIN cs : cs[i] \in Candidate /\ cs[i].tokens \in Nat
    <2>1. ASSUME NEW c \in Candidate PROVE c.tokens \in Nat
        BY DEF Candidate
    <2> QED BY <2>1
<1> QED BY <1>1, <1>2, <1>3

\* A snapshot that is the first of its response.
LEMMA PlaceFirst ==
    ASSUME NEW cs \in Seq(Candidate), NEW n \in Nat, n + 1 <= Len(cs), NEW result, NEW at,
           Placed(cs, n, result, at),
           \A i \in 1..n : ~Same(cs, i, n + 1)
    PROVE  Placed(cs, n + 1, Append(result, cs[n + 1].tokens),
                  [i \in 1..(n + 1) |-> IF i = n + 1 THEN Len(result) + 1 ELSE at[i]])
<1> DEFINE c == cs[n + 1]
<1> DEFINE res == Append(result, c.tokens)
<1> DEFINE to == [i \in 1..(n + 1) |-> IF i = n + 1 THEN Len(result) + 1 ELSE at[i]]
<1>1. /\ n + 1 \in DOMAIN cs /\ c \in Candidate /\ c.tokens \in Nat
      /\ \A i \in 1..n : i \in DOMAIN cs
    BY PrefixIs
<1>2. result \in Seq(Nat) /\ Len(result) \in Nat
    BY DEF Placed
<1>3. /\ res \in Seq(Nat) /\ Len(res) = Len(result) + 1
      /\ \A q \in 1..Len(result) : res[q] = result[q]
      /\ res[Len(result) + 1] = c.tokens
    BY <1>1, <1>2
<1>4. \A i \in 1..n : i \in 1..(n + 1) /\ i # n + 1 /\ to[i] = at[i] /\ at[i] \in 1..Len(result)
                      /\ at[i] # Len(result) + 1
    BY <1>2 DEF Placed
<1>5. to[n + 1] = Len(result) + 1 /\ n + 1 \in 1..(n + 1)
    OBVIOUS
<1> HIDE DEF res, c
<1>6. to \in [1..(n + 1) -> 1..Len(res)]
    <2>1. \A i \in 1..(n + 1) : i # n + 1 => i \in 1..n
        OBVIOUS
    <2>2. \A q \in 1..Len(result) : q \in 1..Len(res)
        BY <1>2, <1>3
    <2>3. Len(result) + 1 \in 1..Len(res)
        BY <1>2, <1>3
    <2>4. \A i \in 1..(n + 1) : to[i] \in 1..Len(res)
        BY <1>4, <1>5, <2>1, <2>2, <2>3
    <2> QED BY <2>4
<1> HIDE DEF to
<1>7. \A i, j \in 1..(n + 1) : to[i] = to[j] <=> Same(cs, i, j)
    <2> SUFFICES ASSUME NEW i \in 1..(n + 1), NEW j \in 1..(n + 1) PROVE to[i] = to[j] <=> Same(cs, i, j)
        OBVIOUS
    <2>1. i = n + 1 \/ i \in 1..n
        OBVIOUS
    <2>2. j = n + 1 \/ j \in 1..n
        OBVIOUS
    <2>3. i \in DOMAIN cs /\ j \in DOMAIN cs /\ n + 1 \in DOMAIN cs
        BY <1>1
    <2>4. CASE i = n + 1 /\ j = n + 1
        BY <2>4 DEF Same
    <2>5. CASE i \in 1..n /\ j \in 1..n
        BY <1>4, <2>5 DEF Placed
    <2>6. CASE i \in 1..n /\ j = n + 1
        BY <1>4, <1>5, <2>6
    <2>7. CASE i = n + 1 /\ j \in 1..n
        <3>1. ~Same(cs, j, i)
            BY <2>7
        <3>2. ~Same(cs, i, j)
            BY <2>3, <3>1, SameIs
        <3> QED BY <1>4, <1>5, <2>7, <3>2
    <2> QED BY <2>1, <2>2, <2>4, <2>5, <2>6, <2>7
<1>8. \A i \in 1..(n + 1) : cs[i].tokens <= res[to[i]]
    <2> SUFFICES ASSUME NEW i \in 1..(n + 1) PROVE cs[i].tokens <= res[to[i]]
        OBVIOUS
    <2>1. CASE i = n + 1
        BY <1>1, <1>3, <1>5, <2>1 DEF c
    <2>2. CASE i \in 1..n
        <3>1. cs[i].tokens <= result[at[i]]
            BY <2>2 DEF Placed
        <3>2. to[i] = at[i] /\ res[at[i]] = result[at[i]]
            BY <1>3, <1>4, <2>2
        <3> QED BY <3>1, <3>2
    <2>3. i = n + 1 \/ i \in 1..n
        OBVIOUS
    <2> QED BY <2>1, <2>2, <2>3
<1>9. \A q \in 1..Len(res) : \E i \in 1..(n + 1) : to[i] = q /\ cs[i].tokens = res[q]
    <2> SUFFICES ASSUME NEW q \in 1..Len(res) PROVE \E i \in 1..(n + 1) : to[i] = q /\ cs[i].tokens = res[q]
        OBVIOUS
    <2>1. CASE q = Len(result) + 1
        BY <1>3, <1>5, <2>1 DEF c
    <2>2. CASE q \in 1..Len(result)
        <3>1. PICK i \in 1..n : at[i] = q /\ cs[i].tokens = result[q]
            BY <2>2 DEF Placed
        <3> QED BY <1>3, <1>4, <2>2, <3>1
    <2> QED BY <1>2, <1>3, <2>1, <2>2
<1>10. Placed(cs, n + 1, res, to)
    BY <1>3, <1>6, <1>7, <1>8, <1>9 DEF Placed
<1> QED BY <1>10 DEF res, to, c

\* Another snapshot of a response.
LEMMA PlaceAgain ==
    ASSUME NEW cs \in Seq(Candidate), NEW n \in Nat, n + 1 <= Len(cs), NEW result, NEW at,
           Placed(cs, n, result, at),
           NEW i0 \in 1..n, Same(cs, i0, n + 1)
    PROVE  Placed(cs, n + 1, [result EXCEPT ![at[i0]] = MoreTokens(@, cs[n + 1].tokens)],
                  [i \in 1..(n + 1) |-> IF i = n + 1 THEN at[i0] ELSE at[i]])
<1> DEFINE c == cs[n + 1]
<1> DEFINE p == at[i0]
<1> DEFINE res == [result EXCEPT ![p] = MoreTokens(@, c.tokens)]
<1> DEFINE to == [i \in 1..(n + 1) |-> IF i = n + 1 THEN p ELSE at[i]]
<1>1. /\ n + 1 \in DOMAIN cs /\ c \in Candidate /\ c.tokens \in Nat
      /\ \A i \in 1..n : i \in DOMAIN cs /\ i # n + 1 /\ cs[i].tokens \in Nat
    BY PrefixIs
<1>2. result \in Seq(Nat) /\ Len(result) \in Nat /\ p \in 1..Len(result)
    BY DEF Placed
<1>3. /\ res \in Seq(Nat) /\ Len(res) = Len(result)
      /\ \A q \in 1..Len(result) : res[q] = IF q = p THEN MoreTokens(result[p], c.tokens) ELSE result[q]
      /\ \A q \in 1..Len(result) : result[q] \in Nat /\ res[q] \in Nat
    BY <1>1, <1>2 DEF MoreTokens
<1>4. \A i \in 1..n : i \in 1..(n + 1) /\ i # n + 1 /\ to[i] = at[i] /\ at[i] \in 1..Len(result)
    BY <1>2 DEF Placed
<1>5. to[n + 1] = p /\ n + 1 \in 1..(n + 1)
    OBVIOUS
<1> HIDE DEF res, c
<1>6. to \in [1..(n + 1) -> 1..Len(res)]
    <2>1. \A i \in 1..(n + 1) : i # n + 1 => i \in 1..n
        OBVIOUS
    <2>2. \A i \in 1..(n + 1) : to[i] \in 1..Len(res)
        BY <1>2, <1>3, <1>4, <1>5, <2>1
    <2> QED BY <2>2
<1> HIDE DEF to
<1>7. ASSUME NEW i \in 1..n PROVE (at[i] = p <=> Same(cs, i, n + 1)) /\ (at[i] = p <=> Same(cs, n + 1, i))
    <2>1. at[i] = p <=> Same(cs, i, i0)
        BY DEF Placed
    <2>2. i \in DOMAIN cs /\ i0 \in DOMAIN cs /\ n + 1 \in DOMAIN cs /\ i # n + 1 /\ i0 # n + 1
        BY <1>1
    <2>3. Key(cs, cs[i0]) = Key(cs, cs[n + 1]) /\ Key(cs, cs[i0]) # NoKey
        BY <2>2, SameIs
    <2>4. Same(cs, i, i0) <=> i = i0 \/ (Key(cs, cs[i]) = Key(cs, cs[i0]) /\ Key(cs, cs[i]) # NoKey)
        BY <2>2, SameIs
    <2>5. Same(cs, i, n + 1) <=> Key(cs, cs[i]) = Key(cs, cs[n + 1]) /\ Key(cs, cs[i]) # NoKey
        BY <2>2, SameIs
    <2>6. Same(cs, n + 1, i) <=> Key(cs, cs[i]) = Key(cs, cs[n + 1]) /\ Key(cs, cs[i]) # NoKey
        BY <2>2, SameIs
    <2> QED BY <2>1, <2>3, <2>4, <2>5, <2>6
<1>8. \A i, j \in 1..(n + 1) : to[i] = to[j] <=> Same(cs, i, j)
    <2> SUFFICES ASSUME NEW i \in 1..(n + 1), NEW j \in 1..(n + 1) PROVE to[i] = to[j] <=> Same(cs, i, j)
        OBVIOUS
    <2>1. (i = n + 1 \/ i \in 1..n) /\ (j = n + 1 \/ j \in 1..n)
        OBVIOUS
    <2>2. CASE i = n + 1 /\ j = n + 1
        BY <2>2 DEF Same
    <2>3. CASE i \in 1..n /\ j \in 1..n
        BY <1>4, <2>3 DEF Placed
    <2>4. CASE i \in 1..n /\ j = n + 1
        BY <1>4, <1>5, <1>7, <2>4
    <2>5. CASE i = n + 1 /\ j \in 1..n
        BY <1>4, <1>5, <1>7, <2>5
    <2> QED BY <2>1, <2>2, <2>3, <2>4, <2>5
<1>9. \A i \in 1..(n + 1) : cs[i].tokens <= res[to[i]]
    <2> SUFFICES ASSUME NEW i \in 1..(n + 1) PROVE cs[i].tokens <= res[to[i]]
        OBVIOUS
    <2>1. result[p] <= res[p] /\ c.tokens <= res[p]
        BY <1>1, <1>2, <1>3 DEF MoreTokens
    <2>2. CASE i = n + 1
        BY <1>5, <2>1, <2>2 DEF c
    <2>3. CASE i \in 1..n
        <3>1. cs[i].tokens <= result[at[i]] /\ cs[i].tokens \in Nat /\ at[i] \in 1..Len(result) /\ to[i] = at[i]
            BY <1>1, <1>4, <2>3 DEF Placed
        <3>2. result[at[i]] <= res[at[i]] /\ result[at[i]] \in Nat /\ res[at[i]] \in Nat
            <4>1. result[at[i]] \in Nat /\ res[at[i]] \in Nat
                BY <1>3, <3>1
            <4>2. CASE at[i] = p
                <5>1. result[at[i]] = result[p] /\ res[at[i]] = res[p]
                    BY <4>2, Zenon
                <5> QED BY <2>1, <4>1, <5>1
            <4>3. CASE at[i] # p
                <5>1. res[at[i]] = result[at[i]]
                    BY <1>3, <3>1, <4>3
                <5> QED BY <4>1, <5>1
            <4> QED BY <4>2, <4>3
        <3> QED BY <3>1, <3>2
    <2> QED BY <2>2, <2>3
<1>10. \A q \in 1..Len(res) : \E i \in 1..(n + 1) : to[i] = q /\ cs[i].tokens = res[q]
    <2> SUFFICES ASSUME NEW q \in 1..Len(res) PROVE \E i \in 1..(n + 1) : to[i] = q /\ cs[i].tokens = res[q]
        OBVIOUS
    <2>1. PICK i \in 1..n : at[i] = q /\ cs[i].tokens = result[q]
        BY <1>3 DEF Placed
    <2>2. CASE q # p \/ ~(c.tokens > result[p])
        BY <1>3, <1>4, <2>1, <2>2 DEF MoreTokens
    <2>3. CASE q = p /\ c.tokens > result[p]
        BY <1>2, <1>3, <1>5, <2>3 DEF MoreTokens, c
    <2> QED BY <2>2, <2>3
<1>11. Placed(cs, n + 1, res, to)
    BY <1>3, <1>6, <1>8, <1>9, <1>10 DEF Placed
<1> QED BY <1>11 DEF res, to, c

\* Either way each snapshot is counted with those of its response.
LEMMA MergeKeepsPlaces ==
    ASSUME NEW cs \in Seq(Candidate), NEW n \in Nat, n + 1 <= Len(cs), NEW done, NEW at,
           done = [result |-> done.result, indexes |-> done.indexes],
           Placed(cs, n, done.result, at), Indexed(cs, n, done.indexes, at)
    PROVE  LET next == Merge(cs, done, cs[n + 1])
           IN  /\ next = [result |-> next.result, indexes |-> next.indexes]
               /\ \E to : Placed(cs, n + 1, next.result, to) /\ Indexed(cs, n + 1, next.indexes, to)
<1> DEFINE c == cs[n + 1]
<1> DEFINE k == Key(cs, c)
<1> DEFINE next == Merge(cs, done, c)
<1>1. /\ n + 1 \in DOMAIN cs /\ \A i \in 1..n : i \in DOMAIN cs /\ i # n + 1
    BY RangeIs
<1>2. \A i \in 1..n : Same(cs, i, n + 1) <=> Key(cs, cs[i]) = k /\ k # NoKey
    BY <1>1, SameIs
<1>3. \A i \in 1..(n + 1) : i = n + 1 \/ i \in 1..n
    OBVIOUS
<1>4. ASSUME \A i \in 1..n : ~Same(cs, i, n + 1),
             next.result = Append(done.result, c.tokens),
             next = [result |-> next.result, indexes |-> next.indexes],
             k = NoKey => next.indexes = done.indexes,
             k # NoKey => /\ k \notin DOMAIN done.indexes
                          /\ next.indexes = [j \in DOMAIN done.indexes \cup {k} |->
                               IF j = k THEN Len(done.result) + 1 ELSE done.indexes[j]]
      PROVE  \E to : Placed(cs, n + 1, next.result, to) /\ Indexed(cs, n + 1, next.indexes, to)
    <2> DEFINE to == [i \in 1..(n + 1) |-> IF i = n + 1 THEN Len(done.result) + 1 ELSE at[i]]
    <2>1. Placed(cs, n + 1, next.result, to)
        BY <1>4, PlaceFirst
    <2>2. \A i \in 1..n : to[i] = at[i] /\ i \in 1..(n + 1)
        BY <1>1
    <2>3. to[n + 1] = Len(done.result) + 1 /\ n + 1 \in 1..(n + 1)
        OBVIOUS
    <2> HIDE DEF to, next
    <2>4. CASE k = NoKey
        <3>1. next.indexes = done.indexes
            BY <1>4, <2>4
        <3>2. Indexed(cs, n + 1, next.indexes, to)
            BY <1>3, <2>2, <2>4, <3>1 DEF Indexed
        <3> QED BY <2>1, <3>2
    <2>5. CASE k # NoKey
        <3> DEFINE D == DOMAIN done.indexes
        <3> DEFINE ix == next.indexes
        <3>1. /\ DOMAIN ix = D \cup {k} /\ k \notin D /\ ix[k] = Len(done.result) + 1
              /\ \A j \in D : ix[j] = done.indexes[j]
            BY <1>4, <2>5
        <3> HIDE DEF ix
        <3>2. ASSUME NEW i \in 1..(n + 1), Key(cs, cs[i]) # NoKey
              PROVE  Key(cs, cs[i]) \in DOMAIN ix /\ ix[Key(cs, cs[i])] = to[i]
            <4>1. CASE i = n + 1
                BY <2>3, <3>1, <4>1
            <4>2. CASE i \in 1..n
                BY <2>2, <3>1, <3>2, <4>2 DEF Indexed
            <4> QED BY <1>3, <4>1, <4>2
        <3>3. ASSUME NEW j \in DOMAIN ix PROVE \E i \in 1..(n + 1) : Key(cs, cs[i]) = j /\ j # NoKey
            <4>1. CASE j = k
                BY <2>3, <2>5, <4>1
            <4>2. CASE j \in D
                BY <2>2, <4>2 DEF Indexed
            <4> QED BY <3>1, <4>1, <4>2
        <3>4. Indexed(cs, n + 1, ix, to)
            BY <3>2, <3>3 DEF Indexed
        <3> QED BY <2>1, <3>4 DEF ix
    <2> QED BY <2>4, <2>5
<1>5. CASE k = NoKey
    <2>1. next = [done EXCEPT !.result = Append(@, c.tokens)]
        BY <1>5 DEF Merge
    <2>2. next = [result |-> Append(done.result, c.tokens), indexes |-> done.indexes]
        BY <2>1
    <2>3. \A i \in 1..n : ~Same(cs, i, n + 1)
        BY <1>2, <1>5
    <2> HIDE DEF next
    <2>4. /\ next.result = Append(done.result, c.tokens) /\ next.indexes = done.indexes
          /\ next = [result |-> next.result, indexes |-> next.indexes]
        BY <2>2
    <2> QED BY <1>4, <1>5, <2>3, <2>4 DEF next
<1>6. CASE k # NoKey /\ k \notin DOMAIN done.indexes
    <2>1. next = [result |-> Append(done.result, c.tokens),
                  indexes |-> [j \in DOMAIN done.indexes \cup {k} |->
                               IF j = k THEN Len(done.result) + 1 ELSE done.indexes[j]]]
        BY <1>6 DEF Merge
    <2>2. \A i \in 1..n : ~Same(cs, i, n + 1)
        BY <1>2, <1>6 DEF Indexed
    <2> HIDE DEF next
    <2>3. /\ next.result = Append(done.result, c.tokens)
          /\ next.indexes = [j \in DOMAIN done.indexes \cup {k} |->
                               IF j = k THEN Len(done.result) + 1 ELSE done.indexes[j]]
          /\ next = [result |-> next.result, indexes |-> next.indexes]
        BY <2>1
    <2> QED BY <1>4, <1>6, <2>2, <2>3 DEF next
<1>7. CASE k # NoKey /\ k \in DOMAIN done.indexes
    <2>1. PICK i0 \in 1..n : Key(cs, cs[i0]) = k
        BY <1>7 DEF Indexed
    <2>2. done.indexes[k] = at[i0] /\ Same(cs, i0, n + 1)
        BY <1>2, <1>7, <2>1 DEF Indexed
    <2>3. next = [done EXCEPT !.result[done.indexes[k]] = MoreTokens(@, c.tokens)]
        BY <1>7 DEF Merge
    <2>4. next = [result |-> [done.result EXCEPT ![at[i0]] = MoreTokens(@, c.tokens)],
                  indexes |-> done.indexes]
        BY <2>2, <2>3
    <2> HIDE DEF next
    <2>5. /\ next.result = [done.result EXCEPT ![at[i0]] = MoreTokens(@, c.tokens)]
          /\ next.indexes = done.indexes
          /\ next = [result |-> next.result, indexes |-> next.indexes]
        BY <2>4
    <2> DEFINE to == [i \in 1..(n + 1) |-> IF i = n + 1 THEN at[i0] ELSE at[i]]
    <2>6. Placed(cs, n + 1, next.result, to)
        <3>1. Same(cs, i0, n + 1)
            BY <2>2
        <3>2. Placed(cs, n + 1, [done.result EXCEPT ![at[i0]] = MoreTokens(@, cs[n + 1].tokens)], to)
            BY <3>1, PlaceAgain
        <3> QED BY <2>5, <3>2
    <2>7. (\A i \in 1..n : to[i] = at[i] /\ i \in 1..(n + 1)) /\ to[n + 1] = at[i0]
        BY <1>1
    <2> HIDE DEF to
    <2>8. Indexed(cs, n + 1, next.indexes, to)
        <3>1. ASSUME NEW i \in 1..(n + 1), Key(cs, cs[i]) # NoKey
              PROVE  Key(cs, cs[i]) \in DOMAIN done.indexes /\ done.indexes[Key(cs, cs[i])] = to[i]
            <4>1. CASE i = n + 1
                BY <1>7, <2>2, <2>7, <4>1
            <4>2. CASE i \in 1..n
                BY <2>7, <3>1, <4>2 DEF Indexed
            <4> QED BY <1>3, <4>1, <4>2
        <3>2. \A j \in DOMAIN done.indexes : \E i \in 1..(n + 1) : Key(cs, cs[i]) = j /\ j # NoKey
            BY <2>7 DEF Indexed
        <3> QED BY <2>5, <3>1, <3>2 DEF Indexed
    <2> QED BY <2>5, <2>6, <2>8 DEF next
<1> QED BY <1>5, <1>6, <1>7

\* After the pass every response has its place in the result.
LEMMA PassPlaces ==
    ASSUME NEW cs \in Seq(Candidate)
    PROVE  \E at : Placed(cs, Len(cs), dedupeClaude(cs), at)
<1>1. Len(cs) \in Nat
    BY RangeIs
<1>2. PICK done : IsDone(cs, Len(cs), done) /\ dedupeClaude(cs) = done[Len(cs)].result
    BY <1>1, DedupeIs
<1> DEFINE Good(n) ==
        /\ done[n] = [result |-> done[n].result, indexes |-> done[n].indexes]
        /\ \E at : Placed(cs, n, done[n].result, at) /\ Indexed(cs, n, done[n].indexes, at)
<1> DEFINE P == {n \in Nat : n <= Len(cs) => Good(n)}
<1>3. 0 \in P
    <2>1. done[0] = [result |-> <<>>, indexes |-> <<>>]
        <3>1. 0 \in 0..Len(cs)
            BY <1>1
        <3> QED BY <1>2, <3>1 DEF IsDone
    <2> DEFINE at == [i \in 1..0 |-> 0]
    <2>2. /\ <<>> \in Seq(Nat) /\ Len(<<>>) = 0 /\ DOMAIN <<>> = {}
          /\ \A i \in 1..0 : FALSE
          /\ at \in [1..0 -> 1..0]
        OBVIOUS
    <2>3. Placed(cs, 0, <<>>, at)
        BY <2>2 DEF Placed
    <2>4. Indexed(cs, 0, <<>>, at)
        BY <2>2 DEF Indexed
    <2>5. done[0].result = <<>> /\ done[0].indexes = <<>>
        BY <2>1
    <2>6. Good(0)
        BY <2>1, <2>3, <2>4, <2>5
    <2> QED BY <2>6
<1>4. ASSUME NEW n \in Nat, n \in P PROVE n + 1 \in P
    <2> SUFFICES ASSUME n + 1 <= Len(cs) PROVE Good(n + 1)
        OBVIOUS
    <2>1. Good(n)
        BY <1>1, <1>4
    <2>2. done[n + 1] = Merge(cs, done[n], cs[n + 1])
        <3>1. n + 1 \in 0..Len(cs) /\ n + 1 # 0 /\ (n + 1) - 1 = n
            BY <1>1
        <3> QED BY <1>2, <3>1 DEF IsDone
    <2>3. PICK at : Placed(cs, n, done[n].result, at) /\ Indexed(cs, n, done[n].indexes, at)
        BY <2>1
    <2> DEFINE d == done[n]
    <2>4. d = [result |-> d.result, indexes |-> d.indexes]
        BY <2>1
    <2>5. Placed(cs, n, d.result, at) /\ Indexed(cs, n, d.indexes, at)
        BY <2>3
    <2>6. done[n + 1] = Merge(cs, d, cs[n + 1])
        BY <2>2
    <2> HIDE DEF d
    <2>7. LET next == Merge(cs, d, cs[n + 1])
          IN  /\ next = [result |-> next.result, indexes |-> next.indexes]
              /\ \E to : Placed(cs, n + 1, next.result, to) /\ Indexed(cs, n + 1, next.indexes, to)
        BY <2>4, <2>5, MergeKeepsPlaces
    <2> QED BY <2>6, <2>7
<1> HIDE DEF P
<1>5. Len(cs) \in P
    BY <1>1, <1>3, <1>4, Steps
<1> QED BY <1>1, <1>2, <1>5 DEF P

\* What the snapshots of a response cost together.
Most(cs, response) == CHOOSE t \in {cs[i].tokens : i \in response} :
                          \A i \in response : cs[i].tokens <= t

\* The charge the responses should have.
Charge(cs) == SumFunction([response \in Responses(cs) |-> Most(cs, response)])

\* What costs most is the most.
LEMMA MostIs ==
    ASSUME NEW cs, NEW response, NEW i \in response, \A j \in response : cs[j].tokens \in Nat,
           \A j \in response : cs[j].tokens <= cs[i].tokens
    PROVE  Most(cs, response) = cs[i].tokens
<1> DEFINE S == {cs[j].tokens : j \in response}
<1>1. cs[i].tokens \in S /\ S \subseteq Nat
    OBVIOUS
<1>2. ASSUME NEW t \in S, \A j \in response : cs[j].tokens <= t PROVE t = cs[i].tokens
    <2>1. t \in Nat /\ cs[i].tokens \in Nat /\ cs[i].tokens <= t
        BY <1>1, <1>2
    <2>2. t <= cs[i].tokens
        OBVIOUS
    <2> QED BY <2>1, <2>2
<1> QED BY <1>1, <1>2 DEF Most

\* The pass charges that.
LEMMA ChargeIs ==
    ASSUME NEW cs \in Seq(Candidate)
    PROVE  SumFunction(dedupeClaude(cs)) = Charge(cs)
<1> DEFINE result == dedupeClaude(cs)
<1> DEFINE N == Len(cs)
<1> DEFINE M == Len(result)
<1>1. N \in Nat /\ DOMAIN cs = 1..N /\ \A i \in 1..N : cs[i].tokens \in Nat
    <2>1. \A c \in Candidate : c.tokens \in Nat
        BY DEF Candidate
    <2> QED BY <2>1, RangeIs
<1>2. PICK at : Placed(cs, N, result, at)
    BY PassPlaces
<1> HIDE DEF result
<1>3. result \in Seq(Nat) /\ M \in Nat /\ DOMAIN result = 1..M /\ \A q \in 1..M : result[q] \in Nat
    BY <1>2 DEF Placed
<1> HIDE DEF N, M
<1> DEFINE h == [q \in 1..M |-> {i \in 1..N : at[i] = q}]
<1> DEFINE g == [response \in Responses(cs) |-> Most(cs, response)]
<1>4. ASSUME NEW i \in 1..N
      PROVE  /\ at[i] \in 1..M
             /\ h[at[i]] = {j \in DOMAIN cs : i = j \/ SameResponse(cs, cs[i], cs[j])}
    <2>1. at[i] \in 1..M
        BY <1>2 DEF Placed, M, N
    <2>2. \A j \in 1..N : at[j] = at[i] <=> (i = j \/ SameResponse(cs, cs[i], cs[j]))
        BY <1>2 DEF Placed, N, Same
    <2>3. h[at[i]] = {j \in 1..N : at[j] = at[i]}
        BY <2>1
    <2> QED BY <1>1, <2>1, <2>2, <2>3
<1>5. ASSUME NEW q \in 1..M
      PROVE  \E i \in 1..N : at[i] = q /\ cs[i].tokens = result[q]
    BY <1>2 DEF Placed, M, N
<1>6. ASSUME NEW q \in 1..M, NEW i \in 1..N
      PROVE  i \in h[q] <=> at[i] = q
    OBVIOUS
<1>7. \A q \in 1..M : h[q] \subseteq 1..N
    OBVIOUS
<1>8. {h[q] : q \in 1..M} = Responses(cs)
    <2>1. ASSUME NEW q \in 1..M PROVE h[q] \in Responses(cs)
        <3>1. PICK i \in 1..N : at[i] = q
            BY <1>5
        <3>2. h[q] = {j \in DOMAIN cs : i = j \/ SameResponse(cs, cs[i], cs[j])}
            BY <1>4, <3>1
        <3> HIDE DEF h
        <3> QED BY <1>1, <3>2 DEF Responses
    <2>2. ASSUME NEW response \in Responses(cs) PROVE \E q \in 1..M : h[q] = response
        <3>1. PICK i \in 1..N : response = {j \in DOMAIN cs : i = j \/ SameResponse(cs, cs[i], cs[j])}
            BY <1>1 DEF Responses
        <3> QED BY <1>4, <3>1
    <2> HIDE DEF h
    <2> QED BY <2>1, <2>2
<1> HIDE DEF h
<1>9. ASSUME NEW q \in 1..M PROVE g[h[q]] = result[q]
    <2>1. PICK i \in 1..N : at[i] = q /\ cs[i].tokens = result[q]
        BY <1>5
    <2>2. i \in h[q] /\ h[q] \in Responses(cs)
        BY <1>6, <1>8, <2>1
    <2>3. \A j \in h[q] : cs[j].tokens \in Nat
        BY <1>1, <1>7
    <2>4. \A j \in h[q] : cs[j].tokens <= cs[i].tokens
        <3>1. \A j \in 1..N : cs[j].tokens <= result[at[j]]
            BY <1>2 DEF Placed, N
        <3>2. \A j \in h[q] : j \in 1..N /\ at[j] = q
            BY <1>6, <1>7
        <3> QED BY <2>1, <3>1, <3>2
    <2> HIDE DEF g
    <2>5. Most(cs, h[q]) = cs[i].tokens
        BY <2>2, <2>3, <2>4, MostIs
    <2> QED BY <2>1, <2>2, <2>5 DEF g
<1>10. ASSUME NEW q \in 1..M, NEW p \in 1..M, h[q] = h[p] PROVE q = p
    <2>1. PICK i \in 1..N : at[i] = q
        BY <1>5
    <2> QED BY <1>6, <1>10, <2>1
<1>11. IsFiniteSet(1..M) /\ Ints(result, 1..M)
    BY <1>3, FS_Interval DEF Ints
<1> HIDE DEF g
<1>12. SumFunctionOnSet(g, {h[q] : q \in 1..M}) = SumFunctionOnSet(result, 1..M)
    <2>1. \A q \in 1..M : g[h[q]] = result[q]
        BY <1>9
    <2>2. \A q, p \in 1..M : h[q] = h[p] => q = p
        BY <1>10
    <2> DEFINE Q == 1..M
    <2>3. /\ IsFiniteSet(Q) /\ Ints(result, Q)
          /\ \A q \in Q : g[h[q]] = result[q]
          /\ \A q, p \in Q : h[q] = h[p] => q = p
        BY <1>11, <2>1, <2>2
    <2> HIDE DEF Q
    <2>4. SumFunctionOnSet(g, {h[q] : q \in Q}) = SumFunctionOnSet(result, Q)
        BY <2>3, SumImage
    <2> QED BY <2>4 DEF Q
<1>13. SumFunctionOnSet(g, Responses(cs)) = SumFunctionOnSet(result, 1..M)
    BY <1>8, <1>12, Zenon
<1>14. SumFunction(result) = SumFunctionOnSet(result, 1..M)
    BY <1>3, Zenon DEF SumFunction
<1>15. Charge(cs) = SumFunctionOnSet(g, Responses(cs))
    BY Zenon DEF Charge, SumFunction, g
<1> QED BY <1>13, <1>14, <1>15 DEF result

-----------------------------------------------------------------------------
(* The pass over longer logs.                                              *)

\* Every snapshot of cs is one of ds.
Embeds(cs, ds, e) ==
    /\ e \in [1..Len(cs) -> 1..Len(ds)]
    /\ \A i \in 1..Len(cs) : ds[e[i]] = cs[i]
    /\ \A i, j \in 1..Len(cs) : e[i] = e[j] => i = j

\* Snapshots that are of one response still have always been.
LEMMA SameBefore ==
    ASSUME NEW cs \in Seq(Candidate), NEW ds \in Seq(Candidate), NEW e, Embeds(cs, ds, e),
           NEW i \in 1..Len(cs), NEW j \in 1..Len(cs), Same(ds, e[i], e[j])
    PROVE  Same(cs, i, j)
<1>1. CASE e[i] = e[j]
    BY <1>1 DEF Embeds, Same
<1>2. CASE SameResponse(ds, cs[i], cs[j])
    <2> DEFINE m == cs[i].message
    <2>1. /\ m = cs[j].message
          /\ m # None \/ cs[i].request # None
          /\ \/ cs[i].request = cs[j].request
             \/ /\ m # None
                /\ cs[i].request = None \/ cs[j].request = None
                /\ Cardinality(RequestsOf(ds, m)) = 1
        BY <1>2 DEF SameResponse
    <2>2. CASE cs[i].request = cs[j].request
        BY <2>1, <2>2 DEF SameResponse, Same
    <2>3. CASE cs[i].request # cs[j].request
        <3>1. cs[i] \in Range(cs) /\ cs[j] \in Range(cs)
            BY RangeIs
        <3>2. RequestsOf(cs, m) # {}
            <4>1. CASE cs[i].request # None
                BY <3>1, <4>1, RequestsAre
            <4>2. CASE cs[j].request # None
                BY <2>1, <3>1, <4>2, RequestsAre
            <4> QED BY <2>3, <4>1, <4>2
        <3>3. ASSUME NEW r \in RequestsOf(cs, m) PROVE r \in RequestsOf(ds, m)
            <4>1. PICK c \in Range(cs) : c.message = m /\ c.request = r /\ r # None
                BY RequestsAre
            <4>2. PICK k \in 1..Len(cs) : c = cs[k]
                BY RangeIs
            <4>3. e[k] \in DOMAIN ds /\ ds[e[k]] = c
                BY <4>2, RangeIs DEF Embeds
            <4>4. c \in Range(ds)
                BY <4>3, RangeIs
            <4> QED BY <4>1, <4>4, RequestsAre
        <3>4. IsFiniteSet(RequestsOf(ds, m)) /\ Cardinality(RequestsOf(ds, m)) = 1
            BY <2>1, <2>3, RequestsAre
        <3>5. RequestsOf(cs, m) = RequestsOf(ds, m)
            BY <3>2, <3>3, <3>4, SingleIs
        <3>6. Cardinality(RequestsOf(cs, m)) = 1
            BY <3>4, <3>5, Zenon
        <3> QED BY <2>1, <2>3, <3>6 DEF SameResponse, Same
    <2> QED BY <2>2, <2>3
<1>3. SameResponse(ds, ds[e[i]], ds[e[j]]) => SameResponse(ds, cs[i], cs[j])
    <2>1. ds[e[i]] = cs[i] /\ ds[e[j]] = cs[j]
        BY DEF Embeds
    <2> QED BY <2>1, Zenon
<1> QED BY <1>1, <1>2, <1>3 DEF Same

\* The more snapshots, the more is charged.
LEMMA MoreIsCharged ==
    ASSUME NEW cs \in Seq(Candidate), NEW ds \in Seq(Candidate), NEW e, Embeds(cs, ds, e)
    PROVE  SumFunction(dedupeClaude(cs)) <= SumFunction(dedupeClaude(ds))
<1> DEFINE r == dedupeClaude(cs)
<1> DEFINE s == dedupeClaude(ds)
<1>1. PICK at : Placed(cs, Len(cs), r, at)
    BY PassPlaces
<1>2. PICK bt : Placed(ds, Len(ds), s, bt)
    BY PassPlaces
<1> HIDE DEF r, s
<1> DEFINE Q == 1..Len(r)
<1> DEFINE V == 1..Len(s)
<1>3. /\ Len(r) \in Nat /\ DOMAIN r = Q /\ \A q \in Q : r[q] \in Nat
      /\ Len(s) \in Nat /\ DOMAIN s = V /\ \A v \in V : s[v] \in Nat
    BY <1>1, <1>2 DEF Placed
<1>4. IsFiniteSet(Q) /\ IsFiniteSet(V)
    BY <1>3, FS_Interval
<1> HIDE DEF Q, V
<1> DEFINE top(q) == CHOOSE i \in 1..Len(cs) : at[i] = q /\ cs[i].tokens = r[q]
<1> DEFINE h == [q \in Q |-> bt[e[top(q)]]]
<1> DEFINE k == [q \in Q |-> s[h[q]]]
<1>5. ASSUME NEW q \in Q
      PROVE  top(q) \in 1..Len(cs) /\ at[top(q)] = q /\ cs[top(q)].tokens = r[q]
    <2>1. \E i \in 1..Len(cs) : at[i] = q /\ cs[i].tokens = r[q]
        BY <1>1 DEF Placed, Q
    <2> QED BY <2>1
<1> HIDE DEF top
<1>6. ASSUME NEW q \in Q
      PROVE  h[q] \in V /\ r[q] <= s[h[q]]
    <2>1. e[top(q)] \in 1..Len(ds) /\ ds[e[top(q)]] = cs[top(q)]
        BY <1>5 DEF Embeds
    <2>2. bt[e[top(q)]] \in V /\ ds[e[top(q)]].tokens <= s[bt[e[top(q)]]]
        BY <1>2, <2>1 DEF Placed, V
    <2>3. h[q] = bt[e[top(q)]] /\ ds[e[top(q)]].tokens = r[q]
        BY <1>5, <2>1
    <2> HIDE DEF h
    <2> QED BY <2>2, <2>3
<1>7. ASSUME NEW q \in Q, NEW p \in Q, h[q] = h[p] PROVE q = p
    <2>1. /\ top(q) \in 1..Len(cs) /\ top(p) \in 1..Len(cs)
          /\ e[top(q)] \in 1..Len(ds) /\ e[top(p)] \in 1..Len(ds)
        BY <1>5 DEF Embeds
    <2>2. bt[e[top(q)]] = bt[e[top(p)]]
        BY <1>7
    <2>3. Same(ds, e[top(q)], e[top(p)])
        BY <1>2, <2>1, <2>2 DEF Placed
    <2>4. Same(cs, top(q), top(p))
        BY <2>1, <2>3, SameBefore
    <2>5. at[top(q)] = at[top(p)]
        BY <1>1, <2>1, <2>4 DEF Placed
    <2> QED BY <1>5, <2>5
<1> HIDE DEF h
<1>8. \A q \in Q : k[q] = s[h[q]] /\ k[q] \in Nat /\ r[q] \in Nat /\ r[q] <= k[q]
    BY <1>3, <1>6
<1> HIDE DEF k
<1>9. Ints(r, Q) /\ Ints(k, Q)
    BY <1>8 DEF Ints
<1>10. SumFunctionOnSet(r, Q) <= SumFunctionOnSet(k, Q)
    BY <1>4, <1>8, <1>9, SumAtMost
<1>11. SumFunctionOnSet(s, {h[q] : q \in Q}) = SumFunctionOnSet(k, Q)
    <2>1. /\ \A q \in Q : s[h[q]] = k[q]
          /\ \A q, p \in Q : h[q] = h[p] => q = p
        BY <1>7, <1>8
    <2> QED BY <1>4, <1>9, <2>1, SumImage
<1>12. SumFunctionOnSet(s, {h[q] : q \in Q}) <= SumFunctionOnSet(s, V)
    <2> DEFINE W == {h[q] : q \in Q}
    <2>1. W \in SUBSET V
        BY <1>6
    <2> HIDE DEF W
    <2>2. SumFunctionOnSet(s, W) <= SumFunctionOnSet(s, V)
        BY <1>3, <1>4, <2>1, SumWithin
    <2> QED BY <2>2 DEF W
<1>13. /\ SumFunctionOnSet(r, Q) \in Nat /\ SumFunctionOnSet(k, Q) \in Nat
       /\ SumFunctionOnSet(s, V) \in Nat
    BY <1>3, <1>4, <1>8, SumNat
<1>14. SumFunction(r) = SumFunctionOnSet(r, Q) /\ SumFunction(s) = SumFunctionOnSet(s, V)
    BY <1>3, Zenon DEF SumFunction
<1> QED BY <1>10, <1>11, <1>12, <1>13, <1>14 DEF r, s

-----------------------------------------------------------------------------
(* The logs, one after the other.                                          *)

\* The candidates of the first logs.
IsAll(ls, N, all) == all = [n \in 0..N |-> IF n = 0 THEN <<>> ELSE all[n - 1] \o ls[n]]

\* There are such.
LEMMA AllExists ==
    ASSUME NEW ls, NEW N \in Nat
    PROVE  \E all : IsAll(ls, N, all)
<1> DEFINE P == {n \in Nat : \E all : IsAll(ls, n, all)}
<1>1. 0 \in P
    <2> DEFINE g == [i \in 0..0 |-> <<>>]
    <2>1. IsAll(ls, 0, g)
        BY DEF IsAll
    <2> QED BY <2>1
<1>2. ASSUME NEW n \in Nat, n \in P PROVE n + 1 \in P
    <2>1. PICK g : IsAll(ls, n, g)
        BY <1>2
    <2> DEFINE h == [i \in 0..(n + 1) |-> IF i = n + 1 THEN g[n] \o ls[n + 1] ELSE g[i]]
    <2>2. \A i \in 0..n : i \in 0..(n + 1) /\ h[i] = g[i]
        OBVIOUS
    <2>3. h[n + 1] = g[n] \o ls[n + 1]
        <3>1. n + 1 \in 0..(n + 1)
            OBVIOUS
        <3> QED BY <3>1, Zenon
    <2>4. h = [i \in 0..(n + 1) |-> h[i]]
        OBVIOUS
    <2> HIDE DEF h
    <2>5. ASSUME NEW i \in 0..(n + 1)
          PROVE  h[i] = IF i = 0 THEN <<>> ELSE h[i - 1] \o ls[i]
        <3>1. CASE i = n + 1
            <4>1. n \in 0..n /\ i - 1 = n /\ i # 0
                BY <3>1
            <4> QED BY <2>2, <2>3, <3>1, <4>1
        <3>2. CASE i # n + 1
            <4>1. i \in 0..n /\ (i # 0 => i - 1 \in 0..n)
                BY <3>2
            <4>2. g[i] = IF i = 0 THEN <<>> ELSE g[i - 1] \o ls[i]
                BY <2>1, <4>1 DEF IsAll
            <4> QED BY <2>2, <4>1, <4>2
        <3> QED BY <3>1, <3>2
    <2>6. IsAll(ls, n + 1, h)
        BY <2>4, <2>5 DEF IsAll
    <2> QED BY <2>6
<1> HIDE DEF P
<1> QED BY <1>1, <1>2, Steps DEF P

\* The candidates of a refresh,
LEMMA CandidatesAre == \E all : IsAll(logs, Files, all) /\ Candidates = all[Files]
<1> DEFINE all == CHOOSE g : IsAll(logs, Files, g)
<1>1. Files \in Nat
    BY FilesAssumption
<1>2. IsAll(logs, Files, all)
    BY <1>1, AllExists
<1>3. Candidates = all[Files]
    BY Zenon DEF Candidates, IsAll
<1> QED BY <1>2, <1>3

\* and of the next.
LEMMA CandidatesWillBe == \E all : IsAll(logs', Files, all) /\ Candidates' = all[Files]
<1> DEFINE all == CHOOSE g : IsAll(logs', Files, g)
<1>1. Files \in Nat
    BY FilesAssumption
<1>2. IsAll(logs', Files, all)
    BY <1>1, AllExists
<1>3. Candidates' = all[Files]
    BY Zenon DEF Candidates, IsAll
<1> QED BY <1>2, <1>3

\* They are candidates.
LEMMA AllAreCandidates ==
    ASSUME NEW ls \in [1..Files -> Seq(Candidate)], NEW all, IsAll(ls, Files, all)
    PROVE  \A n \in 0..Files : all[n] \in Seq(Candidate)
<1>1. Files \in Nat
    BY FilesAssumption
<1> DEFINE P == {n \in Nat : n <= Files => all[n] \in Seq(Candidate)}
<1>2. 0 \in P
    <2>1. 0 \in 0..Files
        BY <1>1
    <2>2. all[0] = <<>>
        BY <2>1 DEF IsAll
    <2>3. <<>> \in Seq(Candidate)
        OBVIOUS
    <2> QED BY <2>2, <2>3
<1>3. ASSUME NEW n \in Nat, n \in P PROVE n + 1 \in P
    <2> SUFFICES ASSUME n + 1 <= Files PROVE all[n + 1] \in Seq(Candidate)
        OBVIOUS
    <2>1. n + 1 \in 0..Files /\ n + 1 \in 1..Files /\ n + 1 # 0 /\ (n + 1) - 1 = n /\ n <= Files
        BY <1>1
    <2>2. all[n + 1] = all[n] \o ls[n + 1]
        BY <2>1 DEF IsAll
    <2>3. all[n] \in Seq(Candidate) /\ ls[n + 1] \in Seq(Candidate)
        BY <1>3, <2>1
    <2> QED BY <2>2, <2>3
<1> HIDE DEF P
<1>4. Nat \subseteq P
    BY <1>2, <1>3, Steps
<1> QED BY <1>1, <1>4 DEF P

\* Lists embedded in two others are so one after the other.
LEMMA EmbedBoth ==
    ASSUME NEW a \in Seq(Candidate), NEW b \in Seq(Candidate),
           NEW c \in Seq(Candidate), NEW d \in Seq(Candidate),
           NEW e, NEW f, Embeds(a, c, e), Embeds(b, d, f)
    PROVE  \E g : Embeds(a \o b, c \o d, g)
<1> DEFINE g == [i \in 1..(Len(a) + Len(b)) |-> IF i <= Len(a) THEN e[i] ELSE Len(c) + f[i - Len(a)]]
<1>1. /\ Len(a) \in Nat /\ Len(b) \in Nat /\ Len(c) \in Nat /\ Len(d) \in Nat
      /\ Len(a \o b) = Len(a) + Len(b) /\ Len(c \o d) = Len(c) + Len(d)
    OBVIOUS
<1>2. /\ \A i \in 1..Len(a) : (a \o b)[i] = a[i]
      /\ \A i \in 1..Len(b) : (a \o b)[Len(a) + i] = b[i]
      /\ \A i \in 1..Len(c) : (c \o d)[i] = c[i]
      /\ \A i \in 1..Len(d) : (c \o d)[Len(c) + i] = d[i]
    BY <1>1
<1>3. /\ \A i \in 1..Len(a) : e[i] \in 1..Len(c) /\ c[e[i]] = a[i]
      /\ \A i \in 1..Len(b) : f[i] \in 1..Len(d) /\ d[f[i]] = b[i]
    BY DEF Embeds
<1>4. ASSUME NEW i \in 1..(Len(a) + Len(b))
      PROVE  \/ i \in 1..Len(a) /\ g[i] = e[i]
             \/ i - Len(a) \in 1..Len(b) /\ g[i] = Len(c) + f[i - Len(a)] /\ i = Len(a) + (i - Len(a))
    BY <1>1
<1> HIDE DEF g
<1>5. ASSUME NEW i \in 1..(Len(a) + Len(b))
      PROVE  g[i] \in 1..(Len(c) + Len(d)) /\ (c \o d)[g[i]] = (a \o b)[i]
    <2>1. CASE i \in 1..Len(a) /\ g[i] = e[i]
        <3>1. e[i] \in 1..Len(c) /\ c[e[i]] = a[i]
            BY <1>3, <2>1
        <3>2. e[i] \in 1..(Len(c) + Len(d))
            BY <1>1, <3>1
        <3>3. (c \o d)[e[i]] = c[e[i]] /\ (a \o b)[i] = a[i]
            BY <1>2, <2>1, <3>1
        <3> QED BY <2>1, <3>1, <3>2, <3>3
    <2>2. CASE i - Len(a) \in 1..Len(b) /\ g[i] = Len(c) + f[i - Len(a)] /\ i = Len(a) + (i - Len(a))
        <3> DEFINE j == i - Len(a)
        <3>1. j \in 1..Len(b) /\ i = Len(a) + j /\ g[i] = Len(c) + f[j]
            BY <2>2
        <3> HIDE DEF j
        <3>2. f[j] \in 1..Len(d) /\ d[f[j]] = b[j]
            BY <1>3, <3>1
        <3>3. Len(c) + f[j] \in 1..(Len(c) + Len(d))
            BY <1>1, <3>2
        <3>4. (c \o d)[Len(c) + f[j]] = d[f[j]] /\ (a \o b)[Len(a) + j] = b[j]
            BY <1>2, <3>1, <3>2
        <3> QED BY <3>1, <3>2, <3>3, <3>4
    <2> QED BY <1>4, <2>1, <2>2
<1>6. ASSUME NEW i \in 1..(Len(a) + Len(b)), NEW k \in 1..(Len(a) + Len(b)), g[i] = g[k]
      PROVE  i = k
    <2> DEFINE Low(x) == x \in 1..Len(a) /\ g[x] = e[x] /\ g[x] \in 1..Len(c)
    <2> DEFINE High(x) == /\ x - Len(a) \in 1..Len(b) /\ g[x] = Len(c) + f[x - Len(a)]
                          /\ f[x - Len(a)] \in 1..Len(d) /\ x = Len(a) + (x - Len(a))
    <2>1. Low(i) \/ High(i)
        BY <1>3, <1>4
    <2>2. Low(k) \/ High(k)
        BY <1>3, <1>4
    <2>3. CASE Low(i) /\ Low(k)
        BY <1>6, <2>3 DEF Embeds
    <2>4. CASE High(i) /\ High(k)
        <3>1. f[i - Len(a)] = f[k - Len(a)]
            <4>1. f[i - Len(a)] \in Nat /\ f[k - Len(a)] \in Nat
                BY <1>1, <2>4
            <4>2. Len(c) + f[i - Len(a)] = Len(c) + f[k - Len(a)]
                BY <1>6, <2>4
            <4> QED BY <1>1, <4>1, <4>2
        <3>2. i - Len(a) = k - Len(a)
            BY <2>4, <3>1 DEF Embeds
        <3> QED BY <1>1, <3>2
    <2>5. ~(Low(i) /\ High(k)) /\ ~(High(i) /\ Low(k))
        BY <1>1, <1>6
    <2> QED BY <2>1, <2>2, <2>3, <2>4, <2>5
<1>7. g \in [1..(Len(a) + Len(b)) -> 1..(Len(c) + Len(d))]
    <2>1. \A i \in 1..(Len(a) + Len(b)) : g[i] \in 1..(Len(c) + Len(d))
        BY <1>5
    <2> QED BY <2>1 DEF g
<1>8. Embeds(a \o b, c \o d, g)
    BY <1>1, <1>5, <1>6, <1>7 DEF Embeds
<1> QED BY <1>8

-----------------------------------------------------------------------------
(* What it charges, in every state.                                        *)

\* The logs hold snapshots.
LogsTypeOK == logs \in [1..Files -> Seq(Candidate)]

\* A line becomes a snapshot.
LEMMA LinesAreCandidates ==
    ASSUME NEW n \in 1..Files, NEW line \in Line
    PROVE  [message |-> line.message, request |-> line.request, tokens |-> line.tokens] \in Candidate
<1>1. line.tokens \in 0..MaxTokens /\ MaxTokens \in Nat
    BY BoundsAssumption DEF Line
<1>2. line.tokens \in Nat
    BY <1>1
<1> QED BY <1>2 DEF Line, Candidate

\* Every log holds snapshots, whatever sessions append.
LEMMA LogsAreTyped == LogsSpec => []LogsTypeOK
<1>1. LogsInit => LogsTypeOK
    <2>1. <<>> \in Seq(Candidate)
        OBVIOUS
    <2> QED BY <2>1 DEF LogsInit, LogsTypeOK
<1>2. LogsTypeOK /\ [LogsNext]_logs => LogsTypeOK'
    <2> SUFFICES ASSUME LogsTypeOK, [LogsNext]_logs PROVE LogsTypeOK'
        OBVIOUS
    <2>1. CASE UNCHANGED logs
        BY <2>1 DEF LogsTypeOK
    <2>2. ASSUME NEW n \in 1..Files, NEW line \in Line, AppendLine(n, line) PROVE LogsTypeOK'
        <3> DEFINE x == [message |-> line.message, request |-> line.request, tokens |-> line.tokens]
        <3>1. x \in Candidate
            BY LinesAreCandidates
        <3>2. logs' = [logs EXCEPT ![n] = Append(@, x)]
            BY <2>2 DEF AppendLine
        <3> HIDE DEF x
        <3>3. Append(logs[n], x) \in Seq(Candidate)
            BY <3>1 DEF LogsTypeOK
        <3> QED BY <3>2, <3>3 DEF LogsTypeOK
    <2> QED BY <2>1, <2>2 DEF LogsNext
<1> QED BY <1>1, <1>2, PTL DEF LogsSpec

\* In every state dedupeClaude charges every response once, with the most tokens
\* any of its snapshots has, for any number of logs, messages and requests and
\* without a bound on the snapshots: its one pass decides by a map it is still
\* building and finds exactly the responses, in whatever order they are.
THEOREM ChargesAlwaysOnce == LogsSpec => []OneChargePerResponse
<1>1. LogsTypeOK => OneChargePerResponse
    <2> SUFFICES ASSUME LogsTypeOK PROVE OneChargePerResponse
        OBVIOUS
    <2>1. PICK all : IsAll(logs, Files, all) /\ Candidates = all[Files]
        BY CandidatesAre
    <2>2. Files \in 0..Files
        BY FilesAssumption
    <2>3. Candidates \in Seq(Candidate)
        BY <2>1, <2>2, AllAreCandidates DEF LogsTypeOK
    <2>4. SumFunction(dedupeClaude(Candidates)) = Charge(Candidates)
        BY <2>3, ChargeIs
    <2> QED BY <2>4, Zenon DEF OneChargePerResponse, Total, Charge, Most
<1> QED BY <1>1, LogsAreTyped, PTL

\* What is charged is a number.
LEMMA ChargeIsInt ==
    ASSUME NEW cs \in Seq(Candidate)
    PROVE  SumFunction(dedupeClaude(cs)) \in Int
<1> DEFINE r == dedupeClaude(cs)
<1>1. PICK at : Placed(cs, Len(cs), r, at)
    BY PassPlaces
<1> HIDE DEF r
<1> DEFINE Q == 1..Len(r)
<1>2. Len(r) \in Nat /\ DOMAIN r = Q /\ \A q \in Q : r[q] \in Nat
    BY <1>1 DEF Placed
<1>3. IsFiniteSet(Q)
    BY <1>2, FS_Interval
<1> HIDE DEF Q
<1>4. SumFunctionOnSet(r, Q) \in Nat
    BY <1>2, <1>3, SumNat
<1>5. SumFunction(r) = SumFunctionOnSet(r, Q)
    BY <1>2, Zenon DEF SumFunction
<1> QED BY <1>4, <1>5 DEF r

\* The logs before a session appended to one are embedded in the logs after.
LEMMA AllIsEmbedded ==
    ASSUME NEW ls \in [1..Files -> Seq(Candidate)], NEW ms \in [1..Files -> Seq(Candidate)],
           NEW all, NEW bll, IsAll(ls, Files, all), IsAll(ms, Files, bll),
           \A n \in 1..Files : \E e : Embeds(ls[n], ms[n], e)
    PROVE  \E e : Embeds(all[Files], bll[Files], e)
<1>1. Files \in Nat
    BY FilesAssumption
<1> DEFINE P == {n \in Nat : n <= Files => \E e : Embeds(all[n], bll[n], e)}
<1>2. 0 \in P
    <2>1. 0 \in 0..Files
        BY <1>1
    <2>2. all[0] = <<>> /\ bll[0] = <<>>
        BY <2>1 DEF IsAll
    <2> DEFINE e == [i \in 1..0 |-> 0]
    <2>3. Len(<<>>) = 0 /\ (\A i \in 1..0 : FALSE) /\ e \in [1..0 -> 1..0]
        OBVIOUS
    <2>4. Embeds(<<>>, <<>>, e)
        BY <2>3 DEF Embeds
    <2> QED BY <2>2, <2>4
<1>3. ASSUME NEW n \in Nat, n \in P PROVE n + 1 \in P
    <2> SUFFICES ASSUME n + 1 <= Files PROVE \E e : Embeds(all[n + 1], bll[n + 1], e)
        OBVIOUS
    <2>1. /\ n \in 0..Files /\ n + 1 \in 0..Files /\ n + 1 \in 1..Files
          /\ n + 1 # 0 /\ (n + 1) - 1 = n /\ n <= Files
        BY <1>1
    <2>2. all[n + 1] = all[n] \o ls[n + 1] /\ bll[n + 1] = bll[n] \o ms[n + 1]
        BY <2>1 DEF IsAll
    <2>3. PICK e : Embeds(all[n], bll[n], e)
        BY <1>3, <2>1
    <2>4. PICK f : Embeds(ls[n + 1], ms[n + 1], f)
        BY <2>1
    <2>5. all[n] \in Seq(Candidate) /\ bll[n] \in Seq(Candidate)
        BY <2>1, AllAreCandidates
    <2>6. ls[n + 1] \in Seq(Candidate) /\ ms[n + 1] \in Seq(Candidate)
        BY <2>1
    <2> QED BY <2>2, <2>3, <2>4, <2>5, <2>6, EmbedBoth
<1> HIDE DEF P
<1>4. Nat \subseteq P
    BY <1>2, <1>3, Steps
<1> QED BY <1>1, <1>4 DEF P

\* A log is embedded in itself, and in itself and a line more.
LEMMA AppendEmbeds ==
    ASSUME NEW cs \in Seq(Candidate), NEW x \in Candidate
    PROVE  (\E e : Embeds(cs, cs, e)) /\ (\E e : Embeds(cs, Append(cs, x), e))
<1> DEFINE e == [i \in 1..Len(cs) |-> i]
<1>1. Len(cs) \in Nat /\ Len(Append(cs, x)) = Len(cs) + 1
      /\ \A i \in 1..Len(cs) : Append(cs, x)[i] = cs[i] /\ i \in 1..(Len(cs) + 1)
    OBVIOUS
<1>2. Embeds(cs, cs, e) /\ Embeds(cs, Append(cs, x), e)
    BY <1>1 DEF Embeds
<1> QED BY <1>2

\* No line a session appends makes the total smaller: a response of before has
\* its most expensive snapshot in one of after, and different ones do so in
\* different ones, because snapshots a new request parts never join again.
THEOREM UsageNeverShrinksEver == LogsSpec => UsageNeverShrinks
<1>1. LogsTypeOK /\ LogsTypeOK' /\ [LogsNext]_logs => [Total' >= Total]_logs
    <2> SUFFICES ASSUME LogsTypeOK, LogsTypeOK', LogsNext PROVE Total' >= Total
        OBVIOUS
    <2>1. PICK all : IsAll(logs, Files, all) /\ Candidates = all[Files]
        BY CandidatesAre
    <2>2. PICK bll : IsAll(logs', Files, bll) /\ Candidates' = bll[Files]
        BY CandidatesWillBe
    <2>3. logs \in [1..Files -> Seq(Candidate)] /\ logs' \in [1..Files -> Seq(Candidate)]
        BY DEF LogsTypeOK
    <2>4. PICK n \in 1..Files, line \in Line : AppendLine(n, line)
        BY DEF LogsNext
    <2> DEFINE x == [message |-> line.message, request |-> line.request, tokens |-> line.tokens]
    <2>5. x \in Candidate
        BY LinesAreCandidates
    <2>6. logs' = [logs EXCEPT ![n] = Append(@, x)]
        BY <2>4 DEF AppendLine
    <2> HIDE DEF x
    <2>7. ASSUME NEW k \in 1..Files PROVE \E e : Embeds(logs[k], logs'[k], e)
        <3>1. logs[k] \in Seq(Candidate)
            BY <2>3
        <3>2. logs'[k] = logs[k] \/ logs'[k] = Append(logs[k], x)
            BY <2>3, <2>6
        <3> QED BY <2>5, <3>1, <3>2, AppendEmbeds
    <2>8. \E e : Embeds(all[Files], bll[Files], e)
        BY <2>1, <2>2, <2>3, <2>7, AllIsEmbedded
    <2>9. Files \in 0..Files
        BY FilesAssumption
    <2>10. Candidates \in Seq(Candidate) /\ Candidates' \in Seq(Candidate)
        BY <2>1, <2>2, <2>3, <2>9, AllAreCandidates
    <2>11. \E e : Embeds(Candidates, Candidates', e)
        BY <2>1, <2>2, <2>8
    <2> DEFINE cs == Candidates
    <2> DEFINE ds == Candidates'
    <2>12. cs \in Seq(Candidate) /\ ds \in Seq(Candidate) /\ \E e : Embeds(cs, ds, e)
        BY <2>10, <2>11
    <2> HIDE DEF cs, ds
    <2>13. SumFunction(dedupeClaude(cs)) <= SumFunction(dedupeClaude(ds))
        BY <2>12, MoreIsCharged
    <2>14. /\ SumFunction(dedupeClaude(cs)) \in Int
           /\ SumFunction(dedupeClaude(ds)) \in Int
        BY <2>12, ChargeIsInt
    <2>15. Total = SumFunction(dedupeClaude(cs)) /\ Total' = SumFunction(dedupeClaude(ds))
        BY Zenon DEF Total, cs, ds
    <2> QED BY <2>13, <2>14, <2>15
<1> QED BY <1>1, LogsAreTyped, PTL DEF LogsSpec, UsageNeverShrinks
===============================================================================
