---------------------------- MODULE FiniteSums ----------------------------
(***************************************************************************)
(* Smallest numbers and smallest sets, sums over a finite set as           *)
(* SumFunctionOnSet of Functions defines them and folds over a sequence as  *)
(* FoldLeft of SequencesExt does: what the proofs about ordered steps,     *)
(* parsed lines, charged calls, counted requests and listed findings need  *)
(* of them.  Induction is by smallest counterexample, since the induction  *)
(* theorems of the library take an operator as a parameter.                *)
(***************************************************************************)
EXTENDS Integers, FiniteSets, Functions, FiniteSetTheorems, WellFoundedInduction, TLAPS

(* Any numbers have a smallest one.                                        *)
LEMMA LeastNumber ==
  ASSUME NEW T \in SUBSET Nat, T # {}
  PROVE  \E x \in T : \A y \in T : x <= y
<1> DEFINE R == {ss \in Nat \X Nat : ss[1] < ss[2]}
<1>1. IsWellFoundedOn(R, Nat)
  BY NatLessThanWellFounded DEF OpToRel
<1> HIDE DEF R
<1>2. \E x \in T : \A y \in T : ~ (<<y, x>> \in R)
  BY <1>1, WFMin
<1>3. PICK x \in T : \A y \in T : ~ (<<y, x>> \in R)
  BY <1>2
<1>4. \A y \in T : ~(y < x)
  BY <1>3, x \in Nat DEF R
<1> QED BY <1>4

(* The first and the last of some indices.                                 *)
LEMMA FirstAndLast ==
  ASSUME NEW n \in Nat, NEW S \in SUBSET (1..n), S # {}
  PROVE  (\E i \in S : \A j \in S : i <= j) /\ (\E i \in S : \A j \in S : j <= i)
<1>1. \E i \in S : \A j \in S : i <= j
  BY LeastNumber
<1>2. \E i \in S : \A j \in S : j <= i
  <2> DEFINE T == {m \in Nat : \E i \in S : m = n - i}
  <2>1. T \in SUBSET Nat /\ T # {}
    <3>1. PICK i \in S : TRUE
      OBVIOUS
    <3>2. n - i \in T
      BY <3>1
    <3> QED BY <3>2
  <2>2. PICK m \in T : \A y \in T : m <= y
    <3> HIDE DEF T
    <3> QED BY <2>1, LeastNumber
  <2>3. PICK i \in S : m = n - i
    BY <2>2
  <2>4. \A j \in S : n - j \in T
    OBVIOUS
  <2> QED BY <2>2, <2>3, <2>4
<1> QED BY <1>1, <1>2

(* Among any subsets of a finite set there is one that is no longer among  *)
(* them when it loses an element: what holds of a set whenever it holds of *)
(* the set without one element holds of every finite set.                  *)
LEMMA SmallestSubset ==
  ASSUME NEW S, IsFiniteSet(S), NEW C \in SUBSET SUBSET S, C # {}
  PROVE  \E s \in C : \A x \in s : s \ {x} \in (SUBSET S) \ C
<1> DEFINE Sizes == {Cardinality(s) : s \in C}
<1>1. \A s \in C : IsFiniteSet(s) /\ Cardinality(s) \in Nat
  BY FS_Subset, FS_CardinalityType
<1>2. Sizes \in SUBSET Nat /\ Sizes # {}
  BY <1>1
<1>3. \E n \in Sizes : \A m \in Sizes : n <= m
  <2> HIDE DEF Sizes
  <2> QED BY <1>2, LeastNumber
<1>4. PICK s \in C : \A t \in C : Cardinality(s) <= Cardinality(t)
  BY <1>3
<1>5. SUFFICES ASSUME NEW x \in s PROVE s \ {x} \in (SUBSET S) \ C
  BY <1>4
<1>6. Cardinality(s \ {x}) = Cardinality(s) - 1
  BY <1>1, FS_RemoveElement
<1> QED BY <1>1, <1>4, <1>6

-----------------------------------------------------------------------------
(* The element a sum takes first, and one step of its recursion.           *)
Chosen(s) == CHOOSE x \in s : TRUE
Unfolded(f, h, s) == IF s = {} THEN 0 ELSE f[Chosen(s)] + h[s \ {Chosen(s)}]

IsSum(f, S, h) == h = [s \in SUBSET S |-> Unfolded(f, h, s)]
Solves(f, S, h) == \A s \in SUBSET S : h[s] = Unfolded(f, h, s)

(* Numbers to be added.                                                    *)
Countable(f, S) == IsFiniteSet(S) /\ \A x \in S : f[x] \in Nat

(* The recursion is solved on the subsets of up to n elements.             *)
SumsUpTo(f, S, n, h) ==
  /\ h \in [SUBSET S -> Nat]
  /\ \A s \in SUBSET S : Cardinality(s) <= n => h[s] = Unfolded(f, h, s)

(* Any set but the empty one has such an element.                          *)
LEMMA ChosenMember == \A s : s # {} => Chosen(s) \in s
BY DEF Chosen

(* A sum is what solves its recursion.                                     *)
LEMMA SumIsChosen ==
  ASSUME NEW S, NEW f
  PROVE  SumFunctionOnSet(f, S) = (CHOOSE h : IsSum(f, S, h))[S]
<1>1. SumFunctionOnSet(f, S)
      = (CHOOSE h : h = [s \in SUBSET S |->
            IF s = {} THEN 0
            ELSE f[CHOOSE x \in s : TRUE] + h[s \ {CHOOSE x \in s : TRUE}]])[S]
  BY DEF SumFunctionOnSet, FoldFunctionOnSet, MapThenFoldSet
<1> QED BY <1>1 DEF IsSum, Unfolded, Chosen

(* Such a solution exists for every n.                                     *)
LEMMA SumUpTo ==
  ASSUME NEW S, NEW f, Countable(f, S), NEW n \in Nat
  PROVE  \E h : SumsUpTo(f, S, n, h)
<1> DEFINE Bad == {m \in Nat : ~ \E h : SumsUpTo(f, S, m, h)}
<1>s. \A s \in SUBSET S : IsFiniteSet(s) /\ Cardinality(s) \in Nat
  BY FS_Subset, FS_CardinalityType DEF Countable
<1>1. SUFFICES ASSUME Bad # {} PROVE FALSE
  OBVIOUS
<1>2. PICK m \in Bad : \A k \in Bad : m <= k
  BY <1>1, LeastNumber
<1>3. m # 0
  <2> DEFINE h == [s \in SUBSET S |-> 0]
  <2>1. SumsUpTo(f, S, 0, h)
    BY <1>s, FS_EmptySet DEF SumsUpTo, Unfolded
  <2> QED BY <1>2, <2>1
<1>4. m - 1 \in Nat /\ m - 1 \notin Bad
  <2>1. m \in Nat
    BY <1>2
  <2>2. m - 1 \in Nat /\ ~(m <= m - 1)
    BY <1>3, <2>1
  <2> HIDE DEF Bad
  <2> QED BY <1>2, <2>2
<1>5. PICK h : SumsUpTo(f, S, m - 1, h)
  BY <1>4
<1> DEFINE next == [s \in SUBSET S |-> Unfolded(f, h, s)]
<1>6. \A s \in SUBSET S : s # {} => Chosen(s) \in S /\ s \ {Chosen(s)} \in SUBSET S
  BY ChosenMember
<1>7. next \in [SUBSET S -> Nat]
  BY <1>5, <1>6 DEF SumsUpTo, Unfolded, Countable
<1>8. SumsUpTo(f, S, m, next)
  <2> SUFFICES ASSUME NEW s \in SUBSET S, Cardinality(s) <= m
               PROVE  next[s] = Unfolded(f, next, s)
    BY <1>7 DEF SumsUpTo
  <2>1. CASE s = {}
    BY <2>1 DEF Unfolded
  <2>2. CASE s # {}
    <3>1. Cardinality(s \ {Chosen(s)}) <= m - 1
      BY <1>2, <1>s, <2>2, ChosenMember, FS_RemoveElement
    <3>2. next[s \ {Chosen(s)}] = h[s \ {Chosen(s)}]
      BY <1>5, <1>6, <2>2, <3>1 DEF SumsUpTo
    <3> QED BY <1>6, <2>2, <3>2 DEF Unfolded
  <2> QED BY <2>1, <2>2
<1> QED BY <1>2, <1>8

(* Solutions agree.                                                        *)
LEMMA SumUnique ==
  ASSUME NEW S, IsFiniteSet(S), NEW f, NEW g, NEW h, Solves(f, S, g), Solves(f, S, h)
  PROVE  g[S] = h[S]
<1> USE DEF Solves
<1> DEFINE Apart == {s \in SUBSET S : g[s] # h[s]}
<1>1. SUFFICES ASSUME Apart # {} PROVE FALSE
  OBVIOUS
<1>2. PICK s \in Apart : \A x \in s : s \ {x} \in (SUBSET S) \ Apart
  <2>1. Apart \in SUBSET SUBSET S
    OBVIOUS
  <2> HIDE DEF Apart
  <2> QED BY <1>1, <2>1, SmallestSubset
<1>3. s # {}
  BY <1>2 DEF Unfolded
<1>4. g[s \ {Chosen(s)}] = h[s \ {Chosen(s)}]
  BY <1>2, <1>3, ChosenMember
<1> QED BY <1>2, <1>3, <1>4 DEF Unfolded

(* One table holds the sums over all subsets of a finite set.              *)
LEMMA SumTable ==
  ASSUME NEW S, NEW f, Countable(f, S)
  PROVE  \E h : \A s \in SUBSET S :
           h[s] \in Nat /\ h[s] = Unfolded(f, h, s) /\ SumFunctionOnSet(f, s) = h[s]
<1>1. Cardinality(S) \in Nat
  BY FS_CardinalityType DEF Countable
<1>2. PICK h : SumsUpTo(f, S, Cardinality(S), h)
  BY <1>1, SumUpTo
<1>3. \A s \in SUBSET S : h[s] \in Nat /\ h[s] = Unfolded(f, h, s)
  BY <1>2, FS_Subset DEF SumsUpTo, Countable
<1>4. ASSUME NEW s \in SUBSET S PROVE SumFunctionOnSet(f, s) = h[s]
  <2> DEFINE part == [t \in SUBSET s |-> h[t]]
             sum == CHOOSE g : IsSum(f, s, g)
  <2>1. \A t \in SUBSET s : part[t] = Unfolded(f, part, t)
    BY <1>3, ChosenMember DEF Unfolded
  <2>2. IsSum(f, s, part)
    BY <2>1 DEF IsSum
  <2>3. IsSum(f, s, sum)
    BY <2>2
  <2>4. \A t \in SUBSET s : sum[t] = Unfolded(f, sum, t)
    <3> HIDE DEF sum
    <3> QED BY <2>3 DEF IsSum
  <2>5. IsFiniteSet(s)
    BY FS_Subset DEF Countable
  <2>6. sum[s] = part[s]
    <3> HIDE DEF sum, part
    <3>1. Solves(f, s, sum) /\ Solves(f, s, part)
      BY <2>1, <2>4 DEF Solves
    <3> QED BY <2>5, <3>1, SumUnique
  <2> QED BY <2>6, SumIsChosen
<1> QED BY <1>3, <1>4

(* The recursion of a sum, and its type.                                   *)
LEMMA SumUnfolds ==
  ASSUME NEW S, NEW f, Countable(f, S)
  PROVE  /\ SumFunctionOnSet(f, S) \in Nat
         /\ SumFunctionOnSet(f, {}) = 0
         /\ S # {} => SumFunctionOnSet(f, S) =
                        f[Chosen(S)] + SumFunctionOnSet(f, S \ {Chosen(S)})
<1>1. PICK h : \A s \in SUBSET S :
        h[s] \in Nat /\ h[s] = Unfolded(f, h, s) /\ SumFunctionOnSet(f, s) = h[s]
  BY SumTable
<1>2. S \in SUBSET S /\ {} \in SUBSET S /\ S \ {Chosen(S)} \in SUBSET S
  OBVIOUS
<1> QED BY <1>1, <1>2 DEF Unfolded

(* Only the values on the set matter.                                      *)
LEMMA SumSame ==
  ASSUME NEW S, NEW f, NEW g, Countable(f, S), \A x \in S : g[x] = f[x]
  PROVE  SumFunctionOnSet(g, S) = SumFunctionOnSet(f, S)
<1> DEFINE Wrong == {s \in SUBSET S : SumFunctionOnSet(g, s) # SumFunctionOnSet(f, s)}
<1>1. SUFFICES ASSUME Wrong # {} PROVE FALSE
  OBVIOUS
<1>2. PICK s \in Wrong : \A x \in s : s \ {x} \in (SUBSET S) \ Wrong
  <2>1. Wrong \in SUBSET SUBSET S
    OBVIOUS
  <2> HIDE DEF Wrong
  <2> QED BY <1>1, <2>1, SmallestSubset DEF Countable
<1>3. Countable(f, s) /\ Countable(g, s)
  BY <1>2, FS_Subset DEF Countable
<1>4. s # {}
  BY <1>2, <1>3, SumUnfolds
<1>5. Chosen(s) \in s
  BY <1>4, ChosenMember
<1>6. SumFunctionOnSet(g, s \ {Chosen(s)}) = SumFunctionOnSet(f, s \ {Chosen(s)})
  BY <1>2, <1>5
<1>7. /\ SumFunctionOnSet(f, s) = f[Chosen(s)] + SumFunctionOnSet(f, s \ {Chosen(s)})
      /\ SumFunctionOnSet(g, s) = g[Chosen(s)] + SumFunctionOnSet(g, s \ {Chosen(s)})
  BY <1>3, <1>4, SumUnfolds
<1>8. g[Chosen(s)] = f[Chosen(s)]
  BY <1>2, <1>5
<1> QED BY <1>2, <1>6, <1>7, <1>8

(* Whichever element is taken first.                                       *)
LEMMA SumRemoves ==
  ASSUME NEW S, NEW f, Countable(f, S), NEW x \in S
  PROVE  SumFunctionOnSet(f, S) = f[x] + SumFunctionOnSet(f, S \ {x})
<1> DEFINE Right(s, y) == SumFunctionOnSet(f, s) = f[y] + SumFunctionOnSet(f, s \ {y})
           Wrong == {s \in SUBSET S : \E y \in s : ~Right(s, y)}
<1>1. SUFFICES ASSUME Wrong # {} PROVE FALSE
  OBVIOUS
<1>2. PICK s \in Wrong : \A y \in s : s \ {y} \in (SUBSET S) \ Wrong
  <2>1. Wrong \in SUBSET SUBSET S
    OBVIOUS
  <2> HIDE DEF Wrong
  <2> QED BY <1>1, <2>1, SmallestSubset DEF Countable
<1>3. PICK y \in s : ~Right(s, y)
  BY <1>2
<1> DEFINE c == Chosen(s)
<1>4. \A t \in SUBSET s : Countable(f, t) /\ SumFunctionOnSet(f, t) \in Nat
  BY <1>2, FS_Subset, SumUnfolds DEF Countable
<1>5. c \in s /\ Right(s, c)
  BY <1>3, <1>4, ChosenMember, SumUnfolds
<1>6. c # y
  BY <1>3, <1>5
<1>7. Right(s \ {c}, y) /\ Right(s \ {y}, c)
  BY <1>2, <1>3, <1>5, <1>6
<1>8. (s \ {c}) \ {y} = (s \ {y}) \ {c}
  OBVIOUS
<1>9. f[c] \in Nat /\ f[y] \in Nat /\ SumFunctionOnSet(f, (s \ {c}) \ {y}) \in Nat
  BY <1>3, <1>4, <1>5 DEF Countable
<1>10. SumFunctionOnSet(f, s) = f[c] + (f[y] + SumFunctionOnSet(f, (s \ {c}) \ {y}))
  BY <1>5, <1>7
<1>11. SumFunctionOnSet(f, s \ {y}) = f[c] + SumFunctionOnSet(f, (s \ {c}) \ {y})
  BY <1>7, <1>8
<1> QED BY <1>3, <1>9, <1>10, <1>11

(* A sum over two sets that have nothing in common.                        *)
LEMMA SumSplits ==
  ASSUME NEW S, NEW T, NEW f, Countable(f, S \cup T), S \cap T = {}
  PROVE  SumFunctionOnSet(f, S \cup T) = SumFunctionOnSet(f, S) + SumFunctionOnSet(f, T)
<1> DEFINE Sum(s) == SumFunctionOnSet(f, s)
           Wrong == {s \in SUBSET S : Sum(s \cup T) # Sum(s) + Sum(T)}
<1>0. Countable(f, S) /\ Countable(f, T)
  BY FS_Subset DEF Countable
<1>1. SUFFICES ASSUME Wrong # {} PROVE FALSE
  OBVIOUS
<1>2. PICK s \in Wrong : \A y \in s : s \ {y} \in (SUBSET S) \ Wrong
  <2>1. Wrong \in SUBSET SUBSET S
    OBVIOUS
  <2> HIDE DEF Wrong
  <2> QED BY <1>0, <1>1, <2>1, SmallestSubset DEF Countable
<1>3. Countable(f, s) /\ Countable(f, s \cup T)
  BY <1>2, FS_Subset DEF Countable
<1>4. s # {}
  <2>1. Sum({}) = 0 /\ Sum(T) \in Nat
    BY <1>0, SumUnfolds
  <2>2. {} \cup T = T
    OBVIOUS
  <2> QED BY <1>2, <2>1, <2>2
<1>5. PICK x : x \in s
  BY <1>4
<1>6. (s \cup T) \ {x} = (s \ {x}) \cup T
  BY <1>2, <1>5
<1>7. Sum(s) = f[x] + Sum(s \ {x}) /\ Sum(s \cup T) = f[x] + Sum((s \cup T) \ {x})
  BY <1>3, <1>5, SumRemoves
<1>8. Sum((s \ {x}) \cup T) = Sum(s \ {x}) + Sum(T)
  BY <1>2, <1>5
<1>9. f[x] \in Nat /\ Sum(s \ {x}) \in Nat /\ Sum(T) \in Nat
  <2>1. Countable(f, s \ {x})
    BY <1>3, FS_Subset DEF Countable
  <2> QED BY <1>0, <1>3, <1>5, <2>1, SumUnfolds DEF Countable
<1> QED BY <1>2, <1>6, <1>7, <1>8, <1>9

(* A smaller set has no larger sum.                                        *)
LEMMA SumGrows ==
  ASSUME NEW S, NEW T \in SUBSET S, NEW f, Countable(f, S)
  PROVE  SumFunctionOnSet(f, T) <= SumFunctionOnSet(f, S)
<1>1. S = T \cup (S \ T) /\ T \cap (S \ T) = {}
  OBVIOUS
<1>2. Countable(f, T) /\ Countable(f, S \ T)
  BY FS_Subset DEF Countable
<1>3. SumFunctionOnSet(f, T \cup (S \ T))
      = SumFunctionOnSet(f, T) + SumFunctionOnSet(f, S \ T)
  BY <1>1, SumSplits
<1>4. SumFunctionOnSet(f, T) \in Nat /\ SumFunctionOnSet(f, S \ T) \in Nat
  BY <1>2, SumUnfolds
<1>5. SumFunctionOnSet(f, S) = SumFunctionOnSet(f, T) + SumFunctionOnSet(f, S \ T)
  BY <1>1, <1>3
<1> QED BY <1>4, <1>5

(* A sum of zeros.                                                         *)
LEMMA SumOfZeros ==
  ASSUME NEW S, IsFiniteSet(S), NEW f, \A x \in S : f[x] = 0
  PROVE  SumFunctionOnSet(f, S) = 0
<1> DEFINE Wrong == {s \in SUBSET S : SumFunctionOnSet(f, s) # 0}
<1>1. SUFFICES ASSUME Wrong # {} PROVE FALSE
  OBVIOUS
<1>2. PICK s \in Wrong : \A x \in s : s \ {x} \in (SUBSET S) \ Wrong
  <2>1. Wrong \in SUBSET SUBSET S
    OBVIOUS
  <2> HIDE DEF Wrong
  <2> QED BY <1>1, <2>1, SmallestSubset
<1>3. Countable(f, s)
  BY <1>2, FS_Subset DEF Countable
<1>4. s # {}
  BY <1>2, <1>3, SumUnfolds
<1>5. Chosen(s) \in s
  BY <1>4, ChosenMember
<1>6. SumFunctionOnSet(f, s \ {Chosen(s)}) = 0 /\ f[Chosen(s)] = 0
  BY <1>2, <1>5
<1>7. SumFunctionOnSet(f, s) = f[Chosen(s)] + SumFunctionOnSet(f, s \ {Chosen(s)})
  BY <1>3, <1>4, SumUnfolds
<1> QED BY <1>2, <1>6, <1>7

(* One more in one place is one more in the sum.                           *)
LEMMA SumIncrements ==
  ASSUME NEW S, NEW f, Countable(f, S), NEW c \in S, NEW g,
         g[c] = f[c] + 1, \A x \in S : x # c => g[x] = f[x]
  PROVE  SumFunctionOnSet(g, S) = SumFunctionOnSet(f, S) + 1
<1>1. Countable(g, S) /\ Countable(f, S \ {c})
  BY FS_Subset DEF Countable
<1>2. SumFunctionOnSet(g, S \ {c}) = SumFunctionOnSet(f, S \ {c})
  BY <1>1, SumSame
<1>3. SumFunctionOnSet(f, S) = f[c] + SumFunctionOnSet(f, S \ {c})
  BY SumRemoves
<1>4. SumFunctionOnSet(g, S) = g[c] + SumFunctionOnSet(g, S \ {c})
  BY <1>1, SumRemoves
<1>5. f[c] \in Nat /\ SumFunctionOnSet(f, S \ {c}) \in Nat
  BY <1>1, SumUnfolds DEF Countable
<1> QED BY <1>2, <1>3, <1>4, <1>5
-----------------------------------------------------------------------------
(* Folds over a sequence, as FoldLeft of SequencesExt defines them: the     *)
(* indices are taken from the last down.                                   *)
Top(s) == CHOOSE x \in s : \A y \in s : x >= y
Folded(base, g, h, s) == IF s = {} THEN base ELSE g[Top(s)][h[s \ {Top(s)}]]

IsFold(n, T, base, g, h) ==
  /\ h \in [SUBSET (1..n) -> T]
  /\ \A s \in SUBSET (1..n) : h[s] = Folded(base, g, h, s)

Solved(n, T, base, g, h) ==
  /\ h[{}] = base
  /\ \A s \in SUBSET (1..n) : s # {} /\ h[s \ {Top(s)}] \in T => h[s] = g[Top(s)][h[s \ {Top(s)}]]

(* What a fold has come to after each index.                               *)
IsTable(n, T, base, g, h, t) ==
  /\ t \in [0..n -> T] /\ t[0] = base /\ h[1..n] = t[n]
  /\ \A i \in 1..n : t[i] = g[i][t[i - 1]]

FoldedUpTo(n, T, base, g, k, h) ==
  /\ h \in [SUBSET (1..n) -> T]
  /\ \A s \in SUBSET (1..n) : Cardinality(s) <= k => h[s] = Folded(base, g, h, s)

(* What holds of 0 and of each next index holds of all.                    *)
LEMMA UpTo ==
  ASSUME NEW n \in Nat, NEW S, 0 \in S, \A i \in 1..n : i - 1 \in S => i \in S
  PROVE  \A i \in 0..n : i \in S
<1> DEFINE Bad == {i \in 0..n : i \notin S}
<1>1. SUFFICES ASSUME Bad # {} PROVE FALSE
  OBVIOUS
<1>2. PICK i \in Bad : \A j \in Bad : i <= j
  <2>1. Bad \in SUBSET Nat
    OBVIOUS
  <2> HIDE DEF Bad
  <2> QED BY <1>1, <2>1, LeastNumber
<1>3. i \in 0..n /\ i # 0
  BY <1>2
<1>4. i - 1 \in 0..n /\ i - 1 \notin Bad
  <2>1. i - 1 \in 0..n /\ ~(i <= i - 1)
    BY <1>3
  <2> HIDE DEF Bad
  <2> QED BY <1>2, <2>1
<1> QED BY <1>2, <1>3, <1>4

(* The last of some indices.                                               *)
LEMMA TopMember ==
  ASSUME NEW n \in Nat, NEW s \in SUBSET (1..n), s # {}
  PROVE  Top(s) \in s /\ \A j \in s : Top(s) >= j
<1>1. \E i \in s : \A j \in s : i >= j
  <2>1. PICK i \in s : \A j \in s : j <= i
    BY FirstAndLast
  <2> QED BY <2>1
<1> QED BY <1>1 DEF Top

(* The first indices have a last one, and lose it.                         *)
LEMMA TopOfPrefix ==
  ASSUME NEW n \in Nat, NEW i \in 1..n
  PROVE  1..i # {} /\ Top(1..i) = i /\ (1..i) \ {i} = 1..(i - 1) /\ 1..i \in SUBSET (1..n)
<1>1. 1..i \in SUBSET (1..n) /\ i \in 1..i
  OBVIOUS
<1>2. Top(1..i) \in 1..i /\ Top(1..i) >= i
  BY <1>1, TopMember
<1> QED BY <1>1, <1>2

(* Some of n indices are at most n.                                        *)
LEMMA Subindices ==
  ASSUME NEW n \in Nat, NEW s \in SUBSET (1..n)
  PROVE  IsFiniteSet(s) /\ Cardinality(s) \in Nat /\ Cardinality(s) <= n
<1>1. IsFiniteSet(1..n) /\ Cardinality(1..n) = n
  BY FS_Interval
<1>2. IsFiniteSet(s) /\ Cardinality(s) <= Cardinality(1..n)
  BY <1>1, FS_Subset
<1> QED BY <1>1, <1>2, FS_CardinalityType

(* A fold whose steps stay within T exists on the sets of up to k indices. *)
LEMMA FoldUpTo ==
  ASSUME NEW n \in Nat, NEW T, NEW base \in T, NEW g, \A i \in 1..n : \A t \in T : g[i][t] \in T,
         NEW k \in Nat
  PROVE  \E h : FoldedUpTo(n, T, base, g, k, h)
<1> DEFINE Good == {m \in Nat : \E h : FoldedUpTo(n, T, base, g, m, h)}
<1>s. \A s \in SUBSET (1..n) : IsFiniteSet(s) /\ Cardinality(s) \in Nat
  BY Subindices
<1>1. 0 \in Good
  <2> DEFINE h == [s \in SUBSET (1..n) |-> base]
  <2>1. FoldedUpTo(n, T, base, g, 0, h)
    BY <1>s, FS_EmptySet DEF FoldedUpTo, Folded
  <2> QED BY <2>1
<1>2. ASSUME NEW m \in 1..k, m - 1 \in Good PROVE m \in Good
  <2>1. PICK h : FoldedUpTo(n, T, base, g, m - 1, h)
    BY <1>2
  <2> DEFINE next == [s \in SUBSET (1..n) |-> Folded(base, g, h, s)]
  <2>2. \A s \in SUBSET (1..n) : s # {} => Top(s) \in 1..n /\ s \ {Top(s)} \in SUBSET (1..n)
    BY TopMember
  <2>3. next \in [SUBSET (1..n) -> T]
    BY <2>1, <2>2 DEF FoldedUpTo, Folded
  <2>4. FoldedUpTo(n, T, base, g, m, next)
    <3> SUFFICES ASSUME NEW s \in SUBSET (1..n), Cardinality(s) <= m
                 PROVE  next[s] = Folded(base, g, next, s)
      BY <2>3 DEF FoldedUpTo
    <3>1. CASE s = {}
      BY <3>1 DEF Folded
    <3>2. CASE s # {}
      <4>1. Cardinality(s \ {Top(s)}) <= m - 1
        <5>1. Top(s) \in s
          BY <3>2, TopMember
        <5>2. Cardinality(s \ {Top(s)}) = Cardinality(s) - 1
          BY <1>s, <5>1, FS_RemoveElement
        <5> QED BY <1>s, <5>2
      <4>2. next[s \ {Top(s)}] = h[s \ {Top(s)}]
        BY <2>1, <2>2, <3>2, <4>1 DEF FoldedUpTo
      <4> QED BY <2>2, <3>2, <4>2 DEF Folded
    <3> QED BY <3>1, <3>2
  <2> QED BY <2>4
<1>3. \A m \in 0..k : m \in Good
  <2> HIDE DEF Good
  <2> QED BY <1>1, <1>2, UpTo
<1> QED BY <1>3

(* A fold whose steps stay within T exists.                                *)
LEMMA FoldExists ==
  ASSUME NEW n \in Nat, NEW T, NEW base \in T, NEW g, \A i \in 1..n : \A t \in T : g[i][t] \in T
  PROVE  \E h : IsFold(n, T, base, g, h)
<1>1. \A s \in SUBSET (1..n) : Cardinality(s) <= n
  BY Subindices
<1>2. PICK h : FoldedUpTo(n, T, base, g, n, h)
  BY FoldUpTo
<1> QED BY <1>1, <1>2 DEF FoldedUpTo, IsFold

(* Its values on the first indices are the table of its steps.             *)
LEMMA FoldTable ==
  ASSUME NEW n \in Nat, NEW T, NEW base \in T, NEW g, \A i \in 1..n : \A t \in T : g[i][t] \in T,
         NEW h, Solved(n, T, base, g, h)
  PROVE  \E t : IsTable(n, T, base, g, h, t)
<1> DEFINE t == [i \in 0..n |-> h[1..i]]
           Good == {i \in 0..n : t[i] \in T}
<1>1. t[0] = base /\ t[n] = h[1..n]
  <2>1. 1..0 = {} /\ 0 \in 0..n /\ n \in 0..n
    OBVIOUS
  <2> QED BY <2>1 DEF Solved
<1>2. ASSUME NEW i \in 1..n, t[i - 1] \in T PROVE t[i] = g[i][t[i - 1]]
  <2>1. 1..i # {} /\ Top(1..i) = i /\ (1..i) \ {i} = 1..(i - 1) /\ 1..i \in SUBSET (1..n)
    BY TopOfPrefix
  <2>2. t[i] = h[1..i] /\ t[i - 1] = h[1..(i - 1)]
    OBVIOUS
  <2> HIDE DEF t
  <2>3. h[(1..i) \ {Top(1..i)}] = t[i - 1]
    BY <2>1, <2>2
  <2>4. h[1..i] = g[Top(1..i)][h[(1..i) \ {Top(1..i)}]]
    BY <1>2, <2>1, <2>3 DEF Solved
  <2> QED BY <2>1, <2>2, <2>3, <2>4
<1>3. \A i \in 0..n : i \in Good
  <2>1. 0 \in Good
    BY <1>1
  <2>2. ASSUME NEW i \in 1..n, i - 1 \in Good PROVE i \in Good
    <3> HIDE DEF t
    <3>1. t[i - 1] \in T
      BY <2>2
    <3>2. t[i] \in T
      BY <1>2, <3>1
    <3> QED BY <3>2
  <2> HIDE DEF Good
  <2> QED BY <2>1, <2>2, UpTo
<1>4. \A i \in 0..n : t[i] \in T
  BY <1>3
<1>5. \A i \in 1..n : t[i] = g[i][t[i - 1]]
  <2> SUFFICES ASSUME NEW i \in 1..n PROVE t[i] = g[i][t[i - 1]]
    OBVIOUS
  <2>1. i - 1 \in 0..n
    OBVIOUS
  <2> HIDE DEF t
  <2> QED BY <1>2, <1>4, <2>1
<1>6. IsTable(n, T, base, g, h, t)
  BY <1>1, <1>4, <1>5 DEF IsTable
<1> QED BY <1>6
===========================================================================
