----------------------------- MODULE ListProofs -----------------------------
(***************************************************************************)
(* Proofs about the two lists that requests read, rebuild in a loop and    *)
(* put back: the questions of an application (ApplicationData) and a       *)
(* user's searches (JobSearchHistory).  The first needs that               *)
(* mergeJobApplicationQuestions merges lists of any length as IsMergeOf    *)
(* says, the second that rebuilding a list that was cut and cutting it     *)
(* again is cutting what was never cut.                                    *)
(***************************************************************************)
EXTENDS ApplicationData, JobSearchHistory, FiniteSetTheorems, WellFoundedInduction, TLAPS

USE DEF Step

-----------------------------------------------------------------------------
(* Least elements, which induction is made of here.                        *)

\* Among some numbers there is a least one.
LEMMA LeastNumber ==
    ASSUME NEW T, T \subseteq Nat, T # {}
    PROVE  \E x \in T : \A y \in T : x <= y
<1>1. \E x \in T : \A y \in T : <<y, x>> \notin OpToRel(<, Nat)
  BY NatLessThanWellFounded, WFMin
<1>2. \A x, y \in Nat : y < x => <<y, x>> \in OpToRel(<, Nat)
  BY Zenon DEF OpToRel
<1> HIDE DEF OpToRel
<1>3. \E x \in T : \A y \in T : ~(y < x)
  BY <1>1, <1>2, Zenon
<1> QED  BY <1>3

\* Among some subsets of a finite set there is a least one.
LEMMA LeastSubset ==
    ASSUME NEW S, IsFiniteSet(S), NEW T, T \subseteq SUBSET S, T # {}
    PROVE  \E x \in T : \A y \in T : y \subseteq x => y = x
<1>1. IsWellFoundedOn(StrictSubsetOrdering(S), SUBSET S)
  BY FS_StrictSubsetOrderingWellFounded, FS_FiniteSubsetsOfFinite
<1>2. \E x \in T : \A y \in T : <<y, x>> \notin StrictSubsetOrdering(S)
  BY <1>1, WFMin
<1>3. \A x, y \in T :
          y \subseteq x /\ y # x => <<y, x>> \in StrictSubsetOrdering(S)
  BY DEF StrictSubsetOrdering
<1> QED  BY <1>2, <1>3

-----------------------------------------------------------------------------
(* Folds: FoldLeft is a recursive function on the sets of positions.       *)

\* op folds a finite set, one picked element after the other, into A.
Foldable(D, A, base, pick, op) ==
    /\ IsFiniteSet(D)
    /\ base \in A
    /\ \A s \in SUBSET D : s # {} => pick[s] \in s
    /\ op \in [D \X A -> A]

IsFold(fold, D, A, base, pick, op) ==
    /\ fold \in [SUBSET D -> A]
    /\ \A s \in SUBSET D :
           fold[s] = IF s = {} THEN base
                     ELSE op[<<pick[s], fold[s \ {pick[s]}]>>]

\* There is such a function: it is put together from those on the subsets.
LEMMA FoldExists ==
    ASSUME NEW D, NEW A, NEW base, NEW pick, NEW op,
           Foldable(D, A, base, pick, op)
    PROVE  \E fold : IsFold(fold, D, A, base, pick, op)
<1> USE DEF Foldable
<1> DEFINE rest(s)   == s \ {pick[s]}
           Eq(s, f)  == f[s] = IF s = {} THEN base ELSE op[<<pick[s], f[rest(s)]>>]
           Sol(s, f) == f \in [SUBSET s -> A] /\ \A t \in SUBSET s : Eq(t, f)
           F(s)      == CHOOSE f : Sol(s, f)
           value(s)  == F(s)[s]
<1>1. \A s \in SUBSET D : s # {} => /\ pick[s] \in s /\ pick[s] \in D
                                    /\ rest(s) \in SUBSET s
                                    /\ rest(s) # s /\ rest(s) \in SUBSET D
  OBVIOUS
<1> HIDE DEF rest
<1>2. ASSUME NEW s \in SUBSET D, NEW t \in SUBSET D, NEW f, NEW g,
             Sol(s, f), Sol(t, g), NEW u \in SUBSET (s \cap t)
      PROVE  f[u] = g[u]
  <2> DEFINE wrong == {v \in SUBSET (s \cap t) : f[v] # g[v]}
  <2>1. wrong \subseteq SUBSET D
    OBVIOUS
  <2>2. SUFFICES ASSUME wrong # {} PROVE FALSE
    OBVIOUS
  <2> HIDE DEF wrong
  <2>3. PICK v \in wrong : \A w \in wrong : w \subseteq v => w = v
    BY <2>1, <2>2, LeastSubset
  <2>4. v \in SUBSET s /\ v \in SUBSET t /\ v \in SUBSET D /\ f[v] # g[v]
    BY <2>1 DEF wrong
  <2>5. Eq(v, f) /\ Eq(v, g)
    BY <1>2, <2>4
  <2>6. v # {}
    BY <2>4, <2>5
  <2>7. rest(v) \in SUBSET v /\ rest(v) # v
    BY <1>1, <2>4, <2>6
  <2>8. f[rest(v)] = g[rest(v)]
    BY <2>3, <2>4, <2>7 DEF wrong
  <2> QED  BY <2>4, <2>5, <2>6, <2>8
<1>3. ASSUME NEW s \in SUBSET D, Sol(s, F(s)), NEW t \in SUBSET s, Sol(t, F(t))
      PROVE  F(s)[t] = value(t)
  <2>1. t \in SUBSET (s \cap t) /\ t \in SUBSET D
    OBVIOUS
  <2> HIDE DEF F, Sol
  <2> QED  BY <1>2, <1>3, <2>1
<1>4. ASSUME NEW s \in SUBSET D, Sol(s, F(s)),
             s # {} => Sol(rest(s), F(rest(s)))
      PROVE  /\ value(s) \in A
             /\ value(s) = IF s = {} THEN base ELSE op[<<pick[s], value(rest(s))>>]
  <2>1. value(s) \in A /\ Eq(s, F(s))
    <3> HIDE DEF F
    <3> QED  BY <1>4
  <2>2. s # {} => F(s)[rest(s)] = value(rest(s))
    <3> HIDE DEF F, Sol, value
    <3> QED  BY <1>1, <1>3, <1>4
  <2> HIDE DEF F, Sol
  <2> QED  BY <2>1, <2>2
<1>5. \A s \in SUBSET D : Sol(s, F(s))
  <2> DEFINE wrong == {s \in SUBSET D : ~Sol(s, F(s))}
  <2>1. SUFFICES ASSUME wrong # {} PROVE FALSE
    <3> HIDE DEF F, Sol
    <3> QED OBVIOUS
  <2>2. PICK s \in wrong : \A t \in wrong : t \subseteq s => t = s
    <3>1. wrong \subseteq SUBSET D
      OBVIOUS
    <3> HIDE DEF wrong
    <3> QED  BY <2>1, <3>1, LeastSubset
  <2>3. s \in SUBSET D /\ ~Sol(s, F(s))
    <3> HIDE DEF F, Sol
    <3> QED OBVIOUS
  <2>4. \A t \in SUBSET s : t # s => Sol(t, F(t))
    <3> HIDE DEF F, Sol
    <3> QED BY <2>2, <2>3
  <2> HIDE DEF wrong
  <2> DEFINE f == [t \in SUBSET s |->
                      IF t # s THEN value(t)
                      ELSE IF s = {} THEN base
                      ELSE op[<<pick[s], value(rest(s))>>]]
  <2>5. \A t \in SUBSET s : t # s =>
           /\ value(t) \in A
           /\ value(t) = IF t = {} THEN base ELSE op[<<pick[t], value(rest(t))>>]
           /\ t # {} => rest(t) \in SUBSET s /\ rest(t) # s
    <3> HIDE DEF F, Sol, value
    <3>1. \A t \in SUBSET s : t \in SUBSET D
      BY <2>3
    <3>2. \A t \in SUBSET s : t # s /\ t # {} =>
             rest(t) \in SUBSET s /\ rest(t) # s /\ rest(t) \in SUBSET D
      BY <1>1, <3>1
    <3> QED  BY <1>4, <2>4, <3>1, <3>2
  <2> HIDE DEF F, value
  <2>6. s # {} => /\ rest(s) \in SUBSET s /\ rest(s) # s /\ pick[s] \in D
                  /\ value(rest(s)) \in A
    BY <1>1, <2>3, <2>5
  <2>7. f \in [SUBSET s -> A]
    BY <2>5, <2>6
  <2>8. ASSUME NEW t \in SUBSET s PROVE Eq(t, f)
    <3>1. CASE t # s
      BY <2>5, <3>1
    <3>2. CASE t = s
      BY <2>6, <3>2
    <3> QED  BY <3>1, <3>2
  <2>9. Sol(s, f)
    BY <2>7, <2>8
  <2> HIDE DEF Sol, f
  <2>10. Sol(s, F(s))
    BY <2>9 DEF F
  <2> QED  BY <2>3, <2>10
<1> HIDE DEF F, Sol, value
<1>6. \A s \in SUBSET D : /\ value(s) \in A
             /\ value(s) = IF s = {} THEN base ELSE op[<<pick[s], value(rest(s))>>]
  BY <1>1, <1>4, <1>5
<1> DEFINE fold == [s \in SUBSET D |-> value(s)]
<1>7. fold \in [SUBSET D -> A]
  BY <1>6
<1>8. \A s \in SUBSET D :
          fold[s] = IF s = {} THEN base
                    ELSE op[<<pick[s], fold[s \ {pick[s]}]>>]
  BY <1>1, <1>6 DEF rest
<1> QED  BY <1>7, <1>8 DEF IsFold

\* Some positions have a last one.
LEMMA GreatestIndex ==
    ASSUME NEW n \in Nat, NEW s \in SUBSET (1..n), s # {}
    PROVE  Max(s) \in s /\ \A x \in s : x <= Max(s)
<1> DEFINE T == {m \in Nat : \A x \in s : x <= m}
<1>1. n \in T /\ T \subseteq Nat
  OBVIOUS
<1> HIDE DEF T
<1>2. PICK m \in T : \A k \in T : m <= k
  BY <1>1, LeastNumber
<1>3. m \in Nat /\ \A x \in s : x <= m
  BY DEF T
<1>4. m \in s
  <2> SUFFICES ASSUME m \notin s PROVE FALSE
    OBVIOUS
  <2>1. m - 1 \in Nat /\ \A x \in s : x <= m - 1
    <3>1. PICK x \in s : TRUE
      OBVIOUS
    <3>2. x \in 1..n /\ x <= m
      BY <1>3, <3>1
    <3>3. m - 1 \in Nat
      BY <1>3, <3>2
    <3>4. ASSUME NEW y \in s PROVE y <= m - 1
      <4>1. y \in 1..n /\ y <= m /\ y # m
        BY <1>3
      <4> QED  BY <1>3, <4>1
    <3> QED  BY <3>3, <3>4
  <2>2. m - 1 \in T
    BY <2>1 DEF T
  <2> QED  BY <1>2, <1>3, <2>2
<1>5. \A x \in s : m >= x
  BY <1>3
<1> QED  BY <1>4, <1>5 DEF Max

\* Two functions agree on a set of positions whenever they agree on the set
\* without its last ...
AgreeInTurn(n, f, g) ==
    /\ f[{}] = g[{}]
    /\ \A s \in SUBSET (1..n) :
           s # {} /\ f[s \ {Max(s)}] = g[s \ {Max(s)}] => f[s] = g[s]

\* ... so they agree.
LEMMA Agreement ==
    ASSUME NEW n \in Nat, NEW f, NEW g, AgreeInTurn(n, f, g)
    PROVE  \A s \in SUBSET (1..n) : f[s] = g[s]
<1> USE DEF AgreeInTurn
<1> DEFINE D     == 1..n
           wrong == {s \in SUBSET D : f[s] # g[s]}
<1>1. wrong \subseteq SUBSET D /\ IsFiniteSet(D)
  BY FS_Interval
<1>2. \A s \in SUBSET D : s # {} => Max(s) \in s
  BY GreatestIndex
<1>3. SUFFICES ASSUME wrong # {} PROVE FALSE
  OBVIOUS
<1> HIDE DEF wrong, D
<1>4. PICK s \in wrong : \A t \in wrong : t \subseteq s => t = s
  BY <1>1, <1>3, LeastSubset
<1>5. s \in SUBSET D /\ f[s] # g[s] /\ s # {}
  BY DEF wrong
<1>6. s \ {Max(s)} \notin wrong /\ s \ {Max(s)} \in SUBSET D
  BY <1>2, <1>4, <1>5
<1>7. f[s \ {Max(s)}] = g[s \ {Max(s)}]
  BY <1>6 DEF wrong
<1> QED  BY <1>5, <1>7 DEF D

\* The last position first.
LastFirst(n) == [s \in SUBSET (1..n) |-> Max(s)]

\* A fold over positions goes from the first to the last.
LEMMA FoldInOrder ==
    ASSUME NEW n \in Nat, NEW A, NEW base, NEW op, NEW fold,
           IsFold(fold, 1..n, A, base, LastFirst(n), op)
    PROVE  /\ \A i \in 0..n : fold[1..i] \in A
           /\ fold[1..0] = base
           /\ \A i \in 1..n : fold[1..i] = op[<<i, fold[1..(i - 1)]>>]
<1> DEFINE D == 1..n
<1>1. /\ fold \in [SUBSET D -> A]
      /\ \A s \in SUBSET D :
             fold[s] = IF s = {} THEN base
                       ELSE op[<<Max(s), fold[s \ {Max(s)}]>>]
  BY DEF IsFold, LastFirst
<1>2. \A i \in 0..n : 1..i \in SUBSET D
  OBVIOUS
<1>3. 1..0 = {} /\ {} \in SUBSET D
  OBVIOUS
<1>4. ASSUME NEW i \in 1..n
      PROVE  fold[1..i] = op[<<i, fold[1..(i - 1)]>>]
  <2>1. 1..i \in SUBSET D /\ i \in 1..i
    OBVIOUS
  <2>2. Max(1..i) = i
    <3>1. Max(1..i) \in 1..i /\ \A x \in 1..i : x <= Max(1..i)
      BY <2>1, GreatestIndex
    <3> QED  BY <3>1
  <2>3. (1..i) \ {i} = 1..(i - 1)
    <3>1. \A x : x \in (1..i) \ {i} <=> x \in 1..(i - 1)
      OBVIOUS
    <3> QED  BY <3>1
  <2> HIDE DEF D
  <2> QED  BY <1>1, <2>1, <2>2, <2>3
<1> HIDE DEF D
<1> QED  BY <1>1, <1>2, <1>3, <1>4

\* What the handlers call a merge: one entry after the other is put into what
\* came of the entries before it.
LEMMA UpsertsInOrder ==
    ASSUME NEW n \in Nat, NEW list \in [1..n -> Entry],
           \A out \in Seq(Entry), i \in 1..n : Upsert(out, list[i]) \in Seq(Entry)
    PROVE  \E f \in [0..n -> Seq(Entry)] :
              /\ f[0] = <<>>
              /\ \A i \in 1..n : f[i] = Upsert(f[i - 1], list[i])
              /\ f[n] = FoldLeft(Upsert, <<>>, list)
<1> DEFINE D       == 1..n
           lists   == Seq(Entry)
           empty   == <<>>
           Folds(f) == f = [s \in SUBSET D |->
                               IF s = {} THEN empty
                               ELSE Upsert(f[s \ {Max(s)}], list[Max(s)])]
           fold    == CHOOSE f : Folds(f)
           op      == [p \in D \X lists |-> Upsert(p[2], list[p[1]])]
<1>1. FoldLeft(Upsert, empty, list) = fold[D]
  <2>1. DOMAIN list = D
    OBVIOUS
  <2> QED  BY <2>1, Zenon DEF FoldLeft, MapThenFoldSet
<1>2. \A s \in SUBSET D : s # {} => Max(s) \in s
  BY GreatestIndex
<1>3. PICK sol : IsFold(sol, D, lists, empty, LastFirst(n), op)
  <2>1. IsFiniteSet(D) /\ empty \in lists /\ op \in [D \X lists -> lists]
    BY FS_Interval
  <2>2. \A s \in SUBSET D : s # {} => LastFirst(n)[s] \in s
    BY <1>2 DEF LastFirst
  <2> HIDE DEF D, lists, empty, op
  <2>3. Foldable(D, lists, empty, LastFirst(n), op)
    BY <2>1, <2>2 DEF Foldable
  <2> QED  BY <2>3, FoldExists
<1> HIDE DEF lists, empty
<1>4. /\ sol \in [SUBSET D -> lists]
      /\ \A s \in SUBSET D :
             sol[s] = IF s = {} THEN empty
                      ELSE op[<<Max(s), sol[s \ {Max(s)}]>>]
  <2> HIDE DEF op
  <2> QED  BY <1>3 DEF IsFold, LastFirst
<1>5. \A i \in D, out \in lists : op[<<i, out>>] = Upsert(out, list[i])
  <2> HIDE DEF D
  <2> QED  OBVIOUS
<1> HIDE DEF op
<1>6. \A s \in SUBSET D :
          sol[s] = IF s = {} THEN empty
                   ELSE Upsert(sol[s \ {Max(s)}], list[Max(s)])
  <2> SUFFICES ASSUME NEW s \in SUBSET D, s # {}
               PROVE  sol[s] = Upsert(sol[s \ {Max(s)}], list[Max(s)])
    BY <1>4
  <2>1. Max(s) \in D /\ s \ {Max(s)} \in SUBSET D
    BY <1>2
  <2> HIDE DEF D
  <2> QED  BY <1>4, <1>5, <2>1
<1>7. fold[D] = sol[D]
  <2>1. Folds(sol)
    BY <1>4, <1>6
  <2>2. Folds(fold)
    BY <2>1
  <2> HIDE DEF fold
  <2>3. \A s \in SUBSET D : fold[s] = sol[s]
    <3>1. fold[{}] = sol[{}]
      BY <1>6, <2>2
    <3>2. \A s \in SUBSET D :
             s # {} /\ fold[s \ {Max(s)}] = sol[s \ {Max(s)}]
                 => fold[s] = sol[s]
      BY <1>6, <2>2
    <3> HIDE DEF Folds
    <3>3. AgreeInTurn(n, fold, sol)
      BY <3>1, <3>2 DEF AgreeInTurn
    <3> QED  BY <3>3, Agreement
  <2> QED  BY <2>3
<1> HIDE DEF fold, Folds
<1>8. /\ \A i \in 0..n : sol[1..i] \in lists
      /\ sol[1..0] = empty
      /\ \A i \in 1..n : sol[1..i] = op[<<i, sol[1..(i - 1)]>>]
  BY <1>3, FoldInOrder
<1> DEFINE f == [i \in 0..n |-> sol[1..i]]
<1>9. f \in [0..n -> lists] /\ f[0] = empty /\ f[n] = sol[D]
  BY <1>8
<1>10. \A i \in 1..n : f[i] = Upsert(f[i - 1], list[i])
  <2>1. \A i \in 1..n : i - 1 \in 0..n /\ i \in 0..n
    OBVIOUS
  <2> QED  BY <1>5, <1>8, <2>1
<1> HIDE DEF f, D
<1> QED  BY <1>1, <1>7, <1>9, <1>10 DEF lists, empty

\* Entries without an answer are dropped one after the other.
LEMMA KeepsInOrder ==
    ASSUME NEW n \in Nat, NEW list \in [1..n -> Entry],
           \A out \in Seq(Answered), i \in 1..n : KeepAnswered(out, list[i]) \in Seq(Answered)
    PROVE  \E f \in [0..n -> Seq(Answered)] :
              /\ f[0] = <<>>
              /\ \A i \in 1..n : f[i] = KeepAnswered(f[i - 1], list[i])
              /\ f[n] = FoldLeft(KeepAnswered, <<>>, list)
<1> DEFINE D       == 1..n
           lists   == Seq(Answered)
           empty   == <<>>
           Folds(f) == f = [s \in SUBSET D |->
                               IF s = {} THEN empty
                               ELSE KeepAnswered(f[s \ {Max(s)}], list[Max(s)])]
           fold    == CHOOSE f : Folds(f)
           op      == [p \in D \X lists |-> KeepAnswered(p[2], list[p[1]])]
<1>1. FoldLeft(KeepAnswered, empty, list) = fold[D]
  <2>1. DOMAIN list = D
    OBVIOUS
  <2> QED  BY <2>1, Zenon DEF FoldLeft, MapThenFoldSet
<1>2. \A s \in SUBSET D : s # {} => Max(s) \in s
  BY GreatestIndex
<1>3. PICK sol : IsFold(sol, D, lists, empty, LastFirst(n), op)
  <2>1. IsFiniteSet(D) /\ empty \in lists /\ op \in [D \X lists -> lists]
    BY FS_Interval
  <2>2. \A s \in SUBSET D : s # {} => LastFirst(n)[s] \in s
    BY <1>2 DEF LastFirst
  <2> HIDE DEF D, lists, empty, op
  <2>3. Foldable(D, lists, empty, LastFirst(n), op)
    BY <2>1, <2>2 DEF Foldable
  <2> QED  BY <2>3, FoldExists
<1> HIDE DEF lists, empty
<1>4. /\ sol \in [SUBSET D -> lists]
      /\ \A s \in SUBSET D :
             sol[s] = IF s = {} THEN empty
                      ELSE op[<<Max(s), sol[s \ {Max(s)}]>>]
  <2> HIDE DEF op
  <2> QED  BY <1>3 DEF IsFold, LastFirst
<1>5. \A i \in D, out \in lists : op[<<i, out>>] = KeepAnswered(out, list[i])
  <2> HIDE DEF D
  <2> QED  OBVIOUS
<1> HIDE DEF op
<1>6. \A s \in SUBSET D :
          sol[s] = IF s = {} THEN empty
                   ELSE KeepAnswered(sol[s \ {Max(s)}], list[Max(s)])
  <2> SUFFICES ASSUME NEW s \in SUBSET D, s # {}
               PROVE  sol[s] = KeepAnswered(sol[s \ {Max(s)}], list[Max(s)])
    BY <1>4
  <2>1. Max(s) \in D /\ s \ {Max(s)} \in SUBSET D
    BY <1>2
  <2> HIDE DEF D
  <2> QED  BY <1>4, <1>5, <2>1
<1>7. fold[D] = sol[D]
  <2>1. Folds(sol)
    BY <1>4, <1>6
  <2>2. Folds(fold)
    BY <2>1
  <2> HIDE DEF fold
  <2>3. \A s \in SUBSET D : fold[s] = sol[s]
    <3>1. fold[{}] = sol[{}]
      BY <1>6, <2>2
    <3>2. \A s \in SUBSET D :
             s # {} /\ fold[s \ {Max(s)}] = sol[s \ {Max(s)}]
                 => fold[s] = sol[s]
      BY <1>6, <2>2
    <3> HIDE DEF Folds
    <3>3. AgreeInTurn(n, fold, sol)
      BY <3>1, <3>2 DEF AgreeInTurn
    <3> QED  BY <3>3, Agreement
  <2> QED  BY <2>3
<1> HIDE DEF fold, Folds
<1>8. /\ \A i \in 0..n : sol[1..i] \in lists
      /\ sol[1..0] = empty
      /\ \A i \in 1..n : sol[1..i] = op[<<i, sol[1..(i - 1)]>>]
  BY <1>3, FoldInOrder
<1> DEFINE f == [i \in 0..n |-> sol[1..i]]
<1>9. f \in [0..n -> lists] /\ f[0] = empty /\ f[n] = sol[D]
  BY <1>8
<1>10. \A i \in 1..n : f[i] = KeepAnswered(f[i - 1], list[i])
  <2>1. \A i \in 1..n : i - 1 \in 0..n /\ i \in 0..n
    OBVIOUS
  <2> QED  BY <1>5, <1>8, <2>1
<1> HIDE DEF f, D
<1> QED  BY <1>1, <1>7, <1>9, <1>10 DEF lists, empty

-----------------------------------------------------------------------------
(* Where a question stands in a list.                                      *)

\* A question that is in a list has a first and a last position, and only one
\* of each.
LEMMA FirstAndLast ==
    ASSUME NEW list \in Seq(Entry), NEW key, PositionsOf(list, key) # {}
    PROVE  /\ FirstAt(list, key) \in PositionsOf(list, key)
           /\ \A j \in PositionsOf(list, key) : FirstAt(list, key) <= j
           /\ LastAt(list, key) \in PositionsOf(list, key)
           /\ \A j \in PositionsOf(list, key) : LastAt(list, key) >= j
<1> DEFINE places == PositionsOf(list, key)
<1>1. Len(list) \in Nat /\ places \in SUBSET (1..Len(list)) /\ places \subseteq Nat
  BY DEF PositionsOf
<1> HIDE DEF places
<1>2. \E x \in places : \A y \in places : x <= y
  BY <1>1, LeastNumber DEF places
<1>3. \E x \in places : \A y \in places : x >= y
  <2>1. Max(places) \in places /\ \A y \in places : y <= Max(places)
    BY <1>1, GreatestIndex DEF places
  <2>2. \A y \in places : Max(places) >= y
    BY <1>1, <2>1
  <2> QED  BY <2>1, <2>2
<1> QED  BY <1>2, <1>3 DEF FirstAt, LastAt, places

LEMMA FirstIs ==
    ASSUME NEW list \in Seq(Entry), NEW key, NEW i \in PositionsOf(list, key),
           \A j \in PositionsOf(list, key) : i <= j
    PROVE  FirstAt(list, key) = i
<1>1. /\ FirstAt(list, key) \in PositionsOf(list, key)
      /\ \A j \in PositionsOf(list, key) : FirstAt(list, key) <= j
  BY FirstAndLast
<1>2. PositionsOf(list, key) \subseteq Nat
  BY DEF PositionsOf
<1>3. i <= FirstAt(list, key) /\ FirstAt(list, key) <= i
  BY <1>1
<1> QED  BY <1>1, <1>2, <1>3

LEMMA LastIs ==
    ASSUME NEW list \in Seq(Entry), NEW key, NEW i \in PositionsOf(list, key),
           \A j \in PositionsOf(list, key) : i >= j
    PROVE  LastAt(list, key) = i
<1>1. /\ LastAt(list, key) \in PositionsOf(list, key)
      /\ \A j \in PositionsOf(list, key) : LastAt(list, key) >= j
  BY FirstAndLast
<1>2. PositionsOf(list, key) \subseteq Nat
  BY DEF PositionsOf
<1>3. i >= LastAt(list, key) /\ LastAt(list, key) >= i
  BY <1>1
<1> QED  BY <1>1, <1>2, <1>3

\* What an appended entry changes about that.
LEMMA Appended ==
    ASSUME NEW list \in Seq(Entry), NEW e \in Entry, NEW key
    PROVE  /\ PositionsOf(list, key) # {} =>
                  FirstAt(Append(list, e), key) = FirstAt(list, key)
           /\ PositionsOf(list, key) # {} /\ e.question.key # key =>
                  /\ LastAt(Append(list, e), key) = LastAt(list, key)
                  /\ LastAt(list, key) \in 1..Len(list)
           /\ e.question.key = key =>
                  LastAt(Append(list, e), key) = Len(list) + 1
           /\ PositionsOf(list, key) = {} /\ e.question.key = key =>
                  FirstAt(Append(list, e), key) = Len(list) + 1
           /\ PositionsOf(list, key) # {} =>
                  FirstAt(list, key) \in 1..Len(list)
<1> DEFINE longer == Append(list, e)
           before == PositionsOf(list, key)
           after  == PositionsOf(longer, key)
<1>1. /\ longer \in Seq(Entry) /\ Len(longer) = Len(list) + 1
      /\ longer[Len(list) + 1] = e /\ Len(list) \in Nat
      /\ \A i \in 1..Len(list) : longer[i] = list[i]
  OBVIOUS
<1> HIDE DEF longer
<1>2. before \subseteq 1..Len(list) /\ after \subseteq 1..(Len(list) + 1)
  BY <1>1 DEF PositionsOf
<1>3. after = IF e.question.key = key THEN before \cup {Len(list) + 1}
              ELSE before
  <2>1. \A i \in 1..Len(list) : i \in after <=> i \in before
    BY <1>1 DEF PositionsOf
  <2>2. Len(list) + 1 \in after <=> e.question.key = key
    BY <1>1 DEF PositionsOf
  <2>3. /\ \A i \in 1..(Len(list) + 1) : i \in 1..Len(list) \/ i = Len(list) + 1
        /\ Len(list) + 1 \notin 1..Len(list)
    BY <1>1
  <2> HIDE DEF before, after
  <2>4. \A i : i \in after <=>
            i \in before \/ (i = Len(list) + 1 /\ e.question.key = key)
    BY <1>2, <2>1, <2>2, <2>3
  <2>5. CASE e.question.key = key
    BY <2>4, <2>5
  <2>6. CASE e.question.key # key
    BY <2>4, <2>6
  <2> QED  BY <2>5, <2>6
<1>4. before # {} =>
         /\ FirstAt(list, key) \in before
         /\ \A j \in before : FirstAt(list, key) <= j
         /\ LastAt(list, key) \in before
         /\ \A j \in before : LastAt(list, key) >= j
  BY FirstAndLast
<1>5. before # {} => FirstAt(longer, key) = FirstAt(list, key)
  <2> SUFFICES ASSUME before # {}
               PROVE  FirstAt(longer, key) = FirstAt(list, key)
    OBVIOUS
  <2>1. FirstAt(list, key) \in after
    BY <1>3, <1>4
  <2>2. FirstAt(list, key) \in 1..Len(list)
    BY <1>2, <1>4
  <2>3. \A j \in after : FirstAt(list, key) <= j
    <3> HIDE DEF before, after
    <3> QED  BY <1>1, <1>3, <1>4, <2>2
  <2> QED  BY <1>1, <2>1, <2>3, FirstIs
<1>6. before # {} /\ e.question.key # key =>
          LastAt(longer, key) = LastAt(list, key)
  BY <1>1, <1>3, <1>4, LastIs
<1>7. e.question.key = key => LastAt(longer, key) = Len(list) + 1
  <2> SUFFICES ASSUME e.question.key = key
               PROVE  LastAt(longer, key) = Len(list) + 1
    OBVIOUS
  <2>1. Len(list) + 1 \in after /\ \A j \in after : Len(list) + 1 >= j
    <3> HIDE DEF before, after
    <3> QED  BY <1>1, <1>2, <1>3
  <2> QED  BY <1>1, <2>1, LastIs
<1>8. before = {} /\ e.question.key = key =>
          FirstAt(longer, key) = Len(list) + 1
  <2> SUFFICES ASSUME before = {}, e.question.key = key
               PROVE  FirstAt(longer, key) = Len(list) + 1
    OBVIOUS
  <2>1. after = {Len(list) + 1}
    BY <1>3
  <2>2. Len(list) + 1 \in after /\ \A j \in after : Len(list) + 1 <= j
    <3> HIDE DEF before, after
    <3> QED  BY <1>1, <2>1
  <2> QED  BY <1>1, <2>2, FirstIs
<1> HIDE DEF before, after
<1> QED  BY <1>2, <1>4, <1>5, <1>6, <1>7, <1>8 DEF before, longer

-----------------------------------------------------------------------------
(* A merge of a list and one entry more.                                   *)

Trimmed(e) == [e EXCEPT !.question = Trim(@)]

LEMMA TrimKeepsKey ==
    ASSUME NEW e \in Entry
    PROVE  /\ Trimmed(e) \in Entry /\ Trimmed(e).answer = e.answer
           /\ Trimmed(e).question = Trim(e.question)
           /\ Trimmed(e).question.key = e.question.key
<1>1. e.question \in Text
  BY DEF Entry
<1>2. Trim(e.question) \in Text /\ Trim(e.question).key = e.question.key
  BY <1>1 DEF Trim, Text
<1> QED  BY <1>2 DEF Trimmed, Entry

LEMMA KeysArePlaced ==
    ASSUME NEW list, NEW key
    PROVE  key \in Keys(list) <=> PositionsOf(list, key) # {}
<1> QED  BY DEF Keys, PositionsOf

LEMMA KeysAppended ==
    ASSUME NEW list \in Seq(Entry), NEW e \in Entry
    PROVE  Keys(Append(list, e)) = Keys(list) \cup {e.question.key}
<1>1. Len(list) \in Nat
  OBVIOUS
<1>2. \A k : k \in Keys(Append(list, e)) <=>
               k \in Keys(list) \/ k = e.question.key
  <2> SUFFICES ASSUME NEW k
               PROVE  k \in Keys(Append(list, e)) <=>
                          k \in Keys(list) \/ k = e.question.key
    OBVIOUS
  <2>1. \A i \in 1..(Len(list) + 1) : i \in 1..Len(list) \/ i = Len(list) + 1
    BY <1>1
  <2>2. /\ \A i \in 1..Len(list) : i \in 1..(Len(list) + 1)
        /\ Len(list) + 1 \in 1..(Len(list) + 1)
    BY <1>1
  <2>3. /\ DOMAIN Append(list, e) = 1..(Len(list) + 1)
        /\ \A i \in 1..Len(list) : Append(list, e)[i] = list[i]
        /\ Append(list, e)[Len(list) + 1] = e
    OBVIOUS
  <2> QED  BY <2>1, <2>2, <2>3 DEF Keys
<1> QED  BY <1>2

LEMMA UpsertType ==
    ASSUME NEW out \in Seq(Entry), NEW e \in Entry
    PROVE  Upsert(out, e) \in Seq(Entry)
<1>1. Trimmed(e) \in Entry
  BY TrimKeepsKey
<1>2. CASE e.question.key = Blank
  BY <1>2 DEF Upsert
<1>3. CASE e.question.key # Blank /\ PositionsOf(out, e.question.key) = {}
  BY <1>1, <1>3 DEF Upsert, Trimmed
<1>4. CASE e.question.key # Blank /\ PositionsOf(out, e.question.key) # {}
  <2>1. Upsert(out, e) = [i \in DOMAIN out |->
                             IF i \in PositionsOf(out, e.question.key)
                             THEN Trimmed(e) ELSE out[i]]
    BY <1>4 DEF Upsert, Trimmed
  <2> QED  BY <1>1, <2>1
<1> QED  BY <1>2, <1>3, <1>4

\* The entries of a merge are about questions of what was merged.
LEMMA MergedIsPlaced ==
    ASSUME NEW list \in Seq(Entry), NEW out, IsMergeOf(out, list),
           NEW i \in DOMAIN out
    PROVE  /\ PositionsOf(list, out[i].question.key) # {}
           /\ out[i].question.key # Blank
<1>1. out[i].question.key \in Keys(out)
  BY DEF Keys
<1> QED  BY <1>1, KeysArePlaced DEF IsMergeOf

\* A blank question changes nothing.
LEMMA BlankUpsert ==
    ASSUME NEW list \in Seq(Entry), NEW out \in Seq(Entry), NEW e \in Entry,
           IsMergeOf(out, list), e.question.key = Blank
    PROVE  IsMergeOf(Upsert(out, e), Append(list, e))
<1>1. Upsert(out, e) = out
  BY DEF Upsert
<1>2. Keys(out) = Keys(Append(list, e)) \ {Blank}
  BY KeysAppended DEF IsMergeOf
<1>3. \A i \in DOMAIN out :
          /\ LastAt(Append(list, e), out[i].question.key)
                 = LastAt(list, out[i].question.key)
          /\ LastAt(list, out[i].question.key) \in 1..Len(list)
          /\ FirstAt(Append(list, e), out[i].question.key)
                 = FirstAt(list, out[i].question.key)
  BY MergedIsPlaced, Appended
<1>4. \A i \in 1..Len(list) : Append(list, e)[i] = list[i]
  OBVIOUS
<1> QED  BY <1>1, <1>2, <1>3, <1>4 DEF IsMergeOf

\* A new question comes after all others.
LEMMA NewUpsert ==
    ASSUME NEW list \in Seq(Entry), NEW out \in Seq(Entry), NEW e \in Entry,
           IsMergeOf(out, list), e.question.key # Blank,
           PositionsOf(out, e.question.key) = {}
    PROVE  IsMergeOf(Upsert(out, e), Append(list, e))
<1> DEFINE key == e.question.key
           n   == Len(out)
           new == Append(out, Trimmed(e))
           longer == Append(list, e)
<1>1. Upsert(out, e) = new
  BY DEF Upsert, Trimmed
<1>2. Trimmed(e) \in Entry /\ Trimmed(e).answer = e.answer
      /\ Trimmed(e).question = Trim(e.question)
      /\ Trimmed(e).question.key = key
  BY TrimKeepsKey
<1>3. key \notin Keys(list) /\ PositionsOf(list, key) = {}
  BY KeysArePlaced DEF IsMergeOf
<1>4. Keys(new) = Keys(longer) \ {Blank}
  BY <1>2, KeysAppended DEF IsMergeOf
<1>5. /\ n \in Nat /\ DOMAIN new = 1..(n + 1) /\ new[n + 1] = Trimmed(e)
      /\ \A i \in 1..n : new[i] = out[i] /\ i \in DOMAIN out
      /\ \A i \in 1..(n + 1) : i \in 1..n \/ i = n + 1
  BY <1>2
<1>6. /\ longer[Len(list) + 1] = e /\ Len(list) \in Nat
      /\ \A i \in 1..Len(list) : longer[i] = list[i]
  OBVIOUS
<1>7. ASSUME NEW i \in 1..n
      PROVE  LET k == new[i].question.key IN
             /\ LastAt(longer, k) = LastAt(list, k)
             /\ LastAt(list, k) \in 1..Len(list)
             /\ FirstAt(longer, k) = FirstAt(list, k)
             /\ FirstAt(list, k) \in 1..Len(list)
  <2>1. new[i] = out[i] /\ i \in DOMAIN out
    BY <1>5
  <2>2. PositionsOf(list, out[i].question.key) # {}
    BY <2>1, MergedIsPlaced
  <2>3. out[i].question.key # key
    BY <1>3, <2>2
  <2> HIDE DEF new
  <2> QED  BY <2>1, <2>2, <2>3, Appended
<1>8. /\ LastAt(longer, key) = Len(list) + 1
      /\ FirstAt(longer, key) = Len(list) + 1
  BY <1>3, Appended
<1> HIDE DEF new, longer, n
<1>9. ASSUME NEW i \in DOMAIN new
      PROVE  LET last == longer[LastAt(longer, new[i].question.key)] IN
             /\ new[i].answer = last.answer
             /\ new[i].question = Trim(last.question)
  <2>1. CASE i \in 1..n
    <3>1. new[i] = out[i] /\ i \in DOMAIN out
      BY <1>5, <2>1
    <3>2. LET last == list[LastAt(list, out[i].question.key)] IN
          /\ out[i].answer = last.answer
          /\ out[i].question = Trim(last.question)
      BY <3>1 DEF IsMergeOf
    <3> QED  BY <1>6, <1>7, <2>1, <3>1, <3>2
  <2>2. CASE i = n + 1
    BY <1>2, <1>5, <1>6, <1>8, <2>2
  <2> QED  BY <1>5, <2>1, <2>2
<1>10. ASSUME NEW i \in DOMAIN new, NEW j \in DOMAIN new, i < j
       PROVE  FirstAt(longer, new[i].question.key)
                  < FirstAt(longer, new[j].question.key)
  <2>1. i \in 1..n
    BY <1>5, <1>10
  <2>2. CASE j \in 1..n
    <3>1. FirstAt(list, out[i].question.key) < FirstAt(list, out[j].question.key)
      BY <1>5, <1>10, <2>1, <2>2 DEF IsMergeOf
    <3> QED  BY <1>5, <1>7, <2>1, <2>2, <3>1
  <2>3. CASE j = n + 1
    <3>1. FirstAt(longer, new[i].question.key) \in 1..Len(list)
      BY <1>7, <2>1
    <3>2. FirstAt(longer, new[j].question.key) = Len(list) + 1
      BY <1>2, <1>5, <1>8, <2>3
    <3> QED  BY <1>6, <3>1, <3>2
  <2> QED  BY <1>5, <2>2, <2>3
<1>11. IsMergeOf(new, longer)
  BY <1>4, <1>9, <1>10 DEF IsMergeOf
<1> QED  BY <1>1, <1>11 DEF longer

\* A known question keeps its place.
LEMMA KnownUpsert ==
    ASSUME NEW list \in Seq(Entry), NEW out \in Seq(Entry), NEW e \in Entry,
           IsMergeOf(out, list), e.question.key # Blank,
           PositionsOf(out, e.question.key) # {}
    PROVE  IsMergeOf(Upsert(out, e), Append(list, e))
<1> DEFINE key == e.question.key
           same == PositionsOf(out, key)
           new == [i \in DOMAIN out |-> IF i \in same THEN Trimmed(e) ELSE out[i]]
           longer == Append(list, e)
<1>1. Upsert(out, e) = new
  BY DEF Upsert, Trimmed
<1>2. Trimmed(e).answer = e.answer /\ Trimmed(e).question = Trim(e.question)
      /\ Trimmed(e).question.key = key
  BY TrimKeepsKey
<1>3. \A i \in DOMAIN out : i \in same <=> out[i].question.key = key
  BY DEF PositionsOf
<1>4. DOMAIN new = DOMAIN out /\ \A i \in DOMAIN out :
          /\ i \in same => new[i] = Trimmed(e)
          /\ i \notin same => new[i] = out[i]
          /\ new[i].question.key = out[i].question.key
  <2> HIDE DEF same
  <2> QED  BY <1>2, <1>3
<1>5. /\ longer[Len(list) + 1] = e
      /\ \A i \in 1..Len(list) : longer[i] = list[i]
  OBVIOUS
<1>6. Keys(new) = Keys(longer) \ {Blank}
  <2>1. Keys(new) = Keys(out)
    <3> HIDE DEF new
    <3> QED  BY <1>4 DEF Keys
  <2>2. key \in Keys(out)
    BY KeysArePlaced
  <2> QED  BY <2>1, <2>2, KeysAppended DEF IsMergeOf
<1>7. \A i \in DOMAIN out :
          FirstAt(longer, out[i].question.key)
              = FirstAt(list, out[i].question.key)
  BY MergedIsPlaced, Appended
<1>8. \A i \in DOMAIN out : out[i].question.key # key =>
          /\ LastAt(longer, out[i].question.key)
                 = LastAt(list, out[i].question.key)
          /\ LastAt(list, out[i].question.key) \in 1..Len(list)
  BY MergedIsPlaced, Appended
<1>9. LastAt(longer, key) = Len(list) + 1
  BY Appended
<1> HIDE DEF new, longer, same
<1>10. ASSUME NEW i \in DOMAIN new
       PROVE  LET last == longer[LastAt(longer, new[i].question.key)] IN
              /\ new[i].answer = last.answer
              /\ new[i].question = Trim(last.question)
  <2>1. CASE i \in same
    BY <1>2, <1>4, <1>5, <1>9, <2>1
  <2>2. CASE i \notin same
    <3>1. new[i] = out[i] /\ i \in DOMAIN out /\ out[i].question.key # key
      BY <1>3, <1>4, <2>2
    <3>2. LET last == list[LastAt(list, out[i].question.key)] IN
          /\ out[i].answer = last.answer
          /\ out[i].question = Trim(last.question)
      BY <3>1 DEF IsMergeOf
    <3> QED  BY <1>5, <1>8, <3>1, <3>2
  <2> QED  BY <2>1, <2>2
<1>11. \A i, j \in DOMAIN new : i < j =>
           FirstAt(longer, new[i].question.key)
               < FirstAt(longer, new[j].question.key)
  BY <1>4, <1>7 DEF IsMergeOf
<1>12. IsMergeOf(new, longer)
  BY <1>6, <1>10, <1>11 DEF IsMergeOf
<1> QED  BY <1>1, <1>12 DEF longer

LEMMA UpsertMerges ==
    ASSUME NEW list \in Seq(Entry), NEW out \in Seq(Entry), NEW e \in Entry,
           IsMergeOf(out, list)
    PROVE  IsMergeOf(Upsert(out, e), Append(list, e))
<1> QED  BY BlankUpsert, NewUpsert, KnownUpsert

\* mergeJobApplicationQuestions merges, whatever it is given: every question
\* once, where it first came, trimmed and with the answer that came last, and
\* none that is blank.
THEOREM FoldMerges ==
    ASSUME NEW list \in Seq(Entry)
    PROVE  /\ FoldLeft(Upsert, <<>>, list) \in Seq(Entry)
           /\ IsMergeOf(FoldLeft(Upsert, <<>>, list), list)
<1> DEFINE n == Len(list)
           prefix(k) == SubSeq(list, 1, k)
<1>1. n \in Nat /\ list \in [1..n -> Entry]
  OBVIOUS
<1>2. PICK f \in [0..n -> Seq(Entry)] :
          /\ f[0] = <<>>
          /\ \A i \in 1..n : f[i] = Upsert(f[i - 1], list[i])
          /\ f[n] = FoldLeft(Upsert, <<>>, list)
  <2>1. \A out \in Seq(Entry), i \in 1..n : Upsert(out, list[i]) \in Seq(Entry)
    BY UpsertType
  <2> HIDE DEF n
  <2> QED  BY <1>1, <2>1, UpsertsInOrder
<1>3. \A k \in 0..n : prefix(k) \in Seq(Entry)
  OBVIOUS
<1>4. \A k \in 1..n : prefix(k) = Append(prefix(k - 1), list[k])
  OBVIOUS
<1>5. IsMergeOf(<<>>, prefix(0))
  <2>1. prefix(0) = <<>>
    OBVIOUS
  <2>2. Keys(<<>>) = {}
    BY DEF Keys
  <2> QED  BY <2>1, <2>2 DEF IsMergeOf
<1>6. prefix(n) = list
  OBVIOUS
<1> HIDE DEF n, prefix
<1>7. \A k \in 0..n : IsMergeOf(f[k], prefix(k))
  <2> DEFINE wrong == {k \in 0..n : ~IsMergeOf(f[k], prefix(k))}
  <2>1. wrong \subseteq Nat
    OBVIOUS
  <2>2. SUFFICES ASSUME wrong # {} PROVE FALSE
    OBVIOUS
  <2> HIDE DEF wrong
  <2>3. PICK k \in wrong : \A j \in wrong : k <= j
    BY <2>1, <2>2, LeastNumber
  <2>4. k \in 1..n /\ ~IsMergeOf(f[k], prefix(k))
    BY <1>1, <1>2, <1>5 DEF wrong
  <2>5. k - 1 \in 0..n /\ ~(k <= k - 1) /\ list[k] \in Entry
    BY <1>1, <2>4
  <2>6. IsMergeOf(f[k - 1], prefix(k - 1))
    BY <2>3, <2>5 DEF wrong
  <2>7. IsMergeOf(Upsert(f[k - 1], list[k]), Append(prefix(k - 1), list[k]))
    BY <1>2, <1>3, <2>5, <2>6, UpsertMerges
  <2> QED  BY <1>2, <1>4, <2>4, <2>7
<1> QED  BY <1>1, <1>2, <1>6, <1>7

-----------------------------------------------------------------------------
(* The handlers.                                                           *)

\* What a handler writes is a merge, and so nothing in it is blank.
LEMMA MergeMerges ==
    ASSUME NEW existing \in Seq(Entry) \cup {None}, NEW new \in Seq(Entry)
    PROVE  LET all == IF existing = None THEN new ELSE existing \o new IN
           /\ all \in Seq(Entry)
           /\ Merge(existing, new) \in Seq(Entry)
           /\ IsMergeOf(Merge(existing, new), all)
           /\ Merge(existing, new) # None
           /\ Blank \notin Keys(Merge(existing, new))
<1> DEFINE all == IF existing = None THEN new ELSE existing \o new
<1>1. all \in Seq(Entry)
  OBVIOUS
<1>2. Merge(existing, new) = FoldLeft(Upsert, <<>>, all)
  BY DEF Merge
<1> HIDE DEF all
<1>3. /\ Merge(existing, new) \in Seq(Entry)
      /\ IsMergeOf(Merge(existing, new), all)
  BY <1>1, <1>2, FoldMerges
<1>4. Merge(existing, new) # None
  BY <1>3, ConstantsAssumption
<1>5. Blank \notin Keys(Merge(existing, new))
  BY <1>3 DEF IsMergeOf
<1> QED  BY <1>1, <1>3, <1>4, <1>5 DEF all

\* What is left without the blank answers are answers.
LEMMA DropBlankAnswersType ==
    ASSUME NEW list \in Lists
    PROVE  DropBlankAnswers(list) \in Seq(Answered)
<1>1. PICK n \in Nat : list \in [1..n -> Entry]
  <2>1. PICK n \in 0..MaxLength : list \in [1..n -> Input]
    BY DEF Lists
  <2> QED  BY <2>1, ConstantsAssumption
<1>2. ASSUME NEW out \in Seq(Answered), NEW i \in 1..n
      PROVE  KeepAnswered(out, list[i]) \in Seq(Answered)
  <2>1. list[i] \in Entry
    BY <1>1
  <2>2. CASE list[i].answer = NoAnswer
    BY <2>2 DEF KeepAnswered
  <2>3. CASE list[i].answer # NoAnswer
    <3>1. list[i] \in Answered
      BY <2>1, <2>3 DEF Entry, Answered
    <3> QED  BY <2>3, <3>1 DEF KeepAnswered
  <2> QED  BY <2>2, <2>3
<1>3. PICK f \in [0..n -> Seq(Answered)] :
          f[n] = FoldLeft(KeepAnswered, <<>>, list)
  BY <1>1, <1>2, KeepsInOrder
<1> QED  BY <1>3 DEF DropBlankAnswers

LEMMA AnsweredAreEntries == Seq(Answered) \subseteq Seq(Entry)
<1>1. Answered \subseteq Entry
  BY DEF Answered, Entry
<1> QED  BY <1>1

\* With the types right a handler about to write merges as it should.
LEMMA TypedMerges == TypeOK => MergesReadAndIncoming
<1> SUFFICES ASSUME TypeOK, NEW r \in Request
             PROVE  IsMergeOf(Merge(seen[r], incoming[r]),
                              IF seen[r] = None THEN incoming[r]
                              ELSE seen[r] \o incoming[r])
  BY DEF MergesReadAndIncoming
<1>1. seen[r] \in Seq(Entry) \cup {None} /\ incoming[r] \in Seq(Entry)
  BY DEF TypeOK
<1> QED  BY <1>1, MergeMerges

LEMMA InitIndInv == Init => IndInv
<1> SUFFICES ASSUME Init PROVE IndInv
  OBVIOUS
<1>1. TypeOK
  BY ConstantsAssumption DEF Init, TypeOK, Request
<1>2. StoredIsMerged
  BY DEF Init, StoredIsMerged
<1> QED  BY <1>1, <1>2, TypedMerges DEF IndInv

\* A request reads what is stored, gets its answers, or looks for the row.
LEMMA ReadKeeps ==
    ASSUME IndInv, NEW r \in Request,
           SyncRead(r) \/ AutofillRead(r) \/ AutofillReturns(r) \/ Find(r)
    PROVE  TypeOK' /\ stored' = stored
<1> USE DEF IndInv
<1>1. CASE SyncRead(r)
  <2>1. PICK list \in Lists :
            /\ pc' = [pc EXCEPT ![r] = "find"]
            /\ seen' = [seen EXCEPT ![r] = stored]
            /\ incoming' = [incoming EXCEPT ![r] = list]
            /\ UNCHANGED <<stored, found, failures>>
    BY <1>1 DEF SyncRead
  <2>2. list \in Seq(Entry)
    BY ConstantsAssumption DEF Lists
  <2>3. \A q \in Autofill : incoming'[q] = incoming[q]
    BY <1>1, <2>1, ConstantsAssumption DEF SyncRead, TypeOK, Request
  <2> QED  BY <2>1, <2>2, <2>3 DEF TypeOK
<1>2. CASE AutofillRead(r)
  BY <1>2 DEF AutofillRead, TypeOK
<1>3. CASE AutofillReturns(r)
  <2>1. PICK answered \in Seq(Answered), next \in {"done", "find"} :
            /\ pc' = [pc EXCEPT ![r] = next]
            /\ incoming' = [incoming EXCEPT ![r] = answered]
            /\ UNCHANGED <<stored, seen, found, failures>>
    BY <1>3, DropBlankAnswersType DEF AutofillReturns
  <2> QED  BY <2>1, AnsweredAreEntries DEF TypeOK
<1>4. CASE Find(r)
  BY <1>4 DEF Find, TypeOK
<1> QED  BY <1>1, <1>2, <1>3, <1>4

\* A request writes the merge, or it ends without.
LEMMA WriteKeeps ==
    ASSUME IndInv, NEW r \in Request, Write(r) \/ Fails(r)
    PROVE  TypeOK' /\ StoredIsMerged'
<1> USE DEF IndInv
<1>1. /\ pc' = [pc EXCEPT ![r] = "done"]
      /\ UNCHANGED <<seen, incoming, found>>
      /\ stored' \in {stored, Merge(seen[r], incoming[r])}
  BY DEF Write, Fails
<1>2. failures' \in 0..MaxFailures
  BY ConstantsAssumption DEF Write, Fails, TypeOK
<1>3. /\ Merge(seen[r], incoming[r]) \in Seq(Entry)
      /\ Blank \notin Keys(Merge(seen[r], incoming[r]))
  <2>1. seen[r] \in Seq(Entry) \cup {None} /\ incoming[r] \in Seq(Entry)
    BY DEF TypeOK
  <2> QED  BY <2>1, MergeMerges
<1>4. TypeOK'
  BY <1>1, <1>2, <1>3 DEF TypeOK
<1>5. StoredIsMerged'
  BY <1>1, <1>3 DEF StoredIsMerged
<1> QED  BY <1>4, <1>5

LEMMA StepIndInv == IndInv /\ [Next]_vars => IndInv'
<1> SUFFICES ASSUME IndInv, [Next]_vars PROVE TypeOK' /\ StoredIsMerged'
  <2>1. TypeOK' => MergesReadAndIncoming'
    BY TypedMerges, PTL
  <2> QED  BY <2>1 DEF IndInv
<1>1. CASE Next
  <2>1. PICK r \in Request :
            \/ SyncRead(r) \/ AutofillRead(r) \/ AutofillReturns(r)
            \/ Find(r) \/ Write(r) \/ Fails(r)
    BY <1>1 DEF Next
  <2>2. CASE SyncRead(r) \/ AutofillRead(r) \/ AutofillReturns(r) \/ Find(r)
    BY <2>2, ReadKeeps DEF IndInv, StoredIsMerged
  <2>3. CASE Write(r) \/ Fails(r)
    BY <2>3, WriteKeeps
  <2> QED  BY <2>1, <2>2, <2>3
<1>2. CASE UNCHANGED vars
  BY <1>2 DEF vars, IndInv, TypeOK, StoredIsMerged
<1> QED  BY <1>1, <1>2

\* The inductive invariant holds in every state, whatever requests bring and
\* however they overlap and fail (AutofillApplication, SyncApplicationData).
THEOREM Invariance == Spec => []IndInv
<1>1. Init => IndInv
  BY InitIndInv
<1>2. IndInv /\ [Next]_vars => IndInv'
  BY StepIndInv
<1> QED  BY <1>1, <1>2, PTL DEF Spec

\* Lists are lists of entries, and an autofill never brings a blank answer.
THEOREM TypeCorrect == Spec => []TypeOK
<1>1. IndInv => TypeOK
  BY DEF IndInv
<1> QED  BY <1>1, Invariance, PTL

\* Whatever a handler is about to write is the merge of what it read and what
\* it brings (mergeJobApplicationQuestions).
THEOREM WritesAreMerges == Spec => []MergesReadAndIncoming
<1>1. IndInv => MergesReadAndIncoming
  BY DEF IndInv
<1> QED  BY <1>1, Invariance, PTL

-----------------------------------------------------------------------------
(* What a write without an overlap keeps.                                  *)

\* A merge answers a question as the entry that came last.
LEMMA MergeAnswers ==
    ASSUME NEW list \in Seq(Entry), NEW out \in Seq(Entry), IsMergeOf(out, list),
           NEW k \in Keys(list), k # Blank
    PROVE  k \in Keys(out) /\ AnswerTo(out, k) = AnswerTo(list, k)
<1>1. k \in Keys(out)
  BY DEF IsMergeOf
<1>2. LastAt(out, k) \in PositionsOf(out, k)
  BY <1>1, KeysArePlaced, FirstAndLast
<1>3. LastAt(out, k) \in DOMAIN out /\ out[LastAt(out, k)].question.key = k
  BY <1>2 DEF PositionsOf
<1>4. out[LastAt(out, k)].answer = list[LastAt(list, k)].answer
  BY <1>3 DEF IsMergeOf
<1> QED  BY <1>1, <1>4 DEF AnswerTo

\* In a list that was added to, the last answer is an old one or an added one.
LEMMA LastOfBoth ==
    ASSUME NEW old \in Seq(Entry), NEW new \in Seq(Entry), NEW k \in Keys(old)
    PROVE  /\ k \in Keys(old \o new)
           /\ \/ AnswerTo(old \o new, k) = AnswerTo(old, k)
              \/ \E i \in DOMAIN new : AnswerTo(old \o new, k) = new[i].answer
<1> DEFINE both == old \o new
           last == LastAt(both, k)
<1>1. /\ Len(old) \in Nat /\ Len(new) \in Nat
      /\ both \in Seq(Entry) /\ Len(both) = Len(old) + Len(new)
      /\ \A i \in 1..Len(old) : both[i] = old[i]
      /\ \A i \in 1..Len(new) : both[Len(old) + i] = new[i]
  OBVIOUS
<1> HIDE DEF both
<1>2. PositionsOf(old, k) \subseteq PositionsOf(both, k)
  BY <1>1 DEF PositionsOf
<1>3. /\ k \in Keys(both)
      /\ last \in PositionsOf(both, k)
      /\ \A j \in PositionsOf(both, k) : last >= j
  BY <1>1, <1>2, KeysArePlaced, FirstAndLast
<1> HIDE DEF last
<1>4. last \in 1..(Len(old) + Len(new)) /\ both[last].question.key = k
  BY <1>1, <1>3 DEF PositionsOf
<1>5. CASE last <= Len(old)
  <2>1. last \in PositionsOf(old, k)
    BY <1>1, <1>4, <1>5 DEF PositionsOf
  <2>2. LastAt(old, k) = last
    BY <1>2, <1>3, <2>1, LastIs
  <2> QED  BY <1>1, <1>3, <1>4, <1>5, <2>2 DEF AnswerTo, last, both
<1>6. CASE last > Len(old)
  <2>1. PICK i \in 1..Len(new) : Len(old) + i = last
    <3>1. last - Len(old) \in 1..Len(new) /\ Len(old) + (last - Len(old)) = last
      BY <1>1, <1>4, <1>6
    <3> QED  BY <3>1
  <2>2. both[last] = new[i] /\ i \in DOMAIN new
    BY <1>1, <2>1
  <2> QED  BY <1>3, <2>2 DEF AnswerTo, last, both
<1> QED  BY <1>1, <1>4, <1>5, <1>6

LEMMA WriteStep == IndInv /\ [Next]_vars => WriteLosesNothing
<1> SUFFICES ASSUME IndInv, [Next]_vars, NEW r \in Request, Writes(r),
                    seen[r] = stored, stored # None, NEW k \in Keys(stored)
             PROVE  /\ k \in Keys(stored')
                    /\ r \in Autofill /\ AnswerTo(stored, k) # NoAnswer =>
                           AnswerTo(stored', k) # NoAnswer
  BY DEF WriteLosesNothing
<1> DEFINE all == stored \o incoming[r]
<1>1. /\ stored \in Seq(Entry) /\ incoming[r] \in Seq(Entry)
      /\ r \in Autofill => incoming[r] \in Seq(Answered)
      /\ k # Blank
  BY DEF IndInv, TypeOK, StoredIsMerged
<1>2. stored' = Merge(seen[r], incoming[r])
  <2>1. PICK q \in Request :
            \/ SyncRead(q) \/ AutofillRead(q) \/ AutofillReturns(q)
            \/ Find(q) \/ Write(q) \/ Fails(q)
    BY DEF Next, vars, Writes
  <2>2. q = r /\ (Write(q) \/ Fails(q))
    <3>1. ~(SyncRead(q) \/ AutofillRead(q) \/ AutofillReturns(q) \/ Find(q))
      BY DEF SyncRead, AutofillRead, AutofillReturns, Find, Writes
    <3>2. pc' = [pc EXCEPT ![q] = "done"]
      BY <2>1, <3>1 DEF Write, Fails
    <3> QED  BY <2>1, <3>1, <3>2 DEF Writes, IndInv, TypeOK
  <2> QED  BY <2>2 DEF Write, Fails, Writes
<1>3. stored' \in Seq(Entry) /\ IsMergeOf(stored', all) /\ all \in Seq(Entry)
  BY <1>1, <1>2, MergeMerges
<1>4. /\ k \in Keys(all)
      /\ \/ AnswerTo(all, k) = AnswerTo(stored, k)
         \/ \E i \in DOMAIN incoming[r] : AnswerTo(all, k) = incoming[r][i].answer
  BY <1>1, LastOfBoth
<1>5. k \in Keys(stored') /\ AnswerTo(stored', k) = AnswerTo(all, k)
  BY <1>1, <1>3, <1>4, MergeAnswers
<1>6. ASSUME r \in Autofill, AnswerTo(stored, k) # NoAnswer
      PROVE  AnswerTo(all, k) # NoAnswer
  <2>1. \A i \in DOMAIN incoming[r] : incoming[r][i].answer # NoAnswer
    <3> SUFFICES ASSUME NEW i \in DOMAIN incoming[r]
                 PROVE  incoming[r][i].answer # NoAnswer
      OBVIOUS
    <3>1. incoming[r][i] \in Answered
      BY <1>1, <1>6
    <3> QED  BY <3>1, ConstantsAssumption DEF Answered
  <2> QED  BY <1>4, <1>6, <2>1
<1> QED  BY <1>5, <1>6

\* A write whose request read what is still stored removes no question, and an
\* autofill replaces no answer by a blank one (AutofillApplication,
\* SyncApplicationData).
THEOREM NothingIsLost == Spec => OnlyOverlapsLose
<1>1. IndInv /\ [Next]_vars => WriteLosesNothing
  BY WriteStep
<1> QED  BY <1>1, Invariance, PTL DEF Spec, OnlyOverlapsLose
-----------------------------------------------------------------------------
(* JobSearchHistory: the loop that drops older entries of a query.         *)

Drops(x, q) == x \notin Foreign /\ x.query = q

DropOrAppend(kept, x, q) == IF Drops(x, q) THEN kept ELSE Append(kept, x)

\* The elements of a list are dropped or appended one after the other.
LEMMA KeptInOrder ==
    ASSUME NEW l \in Seq(Element), NEW q
    PROVE  \E f \in [0..Len(l) -> Seq(Element)] :
              /\ f[0] = <<>>
              /\ \A i \in 1..Len(l) : f[i] = DropOrAppend(f[i - 1], l[i], q)
              /\ f[Len(l)] = Kept(l, q)
<1> DEFINE n       == Len(l)
           D       == 1..n
           lists   == Seq(Element)
           empty   == <<>>
           Folds(f) == f = [s \in SUBSET D |->
                               IF s = {} THEN empty
                               ELSE DropOrAppend(f[s \ {Max(s)}], l[Max(s)], q)]
           fold    == CHOOSE f : Folds(f)
           op      == [p \in D \X lists |-> DropOrAppend(p[2], l[p[1]], q)]
<1>0. n \in Nat /\ l \in [D -> Element]
  OBVIOUS
<1>1. Kept(l, q) = fold[D]
  <2>1. DOMAIN l = D
    OBVIOUS
  <2> QED  BY <2>1, Zenon DEF Kept, FoldLeft, MapThenFoldSet, DropOrAppend, Drops
<1> HIDE DEF n
<1>2. \A s \in SUBSET D : s # {} => Max(s) \in s
  BY <1>0, GreatestIndex
<1>3. PICK sol : IsFold(sol, D, lists, empty, LastFirst(n), op)
  <2>0. \A out \in lists, i \in D : DropOrAppend(out, l[i], q) \in lists
    <3>1. \A out \in lists, x \in Element : Append(out, x) \in lists
      OBVIOUS
    <3> QED  BY <1>0, <3>1 DEF DropOrAppend
  <2>1. IsFiniteSet(D) /\ empty \in lists /\ op \in [D \X lists -> lists]
    BY <1>0, <2>0, FS_Interval
  <2>2. \A s \in SUBSET D : s # {} => LastFirst(n)[s] \in s
    BY <1>2 DEF LastFirst
  <2> HIDE DEF D, lists, empty, op
  <2>3. Foldable(D, lists, empty, LastFirst(n), op)
    BY <2>1, <2>2 DEF Foldable
  <2> QED  BY <2>3, FoldExists
<1> HIDE DEF lists, empty
<1>4. /\ sol \in [SUBSET D -> lists]
      /\ \A s \in SUBSET D :
             sol[s] = IF s = {} THEN empty
                      ELSE op[<<Max(s), sol[s \ {Max(s)}]>>]
  <2> HIDE DEF op
  <2> QED  BY <1>3 DEF IsFold, LastFirst
<1>5. \A i \in D, out \in lists : op[<<i, out>>] = DropOrAppend(out, l[i], q)
  <2> HIDE DEF D
  <2> QED  OBVIOUS
<1> HIDE DEF op
<1>6. \A s \in SUBSET D :
          sol[s] = IF s = {} THEN empty
                   ELSE DropOrAppend(sol[s \ {Max(s)}], l[Max(s)], q)
  <2> SUFFICES ASSUME NEW s \in SUBSET D, s # {}
               PROVE  sol[s] = DropOrAppend(sol[s \ {Max(s)}], l[Max(s)], q)
    BY <1>4
  <2>1. Max(s) \in D /\ s \ {Max(s)} \in SUBSET D
    BY <1>2
  <2> HIDE DEF D
  <2> QED  BY <1>4, <1>5, <2>1
<1>7. fold[D] = sol[D]
  <2>1. Folds(sol)
    BY <1>4, <1>6
  <2>2. Folds(fold)
    BY <2>1
  <2> HIDE DEF fold
  <2>3. \A s \in SUBSET D : fold[s] = sol[s]
    <3>1. fold[{}] = sol[{}]
      BY <1>6, <2>2
    <3>2. \A s \in SUBSET D :
             s # {} /\ fold[s \ {Max(s)}] = sol[s \ {Max(s)}]
                 => fold[s] = sol[s]
      BY <1>6, <2>2
    <3> HIDE DEF Folds
    <3>3. AgreeInTurn(n, fold, sol)
      BY <3>1, <3>2 DEF AgreeInTurn
    <3> QED  BY <1>0, <3>3, Agreement
  <2> QED  BY <2>3
<1> HIDE DEF fold, Folds
<1>8. /\ \A i \in 0..n : sol[1..i] \in lists
      /\ sol[1..0] = empty
      /\ \A i \in 1..n : sol[1..i] = op[<<i, sol[1..(i - 1)]>>]
  BY <1>0, <1>3, FoldInOrder
<1> DEFINE f == [i \in 0..n |-> sol[1..i]]
<1>9. f \in [0..n -> lists] /\ f[0] = empty /\ f[n] = sol[D]
  BY <1>0, <1>8
<1>10. \A i \in 1..n : f[i] = DropOrAppend(f[i - 1], l[i], q)
  <2>1. \A i \in 1..n : i - 1 \in 0..n /\ i \in 0..n
    BY <1>0
  <2> QED  BY <1>5, <1>8, <2>1
<1> HIDE DEF f, D
<1> QED  BY <1>1, <1>7, <1>9, <1>10 DEF lists, empty, n

\* The only place of a list where the query is recorded; one past the end when
\* there is none.
OnlyAt(l, q, p) ==
    /\ p \in 1..(Len(l) + 1)
    /\ \A i \in 1..Len(l) : Drops(l[i], q) <=> i = p

\* A list without its place p.
Without(l, p) ==
    [k \in 1..(IF p > Len(l) THEN Len(l) ELSE Len(l) - 1) |->
        l[IF k < p THEN k ELSE k + 1]]

LEMMA WithoutType ==
    ASSUME NEW l \in Seq(Element), NEW p \in 1..(Len(l) + 1)
    PROVE  /\ Without(l, p) \in Seq(Element)
           /\ Len(Without(l, p)) = IF p > Len(l) THEN Len(l) ELSE Len(l) - 1
<1> DEFINE m == IF p > Len(l) THEN Len(l) ELSE Len(l) - 1
<1>1. m \in Nat /\ \A k \in 1..m : (IF k < p THEN k ELSE k + 1) \in 1..Len(l)
  OBVIOUS
<1>2. Without(l, p) \in [1..m -> Element]
  BY <1>1 DEF Without
<1> HIDE DEF m
<1>3. Without(l, p) \in Seq(Element) /\ Len(Without(l, p)) = m
  BY <1>1, <1>2
<1> QED  BY <1>3 DEF m

\* The loop takes out the one place of the query.
LEMMA KeptOne ==
    ASSUME NEW l \in Seq(Element), NEW q, NEW p, OnlyAt(l, q, p)
    PROVE  Kept(l, q) = Without(l, p)
<1> DEFINE n     == Len(l)
           g(i)  == [k \in 1..(IF i < p THEN i ELSE i - 1) |->
                        l[IF k < p THEN k ELSE k + 1]]
<1>1. PICK f \in [0..n -> Seq(Element)] :
          /\ f[0] = <<>>
          /\ \A i \in 1..n : f[i] = DropOrAppend(f[i - 1], l[i], q)
          /\ f[n] = Kept(l, q)
  BY KeptInOrder
<1>2. /\ n \in Nat /\ p \in 1..(n + 1) /\ l \in [1..n -> Element]
      /\ \A i \in 1..n : Drops(l[i], q) <=> i = p
  BY DEF OnlyAt
<1>3. f[0] = g(0)
  <2>1. g(0) = [k \in {} |-> l[IF k < p THEN k ELSE k + 1]]
    BY <1>2
  <2> QED  BY <1>1, <2>1
<1> HIDE DEF n
<1>4. ASSUME NEW i \in 1..n, f[i - 1] = g(i - 1)
      PROVE  f[i] = g(i)
  <2>1. i \in Nat \ {0} /\ i - 1 \in Nat /\ l[i] \in Element
    BY <1>2
  <2>0. /\ f[i] = DropOrAppend(g(i - 1), l[i], q)
        /\ Drops(l[i], q) <=> i = p
    <3> HIDE DEF g
    <3> QED  BY <1>1, <1>2, <1>4
  <2>2. CASE i < p
    <3>1. f[i] = Append(g(i - 1), l[i])
      <4>1. i # p
        BY <1>2, <2>1, <2>2
      <4> HIDE DEF g
      <4> QED  BY <2>0, <4>1 DEF DropOrAppend
    <3>2. g(i - 1) = [k \in 1..(i - 1) |-> l[k]] /\ g(i) = [k \in 1..i |-> l[k]]
      BY <1>2, <2>1, <2>2
    <3> HIDE DEF g
    <3>3. Append([k \in 1..(i - 1) |-> l[k]], l[i]) = [k \in 1..i |-> l[k]]
      BY <1>2, <2>1
    <3> QED  BY <3>1, <3>2, <3>3
  <2>3. CASE i = p
    <3>1. f[i] = g(i - 1)
      BY <2>0, <2>3 DEF DropOrAppend
    <3>2. g(i - 1) = g(i)
      BY <1>2, <2>1, <2>3
    <3> QED  BY <3>1, <3>2
  <2>4. CASE i > p
    <3>1. f[i] = Append(g(i - 1), l[i])
      <4>1. i # p
        BY <1>2, <2>1, <2>4
      <4> HIDE DEF g
      <4> QED  BY <2>0, <4>1 DEF DropOrAppend
    <3> DEFINE e(k) == l[IF k < p THEN k ELSE k + 1]
    <3>2. g(i - 1) = [k \in 1..(i - 2) |-> e(k)] /\ g(i) = [k \in 1..(i - 1) |-> e(k)]
      <4>1. (IF i - 1 < p THEN i - 1 ELSE i - 1 - 1) = i - 2
        BY <1>2, <2>1, <2>4
      <4>2. (IF i < p THEN i ELSE i - 1) = i - 1
        BY <1>2, <2>1, <2>4
      <4> QED  BY <4>1, <4>2
    <3>3. e(i - 1) = l[i] /\ i - 2 \in Nat
      BY <1>2, <2>1, <2>4
    <3> HIDE DEF g, e
    <3>4. Append([k \in 1..(i - 2) |-> e(k)], e(i - 1)) = [k \in 1..(i - 1) |-> e(k)]
      BY <3>3, <2>1
    <3> QED  BY <3>1, <3>2, <3>3, <3>4
  <2> QED  BY <1>2, <2>1, <2>2, <2>3, <2>4
<1> HIDE DEF g
<1>5. \A i \in 0..n : f[i] = g(i)
  <2> DEFINE wrong == {i \in 0..n : f[i] # g(i)}
  <2>1. SUFFICES ASSUME wrong # {} PROVE FALSE
    OBVIOUS
  <2>2. wrong \subseteq Nat
    BY <1>2
  <2> HIDE DEF wrong
  <2>3. PICK i \in wrong : \A j \in wrong : i <= j
    BY <2>1, <2>2, LeastNumber
  <2>4. i \in 0..n /\ f[i] # g(i)
    BY DEF wrong
  <2>5. i # 0
    BY <1>3, <2>4
  <2>6. i \in 1..n /\ i - 1 \in 0..n /\ ~(i <= i - 1)
    BY <1>2, <2>4, <2>5
  <2>7. f[i - 1] = g(i - 1)
    BY <2>3, <2>6 DEF wrong
  <2> QED  BY <1>4, <2>4, <2>6, <2>7
<1>6. g(n) = Without(l, p)
  <2>1. (IF n < p THEN n ELSE n - 1) = IF p > n THEN n ELSE n - 1
    BY <1>2
  <2> QED  BY <2>1 DEF g, Without, n
<1> QED  BY <1>1, <1>2, <1>5, <1>6

-----------------------------------------------------------------------------
(* JobSearchHistory: recency lists.                                        *)

\* f lists a set of m numbers, the greatest first.
Enumerates(f, m, set) ==
    /\ m \in Nat
    /\ f \in [1..m -> set]
    /\ \A i \in set : \E k \in 1..m : f[k] = i
    /\ \A j, k \in 1..m : j < k => f[j] > f[k]

LEMMA Enumeration ==
    ASSUME NEW n \in Nat, NEW set \in SUBSET (1..n)
    PROVE  \E m, f : Enumerates(f, m, set)
<1> DEFINE D     == 1..n
           wrong == {s \in SUBSET D : ~ \E m, f : Enumerates(f, m, s)}
<1>1. wrong \subseteq SUBSET D /\ IsFiniteSet(D)
  BY FS_Interval
<1>2. SUFFICES ASSUME wrong # {} PROVE FALSE
  OBVIOUS
<1> HIDE DEF wrong, D
<1>3. PICK s \in wrong : \A t \in wrong : t \subseteq s => t = s
  BY <1>1, <1>2, LeastSubset
<1>4. s \in SUBSET (1..n) /\ ~ \E m, f : Enumerates(f, m, s)
  BY DEF wrong, D
<1>5. CASE s = {}
  <2>1. Enumerates([k \in 1..0 |-> k], 0, s)
    BY <1>5 DEF Enumerates
  <2> QED  BY <1>4, <2>1
<1>6. CASE s # {}
  <2>1. Max(s) \in s /\ \A x \in s : x <= Max(s)
    BY <1>4, <1>6, GreatestIndex
  <2>2. s \ {Max(s)} \in SUBSET D /\ s \ {Max(s)} \notin wrong
    BY <1>1, <1>3, <2>1
  <2>3. PICK m, f : Enumerates(f, m, s \ {Max(s)})
    BY <2>2 DEF wrong
  <2> DEFINE g == [k \in 1..(m + 1) |-> IF k = 1 THEN Max(s) ELSE f[k - 1]]
             x == Max(s)
  <2>4. /\ m \in Nat /\ f \in [1..m -> s \ {x}]
        /\ \A i \in s \ {x} : \E k \in 1..m : f[k] = i
        /\ \A j, k \in 1..m : j < k => f[j] > f[k]
    BY <2>3 DEF Enumerates
  <2>5. x \in s /\ x \in Nat /\ \A i \in s \ {x} : i \in Nat /\ x > i
    <3>1. x \in s /\ \A i \in s : i <= x
      BY <2>1
    <3>2. \A i \in s : i \in Nat
      BY <1>4
    <3> HIDE DEF x
    <3> QED  BY <3>1, <3>2
  <2> HIDE DEF x
  <2>6. \A k \in 1..(m + 1) : k # 1 => k - 1 \in 1..m /\ f[k - 1] \in s \ {x}
    BY <2>4
  <2>7. m + 1 \in Nat /\ g \in [1..(m + 1) -> s]
    BY <2>4, <2>5, <2>6 DEF x
  <2>8. ASSUME NEW i \in s PROVE \E k \in 1..(m + 1) : g[k] = i
    <3>1. CASE i = x
      BY <2>4, <3>1 DEF x
    <3>2. CASE i # x
      <4>1. PICK k \in 1..m : f[k] = i
        BY <2>4, <3>2
      <4>2. k + 1 \in 1..(m + 1) /\ k + 1 # 1 /\ k + 1 - 1 = k
        BY <2>4
      <4>3. g[k + 1] = i
        BY <4>1, <4>2
      <4> QED  BY <4>2, <4>3
    <3> QED  BY <3>1, <3>2
  <2>9. ASSUME NEW j \in 1..(m + 1), NEW k \in 1..(m + 1), j < k
        PROVE  g[j] > g[k]
    <3>1. k # 1 /\ k - 1 \in 1..m /\ f[k - 1] \in s \ {x} /\ g[k] = f[k - 1]
      BY <2>4, <2>6, <2>9
    <3>2. CASE j = 1
      BY <2>5, <3>1, <3>2 DEF x
    <3>3. CASE j # 1
      <4>1. j - 1 \in 1..m /\ g[j] = f[j - 1] /\ j - 1 < k - 1
        BY <2>4, <2>6, <2>9, <3>3
      <4> QED  BY <2>4, <3>1, <4>1
    <3> QED  BY <3>2, <3>3
  <2> HIDE DEF g
  <2>10. Enumerates(g, m + 1, s)
    BY <2>7, <2>8, <2>9 DEF Enumerates
  <2> QED  BY <1>4, <2>10
<1> QED  BY <1>5, <1>6

\* What stands at a place can be found by counting what is as great.
LEMMA Counted ==
    ASSUME NEW set \in SUBSET Nat, NEW f, NEW m, Enumerates(f, m, set)
    PROVE  /\ Cardinality(set) = m
           /\ \A k \in 1..m :
                 (CHOOSE i \in set : Cardinality({j \in set : j >= i}) = k) = f[k]
<1> DEFINE above(i) == {j \in set : j >= i}
<1>1. /\ m \in Nat /\ f \in [1..m -> set]
      /\ \A i \in set : \E k \in 1..m : f[k] = i
      /\ \A j, k \in 1..m : j < k => f[j] > f[k]
  BY DEF Enumerates
<1>0. \A k \in 1..m : f[k] \in Nat
  BY <1>1
<1>2. \A j, k \in 1..m : f[j] = f[k] => j = k
  <2>1. \A j, k \in 1..m : j < k \/ k < j \/ j = k
    BY <1>1
  <2> QED  BY <1>0, <1>1, <2>1
<1>3. Cardinality(set) = m
  <2>1. f \in Bijection(1..m, set)
    BY <1>1, <1>2 DEF Bijection, Injection, Surjection, IsInjective
  <2>2. ExistsBijection(1..m, set)
    BY <2>1 DEF ExistsBijection
  <2> QED  BY <1>1, <2>2, FS_CountingElements
<1>4. ASSUME NEW k \in 1..m PROVE Cardinality(above(f[k])) = k
  <2> DEFINE g == [j \in 1..k |-> f[j]]
  <2>1. k \in Nat /\ \A j \in 1..k : j \in 1..m
    BY <1>1
  <2>2. \A j \in 1..k : f[j] \in above(f[k])
    <3>1. \A j \in 1..k : j < k \/ j = k
      BY <2>1
    <3> QED  BY <1>0, <1>1, <2>1, <3>1
  <2>3. \A i \in above(f[k]) : \E j \in 1..k : f[j] = i
    <3> SUFFICES ASSUME NEW i \in set, i >= f[k]
                 PROVE  \E j \in 1..k : f[j] = i
      OBVIOUS
    <3>1. PICK j \in 1..m : f[j] = i
      BY <1>1
    <3>2. ~(k < j)
      <4>1. f[k] \in Nat /\ f[j] \in Nat
        BY <1>1
      <4> QED  BY <1>1, <3>1, <4>1
    <3>3. j \in 1..k
      BY <1>1, <3>2
    <3> QED  BY <3>1, <3>3
  <2> HIDE DEF above
  <2>4. g \in Bijection(1..k, above(f[k]))
    <3>1. g \in [1..k -> above(f[k])]
      BY <2>2
    <3>2. \A i, j \in 1..k : g[i] = g[j] => i = j
      BY <1>2, <2>1
    <3>3. \A i \in above(f[k]) : \E j \in 1..k : g[j] = i
      BY <2>3
    <3> HIDE DEF g
    <3> QED  BY <3>1, <3>2, <3>3 DEF Bijection, Injection, Surjection, IsInjective
  <2>5. ExistsBijection(1..k, above(f[k]))
    BY <2>4 DEF ExistsBijection
  <2> QED  BY <2>1, <2>5, FS_CountingElements
<1>5. ASSUME NEW k \in 1..m
      PROVE  (CHOOSE i \in set : Cardinality(above(i)) = k) = f[k]
  <2> HIDE DEF above
  <2>1. f[k] \in set /\ Cardinality(above(f[k])) = k
    BY <1>1, <1>4
  <2>2. ASSUME NEW i \in set, Cardinality(above(i)) = k PROVE i = f[k]
    <3>1. PICK j \in 1..m : f[j] = i
      BY <1>1
    <3> QED  BY <1>4, <2>2, <3>1
  <2> QED  BY <2>1, <2>2
<1> QED  BY <1>3, <1>5

LEMMA RecencyIs ==
    ASSUME NEW s \in Seq(Element), NEW f, NEW m, Enumerates(f, m, Latest(s))
    PROVE  Recency(s) = [k \in 1..m |-> s[f[k]]]
<1>1. Latest(s) \in SUBSET Nat
  BY DEF Latest
<1> DEFINE at(k) == CHOOSE i \in Latest(s) : Cardinality({j \in Latest(s) : j >= i}) = k
<1>2. Cardinality(Latest(s)) = m /\ \A k \in 1..m : at(k) = f[k]
  BY <1>1, Counted
<1>3. Recency(s) = [k \in 1..Cardinality(Latest(s)) |-> s[at(k)]]
  BY DEF Recency
<1> HIDE DEF at
<1> QED  BY <1>2, <1>3

\* What a search records is the same as what has its query.
LEMMA SameQuery ==
    ASSUME NEW x \in Element, NEW y \in Element
    PROVE  /\ \A q : Drops(x, q) /\ Drops(y, q) => Same(x, y)
           /\ y \in Recorded => (Same(x, y) <=> Drops(x, y.query))
           /\ y \in Recorded => Drops(y, y.query)
<1>1. y \in Recorded => y \notin Foreign
  BY HConstants
<1>2. y \in Recorded /\ x = y => x \notin Foreign
  BY <1>1
<1> QED  BY <1>1, <1>2 DEF Drops, Same

LEMMA RecencyType ==
    ASSUME NEW s \in Seq(Element)
    PROVE  /\ Recency(s) \in Seq(Element)
           /\ \A q : \E p : OnlyAt(Recency(s), q, p)
<1>1. Latest(s) \in SUBSET (1..Len(s)) /\ Len(s) \in Nat
  BY DEF Latest
<1>2. PICK m, f : Enumerates(f, m, Latest(s))
  BY <1>1, Enumeration
<1>3. /\ m \in Nat /\ f \in [1..m -> Latest(s)]
      /\ \A j, k \in 1..m : j < k => f[j] > f[k]
  BY <1>2 DEF Enumerates
<1> DEFINE all == Recency(s)
<1>4. all = [k \in 1..m |-> s[f[k]]]
  BY <1>2, RecencyIs
<1>5. \A k \in 1..m : f[k] \in 1..Len(s) /\ s[f[k]] \in Element
  BY <1>1, <1>3
<1> HIDE DEF all
<1>6. all \in Seq(Element) /\ Len(all) = m /\ \A k \in 1..m : all[k] = s[f[k]]
  BY <1>3, <1>4, <1>5
<1>7. ASSUME NEW q PROVE \E p : OnlyAt(all, q, p)
  <2>1. ASSUME NEW j \in 1..m, NEW k \in 1..m, j < k, Drops(all[j], q), Drops(all[k], q)
        PROVE  FALSE
    <3>1. f[k] \in Latest(s) /\ f[j] \in DOMAIN s /\ f[j] > f[k]
      BY <1>1, <1>3, <2>1
    <3>2. ~Same(s[f[k]], s[f[j]])
      BY <3>1 DEF Latest
    <3> QED  BY <1>5, <1>6, <2>1, <3>2, SameQuery
  <2>2. \A j, k \in 1..m : Drops(all[j], q) /\ Drops(all[k], q) => j = k
    <3>1. \A j, k \in 1..m : j < k \/ k < j \/ j = k
      BY <1>3
    <3> QED  BY <2>1, <3>1
  <2>3. CASE \E p \in 1..m : Drops(all[p], q)
    <3>1. PICK p \in 1..m : Drops(all[p], q)
      BY <2>3
    <3>2. \A i \in 1..m : Drops(all[i], q) <=> i = p
      BY <2>2, <3>1
    <3>3. p \in 1..(m + 1)
      BY <1>3
    <3> QED  BY <1>6, <3>2, <3>3 DEF OnlyAt
  <2>4. CASE ~ \E p \in 1..m : Drops(all[p], q)
    <3>1. m + 1 \in 1..(m + 1) /\ \A i \in 1..m : i # m + 1
      BY <1>3
    <3> QED  BY <1>6, <2>4, <3>1 DEF OnlyAt
  <2> QED  BY <2>3, <2>4
<1> QED  BY <1>6, <1>7 DEF all

\* A new search takes the place of the others of its query among the latest.
LEMMA LatestAppended ==
    ASSUME NEW s \in Seq(Element), NEW e \in Recorded
    PROVE  Latest(Append(s, e)) =
               {Len(s) + 1} \cup {i \in Latest(s) : ~Drops(s[i], e.query)}
<1> DEFINE t == Append(s, e)
           n == Len(s)
<1>1. /\ n \in Nat /\ DOMAIN s = 1..n /\ DOMAIN t = 1..(n + 1)
      /\ t[n + 1] = e /\ \A i \in 1..n : t[i] = s[i] /\ s[i] \in Element
  OBVIOUS
<1>2. e \in Element
  BY DEF Element
<1>3. \A i \in 1..n : Same(s[i], e) <=> Drops(s[i], e.query)
  BY <1>1, <1>2, SameQuery
<1> HIDE DEF t, n
<1>4. n + 1 \in Latest(t)
  BY <1>1 DEF Latest
<1>5. ASSUME NEW i \in 1..n
      PROVE  i \in Latest(t) <=> i \in Latest(s) /\ ~Drops(s[i], e.query)
  <2>1. i \in 1..(n + 1) /\ n + 1 > i /\ n + 1 \in 1..(n + 1)
    BY <1>1
  <2>2. \A j \in 1..(n + 1) : j \in 1..n \/ j = n + 1
    BY <1>1
  <2>3. \A j \in 1..n : j \in 1..(n + 1)
    BY <1>1
  <2>4. i \in Latest(t) <=> \A j \in 1..(n + 1) : j > i => ~Same(s[i], t[j])
    BY <1>1, <2>1 DEF Latest
  <2>5. i \in Latest(s) <=> \A j \in 1..n : j > i => ~Same(s[i], s[j])
    BY <1>1 DEF Latest
  <2> QED  BY <1>1, <1>3, <2>1, <2>2, <2>3, <2>4, <2>5
<1>6. Latest(s) \subseteq 1..n /\ Latest(t) \subseteq 1..(n + 1)
  BY <1>1 DEF Latest
<1>7. \A i \in 1..(n + 1) : i \in 1..n \/ i = n + 1
  BY <1>1
<1> QED  BY <1>4, <1>5, <1>6, <1>7 DEF t, n

LEMMA HeadIs ==
    ASSUME NEW e \in Element, NEW l \in Seq(Element)
    PROVE  /\ <<e>> \o l = [k \in 1..(Len(l) + 1) |-> IF k = 1 THEN e ELSE l[k - 1]]
           /\ <<e>> \o l \in Seq(Element)
           /\ Len(<<e>> \o l) = Len(l) + 1
<1>1. <<e>> \o l \in Seq(Element) /\ Len(<<e>> \o l) = Len(l) + 1 /\ Len(l) \in Nat
  OBVIOUS
<1>2. \A k \in 1..(Len(l) + 1) : (<<e>> \o l)[k] = IF k = 1 THEN e ELSE l[k - 1]
  OBVIOUS
<1> QED  BY <1>1, <1>2

\* With a new search a recency list gets it as its head and loses the place of
\* its query.
LEMMA RecencyAppended ==
    ASSUME NEW s \in Seq(Element), NEW e \in Recorded
    PROVE  Recency(Append(s, e)) = <<e>> \o Kept(Recency(s), e.query)
<1> DEFINE t == Append(s, e)
           n == Len(s)
           all == Recency(s)
<1>1. Latest(s) \in SUBSET (1..n) /\ n \in Nat /\ e \in Element
  BY DEF Latest, Element
<1>2. PICK m, f : Enumerates(f, m, Latest(s))
  BY <1>1, Enumeration
<1>3. PICK p : OnlyAt(all, e.query, p)
  BY RecencyType
<1>4. Kept(all, e.query) = Without(all, p)
  BY <1>3, KeptOne, RecencyType
<1>5. /\ m \in Nat /\ f \in [1..m -> Latest(s)]
      /\ \A i \in Latest(s) : \E k \in 1..m : f[k] = i
      /\ \A j, k \in 1..m : j < k => f[j] > f[k]
  BY <1>2 DEF Enumerates
<1>6. all = [k \in 1..m |-> s[f[k]]] /\ all \in Seq(Element)
  BY <1>2, RecencyIs, RecencyType
<1>7. Len(all) = m /\ \A k \in 1..m : all[k] = s[f[k]]
  <2> HIDE DEF all
  <2> QED  BY <1>5, <1>6
<1> HIDE DEF all
<1>8. /\ p \in 1..(m + 1)
      /\ \A k \in 1..m : Drops(s[f[k]], e.query) <=> k = p
  BY <1>3, <1>7 DEF OnlyAt
<1> DEFINE w    == IF p > m THEN m ELSE m - 1
           o(k) == IF k < p THEN k ELSE k + 1
           h    == [k \in 1..(w + 1) |-> IF k = 1 THEN n + 1 ELSE f[o(k - 1)]]
<1>9. w \in Nat /\ \A k \in 1..w : o(k) \in 1..m /\ o(k) # p
  BY <1>5, <1>8
<1>10. \A j, k \in 1..w : j < k => o(j) < o(k)
  BY <1>5, <1>8
<1>11. \A i \in 1..m : i # p => \E k \in 1..w : o(k) = i
  <2> SUFFICES ASSUME NEW i \in 1..m, i # p PROVE \E k \in 1..w : o(k) = i
    OBVIOUS
  <2>1. CASE i < p
    <3>1. i \in 1..w /\ o(i) = i
      BY <1>5, <1>8, <2>1
    <3> QED  BY <3>1
  <2>2. CASE i > p
    <3>1. i - 1 \in 1..w /\ o(i - 1) = i
      BY <1>5, <1>8, <2>2
    <3> QED  BY <3>1
  <2> QED  BY <1>5, <1>8, <2>1, <2>2
<1>12. Without(all, p) = [k \in 1..w |-> all[o(k)]]
  BY <1>7 DEF Without
<1> HIDE DEF w, o
<1>13. \A k \in 1..(w + 1) : k # 1 => k - 1 \in 1..w
  BY <1>9
<1>14. \A k \in 1..w : f[o(k)] \in Latest(s) /\ ~Drops(s[f[o(k)]], e.query)
  BY <1>5, <1>8, <1>9
<1>15. Latest(t) = {n + 1} \cup {i \in Latest(s) : ~Drops(s[i], e.query)}
  BY LatestAppended
<1> HIDE DEF t
<1>16. h \in [1..(w + 1) -> Latest(t)]
  BY <1>9, <1>13, <1>14, <1>15
<1>17. ASSUME NEW i \in Latest(t) PROVE \E k \in 1..(w + 1) : h[k] = i
  <2>1. CASE i = n + 1
    <3>1. 1 \in 1..(w + 1)
      BY <1>9
    <3> QED  BY <2>1, <3>1
  <2>2. CASE i # n + 1
    <3>1. i \in Latest(s) /\ ~Drops(s[i], e.query)
      BY <1>15, <2>2
    <3>2. PICK j \in 1..m : f[j] = i
      BY <1>5, <3>1
    <3>3. PICK k \in 1..w : o(k) = j
      BY <1>8, <1>11, <3>1, <3>2
    <3>4. k + 1 \in 1..(w + 1) /\ k + 1 # 1 /\ k + 1 - 1 = k
      BY <1>9
    <3>5. h[k + 1] = i
      BY <3>2, <3>3, <3>4
    <3> QED  BY <3>4, <3>5
  <2> QED  BY <2>1, <2>2
<1>18. ASSUME NEW j \in 1..(w + 1), NEW k \in 1..(w + 1), j < k
       PROVE  h[j] > h[k]
  <2>1. k # 1 /\ k - 1 \in 1..w /\ h[k] = f[o(k - 1)]
    BY <1>9, <1>13, <1>18
  <2>2. CASE j = 1
    <3>1. f[o(k - 1)] \in 1..n /\ h[j] = n + 1
      BY <1>1, <1>14, <2>1, <2>2
    <3> QED  BY <1>1, <2>1, <3>1
  <2>3. CASE j # 1
    <3>1. j - 1 \in 1..w /\ h[j] = f[o(j - 1)] /\ j - 1 < k - 1
      BY <1>9, <1>13, <1>18, <2>3
    <3>2. o(j - 1) < o(k - 1) /\ o(j - 1) \in 1..m /\ o(k - 1) \in 1..m
      BY <1>9, <1>10, <2>1, <3>1
    <3> QED  BY <1>5, <2>1, <3>1, <3>2
  <2> QED  BY <2>2, <2>3
<1> HIDE DEF h
<1>19. w + 1 \in Nat /\ Enumerates(h, w + 1, Latest(t))
  BY <1>9, <1>16, <1>17, <1>18 DEF Enumerates
<1>20. t \in Seq(Element) /\ t[n + 1] = e /\ \A i \in 1..n : t[i] = s[i]
  BY <1>1 DEF t
<1>21. Recency(t) = [k \in 1..(w + 1) |-> t[h[k]]]
  BY <1>19, <1>20, RecencyIs
<1>22. \A k \in 1..(w + 1) : t[h[k]] = IF k = 1 THEN e ELSE Without(all, p)[k - 1]
  <2> SUFFICES ASSUME NEW k \in 1..(w + 1)
               PROVE  t[h[k]] = IF k = 1 THEN e ELSE Without(all, p)[k - 1]
    OBVIOUS
  <2>1. CASE k = 1
    BY <1>20, <2>1 DEF h
  <2>2. CASE k # 1
    <3>1. k - 1 \in 1..w /\ o(k - 1) \in 1..m /\ h[k] = f[o(k - 1)]
      BY <1>9, <1>13, <2>2 DEF h
    <3>2. h[k] \in 1..n
      BY <1>1, <1>14, <3>1
    <3>3. Without(all, p)[k - 1] = all[o(k - 1)]
      BY <1>12, <3>1
    <3> QED  BY <1>7, <1>20, <2>2, <3>1, <3>2, <3>3
  <2> QED  BY <2>1, <2>2
<1>23. Without(all, p) \in Seq(Element) /\ Len(Without(all, p)) = w
  BY <1>6, <1>7, <1>8, WithoutType DEF w
<1>24. <<e>> \o Without(all, p) =
           [k \in 1..(w + 1) |-> IF k = 1 THEN e ELSE Without(all, p)[k - 1]]
  BY <1>1, <1>23, HeadIs
<1> QED  BY <1>4, <1>21, <1>22, <1>24 DEF t, all

LEMMA CutIs ==
    ASSUME NEW l \in Seq(Element)
    PROVE  /\ Cut(l) \in Seq(Element)
           /\ Cut(l) = [k \in 1..(IF Len(l) > MaxEntries THEN MaxEntries ELSE Len(l)) |-> l[k]]
           /\ Len(Cut(l)) = IF Len(l) > MaxEntries THEN MaxEntries ELSE Len(l)
<1>1. MaxEntries \in Nat /\ Len(l) \in Nat
  BY HConstants
<1>2. CASE Len(l) > MaxEntries
  <2>1. Cut(l) = SubSeq(l, 1, MaxEntries)
    BY <1>2 DEF Cut
  <2>2. SubSeq(l, 1, MaxEntries) = [k \in 1..MaxEntries |-> l[k]]
    BY <1>1, <1>2
  <2>3. [k \in 1..MaxEntries |-> l[k]] \in [1..MaxEntries -> Element]
    BY <1>1, <1>2
  <2> QED  BY <1>1, <1>2, <2>1, <2>2, <2>3
<1>3. CASE ~(Len(l) > MaxEntries)
  BY <1>1, <1>3 DEF Cut
<1> QED  BY <1>2, <1>3

LEMMA CutOnlyAt ==
    ASSUME NEW l \in Seq(Element), NEW q, NEW p, OnlyAt(l, q, p)
    PROVE  OnlyAt(Cut(l), q, IF p > Len(Cut(l)) THEN Len(Cut(l)) + 1 ELSE p)
<1> DEFINE c == Cut(l)
           m == Len(c)
<1>1. MaxEntries \in Nat \ {0} /\ Len(l) \in Nat
  BY HConstants
<1>2. /\ c \in Seq(Element)
      /\ c = [k \in 1..(IF Len(l) > MaxEntries THEN MaxEntries ELSE Len(l)) |-> l[k]]
      /\ m = IF Len(l) > MaxEntries THEN MaxEntries ELSE Len(l)
  BY CutIs
<1>3. p \in 1..(Len(l) + 1) /\ \A i \in 1..Len(l) : Drops(l[i], q) <=> i = p
  BY DEF OnlyAt
<1>4. m \in Nat /\ m <= Len(l) /\ \A k \in 1..m : c[k] = l[k] /\ k \in 1..Len(l)
  BY <1>1, <1>2
<1> HIDE DEF c, m
<1> DEFINE cp == IF p > m THEN m + 1 ELSE p
<1>5. cp \in 1..(m + 1) /\ \A i \in 1..m : i = cp <=> i = p
  BY <1>3, <1>4
<1> HIDE DEF cp
<1>6. OnlyAt(c, q, cp)
  BY <1>3, <1>4, <1>5 DEF OnlyAt, m
<1> QED  BY <1>6 DEF c, m, cp

\* Cutting a list, rebuilding it for a search and cutting it again gives what
\* cutting only at the end gives.
LEMMA CutTwice ==
    ASSUME NEW l \in Seq(Element), NEW e \in Element, NEW q, NEW p, OnlyAt(l, q, p)
    PROVE  Cut(<<e>> \o Kept(Cut(l), q)) = Cut(<<e>> \o Kept(l, q))
<1>1. MaxEntries \in Nat \ {0} /\ Len(l) \in Nat
  BY HConstants
<1>2. CASE ~(Len(l) > MaxEntries)
  BY <1>2 DEF Cut
<1>3. CASE Len(l) > MaxEntries
  <2> DEFINE c  == Cut(l)
             cp == IF p > MaxEntries THEN MaxEntries + 1 ELSE p
             a  == <<e>> \o Without(c, cp)
             b  == <<e>> \o Without(l, p)
  <2>1. /\ c \in Seq(Element) /\ Len(c) = MaxEntries
        /\ \A k \in 1..MaxEntries : c[k] = l[k]
    BY <1>3, CutIs
  <2>2. p \in 1..(Len(l) + 1) /\ \A i \in 1..Len(l) : Drops(l[i], q) <=> i = p
    BY DEF OnlyAt
  <2>3. OnlyAt(c, q, cp)
    BY <2>1, CutOnlyAt
  <2> HIDE DEF c
  <2>4. Kept(c, q) = Without(c, cp) /\ Kept(l, q) = Without(l, p)
    BY <2>1, <2>3, KeptOne
  <2>5. /\ cp \in 1..(Len(c) + 1)
        /\ Without(c, cp) \in Seq(Element) /\ Without(l, p) \in Seq(Element)
        /\ Len(Without(c, cp)) \in Nat /\ Len(Without(c, cp)) + 1 >= MaxEntries
        /\ Len(Without(l, p)) \in Nat /\ Len(Without(l, p)) >= MaxEntries
    <3>1. cp \in 1..(Len(c) + 1)
      BY <1>1, <2>1, <2>2
    <3>2. /\ Without(c, cp) \in Seq(Element)
          /\ Len(Without(c, cp)) = IF cp > Len(c) THEN Len(c) ELSE Len(c) - 1
      BY <2>1, <3>1, WithoutType
    <3>3. /\ Without(l, p) \in Seq(Element)
          /\ Len(Without(l, p)) = IF p > Len(l) THEN Len(l) ELSE Len(l) - 1
      BY <2>2, WithoutType
    <3>4. Len(Without(c, cp)) + 1 >= MaxEntries
      BY <1>1, <2>1, <3>1, <3>2
    <3>5. Len(Without(l, p)) >= MaxEntries
      BY <1>1, <1>3, <2>2, <3>3
    <3> QED  BY <3>1, <3>2, <3>3, <3>4, <3>5
  <2>6. \A k \in 1..(MaxEntries - 1) : Without(c, cp)[k] = Without(l, p)[k]
    <3> SUFFICES ASSUME NEW k \in 1..(MaxEntries - 1)
                 PROVE  Without(c, cp)[k] = Without(l, p)[k]
      OBVIOUS
    <3>1. k < cp <=> k < p
      BY <1>1, <2>2
    <3>2. (IF k < cp THEN k ELSE k + 1) \in 1..MaxEntries
      BY <1>1
    <3>3. k \in 1..(IF cp > Len(c) THEN Len(c) ELSE Len(c) - 1)
      BY <1>1, <2>1
    <3>4. k \in 1..(IF p > Len(l) THEN Len(l) ELSE Len(l) - 1)
      BY <1>1, <1>3
    <3>5. Without(c, cp)[k] = c[IF k < cp THEN k ELSE k + 1]
      <4> HIDE DEF cp
      <4> QED  BY <3>3 DEF Without
    <3>6. Without(l, p)[k] = l[IF k < p THEN k ELSE k + 1]
      BY <3>4 DEF Without
    <3> HIDE DEF cp
    <3> QED  BY <2>1, <3>1, <3>2, <3>5, <3>6
  <2> HIDE DEF cp
  <2>7. /\ a = [k \in 1..(Len(Without(c, cp)) + 1) |->
                   IF k = 1 THEN e ELSE Without(c, cp)[k - 1]]
        /\ a \in Seq(Element) /\ Len(a) = Len(Without(c, cp)) + 1
    BY <2>5, HeadIs
  <2>8. /\ b = [k \in 1..(Len(Without(l, p)) + 1) |->
                   IF k = 1 THEN e ELSE Without(l, p)[k - 1]]
        /\ b \in Seq(Element) /\ Len(b) = Len(Without(l, p)) + 1
    BY <2>5, HeadIs
  <2>9. \A k \in 1..MaxEntries : a[k] = b[k]
    <3> SUFFICES ASSUME NEW k \in 1..MaxEntries PROVE a[k] = b[k]
      OBVIOUS
    <3>1. k \in 1..(Len(Without(c, cp)) + 1) /\ k \in 1..(Len(Without(l, p)) + 1)
      BY <1>1, <2>5
    <3>2. k # 1 => k - 1 \in 1..(MaxEntries - 1)
      BY <1>1
    <3> QED  BY <2>6, <2>7, <2>8, <3>1, <3>2
  <2> HIDE DEF a, b
  <2>10. Cut(a) = [k \in 1..MaxEntries |-> a[k]]
    <3>1. (IF Len(a) > MaxEntries THEN MaxEntries ELSE Len(a)) = MaxEntries
      BY <1>1, <2>5, <2>7
    <3> QED  BY <2>7, <3>1, CutIs
  <2>11. Cut(b) = [k \in 1..MaxEntries |-> b[k]]
    <3>1. (IF Len(b) > MaxEntries THEN MaxEntries ELSE Len(b)) = MaxEntries
      BY <1>1, <2>5, <2>8
    <3> QED  BY <2>8, <3>1, CutIs
  <2> QED  BY <2>4, <2>9, <2>10, <2>11 DEF a, b, c
<1> QED  BY <1>2, <1>3

\* What upsertJobSearchHistory makes of a recency list is the recency list with
\* the search.
LEMMA Rebuilding ==
    ASSUME NEW s \in Seq(Element), NEW e \in Recorded
    PROVE  Cut(<<e>> \o Kept(RecencyList(s), e.query)) = RecencyList(Append(s, e))
<1>1. \A t : RecencyList(t) = Cut(Recency(t))
  BY DEF RecencyList, Cut
<1>2. Recency(s) \in Seq(Element) /\ e \in Element
  BY RecencyType DEF Element
<1>3. PICK p : OnlyAt(Recency(s), e.query, p)
  BY RecencyType
<1>4. Cut(<<e>> \o Kept(Cut(Recency(s)), e.query)) = Cut(<<e>> \o Kept(Recency(s), e.query))
  BY <1>2, <1>3, CutTwice
<1> QED  BY <1>1, <1>4, RecencyAppended

\* The story of a list at the beginning, or after its 24 hours.
LEMMA ShortStories ==
    /\ RecencyList(<<>>) = <<>>
    /\ \A x \in Element : RecencyList(<<x>>) = <<x>>
<1>1. \A t : RecencyList(t) = Cut(Recency(t))
  BY DEF RecencyList, Cut
<1>2. MaxEntries \in Nat \ {0}
  BY HConstants
<1>3. RecencyList(<<>>) = <<>>
  <2> DEFINE none == <<>>
             f    == [k \in 1..0 |-> k]
  <2>1. none \in Seq(Element) /\ Latest(none) = {}
    BY DEF Latest
  <2>2. Enumerates(f, 0, {})
    BY DEF Enumerates
  <2> HIDE DEF none, f
  <2>3. Recency(none) = [k \in 1..0 |-> none[f[k]]]
    BY <2>1, <2>2, RecencyIs
  <2>4. Recency(<<>>) = <<>>
    BY <2>3 DEF none
  <2>5. Cut(<<>>) = <<>>
    BY <1>2 DEF Cut
  <2> QED  BY <1>1, <2>4, <2>5
<1>4. ASSUME NEW x \in Element PROVE RecencyList(<<x>>) = <<x>>
  <2> DEFINE one == <<x>>
             f   == [k \in 1..1 |-> 1]
  <2>1. one \in Seq(Element) /\ DOMAIN one = {1} /\ one[1] = x /\ Len(one) = 1
    OBVIOUS
  <2> HIDE DEF one
  <2>2. Latest(one) = {1}
    BY <2>1 DEF Latest
  <2>3. Enumerates(f, 1, Latest(one))
    BY <2>2 DEF Enumerates
  <2>4. Recency(one) = [k \in 1..1 |-> one[f[k]]]
    <3> HIDE DEF f
    <3> QED  BY <2>1, <2>3, RecencyIs
  <2>5. Recency(one) = one
    BY <2>1, <2>4 DEF one
  <2>6. Cut(one) = one
    BY <1>2, <2>1 DEF Cut
  <2> QED  BY <1>1, <2>5, <2>6 DEF one
<1> QED  BY <1>3, <1>4

-----------------------------------------------------------------------------
(* JobSearchHistory: every list anybody stores or has read is a recency    *)
(* list.                                                                   *)

USE DEF Moves

LEMMA HInitInv == HInit => HIndInv
<1> SUFFICES ASSUME HInit PROVE HIndInv
  OBVIOUS
<1>1. \A s \in {<<>>} \cup {<<x>> : x \in Foreign} :
          s \in Seq(Element) /\ Len(s) <= MaxEntries /\ RecencyList(s) = s
  <2>1. <<>> \in Seq(Element) /\ Len(<<>>) = 0
    OBVIOUS
  <2>2. \A x \in Foreign : x \in Element /\ <<x>> \in Seq(Element) /\ Len(<<x>>) = 1
    BY DEF Element
  <2>3. MaxEntries >= 0 /\ MaxEntries >= 1
    BY HConstants
  <2> QED  BY <2>1, <2>2, <2>3, ShortStories
<1>2. HTypeOK
  BY <1>1, HConstants DEF HInit, HTypeOK
<1>3. HistoryIsRecencyList
  BY <1>1 DEF HInit, HistoryIsRecencyList
<1>4. ReadsAreRecencyLists
  BY ShortStories DEF HInit, ReadsAreRecencyLists
<1> QED  BY <1>2, <1>3, <1>4 DEF HIndInv

LEMMA FaultsBounded == HTypeOK /\ (Fail \/ UNCHANGED faults) => faults' \in 0..MaxFaults
BY HConstants DEF HTypeOK, Fail

\* Steps that neither read nor write the list.
LEMMA AskKeeps ==
    ASSUME HIndInv, NEW r \in Search, Ask(r) \/ WorkflowReturns(r) \/ SetCache(r)
    PROVE  HIndInv'
<1> USE DEF HIndInv
<1>1. /\ UNCHANGED <<history, query, loaded, expiries, story, loadedStory>>
      /\ place' \in [Search -> {"idle", "workflow", "set", "read", "replace", "done",
                                "failed"}]
      /\ cache' \subseteq Subject
      /\ faults' \in 0..MaxFaults
  <2> DEFINE Places == {"idle", "workflow", "set", "read", "replace", "done", "failed"}
  <2>1. place \in [Search -> Places] /\ cache \subseteq Subject /\ query[r] \in Query
    BY DEF HTypeOK
  <2>2. {"workflow", "set", "read", "failed"} \subseteq Places
    OBVIOUS
  <2> HIDE DEF Places
  <2>3. \A c \in Places : [place EXCEPT ![r] = c] \in [Search -> Places]
    BY <2>1
  <2>4. CacheKey(query[r]) \in Subject
    BY <2>1 DEF CacheKey, Query
  <2>5. /\ UNCHANGED <<history, query, loaded, expiries, story, loadedStory>>
        /\ \E c \in Places : place' = [place EXCEPT ![r] = c]
        /\ cache' \subseteq Subject
        /\ Fail \/ UNCHANGED faults
    <3>1. CASE Ask(r)
      BY <2>1, <2>2, <3>1 DEF Ask
    <3>2. CASE WorkflowReturns(r)
      BY <2>1, <2>2, <3>2 DEF WorkflowReturns
    <3>3. CASE SetCache(r)
      BY <2>1, <2>2, <2>4, <3>3 DEF SetCache
    <3> QED  BY <3>1, <3>2, <3>3
  <2>6. place' \in [Search -> Places]
    BY <2>3, <2>5
  <2> QED  BY <2>5, <2>6, FaultsBounded DEF Places
<1>2. HTypeOK'
  BY <1>1 DEF HTypeOK
<1>3. HistoryIsRecencyList'
  BY <1>1 DEF HistoryIsRecencyList
<1>4. ReadsAreRecencyLists'
  BY <1>1 DEF ReadsAreRecencyLists
<1> QED  BY <1>2, <1>3, <1>4

LEMMA HReadKeeps ==
    ASSUME HIndInv, NEW r \in Search, Read(r)
    PROVE  HIndInv'
<1> USE DEF HIndInv
<1>1. HTypeOK'
  <2>1. /\ place' \in [Search -> {"idle", "workflow", "set", "read", "replace", "done",
                                  "failed"}]
        /\ loaded' \in [Search -> Seq(Element)]
        /\ loadedStory' \in [Search -> Seq(Element)]
        /\ UNCHANGED <<cache, history, query, expiries, story>>
        /\ Fail \/ UNCHANGED faults
    BY DEF HTypeOK, Read
  <2>2. \A s \in Search : Len(loaded'[s]) <= MaxEntries
    <3>1. \A s \in Search : loaded'[s] = loaded[s] \/ loaded'[s] = history
      BY DEF HTypeOK, Read
    <3> QED  BY <3>1 DEF HTypeOK
  <2>3. faults' \in 0..MaxFaults
    BY <2>1, FaultsBounded
  <2> QED  BY <2>1, <2>2, <2>3 DEF HTypeOK
<1>2. HistoryIsRecencyList'
  BY DEF HistoryIsRecencyList, Read
<1>3. ReadsAreRecencyLists'
  <2>1. \A s \in Search : \/ loaded'[s] = loaded[s] /\ loadedStory'[s] = loadedStory[s]
                          \/ loaded'[s] = history /\ loadedStory'[s] = story
    BY DEF HTypeOK, Read
  <2> QED  BY <2>1 DEF ReadsAreRecencyLists, HistoryIsRecencyList
<1> QED  BY <1>1, <1>2, <1>3

LEMMA RebuiltIs ==
    ASSUME HIndInv, NEW r \in Search
    PROVE  /\ EntryOf(r) \in Recorded
           /\ Rebuilt(r) = RecencyList(Append(loadedStory[r], EntryOf(r)))
           /\ Rebuilt(r) \in Seq(Element) /\ Len(Rebuilt(r)) <= MaxEntries
           /\ Append(loadedStory[r], EntryOf(r)) \in Seq(Element)
<1>1. /\ loadedStory[r] \in Seq(Element) /\ loaded[r] \in Seq(Element)
      /\ query[r] \in Query /\ loaded[r] = RecencyList(loadedStory[r])
  BY DEF HIndInv, HTypeOK, ReadsAreRecencyLists
<1>2. EntryOf(r) \in Recorded /\ EntryOf(r).query = query[r] /\ EntryOf(r) \in Element
  BY <1>1 DEF EntryOf, Recorded, Element
<1>3. Rebuilt(r) = RecencyList(Append(loadedStory[r], EntryOf(r)))
  <2> HIDE DEF EntryOf
  <2> QED  BY <1>1, <1>2, Rebuilding DEF Rebuilt
<1>4. Append(loadedStory[r], EntryOf(r)) \in Seq(Element)
  BY <1>1, <1>2
<1>5. \A t \in Seq(Element) :
          RecencyList(t) \in Seq(Element) /\ Len(RecencyList(t)) <= MaxEntries
  <2> SUFFICES ASSUME NEW t \in Seq(Element)
               PROVE  RecencyList(t) \in Seq(Element) /\ Len(RecencyList(t)) <= MaxEntries
    OBVIOUS
  <2>1. RecencyList(t) = Cut(Recency(t)) /\ Recency(t) \in Seq(Element)
    BY RecencyType DEF RecencyList, Cut
  <2> QED  BY <2>1, CutIs, HConstants
<1> QED  BY <1>2, <1>3, <1>4, <1>5

LEMMA ReplaceKeeps ==
    ASSUME HIndInv, NEW r \in Search, Replace(r)
    PROVE  HIndInv'
<1> USE DEF HIndInv
<1>1. /\ UNCHANGED <<cache, query, loaded, expiries, loadedStory>>
      /\ place' \in [Search -> {"idle", "workflow", "set", "read", "replace", "done",
                                "failed"}]
      /\ faults' \in 0..MaxFaults
      /\ Replaces(r) \/ UNCHANGED <<history, story>>
  BY HConstants DEF HTypeOK, Replace, Fail
<1>2. /\ history' \in Seq(Element) /\ Len(history') <= MaxEntries /\ story' \in Seq(Element)
      /\ history' = RecencyList(story')
  BY <1>1, RebuiltIs DEF Replaces, HTypeOK, HistoryIsRecencyList
<1>3. HTypeOK'
  BY <1>1, <1>2 DEF HTypeOK
<1>4. ReadsAreRecencyLists'
  BY <1>1 DEF ReadsAreRecencyLists
<1> QED  BY <1>2, <1>3, <1>4 DEF HistoryIsRecencyList

LEMMA ExpireKeeps ==
    ASSUME HIndInv, Expire
    PROVE  HIndInv'
<1> USE DEF HIndInv
<1>1. /\ UNCHANGED <<place, query, loaded, loadedStory, faults>>
      /\ cache' \subseteq Subject
      /\ expiries' \in 0..MaxExpiries
      /\ \/ UNCHANGED <<history, story>>
         \/ history' = <<>> /\ story' = <<>>
  BY HConstants DEF HTypeOK, Expire, request
<1>2. HistoryIsRecencyList'
  BY <1>1, ShortStories DEF HistoryIsRecencyList
<1>3. HTypeOK'
  <2>1. <<>> \in Seq(Element) /\ Len(<<>>) <= MaxEntries
    BY HConstants
  <2> QED  BY <1>1, <2>1 DEF HTypeOK
<1>4. ReadsAreRecencyLists'
  BY <1>1 DEF ReadsAreRecencyLists
<1> QED  BY <1>2, <1>3, <1>4

LEMMA HStepInv == HIndInv /\ [HNext]_hvars => HIndInv'
<1> SUFFICES ASSUME HIndInv, [HNext]_hvars PROVE HIndInv'
  OBVIOUS
<1>1. ASSUME NEW r \in Search, Ask(r) \/ WorkflowReturns(r) \/ SetCache(r)
      PROVE  HIndInv'
  BY <1>1, AskKeeps
<1>2. ASSUME NEW r \in Search, Read(r) PROVE HIndInv'
  BY <1>2, HReadKeeps
<1>3. ASSUME NEW r \in Search, Replace(r) PROVE HIndInv'
  BY <1>3, ReplaceKeeps
<1>4. CASE Expire
  BY <1>4, ExpireKeeps
<1>5. CASE UNCHANGED hvars
  BY <1>5 DEF hvars, request, HIndInv, HTypeOK, HistoryIsRecencyList, ReadsAreRecencyLists
<1> QED  BY <1>1, <1>2, <1>3, <1>4, <1>5 DEF HNext

\* The inductive invariant, of any number of overlapping searches
\* (TriggerJobSearch, upsertJobSearchHistory).
THEOREM HistoryInvariance == HSpec => []HIndInv
<1>1. HInit => HIndInv
  BY HInitInv
<1>2. HIndInv /\ [HNext]_hvars => HIndInv'
  BY HStepInv
<1> QED  BY <1>1, <1>2, PTL DEF HSpec

\* The types, and that neither the stored list nor one a search has read is
\* ever longer than JOB_SEARCH_HISTORY_MAX_ENTRIES.
THEOREM HistoryTypeCorrect == HSpec => []HTypeOK
<1>1. HIndInv => HTypeOK
  BY DEF HIndInv
<1> QED  BY <1>1, HistoryInvariance, PTL

\* The list that upsertJobSearchHistory reads, rebuilds and cuts each time
\* holds the newest distinct queries of everything it comes from, in order.
THEOREM HistoryIsRecent == HSpec => []HistoryIsRecencyList
<1>1. HIndInv => HistoryIsRecencyList
  BY DEF HIndInv
<1> QED  BY <1>1, HistoryInvariance, PTL

\* What a search had read it puts back, except what it replaces and, of a full
\* list, the last.
LEMMA RebuiltKeeps ==
    ASSUME HIndInv, NEW r \in Search,
           NEW x \in Range(loaded[r]), x \notin Foreign, x.query # query[r],
           ~(Len(loaded[r]) = MaxEntries /\ x = Last(loaded[r]))
    PROVE  x \in Range(Rebuilt(r))
<1> DEFINE l == loaded[r]
           e == EntryOf(r)
           q == query[r]
           s == loadedStory[r]
<1>1. /\ l \in Seq(Element) /\ Len(l) <= MaxEntries /\ s \in Seq(Element)
      /\ l = Cut(Recency(s))
  BY DEF HIndInv, HTypeOK, ReadsAreRecencyLists, RecencyList, Cut
<1>2. e \in Element /\ Rebuilt(r) = Cut(<<e>> \o Kept(l, q))
  BY RebuiltIs DEF Rebuilt, Element
<1>3. PICK p : OnlyAt(l, q, p)
  <2>1. Recency(s) \in Seq(Element) /\ \E c : OnlyAt(Recency(s), q, c)
    BY <1>1, RecencyType
  <2> HIDE DEF l, q, s
  <2> QED  BY <1>1, <2>1, CutOnlyAt
<1>4. PICK i \in 1..Len(l) : l[i] = x
  BY <1>1 DEF Range
<1>5. MaxEntries \in Nat \ {0} /\ Len(l) \in Nat
  BY <1>1, HConstants
<1>6. ~Drops(x, q) /\ ~(Len(l) = MaxEntries /\ i = Len(l))
  BY <1>1, <1>4 DEF Drops, Last
<1> HIDE DEF l, e, q, s
<1>7. p \in 1..(Len(l) + 1) /\ i # p
  BY <1>3, <1>4, <1>6 DEF OnlyAt
<1> DEFINE w == Without(l, p)
           k == IF i < p THEN i ELSE i - 1
           b == <<e>> \o w
<1>8. Kept(l, q) = w
  BY <1>1, <1>3, KeptOne
<1>9. w \in Seq(Element) /\ Len(w) = IF p > Len(l) THEN Len(l) ELSE Len(l) - 1
  BY <1>1, <1>7, WithoutType
<1>10. k \in 1..Len(w) /\ k < MaxEntries /\ (IF k < p THEN k ELSE k + 1) = i
  BY <1>1, <1>4, <1>5, <1>6, <1>7, <1>9
<1>11. w[k] = x
  <2>1. k \in 1..(IF p > Len(l) THEN Len(l) ELSE Len(l) - 1)
    BY <1>9, <1>10
  <2>2. w[k] = l[IF k < p THEN k ELSE k + 1]
    <3> HIDE DEF k
    <3> QED  BY <2>1 DEF Without
  <2> QED  BY <1>4, <1>10, <2>2
<1> HIDE DEF w, k
<1>12. /\ b \in Seq(Element) /\ Len(b) = Len(w) + 1
       /\ b = [j \in 1..(Len(w) + 1) |-> IF j = 1 THEN e ELSE w[j - 1]]
  BY <1>2, <1>9, HeadIs
<1>13. b[k + 1] = x /\ k + 1 \in 1..Len(b) /\ k + 1 <= MaxEntries
  BY <1>5, <1>9, <1>10, <1>11, <1>12
<1> HIDE DEF b
<1>14. Cut(b) = [j \in 1..(IF Len(b) > MaxEntries THEN MaxEntries ELSE Len(b)) |-> b[j]]
  BY <1>12, CutIs
<1>15. k + 1 \in 1..(IF Len(b) > MaxEntries THEN MaxEntries ELSE Len(b))
  BY <1>5, <1>10, <1>12, <1>13
<1>16. k + 1 \in DOMAIN Cut(b) /\ Cut(b)[k + 1] = x
  BY <1>13, <1>14, <1>15
<1>17. x \in Range(Cut(b))
  BY <1>16 DEF Range
<1> QED  BY <1>2, <1>8, <1>17 DEF b, w

LEMMA HStepLoses == HIndInv /\ [HNext]_hvars => LosesWithReason
<1> SUFFICES ASSUME HIndInv, [HNext]_hvars, NEW x \in Listed \ Listed', history' # <<>>
             PROVE  \E r \in Search :
                       /\ place[r] = "replace" /\ place'[r] # "replace"
                       /\ \/ x.query = query[r]
                          \/ Len(loaded[r]) = MaxEntries /\ x = Last(loaded[r])
                          \/ x \notin Range(loaded[r])
  BY DEF LosesWithReason
<1>1. x \notin Foreign /\ x \notin Range(history') /\ history' # history
  BY DEF Listed
<1>2. PICK r \in Search : Replace(r)
  <2>1. \A r \in Search : ~Ask(r) /\ ~WorkflowReturns(r) /\ ~SetCache(r) /\ ~Read(r)
    BY <1>1 DEF Ask, WorkflowReturns, SetCache, Read
  <2>2. ~Expire
    BY <1>1 DEF Expire
  <2>3. ~UNCHANGED hvars
    BY <1>1 DEF hvars
  <2> QED  BY <2>1, <2>2, <2>3 DEF HNext
<1>3. place[r] = "replace" /\ place'[r] # "replace"
  BY <1>2 DEF Replace, HIndInv, HTypeOK
<1>4. history' = Rebuilt(r)
  BY <1>1, <1>2 DEF Replace, Replaces
<1> QED  BY <1>1, <1>3, <1>4, RebuiltKeeps

\* A recorded search is lost from the history for the reasons given there and
\* no other, whatever searches overlap (upsertJobSearchHistory).
THEOREM LossesHaveReasons == HSpec => LosesOnlyToOverlap
<1>1. HIndInv /\ [HNext]_hvars => LosesWithReason
  BY HStepLoses
<1> QED  BY <1>1, HistoryInvariance, PTL DEF HSpec, LosesOnlyToOverlap
=============================================================================
