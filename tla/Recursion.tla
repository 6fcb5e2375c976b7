------------------------------ MODULE Recursion ------------------------------
(***************************************************************************)
(* Induction and recursion for the recursive functions of the models, with *)
(* sets and functions in the place of operators.                           *)
(***************************************************************************)
EXTENDS Integers, Sequences, SequenceTheorems, WellFoundedInduction, TLAPS

----------------------------------------------------------------------------
\* Induction.

\* A set of numbers that has an element has a least one.
LEMMA LeastNumber ==
  ASSUME NEW T \in SUBSET Nat, T # {}
  PROVE  \E x \in T : \A y \in T : x <= y
<1> DEFINE R == OpToRel(<, Nat)
<1>1. IsWellFoundedOn(R, Nat)
  BY NatLessThanWellFounded, Zenon
<1> HIDE DEF R
<1>2. PICK x \in T : \A y \in T : ~ (<<y, x>> \in R)
  BY <1>1, WFMin
<1>3. \A y, z \in Nat : y < z => <<y, z>> \in R
  BY DEF R, OpToRel
<1>4. \A y \in T : y \in Nat /\ ~ (y < x)
  BY <1>2, <1>3
<1>5. QED  BY <1>2, <1>4

\* A set of numbers with 0 and the successor of each element has them all.
LEMMA Numbers ==
  ASSUME NEW T \in SUBSET Nat, 0 \in T, \A n \in T : n + 1 \in T
  PROVE  T = Nat
<1> SUFFICES ASSUME Nat \ T # {} PROVE FALSE
  OBVIOUS
<1>1. PICK x \in Nat \ T : \A y \in Nat \ T : x <= y
  BY LeastNumber
<1>2. x # 0 /\ x - 1 \in Nat /\ x - 1 \notin T
  BY <1>1
<1>3. QED  BY <1>1, <1>2

\* From 1 up to some number, each by the one before.
LEMMA UpTo ==
  ASSUME NEW n \in Nat \ {0}, NEW T, 1 \in T,
         \A k \in Nat \ {0} : k \in T /\ k + 1 <= n => k + 1 \in T
  PROVE  \A k \in 1..n : k \in T
<1> DEFINE U == {m \in Nat : m + 1 <= n => m + 1 \in T}
<1>1. 0 \in U
  OBVIOUS
<1>2. ASSUME NEW m \in U PROVE m + 1 \in U
  <2>1. PICK k \in Nat \ {0} : k = m + 1
    OBVIOUS
  <2>2. k + 1 <= n => k \in T
    BY <2>1
  <2>3. QED  BY <2>1, <2>2
<1> HIDE DEF U
<1>3. U = Nat
  BY <1>1, <1>2, Numbers DEF U
<1>4. ASSUME NEW k \in 1..n PROVE k \in T
  <2>1. PICK m \in Nat : k = m + 1 /\ m + 1 <= n
    <3>1. k - 1 \in Nat /\ k = k - 1 + 1 /\ k - 1 + 1 <= n
      OBVIOUS
    <3>2. QED  BY <3>1
  <2>2. QED  BY <1>3, <2>1 DEF U
<1>5. QED  BY <1>4

----------------------------------------------------------------------------
\* Recursion: the value at x is F[x][f], which looks at f only where the
\* argument is smaller.

Recursive(F, S, V, size) ==
  /\ V # {} /\ size \in [S -> Nat] /\ F \in [S -> [[S -> V] -> V]]
  /\ \A x \in S : \A g, h \in [S -> V] :
       (\A y \in S : size[y] < size[x] => g[y] = h[y])
         => F[x][g] = F[x][h]

\* g is right for the arguments smaller than n.
RightBelow(g, n, F, S, size) ==
  \A x \in S : size[x] < n => g[x] = F[x][g]

\* For every n some function is right below n.
LEMMA Approximations ==
  ASSUME NEW S, NEW V, NEW size, NEW F, Recursive(F, S, V, size)
  PROVE  \A n \in Nat : \E g \in [S -> V] : RightBelow(g, n, F, S, size)
<1> DEFINE T == {n \in Nat : \E g \in [S -> V] :
                               RightBelow(g, n, F, S, size)}
<1>1. 0 \in T
  <2>1. PICK v \in V : TRUE
    BY DEF Recursive
  <2> DEFINE g == [x \in S |-> v]
  <2>2. RightBelow(g, 0, F, S, size)
    BY DEF Recursive, RightBelow
  <2>3. g \in [S -> V]
    OBVIOUS
  <2>4. QED  BY <2>2, <2>3
<1>2. ASSUME NEW n \in T PROVE n + 1 \in T
  <2>1. PICK g \in [S -> V] : RightBelow(g, n, F, S, size)
    OBVIOUS
  <2> DEFINE h == [x \in S |-> F[x][g]]
  <2>2. h \in [S -> V]
    BY DEF Recursive
  <2>3. \A x \in S : size[x] < n => h[x] = g[x]
    BY <2>1 DEF RightBelow
  <2>4. ASSUME NEW x \in S, size[x] < n + 1
        PROVE  h[x] = F[x][h]
    <3>1. \A y \in S : size[y] < size[x] => g[y] = h[y]
      BY <2>3, <2>4 DEF Recursive
    <3>2. F[x][g] = F[x][h]
      BY <2>2, <3>1 DEF Recursive
    <3>3. QED  BY <3>2
  <2> HIDE DEF h
  <2>5. QED  BY <2>2, <2>4 DEF RightBelow
<1> HIDE DEF T
<1>3. T = Nat
  BY <1>1, <1>2, Numbers DEF T
<1>4. QED  BY <1>3 DEF T

\* Two functions that are right below m agree there.
LEMMA Agreement ==
  ASSUME NEW S, NEW V, NEW size, NEW F, Recursive(F, S, V, size),
         NEW g \in [S -> V], NEW h \in [S -> V], NEW m \in Nat,
         RightBelow(g, m, F, S, size), RightBelow(h, m, F, S, size)
  PROVE  \A x \in S : size[x] < m => g[x] = h[x]
<1> DEFINE T == {n \in Nat : \A x \in S : size[x] < n /\ size[x] < m
                                => g[x] = h[x]}
<1>1. 0 \in T
  BY DEF Recursive
<1>2. ASSUME NEW n \in T PROVE n + 1 \in T
  <2> SUFFICES ASSUME NEW x \in S, size[x] < n + 1, size[x] < m
               PROVE  g[x] = h[x]
    OBVIOUS
  <2>1. ASSUME NEW y \in S, size[y] < size[x] PROVE g[y] = h[y]
    <3>1. size[y] \in Nat /\ size[x] \in Nat
      BY DEF Recursive
    <3>2. size[y] < n /\ size[y] < m
      BY <2>1, <3>1
    <3>3. QED  BY <3>2
  <2>2. F[x][g] = F[x][h]
    BY <2>1 DEF Recursive
  <2>3. QED  BY <2>2 DEF RightBelow
<1> HIDE DEF T
<1>3. m \in T
  BY <1>1, <1>2, Numbers DEF T
<1>4. QED  BY <1>3 DEF T

\* The function that a recursion defines exists, and has its values in V.
THEOREM RecursionTheorem ==
  ASSUME NEW S, NEW V, NEW size, NEW F, Recursive(F, S, V, size)
  PROVE  \E f \in [S -> V] : \A x \in S : f[x] = F[x][f]
<1> DEFINE Good(g, n) == g \in [S -> V] /\ RightBelow(g, n, F, S, size)
           at == [n \in Nat |-> CHOOSE g : Good(g, n)]
           f  == [x \in S |-> at[size[x] + 1][x]]
<1>1. \A n \in Nat : Good(at[n], n)
  <2> SUFFICES ASSUME NEW n \in Nat PROVE Good(at[n], n)
    OBVIOUS
  <2>1. \E g : Good(g, n)
    BY Approximations
  <2> HIDE DEF Good
  <2>2. QED  BY <2>1
<1> HIDE DEF at
<1>2. \A x \in S : size[x] \in Nat /\ size[x] + 1 \in Nat
  BY DEF Recursive
<1>3. f \in [S -> V]
  BY <1>1, <1>2
<1>4. ASSUME NEW x \in S PROVE f[x] = F[x][f]
  <2>1. PICK g \in [S -> V] : g = at[size[x] + 1]
    BY <1>1, <1>2
  <2>2. RightBelow(g, size[x] + 1, F, S, size)
    BY <1>1, <1>2, <2>1
  <2>3. ASSUME NEW y \in S, size[y] < size[x] PROVE g[y] = f[y]
    <3>1. RightBelow(g, size[y] + 1, F, S, size)
      BY <1>2, <2>2, <2>3 DEF RightBelow
    <3>2. Good(at[size[y] + 1], size[y] + 1)
      BY <1>1, <1>2
    <3>3. PICK h \in [S -> V] : h = at[size[y] + 1]
      BY <3>2
    <3>4. g[y] = h[y]
      BY <1>2, <3>1, <3>2, <3>3, Agreement
    <3>5. QED  BY <3>3, <3>4
  <2>4. F[x][g] = F[x][f]
    BY <1>3, <2>3 DEF Recursive
  <2>5. g[x] = F[x][g]
    BY <1>2, <2>2 DEF RightBelow
  <2>6. QED  BY <2>1, <2>4, <2>5
<1>5. QED  BY <1>3, <1>4
\* f is v after no step, and after each step what G makes of it.
Iterates(f, V, v, n, G) ==
  /\ f \in [0..n -> V]
  /\ \A i \in 0..n : f[i] = IF i = 0 THEN v ELSE G[i][f[i - 1]]

\* There is such a function.
LEMMA Iterated ==
  ASSUME NEW V, NEW v \in V, NEW n \in Nat, NEW G \in [1..n -> [V -> V]]
  PROVE  \E f : Iterates(f, V, v, n, G)
<1> DEFINE S == 0..n
           size == [i \in S |-> i]
           F == [i \in S |-> [g \in [S -> V] |->
                               IF i = 0 THEN v ELSE G[i][g[i - 1]]]]
<1>1. \A i \in S : i # 0 => i \in 1..n /\ i - 1 \in S /\ i - 1 < i
  OBVIOUS
<1>2. V # {} /\ size \in [S -> Nat]
  OBVIOUS
<1>3. \A i \in S : \A g \in [S -> V] :
        (IF i = 0 THEN v ELSE G[i][g[i - 1]]) \in V
  <2> HIDE DEF S
  <2>1. QED  BY <1>1
<1>4. F \in [S -> [[S -> V] -> V]]
  <2> HIDE DEF S
  <2>1. QED  BY <1>3, Zenon
<1>5. ASSUME NEW i \in S, NEW g \in [S -> V], NEW h \in [S -> V],
             \A j \in S : size[j] < size[i] => g[j] = h[j]
      PROVE  F[i][g] = F[i][h]
  <2>1. i # 0 => g[i - 1] = h[i - 1]
    BY <1>1, <1>5
  <2>2. QED  BY <2>1
<1>6. Recursive(F, S, V, size)
  <2> HIDE DEF F, S, size
  <2>1. QED  BY <1>2, <1>4, <1>5 DEF Recursive
<1>7. PICK f \in [S -> V] : \A i \in S : f[i] = F[i][f]
  <2> HIDE DEF F, S, size
  <2>1. QED  BY <1>6, RecursionTheorem
<1>8. QED  BY <1>7 DEF Iterates

----------------------------------------------------------------------------
\* Sums over sequences.

\* f is the sum of the weights w of the elements of X in a sequence.
IsSum(f, w, X) ==
  /\ w \in [X -> Nat] /\ f \in [Seq(X) -> Nat]
  /\ \A s \in Seq(X) :
       f[s] = IF s = <<>> THEN 0 ELSE w[Head(s)] + f[Tail(s)]

\* A function on 1..n is a sequence.
LEMMA SequenceOf ==
  ASSUME NEW X, NEW n \in Nat, NEW s \in [1..n -> X]
  PROVE  s \in Seq(X) /\ Len(s) = n
<1>1. s \in Seq(X)
  BY SeqDef
<1>2. Len(s) \in Nat /\ DOMAIN s = 1..Len(s)
  BY <1>1, LenProperties
<1>3. 1..Len(s) = 1..n
  BY <1>2
<1>4. Len(s) = n
  BY <1>2, <1>3
<1>5. QED  BY <1>1, <1>4

\* What a sequence is taken apart into.
LEMMA HeadTail ==
  ASSUME NEW X, NEW s \in Seq(X), s # <<>>
  PROVE  /\ Head(s) \in X /\ Tail(s) \in Seq(X)
         /\ Len(s) \in Nat \ {0} /\ Len(Tail(s)) = Len(s) - 1
         /\ Head(s) = s[1]
         /\ \A i \in 1..Len(Tail(s)) : Tail(s)[i] = s[i + 1]
  BY HeadTailProperties, EmptySeq, LenProperties

\* A concatenation is taken apart at its first part.
LEMMA HeadTailOfConcat ==
  ASSUME NEW X, NEW s \in Seq(X), NEW t \in Seq(X), s # <<>>
  PROVE  /\ s \o t \in Seq(X) /\ s \o t # <<>>
         /\ Head(s \o t) = Head(s) /\ Tail(s \o t) = Tail(s) \o t
<1>1. PICK r \in Seq(X) : r = s \o t
  BY ConcatProperties
<1>2. /\ Len(r) = Len(s) + Len(t)
      /\ \A i \in 1..(Len(s) + Len(t)) :
           r[i] = IF i <= Len(s) THEN s[i] ELSE t[i - Len(s)]
  BY <1>1, ConcatProperties
<1>3. /\ Len(s) \in Nat \ {0} /\ Len(t) \in Nat
      /\ Len(Tail(s)) = Len(s) - 1 /\ Tail(s) \in Seq(X) /\ Head(s) = s[1]
      /\ \A i \in 1..Len(Tail(s)) : Tail(s)[i] = s[i + 1]
  BY HeadTail, LenProperties
<1>4. r # <<>>
  BY <1>2, <1>3, EmptySeq
<1>5. /\ Len(Tail(r)) = Len(r) - 1 /\ Tail(r) \in Seq(X) /\ Head(r) = r[1]
      /\ \A i \in 1..Len(Tail(r)) : Tail(r)[i] = r[i + 1]
  BY <1>4, HeadTail
<1>6. r[1] = s[1]
  BY <1>2, <1>3
<1>7. PICK q \in Seq(X) : q = Tail(s) \o t
  BY <1>3, ConcatProperties
<1>8. /\ Len(q) = Len(Tail(s)) + Len(t)
      /\ \A i \in 1..(Len(Tail(s)) + Len(t)) :
           q[i] = IF i <= Len(Tail(s)) THEN Tail(s)[i]
                  ELSE t[i - Len(Tail(s))]
  BY <1>3, <1>7, ConcatProperties
<1>9. ASSUME NEW i \in 1..Len(q) PROVE Tail(r)[i] = q[i]
  <2>1. /\ i \in Nat /\ i + 1 \in 1..(Len(s) + Len(t))
        /\ i \in 1..Len(Tail(r)) /\ i \in 1..(Len(Tail(s)) + Len(t))
        /\ i + 1 - Len(s) = i - Len(Tail(s))
        /\ i + 1 <= Len(s) <=> i <= Len(Tail(s))
    BY <1>2, <1>3, <1>5, <1>8
  <2>2. Tail(r)[i] = IF i + 1 <= Len(s) THEN s[i + 1]
                     ELSE t[i + 1 - Len(s)]
    BY <1>2, <1>5, <2>1
  <2>3. q[i] = IF i <= Len(Tail(s)) THEN Tail(s)[i]
               ELSE t[i - Len(Tail(s))]
    BY <1>8, <2>1
  <2>4. i <= Len(Tail(s)) => Tail(s)[i] = s[i + 1]
    BY <1>3, <2>1
  <2>5. QED  BY <2>1, <2>2, <2>3, <2>4
<1>10. Len(Tail(r)) = Len(q)
  BY <1>2, <1>3, <1>5, <1>8
<1>11. Tail(r) = q
  BY <1>5, <1>7, <1>9, <1>10, SeqEqual
<1>12. QED  BY <1>1, <1>3, <1>4, <1>5, <1>6, <1>7, <1>11

\* Weights can be summed over every sequence.
LEMMA SumExists ==
  ASSUME NEW X, NEW w \in [X -> Nat]
  PROVE  \E f : IsSum(f, w, X)
<1> DEFINE size == [s \in Seq(X) |-> Len(s)]
           V == Nat
           F == [s \in Seq(X) |-> [g \in [Seq(X) -> V] |->
                   IF s = <<>> THEN 0 ELSE w[Head(s)] + g[Tail(s)]]]
<1>1. \A s \in Seq(X) : s # <<>> =>
        /\ w[Head(s)] \in Nat /\ Tail(s) \in Seq(X)
        /\ size[Tail(s)] < size[s]
  <2> SUFFICES ASSUME NEW s \in Seq(X), s # <<>>
               PROVE  /\ w[Head(s)] \in Nat /\ Tail(s) \in Seq(X)
                      /\ size[Tail(s)] < size[s]
    OBVIOUS
  <2>1. QED  BY HeadTail
<1>2. size \in [Seq(X) -> Nat]
  BY LenProperties
<1> HIDE DEF size
<1>3. Recursive(F, Seq(X), V, size)
  <2>1. F \in [Seq(X) -> [[Seq(X) -> V] -> V]]
    <3>1. \A s \in Seq(X), g \in [Seq(X) -> V] :
            (IF s = <<>> THEN 0 ELSE w[Head(s)] + g[Tail(s)]) \in V
      <4> SUFFICES ASSUME NEW s \in Seq(X), NEW g \in [Seq(X) -> Nat]
                   PROVE  (IF s = <<>> THEN 0
                           ELSE w[Head(s)] + g[Tail(s)]) \in Nat
        OBVIOUS
      <4>1. CASE s = <<>>
        BY <4>1
      <4>2. CASE s # <<>>
        <5>1. w[Head(s)] \in Nat /\ g[Tail(s)] \in Nat
          BY <1>1, <4>2
        <5>2. QED  BY <4>2, <5>1
      <4>3. QED  BY <4>1, <4>2
    <3> HIDE DEF V
    <3>2. QED  BY <3>1, Zenon
  <2>2. ASSUME NEW s \in Seq(X), NEW g \in [Seq(X) -> V],
               NEW h \in [Seq(X) -> V],
               \A y \in Seq(X) : size[y] < size[s] => g[y] = h[y]
        PROVE  F[s][g] = F[s][h]
    <3>1. s # <<>> => g[Tail(s)] = h[Tail(s)]
      BY <1>1, <2>2
    <3>2. QED  BY <3>1
  <2>3. V # {}
    OBVIOUS
  <2> HIDE DEF F, V
  <2>4. QED  BY <1>2, <2>1, <2>2, <2>3 DEF Recursive
<1>4. PICK f \in [Seq(X) -> V] : \A s \in Seq(X) : f[s] = F[s][f]
  <2> HIDE DEF F, V
  <2>1. QED  BY <1>3, RecursionTheorem
<1>5. QED  BY <1>4 DEF IsSum

\* The equation determines the sum.
LEMMA SumIs ==
  ASSUME NEW X, NEW w \in [X -> Nat], NEW f,
         f = [s \in Seq(X) |-> IF s = <<>> THEN 0
                               ELSE w[Head(s)] + f[Tail(s)]]
  PROVE  IsSum(f, w, X)
<1> DEFINE T == {n \in Nat : \A s \in Seq(X) : Len(s) = n => f[s] \in Nat}
<1>0. \A s \in Seq(X) : f[s] = IF s = <<>> THEN 0
                                ELSE w[Head(s)] + f[Tail(s)]
  OBVIOUS
<1>1. 0 \in T
  <2>1. \A s \in Seq(X) : Len(s) = 0 => s = <<>>
    BY EmptySeq
  <2>2. QED  BY <1>0, <2>1
<1>2. ASSUME NEW n \in T PROVE n + 1 \in T
  <2> SUFFICES ASSUME NEW s \in Seq(X), Len(s) = n + 1 PROVE f[s] \in Nat
    OBVIOUS
  <2>1. s # <<>>
    BY EmptySeq
  <2>2. Head(s) \in X /\ Tail(s) \in Seq(X) /\ Len(Tail(s)) = n
    BY <2>1, HeadTail
  <2>3. w[Head(s)] \in Nat /\ f[Tail(s)] \in Nat
    BY <2>2
  <2>4. f[s] = w[Head(s)] + f[Tail(s)]
    BY <1>0, <2>1
  <2>5. QED  BY <2>3, <2>4
<1> HIDE DEF T
<1>3. T = Nat
  BY <1>1, <1>2, Numbers DEF T
<1>4. \A s \in Seq(X) : Len(s) \in Nat
  BY LenProperties
<1>5. \A s \in Seq(X) : f[s] \in Nat
  BY <1>3, <1>4 DEF T
<1>6. f \in [Seq(X) -> Nat]
  <2>1. f = [s \in Seq(X) |-> f[s]]
    BY Zenon
  <2>2. QED  BY <1>5, <2>1, Zenon
<1>7. QED  BY <1>0, <1>6 DEF IsSum

\* The sum of one element is its weight, of none it is 0.
LEMMA SumOfOne ==
  ASSUME NEW X, NEW w, NEW f, IsSum(f, w, X), NEW x \in X
  PROVE  f[<<x>>] = w[x] /\ f[<<>>] = 0
<1>1. <<x>> \in Seq(X) /\ <<>> \in Seq(X) /\ <<x>> # <<>>
      /\ Head(<<x>>) = x /\ Tail(<<x>>) = <<>>
  OBVIOUS
<1>2. w[x] \in Nat
  BY DEF IsSum
<1>3. f[<<>>] = 0
  BY <1>1 DEF IsSum
<1>4. f[<<x>>] = w[Head(<<x>>)] + f[Tail(<<x>>)]
  BY <1>1 DEF IsSum
<1>5. QED  BY <1>1, <1>2, <1>3, <1>4

\* The sum of a concatenation is the sum of the sums.
LEMMA SumOfConcat ==
  ASSUME NEW X, NEW w, NEW f, IsSum(f, w, X)
  PROVE  \A s, t \in Seq(X) : s \o t \in Seq(X) /\ f[s \o t] = f[s] + f[t]
<1> SUFFICES ASSUME NEW t \in Seq(X)
             PROVE  \A s \in Seq(X) : /\ s \o t \in Seq(X)
                                      /\ f[s \o t] = f[s] + f[t]
  OBVIOUS
<1> DEFINE T == {n \in Nat : \A s \in Seq(X) : Len(s) = n
                               => f[s \o t] = f[s] + f[t]}
<1>1. 0 \in T
  <2> SUFFICES ASSUME NEW s \in Seq(X), Len(s) = 0
               PROVE  f[s \o t] = f[s] + f[t]
    OBVIOUS
  <2>1. s = <<>> /\ s \o t = t
    BY EmptySeq, ConcatEmptySeq
  <2>2. f[s] = 0 /\ f[t] \in Nat
    BY <2>1 DEF IsSum
  <2>3. QED  BY <2>1, <2>2
<1>2. ASSUME NEW n \in T PROVE n + 1 \in T
  <2> SUFFICES ASSUME NEW s \in Seq(X), Len(s) = n + 1
               PROVE  f[s \o t] = f[s] + f[t]
    OBVIOUS
  <2>1. s # <<>>
    BY EmptySeq
  <2>2. /\ Head(s) \in X /\ Tail(s) \in Seq(X) /\ Len(Tail(s)) = n
    BY <2>1, HeadTail
  <2>3. /\ s \o t \in Seq(X) /\ s \o t # <<>>
        /\ Head(s \o t) = Head(s) /\ Tail(s \o t) = Tail(s) \o t
    <3>1. s \o t \in Seq(X) /\ Len(s \o t) = Len(s) + Len(t)
      BY ConcatProperties
    <3>2. s \o t # <<>>
      BY <3>1, LenProperties
    <3>3. Head(s \o t) = Head(s) /\ Tail(s \o t) = Tail(s) \o t
      BY <2>1, HeadTailOfConcat
    <3>4. QED  BY <3>1, <3>2, <3>3
  <2>4. f[s \o t] = w[Head(s)] + f[Tail(s) \o t]
    BY <2>3 DEF IsSum
  <2>5. f[Tail(s) \o t] = f[Tail(s)] + f[t]
    BY <2>2
  <2>6. f[s] = w[Head(s)] + f[Tail(s)]
    BY <2>1 DEF IsSum
  <2>7. w[Head(s)] \in Nat /\ f[Tail(s)] \in Nat /\ f[t] \in Nat
    BY <2>2 DEF IsSum
  <2>8. QED  BY <2>4, <2>5, <2>6, <2>7
<1> HIDE DEF T
<1>3. T = Nat
  BY <1>1, <1>2, Numbers DEF T
<1>4. \A s \in Seq(X) : Len(s) \in T
  BY <1>3, LenProperties
<1>5. QED  BY <1>4, ConcatProperties DEF T

\* Where every element weighs one, the sum is the length.
LEMMA SumOfOnes ==
  ASSUME NEW X, NEW w, NEW f, IsSum(f, w, X),
         NEW Y \in SUBSET X, \A y \in Y : w[y] = 1
  PROVE  \A s \in Seq(Y) : f[s] = Len(s)
<1> DEFINE T == {n \in Nat : \A s \in Seq(Y) : Len(s) = n => f[s] = n}
<1>0. \A s \in Seq(Y) : s \in Seq(X)
  OBVIOUS
<1>1. 0 \in T
  <2> SUFFICES ASSUME NEW s \in Seq(Y), Len(s) = 0 PROVE f[s] = 0
    OBVIOUS
  <2>1. s = <<>>
    BY EmptySeq
  <2>2. QED  BY <1>0, <2>1 DEF IsSum
<1>2. ASSUME NEW n \in T PROVE n + 1 \in T
  <2> SUFFICES ASSUME NEW s \in Seq(Y), Len(s) = n + 1 PROVE f[s] = n + 1
    OBVIOUS
  <2>1. s # <<>>
    BY EmptySeq
  <2>2. Head(s) \in Y /\ Tail(s) \in Seq(Y) /\ Len(Tail(s)) = n
    BY <2>1, HeadTail
  <2>3. f[s] = w[Head(s)] + f[Tail(s)]
    BY <1>0, <2>1 DEF IsSum
  <2>4. w[Head(s)] = 1
    BY <2>2
  <2>5. f[Tail(s)] = n /\ n \in Nat
    BY <2>2
  <2>6. QED  BY <2>3, <2>4, <2>5
<1> HIDE DEF T
<1>3. T = Nat
  BY <1>1, <1>2, Numbers DEF T
<1>4. \A s \in Seq(Y) : Len(s) \in Nat
  BY LenProperties
<1>5. QED  BY <1>3, <1>4 DEF T

\* A sequence that begins with something of a weight has one.
LEMMA SumPositive ==
  ASSUME NEW X, NEW w, NEW f, IsSum(f, w, X),
         NEW s \in Seq(X), s # <<>>, w[Head(s)] > 0
  PROVE  f[s] > 0
<1>1. Head(s) \in X /\ Tail(s) \in Seq(X)
  BY HeadTail
<1>2. w[Head(s)] \in Nat /\ f[Tail(s)] \in Nat
  BY <1>1 DEF IsSum
<1>3. f[s] = w[Head(s)] + f[Tail(s)]
  BY DEF IsSum
<1>4. QED  BY <1>2, <1>3

=============================================================================
