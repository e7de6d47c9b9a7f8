--------------------------- MODULE LibraryProofs ----------------------------
(***************************************************************************)
(* Theorems about the pure parts of the irc package (reading and writing   *)
(* messages, client ids, masks, the validation of a message), and about    *)
(* the message filters of irc/filters: RateLimit, and AutoPing with        *)
(* AutoPong.                                                               *)
(***************************************************************************)
EXTENDS Codec, Validate, Names, Filters, PingPong, SequenceTheorems,
        WellFoundedInduction, TLAPS

-----------------------------------------------------------------------------
(* Induction over numbers, and functions defined by recursion over them.   *)

\* Every set of numbers that is not empty has a least one ...
LEMMA Least ==
    ASSUME NEW T \in SUBSET Nat, NEW n \in T
    PROVE  \E x \in T : \A y \in T : x <= y
  <1> DEFINE R == OpToRel(<, Nat)
  <1>1. IsWellFoundedOn(R, Nat)
    BY NatLessThanWellFounded
  <1>2. \A x, y \in Nat : y < x => <<y, x>> \in R
    BY DEF OpToRel
  <1> HIDE DEF R
  <1>3. PICK x \in T : \A y \in T : ~ (<<y, x>> \in R)
    BY <1>1, WFMin
  <1>4. ASSUME NEW y \in T PROVE x <= y
    <2>1. x \in Nat /\ y \in Nat
      OBVIOUS
    <2>2. ~ (y < x)
      <3>1. ~ (<<y, x>> \in R)
        BY <1>3
      <3>2. y < x => <<y, x>> \in R
        BY <1>2, <2>1
      <3> QED BY <3>1, <3>2
    <2> QED BY <2>1, <2>2
  <1> QED BY <1>4

\* ... so that there is induction for sets of numbers.
LEMMA Induction ==
    ASSUME NEW T, 0 \in T, \A n \in Nat : n \in T => n + 1 \in T
    PROVE  Nat \subseteq T
  <1> SUFFICES ASSUME NEW k \in Nat, k \notin T PROVE FALSE
    OBVIOUS
  <1> DEFINE U == Nat \ T
  <1>1. PICK x \in U : \A y \in U : x <= y
    BY Least
  <1>2. x \in Nat /\ x # 0 /\ x \notin T
    OBVIOUS
  <1>3. x - 1 \in Nat /\ x - 1 \notin U
    BY <1>1, <1>2
  <1>4. (x - 1) + 1 \in T
    BY <1>3
  <1> QED BY <1>2, <1>4

\* f is what the rules F make it for the members of D whose size is below n.
Follows(D, size, F, f, n) == \A s \in D : size[s] < n => f[s] = F[s][f]

\* F[s][f] depends only on what f is for smaller members of D.
Rules(D, E, size, F) ==
    /\ size \in [D -> Nat]
    /\ F \in [D -> [[D -> E] -> E]]
    /\ \A s \in D : \A f, g \in [D -> E] :
          (\A t \in D : size[t] < size[s] => f[t] = g[t]) => F[s][f] = F[s][g]

\* There is a function that follows the rules as far as any size.
LEMMA FollowsSome ==
    ASSUME NEW D, NEW E, NEW e \in E, NEW size, NEW F,
           Rules(D, E, size, F), NEW n \in Nat
    PROVE  \E f \in [D -> E] : Follows(D, size, F, f, n)
  <1>0. size \in [D -> Nat] /\ F \in [D -> [[D -> E] -> E]]
    BY DEF Rules
  <1> USE <1>0
  <1> DEFINE T == {k \in Nat : \E f \in [D -> E] : Follows(D, size, F, f, k)}
  <1>1. 0 \in T
    <2>1. [s \in D |-> e] \in [D -> E]
      OBVIOUS
    <2>2. Follows(D, size, F, [s \in D |-> e], 0)
      BY DEF Follows
    <2> QED BY <2>1, <2>2
  <1>2. ASSUME NEW k \in Nat, k \in T PROVE k + 1 \in T
    <2>1. PICK f \in [D -> E] : Follows(D, size, F, f, k)
      BY <1>2
    <2> DEFINE g == [s \in D |-> F[s][f]]
    <2>2. g \in [D -> E] /\ \A s \in D : g[s] = F[s][f]
      OBVIOUS
    <2> HIDE DEF g
    <2>3. ASSUME NEW s \in D, size[s] < k + 1 PROVE g[s] = F[s][g]
      <3>1. ASSUME NEW t \in D, size[t] < size[s] PROVE f[t] = g[t]
        <4>1. size[t] < k
          BY <2>3, <3>1
        <4> QED BY <2>1, <2>2, <4>1 DEF Follows
      <3>2. F[s][f] = F[s][g]
        BY <2>2, <3>1 DEF Rules
      <3> QED BY <2>2, <3>2
    <2>4. Follows(D, size, F, g, k + 1)
      BY <2>3 DEF Follows
    <2> QED BY <2>2, <2>4
  <1> HIDE DEF T
  <1>3. n \in T
    BY <1>1, <1>2, Induction
  <1> QED BY <1>3 DEF T

\* Functions that follow the rules agree as far as they do.
LEMMA FollowsOnce ==
    ASSUME NEW D, NEW E, NEW size, NEW F, Rules(D, E, size, F), NEW n \in Nat,
           NEW f \in [D -> E], NEW g \in [D -> E],
           Follows(D, size, F, f, n), Follows(D, size, F, g, n)
    PROVE  \A s \in D : size[s] < n => f[s] = g[s]
  <1>0. size \in [D -> Nat] /\ F \in [D -> [[D -> E] -> E]]
    BY DEF Rules
  <1> USE <1>0
  <1> DEFINE T == {k \in Nat : k <= n => \A s \in D : size[s] < k => f[s] = g[s]}
  <1>1. 0 \in T
    OBVIOUS
  <1>2. ASSUME NEW k \in Nat, k \in T PROVE k + 1 \in T
    <2> SUFFICES ASSUME k + 1 <= n, NEW s \in D, size[s] < k + 1 PROVE f[s] = g[s]
      OBVIOUS
    <2>1. ASSUME NEW t \in D, size[t] < size[s] PROVE f[t] = g[t]
      <3>1. size[t] < k /\ k <= n
        BY <2>1
      <3> QED BY <1>2, <3>1
    <2>2. F[s][f] = F[s][g]
      BY <2>1 DEF Rules
    <2>3. size[s] < n
      OBVIOUS
    <2> QED BY <2>2, <2>3 DEF Follows
  <1> HIDE DEF T
  <1>3. n \in T
    BY <1>1, <1>2, Induction
  <1> QED BY <1>3 DEF T

\* A function may be defined by recursion over smaller members of its domain.
LEMMA Recursion ==
    ASSUME NEW D, NEW E, NEW e \in E, NEW size, NEW F, Rules(D, E, size, F)
    PROVE  \E f \in [D -> E] : f = [s \in D |-> F[s][f]]
  <1>0. size \in [D -> Nat] /\ F \in [D -> [[D -> E] -> E]]
    BY DEF Rules
  <1> USE <1>0
  <1> DEFINE p == [n \in Nat |-> CHOOSE f \in [D -> E] : Follows(D, size, F, f, n)]
  <1>1. ASSUME NEW n \in Nat PROVE p[n] \in [D -> E] /\ Follows(D, size, F, p[n], n)
    BY FollowsSome
  <1> HIDE DEF p
  <1>a. ASSUME NEW n \in Nat, NEW k \in Nat, k <= n
        PROVE  \A s \in D : size[s] < k => p[n][s] = p[k][s]
    <2>1. /\ p[n] \in [D -> E] /\ Follows(D, size, F, p[n], n)
          /\ p[k] \in [D -> E] /\ Follows(D, size, F, p[k], k)
      BY <1>1
    <2>2. Follows(D, size, F, p[n], k)
      BY <2>1, <1>a DEF Follows
    <2> DEFINE f == p[n]
               g == p[k]
    <2> HIDE DEF f, g
    <2>3. f = p[n] /\ g = p[k]
      BY DEF f, g
    <2>4. f \in [D -> E] /\ g \in [D -> E] /\ Follows(D, size, F, f, k) /\ Follows(D, size, F, g, k)
      BY <2>1, <2>2, <2>3
    <2>5. f \in [D -> E] /\ g \in [D -> E]
      BY <2>4
    <2>6. \A u \in D : size[u] < k => f[u] = g[u]
      BY <1>a, <2>4, <2>5, FollowsOnce, SMTT(40)
    <2> QED BY <2>3, <2>6
  <1> DEFINE h == [s \in D |-> p[size[s] + 1][s]]
  <1>2. h \in [D -> E]
    BY <1>1
  <1>3. ASSUME NEW s \in D PROVE h[s] = p[size[s] + 1][s]
    OBVIOUS
  <1> HIDE DEF h
  <1>4. ASSUME NEW s \in D PROVE h[s] = F[s][h]
    <2> DEFINE n == size[s] + 1
               f == p[n]
    <2>0. n \in Nat /\ size[s] \in Nat /\ size[s] < n
      OBVIOUS
    <2>1. f \in [D -> E] /\ Follows(D, size, F, f, n)
      BY <1>1, <2>0
    <2>2. ASSUME NEW t \in D, size[t] < size[s] PROVE f[t] = h[t]
      <3> DEFINE k == size[t] + 1
                 g == p[k]
      <3>1. k \in Nat /\ k <= n /\ size[t] \in Nat /\ size[t] < k
        BY <2>2
      <3>3. h[t] = g[t]
        BY <1>3
      <3>4. \A u \in D : size[u] < k => p[n][u] = p[k][u]
        BY <1>a, <2>0, <3>1
      <3> QED BY <3>1, <3>3, <3>4
    <2>3. h[s] = f[s]
      BY <1>3
    <2> HIDE DEF n, f
    <2>4. f[s] = F[s][f]
      BY <2>0, <2>1 DEF Follows
    <2>5. F[s][f] = F[s][h]
      BY <1>2, <2>1, <2>2 DEF Rules
    <2> QED BY <2>3, <2>4, <2>5
  <1>5. h = [s \in D |-> F[s][h]]
    BY <1>2, <1>4
  <1> QED BY <1>2, <1>5

-----------------------------------------------------------------------------
(* FlattenSeq.                                                             *)

\* f is what has been glued together after each of the sequences ss.
Glued(f, ss) ==
    /\ f[0] = <<>>
    /\ \A k \in 1..Len(ss) : f[k] = f[k - 1] \o ss[k]

\* What is glued together is determined by the sequences.
LEMMA GluedOnce ==
    ASSUME NEW ss, Len(ss) \in Nat, NEW f, Glued(f, ss), NEW g, Glued(g, ss)
    PROVE  \A n \in 0..Len(ss) : f[n] = g[n]
  <1> DEFINE T == {n \in Nat : n <= Len(ss) => f[n] = g[n]}
  <1>1. 0 \in T
    BY DEF Glued
  <1>2. ASSUME NEW n \in Nat, n \in T PROVE n + 1 \in T
    <2> SUFFICES ASSUME n + 1 <= Len(ss) PROVE f[n + 1] = g[n + 1]
      OBVIOUS
    <2>1. n + 1 \in 1..Len(ss) /\ (n + 1) - 1 = n /\ n <= Len(ss)
      OBVIOUS
    <2>2. f[n] = g[n]
      BY <1>2, <2>1
    <2> QED BY <2>1, <2>2 DEF Glued
  <1> HIDE DEF T
  <1>3. Nat \subseteq T
    BY <1>1, <1>2, Induction
  <1> QED BY <1>3 DEF T

\* The recursive function in FlattenSeq exists.
LEMMA FlattenIs ==
    ASSUME NEW S, NEW ss \in Seq(Seq(S))
    PROVE  \E f : /\ Glued(f, ss) /\ FlattenSeq(ss) = f[Len(ss)]
                  /\ \A k \in 0..Len(ss) : f[k] \in Seq(S)
  <1>1. /\ Len(ss) \in Nat /\ \A k \in 1..Len(ss) : ss[k] \in Seq(S)
        /\ Len(ss) = 0 => ss = <<>>
        /\ <<>> \in Seq(S)
    BY ElementOfSeq, EmptySeq
  <1>2. CASE Len(ss) = 0
    <2>1. FlattenSeq(ss) = <<>>
      BY <1>1, <1>2 DEF FlattenSeq
    <2> DEFINE f == [k \in {0} |-> <<>>]
    <2>2. f[0] = <<>>
      OBVIOUS
    <2> HIDE DEF f
    <2>3. Glued(f, ss)
      BY <1>2, <2>2 DEF Glued
    <2>4. FlattenSeq(ss) = f[Len(ss)]
      BY <1>2, <2>1, <2>2
    <2>5. ASSUME NEW k \in 0..Len(ss) PROVE f[k] \in Seq(S)
      <3>1. k = 0
        BY <1>2
      <3> QED BY <1>1, <2>2, <3>1
    <2> QED BY <2>3, <2>4, <2>5
  <1>3. CASE Len(ss) # 0
    <2> DEFINE D == 1..Len(ss)
               E == Seq(S)
               size == [k \in D |-> k]
               F == [k \in D |-> [f \in [D -> E] |->
                       IF k = 1 THEN ss[k] ELSE f[k - 1] \o ss[k]]]
    <2>1. ASSUME NEW k \in D PROVE k \in Nat /\ (k # 1 => k - 1 \in D /\ k - 1 < k)
      BY <1>1
    <2>2. size \in [D -> Nat] /\ \A k \in D : size[k] = k
      BY <2>1
    <2>3. ASSUME NEW k \in D, NEW f \in [D -> E]
          PROVE  (IF k = 1 THEN ss[k] ELSE f[k - 1] \o ss[k]) \in E
      <3>1. CASE k = 1
        BY <1>1, <3>1
      <3>2. CASE k # 1
        <4>1. f[k - 1] \in Seq(S) /\ ss[k] \in Seq(S)
          BY <1>1, <2>1, <3>2
        <4> QED BY <3>2, <4>1, ConcatProperties
      <3> QED BY <3>1, <3>2
    <2>4. F \in [D -> [[D -> E] -> E]]
      BY <2>3
    <2>5. \A k \in D : \A f \in [D -> E] :
             F[k][f] = IF k = 1 THEN ss[k] ELSE f[k - 1] \o ss[k]
      OBVIOUS
    <2> HIDE DEF F, size
    <2>6. Rules(D, E, size, F)
      <3>1. ASSUME NEW k \in D, NEW f \in [D -> E], NEW g \in [D -> E],
                   \A t \in D : size[t] < size[k] => f[t] = g[t]
            PROVE  F[k][f] = F[k][g]
        <4>1. k # 1 => f[k - 1] = g[k - 1]
          BY <2>1, <2>2, <3>1
        <4>2. /\ F[k][f] = IF k = 1 THEN ss[k] ELSE f[k - 1] \o ss[k]
              /\ F[k][g] = IF k = 1 THEN ss[k] ELSE g[k - 1] \o ss[k]
          BY <2>5
        <4>3. CASE k = 1
          BY <4>2, <4>3
        <4>4. CASE k # 1
          BY <4>1, <4>2, <4>4
        <4> QED BY <4>3, <4>4
      <3> QED BY <2>2, <2>4, <3>1 DEF Rules
    <2>7. PICK f \in [D -> E] : f = [k \in D |-> F[k][f]]
      <3> HIDE DEF D, E
      <3>1. <<>> \in E
        BY <1>1 DEF E
      <3> QED BY <2>6, <3>1, Recursion
    <2> DEFINE Flatten(f0) == f0 = [k \in 1..Len(ss) |->
                                     IF k = 1 THEN ss[k] ELSE f0[k - 1] \o ss[k]]
    <2>8. Flatten(f)
      BY <2>5, <2>7
    <2>9. FlattenSeq(ss) = (CHOOSE f0 : Flatten(f0))[Len(ss)]
      BY <1>3 DEF FlattenSeq
    <2>10. PICK h : Flatten(h) /\ FlattenSeq(ss) = h[Len(ss)]
      BY <2>8, <2>9
    <2>11. \A k \in 1..Len(ss) : h[k] = IF k = 1 THEN ss[k] ELSE h[k - 1] \o ss[k]
      BY <2>10
    <2> DEFINE g == [k \in 0..Len(ss) |-> IF k = 0 THEN <<>> ELSE h[k]]
               f1 == [k \in 0..Len(ss) |-> IF k = 0 THEN <<>> ELSE f[k]]
    <2>12. /\ g[0] = <<>> /\ \A k \in 1..Len(ss) : g[k] = h[k]
           /\ f1[0] = <<>> /\ \A k \in 1..Len(ss) : f1[k] = f[k]
      BY <1>1
    <2>13. \A k \in 1..Len(ss) : f[k] = IF k = 1 THEN ss[k] ELSE f[k - 1] \o ss[k]
      BY <2>8
    <2> HIDE DEF g, f1, Flatten
    <2>14. ASSUME NEW k \in 1..Len(ss)
           PROVE  g[k] = g[k - 1] \o ss[k] /\ f1[k] = f1[k - 1] \o ss[k]
      <3>1. CASE k = 1
        <4>1. ss[k] \in Seq(S) /\ <<>> \o ss[k] = ss[k]
          BY <1>1, ConcatEmptySeq
        <4>2. k - 1 = 0
          BY <3>1
        <4>3. h[k] = ss[k] /\ f[k] = ss[k]
          BY <2>11, <2>13, <3>1
        <4> QED BY <2>12, <4>1, <4>2, <4>3
      <3>2. CASE k # 1
        <4>1. k - 1 \in 1..Len(ss)
          BY <1>1, <3>2
        <4> QED BY <2>11, <2>12, <2>13, <3>2, <4>1
      <3> QED BY <3>1, <3>2
    <2>15. Glued(g, ss) /\ Glued(f1, ss)
      BY <2>12, <2>14 DEF Glued
    <2>16. \A k \in 0..Len(ss) : g[k] = f1[k]
      BY <1>1, <2>15, GluedOnce
    <2>17. ASSUME NEW k \in 0..Len(ss) PROVE f1[k] \in Seq(S)
      <3>1. CASE k = 0
        BY <1>1, <2>12, <3>1
      <3>2. CASE k # 0
        <4>1. k \in 1..Len(ss)
          BY <3>2, <1>1
        <4>2. f1[k] = f[k] /\ f[k] \in E
          BY <2>7, <2>12, <4>1
        <4> QED BY <4>2
      <3> QED BY <3>1, <3>2
    <2>18. g[Len(ss)] = h[Len(ss)]
      BY <1>1, <1>3, <2>12
    <2> QED BY <2>10, <2>15, <2>16, <2>17, <2>18
  <1> QED BY <1>2, <1>3

\* What is glued together in the end is the result.
LEMMA FlattenOf ==
    ASSUME NEW S, NEW ss \in Seq(Seq(S)), NEW f, Glued(f, ss)
    PROVE  FlattenSeq(ss) = f[Len(ss)] /\ FlattenSeq(ss) \in Seq(S)
  <1>1. Len(ss) \in Nat /\ Len(ss) \in 0..Len(ss)
    OBVIOUS
  <1>2. PICK g : /\ Glued(g, ss) /\ FlattenSeq(ss) = g[Len(ss)]
                 /\ \A k \in 0..Len(ss) : g[k] \in Seq(S)
    BY FlattenIs
  <1>3. f[Len(ss)] = g[Len(ss)]
    BY <1>1, <1>2, GluedOnce
  <1> QED BY <1>1, <1>2, <1>3

\* One sequence, and one in front of others.
LEMMA FlattenFirst ==
    ASSUME NEW S, NEW s \in Seq(S)
    PROVE  /\ FlattenSeq(<<>>) = <<>>
           /\ FlattenSeq(<<s>>) = s
           /\ \A ss \in Seq(Seq(S)) : FlattenSeq(<<s>> \o ss) = s \o FlattenSeq(ss)
  <1>0. <<>> \in Seq(Seq(S)) /\ <<>> \in Seq(S) /\ <<s>> \in Seq(Seq(S))
        /\ <<>> \o s = s /\ s \o <<>> = s
    BY EmptySeq, ConcatEmptySeq
  <1>1. FlattenSeq(<<>>) = <<>>
    BY DEF FlattenSeq
  <1>4. \A a, b \in Seq(S) : s \o (a \o b) = (s \o a) \o b
    BY ConcatAssociative, SMTT(40)
  <1>3. ASSUME NEW ss \in Seq(Seq(S)) PROVE FlattenSeq(<<s>> \o ss) = s \o FlattenSeq(ss)
    <2>1. PICK f : /\ Glued(f, ss) /\ FlattenSeq(ss) = f[Len(ss)]
                   /\ \A k \in 0..Len(ss) : f[k] \in Seq(S)
      BY FlattenIs
    <2> DEFINE tt == <<s>> \o ss
               g == [k \in 0..Len(ss) + 1 |-> IF k = 0 THEN <<>> ELSE s \o f[k - 1]]
    <2>2. /\ tt \in Seq(Seq(S)) /\ Len(tt) = Len(ss) + 1 /\ Len(ss) \in Nat
          /\ tt[1] = s /\ \A k \in 1..Len(ss) : tt[k + 1] = ss[k]
      <3>1. Len(<<s>>) = 1 /\ <<s>>[1] = s /\ Len(ss) \in Nat
        OBVIOUS
      <3> HIDE DEF g
      <3>2. /\ tt \in Seq(Seq(S)) /\ Len(tt) = 1 + Len(ss)
            /\ \A k \in 1..1 + Len(ss) : tt[k] = IF k <= 1 THEN <<s>>[k] ELSE ss[k - 1]
        BY <1>0, <3>1, ConcatProperties
      <3> HIDE DEF tt
      <3>3. tt[1] = s
        BY <3>1, <3>2
      <3>4. ASSUME NEW k \in 1..Len(ss) PROVE tt[k + 1] = ss[k]
        <4>1. k + 1 \in 1..1 + Len(ss) /\ ~(k + 1 <= 1) /\ (k + 1) - 1 = k
          BY <3>1
        <4> QED BY <3>2, <4>1
      <3> QED BY <3>1, <3>2, <3>3, <3>4
    <2>3. g[0] = <<>> /\ \A k \in 0..Len(ss) : g[k + 1] = s \o f[k]
      <3>1. ASSUME NEW k \in 0..Len(ss)
            PROVE  k + 1 \in 0..Len(ss) + 1 /\ k + 1 # 0 /\ (k + 1) - 1 = k
        BY <2>2
      <3>2. 0 \in 0..Len(ss) + 1
        BY <2>2
      <3> QED BY <3>1, <3>2
    <2> HIDE DEF tt, g
    <2>4. ASSUME NEW k \in 1..Len(tt) PROVE g[k] = g[k - 1] \o tt[k]
      <3>1. CASE k = 1
        <4>1. f[0] = <<>> /\ 0 \in 0..Len(ss) /\ 0 + 1 = 1
          BY <2>1, <2>2 DEF Glued
        <4>2. g[1] = s \o f[0]
          BY <2>3, <4>1
        <4> QED BY <1>0, <2>2, <2>3, <3>1, <4>1, <4>2, SMTT(40)
      <3>2. CASE k # 1
        <4> DEFINE j == k - 1
        <4>1. j \in 1..Len(ss) /\ j - 1 \in 0..Len(ss) /\ j \in 0..Len(ss)
              /\ k = j + 1 /\ (j - 1) + 1 = j
          BY <2>2, <3>2
        <4> HIDE DEF j
        <4>2. f[j] = f[j - 1] \o ss[j] /\ tt[k] = ss[j]
          BY <2>1, <2>2, <4>1 DEF Glued
        <4>3. g[k] = s \o f[j] /\ g[j] = s \o f[j - 1]
          BY <2>3, <4>1
        <4>4. f[j - 1] \in Seq(S) /\ ss[j] \in Seq(S)
          BY <2>1, <4>1, ElementOfSeq
        <4>5. s \o (f[j - 1] \o ss[j]) = (s \o f[j - 1]) \o ss[j]
          BY <1>4, <4>4
        <4>7. g[k] = g[j] \o tt[k]
          BY <4>2, <4>3, <4>5
        <4>6. k - 1 = j
          BY <4>1
        <4> QED BY <4>6, <4>7
      <3> QED BY <3>1, <3>2
    <2>5. Glued(g, tt)
      BY <2>3, <2>4 DEF Glued
    <2>6. FlattenSeq(tt) = g[Len(tt)]
      BY <2>2, <2>5, FlattenOf
    <2>7. g[Len(tt)] = s \o f[Len(ss)]
      BY <2>2, <2>3
    <2> QED BY <2>1, <2>6, <2>7 DEF tt
  <1>2. FlattenSeq(<<s>>) = s
    <2>1. <<s>> \o <<>> = <<s>>
      BY <1>0, ConcatEmptySeq
    <2> QED BY <1>0, <1>1, <1>3, <2>1
  <1> QED BY <1>1, <1>2, <1>3

-----------------------------------------------------------------------------
(* Words.                                                                  *)

\* A text has a first character, and is what comes before, at and behind one of
\* its characters.
LEMMA Around ==
    ASSUME NEW S, NEW s \in Seq(S), NEW j \in 1..Len(s)
    PROVE  /\ SubSeq(s, 1, j - 1) \in Seq(S) /\ Len(SubSeq(s, 1, j - 1)) = j - 1
           /\ \A i \in 1..j - 1 : SubSeq(s, 1, j - 1)[i] = s[i]
           /\ SubSeq(s, j + 1, Len(s)) \in Seq(S) /\ Len(SubSeq(s, j + 1, Len(s))) = Len(s) - j
           /\ \A i \in 1..Len(s) - j : SubSeq(s, j + 1, Len(s))[i] = s[j + i]
           /\ s = SubSeq(s, 1, j - 1) \o (<<s[j]>> \o SubSeq(s, j + 1, Len(s)))
  <1> DEFINE a == SubSeq(s, 1, j - 1)
             b == SubSeq(s, j + 1, Len(s))
             n == Len(s)
  <1>1. n \in Nat /\ j \in Nat /\ 1 <= j /\ j <= n /\ \A i \in 1..n : s[i] \in S
    BY ElementOfSeq
  <1>2. /\ a \in Seq(S) /\ Len(a) = j - 1
        /\ \A i \in 1..j - 1 : a[i] = s[i]
    <2>1. /\ 1 \in Int /\ j - 1 \in Int /\ \A i \in 1..j - 1 : s[i] \in S
          /\ (j - 1) - 1 + 1 = j - 1 /\ \A i \in Int : 1 + i - 1 = i
          /\ (IF 1 <= j - 1 THEN j - 1 - 1 + 1 ELSE 0) = j - 1
      BY <1>1
    <2> QED BY <2>1, SubSeqProperties
  <1>3. /\ b \in Seq(S) /\ Len(b) = n - j
        /\ \A i \in 1..n - j : b[i] = s[j + i]
    <2>1. /\ j + 1 \in Int /\ n \in Int /\ \A i \in j + 1..n : s[i] \in S
      BY <1>1
    <2>2. /\ b \in Seq(S) /\ Len(b) = IF j + 1 <= n THEN n - (j + 1) + 1 ELSE 0
          /\ \A i \in 1..n - (j + 1) + 1 : b[i] = s[(j + 1) + i - 1]
      BY <2>1, SubSeqProperties
    <2>3. /\ n - (j + 1) + 1 = n - j /\ \A i \in Int : (j + 1) + i - 1 = j + i
          /\ (IF j + 1 <= n THEN n - (j + 1) + 1 ELSE 0) = n - j
      BY <1>1
    <2> HIDE DEF b
    <2>4. ASSUME NEW i \in 1..n - j PROVE b[i] = s[j + i]
      <3>1. i \in 1..n - (j + 1) + 1 /\ (j + 1) + i - 1 = j + i
        BY <1>1
      <3> QED BY <2>2, <3>1
    <2> QED BY <2>2, <2>3, <2>4
  <1>4. s[j] \in S
    BY <1>1
  <1> DEFINE m == <<s[j]>>
             c == m \o b
             d == a \o c
  <1>5. m \in Seq(S) /\ Len(m) = 1 /\ m[1] = s[j]
    BY <1>4
  <1> HIDE DEF a, b, m
  <1>6. /\ c \in Seq(S) /\ Len(c) = 1 + (n - j)
        /\ \A i \in 1..1 + (n - j) : c[i] = IF i <= 1 THEN m[i] ELSE b[i - 1]
    <2>1. /\ c \in Seq(S) /\ Len(c) = Len(m) + Len(b)
          /\ \A i \in 1..Len(m) + Len(b) : c[i] = IF i <= Len(m) THEN m[i] ELSE b[i - Len(m)]
      BY <1>3, <1>5, ConcatProperties, ZenonT(40)
    <2> HIDE DEF c
    <2> QED BY <1>3, <1>5, <2>1
  <1> HIDE DEF c
  <1>7. /\ d \in Seq(S) /\ Len(d) = (j - 1) + (1 + (n - j))
        /\ \A i \in 1..(j - 1) + (1 + (n - j)) :
              d[i] = IF i <= j - 1 THEN a[i] ELSE c[i - (j - 1)]
    <2>1. /\ d \in Seq(S) /\ Len(d) = Len(a) + Len(c)
          /\ \A i \in 1..Len(a) + Len(c) : d[i] = IF i <= Len(a) THEN a[i] ELSE c[i - Len(a)]
      BY <1>2, <1>6, ConcatProperties, ZenonT(40)
    <2> HIDE DEF d
    <2> QED BY <1>2, <1>6, <2>1
  <1> HIDE DEF d
  <1>8. Len(d) = n
    BY <1>1, <1>7
  <1>9. ASSUME NEW i \in 1..n PROVE d[i] = s[i]
    <2>1. CASE i <= j - 1
      <3>1. i \in 1..j - 1 /\ i \in 1..(j - 1) + (1 + (n - j))
        BY <1>1, <2>1
      <3> QED BY <1>2, <1>7, <2>1, <3>1
    <2>2. CASE i = j
      <3>1. /\ ~(i <= j - 1) /\ i - (j - 1) = 1 /\ 1 \in 1..1 + (n - j) /\ 1 <= 1
            /\ i \in 1..(j - 1) + (1 + (n - j))
        BY <1>1, <2>2
      <3>2. c[1] = s[j]
        BY <1>5, <1>6, <3>1
      <3> QED BY <1>7, <2>2, <3>1, <3>2
    <2>3. CASE i > j
      <3> DEFINE k == i - j
      <3>1. /\ k \in 1..n - j /\ i = j + k /\ i - (j - 1) = k + 1 /\ ~(k + 1 <= 1)
            /\ k + 1 \in 1..1 + (n - j) /\ (k + 1) - 1 = k /\ ~(i <= j - 1)
            /\ i \in 1..(j - 1) + (1 + (n - j))
        BY <1>1, <2>3
      <3> HIDE DEF k
      <3>2. d[i] = c[k + 1]
        BY <1>7, <3>1
      <3>3. c[k + 1] = b[k]
        BY <1>6, <3>1
      <3> QED BY <1>3, <3>1, <3>2, <3>3
    <2> QED BY <1>1, <2>1, <2>2, <2>3
  <1>10. s = d
    BY <1>7, <1>8, <1>9, SeqEqual
  <1> QED BY <1>2, <1>3, <1>10 DEF a, b, c, d, m, n

\* Where the first space is.
LEMMA FirstSpaceIs ==
    ASSUME NEW s \in Seq(Chars)
    PROVE  IF Has(s, " ")
             THEN /\ FirstSpace(s) \in 1..Len(s) /\ s[FirstSpace(s)] = " "
                  /\ \A i \in 1..FirstSpace(s) - 1 : s[i] # " "
             ELSE FirstSpace(s) = Len(s) + 1
  <1>1. CASE ~Has(s, " ")
    BY <1>1 DEF FirstSpace
  <1>2. CASE Has(s, " ")
    <2> DEFINE First(j) == s[j] = " " /\ ~Has(SubSeq(s, 1, j - 1), " ")
               T == {j \in 1..Len(s) : s[j] = " "}
    <2>1. s \in Seq(Chars) /\ Len(s) \in Nat
      OBVIOUS
    <2>d. DOMAIN s = 1..Len(s)
      BY <2>1
    <2>2. ASSUME NEW j \in 1..Len(s)
          PROVE  First(j) <=> s[j] = " " /\ \A i \in 1..j - 1 : s[i] # " "
      <3> DEFINE a == SubSeq(s, 1, j - 1)
      <3>1. a \in Seq(Chars) /\ Len(a) = j - 1 /\ \A i \in 1..j - 1 : a[i] = s[i]
        BY <2>1, Around
      <3> HIDE DEF a
      <3>2. DOMAIN a = 1..j - 1
        BY <3>1
      <3>3. Has(a, " ") <=> \E i \in 1..j - 1 : s[i] = " "
        BY <3>1, <3>2 DEF Has
      <3> QED BY <3>3 DEF a
    <2>3. \E k : k \in T
      BY <1>2, <2>d DEF Has
    <2>4. T \in SUBSET Nat
      <3>1. ASSUME NEW x \in 1..Len(s) PROVE x \in Nat
        BY <2>1, <3>1
      <3> QED BY <3>1
    <2>t. \A k : k \in T <=> k \in 1..Len(s) /\ s[k] = " "
      OBVIOUS
    <2> HIDE DEF T, First
    <2>5. PICK j \in T : \A y \in T : j <= y
      BY <2>3, <2>4, Least
    <2>6. j \in 1..Len(s) /\ s[j] = " " /\ \A i \in 1..j - 1 : s[i] # " "
      <3>1. j \in 1..Len(s) /\ s[j] = " "
        BY <2>5, <2>t
      <3>2. ASSUME NEW i \in 1..j - 1 PROVE s[i] # " "
        <4>0. Len(s) \in Nat /\ j \in Nat /\ 1 <= j /\ j <= Len(s)
          <5>1. j \in 1..Len(s)
            BY <3>1
          <5> QED BY <2>1, <5>1
        <4>1. i \in 1..Len(s) /\ ~(j <= i)
          BY <3>2, <4>0
        <4> QED BY <2>5, <2>t, <4>1
      <3> QED BY <3>1, <3>2
    <2>7. First(j)
      BY <2>2, <2>6
    <2>8. FirstSpace(s) = CHOOSE i \in 1..Len(s) : First(i)
      BY <1>2, <2>d DEF FirstSpace, First
    <2>9. FirstSpace(s) \in 1..Len(s) /\ First(FirstSpace(s))
      BY <2>6, <2>7, <2>8
    <2> QED BY <1>2, <2>2, <2>9
  <1> QED BY <1>1, <1>2

\* A word that is not marked ends at the first space.
LEMMA WordIs ==
    ASSUME NEW s \in Seq(Chars), s # <<>>, s[1] # ":"
    PROVE  /\ WordOf(s) \in Seq(Chars) /\ RestOf(s) \in Seq(Chars) /\ ~Has(WordOf(s), " ")
           /\ ~Has(s, " ") => WordOf(s) = s /\ RestOf(s) = <<>>
           /\ Has(s, " ") => /\ s = WordOf(s) \o (<<" ">> \o RestOf(s))
                             /\ Len(s) = Len(WordOf(s)) + 1 + Len(RestOf(s))
           /\ Len(WordOf(s)) \in Nat /\ Len(RestOf(s)) \in Nat /\ Len(RestOf(s)) < Len(s)
           /\ WordOf(s) # <<>> => WordOf(s)[1] = s[1]
  <1> DEFINE j == FirstSpace(s)
  <1>1. /\ WordOf(s) = SubSeq(s, 1, j - 1) /\ RestOf(s) = SubSeq(s, j + 1, Len(s))
        /\ s \in Seq(Chars) /\ Len(s) \in Nat /\ Len(s) # 0
    <2>1. s \in Seq(Chars)
      OBVIOUS
    <2>2. Len(s) \in Nat /\ Len(s) # 0
      BY <2>1, EmptySeq, LenProperties
    <2> QED BY <2>1, <2>2 DEF WordOf, RestOf
  <1>2. CASE Has(s, " ")
    <2>1. j \in 1..Len(s) /\ s[j] = " " /\ \A i \in 1..j - 1 : s[i] # " "
      BY <1>2, FirstSpaceIs
    <2>j. j \in Nat /\ Len(s) \in Nat /\ 1 <= j /\ j <= Len(s)
      <3>1. j \in 1..Len(s)
        BY <2>1
      <3> HIDE DEF j
      <3>2. Len(s) \in Nat
        BY <1>1
      <3> QED BY <3>1, <3>2
    <2> HIDE DEF j
    <2> DEFINE w == SubSeq(s, 1, j - 1)
               r == SubSeq(s, j + 1, Len(s))
    <2>2. /\ w \in Seq(Chars) /\ Len(w) = j - 1 /\ \A i \in 1..j - 1 : w[i] = s[i]
          /\ r \in Seq(Chars) /\ Len(r) = Len(s) - j
      BY <1>1, <2>1, Around, ZenonT(40)
    <2>8. s = w \o (<<s[j]>> \o r)
      BY <1>1, <2>1, Around
    <2>3. w = WordOf(s) /\ r = RestOf(s)
      BY <1>1
    <2> HIDE DEF w, r
    <2>4. ~Has(w, " ")
      <3>1. DOMAIN w = 1..j - 1
        BY <2>2
      <3> QED BY <2>1, <2>2, <3>1 DEF Has
    <2>5. w # <<>> => w[1] = s[1]
      <3> SUFFICES ASSUME w # <<>> PROVE w[1] = s[1]
        OBVIOUS
      <3>1. Len(w) \in Nat \ {0}
        BY <2>2, EmptySeq
      <3>2. 1 \in 1..j - 1
        <4>1. j - 1 # 0 /\ j \in Int /\ j >= 1
          BY <2>2, <2>j, <3>1
        <4> QED BY <4>1
      <3> QED BY <2>2, <3>2
    <2>6. /\ Len(w) \in Nat /\ Len(r) \in Nat /\ Len(r) < Len(s)
          /\ Len(s) = Len(w) + 1 + Len(r)
      <3>1. /\ Len(w) \in Nat /\ Len(r) \in Nat /\ Len(s) \in Nat /\ j \in Nat
        BY <2>2, <2>j
      <3> QED BY <2>2, <2>j, <3>1
    <2>7. s = w \o (<<" ">> \o r)
      BY <2>1, <2>8
    <2> QED BY <1>2, <2>2, <2>3, <2>4, <2>5, <2>6, <2>7
  <1>3. CASE ~Has(s, " ")
    <2>1. j = Len(s) + 1
      BY <1>3, FirstSpaceIs
    <2>2. j - 1 = Len(s) /\ j + 1 \in Int /\ Len(s) \in Int /\ Len(s) < j + 1
      BY <1>1, <2>1
    <2> HIDE DEF j
    <2>3. SubSeq(s, 1, j - 1) = s
      BY <1>1, <2>2, SubSeqFull
    <2>4. SubSeq(s, j + 1, Len(s)) = <<>>
      BY <2>2, SubSeqEmpty
    <2>5. WordOf(s) = s /\ RestOf(s) = <<>> /\ Len(<<>>) = 0 /\ <<>> \in Seq(Chars)
      BY <1>1, <2>3, <2>4
    <2>6. Len(<<>>) < Len(s)
      BY <1>1, <2>5
    <2> QED BY <1>1, <1>3, <2>5, <2>6
  <1> QED BY <1>2, <1>3

\* A word that is marked is the rest of the line.
LEMMA MarkedIs ==
    ASSUME NEW s \in Seq(Chars), s # <<>>, s[1] = ":"
    PROVE  /\ WordOf(s) = Tail(s) /\ Tail(s) \in Seq(Chars) /\ RestOf(s) = <<>>
           /\ Len(Tail(s)) \in Nat /\ Len(s) = Len(Tail(s)) + 1
           /\ s = <<":">> \o Tail(s)
  <1>1. s \in Seq(Chars) /\ Len(s) \in Nat /\ Len(s) # 0 /\ 1 \in 1..Len(s)
    BY EmptySeq
  <1>2. WordOf(s) = Tail(s) /\ RestOf(s) = <<>>
    BY DEF WordOf, RestOf
  <1>3. Tail(s) \in Seq(Chars) /\ Len(Tail(s)) = Len(s) - 1
    BY <1>1, HeadTailProperties
  <1>4. SubSeq(s, 1, 1 - 1) = <<>> /\ SubSeq(s, 1 + 1, Len(s)) = Tail(s)
    <2>1. Tail(s) = SubSeq(s, 2, Len(s))
      BY <1>1, TailIsSubSeq
    <2>2. SubSeq(s, 1, 0) = <<>>
      BY SubSeqEmpty
    <2> QED BY <2>1, <2>2
  <1> DEFINE t == Tail(s)
             c == <<s[1]>> \o t
  <1>5. s = <<>> \o c
    <2>1. s = SubSeq(s, 1, 1 - 1) \o (<<s[1]>> \o SubSeq(s, 1 + 1, Len(s)))
      BY <1>1, Around
    <2> QED BY <1>4, <2>1
  <1>6. c \in Seq(Chars)
    BY <1>1, <1>3, ElementOfSeq, ConcatProperties
  <1>7. <<>> \o c = c
    BY <1>6, ConcatEmptySeq
  <1> QED BY <1>1, <1>2, <1>3, <1>5, <1>7

\* Every word leaves less of a line.
LEMMA WordTaken ==
    ASSUME NEW s \in Seq(Chars), s # <<>>
    PROVE  /\ WordOf(s) \in Seq(Chars) /\ RestOf(s) \in Seq(Chars)
           /\ Len(RestOf(s)) \in Nat /\ Len(RestOf(s)) < Len(s)
           /\ Len(WordOf(s)) \in Nat /\ Len(WordOf(s)) <= Len(s)
  <1>1. CASE s[1] = ":"
    <2>1. /\ WordOf(s) = Tail(s) /\ Tail(s) \in Seq(Chars) /\ RestOf(s) = <<>>
          /\ Len(Tail(s)) \in Nat /\ Len(s) = Len(Tail(s)) + 1
      BY <1>1, MarkedIs
    <2>2. Len(<<>>) = 0 /\ <<>> \in Seq(Chars)
      OBVIOUS
    <2>3. Len(s) \in Nat /\ 0 < Len(s) /\ Len(Tail(s)) <= Len(s)
      BY <2>1
    <2>4. RestOf(s) \in Seq(Chars) /\ Len(RestOf(s)) = 0
      BY <2>1, <2>2
    <2>5. WordOf(s) \in Seq(Chars) /\ Len(WordOf(s)) = Len(Tail(s))
      BY <2>1
    <2>6. Len(RestOf(s)) \in Nat /\ Len(RestOf(s)) < Len(s)
      BY <2>3, <2>4
    <2>7. Len(WordOf(s)) \in Nat /\ Len(WordOf(s)) <= Len(s)
      BY <2>1, <2>3, <2>5
    <2> QED BY <2>4, <2>5, <2>6, <2>7
  <1>2. CASE s[1] # ":"
    <2>1. /\ WordOf(s) \in Seq(Chars) /\ RestOf(s) \in Seq(Chars)
          /\ ~Has(s, " ") => WordOf(s) = s
          /\ Has(s, " ") => Len(s) = Len(WordOf(s)) + 1 + Len(RestOf(s))
          /\ Len(WordOf(s)) \in Nat /\ Len(RestOf(s)) \in Nat /\ Len(RestOf(s)) < Len(s)
      BY <1>2, WordIs
    <2>2. CASE Has(s, " ")
      <3>1. Len(s) = Len(WordOf(s)) + 1 + Len(RestOf(s))
        BY <2>1, <2>2
      <3>0. Len(WordOf(s)) \in Nat /\ Len(RestOf(s)) \in Nat
        BY <2>1
      <3> DEFINE w == Len(WordOf(s))
                 k == Len(RestOf(s))
      <3> HIDE DEF w, k
      <3>3. w \in Nat /\ k \in Nat /\ Len(s) = w + 1 + k
        BY <3>0, <3>1 DEF w, k
      <3>4. w <= Len(s)
        BY <3>3
      <3>2. Len(WordOf(s)) <= Len(s)
        BY <3>4 DEF w
      <3> QED BY <2>1, <3>2
    <2>3. CASE ~Has(s, " ")
      <3>1. WordOf(s) = s
        BY <2>1, <2>3
      <3>2. Len(WordOf(s)) = Len(s) /\ Len(s) \in Nat
        BY <3>1
      <3>3. Len(WordOf(s)) <= Len(s)
        BY <3>2
      <3> QED BY <2>1, <3>3
    <2> QED BY <2>2, <2>3
  <1> QED BY <1>1, <1>2

\* What Params does.
LEMMA ParamsIs ==
    ASSUME NEW s \in Seq(Chars)
    PROVE  /\ Params[s] \in Seq(Seq(Chars))
           /\ s = <<>> => Params[s] = <<>>
           /\ s # <<>> => /\ Params[s] = <<WordOf(s)>> \o Params[RestOf(s)]
                          /\ Params[RestOf(s)] \in Seq(Seq(Chars))
  <1> DEFINE D == Seq(Chars)
             E == Seq(Seq(Chars))
             size == [t \in D |-> Len(t)]
             Step(t, f) == IF t = <<>> THEN <<>> ELSE <<WordOf(t)>> \o f[RestOf(t)]
             F == [t \in D |-> [f \in [D -> E] |-> Step(t, f)]]
  <1>1. size \in [D -> Nat] /\ \A t \in D : size[t] = Len(t)
    OBVIOUS
  <1>2. <<>> \in E
    OBVIOUS
  <1>3. ASSUME NEW t \in D, t # <<>>
        PROVE  RestOf(t) \in D /\ Len(RestOf(t)) < Len(t) /\ <<WordOf(t)>> \in E
    BY <1>3, WordTaken
  <1>4. ASSUME NEW t \in D, NEW f \in [D -> E] PROVE Step(t, f) \in E
    <2>1. CASE t = <<>>
      BY <1>2, <2>1
    <2>2. CASE t # <<>>
      <3>1. f[RestOf(t)] \in E /\ <<WordOf(t)>> \in E
        BY <1>3, <2>2
      <3>2. <<WordOf(t)>> \o f[RestOf(t)] \in E
        BY <3>1, ConcatProperties
      <3> QED BY <2>2, <3>2
    <2> QED BY <2>1, <2>2
  <1>5. F \in [D -> [[D -> E] -> E]]
    BY <1>4
  <1>6. \A t \in D : \A f \in [D -> E] : F[t][f] = Step(t, f)
    OBVIOUS
  <1> HIDE DEF F, size
  <1>7. Rules(D, E, size, F)
    <2>1. ASSUME NEW t \in D, NEW f \in [D -> E], NEW g \in [D -> E],
                 \A u \in D : size[u] < size[t] => f[u] = g[u]
          PROVE  F[t][f] = F[t][g]
      <3>1. t # <<>> => f[RestOf(t)] = g[RestOf(t)]
        BY <1>1, <1>3, <2>1
      <3>2. Step(t, f) = Step(t, g)
        BY <3>1
      <3> QED BY <1>6, <3>2
    <2> QED BY <1>1, <1>5, <2>1 DEF Rules
  <1>8. PICK f \in [D -> E] : f = [t \in D |-> F[t][f]]
    <2> HIDE DEF D, E
    <2> QED BY <1>2, <1>7, Recursion
  <1> DEFINE Is(g) == g = [t \in Word |-> IF t = <<>> THEN <<>>
                                          ELSE <<WordOf(t)>> \o g[RestOf(t)]]
  <1>9. Is(f)
    <2>1. \A t \in D : f[t] = Step(t, f)
      BY <1>6, <1>8, ZenonT(40)
    <2> QED BY <1>8, <2>1 DEF Word
  <1>10. Params = CHOOSE g : Is(g)
    BY DEF Params
  <1>11. Is(Params)
    BY <1>9, <1>10
  <1>12. \A t \in D : Params[t] = Step(t, Params)
    BY <1>11 DEF Word
  <1>13. \A t \in D : Params[t] \in E
    <2> DEFINE T == {n \in Nat : \A t \in D : Len(t) < n => Params[t] \in E}
    <2>1. 0 \in T
      OBVIOUS
    <2>2. ASSUME NEW n \in Nat, n \in T PROVE n + 1 \in T
      <3> SUFFICES ASSUME NEW t \in D, Len(t) < n + 1 PROVE Params[t] \in E
        OBVIOUS
      <3>1. CASE t = <<>>
        BY <1>2, <1>12, <3>1
      <3>2. CASE t # <<>>
        <4>1. RestOf(t) \in D /\ Len(RestOf(t)) < n /\ <<WordOf(t)>> \in E
          <5>1. RestOf(t) \in D /\ Len(RestOf(t)) < Len(t) /\ <<WordOf(t)>> \in E
                /\ Len(RestOf(t)) \in Nat /\ Len(t) \in Nat
            BY <1>3, <3>2
          <5> QED BY <5>1
        <4>2. Params[RestOf(t)] \in E
          BY <2>2, <4>1
        <4>3. <<WordOf(t)>> \o Params[RestOf(t)] \in E
          BY <4>1, <4>2, ConcatProperties
        <4> QED BY <1>12, <3>2, <4>3
      <3> QED BY <3>1, <3>2
    <2> HIDE DEF T
    <2>3. Nat \subseteq T
      BY <2>1, <2>2, Induction
    <2>4. ASSUME NEW t \in D PROVE Params[t] \in E
      <3>1. Len(t) + 1 \in T /\ Len(t) < Len(t) + 1
        BY <2>3
      <3> QED BY <3>1 DEF T
    <2> QED BY <2>4
  <1>14. s # <<>> => Params[RestOf(s)] \in E
    BY <1>3, <1>13
  <1> QED BY <1>12, <1>13, <1>14

\* A text in front of another.
LEMMA Glue ==
    ASSUME NEW S, NEW a \in Seq(S), NEW b \in Seq(S)
    PROVE  /\ a \o b \in Seq(S) /\ Len(a \o b) = Len(a) + Len(b)
           /\ Len(a) \in Nat /\ Len(b) \in Nat
           /\ \A i \in 1..Len(a) : (a \o b)[i] = a[i]
           /\ \A i \in 1..Len(b) : (a \o b)[Len(a) + i] = b[i]
  <1> DEFINE c == a \o b
  <1>1. /\ c \in Seq(S) /\ Len(c) = Len(a) + Len(b)
        /\ \A i \in 1..Len(a) + Len(b) : c[i] = IF i <= Len(a) THEN a[i] ELSE b[i - Len(a)]
    BY ConcatProperties
  <1>2. Len(a) \in Nat /\ Len(b) \in Nat
    OBVIOUS
  <1> HIDE DEF c
  <1>3. ASSUME NEW i \in 1..Len(a) PROVE c[i] = a[i]
    <2>1. i \in 1..Len(a) + Len(b) /\ i <= Len(a)
      BY <1>2
    <2> QED BY <1>1, <2>1
  <1>4. ASSUME NEW i \in 1..Len(b) PROVE c[Len(a) + i] = b[i]
    <2>1. /\ Len(a) + i \in 1..Len(a) + Len(b) /\ ~(Len(a) + i <= Len(a))
          /\ (Len(a) + i) - Len(a) = i
      BY <1>2
    <2> QED BY <1>1, <2>1
  <1> QED BY <1>1, <1>2, <1>3, <1>4 DEF c

\* A character in front of a text.
LEMMA Marked ==
    ASSUME NEW S, NEW c \in S, NEW b \in Seq(S)
    PROVE  /\ <<c>> \o b \in Seq(S) /\ Len(<<c>> \o b) = Len(b) + 1 /\ Len(b) \in Nat
           /\ <<c>> \o b # <<>>
           /\ (<<c>> \o b)[1] = c /\ \A i \in 1..Len(b) : (<<c>> \o b)[i + 1] = b[i]
           /\ Tail(<<c>> \o b) = b
  <1> DEFINE a == <<c>>
             s == a \o b
  <1>1. a \in Seq(S) /\ Len(a) = 1 /\ a[1] = c
    OBVIOUS
  <1> HIDE DEF a
  <1>2. /\ s \in Seq(S) /\ Len(s) = Len(a) + Len(b) /\ Len(b) \in Nat
        /\ \A i \in 1..Len(a) + Len(b) : s[i] = IF i <= Len(a) THEN a[i] ELSE b[i - Len(a)]
    <2>1. a \in Seq(S) /\ b \in Seq(S)
      BY <1>1
    <2>2. /\ a \o b \in Seq(S) /\ Len(a \o b) = Len(a) + Len(b)
          /\ \A i \in 1..Len(a) + Len(b) :
                (a \o b)[i] = IF i <= Len(a) THEN a[i] ELSE b[i - Len(a)]
      BY <2>1, ConcatProperties
    <2> QED BY <2>1, <2>2
  <1> HIDE DEF s
  <1>3. Len(s) = Len(b) + 1 /\ s[1] = c
    BY <1>1, <1>2
  <1>4. ASSUME NEW i \in 1..Len(b) PROVE s[i + 1] = b[i]
    <2>1. /\ i + 1 \in 1..Len(a) + Len(b) /\ ~(i + 1 <= Len(a))
          /\ (i + 1) - Len(a) = i
      BY <1>1, <1>2
    <2> QED BY <1>2, <2>1
  <1>5. s # <<>>
    <2>1. Len(s) # 0 /\ Len(<<>>) = 0
      BY <1>2, <1>3
    <2> QED BY <2>1
  <1>6. Tail(s) = b
    <2> DEFINE t == Tail(s)
    <2>1. t \in Seq(S) /\ Len(t) = Len(s) - 1 /\ \A i \in 1..Len(t) : t[i] = s[i + 1]
      BY <1>2, <1>5, HeadTailProperties
    <2> HIDE DEF t
    <2>2. Len(t) = Len(b)
      BY <1>2, <1>3, <2>1
    <2>3. t = b
      BY <1>4, <2>1, <2>2, SeqEqual
    <2> QED BY <2>3 DEF t
  <1> QED BY <1>2, <1>3, <1>4, <1>5, <1>6 DEF a, s

\* A sequence is its first member in front of the others.
LEMMA Headed ==
    ASSUME NEW S, NEW s \in Seq(S), s # <<>>
    PROVE  /\ s[1] \in S /\ Tail(s) \in Seq(S) /\ s = <<s[1]>> \o Tail(s)
           /\ Len(s) = Len(Tail(s)) + 1 /\ Len(Tail(s)) \in Nat
  <1> DEFINE t == Tail(s)
  <1>1. Len(s) \in Nat \ {0} /\ t \in Seq(S) /\ Len(t) = Len(s) - 1
        /\ \A i \in 1..Len(t) : t[i] = s[i + 1]
    BY EmptySeq, HeadTailProperties
  <1>2. s[1] \in S
    BY <1>1, ElementOfSeq
  <1> HIDE DEF t
  <1> DEFINE c == s[1]
             d == <<c>> \o t
  <1> HIDE DEF c
  <1>3. c \in S
    BY <1>2 DEF c
  <1>4. /\ d \in Seq(S) /\ Len(d) = Len(t) + 1 /\ Len(t) \in Nat
        /\ d[1] = c /\ \A i \in 1..Len(t) : d[i + 1] = t[i]
    BY <1>1, <1>3, Marked
  <1> HIDE DEF d
  <1>5. Len(s) = Len(t) + 1
    BY <1>1, <1>4
  <1>6. ASSUME NEW i \in 1..Len(s) PROVE s[i] = d[i]
    <2>1. CASE i = 1
      BY <1>4, <2>1 DEF c
    <2>2. CASE i # 1
      <3> DEFINE j == i - 1
      <3>1. j \in 1..Len(t) /\ i = j + 1
        BY <1>1, <1>5, <2>2
      <3> HIDE DEF j
      <3> QED BY <1>1, <1>4, <3>1
    <2> QED BY <2>1, <2>2
  <1>7. s = d
    BY <1>4, <1>5, <1>6, SeqEqual
  <1> QED BY <1>1, <1>2, <1>4, <1>5, <1>7 DEF c, d, t

-----------------------------------------------------------------------------
(* The text of a list of words.                                            *)

\* A parameter as it is written.
Item(w, colon) == IF colon THEN <<" ", ":">> \o w ELSE <<" ">> \o w

\* Words as they are written, the last one marked or not.
Spaced(ws, colon) == [j \in 1..Len(ws) |-> Item(ws[j], j = Len(ws) /\ colon)]
Text(ws, colon)   == FlattenSeq(Spaced(ws, colon))

\* The characters that the writer adds.
LEMMA CharsIn == " " \in Chars /\ ":" \in Chars /\ <<" ">> \in Seq(Chars) /\ <<":">> \in Seq(Chars)
                 /\ <<" ", ":">> \in Seq(Chars)
  BY DEF Chars

\* Two characters in front of a text.
LEMMA MarkedTwice ==
    ASSUME NEW S, NEW c \in S, NEW d \in S, NEW w \in Seq(S)
    PROVE  <<c, d>> \o w = <<c>> \o (<<d>> \o w)
  <1>1. \A x, y \in Seq(S) : (x \o y) \o w = x \o (y \o w)
    BY ConcatAssociative, SMTT(40)
  <1>2. <<c>> \in Seq(S) /\ <<d>> \in Seq(S)
    OBVIOUS
  <1>3. <<c, d>> = <<c>> \o <<d>>
    <2> DEFINE y == <<d>>
               s == <<c>> \o y
               p == <<c, d>>
    <2>0. y \in Seq(S)
      OBVIOUS
    <2>1. Len(y) = 1 /\ y[1] = d
      OBVIOUS
    <2>2. p \in Seq(S) /\ Len(p) = 2 /\ p[1] = c /\ p[2] = d
      OBVIOUS
    <2> HIDE DEF y, p
    <2>3. s \in Seq(S) /\ Len(s) = Len(y) + 1 /\ s[1] = c /\ \A i \in 1..Len(y) : s[i + 1] = y[i]
      BY <2>0, Marked
    <2> HIDE DEF s
    <2>4. Len(s) = 2 /\ s[2] = d
      BY <2>1, <2>3
    <2>5. ASSUME NEW i \in 1..2 PROVE p[i] = s[i]
      <3>1. i = 1 \/ i = 2
        OBVIOUS
      <3> QED BY <2>2, <2>3, <2>4, <3>1
    <2>6. p = s
      BY <2>2, <2>3, <2>4, <2>5, SeqEqual
    <2> QED BY <2>6 DEF p, s, y
  <1>4. (<<c>> \o <<d>>) \o w = <<c>> \o (<<d>> \o w)
    BY <1>1, <1>2
  <1> QED BY <1>3, <1>4

\* What is written for a parameter, and how long that is.
LEMMA ItemIs ==
    ASSUME NEW w \in Seq(Chars), NEW colon \in BOOLEAN
    PROVE  /\ Item(w, colon) \in Seq(Chars)
           /\ Len(Item(w, colon)) = Len(w) + (IF colon THEN 2 ELSE 1)
           /\ Item(w, colon) = <<" ">> \o (IF colon THEN <<":">> \o w ELSE w)
  <1>1. CASE colon
    <2> DEFINE c == <<":">> \o w
               d == <<" ">> \o c
    <2>1. c \in Seq(Chars) /\ Len(c) = Len(w) + 1
      BY CharsIn, Marked, ZenonT(40)
    <2>2. Item(w, colon) = d
      <3> DEFINE sp == " "
                 co == ":"
      <3>0. sp \in Chars /\ co \in Chars
        BY CharsIn
      <3> HIDE DEF sp, co
      <3>2. <<sp, co>> \o w = <<sp>> \o (<<co>> \o w)
        BY <3>0, MarkedTwice
      <3>1. <<" ", ":">> \o w = <<" ">> \o (<<":">> \o w)
        BY <3>2 DEF sp, co
      <3> QED BY <1>1, <3>1 DEF Item
    <2>3. Item(w, colon) = <<" ">> \o (IF colon THEN <<":">> \o w ELSE w)
      BY <1>1, <2>2
    <2> HIDE DEF c
    <2>4. d \in Seq(Chars) /\ Len(d) = Len(c) + 1
      BY <2>1, CharsIn, Marked, ZenonT(40)
    <2> HIDE DEF d
    <2>5. Len(d) = Len(w) + 2
      <3>1. Len(w) \in Nat
        OBVIOUS
      <3> QED BY <2>1, <2>4, <3>1
    <2> QED BY <1>1, <2>2, <2>3, <2>4, <2>5
  <1>2. CASE ~colon
    <2>1. Item(w, colon) = <<" ">> \o w
      BY <1>2 DEF Item
    <2>2. <<" ">> \o w \in Seq(Chars) /\ Len(<<" ">> \o w) = Len(w) + 1
      BY CharsIn, Marked, ZenonT(40)
    <2> QED BY <1>2, <2>1, <2>2
  <1> QED BY <1>1, <1>2

\* What is written for several.
LEMMA SpacedIs ==
    ASSUME NEW ws \in Seq(Seq(Chars)), NEW colon \in BOOLEAN
    PROVE  /\ Spaced(ws, colon) \in Seq(Seq(Chars)) /\ Len(Spaced(ws, colon)) = Len(ws)
           /\ \A j \in 1..Len(ws) : Spaced(ws, colon)[j] = Item(ws[j], j = Len(ws) /\ colon)
  <1>1. ASSUME NEW j \in 1..Len(ws) PROVE Item(ws[j], j = Len(ws) /\ colon) \in Seq(Chars)
    <2>1. ws[j] \in Seq(Chars)
      BY ElementOfSeq
    <2>2. (j = Len(ws) /\ colon) \in BOOLEAN
      OBVIOUS
    <2> QED BY <2>1, <2>2, ItemIs
  <1>2. Len(ws) \in Nat
    OBVIOUS
  <1>3. Spaced(ws, colon) \in [1..Len(ws) -> Seq(Chars)]
    BY <1>1 DEF Spaced
  <1> DEFINE s == Spaced(ws, colon)
             n == Len(ws)
  <1>4. \A j \in 1..Len(ws) : s[j] = Item(ws[j], j = Len(ws) /\ colon)
    BY DEF Spaced
  <1>5. n \in Nat /\ s \in [1..n -> Seq(Chars)]
    BY <1>2, <1>3
  <1> HIDE DEF s, n
  <1>6. s \in Seq(Seq(Chars)) /\ Len(s) = n
    BY <1>5
  <1> QED BY <1>4, <1>6 DEF s, n

\* One word, and one in front of others.
LEMMA TextOf ==
    ASSUME NEW w \in Seq(Chars), NEW colon \in BOOLEAN
    PROVE  /\ Text(<<>>, colon) = <<>>
           /\ Text(<<w>>, colon) = Item(w, colon)
           /\ \A ws \in Seq(Seq(Chars)) :
                 ws # <<>> => Text(<<w>> \o ws, colon) = (<<" ">> \o w) \o Text(ws, colon)
  <1>1. Text(<<>>, colon) = <<>>
    <2>1. Spaced(<<>>, colon) = <<>>
      <3>1. <<>> \in Seq(Seq(Chars)) /\ Len(<<>>) = 0
        OBVIOUS
      <3>2. Spaced(<<>>, colon) \in Seq(Seq(Chars)) /\ Len(Spaced(<<>>, colon)) = 0
        BY <3>1, SpacedIs
      <3> QED BY <3>2
    <2> QED BY <2>1, FlattenFirst DEF Text
  <1>2. Text(<<w>>, colon) = Item(w, colon)
    <2> DEFINE ws == <<w>>
    <2>1. ws \in Seq(Seq(Chars)) /\ Len(ws) = 1 /\ ws[1] = w
      OBVIOUS
    <2> HIDE DEF ws
    <2> DEFINE ss == Spaced(ws, colon)
    <2>2. ss \in Seq(Seq(Chars)) /\ Len(ss) = 1 /\ ss[1] = Item(w, colon)
      <3>1. (1 = Len(ws) /\ colon) = colon
        BY <2>1
      <3>2. /\ ss \in Seq(Seq(Chars)) /\ Len(ss) = Len(ws)
            /\ \A j \in 1..Len(ws) : ss[j] = Item(ws[j], j = Len(ws) /\ colon)
        BY <2>1, SpacedIs
      <3> HIDE DEF ss
      <3>3. 1 \in 1..Len(ws)
        BY <2>1
      <3>4. ss[1] = Item(ws[1], colon)
        BY <3>1, <3>2, <3>3
      <3> QED BY <2>1, <3>2, <3>4
    <2> HIDE DEF ss
    <2>3. ss = <<Item(w, colon)>>
      BY <2>2
    <2>4. Item(w, colon) \in Seq(Chars)
      BY ItemIs
    <2>5. FlattenSeq(<<Item(w, colon)>>) = Item(w, colon)
      BY <2>4, FlattenFirst
    <2> QED BY <2>3, <2>5 DEF Text, ss, ws
  <1>3. ASSUME NEW ws \in Seq(Seq(Chars)), ws # <<>>
        PROVE  Text(<<w>> \o ws, colon) = (<<" ">> \o w) \o Text(ws, colon)
    <2> DEFINE vs == <<w>> \o ws
               n == Len(ws)
               i == <<" ">> \o w
               ss == Spaced(ws, colon)
               tt == Spaced(vs, colon)
               uu == <<i>> \o ss
    <2>1. /\ vs \in Seq(Seq(Chars)) /\ Len(vs) = n + 1 /\ n \in Nat /\ n # 0
          /\ vs[1] = w /\ \A j \in 1..n : vs[j + 1] = ws[j]
      BY <1>3, EmptySeq, Marked
    <2>2. ss \in Seq(Seq(Chars)) /\ Len(ss) = n
          /\ \A j \in 1..n : ss[j] = Item(ws[j], j = n /\ colon)
      BY SpacedIs
    <2> HIDE DEF vs
    <2>3. /\ tt \in Seq(Seq(Chars)) /\ Len(tt) = n + 1
          /\ \A j \in 1..n + 1 : tt[j] = Item(vs[j], j = n + 1 /\ colon)
      <3>1. /\ tt \in Seq(Seq(Chars)) /\ Len(tt) = Len(vs)
            /\ \A j \in 1..Len(vs) : tt[j] = Item(vs[j], j = Len(vs) /\ colon)
        BY <2>1, SpacedIs
      <3> QED BY <2>1, <3>1
    <2>4. i \in Seq(Chars)
      BY CharsIn, Marked
    <2> HIDE DEF ss, tt, i, n
    <2>5. /\ uu \in Seq(Seq(Chars)) /\ Len(uu) = n + 1
          /\ uu[1] = i /\ \A j \in 1..n : uu[j + 1] = ss[j]
      <3>1. /\ uu \in Seq(Seq(Chars)) /\ Len(uu) = Len(ss) + 1
            /\ uu[1] = i /\ \A j \in 1..Len(ss) : uu[j + 1] = ss[j]
        BY <2>2, <2>4, Marked
      <3> QED BY <2>2, <3>1
    <2> HIDE DEF uu
    <2>6. ASSUME NEW j \in 1..n + 1 PROVE tt[j] = uu[j]
      <3>1. CASE j = 1
        <4>1. ~(j = n + 1)
          BY <2>1, <3>1
        <4>2. Item(w, FALSE) = i
          BY DEF Item, i
        <4>3. (j = n + 1 /\ colon) = FALSE
          BY <4>1
        <4>4. tt[j] = Item(vs[j], FALSE)
          BY <2>3, <4>3
        <4> QED BY <2>1, <2>5, <3>1, <4>2, <4>4
      <3>2. CASE j # 1
        <4> DEFINE k == j - 1
        <4>1. k \in 1..n /\ j = k + 1 /\ (j = n + 1 <=> k = n)
          BY <2>1, <3>2
        <4> HIDE DEF k
        <4>2. tt[j] = Item(vs[j], j = n + 1 /\ colon)
          BY <2>3
        <4>3. (j = n + 1 /\ colon) = (k = n /\ colon)
          BY <4>1
        <4>4. vs[j] = ws[k] /\ uu[j] = ss[k]
          BY <2>1, <2>5, <4>1
        <4>5. ss[k] = Item(ws[k], k = n /\ colon)
          BY <2>2, <4>1
        <4> QED BY <4>2, <4>3, <4>4, <4>5
      <3> QED BY <3>1, <3>2
    <2>7. tt = uu
      BY <2>3, <2>5, <2>6, SeqEqual
    <2>8. FlattenSeq(uu) = i \o FlattenSeq(ss)
      BY <2>2, <2>4, FlattenFirst DEF uu
    <2> QED BY <2>7, <2>8 DEF Text, tt, ss, i, vs
  <1> QED BY <1>1, <1>2, <1>3

\* The same for texts, as formulas.
LEMMA Assoc == \A a, b, c \in Seq(Chars) : a \o (b \o c) = (a \o b) \o c
  BY ConcatAssociative, SMTT(40)

\* What concatenation does to texts, and to their lengths.
LEMMA Concat ==
    \A a, b \in Seq(Chars) : /\ a \o b \in Seq(Chars) /\ Len(a \o b) = Len(a) + Len(b)
                            /\ Len(a) \in Nat /\ Len(b) \in Nat
                            /\ a \o <<>> = a /\ <<>> \o a = a
  BY ConcatProperties, ConcatEmptySeq

\* A space in front of a text.
LEMMA Space ==
    \A b \in Seq(Chars) : /\ <<" ">> \o b \in Seq(Chars) /\ Len(<<" ">> \o b) = Len(b) + 1
                         /\ Len(b) \in Nat /\ <<" ">> \o b # <<>>
                         /\ Tail(<<" ">> \o b) = b
  <1> TAKE b \in Seq(Chars)
  <1> DEFINE sp == " "
  <1>1. sp \in Chars
    BY CharsIn
  <1> HIDE DEF sp
  <1>2. /\ <<sp>> \o b \in Seq(Chars) /\ Len(<<sp>> \o b) = Len(b) + 1
        /\ Len(b) \in Nat /\ <<sp>> \o b # <<>>
        /\ Tail(<<sp>> \o b) = b
    BY <1>1, Marked
  <1> QED BY <1>2 DEF sp

\* Of sequences of words.
LEMMA Words ==
    \A w \in Seq(Chars), ws \in Seq(Seq(Chars)) :
       LET v == <<w>> \o ws IN
         /\ v \in Seq(Seq(Chars)) /\ v # <<>> /\ Len(v) = Len(ws) + 1 /\ Len(ws) \in Nat
         /\ v[1] = w /\ \A j \in 1..Len(ws) : v[j + 1] = ws[j]
         /\ Tail(v) = ws
         /\ ws = <<>> => v = <<w>>
         /\ ws # <<>> => Len(ws) # 0
  <1> SUFFICES ASSUME NEW w \in Seq(Chars), NEW ws \in Seq(Seq(Chars))
               PROVE  LET v == <<w>> \o ws IN
                        /\ v \in Seq(Seq(Chars)) /\ v # <<>>
                        /\ Len(v) = Len(ws) + 1 /\ Len(ws) \in Nat
                        /\ v[1] = w /\ \A j \in 1..Len(ws) : v[j + 1] = ws[j]
                        /\ Tail(v) = ws
                        /\ ws = <<>> => v = <<w>>
                        /\ ws # <<>> => Len(ws) # 0
    BY ZenonT(40)
  <1> DEFINE v == <<w>> \o ws
  <1>1. /\ v \in Seq(Seq(Chars)) /\ v # <<>> /\ Len(v) = Len(ws) + 1 /\ Len(ws) \in Nat
        /\ v[1] = w /\ \A j \in 1..Len(ws) : v[j + 1] = ws[j]
        /\ Tail(v) = ws
    BY Marked
  <1>2. ws = <<>> => v = <<w>>
    <2>1. <<w>> \in Seq(Seq(Chars))
      OBVIOUS
    <2>2. <<w>> \o <<>> = <<w>>
      BY <2>1, ConcatEmptySeq
    <2> QED BY <2>2
  <1>3. ws # <<>> => Len(ws) # 0
    OBVIOUS
  <1> QED BY <1>1, <1>2, <1>3

\* How long words are when they are written.
LEMMA TextLen ==
    ASSUME NEW ws \in Seq(Seq(Chars)), NEW colon \in BOOLEAN
    PROVE  /\ Text(ws, colon) \in Seq(Chars) /\ FlattenSeq(ws) \in Seq(Chars)
           /\ Len(Text(ws, colon)) =
                Len(FlattenSeq(ws)) + Len(ws) + (IF ws # <<>> /\ colon THEN 1 ELSE 0)
  <1> DEFINE W == Seq(Seq(Chars))
             P(v) == /\ Text(v, colon) \in Seq(Chars) /\ FlattenSeq(v) \in Seq(Chars)
                     /\ Len(Text(v, colon)) = Len(FlattenSeq(v)) + Len(v)
                                              + (IF v # <<>> /\ colon THEN 1 ELSE 0)
             T == {n \in Nat : \A v \in W : Len(v) = n => P(v)}
  <1>1. 0 \in T
    <2> SUFFICES ASSUME NEW v \in W, Len(v) = 0 PROVE P(v)
      OBVIOUS
    <2>1. v = <<>>
      OBVIOUS
    <2>2. Text(v, colon) = <<>>
      <3>1. <<>> \in Seq(Chars)
        OBVIOUS
      <3> QED BY <2>1, <3>1, TextOf
    <2>3. FlattenSeq(v) = <<>>
      <3>1. <<>> \in Seq(Chars)
        OBVIOUS
      <3> QED BY <2>1, <3>1, FlattenFirst
    <2>4. <<>> \in Seq(Chars) /\ Len(<<>>) = 0
      OBVIOUS
    <2>5. Len(Text(v, colon)) = 0 /\ Len(FlattenSeq(v)) = 0
      BY <2>2, <2>3, <2>4
    <2>6. 0 = 0 + 0 + (IF v # <<>> /\ colon THEN 1 ELSE 0)
      BY <2>1
    <2> QED BY <2>2, <2>3, <2>4, <2>5, <2>6
  <1>2. ASSUME NEW n \in Nat, n \in T PROVE n + 1 \in T
    <2> SUFFICES ASSUME NEW v \in W, Len(v) = n + 1 PROVE P(v)
      OBVIOUS
    <2>1. v # <<>>
      OBVIOUS
    <2> DEFINE w == v[1]
               t == Tail(v)
    <2>2. /\ w \in Seq(Chars) /\ t \in W /\ v = <<w>> \o t
          /\ Len(v) = Len(t) + 1 /\ Len(t) \in Nat
      BY <2>1, Headed
    <2> HIDE DEF w, t, P
    <2>3. Len(t) = n
      BY <2>2
    <2>4. P(t)
      BY <1>2, <2>2, <2>3
    <2>5. FlattenSeq(v) = w \o FlattenSeq(t)
      BY <2>2, FlattenFirst
    <2>6. CASE t = <<>>
      <3>1. v = <<w>>
        <4>1. <<w>> \in W
          BY <2>2
        <4> QED BY <2>2, <2>6, <4>1, ConcatEmptySeq
      <3>2. Text(v, colon) = Item(w, colon)
        BY <2>2, <3>1, TextOf
      <3>3. FlattenSeq(v) = w
        BY <2>2, <3>1, FlattenFirst
      <3>4. /\ Item(w, colon) \in Seq(Chars)
            /\ Len(Item(w, colon)) = Len(w) + (IF colon THEN 2 ELSE 1)
            /\ Len(w) \in Nat
        <4>1. Len(w) \in Nat
          BY <2>2
        <4> QED BY <2>2, <4>1, ItemIs
      <3>5. Len(v) = 1
        BY <2>2, <2>6
      <3>6. Len(w) + (IF colon THEN 2 ELSE 1) = Len(w) + 1 + (IF colon THEN 1 ELSE 0)
        BY <3>4
      <3> QED BY <2>1, <2>2, <3>2, <3>3, <3>4, <3>5, <3>6 DEF P
    <2>7. CASE t # <<>>
      <3> DEFINE i == <<" ">> \o w
                 a == Text(t, colon)
                 b == FlattenSeq(t)
                 k == IF colon THEN 1 ELSE 0
      <3>1. Text(v, colon) = i \o a
        BY <2>2, <2>7, TextOf
      <3>2. i \in Seq(Chars) /\ Len(i) = Len(w) + 1
        BY <2>2, CharsIn, Marked, ZenonT(40)
      <3>3. a \in Seq(Chars) /\ b \in Seq(Chars) /\ Len(a) = Len(b) + Len(t) + k
        BY <2>4, <2>7 DEF P
      <3>4. k \in Nat
        OBVIOUS
      <3> HIDE DEF i, a, b, k
      <3>5. /\ i \o a \in Seq(Chars) /\ Len(i \o a) = Len(i) + Len(a)
            /\ w \o b \in Seq(Chars) /\ Len(w \o b) = Len(w) + Len(b)
            /\ Len(w) \in Nat /\ Len(b) \in Nat
        BY <2>2, <3>2, <3>3, Concat
      <3>6. Len(i \o a) = Len(w \o b) + Len(v) + k
        <4> DEFINE m1 == Len(w)
                   m2 == Len(b)
                   m3 == Len(t)
        <4>1. m1 \in Nat /\ m2 \in Nat /\ m3 \in Nat /\ k \in Nat
          BY <2>2, <3>4, <3>5
        <4>2. Len(i \o a) = (m1 + 1) + (m2 + m3 + k)
          BY <3>2, <3>3, <3>5
        <4>3. Len(w \o b) = m1 + m2 /\ Len(v) = m3 + 1
          BY <2>2, <3>5
        <4> HIDE DEF m1, m2, m3
        <4>4. (m1 + 1) + (m2 + m3 + k) = (m1 + m2) + (m3 + 1) + k
          BY <4>1
        <4> QED BY <4>2, <4>3, <4>4
      <3> QED BY <2>1, <2>5, <3>1, <3>5, <3>6 DEF P, b, k
    <2> QED BY <2>6, <2>7
  <1> HIDE DEF T, P
  <1>3. Nat \subseteq T
    BY <1>1, <1>2, Induction
  <1>4. P(ws)
    <2>1. Len(ws) \in T
      BY <1>3
    <2> QED BY <2>1 DEF T
  <1> QED BY <1>4 DEF P

-----------------------------------------------------------------------------
(* What the words that were read spell.                                    *)

\* A word that need not be marked, or is empty.
Bare(word) == ~Has(word, " ") /\ (word # <<>> => word[1] # ":")

\* What may be left at the end of a line.
Ends == {<<>>, <<" ">>}

\* Both are texts.
LEMMA EndsIn == <<>> \in Ends /\ <<" ">> \in Ends /\ \A tail \in Ends : tail \in Seq(Chars)
  <1>1. \A tail \in Ends : tail = <<>> \/ tail = <<" ">>
    BY DEF Ends
  <1>2. <<>> \in Seq(Chars)
    OBVIOUS
  <1>3. <<" ">> \in Seq(Chars)
    BY CharsIn
  <1>4. <<>> \in Ends /\ <<" ">> \in Ends
    BY DEF Ends
  <1> QED BY <1>1, <1>2, <1>3, <1>4

\* The words of s spell it: only the last one may have been marked, and a space at
\* the end is lost.
Spells(s, ws) ==
    /\ ws # <<>>
    /\ \A j \in 1..Len(ws) - 1 : Bare(ws[j])
    /\ \E colon \in BOOLEAN, tail \in Ends :
          /\ ~colon => Bare(ws[Len(ws)])
          /\ <<" ">> \o s = Text(ws, colon) \o tail

\* Params spells what it reads.
LEMMA SpellsAll ==
    ASSUME NEW s \in Seq(Chars), s # <<>>
    PROVE  Spells(s, Params[s])
  <1> DEFINE T == {n \in Nat : \A t \in Seq(Chars) : t # <<>> /\ Len(t) < n => Spells(t, Params[t])}
  <1>1. 0 \in T
    OBVIOUS
  <1>2. ASSUME NEW n \in Nat, n \in T PROVE n + 1 \in T
    <2> SUFFICES ASSUME NEW t \in Seq(Chars), t # <<>>, Len(t) < n + 1 PROVE Spells(t, Params[t])
      OBVIOUS
    <2> DEFINE w == WordOf(t)
               r == RestOf(t)
               p == Params[t]
               q == Params[r]
    <2>1. /\ w \in Seq(Chars) /\ r \in Seq(Chars) /\ Len(r) < n
          /\ p = <<w>> \o q /\ p \in Seq(Seq(Chars)) /\ q \in Seq(Seq(Chars))
      <3>1. /\ w \in Seq(Chars) /\ r \in Seq(Chars)
            /\ Len(r) \in Nat /\ Len(r) < Len(t) /\ Len(t) \in Nat
        BY WordTaken
      <3>2. p = <<w>> \o q /\ p \in Seq(Seq(Chars)) /\ q \in Seq(Seq(Chars))
        BY ParamsIs
      <3> HIDE DEF w, r
      <3>3. Len(r) < n
        BY <3>1
      <3> QED BY <3>1, <3>2, <3>3
    <2>2. r = <<>> => p = <<w>>
      <3> SUFFICES ASSUME r = <<>> PROVE p = <<w>>
        OBVIOUS
      <3>1. q = <<>> /\ <<w>> \in Seq(Seq(Chars))
        <4>1. <<>> \in Seq(Chars)
          OBVIOUS
        <4>2. Params[<<>>] = <<>>
          BY <4>1, ParamsIs
        <4> QED BY <2>1, <4>2
      <3> QED BY <2>1, <3>1, Words
    <2>3. ASSUME r = <<>>, NEW colon \in BOOLEAN, ~colon => Bare(w),
                 NEW tail \in Ends, <<" ">> \o t = Item(w, colon) \o tail
          PROVE  Spells(t, p)
      <3> HIDE DEF w, r, p, q
      <3>1. p = <<w>> /\ Len(p) = 1 /\ p[1] = w /\ p # <<>>
        <4>1. p = <<w>>
          BY <2>2, <2>3
        <4> QED BY <4>1
      <3>2. Text(p, colon) = Item(w, colon)
        BY <2>1, <3>1, TextOf
      <3>3. \A j \in 1..Len(p) - 1 : FALSE
        <4>1. Len(p) = 1
          BY <3>1
        <4>2. 1..1 - 1 = {}
          OBVIOUS
        <4> QED BY <4>1, <4>2
      <3> QED BY <2>3, <3>1, <3>2, <3>3 DEF Spells
    <2>4. <<" ">> \in Seq(Chars) /\ <<>> \in Seq(Chars) /\ <<" ">> \o t \in Seq(Chars)
      <3>1. <<>> \in Seq(Chars)
        OBVIOUS
      <3>2. <<" ">> \in Seq(Chars)
        BY CharsIn
      <3> QED BY <3>1, <3>2, Space
    <2>5. CASE t[1] = ":"
      <3>1. w = Tail(t) /\ r = <<>> /\ t = <<":">> \o w
        BY <2>5, MarkedIs
      <3>2. Item(w, TRUE) = <<" ">> \o t
        BY <2>1, <3>1, ItemIs
      <3>3. <<" ">> \o t = Item(w, TRUE) \o <<>>
        BY <2>4, <3>2, Concat
      <3> QED BY <2>3, <3>1, <3>3, EndsIn
    <2>6. CASE t[1] # ":" /\ ~Has(t, " ")
      <3>1. w = t /\ r = <<>> /\ ~Has(w, " ")
        BY <2>6, WordIs
      <3>2. Bare(w)
        BY <2>6, <3>1 DEF Bare
      <3>3. Item(w, FALSE) = <<" ">> \o t
        BY <3>1 DEF Item
      <3>4. <<" ">> \o t = Item(w, FALSE) \o <<>>
        BY <2>4, <3>3, Concat
      <3> QED BY <2>3, <3>1, <3>2, <3>4, EndsIn
    <2>7. CASE t[1] # ":" /\ Has(t, " ")
      <3>1. ~Has(w, " ") /\ t = w \o (<<" ">> \o r) /\ (w # <<>> => w[1] = t[1])
        BY <2>7, WordIs
      <3>2. Bare(w)
        BY <2>7, <3>1 DEF Bare
      <3> HIDE DEF w, r
      <3>3. \A a, b \in Seq(Chars) : <<" ">> \o (a \o b) = (<<" ">> \o a) \o b
        BY <2>4, Assoc
      <3>4. <<" ">> \o t = (<<" ">> \o w) \o (<<" ">> \o r)
        <4>1. <<" ">> \o r \in Seq(Chars)
          BY <2>1, Space
        <4> QED BY <2>1, <3>1, <3>3, <4>1
      <3>5. CASE r = <<>>
        <4>1. <<" ">> \o r = <<" ">>
          BY <2>4, <3>5, Concat
        <4>2. <<" ">> \o t = Item(w, FALSE) \o <<" ">>
          BY <3>4, <4>1 DEF Item
        <4> QED BY <2>3, <3>2, <3>5, <4>2, EndsIn
      <3>6. CASE r # <<>>
        <4>1. Spells(r, q)
          BY <1>2, <2>1, <3>6
        <4> HIDE DEF q, p
        <4>2. PICK colon \in BOOLEAN, tail \in Ends :
                 /\ ~colon => Bare(q[Len(q)])
                 /\ <<" ">> \o r = Text(q, colon) \o tail
          BY <4>1 DEF Spells
        <4>3. q # <<>> /\ \A j \in 1..Len(q) - 1 : Bare(q[j])
          BY <4>1 DEF Spells
        <4> DEFINE i == <<" ">> \o w
                   x == Text(q, colon)
        <4>4. i \in Seq(Chars) /\ x \in Seq(Chars) /\ tail \in Seq(Chars)
          BY <2>1, <2>4, EndsIn, Space, TextLen
        <4>5. Text(p, colon) = i \o x
          BY <2>1, <4>3, TextOf
        <4>6. <<" ">> \o t = i \o (x \o tail)
          BY <3>4, <4>2
        <4> HIDE DEF i, x
        <4>7. i \o (x \o tail) = (i \o x) \o tail
          BY <4>4, Assoc, SMTT(40)
        <4>8. <<" ">> \o t = Text(p, colon) \o tail
          BY <4>5, <4>6, <4>7
        <4>9. /\ p # <<>> /\ Len(p) = Len(q) + 1 /\ Len(q) \in Nat /\ Len(q) # 0
              /\ p[1] = w /\ \A j \in 1..Len(q) : p[j + 1] = q[j]
          <5>1. p = <<w>> \o q /\ w \in Seq(Chars) /\ q \in Seq(Seq(Chars)) /\ q # <<>>
            BY <2>1, <4>3
          <5> QED BY <5>1, Words
        <4>10. ASSUME NEW j \in 1..Len(p) - 1 PROVE Bare(p[j])
          <5>1. CASE j = 1
            BY <3>2, <4>9, <5>1
          <5>2. CASE j # 1
            <6> DEFINE k == j - 1
            <6>1. k \in 1..Len(q) - 1 /\ k \in 1..Len(q) /\ j = k + 1
              <7>1. Len(q) \in Nat /\ Len(p) = Len(q) + 1 /\ Len(q) # 0
                BY <4>9
              <7>2. j \in Int /\ 1 <= j /\ j <= Len(q)
                BY <7>1
              <7> QED BY <5>2, <7>1, <7>2
            <6> HIDE DEF k
            <6> QED BY <4>3, <4>9, <6>1
          <5> QED BY <5>1, <5>2
        <4>11. p[Len(p)] = q[Len(q)]
          <5>1. Len(q) \in 1..Len(q)
            <6>1. Len(q) \in Nat /\ Len(q) # 0
              BY <4>9
            <6> QED BY <6>1
          <5> QED BY <4>9, <5>1
        <4>12. ~colon => Bare(p[Len(p)])
          BY <4>2, <4>11
        <4>13. Spells(t, p)
          BY <4>8, <4>9, <4>10, <4>12 DEF Spells
        <4> QED BY <4>13 DEF p
      <3> QED BY <3>5, <3>6
    <2> QED BY <2>5, <2>6, <2>7
  <1> HIDE DEF T
  <1>3. Nat \subseteq T
    BY <1>1, <1>2, Induction
  <1>4. Len(s) + 1 \in T /\ Len(s) < Len(s) + 1
    BY <1>3
  <1> QED BY <1>4 DEF T

\* The same for texts, as a formula.
LEMMA Cut ==
    \A s \in Seq(Chars) : \A j \in 1..Len(s) :
       LET x == SubSeq(s, 1, j - 1)
           y == SubSeq(s, j + 1, Len(s))
       IN /\ x \in Seq(Chars) /\ Len(x) = j - 1 /\ \A i \in 1..j - 1 : x[i] = s[i]
          /\ y \in Seq(Chars) /\ Len(y) = Len(s) - j /\ \A i \in 1..Len(s) - j : y[i] = s[j + i]
  BY Around

\* What is where in two texts together.
LEMMA GlueText ==
    \A a, b \in Seq(Chars) :
       /\ a \o b \in Seq(Chars) /\ Len(a \o b) = Len(a) + Len(b)
       /\ Len(a) \in Nat /\ Len(b) \in Nat
       /\ \A i \in 1..Len(a) : (a \o b)[i] = a[i]
       /\ \A i \in 1..Len(b) : (a \o b)[Len(a) + i] = b[i]
  BY Glue

\* What is where behind a character.
LEMMA MarkedText ==
    \A c \in Chars : \A b \in Seq(Chars) :
       /\ <<c>> \o b \in Seq(Chars) /\ Len(<<c>> \o b) = Len(b) + 1 /\ Len(b) \in Nat
       /\ <<c>> \o b # <<>>
       /\ (<<c>> \o b)[1] = c /\ \A i \in 1..Len(b) : (<<c>> \o b)[i + 1] = b[i]
       /\ Tail(<<c>> \o b) = b
  BY Marked

-----------------------------------------------------------------------------
(* What is written of words is read as these words.                        *)

\* Two texts with a character between them.
Parted(a, c, b) == a \o (<<c>> \o b)

\* The character between two words.
Gap == " "

\* a and b are found again in s, before and behind its character j.
Apart(s, a, c, b, j) ==
    /\ s \in Seq(Chars) /\ j \in 1..Len(s) /\ Len(s) = j + Len(b) /\ Len(b) \in Nat
    /\ s[j] = c /\ \A i \in 1..j - 1 : s[i] = a[i]
    /\ SubSeq(s, 1, j - 1) = a /\ SubSeq(s, j + 1, Len(s)) = b

\* A text that is put together is taken apart where it was.
LEMMA TakenApart ==
    ASSUME NEW a \in Seq(Chars), NEW c \in Chars, NEW b \in Seq(Chars),
           NEW s, s = Parted(a, c, b), NEW j \in Nat, j = Len(a) + 1
    PROVE  Apart(s, a, c, b, j)
  <1> DEFINE d == <<c>> \o b
             n == Len(b)
  <1>1. /\ d \in Seq(Chars) /\ Len(d) = n + 1 /\ n \in Nat
        /\ d[1] = c /\ \A i \in 1..n : d[i + 1] = b[i]
    BY MarkedText
  <1>s. s = a \o d
    BY DEF Parted
  <1> HIDE DEF d
  <1>2. /\ s \in Seq(Chars) /\ Len(s) = Len(a) + Len(d) /\ Len(a) \in Nat
        /\ \A i \in 1..Len(a) : s[i] = a[i]
        /\ \A i \in 1..Len(d) : s[Len(a) + i] = d[i]
    <2> DEFINE v == a \o d
    <2>1. /\ v \in Seq(Chars) /\ Len(v) = Len(a) + Len(d) /\ Len(a) \in Nat
          /\ \A i \in 1..Len(a) : v[i] = a[i]
          /\ \A i \in 1..Len(d) : v[Len(a) + i] = d[i]
      BY <1>1, GlueText
    <2>2. s = v
      BY <1>s
    <2> HIDE DEF v
    <2> QED BY <2>1, <2>2
  <1> HIDE DEF n
  <1>3. /\ j \in 1..Len(s) /\ Len(s) = j + n /\ j - 1 = Len(a) /\ Len(s) - j = n
    BY <1>1, <1>2
  <1>4. s[j] = c
    <2>1. 1 \in 1..Len(d)
      BY <1>1
    <2> QED BY <1>1, <1>2, <2>1
  <1>5. ASSUME NEW i \in 1..n PROVE s[j + i] = b[i]
    <2>1. i + 1 \in 1..Len(d) /\ Len(a) + (i + 1) = j + i
      BY <1>1, <1>2
    <2> QED BY <1>1, <1>2, <2>1
  <1> DEFINE x == SubSeq(s, 1, j - 1)
             y == SubSeq(s, j + 1, Len(s))
  <1>6. /\ x \in Seq(Chars) /\ Len(x) = j - 1 /\ \A i \in 1..j - 1 : x[i] = s[i]
        /\ y \in Seq(Chars) /\ Len(y) = Len(s) - j /\ \A i \in 1..Len(s) - j : y[i] = s[j + i]
    <2>1. s \in Seq(Chars) /\ j \in 1..Len(s)
      BY <1>2, <1>3
    <2> QED BY <2>1, Cut
  <1> HIDE DEF x, y
  <1>7. x = a
    <2>1. \A i \in 1..Len(a) : x[i] = a[i]
      BY <1>2, <1>3, <1>6
    <2>2. Len(x) = Len(a)
      BY <1>3, <1>6
    <2> QED BY <1>6, <2>1, <2>2, SeqEqual
  <1>8. y = b
    <2>1. Len(b) = n
      BY DEF n
    <2>2. \A i \in 1..Len(b) : y[i] = b[i]
      BY <1>3, <1>5, <1>6, <2>1, ZenonT(40)
    <2>3. Len(y) = Len(b)
      BY <1>3, <1>6, <2>1
    <2> QED BY <1>6, <2>2, <2>3, SeqEqual
  <1>9. \A i \in 1..j - 1 : s[i] = a[i]
    BY <1>2, <1>3
  <1> QED BY <1>1, <1>2, <1>3, <1>4, <1>7, <1>8, <1>9 DEF n, x, y, Apart

\* A bare word in front of a space is read as that word.
LEMMA WordThen ==
    ASSUME NEW w \in Seq(Chars), Bare(w), NEW r \in Seq(Chars), NEW s, s = Parted(w, Gap, r)
    PROVE  /\ s \in Seq(Chars) /\ s # <<>> /\ s[1] # ":"
           /\ WordOf(s) = w /\ RestOf(s) = r
  <1> DEFINE j == Len(w) + 1
  <1>1. Gap \in Chars
    BY CharsIn DEF Gap
  <1>0. Len(w) \in Nat
    OBVIOUS
  <1>3. j \in Nat /\ Len(w) = j - 1 /\ j = Len(w) + 1
    BY <1>0
  <1> HIDE DEF j
  <1>2. /\ s \in Seq(Chars) /\ j \in 1..Len(s) /\ Len(s) = j + Len(r) /\ Len(r) \in Nat
        /\ s[j] = Gap /\ \A i \in 1..j - 1 : s[i] = w[i]
        /\ SubSeq(s, 1, j - 1) = w /\ SubSeq(s, j + 1, Len(s)) = r
    <2>1. j \in Nat /\ j = Len(w) + 1
      BY <1>3
    <2>2. Apart(s, w, Gap, r, j)
      BY <1>1, <2>1, TakenApart
    <2> QED BY <2>2 DEF Apart
  <1>4. \A i \in 1..j - 1 : s[i] # " "
    <2>1. DOMAIN w = 1..Len(w)
      OBVIOUS
    <2>2. \A i \in 1..Len(w) : w[i] # " "
      BY <2>1 DEF Bare, Has
    <2> QED BY <1>2, <1>3, <2>2
  <1>a. Len(s) \in Nat /\ DOMAIN s = 1..Len(s)
    BY <1>2
  <1>5. Has(s, " ") /\ s[j] = " "
    <2>2. s[j] = " "
      BY <1>2 DEF Gap
    <2>3. j \in DOMAIN s
      BY <1>2, <1>a
    <2> QED BY <2>2, <2>3 DEF Has
  <1>6. FirstSpace(s) = j
    <2> DEFINE k == FirstSpace(s)
    <2>1. k \in 1..Len(s) /\ s[k] = " " /\ \A i \in 1..k - 1 : s[i] # " "
      BY <1>2, <1>5, FirstSpaceIs
    <2> HIDE DEF k
    <2>2. ~(k \in 1..j - 1) /\ ~(j \in 1..k - 1)
      BY <1>4, <1>5, <2>1
    <2>3. k \in 1..Len(s) /\ j \in 1..Len(s) /\ Len(s) \in Nat
      BY <1>2, <1>a, <2>1
    <2>4. k = j
      BY <2>2, <2>3
    <2> QED BY <2>4 DEF k
  <1>7. s # <<>> /\ s[1] # ":"
    <2>1. Len(s) # 0
      BY <1>2, <1>a
    <2>2. s # <<>>
      BY <2>1
    <2>3. CASE w = <<>>
      <3>0. Len(w) = 0
        BY <2>3
      <3>1. j = 1
        BY <1>3, <3>0
      <3>2. s[1] = " "
        BY <1>5, <3>1
      <3> QED BY <2>2, <3>2
    <2>4. CASE w # <<>>
      <3>1. Len(w) # 0
        BY <2>4, EmptySeq
      <3>2. 1 \in 1..j - 1
        BY <1>0, <1>3, <3>1
      <3>3. s[1] = w[1]
        BY <1>2, <3>2
      <3> QED BY <2>2, <2>4, <3>3 DEF Bare
    <2> QED BY <2>3, <2>4
  <1>8. WordOf(s) = SubSeq(s, 1, j - 1) /\ RestOf(s) = SubSeq(s, j + 1, Len(s))
    BY <1>6, <1>7 DEF WordOf, RestOf
  <1>9. WordOf(s) = w /\ RestOf(s) = r
    BY <1>2, <1>8
  <1> QED BY <1>2, <1>7, <1>9

\* No number is the next one.
LEMMA Longer == \A n \in Nat : \A k : k = n + 1 => k # n
  OBVIOUS

\* A plain word is read as itself, and any other as another.
LEMMA WordAlone ==
    ASSUME NEW w \in Seq(Chars), w # <<>>
    PROVE  /\ Plain(w) => WordOf(w) = w /\ RestOf(w) = <<>>
           /\ ~Plain(w) => WordOf(w) # w \/ (w[1] # ":" /\ Has(w, " "))
           /\ ~Plain(w) => WordOf(w) # w
  <1>1. CASE w[1] = ":"
    <2>1. WordOf(w) = Tail(w) /\ Len(w) = Len(Tail(w)) + 1 /\ Len(Tail(w)) \in Nat
      BY <1>1, MarkedIs, SMTT(40)
    <2>2. Len(w) # Len(Tail(w))
      BY <2>1, Longer, ZenonT(40)
    <2>3. WordOf(w) # w
      BY <2>1, <2>2
    <2> QED BY <1>1, <2>3 DEF Plain
  <1>2. CASE w[1] # ":"
    <2>1. ~Has(WordOf(w), " ") /\ (~Has(w, " ") => WordOf(w) = w /\ RestOf(w) = <<>>)
      BY <1>2, WordIs
    <2> QED BY <1>2, <2>1 DEF Plain
  <1> QED BY <1>1, <1>2

\* Words that are written are read again, but for the last one if it would have
\* had to be marked and has no space.
Returns(q) ==
    LET last  == q[Len(q)]
        colon == Has(last, " ")
    IN \E r \in Seq(Chars) :
          /\ Text(q, colon) = <<" ">> \o r
          /\ Params[r] = q <=> colon \/ Plain(last)

\* A word that leaves nothing is the only one.
LEMMA ParamsOne ==
    ASSUME NEW s \in Seq(Chars), s # <<>>, RestOf(s) = <<>>
    PROVE  Params[s] = <<WordOf(s)>>
  <1>1. Params[s] = <<WordOf(s)>> \o Params[RestOf(s)]
    BY ParamsIs
  <1>2. <<>> \in Seq(Chars)
    OBVIOUS
  <1>3. Params[<<>>] = <<>>
    BY <1>2, ParamsIs
  <1> DEFINE w == WordOf(s)
  <1>4. w \in Seq(Chars) /\ <<>> \in Seq(Seq(Chars))
    BY WordTaken
  <1>5. <<w>> \o <<>> = <<w>>
    <2> HIDE DEF w
    <2> QED BY <1>4, Words
  <1> QED BY <1>1, <1>3, <1>5

\* One word that is written is read again if it is plain or marked.
LEMMA LastReturns ==
    ASSUME NEW w \in Seq(Chars)
    PROVE  Returns(<<w>>)
  <1> DEFINE q == <<w>>
             colon == Has(w, " ")
             r == IF colon THEN <<":">> \o w ELSE w
  <1>1. Len(q) = 1 /\ q[1] = w
    OBVIOUS
  <1>2. colon \in BOOLEAN
    BY DEF Has
  <1>3. Text(q, colon) = <<" ">> \o r
    BY <1>2, ItemIs, TextOf
  <1>4. r \in Seq(Chars) /\ (Params[r] = q <=> colon \/ Plain(w))
    <2>1. CASE colon
      <3> DEFINE co == ":"
      <3>1. co \in Chars
        BY CharsIn
      <3> HIDE DEF co
      <3> DEFINE x == <<co>> \o w
      <3>2. x \in Seq(Chars) /\ x # <<>> /\ x[1] = co /\ Tail(x) = w
        BY <3>1, Marked
      <3>3. r = x
        BY <2>1 DEF co
      <3> HIDE DEF x, r
      <3>4. x[1] = ":"
        BY <3>2 DEF co
      <3>5. WordOf(x) = w /\ RestOf(x) = <<>>
        BY <3>2, <3>4, MarkedIs
      <3>6. Params[x] = <<w>>
        BY <3>2, <3>5, ParamsOne
      <3> QED BY <2>1, <3>2, <3>3, <3>6
    <2>2. CASE ~colon /\ w = <<>>
      <3>1. r = <<>> /\ Params[r] = <<>>
        BY <2>2, ParamsIs
      <3>2. <<>> # q
        OBVIOUS
      <3>3. ~Plain(w)
        BY <2>2 DEF Plain
      <3> QED BY <2>2, <3>1, <3>2, <3>3
    <2>3. CASE ~colon /\ w # <<>>
      <3>1. r = w
        BY <2>3
      <3>2. RestOf(w) = <<>>
        <4>1. CASE w[1] = ":"
          BY <2>3, <4>1, MarkedIs
        <4>2. CASE w[1] # ":"
          BY <2>3, <4>2, WordIs
        <4> QED BY <4>1, <4>2
      <3>3. Params[w] = <<WordOf(w)>>
        BY <2>3, <3>2, ParamsOne
      <3>4. WordOf(w) = w <=> Plain(w)
        BY <2>3, WordAlone
      <3>5. <<WordOf(w)>> = <<w>> <=> WordOf(w) = w
        OBVIOUS
      <3> QED BY <2>3, <3>1, <3>3, <3>4, <3>5
    <2> QED BY <2>1, <2>2, <2>3
  <1> HIDE DEF r
  <1> QED BY <1>1, <1>3, <1>4 DEF Returns

\* So are several, by induction on their number.
LEMMA AllReturn ==
    ASSUME NEW q \in Seq(Seq(Chars)), q # <<>>, \A j \in 1..Len(q) - 1 : Bare(q[j])
    PROVE  Returns(q)
  <1> DEFINE T == {n \in Nat : \A v \in Seq(Seq(Chars)) :
                      v # <<>> /\ Len(v) = n /\ (\A j \in 1..n - 1 : Bare(v[j])) => Returns(v)}
  <1>1. 0 \in T
    OBVIOUS
  <1>2. ASSUME NEW n \in Nat, n \in T PROVE n + 1 \in T
    <2> SUFFICES ASSUME NEW v \in Seq(Seq(Chars)), v # <<>>, Len(v) = n + 1,
                        \A j \in 1..(n + 1) - 1 : Bare(v[j])
                 PROVE  Returns(v)
      OBVIOUS
    <2> DEFINE w == v[1]
               t == Tail(v)
    <2>1. w \in Seq(Chars) /\ t \in Seq(Seq(Chars)) /\ v = <<w>> \o t
      BY Headed
    <2>2. /\ Len(v) = Len(t) + 1 /\ Len(t) \in Nat /\ (t # <<>> => Len(t) # 0)
          /\ \A j \in 1..Len(t) : v[j + 1] = t[j]
          /\ t = <<>> => v = <<w>>
      <3> HIDE DEF w, t
      <3> QED BY <2>1, Words
    <2> HIDE DEF w, t
    <2>3. CASE t = <<>>
      BY <2>1, <2>2, <2>3, LastReturns
    <2>4. CASE t # <<>>
      <3>1. Len(t) = n /\ n # 0
        BY <2>2, <2>4
      <3>2. \A j \in 1..n - 1 : Bare(t[j])
        <4>1. ASSUME NEW j \in 1..n - 1 PROVE j \in 1..Len(t) /\ j + 1 \in 1..(n + 1) - 1
          BY <3>1
        <4> QED BY <2>2, <4>1
      <3>3. Returns(t)
        BY <1>2, <2>1, <2>4, <3>1, <3>2
      <3>4. v[Len(v)] = t[Len(t)]
        <4>1. Len(t) \in 1..Len(t) /\ Len(v) = Len(t) + 1
          BY <2>2, <3>1
        <4> QED BY <2>2, <4>1
      <3>5. Bare(w)
        <4>1. 1 \in 1..(n + 1) - 1
          BY <3>1
        <4> QED BY <4>1 DEF w
      <3> DEFINE last == t[Len(t)]
                 colon == Has(last, " ")
      <3>6. PICK r \in Seq(Chars) : /\ Text(t, colon) = <<" ">> \o r
                                    /\ Params[r] = t <=> colon \/ Plain(last)
        BY <3>3 DEF Returns
      <3>7. colon \in BOOLEAN
        BY DEF Has
      <3> HIDE DEF colon, last
      <3> DEFINE x == w \o (<<" ">> \o r)
      <3>8. x \in Seq(Chars) /\ x # <<>> /\ WordOf(x) = w /\ RestOf(x) = r
        <4>1. x = Parted(w, Gap, r)
          BY DEF Parted, Gap
        <4> HIDE DEF x
        <4> QED BY <2>1, <3>5, <3>6, <4>1, WordThen
      <3>9. Text(v, colon) = <<" ">> \o x
        <4>1. Text(v, colon) = (<<" ">> \o w) \o (<<" ">> \o r)
          BY <2>1, <2>4, <3>6, <3>7, TextOf, ZenonT(40)
        <4> DEFINE y == <<" ">> \o r
        <4>2. y \in Seq(Chars)
          BY Space
        <4>3. <<" ">> \in Seq(Chars)
          BY CharsIn
        <4> HIDE DEF y
        <4>4. (<<" ">> \o w) \o y = <<" ">> \o (w \o y)
          BY <2>1, <4>2, <4>3, Assoc
        <4> QED BY <4>1, <4>4 DEF y
      <3> HIDE DEF x
      <3>10. Params[x] = <<w>> \o Params[r] /\ Params[r] \in Seq(Seq(Chars))
        BY <3>8, ParamsIs
      <3>11. Params[x] = v <=> Params[r] = t
        <4> DEFINE u == Params[r]
        <4>1. u \in Seq(Seq(Chars))
          BY <3>10
        <4> HIDE DEF u
        <4>2. Tail(<<w>> \o u) = u /\ Tail(<<w>> \o t) = t
          BY <2>1, <4>1, Words
        <4>3. <<w>> \o u = <<w>> \o t <=> u = t
          BY <4>2
        <4> QED BY <2>1, <3>10, <4>3 DEF u
      <3>12. Params[x] = v <=> colon \/ Plain(last)
        BY <3>6, <3>11
      <3> QED BY <3>4, <3>8, <3>9, <3>12 DEF Returns, colon, last
    <2> QED BY <2>3, <2>4
  <1> HIDE DEF T
  <1>3. Nat \subseteq T
    BY <1>1, <1>2, Induction
  <1>4. Len(q) \in Nat
    OBVIOUS
  <1>5. Len(q) \in T
    BY <1>3, <1>4
  <1> QED BY <1>5 DEF T

-----------------------------------------------------------------------------
(* Messages that are read and written.                                     *)

\* s is m's text, and m's words are those of its body.
Reading(s, m) ==
    LET b == Body(s) IN
      /\ b \in Seq(Chars) /\ b # <<>>
      /\ m.prefix \in Seq(Chars)
      /\ m.command = WordOf(b) /\ m.command \in Seq(Chars)
      /\ m.params = Params[RestOf(b)] /\ m.params \in Seq(Seq(Chars))
      /\ <<m.command>> \o m.params = Params[b]
      /\ ~HasPrefix(s) => m.prefix = <<>> /\ s = b
      /\ HasPrefix(s) => Bare(m.prefix) /\ s = <<":">> \o (m.prefix \o (<<" ">> \o b))

\* parseMessage reads a text.
LEMMA ReadIs ==
    ASSUME NEW s \in Seq(Chars), Parses(s)
    PROVE  Reading(s, parseMessage(s))
  <1> DEFINE m == parseMessage(s)
             b == Body(s)
             t == Tail(s)
  <1>1. b # <<>>
    BY DEF Parses
  <1>2. /\ m.prefix = IF HasPrefix(s) THEN WordOf(t) ELSE <<>>
        /\ m.command = WordOf(b) /\ m.params = Params[RestOf(b)]
    BY DEF parseMessage
  <1> HIDE DEF m
  <1>3. CASE ~HasPrefix(s)
    <2>1. b = s /\ m.prefix = <<>> /\ <<>> \in Seq(Chars)
      BY <1>2, <1>3 DEF Body
    <2>2. b \in Seq(Chars) /\ m.prefix \in Seq(Chars)
      BY <2>1
    <2> HIDE DEF b
    <2>3. WordOf(b) \in Seq(Chars)
      BY <1>1, <2>2, WordTaken
    <2>4. Params[b] = <<WordOf(b)>> \o Params[RestOf(b)] /\ Params[RestOf(b)] \in Seq(Seq(Chars))
      BY <1>1, <2>2, ParamsIs
    <2> QED BY <1>1, <1>2, <1>3, <2>1, <2>2, <2>3, <2>4 DEF Reading, b, m
  <1>4. CASE HasPrefix(s)
    <2>1. s # <<>> /\ s[1] = ":"
      BY <1>4 DEF HasPrefix
    <2>2. t \in Seq(Chars) /\ s = <<":">> \o t
      BY <2>1, MarkedIs
    <2>3. t # <<>> /\ b = RestOf(t)
      BY <1>1, <1>4 DEF Body
    <2> HIDE DEF b, t
    <2>4. t[1] # ":"
      BY <1>1, <2>2, <2>3, MarkedIs
    <2> DEFINE p == WordOf(t)
    <2>5. /\ p \in Seq(Chars) /\ b \in Seq(Chars) /\ ~Has(p, " ")
          /\ t = p \o (<<" ">> \o b)
          /\ p # <<>> => p[1] = t[1]
      BY <1>1, <2>2, <2>3, <2>4, WordIs
    <2>6. m.prefix = p
      BY <1>2, <1>4
    <2> HIDE DEF p
    <2>7. Bare(p)
      BY <2>4, <2>5 DEF Bare
    <2>8. WordOf(b) \in Seq(Chars)
      BY <1>1, <2>5, WordTaken
    <2>9. Params[b] = <<WordOf(b)>> \o Params[RestOf(b)] /\ Params[RestOf(b)] \in Seq(Seq(Chars))
      BY <1>1, <2>5, ParamsIs
    <2> QED BY <1>1, <1>2, <1>4, <2>2, <2>5, <2>6, <2>7, <2>8, <2>9 DEF Reading, b, m
  <1> QED BY <1>3, <1>4

\* Whether the last parameter gets a colon.
Colon(q) == q # <<>> /\ Has(q[Len(q)], " ")

\* What is written.
LEMMA WriteIs ==
    ASSUME NEW m, m.params \in Seq(Seq(Chars))
    PROVE  WriteTo(m) =
             [chars |-> (IF m.prefix # <<>> THEN <<":">> \o m.prefix \o <<" ">> ELSE <<>>)
                        \o m.command \o Text(m.params, Colon(m.params)),
              eol |-> "CRLF"]
  <1> DEFINE q == m.params
             n == Len(q)
             f == [j \in 1..n |-> IF j < n THEN <<" ">> \o q[j] ELSE LastParam(q[j])]
  <1>1. q \in Seq(Seq(Chars))
    OBVIOUS
  <1>2. ASSUME NEW j \in 1..n
        PROVE  (IF j < n THEN <<" ">> \o q[j] ELSE LastParam(q[j])) = Item(q[j], j = n /\ Colon(q))
    <2> HIDE DEF q
    <2>0. n \in Nat /\ j \in 1..n
      BY <1>1
    <2>1. CASE j < n
      <3> HIDE DEF n
      <3>1. j # n
        BY <2>0, <2>1
      <3> QED BY <2>1, <3>1 DEF Item
    <2>2. CASE ~(j < n)
      <3>1. j = n /\ n # 0
        <4> HIDE DEF n
        <4> QED BY <2>0, <2>2
      <3>2. q # <<>>
        BY <3>1
      <3>3. LastParam(q[j]) = IF Has(q[j], " ") THEN <<" ", ":">> \o q[j] ELSE <<" ">> \o q[j]
        BY DEF LastParam
      <3>4. j = n /\ Colon(q) <=> Has(q[j], " ")
        BY <3>1, <3>2 DEF Colon
      <3> HIDE DEF n
      <3> QED BY <2>2, <3>3, <3>4 DEF Item
    <2> QED BY <2>1, <2>2
  <1>3. f = Spaced(q, Colon(q))
    BY <1>2 DEF Spaced
  <1>4. FlattenSeq(f) = Text(q, Colon(q))
    BY <1>3 DEF Text
  <1> QED BY <1>4 DEF WriteTo

\* A text in front of the first of several.
LEMMA FlattenPrefix ==
    ASSUME NEW c \in Seq(Chars), NEW ss \in Seq(Seq(Chars)), NEW tt \in Seq(Seq(Chars)),
           ss # <<>>, Len(tt) = Len(ss), tt[1] = c \o ss[1],
           \A j \in 2..Len(ss) : tt[j] = ss[j]
    PROVE  FlattenSeq(tt) = c \o FlattenSeq(ss)
  <1>1. Len(ss) \in Nat \ {0}
    BY EmptySeq
  <1>2. tt # <<>>
    BY <1>1
  <1> DEFINE a == Tail(ss)
             b == Tail(tt)
             x == ss[1]
  <1>3. /\ x \in Seq(Chars) /\ a \in Seq(Seq(Chars)) /\ ss = <<x>> \o a
        /\ Len(ss) = Len(a) + 1 /\ Len(a) \in Nat
    BY Headed
  <1>4. /\ tt[1] \in Seq(Chars) /\ b \in Seq(Seq(Chars)) /\ tt = <<tt[1]>> \o b
        /\ Len(tt) = Len(b) + 1 /\ Len(b) \in Nat
    BY <1>2, Headed
  <1>5. a = b
    <2>1. \A j \in 1..Len(a) : ss[j + 1] = a[j]
      <3> HIDE DEF a, x
      <3> QED BY <1>3, Words
    <2>2. \A j \in 1..Len(b) : tt[j + 1] = b[j]
      <3> HIDE DEF b
      <3> DEFINE y == tt[1]
      <3> HIDE DEF y
      <3>1. tt = <<y>> \o b /\ y \in Seq(Chars)
        BY <1>4 DEF y
      <3> QED BY <1>4, <3>1, Words
    <2> HIDE DEF a, b, x
    <2>3. Len(a) = Len(b)
      BY <1>3, <1>4
    <2>4. ASSUME NEW j \in 1..Len(a) PROVE a[j] = b[j]
      <3>1. j + 1 \in 2..Len(ss)
        BY <1>3
      <3> QED BY <2>1, <2>2, <2>3, <3>1
    <2> QED BY <1>3, <1>4, <2>3, <2>4, SeqEqual, ZenonT(40)
  <1> HIDE DEF a, b, x
  <1>6. FlattenSeq(ss) = x \o FlattenSeq(a)
    BY <1>3, FlattenFirst
  <1> DEFINE y == tt[1]
  <1>y. y \in Seq(Chars) /\ tt = <<y>> \o a /\ y = c \o x
    BY <1>4, <1>5 DEF x
  <1> HIDE DEF y
  <1>7. FlattenSeq(tt) = y \o FlattenSeq(a)
    BY <1>3, <1>y, FlattenFirst, ZenonT(40)
  <1> DEFINE z == FlattenSeq(a)
  <1>8. z \in Seq(Chars)
    BY <1>3, TextLen
  <1> HIDE DEF z
  <1>9. c \o (x \o z) = (c \o x) \o z
    BY <1>3, <1>8, Assoc
  <1> QED BY <1>6, <1>7, <1>9, <1>y DEF z

\* The words of a body as Spelled puts them together.
Joined(ws, colon) ==
    FlattenSeq([j \in 1..Len(ws) |-> (IF j > 1 THEN <<" ">> ELSE <<>>)
                                     \o (IF j = Len(ws) /\ colon THEN <<":">> ELSE <<>>) \o ws[j]])

\* They are what is written, but for the space in front.
LEMMA JoinedIs ==
    ASSUME NEW ws \in Seq(Seq(Chars)), ws # <<>>, NEW colon \in BOOLEAN
    PROVE  Joined(ws, colon) \in Seq(Chars) /\ Text(ws, colon) = <<" ">> \o Joined(ws, colon)
  <1> DEFINE n == Len(ws)
             mark(j) == IF j = n /\ colon THEN <<":">> ELSE <<>>
             item(j) == (IF j > 1 THEN <<" ">> ELSE <<>>) \o mark(j) \o ws[j]
             f == [j \in 1..n |-> item(j)]
             g == Spaced(ws, colon)
  <1>e. <<>> \in Seq(Chars)
    OBVIOUS
  <1>0. <<" ">> \in Seq(Chars) /\ <<":">> \in Seq(Chars) /\ <<>> \in Seq(Chars)
    BY <1>e, CharsIn
  <1>n. n \in Nat /\ n # 0
    BY EmptySeq
  <1>1. ASSUME NEW j \in 1..n
        PROVE  /\ item(j) \in Seq(Chars)
               /\ Item(ws[j], j = n /\ colon) = (IF j > 1 THEN <<>> ELSE <<" ">>) \o item(j)
    <2> DEFINE w == ws[j]
               k == mark(j)
               y == k \o w
    <2>a. w \in Seq(Chars)
      BY ElementOfSeq
    <2>b. k \in Seq(Chars)
      BY <1>0
    <2>1. w \in Seq(Chars) /\ k \in Seq(Chars)
      BY <2>a, <2>b
    <2>2. Item(w, j = n /\ colon) = <<" ">> \o y
      <3>1. CASE j = n /\ colon
        <4>1. Item(w, TRUE) = <<" ">> \o (<<":">> \o w)
          <5> HIDE DEF w
          <5> QED BY <2>1, ItemIs
        <4> QED BY <3>1, <4>1
      <3>2. CASE ~(j = n /\ colon)
        <4>1. k = <<>>
          BY <3>2
        <4>2. y = w
          <5> HIDE DEF w, k
          <5> QED BY <2>1, <4>1, Concat
        <4>3. Item(w, FALSE) = <<" ">> \o w
          BY DEF Item
        <4> HIDE DEF w, k, y
        <4> QED BY <3>2, <4>2, <4>3
      <3> QED BY <3>1, <3>2
    <2> HIDE DEF w, k
    <2>3. y \in Seq(Chars)
      BY <2>1, Concat
    <2>4. CASE j > 1
      <3>1. item(j) = (<<" ">> \o k) \o w
        BY <2>4 DEF k, w
      <3>2. item(j) = <<" ">> \o y
        BY <1>0, <2>1, <3>1, Assoc, ZenonT(40)
      <3> HIDE DEF item, y
      <3>3. item(j) \in Seq(Chars) /\ <<>> \o item(j) = item(j)
        BY <2>3, <3>2, Space, Concat
      <3> QED BY <2>2, <2>4, <3>2, <3>3 DEF w
    <2>5. CASE ~(j > 1)
      <3>1. item(j) = (<<>> \o k) \o w
        BY <2>5 DEF k, w
      <3>2. <<>> \o k = k
        BY <2>1, Concat
      <3>3. item(j) = y
        BY <3>1, <3>2
      <3> HIDE DEF item, y
      <3> QED BY <2>2, <2>3, <2>5, <3>3 DEF w
    <2> QED BY <2>4, <2>5
  <1> HIDE DEF item
  <1>2. f \in Seq(Seq(Chars)) /\ Len(f) = n /\ \A j \in 1..n : f[j] = item(j)
    <2> HIDE DEF n
    <2>1. \A j \in 1..n : item(j) \in Seq(Chars)
      BY <1>1
    <2> QED BY <1>n, <2>1
  <1>3. /\ g \in Seq(Seq(Chars)) /\ Len(g) = n
        /\ \A j \in 1..n : g[j] = Item(ws[j], j = n /\ colon)
    BY SpacedIs
  <1>4. FlattenSeq(f) = Joined(ws, colon)
    BY DEF Joined, item
  <1> HIDE DEF f, g, n
  <1>5. g[1] = <<" ">> \o f[1]
    <2>1. 1 \in 1..n /\ ~(1 > 1)
      BY <1>n
    <2> QED BY <1>1, <1>2, <1>3, <2>1
  <1>6. ASSUME NEW j \in 2..n PROVE g[j] = f[j]
    <2>1. j \in 1..n /\ j > 1
      OBVIOUS
    <2>2. item(j) \in Seq(Chars) /\ g[j] = <<>> \o item(j) /\ f[j] = item(j)
      BY <1>1, <1>2, <1>3, <2>1
    <2> QED BY <2>2, Concat
  <1>7. f # <<>>
    <2>1. Len(f) # 0
      BY <1>n, <1>2
    <2> QED BY <2>1
  <1>8. FlattenSeq(g) = <<" ">> \o FlattenSeq(f)
    <2> DEFINE c == <<" ">>
    <2>1. c \in Seq(Chars) /\ g[1] = c \o f[1]
      BY <1>0, <1>5
    <2> HIDE DEF c
    <2>2. /\ f \in Seq(Seq(Chars)) /\ g \in Seq(Seq(Chars)) /\ Len(g) = Len(f)
          /\ \A j \in 2..Len(f) : g[j] = f[j]
      BY <1>2, <1>3, <1>6
    <2>3. FlattenSeq(g) = c \o FlattenSeq(f)
      BY <1>7, <2>1, <2>2, FlattenPrefix
    <2> QED BY <2>3 DEF c
  <1>9. FlattenSeq(f) \in Seq(Chars)
    BY <1>2, TextLen
  <1> QED BY <1>4, <1>8, <1>9 DEF g, Text

\* s is what m stands for, and perhaps a space.
SpelledBy(s, m, colon, tail) ==
    s = ((IF HasPrefix(s) THEN <<":">> \o m.prefix \o <<" ">> ELSE <<>>)
         \o Joined(<<m.command>> \o m.params, colon)) \o tail

\* A line is what its words are joined to.
LEMMA SpelledAgain ==
    ASSUME NEW s \in Seq(Chars), NEW m, Reading(s, m)
    PROVE  \E colon \in BOOLEAN, tail \in Ends : SpelledBy(s, m, colon, tail)
  <1> DEFINE b == Body(s)
             ws == <<m.command>> \o m.params
             p == m.prefix
  <1>1. /\ b \in Seq(Chars) /\ b # <<>> /\ ws = Params[b] /\ p \in Seq(Chars)
        /\ ~HasPrefix(s) => s = b
        /\ HasPrefix(s) => s = <<":">> \o (p \o (<<" ">> \o b))
    BY DEF Reading
  <1> HIDE DEF b, ws, p
  <1>2. ws \in Seq(Seq(Chars))
    BY <1>1, ParamsIs
  <1>3. Spells(b, ws)
    BY <1>1, SpellsAll
  <1>4. PICK colon \in BOOLEAN, tail \in Ends : <<" ">> \o b = Text(ws, colon) \o tail
    BY <1>3 DEF Spells
  <1>5. ws # <<>>
    BY <1>3 DEF Spells
  <1> DEFINE x == Joined(ws, colon)
  <1>6. x \in Seq(Chars) /\ Text(ws, colon) = <<" ">> \o x /\ tail \in Seq(Chars)
    BY <1>2, <1>5, JoinedIs, EndsIn
  <1>0. <<" ">> \in Seq(Chars) /\ <<":">> \in Seq(Chars) /\ <<>> \in Seq(Chars)
    <2>1. <<>> \in Seq(Chars)
      OBVIOUS
    <2> QED BY <2>1, CharsIn
  <1> HIDE DEF x
  <1> DEFINE y == x \o tail
             sp == <<" ">>
             co == <<":">>
  <1>z. sp \in Seq(Chars) /\ co \in Seq(Chars)
    BY <1>0
  <1>7. y \in Seq(Chars)
    BY <1>6, Concat, ZenonT(40)
  <1>8. b = y
    <2>1. <<" ">> \o b = <<" ">> \o y
      <3>1. sp \o b = (sp \o x) \o tail
        BY <1>4, <1>6
      <3> HIDE DEF sp
      <3>2. sp \o (x \o tail) = (sp \o x) \o tail
        BY <1>z, <1>6, Assoc, ZenonT(40)
      <3> QED BY <3>1, <3>2 DEF sp
    <2>2. Tail(<<" ">> \o b) = b /\ Tail(<<" ">> \o y) = y
      BY <1>1, <1>7, Space
    <2> QED BY <2>1, <2>2
  <1>9. s = ((IF HasPrefix(s) THEN <<":">> \o p \o <<" ">> ELSE <<>>) \o x) \o tail
    <2>1. CASE ~HasPrefix(s)
      <3>1. <<>> \o x = x
        BY <1>6, Concat
      <3> QED BY <1>1, <1>8, <2>1, <3>1
    <2>2. CASE HasPrefix(s)
      <3>1. s = co \o (p \o (sp \o y))
        BY <1>1, <1>8, <2>2
      <3> HIDE DEF co, sp
      <3> DEFINE cp == co \o p
                 cps == cp \o sp
      <3>2. cp \in Seq(Chars)
        BY <1>1, <1>z, Concat
      <3>3. cps \in Seq(Chars)
        <4> HIDE DEF cp
        <4> QED BY <1>z, <3>2, Concat
      <3>4. sp \o y \in Seq(Chars)
        BY <1>z, <1>7, Concat
      <3>5. s = cp \o (sp \o y)
        <4> DEFINE sy == sp \o y
        <4> HIDE DEF sy
        <4>1. co \o (p \o sy) = (co \o p) \o sy
          BY <1>1, <1>z, <3>4, Assoc, ZenonT(40) DEF sy
        <4> QED BY <3>1, <4>1 DEF sy
      <3>6. s = cps \o y
        <4> HIDE DEF cp, y
        <4>1. cp \o (sp \o y) = (cp \o sp) \o y
          BY <1>z, <1>7, <3>2, Assoc, ZenonT(40)
        <4> QED BY <3>5, <4>1
      <3> HIDE DEF cps
      <3>7. cps \o (x \o tail) = (cps \o x) \o tail
        BY <1>6, <3>3, Assoc
      <3>8. s = (cps \o x) \o tail
        BY <3>6, <3>7
      <3> QED BY <2>2, <3>8 DEF cps, cp, co, sp
    <2> QED BY <2>1, <2>2
  <1> QED BY <1>9 DEF x, ws, p, SpelledBy

\* What is written of a message that was read is as long as Message.Len says, and
\* no longer than what was read.
LEMMA SizesOf ==
    ASSUME NEW s \in Seq(Chars), NEW m, Reading(s, m)
    PROVE  /\ WriteTo(m).chars \in Seq(Chars)
           /\ Len(WriteTo(m).chars) + 2 = MessageLen(m)
           /\ Len(WriteTo(m).chars) <= Len(s)
  <1> DEFINE b == Body(s)
             q == m.params
             c == m.command
             p == m.prefix
             ws == <<c>> \o q
             colon == Colon(q)
  <1>1. /\ b \in Seq(Chars) /\ b # <<>> /\ ws = Params[b] /\ p \in Seq(Chars)
        /\ c \in Seq(Chars) /\ q \in Seq(Seq(Chars))
        /\ ~HasPrefix(s) => p = <<>> /\ s = b
        /\ HasPrefix(s) => s = <<":">> \o (p \o (<<" ">> \o b))
    BY DEF Reading
  <1>y. b \in Seq(Chars) /\ p \in Seq(Chars) /\ c \in Seq(Chars) /\ q \in Seq(Seq(Chars))
    BY <1>1
  <1>c. colon \in BOOLEAN /\ (colon <=> q # <<>> /\ Has(q[Len(q)], " "))
    BY DEF Colon
  <1> DEFINE x == Text(q, colon)
             pre == IF p # <<>> THEN <<":">> \o p \o <<" ">> ELSE <<>>
             w == (pre \o c) \o x
  <1>2. WriteTo(m).chars = w
    <2>1. m.params \in Seq(Seq(Chars))
      BY <1>y
    <2>2. WriteTo(m) =
            [chars |-> (IF m.prefix # <<>> THEN <<":">> \o m.prefix \o <<" ">> ELSE <<>>)
                       \o m.command \o Text(m.params, Colon(m.params)),
             eol |-> "CRLF"]
      BY <2>1, WriteIs
    <2>3. WriteTo(m) = [chars |-> w, eol |-> "CRLF"]
      BY <2>2
    <2> HIDE DEF w
    <2> QED BY <2>3
  <1>M. MessageLen(m) =
          (IF p # <<>> THEN Len(p) + 2 ELSE 0) + Len(c) + Len(q)
            + (IF Len(q) # 0 /\ Has(q[Len(q)], " ") THEN 1 ELSE 0) + Len(FlattenSeq(q)) + 2
    BY DEF MessageLen
  <1> HIDE DEF b, q, c, p, colon
  <1>q. Len(q) \in Nat /\ (Len(q) # 0 <=> q # <<>>)
    BY <1>y, EmptySeq
  <1> DEFINE fq == FlattenSeq(q)
  <1>3. x \in Seq(Chars) /\ fq \in Seq(Chars)
    BY <1>1, <1>c, TextLen
  <1>4. Len(x) = Len(fq) + Len(q) + (IF q # <<>> /\ colon THEN 1 ELSE 0)
    BY <1>1, <1>c, TextLen
  <1> HIDE DEF x, fq
  <1>5. pre \in Seq(Chars) /\ Len(pre) = IF p # <<>> THEN Len(p) + 2 ELSE 0
    <2> DEFINE sp == <<" ">>
               co == <<":">>
    <2>1. sp \in Seq(Chars) /\ co \in Seq(Chars) /\ Len(sp) = 1 /\ Len(co) = 1
      BY CharsIn
    <2>2. pre = IF p # <<>> THEN (co \o p) \o sp ELSE <<>>
      OBVIOUS
    <2> HIDE DEF sp, co, pre
    <2> DEFINE cp == co \o p
    <2>3. cp \in Seq(Chars) /\ Len(cp) = 1 + Len(p) /\ Len(p) \in Nat
      <3>1. co \in Seq(Chars) /\ Len(co) = 1 /\ p \in Seq(Chars)
        BY <1>y, <2>1
      <3>2. cp \in Seq(Chars) /\ Len(cp) = Len(co) + Len(p) /\ Len(p) \in Nat
        BY <3>1, Concat
      <3> HIDE DEF cp
      <3> QED BY <3>1, <3>2
    <2> HIDE DEF cp
    <2>4. cp \o sp \in Seq(Chars) /\ Len(cp \o sp) = Len(cp) + 1
      <3>1. sp \in Seq(Chars) /\ Len(sp) = 1
        BY <2>1
      <3> QED BY <2>3, <3>1, Concat, ZenonT(40)
    <2>5. CASE p # <<>>
      <3>1. pre = cp \o sp
        BY <2>2, <2>5 DEF cp
      <3>2. Len(pre) = Len(p) + 2
        BY <2>3, <2>4, <3>1
      <3> QED BY <2>4, <2>5, <3>1, <3>2
    <2>6. CASE p = <<>>
      <3>1. pre = <<>>
        BY <2>2, <2>6
      <3>2. pre \in Seq(Chars) /\ Len(pre) = 0
        BY <3>1
      <3> QED BY <2>6, <3>2
    <2> QED BY <2>5, <2>6
  <1> HIDE DEF pre
  <1> DEFINE pc1 == pre \o c
  <1>6. pc1 \in Seq(Chars) /\ Len(pc1) = Len(pre) + Len(c) /\ Len(c) \in Nat /\ Len(pre) \in Nat
    BY <1>1, <1>5, Concat
  <1> HIDE DEF pc1
  <1>7. w \in Seq(Chars) /\ Len(w) = Len(pc1) + Len(x)
    <2>1. w = pc1 \o x
      BY DEF pc1
    <2> HIDE DEF w
    <2> QED BY <1>3, <1>6, <2>1, Concat
  <1> HIDE DEF w
  <1> DEFINE P == IF p # <<>> THEN Len(p) + 2 ELSE 0
             X == IF colon THEN 1 ELSE 0
             F == Len(fq)
             N == Len(q)
             C == Len(c)
  <1>8. P \in Nat /\ X \in Nat /\ F \in Nat /\ N \in Nat /\ C \in Nat /\ Len(p) \in Nat
    <2>1. Len(p) \in Nat /\ F \in Nat
      BY <1>y, <1>3
    <2> QED BY <1>6, <1>q, <2>1
  <1>9. Len(w) = P + C + F + N + X
    <2>1. Len(x) = F + N + X
      BY <1>4, <1>c
    <2>2. Len(w) = (P + C) + (F + N + X)
      BY <1>5, <1>6, <1>7, <2>1
    <2> HIDE DEF P, X, F, N, C
    <2> QED BY <1>8, <2>2
  <1>10. MessageLen(m) = P + C + N + X + F + 2
    <2>1. X = IF Len(q) # 0 /\ Has(q[Len(q)], " ") THEN 1 ELSE 0
      BY <1>c, <1>q
    <2> QED BY <1>M, <2>1 DEF fq
  <1>11. Len(w) + 2 = MessageLen(m)
    <2> HIDE DEF P, X, F, N, C
    <2> QED BY <1>8, <1>9, <1>10
  <1>12. Len(w) <= Len(s)
    <2>1. ws \in Seq(Seq(Chars)) /\ Len(ws) = N + 1 /\ \A j \in 1..N : ws[j + 1] = q[j]
      BY <1>1, Words
    <2>2. FlattenSeq(ws) = c \o fq
      BY <1>1, FlattenFirst DEF fq
    <2>3. Len(FlattenSeq(ws)) = C + F
      BY <1>1, <1>3, <2>2, Concat, ZenonT(40)
    <2> DEFINE sb == <<" ">> \o b
    <2>4. Spells(b, ws)
      BY <1>1, SpellsAll
    <2> HIDE DEF ws
    <2>5. PICK mark \in BOOLEAN, tail \in Ends :
             (~mark => Bare(ws[Len(ws)])) /\ sb = Text(ws, mark) \o tail
      BY <2>4 DEF Spells
    <2>6. ws # <<>>
      BY <2>4 DEF Spells
    <2>7. sb \in Seq(Chars) /\ Len(sb) = Len(b) + 1 /\ Len(b) \in Nat
      BY <1>1, Space
    <2> DEFINE tx == Text(ws, mark)
               Y == IF mark THEN 1 ELSE 0
    <2>8. tx \in Seq(Chars) /\ Len(tx) = Len(FlattenSeq(ws)) + Len(ws) + Y
      BY <2>1, <2>6, TextLen
    <2> HIDE DEF tx
    <2>9. tail \in Seq(Chars) /\ sb = tx \o tail
      BY <2>5, EndsIn DEF tx
    <2>a. colon => mark
      <3> SUFFICES ASSUME colon, ~mark PROVE FALSE
        OBVIOUS
      <3>1. N \in 1..N
        <4>1. q # <<>>
          BY <1>c
        <4>2. N \in Nat /\ N # 0
          BY <1>q, <4>1
        <4> QED BY <4>2
      <3>2. ws[Len(ws)] = q[N]
        BY <2>1, <3>1
      <3>3. Bare(q[N])
        BY <2>5, <3>2
      <3> QED BY <1>c, <3>3 DEF Bare
    <2>b. X \in Nat /\ Y \in Nat /\ X <= Y
      BY <2>a
    <2> HIDE DEF sb, Y
    <2>10. Len(sb) = Len(tx) + Len(tail) /\ Len(tail) \in Nat
      BY <2>8, <2>9, Concat
    <2>c. Len(b) >= C + F + N + X
      <3> HIDE DEF P, X, F, N, C
      <3>1. Len(b) + 1 = ((C + F) + (N + 1) + Y) + Len(tail)
        BY <2>1, <2>3, <2>7, <2>8, <2>10
      <3>2. Len(b) \in Nat /\ Len(tail) \in Nat /\ Y \in Nat /\ X \in Nat /\ X <= Y
        BY <2>7, <2>10, <2>b
      <3> QED BY <1>8, <3>1, <3>2
    <2>11. Len(s) >= Len(b) + P
      <3>1. CASE ~HasPrefix(s)
        <4>1. P = 0 /\ s = b
          BY <1>1, <3>1
        <4> HIDE DEF P
        <4> QED BY <2>7, <4>1
      <3>2. CASE HasPrefix(s)
        <4> DEFINE co == <<":">>
                   r == p \o sb
        <4>1. co \in Seq(Chars) /\ Len(co) = 1
          BY CharsIn
        <4>2. s = co \o r
          BY <1>1, <3>2 DEF sb
        <4> HIDE DEF co
        <4>3. r \in Seq(Chars) /\ Len(r) = Len(p) + Len(sb)
          BY <1>1, <2>7, Concat
        <4> HIDE DEF r
        <4>4. Len(s) = 1 + Len(r)
          BY <4>1, <4>2, <4>3, Concat, ZenonT(40)
        <4>5. P <= Len(p) + 2
          BY <1>8
        <4> HIDE DEF P
        <4> QED BY <1>8, <2>7, <4>3, <4>4, <4>5
      <3> QED BY <3>1, <3>2
    <2> HIDE DEF P, X, F, N, C
    <2>12. Len(s) \in Nat
      OBVIOUS
    <2> QED BY <1>8, <1>9, <2>7, <2>12, <2>c, <2>11
  <1> QED BY <1>2, <1>7, <1>11, <1>12

-----------------------------------------------------------------------------
(* What holds while a line is read, written and read again.                *)

\* What a text that was read has been read as, at each stage.
CodecInv ==
    /\ line.chars \in Seq(Chars) /\ line.eol \in {"CRLF", "LF"}
    /\ stage \in {"line", "read", "written", "reread", "rejected"}
    /\ stage \in {"read", "written", "reread"} =>
          Parses(line.chars) /\ msg = parseMessage(line.chars) /\ msg.command # <<>>
    /\ stage \in {"written", "reread"} => text = WriteTo(msg)
    /\ stage = "reread" => Parses(text.chars) /\ again = parseMessage(text.chars)

\* The invariant holds at first.
LEMMA CodecStart ==
    ASSUME CodecInit
    PROVE  CodecInv
  <1>1. stage = "line" /\ line.chars \in UNION {[1..n -> Chars] : n \in 0..MaxLine}
        /\ line.eol \in {"CRLF", "LF"}
    BY DEF CodecInit, Lines
  <1>2. PICK n \in 0..MaxLine : line.chars \in [1..n -> Chars]
    BY <1>1
  <1>3. line.chars \in Seq(Chars)
    <2>1. n \in Nat
      OBVIOUS
    <2> QED BY <1>2, <2>1
  <1> QED BY <1>1, <1>3 DEF CodecInv

\* Reading, writing and reading again keep the invariant.
LEMMA CodecStep ==
    ASSUME CodecInv, [CodecNext]_codecVars
    PROVE  CodecInv'
  <1>1. CASE Read
    <2>1. /\ stage = "line" /\ UNCHANGED <<line, text, again>>
          /\ \/ /\ Parses(line.chars) /\ parseMessage(line.chars).command # <<>>
                /\ stage' = "read" /\ msg' = parseMessage(line.chars)
             \/ stage' = "rejected"
      BY <1>1 DEF Read, Readable
    <2> QED BY <2>1 DEF CodecInv
  <1>2. CASE Write
    BY <1>2 DEF Write, CodecInv
  <1>3. CASE ReadAgain
    <2>1. /\ stage = "written" /\ UNCHANGED <<line, msg, text>>
          /\ \/ /\ Parses(text.chars)
                /\ stage' = "reread" /\ again' = parseMessage(text.chars)
             \/ stage' = "rejected"
      BY <1>3 DEF ReadAgain, Readable
    <2> QED BY <2>1 DEF CodecInv
  <1>4. CASE UNCHANGED codecVars
    BY <1>4 DEF codecVars, CodecInv
  <1> QED BY <1>1, <1>2, <1>3, <1>4 DEF CodecNext

\* The invariant always holds.
LEMMA CodecAlways == CodecSpec => []CodecInv
  <1>1. CodecInit => CodecInv
    BY CodecStart
  <1>2. CodecInv /\ [CodecNext]_codecVars => CodecInv'
    BY CodecStep
  <1> QED BY <1>1, <1>2, PTL DEF CodecSpec

\* parseMessage neither drops nor invents anything.
THEOREM ParsedTheorem == CodecSpec => []ParsedFaithfully
  <1>1. CodecInv => ParsedFaithfully
    <2> SUFFICES ASSUME CodecInv, stage = "read"
                 PROVE  \E colon \in BOOLEAN, tail \in {<<>>, <<" ">>} :
                           line.chars = Spelled(msg, colon) \o tail
      BY DEF ParsedFaithfully
    <2> DEFINE s == line.chars
    <2>1. s \in Seq(Chars) /\ Parses(s) /\ msg = parseMessage(s)
      BY DEF CodecInv
    <2>2. Reading(s, msg)
      BY <2>1, ReadIs
    <2>3. PICK colon \in BOOLEAN, tail \in Ends : SpelledBy(s, msg, colon, tail)
      BY <2>1, <2>2, SpelledAgain
    <2>4. Spelled(msg, colon) =
            (IF HasPrefix(s) THEN <<":">> \o msg.prefix \o <<" ">> ELSE <<>>)
            \o Joined(<<msg.command>> \o msg.params, colon)
      BY DEF Spelled, Joined
    <2>5. s = Spelled(msg, colon) \o tail
      BY <2>3, <2>4 DEF SpelledBy
    <2>6. tail \in {<<>>, <<" ">>}
      BY DEF Ends
    <2> QED BY <2>5, <2>6
  <1> QED BY <1>1, CodecAlways, PTL

\* Message.Len is the length of what is written, and that is no longer than what was
\* read, if it was read with CRLF.
THEOREM WrittenTheorem == CodecSpec => []WrittenLength
  <1>1. CodecInv => WrittenLength
    <2> SUFFICES ASSUME CodecInv, stage = "written"
                 PROVE  /\ MessageLen(msg) = Size(text)
                        /\ line.eol = "CRLF" => Size(text) <= Size(line)
      BY DEF WrittenLength
    <2> DEFINE s == line.chars
               w == WriteTo(msg).chars
    <2>1. /\ s \in Seq(Chars) /\ Parses(s) /\ msg = parseMessage(s)
          /\ text = WriteTo(msg)
      BY DEF CodecInv
    <2>2. Reading(s, msg)
      BY <2>1, ReadIs
    <2>3. w \in Seq(Chars) /\ Len(w) + 2 = MessageLen(msg) /\ Len(w) <= Len(s)
      BY <2>1, <2>2, SizesOf
    <2>4. Size(text) = Len(w) + 2
      <3>1. text.chars = w /\ text.eol = "CRLF"
        BY <2>1 DEF WriteTo
      <3> HIDE DEF w
      <3> QED BY <3>1 DEF Size
    <2>5. line.eol = "CRLF" => Size(line) = Len(s) + 2
      BY DEF Size
    <2>6. Len(w) \in Nat /\ Len(s) \in Nat
      BY <2>1, <2>3
    <2> HIDE DEF w, s
    <2> QED BY <2>3, <2>4, <2>5, <2>6
  <1> QED BY <1>1, CodecAlways, PTL

-----------------------------------------------------------------------------
(* Which messages survive.                                                 *)

\* The command and parameters of m as they are written are read as they were,
\* just if they are plain where they have to be.
Survives(m) ==
    /\ Plain(m.command)
    /\ m.params # <<>> => \/ Has(m.params[Len(m.params)], " ")
                          \/ Plain(m.params[Len(m.params)])

\* Command and parameters as they are written.
Written(m) == m.command \o Text(m.params, Colon(m.params))

\* Of the parameters that were read, only the last one may have to be marked.
LEMMA ParamsBare ==
    ASSUME NEW s \in Seq(Chars), NEW m, Reading(s, m)
    PROVE  /\ \A j \in 1..Len(m.params) - 1 : Bare(m.params[j])
           /\ m.command # <<>> /\ ~Plain(m.command) => m.params = <<>>
  <1> DEFINE b == Body(s)
             q == m.params
             c == m.command
             ws == <<c>> \o q
  <1>1. /\ b \in Seq(Chars) /\ b # <<>> /\ ws = Params[b]
        /\ c = WordOf(b) /\ c \in Seq(Chars) /\ q = Params[RestOf(b)] /\ q \in Seq(Seq(Chars))
    BY DEF Reading
  <1> HIDE DEF b, q, c
  <1>2. Len(ws) = Len(q) + 1 /\ Len(q) \in Nat /\ \A j \in 1..Len(q) : ws[j + 1] = q[j]
    BY <1>1, Words
  <1> HIDE DEF ws
  <1>3. \A j \in 1..Len(ws) - 1 : Bare(ws[j])
    <2>1. Spells(b, ws)
      BY <1>1, SpellsAll
    <2> QED BY <2>1 DEF Spells
  <1>4. ASSUME NEW j \in 1..Len(q) - 1 PROVE Bare(q[j])
    <2>1. j \in 1..Len(q) /\ j + 1 \in 1..Len(ws) - 1
      BY <1>2
    <2> QED BY <1>2, <1>3, <2>1
  <1>5. ASSUME c # <<>>, ~Plain(c) PROVE q = <<>>
    <2>1. CASE b[1] = ":"
      <3>1. RestOf(b) = <<>> /\ <<>> \in Seq(Chars)
        BY <1>1, <2>1, MarkedIs
      <3> QED BY <1>1, <3>1, ParamsIs
    <2>2. CASE b[1] # ":"
      <3>1. ~Has(c, " ") /\ c[1] = b[1]
        BY <1>1, <1>5, <2>2, WordIs
      <3> QED BY <1>5, <2>2, <3>1 DEF Plain
    <2> QED BY <2>1, <2>2
  <1> QED BY <1>4, <1>5 DEF q, c

\* A plain command is read again, and so are the parameters.
LEMMA PlainReturns ==
    ASSUME NEW m, m.command \in Seq(Chars), m.params \in Seq(Seq(Chars)), Plain(m.command),
           \A j \in 1..Len(m.params) - 1 : Bare(m.params[j])
    PROVE  LET y == Written(m) IN
             /\ y \in Seq(Chars) /\ y # <<>> /\ y[1] # ":" /\ WordOf(y) = m.command
             /\ Params[RestOf(y)] = m.params <=> Survives(m)
  <1> DEFINE q == m.params
             c == m.command
             colon == Colon(q)
             x == Text(q, colon)
             y == c \o x
  <1>1. c \in Seq(Chars) /\ q \in Seq(Seq(Chars)) /\ Written(m) = y /\ colon \in BOOLEAN
    BY DEF Written, Colon
  <1>2. c # <<>> /\ c[1] # ":" /\ ~Has(c, " ") /\ Bare(c)
    BY DEF Plain, Bare
  <1>3. Survives(m) <=> (q # <<>> => Has(q[Len(q)], " ") \/ Plain(q[Len(q)]))
    BY DEF Survives
  <1>4. \A j \in 1..Len(q) - 1 : Bare(q[j])
    OBVIOUS
  <1> HIDE DEF c
  <1>5. CASE q = <<>>
    <2>1. x = <<>>
      <3>1. Text(<<>>, colon) = <<>>
        <4> HIDE DEF colon, q
        <4> QED BY <1>1, TextOf
      <3> QED BY <1>5, <3>1
    <2>2. y = c
      <3> HIDE DEF x
      <3> QED BY <1>1, <2>1, Concat
    <2> HIDE DEF y, q
    <2>3. WordOf(c) = c /\ RestOf(c) = <<>>
      BY <1>1, <1>2, WordIs
    <2>4. Params[<<>>] = <<>>
      <3>1. <<>> \in Seq(Chars)
        OBVIOUS
      <3> QED BY <3>1, ParamsIs
    <2> QED BY <1>1, <1>2, <1>3, <1>5, <2>2, <2>3, <2>4 DEF c, q
  <1>6. CASE q # <<>>
    <2> DEFINE last == q[Len(q)]
    <2>0. colon <=> Has(last, " ")
      BY <1>6 DEF Colon
    <2> HIDE DEF q
    <2>1. Returns(q)
      BY <1>1, <1>4, <1>6, AllReturn
    <2>2. PICK r \in Seq(Chars) : /\ Text(q, Has(last, " ")) = <<" ">> \o r
                                  /\ Params[r] = q <=> Has(last, " ") \/ Plain(last)
      BY <2>1 DEF Returns
    <2>3. x = <<" ">> \o r
      <3>1. Has(last, " ") \in BOOLEAN
        BY DEF Has
      <3>2. colon = Has(last, " ")
        <4> DEFINE h == Has(last, " ")
        <4>1. h \in BOOLEAN /\ colon \in BOOLEAN /\ (colon <=> h)
          BY <1>1, <2>0, <3>1
        <4> HIDE DEF h, colon
        <4>2. colon = h
          BY <4>1
        <4> QED BY <4>2 DEF h
      <3> HIDE DEF colon, last
      <3> QED BY <2>2, <3>2
    <2>4. y = Parted(c, Gap, r)
      BY <2>3 DEF Parted, Gap
    <2> HIDE DEF y, last
    <2>5. y \in Seq(Chars) /\ y # <<>> /\ y[1] # ":" /\ WordOf(y) = c /\ RestOf(y) = r
      BY <1>1, <1>2, <2>4, WordThen
    <2>6. Params[RestOf(y)] = q <=> Survives(m)
      BY <1>3, <1>6, <2>2, <2>5 DEF last
    <2> QED BY <1>1, <2>5, <2>6 DEF c, q
  <1> QED BY <1>5, <1>6

\* What is written is read as what it was written from, just if that survives.
LEMMA ReadBack ==
    ASSUME NEW s \in Seq(Chars), NEW m, m = parseMessage(s), Parses(s), m.command # <<>>,
           NEW t, t = WriteTo(m).chars, Parses(t)
    PROVE  parseMessage(t) = m <=> Survives(m)
  <1> DEFINE q == m.params
             c == m.command
             p == m.prefix
             y == Written(m)
             a == parseMessage(t)
  <1>1. Reading(s, m)
    BY ReadIs
  <1>2. /\ p \in Seq(Chars) /\ c \in Seq(Chars) /\ q \in Seq(Seq(Chars)) /\ c # <<>>
        /\ p # <<>> => Bare(p)
    BY <1>1 DEF Reading
  <1>3. /\ \A j \in 1..Len(q) - 1 : Bare(q[j])
        /\ ~Plain(c) => q = <<>>
    BY <1>1, <1>2, ParamsBare
  <1>4. t \in Seq(Chars)
    BY <1>1, SizesOf
  <1>5. m = [prefix |-> p, command |-> c, params |-> q]
    BY DEF parseMessage
  <1>6. a = [prefix  |-> IF HasPrefix(t) THEN WordOf(Tail(t)) ELSE <<>>,
             command |-> WordOf(Body(t)),
             params  |-> Params[RestOf(Body(t))]]
    BY DEF parseMessage
  <1>x. Text(q, Colon(q)) \in Seq(Chars)
    <2>1. Colon(q) \in BOOLEAN
      BY DEF Colon
    <2> QED BY <1>2, <2>1, TextLen
  <1>y. y \in Seq(Chars)
    <2> DEFINE x == Text(q, Colon(q))
    <2>1. y = c \o x /\ x \in Seq(Chars)
      BY <1>x DEF Written
    <2> HIDE DEF x, y
    <2> QED BY <1>2, <2>1, Concat
  \* The text is the written words, behind the prefix.
  <1>7. /\ p = <<>> => t = y
        /\ p # <<>> => t = <<":">> \o Parted(p, Gap, y)
    <2> DEFINE x == Text(q, Colon(q))
               pre == IF p # <<>> THEN <<":">> \o p \o <<" ">> ELSE <<>>
    <2>1. t = (pre \o c) \o x
      <3>1. m.params \in Seq(Seq(Chars))
        BY <1>2
      <3>2. WriteTo(m) =
              [chars |-> (IF m.prefix # <<>> THEN <<":">> \o m.prefix \o <<" ">> ELSE <<>>)
                         \o m.command \o Text(m.params, Colon(m.params)),
               eol |-> "CRLF"]
        BY <3>1, WriteIs
      <3> DEFINE w == (pre \o c) \o x
      <3>3. WriteTo(m) = [chars |-> w, eol |-> "CRLF"]
        BY <3>2
      <3> HIDE DEF w
      <3>4. WriteTo(m).chars = w
        BY <3>3
      <3> QED BY <3>4 DEF w
    <2>2. y = c \o x
      BY DEF Written
    <2>3. x \in Seq(Chars)
      BY <1>x
    <2> HIDE DEF x, y, c, p
    <2>4. CASE p = <<>>
      <3>1. pre = <<>> /\ <<>> \o c = c
        BY <1>2, <2>4, Concat
      <3> QED BY <2>1, <2>2, <2>4, <3>1
    <2>5. CASE p # <<>>
      <3> DEFINE co == <<":">>
                 sp == <<" ">>
                 cp == co \o p
                 sy == sp \o y
      <3>1. co \in Seq(Chars) /\ sp \in Seq(Chars)
        BY CharsIn
      <3>2. pre = cp \o sp
        BY <2>5
      <3> HIDE DEF co, sp, pre
      <3>3. cp \in Seq(Chars) /\ sy \in Seq(Chars)
        BY <1>2, <1>y, <3>1, Concat
      <3> HIDE DEF cp, sy
      <3>4. pre \in Seq(Chars)
        BY <3>1, <3>2, <3>3, Concat
      <3>5. t = pre \o y
        BY <1>2, <2>1, <2>2, <2>3, <3>4, Assoc, ZenonT(40)
      <3>6. t = cp \o sy
        BY <1>y, <3>1, <3>2, <3>3, <3>5, Assoc, SMTT(40) DEF sy
      <3>7. t = co \o (p \o sy)
        <4>1. co \in Seq(Chars) /\ p \in Seq(Chars) /\ sy \in Seq(Chars)
          BY <1>2, <3>1, <3>3
        <4>2. co \o (p \o sy) = (co \o p) \o sy
          BY <4>1, Assoc, SMTT(40)
        <4> QED BY <3>6, <4>2 DEF cp
      <3>8. Parted(p, Gap, y) = p \o sy
        BY DEF Parted, Gap, sy, sp
      <3> QED BY <2>5, <3>7, <3>8 DEF co
    <2> QED BY <2>4, <2>5
  <1> HIDE DEF a, y
  \* If the words of y are its own, the prefix is read again.
  <1>8. ASSUME y # <<>>, p # <<>>
        PROVE  HasPrefix(t) /\ Body(t) = y /\ a.prefix = p
    <2> DEFINE z == Parted(p, Gap, y)
    <2>1. z \in Seq(Chars) /\ z # <<>> /\ WordOf(z) = p /\ RestOf(z) = y
      <3> HIDE DEF p, z
      <3>1. z = Parted(p, Gap, y)
        BY DEF z
      <3> QED BY <1>2, <1>8, <1>y, <3>1, WordThen
    <2> DEFINE co == ":"
    <2>2. t = <<co>> \o z /\ co \in Chars
      BY <1>7, <1>8, CharsIn
    <2> HIDE DEF z, co
    <2>3. t # <<>> /\ t[1] = co /\ Tail(t) = z
      BY <2>1, <2>2, MarkedText
    <2>4. HasPrefix(t)
      BY <2>3 DEF HasPrefix, co
    <2>5. Body(t) = y
      BY <2>1, <2>3, <2>4 DEF Body
    <2> QED BY <1>6, <2>1, <2>3, <2>4, <2>5
  <1>9. CASE Plain(c)
    <2>1. /\ y # <<>> /\ y[1] # ":" /\ WordOf(y) = c
          /\ Params[RestOf(y)] = q <=> Survives(m)
      BY <1>2, <1>3, <1>9, PlainReturns DEF y
    <2>2. Body(t) = y /\ a.prefix = p
      <3>1. CASE p = <<>>
        <4>1. ~HasPrefix(t) /\ t = y
          BY <1>7, <2>1, <3>1 DEF HasPrefix
        <4>2. Body(t) = y
          BY <4>1 DEF Body
        <4> QED BY <1>6, <3>1, <4>1, <4>2
      <3>2. CASE p # <<>>
        BY <1>8, <2>1, <3>2
      <3> QED BY <3>1, <3>2
    <2>3. a = [prefix |-> p, command |-> c, params |-> Params[RestOf(y)]]
      BY <1>6, <2>1, <2>2
    <2> HIDE DEF p, c, q
    <2>4. a = m <=> Params[RestOf(y)] = q
      BY <1>5, <2>3
    <2> QED BY <2>1, <2>4 DEF a
  <1>10. CASE ~Plain(c)
    <2>1. ~Survives(m)
      BY <1>10 DEF Survives
    <2>2. y = c
      <3>1. q = <<>>
        BY <1>3, <1>10
      <3> DEFINE x == Text(q, Colon(q))
      <3>2. x = <<>>
        <4>1. Colon(q) \in BOOLEAN
          BY DEF Colon
        <4>2. Text(<<>>, Colon(q)) = <<>>
          <5> HIDE DEF q
          <5> QED BY <1>2, <4>1, TextOf
        <4> QED BY <3>1, <4>2
      <3>3. y = c \o x
        BY DEF Written, y
      <3> HIDE DEF x, c
      <3> QED BY <1>2, <3>2, <3>3, Concat
    <2>3. WordOf(c) # c
      BY <1>2, <1>10, WordAlone
    <2>4. a.command = WordOf(Body(t)) /\ m.command = c
      BY <1>6
    <2>5. CASE p # <<>>
      <3>1. Body(t) = y
        BY <1>2, <1>8, <2>2, <2>5
      <3>2. a.command # m.command
        BY <2>2, <2>3, <2>4, <3>1
      <3> QED BY <2>1, <3>2 DEF a
    <2>6. CASE p = <<>> /\ ~HasPrefix(t)
      <3>1. Body(t) = y
        BY <1>7, <2>6 DEF Body
      <3>2. a.command # m.command
        BY <2>2, <2>3, <2>4, <3>1
      <3> QED BY <2>1, <3>2 DEF a
    <2>7. CASE p = <<>> /\ HasPrefix(t)
      <3> DEFINE u == Tail(t)
                 b == Body(t)
      <3>1. t = c
        BY <1>7, <2>2, <2>7
      <3>2. u \in Seq(Chars) /\ Len(t) = Len(u) + 1 /\ Len(u) \in Nat
        BY <1>4, <2>7, MarkedIs DEF HasPrefix
      <3>3. b # <<>> /\ u # <<>> /\ b = RestOf(u)
        BY <2>7 DEF Parses, Body
      <3> HIDE DEF u, b
      <3>4. b \in Seq(Chars) /\ Len(b) \in Nat /\ Len(b) < Len(u)
        BY <3>2, <3>3, WordTaken
      <3>5. Len(WordOf(b)) \in Nat /\ Len(WordOf(b)) <= Len(b)
        BY <3>3, <3>4, WordTaken
      <3> DEFINE w == WordOf(b)
      <3>6. Len(w) # Len(t)
        <4> HIDE DEF w
        <4>1. Len(w) \in Nat /\ Len(w) <= Len(b)
          BY <3>5 DEF w
        <4> QED BY <3>2, <3>4, <4>1
      <3>7. w # c
        <4> HIDE DEF w, c
        <4> QED BY <3>1, <3>6
      <3>8. a.command # m.command
        BY <2>4, <3>7 DEF b
      <3> QED BY <2>1, <3>8 DEF a
    <2> QED BY <2>5, <2>6, <2>7
  <1> QED BY <1>9, <1>10

\* What is written of a message whose command, and last parameter if it has no
\* space, are plain words is read as that message.
THEOREM SurvivesTheorem == CodecSpec => []PlainSurvives
  <1>1. CodecInv => PlainSurvives
    <2>0. SUFFICES ASSUME CodecInv, stage = "reread", Plain(msg.command),
                          Len(msg.params) > 0 => \/ Has(msg.params[Len(msg.params)], " ")
                                                 \/ Plain(msg.params[Len(msg.params)])
                   PROVE  again = msg
      BY DEF PlainSurvives
    <2> DEFINE s == line.chars
               t == text.chars
    <2>1. /\ s \in Seq(Chars) /\ Parses(s) /\ msg = parseMessage(s) /\ msg.command # <<>>
          /\ text = WriteTo(msg) /\ Parses(t) /\ again = parseMessage(t)
      BY <2>0 DEF CodecInv
    <2>2. t = WriteTo(msg).chars
      BY <2>1
    <2>3. again = msg <=> Survives(msg)
      <3> HIDE DEF s, t
      <3> QED BY <2>1, <2>2, ReadBack
    <2>4. Len(msg.params) > 0 <=> msg.params # <<>>
      <3>1. msg.params \in Seq(Seq(Chars))
        BY <2>1, ReadIs DEF Reading
      <3> DEFINE q == msg.params
      <3>2. q \in Seq(Seq(Chars))
        BY <3>1
      <3> HIDE DEF q
      <3>3. Len(q) > 0 <=> q # <<>>
        BY <3>2, EmptySeq
      <3> QED BY <3>3 DEF q
    <2> QED BY <2>0, <2>3, <2>4 DEF Survives
  <1> QED BY <1>1, CodecAlways, PTL

-----------------------------------------------------------------------------
(* Client ids.                                                             *)

\* The characters that mark the parts of an id.
LEMMA IDCharsIn == "@" \in IDChars /\ "!" \in IDChars
  BY DEF IDChars

\* A text is what is before, at and behind one of its characters.
LEMMA CutID ==
    \A s \in Seq(IDChars) : \A j \in 1..Len(s) :
       LET x == SubSeq(s, 1, j - 1)
           y == SubSeq(s, j + 1, Len(s))
       IN /\ x \in Seq(IDChars) /\ Len(x) = j - 1 /\ \A i \in 1..j - 1 : x[i] = s[i]
          /\ y \in Seq(IDChars) /\ Len(y) = Len(s) - j
          /\ s = x \o (<<s[j]>> \o y)
  BY Around, ZenonT(40)

\* What concatenation does to ids, and to their lengths.
LEMMA ConcatID ==
    \A a, b \in Seq(IDChars) : /\ a \o b \in Seq(IDChars) /\ Len(a \o b) = Len(a) + Len(b)
                              /\ Len(a) \in Nat /\ Len(b) \in Nat
                              /\ a \o <<>> = a /\ <<>> \o a = a
  BY ConcatProperties, ConcatEmptySeq

\* It is associative.
LEMMA AssocID == \A a, b, c \in Seq(IDChars) : a \o (b \o c) = (a \o b) \o c
  BY ConcatAssociative

\* A character in front of a text.
LEMMA MarkedID ==
    \A c \in IDChars : \A b \in Seq(IDChars) :
       /\ <<c>> \o b \in Seq(IDChars) /\ Len(<<c>> \o b) = Len(b) + 1 /\ Len(b) \in Nat
       /\ <<c>> \in Seq(IDChars) /\ Tail(<<c>> \o b) = b
  BY Marked

\* s is a with c and b behind it.
Split(s, a, c, b) ==
    /\ a \in Seq(IDChars) /\ b \in Seq(IDChars)
    /\ s = a \o (<<c>> \o b)
    /\ Len(s) = Len(a) + 1 + Len(b) /\ Len(a) \in Nat /\ Len(b) \in Nat
    /\ ~Contains(a, c)
    /\ \A d : Contains(a, d) => Contains(s, d)

\* Before and Behind split a text at the only c in it.
LEMMA SplitOnce ==
    ASSUME NEW s \in Seq(IDChars), NEW c \in IDChars, Contains(s, c), Once(s, c)
    PROVE  Split(s, Before(s, c), c, Behind(s, c))
  <1> DEFINE j == Where(s, c)
             x == Before(s, c)
             y == Behind(s, c)
  <1>1. Len(s) \in Nat /\ DOMAIN s = 1..Len(s)
    OBVIOUS
  <1>2. j \in 1..Len(s) /\ s[j] = c
    <2>1. \E i \in DOMAIN s : s[i] = c
      BY <1>1 DEF Contains
    <2> QED BY <1>1, <2>1 DEF Where
  <1>3. \A i \in 1..Len(s) : s[i] = c => i = j
    BY <1>1, <1>2 DEF Once
  <1>4. x = SubSeq(s, 1, j - 1) /\ y = SubSeq(s, j + 1, Len(s))
    BY DEF Before, Behind
  <1> HIDE DEF j, x, y
  <1>5. /\ x \in Seq(IDChars) /\ Len(x) = j - 1 /\ \A i \in 1..j - 1 : x[i] = s[i]
        /\ y \in Seq(IDChars) /\ Len(y) = Len(s) - j
        /\ s = x \o (<<s[j]>> \o y)
    BY <1>2, <1>4, CutID
  <1>6. j \in Nat /\ Len(s) = Len(x) + 1 + Len(y) /\ Len(x) \in Nat /\ Len(y) \in Nat
    BY <1>1, <1>2, <1>5
  <1>7. ~Contains(x, c)
    <2> SUFFICES ASSUME NEW i \in 1..Len(x), x[i] = c PROVE FALSE
      BY DEF Contains
    <2>1. i \in 1..j - 1 /\ i \in 1..Len(s) /\ i # j
      BY <1>1, <1>2, <1>5
    <2> QED BY <1>3, <1>5, <2>1
  <1>8. ASSUME NEW d, Contains(x, d) PROVE Contains(s, d)
    <2>1. PICK i \in 1..Len(x) : x[i] = d
      BY <1>8 DEF Contains
    <2>2. i \in 1..j - 1 /\ i \in 1..Len(s)
      BY <1>1, <1>2, <1>5
    <2> QED BY <1>5, <2>1, <2>2 DEF Contains
  <1> QED BY <1>2, <1>5, <1>6, <1>7, <1>8 DEF Split, x, y

\* What IDString puts behind the nick.
Rest(user, host) ==
    IF host = <<>> THEN <<>>
    ELSE (IF user # <<>> THEN <<"!">> \o user ELSE <<>>) \o <<"@">> \o host

\* The cases of what is behind the nick.
LEMMA RestIs ==
    ASSUME NEW u \in Seq(IDChars), NEW h \in Seq(IDChars)
    PROVE  /\ h = <<>> => Rest(u, h) = <<>>
           /\ h # <<>> /\ u = <<>> => Rest(u, h) = <<"@">> \o h
           /\ h # <<>> /\ u # <<>> => Rest(u, h) = (<<"!">> \o u) \o (<<"@">> \o h)
           /\ Rest(u, h) \in Seq(IDChars)
  <1> DEFINE a == <<"@">>
             e == <<"!">>
  <1>1. a \in Seq(IDChars) /\ e \in Seq(IDChars) /\ a \o h \in Seq(IDChars) /\ <<>> \in Seq(IDChars)
    <2>1. "@" \in IDChars /\ "!" \in IDChars /\ <<>> \in Seq(IDChars)
      BY IDCharsIn
    <2> QED BY <2>1, MarkedID
  <1>2. CASE h = <<>>
    BY <1>1, <1>2 DEF Rest
  <1>3. CASE h # <<>> /\ u = <<>>
    <2>1. Rest(u, h) = (<<>> \o a) \o h
      BY <1>3 DEF Rest
    <2> HIDE DEF a, e
    <2>2. <<>> \o a = a
      BY <1>1, ConcatID
    <2>3. Rest(u, h) = a \o h
      BY <2>1, <2>2
    <2> QED BY <1>1, <1>3, <2>3 DEF a
  <1>4. CASE h # <<>> /\ u # <<>>
    <2>1. Rest(u, h) = ((e \o u) \o a) \o h
      BY <1>4 DEF Rest
    <2> HIDE DEF a, e
    <2> DEFINE v == e \o u
    <2>2. v \in Seq(IDChars)
      BY <1>1, ConcatID
    <2> HIDE DEF v
    <2>3. v \o (a \o h) = (v \o a) \o h
      BY <1>1, <2>2, AssocID, SMTT(40)
    <2>4. v \o (a \o h) \in Seq(IDChars)
      BY <1>1, <2>2, ConcatID
    <2>5. Rest(u, h) = v \o (a \o h)
      BY <2>1, <2>3 DEF v
    <2> QED BY <1>4, <2>4, <2>5 DEF a, e, v
  <1> QED BY <1>2, <1>3, <1>4

\* The texts whose parts do not stand for them.
Marks(s, id) ==
    /\ Contains(s, "@")
    /\ id.host = <<>> \/ (id.user = <<>> /\ Contains(Before(s, "@"), "!"))

\* The parts id of s: a nick without host, and s again unless a marked part is empty.
Splits(s, id) ==
    /\ id.nick \in Seq(IDChars) /\ id.user \in Seq(IDChars) /\ id.host \in Seq(IDChars)
    /\ ~Contains(id.nick, "@")
    /\ id.nick \o Rest(id.user, id.host) = s <=> ~Marks(s, id)

\* SplitID splits, by the cases of its definition.
LEMMA SplitIs ==
    ASSUME NEW s \in Seq(IDChars), Once(s, "@"),
           Contains(s, "@") => Once(Before(s, "@"), "!")
    PROVE  Splits(s, SplitID(s))
  <1> DEFINE id == SplitID(s)
  <1> SUFFICES Splits(s, id)
    OBVIOUS
  <1>0. <<>> \in Seq(IDChars) /\ "@" \in IDChars /\ "!" \in IDChars
    BY IDCharsIn
  <1>a. <<>> \in Seq(IDChars)
    OBVIOUS
  <1>1. CASE ~Contains(s, "@")
    <2>1. id.nick = s /\ id.user = <<>> /\ id.host = <<>>
      BY <1>1 DEF SplitID, NoClientID
    <2> HIDE DEF id
    <2>2. Rest(id.user, id.host) = <<>>
      BY <1>0, <2>1, RestIs
    <2>3. s \o <<>> = s
      BY <1>a, ConcatID
    <2> QED BY <1>0, <1>1, <2>1, <2>2, <2>3 DEF Splits, Marks
  <1>2. CASE Contains(s, "@")
    <2> DEFINE x == Before(s, "@")
               h == Behind(s, "@")
               a == <<"@">>
               e == <<"!">>
               ah == a \o h
    <2>1. Split(s, x, "@", h)
      BY <1>0, <1>2, SplitOnce
    <2>2. x \in Seq(IDChars) /\ h \in Seq(IDChars)
      BY <2>1 DEF Split
    <2>3. s = x \o ah /\ ~Contains(x, "@")
      BY <2>1 DEF Split
    <2>4. Len(s) = Len(x) + 1 + Len(h) /\ Len(x) \in Nat /\ Len(h) \in Nat
      BY <2>1 DEF Split
    <2>5. a \in Seq(IDChars) /\ e \in Seq(IDChars) /\ ah \in Seq(IDChars)
      BY <1>0, <2>2, MarkedID
    <2>6. Len(ah) = Len(h) + 1
      BY <1>0, <2>2, MarkedID
    <2> HIDE DEF x, h
    <2>7. CASE ~Contains(x, "!")
      <3>1. id.nick = x /\ id.user = <<>> /\ id.host = h
        BY <1>2, <2>7 DEF SplitID, NoClientID, x, h
      <3> DEFINE r == Rest(<<>>, h)
      <3>2. Marks(s, id) <=> h = <<>>
        BY <1>2, <2>7, <3>1 DEF Marks, x
      <3>3. CASE h = <<>>
        <4>1. r = <<>>
          BY <1>a, <2>2, <3>3, RestIs
        <4>2. x \o <<>> = x
          BY <1>a, <2>2, ConcatID
        <4>3. x # s
          <5>1. Len(x) # Len(s)
            BY <2>4
          <5> QED BY <5>1
        <4>4. x \o r # s
          BY <4>1, <4>2, <4>3
        <4> HIDE DEF id
        <4> QED BY <1>a, <2>2, <2>3, <3>1, <3>2, <3>3, <4>4 DEF Splits
      <3>4. CASE h # <<>>
        <4>1. r = ah
          BY <1>a, <2>2, <3>4, RestIs
        <4>2. x \o r = s
          BY <2>3, <4>1
        <4> HIDE DEF id
        <4> QED BY <1>a, <2>2, <2>3, <3>1, <3>2, <3>4, <4>2 DEF Splits
      <3> QED BY <3>3, <3>4
    <2>8. CASE Contains(x, "!")
      <3> DEFINE n == Before(x, "!")
                 u == Behind(x, "!")
                 eu == e \o u
                 r == Rest(u, h)
      <3>0. id.nick = n /\ id.user = u /\ id.host = h
        BY <1>2, <2>8 DEF SplitID, NoClientID, x, h
      <3>1. Split(x, n, "!", u)
        BY <1>0, <1>2, <2>2, <2>8, SplitOnce DEF x
      <3>2. n \in Seq(IDChars) /\ u \in Seq(IDChars)
        BY <3>1 DEF Split
      <3>3. x = n \o eu /\ ~Contains(n, "@")
        BY <2>3, <3>1 DEF Split
      <3>4. Len(x) = Len(n) + 1 + Len(u) /\ Len(n) \in Nat /\ Len(u) \in Nat
        BY <3>1 DEF Split
      <3>5. eu \in Seq(IDChars)
        BY <1>0, <3>2, MarkedID
      <3>6. Marks(s, id) <=> h = <<>> \/ u = <<>>
        BY <1>2, <2>8, <3>0 DEF Marks, x
      <3> HIDE DEF n, u, id
      <3>7. CASE h = <<>>
        <4>1. r = <<>>
          BY <2>2, <3>2, <3>7, RestIs
        <4>2. n \o <<>> = n
          BY <1>a, <3>2, ConcatID
        <4>3. n # s
          <5>1. Len(n) # Len(s)
            BY <2>4, <3>4
          <5> QED BY <5>1
        <4>4. n \o r # s
          BY <4>1, <4>2, <4>3
        <4> QED BY <2>2, <3>0, <3>2, <3>3, <3>6, <3>7, <4>4 DEF Splits
      <3>8. CASE h # <<>> /\ u = <<>>
        <4>1. r = ah
          BY <2>2, <3>2, <3>8, RestIs
        <4> HIDE DEF ah
        <4>2. Len(n \o ah) = Len(n) + Len(ah)
          BY <2>5, <3>2, ConcatID
        <4>3. Len(u) = 0
          BY <3>8
        <4>4. Len(n \o ah) # Len(s)
          BY <2>4, <2>6, <3>4, <4>2, <4>3
        <4>5. n \o r # s
          BY <4>1, <4>4
        <4> QED BY <2>2, <3>0, <3>2, <3>3, <3>6, <3>8, <4>5 DEF Splits
      <3>9. CASE h # <<>> /\ u # <<>>
        <4>1. r = eu \o ah
          BY <2>2, <3>2, <3>9, RestIs
        <4> HIDE DEF eu, ah
        <4>2. n \o (eu \o ah) = (n \o eu) \o ah
          BY <2>5, <3>2, <3>5, AssocID, SMTT(40)
        <4>3. n \o r = s
          BY <2>3, <3>3, <4>1, <4>2
        <4> QED BY <2>2, <3>0, <3>2, <3>3, <3>6, <3>9, <4>3 DEF Splits
      <3> QED BY <3>7, <3>8, <3>9
    <2> QED BY <2>7, <2>8
  <1> QED BY <1>1, <1>2

\* What the texts of a run are made of.
NamesInv == idText \in Seq(IDChars) /\ mask \in Texts

\* The texts that a run starts with are sequences.
LEMMA UptoIs ==
    ASSUME NEW n, NEW chars, NEW s \in Upto(n, chars)
    PROVE  n \in Nat => s \in Seq(chars)
  <1> SUFFICES ASSUME n \in Nat PROVE s \in Seq(chars)
    OBVIOUS
  <1>1. PICK k \in 0..n : s \in [1..k -> chars]
    BY DEF Upto
  <1>2. k \in Nat
    OBVIOUS
  <1> QED BY <1>1, <1>2

\* The texts stay what they are.
LEMMA NamesAlways == NamesSpec => []NamesInv
  <1>1. NamesInit => NamesInv
    <2> SUFFICES ASSUME NamesInit PROVE NamesInv
      OBVIOUS
    <2>1. MaxText \in Nat /\ MaxMask \in Nat
      BY NamesAssumption DEF NamesAssumption
    <2>2. <<>> \in Seq(IDChars) /\ <<>> \in Seq(MaskChars)
      OBVIOUS
    <2>3. idText = <<>> \/ idText \in Upto(MaxText, IDChars)
      BY DEF NamesInit
    <2>4. mask = <<>> \/ mask \in Upto(MaxMask, MaskChars)
      BY DEF NamesInit
    <2>6. idText \in Seq(IDChars)
      BY <2>1, <2>2, <2>3, UptoIs
    <2>7. mask \in Seq(MaskChars)
      BY <2>1, <2>2, <2>4, UptoIs
    <2> QED BY <2>6, <2>7 DEF NamesInv, Texts
  <1>2. NamesInv /\ [Apply]_namesVars => NamesInv'
    BY DEF NamesInv, Apply, namesVars
  <1> QED BY <1>1, <1>2, PTL DEF NamesSpec

\* The first character of a text, and the others.
LEMMA FirstID ==
    ASSUME NEW t \in Seq(IDChars), t # <<>>
    PROVE  t[1] \in IDChars /\ Tail(t) \in Seq(IDChars) /\ t = <<t[1]>> \o Tail(t)
  BY Headed

\* A text is its flag and what is behind it.
LEMMA FlagIs ==
    ASSUME NEW t \in Seq(IDChars), NEW f, f = IF Flagged(t) THEN <<t[1]>> ELSE <<>>
    PROVE  /\ Unflagged(t) \in Seq(IDChars) /\ f \in Seq(IDChars)
           /\ \A x \in Seq(IDChars) : f \o x = t <=> x = Unflagged(t)
  <1>0. <<>> \in Seq(IDChars)
    OBVIOUS
  <1>1. CASE Flagged(t)
    <2>1. t # <<>>
      BY <1>1 DEF Flagged
    <2> DEFINE c == t[1]
               u == Tail(t)
    <2>2. c \in IDChars /\ u \in Seq(IDChars) /\ t = <<c>> \o u
      BY <2>1, FirstID
    <2>3. f = <<c>> /\ Unflagged(t) = u
      BY <1>1 DEF Unflagged
    <2> HIDE DEF c, u
    <2>4. ASSUME NEW x \in Seq(IDChars) PROVE <<c>> \o x = t <=> x = u
      <3>1. Tail(<<c>> \o x) = x /\ Tail(<<c>> \o u) = u
        BY <2>2, MarkedID
      <3> QED BY <2>2, <3>1
    <2>5. <<c>> \in Seq(IDChars)
      BY <2>2
    <2> QED BY <2>2, <2>3, <2>4, <2>5
  <1>2. CASE ~Flagged(t)
    <2>1. f = <<>> /\ Unflagged(t) = t
      BY <1>2 DEF Unflagged
    <2>2. \A x \in Seq(IDChars) : <<>> \o x = x
      BY ConcatID
    <2> QED BY <1>0, <2>1, <2>2
  <1> QED BY <1>1, <1>2

\* A parsed id has a nick without a host in it, and stands for its text again,
\* unless a part that is marked is empty.
THEOREM ParsedIDTheorem == NamesSpec => []ParsedIDFaithful
  <1>1. NamesInv => ParsedIDFaithful
    <2> DEFINE t == idText
               s == Unflagged(t)
               id == ParseClientID(t)
               part == SplitID(s)
               f == IF Flagged(t) THEN <<t[1]>> ELSE <<>>
    <2> SUFFICES ASSUME t \in Seq(IDChars), IsClientID(t)
                 PROVE  /\ ~Contains(id.nick, "@")
                        /\ IDString(id) = t <=> ~Marks(s, id)
      BY DEF NamesInv, ParsedIDFaithful, Marks
    <2>1. s \in Seq(IDChars) /\ f \in Seq(IDChars) /\ \A x \in Seq(IDChars) : f \o x = t <=> x = s
      BY FlagIs
    <2>2. Once(s, "@") /\ (Contains(s, "@") => Once(Before(s, "@"), "!"))
      BY DEF IsClientID
    <2>3. Splits(s, part)
      <3> HIDE DEF s
      <3> QED BY <2>1, <2>2, SplitIs
    <2>4. id.flag = f /\ id.nick = part.nick /\ id.user = part.user /\ id.host = part.host
      BY DEF ParseClientID, SplitID, NoClientID
    <2>5. /\ id.nick \in Seq(IDChars) /\ id.user \in Seq(IDChars) /\ id.host \in Seq(IDChars)
          /\ ~Contains(id.nick, "@")
          /\ id.nick \o Rest(id.user, id.host) = s <=> ~Marks(s, part)
      BY <2>3, <2>4 DEF Splits
    <2>6. Marks(s, part) <=> Marks(s, id)
      BY <2>4 DEF Marks
    <2> DEFINE n == id.nick
               r == Rest(id.user, id.host)
    <2>7. IDString(id) = (f \o n) \o r
      BY <2>4 DEF IDString, Rest
    <2>8. r \in Seq(IDChars) /\ n \in Seq(IDChars)
      BY <2>5, RestIs
    <2> HIDE DEF f, r, n, id, s
    <2>9. IDString(id) = f \o (n \o r)
      <3>1. f \o (n \o r) = (f \o n) \o r
        BY <2>1, <2>8, AssocID, SMTT(40)
      <3> QED BY <2>7, <3>1
    <2>10. n \o r \in Seq(IDChars)
      BY <2>8, ConcatID
    <2> QED BY <2>1, <2>5, <2>6, <2>9, <2>10 DEF n, r
  <1> QED BY <1>1, NamesAlways, PTL

-----------------------------------------------------------------------------
(* Masks.                                                                  *)

\* The tail of a sequence is one shorter.
LEMMA TailIs ==
    ASSUME NEW S, NEW s \in Seq(S), s # <<>>
    PROVE  Tail(s) \in Seq(S) /\ Len(Tail(s)) \in Nat /\ Len(s) = Len(Tail(s)) + 1
  BY Headed

\* What a regexp consists of.
Pieces == [kind : {"literal", "any", "some"}, char : MaskChars \cup {""}]

\* A regexp is a sequence of them.
LEMMA RegexpsAre == Regexps = Seq(Pieces)
  BY DEF Regexps, Pieces

\* The texts that a regexp matches whose tail matches those of tails.
MatchOne(re, tails) ==
    {s \in Texts :
       \/ /\ Head(re).kind = "some"
          /\ \E k \in 0..Len(s) : SubSeq(s, k + 1, Len(s)) \in tails
       \/ /\ Head(re).kind # "some" /\ s # <<>>
          /\ Head(re).kind = "any" \/ Head(re).char = Head(s)
          /\ Tail(s) \in tails}

\* The recursive function Matches exists, so it does what its definition says.
LEMMA MatchesIs ==
    \A re \in Regexps :
       Matches[re] = IF re = <<>> THEN {<<>>} ELSE MatchOne(re, Matches[Tail(re)])
  <1> DEFINE D == Regexps
             E == SUBSET Texts
             size == [t \in D |-> Len(t)]
             Step(t, f) == IF t = <<>> THEN {<<>>} ELSE MatchOne(t, f[Tail(t)])
             F == [t \in D |-> [f \in [D -> E] |-> Step(t, f)]]
  <1>1. size \in [D -> Nat] /\ \A t \in D : size[t] = Len(t)
    BY RegexpsAre
  <1>2. {<<>>} \in E
    BY DEF Texts
  <1>3. ASSUME NEW t \in D, t # <<>> PROVE Tail(t) \in D /\ Len(Tail(t)) < Len(t)
    BY <1>3, TailIs, RegexpsAre
  <1>4. ASSUME NEW t \in D, NEW f \in [D -> E] PROVE Step(t, f) \in E
    <2>1. \A tails : MatchOne(t, tails) \in E
      BY DEF MatchOne
    <2> QED BY <1>2, <2>1
  <1>5. F \in [D -> [[D -> E] -> E]]
    BY <1>4
  <1>6. \A t \in D : \A f \in [D -> E] : F[t][f] = Step(t, f)
    OBVIOUS
  <1> HIDE DEF F, size
  <1>7. Rules(D, E, size, F)
    <2>1. ASSUME NEW t \in D, NEW f \in [D -> E], NEW g \in [D -> E],
                 \A u \in D : size[u] < size[t] => f[u] = g[u]
          PROVE  F[t][f] = F[t][g]
      <3>1. t # <<>> => f[Tail(t)] = g[Tail(t)]
        BY <1>1, <1>3, <2>1
      <3>2. Step(t, f) = Step(t, g)
        BY <3>1
      <3> QED BY <1>6, <3>2
    <2> QED BY <1>1, <1>5, <2>1 DEF Rules
  <1>8. PICK f \in [D -> E] : f = [t \in D |-> F[t][f]]
    <2> HIDE DEF D, E
    <2> QED BY <1>2, <1>7, Recursion
  <1> DEFINE Is(g) == g = [t \in D |-> Step(t, g)]
  <1>9. Is(f)
    <2>1. \A t \in D : f[t] = Step(t, f)
      BY <1>6, <1>8
    <2> QED BY <1>8, <2>1
  <1>10. Matches = CHOOSE g : Is(g)
    BY DEF Matches, MatchOne
  <1>11. Is(Matches)
    BY <1>9, <1>10
  <1> QED BY <1>11

\* What a mask means whose tail means the texts of one, and whose tail's tail those
\* of two.
MeantOne(m, one, two) ==
    {s \in Texts :
       \/ /\ Head(m) = "*"
          /\ \E k \in 0..Len(s) : SubSeq(s, k + 1, Len(s)) \in one
       \/ Head(m) = "?" /\ s # <<>> /\ Tail(s) \in one
       \/ /\ Escapes(m)
          /\ s # <<>> /\ Head(s) = m[2] /\ Tail(s) \in two
       \/ /\ Head(m) \notin {"*", "?"} /\ ~Escapes(m)
          /\ s # <<>> /\ Head(s) = Head(m) /\ Tail(s) \in one}

\* So does Meant.
LEMMA MeantIs ==
    \A m \in Texts :
       Meant[m] = IF m = <<>> THEN {<<>>}
                  ELSE MeantOne(m, Meant[Tail(m)], Meant[Tail(Tail(m))])
  <1> DEFINE D == Texts
             E == SUBSET Texts
             size == [t \in D |-> Len(t)]
             Step(t, f) == IF t = <<>> THEN {<<>>}
                           ELSE MeantOne(t, f[Tail(t)], f[Tail(Tail(t))])
             F == [t \in D |-> [f \in [D -> E] |-> Step(t, f)]]
  <1>1. size \in [D -> Nat] /\ \A t \in D : size[t] = Len(t)
    BY DEF Texts
  <1>2. {<<>>} \in E
    BY DEF Texts
  <1>3. ASSUME NEW t \in D, t # <<>> PROVE Tail(t) \in D /\ Len(Tail(t)) < Len(t)
    BY <1>3, TailIs DEF Texts
  <1>4. ASSUME NEW t \in D, NEW f \in [D -> E] PROVE Step(t, f) \in E
    <2>1. \A one, two : MeantOne(t, one, two) \in E
      BY DEF MeantOne
    <2> QED BY <1>2, <2>1
  <1>5. F \in [D -> [[D -> E] -> E]]
    BY <1>4
  <1>6. \A t \in D : \A f \in [D -> E] : F[t][f] = Step(t, f)
    OBVIOUS
  <1> HIDE DEF F, size
  <1>7. Rules(D, E, size, F)
    <2>1. ASSUME NEW t \in D, NEW f \in [D -> E], NEW g \in [D -> E],
                 \A u \in D : size[u] < size[t] => f[u] = g[u]
          PROVE  F[t][f] = F[t][g]
      <3>1. t # <<>> => f[Tail(t)] = g[Tail(t)]
        BY <1>1, <1>3, <2>1
      <3>2. ASSUME t # <<>>, Tail(t) # <<>> PROVE f[Tail(Tail(t))] = g[Tail(Tail(t))]
        <4>1. Tail(t) \in D /\ Len(Tail(t)) < Len(t)
          BY <1>3, <3>2
        <4>2. Tail(Tail(t)) \in D /\ Len(Tail(Tail(t))) < Len(Tail(t))
          BY <1>3, <3>2, <4>1
        <4>3. size[Tail(Tail(t))] < size[t]
          <5>1. Len(t) \in Nat /\ Len(Tail(t)) \in Nat /\ Len(Tail(Tail(t))) \in Nat
            BY <4>1, <4>2 DEF Texts
          <5>2. Len(Tail(Tail(t))) < Len(t)
            BY <4>1, <4>2, <5>1
          <5> QED BY <1>1, <4>2, <5>2
        <4> QED BY <2>1, <4>2, <4>3
      <3>3. Step(t, f) = Step(t, g)
        <4>1. CASE t = <<>>
          BY <4>1
        <4>2. CASE t # <<>> /\ Tail(t) # <<>>
          BY <3>1, <3>2, <4>2
        <4>3. CASE t # <<>> /\ Tail(t) = <<>>
          <5>1. \A one, x, y : MeantOne(t, one, x) = MeantOne(t, one, y)
            BY <4>3 DEF MeantOne, Escapes
          <5> QED BY <3>1, <4>3, <5>1
        <4> QED BY <4>1, <4>2, <4>3
      <3> QED BY <1>6, <3>3
    <2> QED BY <1>1, <1>5, <2>1 DEF Rules
  <1>8. PICK f \in [D -> E] : f = [t \in D |-> F[t][f]]
    <2> HIDE DEF D, E
    <2> QED BY <1>2, <1>7, Recursion
  <1> DEFINE Is(g) == g = [t \in D |-> Step(t, g)]
  <1>9. Is(f)
    <2>1. \A t \in D : f[t] = Step(t, f)
      BY <1>6, <1>8
    <2> QED BY <1>8, <2>1
  <1>10. Meant = CHOOSE g : Is(g)
    BY DEF Meant, MeantOne
  <1>11. Is(Meant)
    BY <1>9, <1>10
  <1> QED BY <1>11

\* What of OnlyEscapes is asked of a mask, given what it says of the tails.
EscapesOne(m, one, two) == m # <<>> => IF Head(m) = "\\" THEN Escapes(m) /\ two ELSE one

\* And OnlyEscapes.
LEMMA OnlyEscapesIs ==
    \A m \in Texts :
       OnlyEscapes[m] = EscapesOne(m, OnlyEscapes[Tail(m)], OnlyEscapes[Tail(Tail(m))])
  <1> DEFINE D == Texts
             E == BOOLEAN
             size == [t \in D |-> Len(t)]
             Step(t, f) == EscapesOne(t, f[Tail(t)], f[Tail(Tail(t))])
             F == [t \in D |-> [f \in [D -> E] |-> Step(t, f)]]
  <1>1. size \in [D -> Nat] /\ \A t \in D : size[t] = Len(t)
    BY DEF Texts
  <1>2. PICK e \in E : TRUE
    OBVIOUS
  <1>3. ASSUME NEW t \in D, t # <<>> PROVE Tail(t) \in D /\ Len(Tail(t)) < Len(t)
    BY <1>3, TailIs DEF Texts
  <1>4. ASSUME NEW t \in D, NEW f \in [D -> E] PROVE Step(t, f) \in E
    BY DEF EscapesOne
  <1>5. F \in [D -> [[D -> E] -> E]]
    BY <1>4
  <1>6. \A t \in D : \A f \in [D -> E] : F[t][f] = Step(t, f)
    OBVIOUS
  <1> HIDE DEF F, size
  <1>7. Rules(D, E, size, F)
    <2>1. ASSUME NEW t \in D, NEW f \in [D -> E], NEW g \in [D -> E],
                 \A u \in D : size[u] < size[t] => f[u] = g[u]
          PROVE  F[t][f] = F[t][g]
      <3>1. t # <<>> => f[Tail(t)] = g[Tail(t)]
        BY <1>1, <1>3, <2>1
      <3>2. ASSUME t # <<>>, Tail(t) # <<>> PROVE f[Tail(Tail(t))] = g[Tail(Tail(t))]
        <4>1. Tail(t) \in D /\ Len(Tail(t)) < Len(t)
          BY <1>3, <3>2
        <4>2. Tail(Tail(t)) \in D /\ Len(Tail(Tail(t))) < Len(Tail(t))
          BY <1>3, <3>2, <4>1
        <4>3. size[Tail(Tail(t))] < size[t]
          <5>1. Len(t) \in Nat /\ Len(Tail(t)) \in Nat /\ Len(Tail(Tail(t))) \in Nat
            BY <4>1, <4>2 DEF Texts
          <5>2. Len(Tail(Tail(t))) < Len(t)
            BY <4>1, <4>2, <5>1
          <5> QED BY <1>1, <4>2, <5>2
        <4> QED BY <2>1, <4>2, <4>3
      <3>3. Step(t, f) = Step(t, g)
        <4>1. CASE t = <<>>
          BY <4>1 DEF EscapesOne
        <4>2. CASE t # <<>> /\ Tail(t) # <<>>
          BY <3>1, <3>2, <4>2
        <4>3. CASE t # <<>> /\ Tail(t) = <<>>
          <5>1. \A one, x, y : EscapesOne(t, one, x) = EscapesOne(t, one, y)
            BY <4>3 DEF EscapesOne, Escapes
          <5> QED BY <3>1, <4>3, <5>1
        <4> QED BY <4>1, <4>2, <4>3
      <3> QED BY <1>6, <3>3
    <2> QED BY <1>1, <1>5, <2>1 DEF Rules
  <1>8. PICK f \in [D -> E] : f = [t \in D |-> F[t][f]]
    <2> HIDE DEF D, E
    <2> QED BY <1>7, Recursion
  <1> DEFINE Is(g) == g = [t \in D |-> Step(t, g)]
  <1>9. Is(f)
    <2>1. \A t \in D : f[t] = Step(t, f)
      BY <1>6, <1>8
    <2> QED BY <1>8, <2>1
  <1>10. OnlyEscapes = CHOOSE g : Is(g)
    BY DEF OnlyEscapes, EscapesOne
  <1>11. Is(OnlyEscapes)
    BY <1>9, <1>10
  <1> QED BY <1>11

\* Where ToRegexp's loop is after each character of m.
Loops(acc, m) ==
    /\ acc[0] = [re |-> <<>>, inEscape |-> FALSE]
    /\ \A k \in 1..Len(m) : acc[k] = Translate(acc[k - 1], m[k])

\* What the loop holds: the regexp so far, and whether an escape is open.
Turns == [re : Regexps, inEscape : BOOLEAN]

\* The same, put together.
Begun(r, e) == [re |-> r, inEscape |-> e]

\* Pieces, and how they are appended.
LEMMA PieceIs ==
    /\ AnyChar \in Pieces /\ AnyText \in Pieces /\ \A c \in MaskChars : Literal(c) \in Pieces
    /\ \A r \in Regexps : \A x \in Pieces :
          Append(r, x) \in Regexps /\ Append(r, x) = r \o <<x>>
    /\ <<>> \in Regexps
    /\ Regexps = Seq(Pieces)
  <1>1. Regexps = Seq(Pieces)
    BY RegexpsAre
  <1>2. AnyChar \in Pieces /\ AnyText \in Pieces /\ \A c \in MaskChars : Literal(c) \in Pieces
    <2>2. AnyChar \in Pieces
      BY DEF AnyChar, Pieces
    <2>3. AnyText \in Pieces
      BY DEF AnyText, Pieces
    <2>4. \A c \in MaskChars : Literal(c) \in Pieces
      BY DEF Literal, Pieces
    <2> QED BY <2>2, <2>3, <2>4
  <1>3. ASSUME NEW S, NEW r \in Seq(S), NEW x \in S
        PROVE  Append(r, x) \in Seq(S) /\ Append(r, x) = r \o <<x>>
    BY AppendIsConcat
  <1>4. \A r \in Regexps : \A x \in Pieces :
          Append(r, x) \in Regexps /\ Append(r, x) = r \o <<x>>
    BY <1>1, <1>3
  <1>5. <<>> \in Regexps
    BY <1>1
  <1> QED BY <1>1, <1>2, <1>4, <1>5

\* What a character is translated to.
Piece(c) == IF c = "?" THEN AnyChar ELSE IF c = "*" THEN AnyText ELSE Literal(c)

\* The cases of a turn.
LEMMA TranslateIs ==
    ASSUME NEW r \in Regexps, NEW c \in MaskChars
    PROVE  /\ Translate(Begun(r, TRUE), c) = Begun(r \o <<Literal(c)>>, FALSE)
           /\ c = "\\" => Translate(Begun(r, FALSE), c) = Begun(r, TRUE)
           /\ c # "\\" => Translate(Begun(r, FALSE), c) = Begun(r \o <<Piece(c)>>, FALSE)
           /\ \A e \in BOOLEAN : Translate(Begun(r, e), c) \in Turns
           /\ Literal(c) \in Pieces /\ Piece(c) \in Pieces
  <1>1. Literal(c) \in Pieces /\ Piece(c) \in Pieces
    BY PieceIs DEF Piece
  <1>2. \A x \in Pieces : Append(r, x) = r \o <<x>> /\ Append(r, x) \in Regexps
    BY PieceIs
  <1>3. Translate(Begun(r, TRUE), c) = Begun(r \o <<Literal(c)>>, FALSE)
    BY <1>1, <1>2 DEF Translate, Begun
  <1>4. c = "\\" => Translate(Begun(r, FALSE), c) = Begun(r, TRUE)
    BY DEF Translate, Begun
  <1>5. ASSUME c # "\\" PROVE Translate(Begun(r, FALSE), c) = Begun(r \o <<Piece(c)>>, FALSE)
    <2>1. Translate(Begun(r, FALSE), c) = Begun(Append(r, Piece(c)), FALSE)
      BY <1>5 DEF Translate, Begun, Piece
    <2> QED BY <1>1, <1>2, <2>1
  <1>6. \A q \in Regexps : \A e \in BOOLEAN : Begun(q, e) \in Turns
    BY DEF Begun, Turns
  <1>7. ASSUME NEW e \in BOOLEAN PROVE Translate(Begun(r, e), c) \in Turns
    <2>1. r \o <<Literal(c)>> \in Regexps /\ r \o <<Piece(c)>> \in Regexps
      BY <1>1, <1>2
    <2> QED BY <1>3, <1>4, <1>5, <1>6, <2>1
  <1> QED BY <1>1, <1>3, <1>4, <1>5, <1>7

\* What the loop holds has two parts.
LEMMA TurnIs ==
    \A t \in Turns : /\ t.re \in Regexps /\ t.inEscape \in BOOLEAN
                     /\ t = Begun(t.re, t.inEscape)
  BY DEF Turns, Begun

\* The function in ToRegexp exists.
LEMMA LoopsSome ==
    ASSUME NEW m \in Texts
    PROVE  \E acc : Loops(acc, m) /\ ToRegexp(m) = acc[Len(m)].re
  <1> DEFINE D == 0..Len(m)
             E == Turns
             size == [k \in D |-> k]
             start == [re |-> <<>>, inEscape |-> FALSE]
             Step(k, f) == IF k = 0 THEN start ELSE Translate(f[k - 1], m[k])
             F == [k \in D |-> [f \in [D -> E] |-> Step(k, f)]]
  <1>1. Len(m) \in Nat /\ \A k \in 1..Len(m) : m[k] \in MaskChars
    BY DEF Texts
  <1>2. ASSUME NEW k \in D
        PROVE  k \in Nat /\ (k # 0 => k - 1 \in D /\ k - 1 < k /\ m[k] \in MaskChars)
    BY <1>1
  <1>3. size \in [D -> Nat] /\ \A k \in D : size[k] = k
    BY <1>2
  <1>4. start \in E
    BY PieceIs DEF Turns
  <1>5. ASSUME NEW k \in D, NEW f \in [D -> E] PROVE Step(k, f) \in E
    <2>1. CASE k = 0
      BY <1>4, <2>1
    <2>2. CASE k # 0
      <3> DEFINE t == f[k - 1]
                 c == m[k]
      <3>1. t \in Turns /\ c \in MaskChars
        BY <1>2, <2>2
      <3> HIDE DEF t, c
      <3>2. Translate(t, c) \in Turns
        BY <3>1, TranslateIs, TurnIs
      <3> QED BY <2>2, <3>2 DEF t, c
    <2> QED BY <2>1, <2>2
  <1>6. F \in [D -> [[D -> E] -> E]]
    BY <1>5
  <1>7. \A k \in D : \A f \in [D -> E] : F[k][f] = Step(k, f)
    OBVIOUS
  <1> HIDE DEF F, size, start
  <1>8. Rules(D, E, size, F)
    <2>1. ASSUME NEW k \in D, NEW f \in [D -> E], NEW g \in [D -> E],
                 \A u \in D : size[u] < size[k] => f[u] = g[u]
          PROVE  F[k][f] = F[k][g]
      <3>1. k # 0 => f[k - 1] = g[k - 1]
        BY <1>2, <1>3, <2>1
      <3>2. Step(k, f) = Step(k, g)
        BY <3>1
      <3> QED BY <1>7, <3>2
    <2> QED BY <1>3, <1>6, <2>1 DEF Rules
  <1>9. PICK f \in [D -> E] : f = [k \in D |-> F[k][f]]
    <2> HIDE DEF D, E
    <2> QED BY <1>4, <1>8, Recursion
  <1> DEFINE Is(g) == g = [k \in D |-> Step(k, g)]
  <1>10. Is(f)
    <2>1. \A k \in D : f[k] = Step(k, f)
      BY <1>7, <1>9
    <2> QED BY <1>9, <2>1
  <1>11. ToRegexp(m) = (CHOOSE g : Is(g))[Len(m)].re
    BY DEF ToRegexp, start
  <1>12. PICK g : Is(g) /\ ToRegexp(m) = g[Len(m)].re
    BY <1>10, <1>11
  <1>13. Loops(g, m)
    <2>1. \A k \in D : g[k] = Step(k, g)
      BY <1>12
    <2>2. 0 \in D /\ \A k \in 1..Len(m) : k \in D /\ k # 0
      BY <1>1
    <2> QED BY <2>1, <2>2 DEF Loops, start
  <1> QED BY <1>12, <1>13

\* The loop holds a regexp.
LEMMA LoopsIn ==
    ASSUME NEW m \in Texts, NEW acc, Loops(acc, m)
    PROVE  \A k \in 0..Len(m) : acc[k] \in Turns
  <1>1. Len(m) \in Nat /\ \A k \in 1..Len(m) : m[k] \in MaskChars
    BY DEF Texts
  <1> DEFINE T == {n \in Nat : n <= Len(m) => acc[n] \in Turns}
  <1>2. 0 \in T
    <2>1. <<>> \in Regexps
      BY PieceIs
    <2>2. [re |-> <<>>, inEscape |-> FALSE] \in Turns
      BY <2>1 DEF Turns
    <2> QED BY <2>2 DEF Loops
  <1>3. ASSUME NEW n \in Nat, n \in T PROVE n + 1 \in T
    <2> SUFFICES ASSUME n + 1 <= Len(m) PROVE acc[n + 1] \in Turns
      OBVIOUS
    <2>1. n + 1 \in 1..Len(m) /\ (n + 1) - 1 = n /\ n <= Len(m)
      BY <1>1
    <2>2. acc[n] \in Turns /\ m[n + 1] \in MaskChars
      BY <1>1, <1>3, <2>1
    <2>3. acc[n + 1] = Translate(acc[n], m[n + 1])
      BY <2>1 DEF Loops
    <2> DEFINE t == acc[n]
               c == m[n + 1]
    <2>4. t \in Turns /\ c \in MaskChars
      BY <2>2
    <2> HIDE DEF t, c
    <2>5. Translate(t, c) \in Turns
      BY <2>4, TranslateIs, TurnIs
    <2> QED BY <2>3, <2>5 DEF t, c
  <1> HIDE DEF T
  <1>4. Nat \subseteq T
    BY <1>2, <1>3, Induction
  <1> QED BY <1>1, <1>4 DEF T

\* Regexps behind each other are regexps,
LEMMA ConcatRe ==
    \A a, b \in Regexps : a \o b \in Regexps /\ a \o <<>> = a /\ <<>> \o a = a
  <1>1. ASSUME NEW S, NEW a \in Seq(S), NEW b \in Seq(S)
        PROVE  a \o b \in Seq(S) /\ a \o <<>> = a /\ <<>> \o a = a
    BY ConcatProperties, ConcatEmptySeq
  <1> QED BY <1>1, RegexpsAre

\* and concatenation is associative.
LEMMA AssocRe == \A a, b, c \in Regexps : a \o (b \o c) = (a \o b) \o c
  <1>1. ASSUME NEW S, NEW a \in Seq(S), NEW b \in Seq(S), NEW c \in Seq(S)
        PROVE  a \o (b \o c) = (a \o b) \o c
    BY ConcatAssociative, SMTT(40)
  <1> QED BY <1>1, RegexpsAre, SMTT(40)

\* A piece is a regexp.
LEMMA OnePiece == \A x \in Pieces : <<x>> \in Regexps
  BY RegexpsAre

\* What the loop holds in front of its turns stays there.
LEMMA TranslateBehind ==
    ASSUME NEW p \in Regexps, NEW t \in Turns, NEW c \in MaskChars
    PROVE  Translate(Begun(p \o t.re, t.inEscape), c)
             = Begun(p \o Translate(t, c).re, Translate(t, c).inEscape)
  <1> DEFINE r == t.re
             e == t.inEscape
             q == p \o r
  <1>1. r \in Regexps /\ e \in BOOLEAN /\ t = Begun(r, e)
    BY TurnIs
  <1> HIDE DEF r, e
  <1>2. q \in Regexps
    BY <1>1, ConcatRe
  <1>3. Literal(c) \in Pieces /\ Piece(c) \in Pieces
    BY <1>1, TranslateIs
  <1>4. \A x \in Pieces : <<x>> \in Regexps /\ q \o <<x>> = p \o (r \o <<x>>)
    <2>1. ASSUME NEW x \in Pieces PROVE <<x>> \in Regexps /\ q \o <<x>> = p \o (r \o <<x>>)
      <3> DEFINE y == <<x>>
      <3>1. y \in Regexps
        BY OnePiece
      <3> HIDE DEF y
      <3>2. p \o (r \o y) = (p \o r) \o y
        <4>1. p \in Regexps /\ r \in Regexps /\ y \in Regexps
          BY <1>1, <3>1
        <4> QED BY <4>1, AssocRe, SMTT(40)
      <3> QED BY <3>1, <3>2 DEF q, y
    <2> QED BY <2>1
  <1>5. \A u, v : Begun(u, v).re = u /\ Begun(u, v).inEscape = v
    BY DEF Begun
  <1> HIDE DEF q
  <1>6. CASE e = TRUE
    <2> DEFINE y == <<Literal(c)>>
    <2>1. /\ Translate(t, c) = Begun(r \o y, FALSE)
          /\ Translate(Begun(q, e), c) = Begun(q \o y, FALSE)
      BY <1>1, <1>2, <1>6, TranslateIs
    <2>2. Translate(Begun(q, e), c) = Begun(p \o Translate(t, c).re, Translate(t, c).inEscape)
      <3>1. Translate(t, c).re = r \o y /\ Translate(t, c).inEscape = FALSE
        BY <2>1 DEF Begun
      <3>2. q \o y = p \o (r \o y)
        BY <1>3, <1>4
      <3> HIDE DEF y
      <3> QED BY <2>1, <3>1, <3>2
    <2> QED BY <2>2 DEF q, r, e
  <1>7. CASE e = FALSE /\ c = "\\"
    <2>1. /\ Translate(t, c) = Begun(r, TRUE)
          /\ Translate(Begun(q, e), c) = Begun(q, TRUE)
      BY <1>1, <1>2, <1>7, TranslateIs
    <2>2. Translate(Begun(q, e), c) = Begun(p \o Translate(t, c).re, Translate(t, c).inEscape)
      BY <1>5, <2>1 DEF q
    <2> QED BY <2>2 DEF q, r, e
  <1>8. CASE e = FALSE /\ c # "\\"
    <2> DEFINE y == <<Piece(c)>>
    <2>1. /\ Translate(t, c) = Begun(r \o y, FALSE)
          /\ Translate(Begun(q, e), c) = Begun(q \o y, FALSE)
      BY <1>1, <1>2, <1>8, TranslateIs
    <2>2. Translate(Begun(q, e), c) = Begun(p \o Translate(t, c).re, Translate(t, c).inEscape)
      <3>1. Translate(t, c).re = r \o y /\ Translate(t, c).inEscape = FALSE
        BY <2>1 DEF Begun
      <3>2. q \o y = p \o (r \o y)
        BY <1>3, <1>4
      <3> HIDE DEF y
      <3> QED BY <2>1, <3>1, <3>2
    <2> QED BY <2>2 DEF q, r, e
  <1> QED BY <1>1, <1>6, <1>7, <1>8

\* t is what is behind the first d characters of m.
Continues(m, t, d) == Len(m) = Len(t) + d /\ \A k \in 1..Len(t) : m[k + d] = t[k]

\* The loop has come to r, and is not in an escape.
Ready(r) == Begun(r, FALSE)

\* Behind p, the loop does on the rest t of m what it does on t alone.
LEMMA LoopsBehind ==
    ASSUME NEW m \in Texts, NEW t \in Texts, NEW d \in Nat, Continues(m, t, d),
           NEW a, Loops(a, m), NEW b, Loops(b, t),
           NEW p \in Regexps, a[d] = Ready(p)
    PROVE  a[Len(m)].re = p \o b[Len(t)].re
  <1>0. /\ Len(m) = Len(t) + d /\ \A k \in 1..Len(t) : m[k + d] = t[k]
        /\ a[d] = Begun(p, FALSE)
    BY DEF Continues, Ready
  <1> USE <1>0
  <1>1. Len(t) \in Nat /\ \A k \in 1..Len(t) : t[k] \in MaskChars
    BY DEF Texts
  <1>2. \A k \in 0..Len(t) : b[k] \in Turns
    BY LoopsIn
  <1>3. \A u, v : Begun(u, v).re = u /\ Begun(u, v).inEscape = v
    BY DEF Begun
  <1> DEFINE T == {n \in Nat : n <= Len(t) => a[n + d] = Begun(p \o b[n].re, b[n].inEscape)}
  <1>4. 0 \in T
    <2>1. b[0] = Begun(<<>>, FALSE)
      BY DEF Loops, Begun
    <2>2. p \o <<>> = p
      BY ConcatRe
    <2>3. a[0 + d] = Begun(p \o b[0].re, b[0].inEscape)
      <3>1. b[0].re = <<>> /\ b[0].inEscape = FALSE
        BY <2>1 DEF Begun
      <3>2. 0 + d = d
        OBVIOUS
      <3> QED BY <2>2, <3>1, <3>2
    <2> QED BY <2>3
  <1>5. ASSUME NEW n \in Nat, n \in T PROVE n + 1 \in T
    <2> SUFFICES ASSUME n + 1 <= Len(t)
                 PROVE  a[(n + 1) + d] = Begun(p \o b[n + 1].re, b[n + 1].inEscape)
      OBVIOUS
    <2>1. /\ n + 1 \in 1..Len(t) /\ (n + 1) - 1 = n /\ n \in 0..Len(t) /\ n <= Len(t)
          /\ (n + 1) + d \in 1..Len(m) /\ ((n + 1) + d) - 1 = n + d
      BY <1>1
    <2> DEFINE c == t[n + 1]
               u == b[n]
    <2>2. c \in MaskChars /\ u \in Turns
      BY <1>1, <1>2, <2>1
    <2>3. b[n + 1] = Translate(u, c)
      BY <2>1 DEF Loops
    <2>4. m[(n + 1) + d] = c
      BY <2>1
    <2>5. a[(n + 1) + d] = Translate(a[n + d], c)
      BY <2>1, <2>4 DEF Loops
    <2>6. a[n + d] = Begun(p \o u.re, u.inEscape)
      BY <1>5, <2>1
    <2> HIDE DEF c, u
    <2> QED BY <2>2, <2>3, <2>5, <2>6, TranslateBehind
  <1> HIDE DEF T
  <1>6. Nat \subseteq T
    BY <1>4, <1>5, Induction
  <1>7. a[Len(t) + d] = Begun(p \o b[Len(t)].re, b[Len(t)].inEscape)
    BY <1>1, <1>6 DEF T
  <1>8. a[Len(t) + d].re = p \o b[Len(t)].re
    BY <1>7, SMTT(40) DEF Begun
  <1> QED BY <1>8

\* ToRegexp by the first character of the mask.
LEMMA RegexpOf ==
    ASSUME NEW m \in Texts
    PROVE  /\ ToRegexp(m) \in Regexps
           /\ m = <<>> => ToRegexp(m) = <<>>
           /\ m # <<>> /\ m[1] # "\\" => ToRegexp(m) = <<Piece(m[1])>> \o ToRegexp(Tail(m))
           /\ m # <<>> /\ m[1] = "\\" /\ Tail(m) = <<>> => ToRegexp(m) = <<>>
           /\ m # <<>> /\ m[1] = "\\" /\ Tail(m) # <<>> =>
                 ToRegexp(m) = <<Literal(m[2])>> \o ToRegexp(Tail(Tail(m)))
  <1>1. PICK a : Loops(a, m) /\ ToRegexp(m) = a[Len(m)].re
    BY LoopsSome
  <1>2. Len(m) \in Nat /\ \A k \in 1..Len(m) : m[k] \in MaskChars
    BY DEF Texts
  <1>3. \A k \in 0..Len(m) : a[k] \in Turns
    BY <1>1, LoopsIn
  <1>4. a[0] = Begun(<<>>, FALSE) /\ \A k \in 1..Len(m) : a[k] = Translate(a[k - 1], m[k])
    BY <1>1 DEF Loops, Begun
  <1>5. \A u, v : Begun(u, v).re = u /\ Begun(u, v).inEscape = v
    BY DEF Begun
  <1>6. <<>> \in Regexps /\ \A r \in Regexps : <<>> \o r = r
    BY PieceIs, ConcatRe
  <1>7. ToRegexp(m) \in Regexps
    <2>1. Len(m) \in 0..Len(m)
      BY <1>2
    <2> QED BY <1>1, <1>3, <2>1, TurnIs
  <1>8. ASSUME m = <<>> PROVE ToRegexp(m) = <<>>
    <2>1. Len(m) = 0
      BY <1>8
    <2>2. ToRegexp(m) = a[0].re
      BY <1>1, <2>1
    <2> QED BY <1>4, <1>5, <2>2
  <1>9. ASSUME m # <<>>
        PROVE  /\ m[1] # "\\" => ToRegexp(m) = <<Piece(m[1])>> \o ToRegexp(Tail(m))
               /\ m[1] = "\\" /\ Tail(m) = <<>> => ToRegexp(m) = <<>>
               /\ m[1] = "\\" /\ Tail(m) # <<>> =>
                     ToRegexp(m) = <<Literal(m[2])>> \o ToRegexp(Tail(Tail(m)))
    <2> DEFINE c == m[1]
               t == Tail(m)
    <2>1. /\ t \in Texts /\ Len(m) = Len(t) + 1 /\ Len(t) \in Nat
          /\ \A k \in 1..Len(t) : m[k + 1] = t[k]
      <3>1. ASSUME NEW S, NEW s \in Seq(S), s # <<>>
            PROVE  /\ Tail(s) \in Seq(S) /\ Len(s) = Len(Tail(s)) + 1 /\ Len(Tail(s)) \in Nat
                   /\ \A k \in 1..Len(Tail(s)) : s[k + 1] = Tail(s)[k]
        <4>1. Tail(s) \in Seq(S) /\ Len(s) = Len(Tail(s)) + 1 /\ Len(Tail(s)) \in Nat
          BY <3>1, Headed
        <4>2. \A k \in 1..Len(Tail(s)) : Tail(s)[k] = s[k + 1]
          BY <3>1, HeadTailProperties
        <4> QED BY <4>1, <4>2
      <3> QED BY <1>9, <3>1 DEF Texts
    <2> HIDE DEF t
    <2>2. 1 \in 1..Len(m) /\ 1 - 1 = 0 /\ c \in MaskChars
      BY <1>2, <2>1
    <2>3. a[1] = Translate(Begun(<<>>, FALSE), c)
      BY <1>4, <2>2
    <2> HIDE DEF c
    <2>4. ASSUME c # "\\" PROVE ToRegexp(m) = <<Piece(c)>> \o ToRegexp(t)
      <3>1. Piece(c) \in Pieces
        BY <1>6, <2>2, TranslateIs
      <3> DEFINE p == <<Piece(c)>>
      <3>2. p \in Regexps
        BY <3>1, OnePiece
      <3>3. a[1] = Begun(p, FALSE)
        <4>1. a[1] = Begun(<<>> \o p, FALSE)
          BY <1>6, <2>2, <2>3, <2>4, TranslateIs
        <4> QED BY <1>6, <3>2, <4>1
      <3> HIDE DEF p
      <3>4. PICK b : Loops(b, t) /\ ToRegexp(t) = b[Len(t)].re
        BY <2>1, LoopsSome
      <3>5. a[Len(m)].re = p \o b[Len(t)].re
        <4>1. 1 \in Nat /\ Len(m) = Len(t) + 1 /\ \A k \in 1..Len(t) : m[k + 1] = t[k]
          BY <2>1
        <4>2. Loops(a, m) /\ Loops(b, t) /\ t \in Texts
          BY <1>1, <2>1, <3>4
        <4>3. Continues(m, t, 1) /\ a[1] = Ready(p)
          BY <3>3, <4>1 DEF Continues, Ready
        <4> QED BY <3>2, <4>1, <4>2, <4>3, LoopsBehind, SMTT(40)
      <3> QED BY <1>1, <3>4, <3>5 DEF p
    <2>5. ASSUME c = "\\" PROVE a[1] = Begun(<<>>, TRUE)
      BY <1>6, <2>2, <2>3, <2>5, TranslateIs
    <2>6. ASSUME c = "\\", t = <<>> PROVE ToRegexp(m) = <<>>
      <3>1. Len(t) = 0
        BY <2>6
      <3>2. Len(m) = 1
        BY <2>1, <3>1
      <3>3. a[1].re = <<>>
        BY <2>5, <2>6 DEF Begun
      <3> QED BY <1>1, <3>2, <3>3
    <2>7. ASSUME c = "\\", t # <<>> PROVE ToRegexp(m) = <<Literal(m[2])>> \o ToRegexp(Tail(t))
      <3> DEFINE x == m[2]
                 u == Tail(t)
                 p == <<Literal(x)>>
      <3>1. /\ u \in Texts /\ Len(t) = Len(u) + 1 /\ Len(u) \in Nat
            /\ \A k \in 1..Len(u) : t[k + 1] = u[k]
        <4>1. ASSUME NEW S, NEW s \in Seq(S), s # <<>>
              PROVE  /\ Tail(s) \in Seq(S) /\ Len(s) = Len(Tail(s)) + 1 /\ Len(Tail(s)) \in Nat
                     /\ \A k \in 1..Len(Tail(s)) : s[k + 1] = Tail(s)[k]
          <5>1. Tail(s) \in Seq(S) /\ Len(s) = Len(Tail(s)) + 1 /\ Len(Tail(s)) \in Nat
            BY <4>1, Headed
          <5>2. \A k \in 1..Len(Tail(s)) : Tail(s)[k] = s[k + 1]
            BY <4>1, HeadTailProperties
          <5> QED BY <5>1, <5>2
        <4> QED BY <2>1, <2>7, <4>1 DEF Texts
      <3> HIDE DEF u
      <3>2. 2 \in 1..Len(m) /\ 2 - 1 = 1 /\ x \in MaskChars /\ Len(m) = Len(u) + 2
        BY <1>2, <2>1, <3>1
      <3>3. a[2] = Translate(Begun(<<>>, TRUE), x)
        BY <1>4, <2>5, <2>7, <3>2
      <3>4. \A k \in 1..Len(u) : m[k + 2] = u[k]
        <4>1. ASSUME NEW k \in 1..Len(u)
              PROVE  k + 1 \in 1..Len(t) /\ (k + 1) + 1 = k + 2
          BY <3>1
        <4>2. ASSUME NEW k \in 1..Len(u) PROVE m[k + 2] = u[k]
          <5>1. m[(k + 1) + 1] = t[k + 1] /\ t[k + 1] = u[k]
            BY <2>1, <3>1, <4>1
          <5> QED BY <4>1, <5>1
        <4> QED BY <4>2
      <3> HIDE DEF x
      <3>5. Literal(x) \in Pieces
        BY <1>6, <3>2, TranslateIs
      <3>6. p \in Regexps
        BY <3>5, OnePiece
      <3>7. a[2] = Begun(p, FALSE)
        <4>1. a[2] = Begun(<<>> \o p, FALSE)
          BY <1>6, <3>2, <3>3, TranslateIs
        <4> QED BY <1>6, <3>6, <4>1
      <3> HIDE DEF p
      <3>8. PICK b : Loops(b, u) /\ ToRegexp(u) = b[Len(u)].re
        BY <3>1, LoopsSome
      <3>9. a[Len(m)].re = p \o b[Len(u)].re
        <4>1. 2 \in Nat /\ Len(m) = Len(u) + 2
          BY <3>2
        <4>2. Loops(a, m) /\ Loops(b, u) /\ u \in Texts
          BY <1>1, <3>1, <3>8
        <4>3. Continues(m, u, 2) /\ a[2] = Ready(p)
          BY <3>4, <3>7, <4>1 DEF Continues, Ready
        <4> QED BY <3>6, <4>1, <4>2, <4>3, LoopsBehind, SMTT(40)
      <3> QED BY <1>1, <3>8, <3>9 DEF p, x, u
    <2> QED BY <2>4, <2>6, <2>7 DEF c, t
  <1> QED BY <1>7, <1>8, <1>9

\* Head is the first member.
LEMMA HeadIs == ASSUME NEW S, NEW s \in Seq(S), s # <<>> PROVE Head(s) = s[1]
  OBVIOUS

\* The texts whose end, or whose tail, is one of tails.
EndIn(tails)      == {s \in Texts : \E k \in 0..Len(s) : SubSeq(s, k + 1, Len(s)) \in tails}
TailIn(tails)     == {s \in Texts : s # <<>> /\ Tail(s) \in tails}
MarkIn(c, tails)  == {s \in Texts : s # <<>> /\ Head(s) = c /\ Tail(s) \in tails}

\* What a regexp matches, by its first piece.
LEMMA MatchOneIs ==
    ASSUME NEW re, NEW tails
    PROVE  /\ Head(re) = AnyText => MatchOne(re, tails) = EndIn(tails)
           /\ Head(re) = AnyChar => MatchOne(re, tails) = TailIn(tails)
           /\ \A c : Head(re) = Literal(c) => MatchOne(re, tails) = MarkIn(c, tails)
  <1>1. ASSUME Head(re) = AnyText PROVE MatchOne(re, tails) = EndIn(tails)
    <2>1. Head(re).kind = "some"
      <3>1. AnyText.kind = "some"
        BY DEF AnyText
      <3> QED BY <1>1, <3>1
    <2> QED BY <2>1 DEF MatchOne, EndIn
  <1>2. ASSUME Head(re) = AnyChar PROVE MatchOne(re, tails) = TailIn(tails)
    <2>1. Head(re).kind = "any"
      <3>1. AnyChar.kind = "any"
        BY DEF AnyChar
      <3> QED BY <1>2, <3>1
    <2> QED BY <2>1 DEF MatchOne, TailIn
  <1>3. ASSUME NEW c, Head(re) = Literal(c) PROVE MatchOne(re, tails) = MarkIn(c, tails)
    <2>1. Head(re).kind = "literal" /\ Head(re).char = c
      BY <1>3 DEF Literal
    <2> QED BY <2>1 DEF MatchOne, MarkIn
  <1> QED BY <1>1, <1>2, <1>3

\* What a mask means, by its first character.
LEMMA MeantOneIs ==
    ASSUME NEW m, NEW one, NEW two
    PROVE  /\ Head(m) = "*" => MeantOne(m, one, two) = EndIn(one)
           /\ Head(m) = "?" => MeantOne(m, one, two) = TailIn(one)
           /\ Head(m) \notin {"*", "?", "\\"} => MeantOne(m, one, two) = MarkIn(Head(m), one)
           /\ Escapes(m) => MeantOne(m, one, two) = MarkIn(m[2], two)
  <1>1. ASSUME Head(m) = "*" PROVE MeantOne(m, one, two) = EndIn(one)
    BY <1>1 DEF MeantOne, EndIn, Escapes
  <1>2. ASSUME Head(m) = "?" PROVE MeantOne(m, one, two) = TailIn(one)
    BY <1>2 DEF MeantOne, TailIn, Escapes
  <1>3. ASSUME Head(m) \notin {"*", "?", "\\"} PROVE MeantOne(m, one, two) = MarkIn(Head(m), one)
    BY <1>3 DEF MeantOne, MarkIn, Escapes
  <1>4. ASSUME Escapes(m) PROVE MeantOne(m, one, two) = MarkIn(m[2], two)
    <2>1. Head(m) \notin {"*", "?"}
      BY <1>4 DEF Escapes
    <2> QED BY <1>4, <2>1 DEF MeantOne, MarkIn
  <1> QED BY <1>1, <1>2, <1>3, <1>4

\* The regexp of a mask that has no backslash but to escape something matches what
\* the mask means.
LEMMA RegexpMeans ==
    ASSUME NEW m \in Texts, OnlyEscapes[m]
    PROVE  Matches[ToRegexp(m)] = Meant[m]
  <1> DEFINE T == {n \in Nat : \A t \in Texts :
                       Len(t) < n /\ OnlyEscapes[t] => Matches[ToRegexp(t)] = Meant[t]}
  <1>0. \A t \in Texts : Len(t) \in Nat
    BY DEF Texts
  <1>1. 0 \in T
    BY <1>0
  <1>2. ASSUME NEW n \in Nat, n \in T PROVE n + 1 \in T
    <2> SUFFICES ASSUME NEW t \in Texts, Len(t) < n + 1, OnlyEscapes[t]
                 PROVE  Matches[ToRegexp(t)] = Meant[t]
      OBVIOUS
    <2>1. CASE t = <<>>
      <3>1. ToRegexp(t) = <<>> /\ <<>> \in Regexps
        BY <2>1, RegexpOf, PieceIs
      <3> QED BY <2>1, <3>1, MatchesIs, MeantIs
    <2>2. CASE t # <<>>
      <3> DEFINE u == Tail(t)
                 c == t[1]
      <3>1. u \in Texts /\ Len(u) < n /\ c \in MaskChars
        <4>1. u \in Texts /\ Len(t) = Len(u) + 1 /\ Len(u) \in Nat /\ c \in MaskChars
          BY <2>2, Headed DEF Texts
        <4> QED BY <4>1
      <3>e. /\ c = "\\" => Escapes(t) /\ OnlyEscapes[Tail(u)]
            /\ c # "\\" => OnlyEscapes[u]
        <4>1. Head(t) = c
          BY <2>2, HeadIs DEF Texts
        <4> QED BY <2>2, <4>1, OnlyEscapesIs DEF EscapesOne
      <3>2. c # "\\" => Matches[ToRegexp(u)] = Meant[u]
        BY <1>2, <3>1, <3>e
      <3>3. Meant[t] = MeantOne(t, Meant[u], Meant[Tail(u)])
        BY <2>2, MeantIs
      <3>4. Head(t) = c
        BY <2>2, HeadIs DEF Texts
      <3>5. ASSUME NEW x \in Pieces, NEW r \in Regexps, ToRegexp(t) = <<x>> \o r
            PROVE  \E re : Head(re) = x /\ Matches[ToRegexp(t)] = MatchOne(re, Matches[r])
        <4> DEFINE re == <<x>> \o r
        <4>1. re \in Seq(Pieces) /\ re # <<>> /\ re[1] = x /\ Tail(re) = r
          BY <3>5, Marked, RegexpsAre
        <4>2. re \in Regexps
          BY <4>1, RegexpsAre
        <4> HIDE DEF re
        <4>3. Matches[re] = MatchOne(re, Matches[r])
          BY <4>1, <4>2, MatchesIs
        <4>4. Head(re) = x
          BY <4>1, HeadIs
        <4>5. ToRegexp(t) = re
          BY <3>5 DEF re
        <4> QED BY <4>3, <4>4, <4>5
      <3>6. CASE c # "\\"
        <4> DEFINE x == Piece(c)
                   r == ToRegexp(u)
        <4>1. x \in Pieces /\ r \in Regexps /\ ToRegexp(t) = <<x>> \o r
          <5>1. <<>> \in Regexps
            BY PieceIs
          <5> QED BY <2>2, <3>1, <3>6, <5>1, RegexpOf, TranslateIs
        <4> HIDE DEF x, r
        <4>2. PICK re : Head(re) = x /\ Matches[ToRegexp(t)] = MatchOne(re, Matches[r])
          BY <3>5, <4>1
        <4>3. Matches[r] = Meant[u]
          BY <3>2, <3>6 DEF r
        <4> HIDE DEF u, c
        <4> DEFINE tails == Meant[u]
        <4>4. Matches[ToRegexp(t)] = MatchOne(re, tails)
          BY <4>2, <4>3
        <4> HIDE DEF tails
        <4>5. CASE c = "*"
          <5>1. x = AnyText
            BY <4>5 DEF x, Piece
          <5> QED BY <3>3, <3>4, <4>2, <4>4, <4>5, <5>1, MatchOneIs, MeantOneIs DEF tails
        <4>6. CASE c = "?"
          <5>1. x = AnyChar
            BY <4>6 DEF x, Piece
          <5> QED BY <3>3, <3>4, <4>2, <4>4, <4>6, <5>1, MatchOneIs, MeantOneIs DEF tails
        <4>7. CASE c \notin {"*", "?", "\\"}
          <5>1. x = Literal(c)
            BY <4>7 DEF x, Piece
          <5> QED BY <3>3, <3>4, <4>2, <4>4, <4>7, <5>1, MatchOneIs, MeantOneIs DEF tails
        <4> QED BY <3>6, <4>5, <4>6, <4>7
      <3>7. CASE c = "\\" /\ u = <<>>
        BY <3>e, <3>7 DEF Escapes
      <3>8. CASE c = "\\" /\ u # <<>>
        <4> DEFINE v == Tail(u)
                   d == t[2]
                   x == Literal(d)
                   r == ToRegexp(v)
        <4>1. v \in Texts /\ Len(v) < n
          <5>1. v \in Texts /\ Len(u) = Len(v) + 1 /\ Len(v) \in Nat
            BY <3>1, <3>8, Headed DEF Texts
          <5> QED BY <3>1, <5>1
        <4>2. d \in MaskChars
          <5>1. Len(u) \in Nat /\ Len(u) # 0 /\ Len(t) = Len(u) + 1
            BY <2>2, <3>1, <3>8, Headed, EmptySeq DEF Texts
          <5> HIDE DEF u
          <5>2. 2 \in 1..Len(t)
            BY <5>1
          <5> QED BY <5>2, ElementOfSeq DEF Texts
        <4>3. x \in Pieces /\ r \in Regexps /\ ToRegexp(t) = <<x>> \o r
          <5>1. <<>> \in Regexps
            BY PieceIs
          <5> QED BY <2>2, <3>8, <4>1, <4>2, <5>1, RegexpOf, TranslateIs
        <4> HIDE DEF x, r
        <4>4. PICK re : Head(re) = x /\ Matches[ToRegexp(t)] = MatchOne(re, Matches[r])
          BY <3>5, <4>3
        <4>5. Matches[r] = Meant[v]
          BY <1>2, <3>8, <3>e, <4>1 DEF r
        <4> HIDE DEF v, d, u, c
        <4>6. Matches[ToRegexp(t)] = MarkIn(d, Meant[v])
          BY <4>4, <4>5, MatchOneIs DEF x
        <4>7. Meant[t] = MarkIn(d, Meant[v])
          BY <3>3, <3>8, <3>e, MeantOneIs DEF v, d, u, c
        <4> QED BY <4>6, <4>7
      <3> QED BY <3>6, <3>7, <3>8
    <2> QED BY <2>1, <2>2
  <1> HIDE DEF T
  <1>3. Nat \subseteq T
    BY <1>1, <1>2, Induction
  <1>4. Len(m) + 1 \in T /\ Len(m) < Len(m) + 1
    BY <1>0, <1>3
  <1> QED BY <1>4 DEF T

\* What MatchString finds with the pattern of a mask is what the mask means, if the
\* mask has no backslash but to escape something.
THEOREM RegexpTheorem == NamesSpec => []RegexpIsMask
  <1>1. NamesInv => RegexpIsMask
    BY RegexpMeans DEF NamesInv, RegexpIsMask, MatchString
  <1> QED BY <1>1, NamesAlways, PTL

-----------------------------------------------------------------------------
(* Validate.                                                               *)

\* A message that is valid has the parameters that are indexed, but for two.
LEMMA ValidSuffices ==
    ASSUME NEW m, Valid(m), m.params \in Nat, m.params < Needs(m)
    PROVE  m.server /\ m.cmd \in {"PART", "KICK"} /\ m.params = 0
  <1>1. m.params >= minParams(m.cmd)
    BY DEF Valid
  <1>2. CASE m.server
    <2>1. m.params < ServerNeeds(m.cmd)
      BY <1>2 DEF Needs
    <2> QED BY <1>1, <1>2, <2>1 DEF ServerNeeds, minParams
  <1>3. CASE ~m.server
    <2>1. m.params < ClientNeeds(m.cmd)
      BY <1>3 DEF Needs
    <2> QED BY <1>1, <1>3, <2>1 DEF ClientNeeds, minParams
  <1> QED BY <1>2, <1>3

\* No handler indexes a parameter that a valid message does not have, but for those
\* of a server's PART or KICK.
THEOREM ParamsTheorem == ValidateSpec => []ParamsSuffice
  <1> DEFINE Inv == message.params \in Nat /\ ParamsSuffice
  <1>1. ValidateInit => Inv
    <2> SUFFICES ASSUME ValidateInit PROVE Inv
      OBVIOUS
    <2>1. message.params \in 0..MaxParams + 1
      BY DEF ValidateInit
    <2>2. outcome # "panicked"
      BY DEF ValidateInit
    <2>3. MaxParams = 15
      BY DEF MaxParams
    <2>4. message.params \in Nat
      BY <2>1, <2>3
    <2> QED BY <2>2, <2>4 DEF ParamsSuffice
  <1>2. Inv /\ [ValidateNext]_validateVars => Inv'
    <2> SUFFICES ASSUME Inv, [ValidateNext]_validateVars PROVE Inv'
      OBVIOUS
    <2>1. CASE Refuse
      BY <2>1 DEF Refuse, ParamsSuffice
    <2>2. CASE Handle
      <3>1. message' = message /\ (outcome' # "panicked" \/ message.params < Needs(message))
        <4>1. Needs(message) \in Nat
          BY DEF Needs, ServerNeeds, ClientNeeds
        <4> QED BY <2>2, <4>1 DEF Handle
      <3>2. message' = message /\ Valid(message)
        BY <2>2 DEF Handle
      <3>3. CASE message.params < Needs(message)
        BY <3>2, <3>3, ValidSuffices DEF ParamsSuffice
      <3>4. CASE outcome' # "panicked"
        BY <3>2, <3>4 DEF ParamsSuffice
      <3> QED BY <3>1, <3>2, <3>3, <3>4
    <2>3. CASE UNCHANGED validateVars
      BY <2>3 DEF validateVars, ParamsSuffice
    <2> QED BY <2>1, <2>2, <2>3 DEF ValidateNext
  <1> QED BY <1>1, <1>2, PTL DEF ValidateSpec

-----------------------------------------------------------------------------
(* RateLimit.                                                              *)

\* What the variables hold.
LimitTypes ==
    /\ pc \in {"select", "send", "refill", "returned"}
    /\ left \in Int /\ tick \in BOOLEAN /\ dstClosed \in BOOLEAN
    /\ src \in {"empty", "ready", "closed"}
    /\ taken \in Nat /\ copied \in Nat /\ window \in Nat
    /\ ticks \in 0..MaxTicks

\* The quota is not exceeded, and is used up only when the next tick is waited
\* for.
QuotaOK ==
    MaxQuota > 0 => /\ left <= MaxQuota
                    /\ pc \in {"select", "send"} => left > 0
                    /\ left >= 0

\* What has been copied since the window was opened, with what may be copied
\* before the next tick: no more than what the quota was, and what the ticks
\* that have been used have added to it.
Budget ==
    MaxQuota > 0 /\ ticks < MaxTicks =>
        window + left + (IF tick THEN 1 ELSE 0) <= MaxQuota + ticks + 1

\* The message that is taken is sent before src is looked at again.
InTransit ==
    /\ taken = copied + (IF pc = "send" THEN 1 ELSE 0)
    /\ dstClosed => pc = "returned"
    /\ pc = "returned" => src = "closed"

\* The inductive invariant.
LimitInv == LimitTypes /\ QuotaOK /\ Budget /\ InTransit

LEMMA LimitStart ==
    ASSUME LimitInit
    PROVE  LimitInv
  <1>1. /\ pc = "select" /\ src = "empty" /\ left = MaxQuota
        /\ tick = FALSE /\ dstClosed = FALSE
        /\ taken = 0 /\ copied = 0 /\ window = 0 /\ ticks = 0
        /\ MaxQuota \in Nat /\ 0 \in 0..MaxTicks
    BY QuotaAssumption DEF LimitInit, QuotaAssumption
  <1>2. QuotaOK /\ Budget
    BY <1>1 DEF QuotaOK, Budget
  <1>3. InTransit
    BY <1>1 DEF InTransit
  <1>4. MaxQuota \in Int /\ 0 \in Nat
    BY <1>1
  <1> QED BY <1>1, <1>2, <1>3, <1>4 DEF LimitInv, LimitTypes

\* A tick is used.
LEMMA RefillKeeps ==
    ASSUME LimitInv, pc \in {"select", "refill"}, tick, left' = Capped(left + 1),
           tick' = FALSE, pc' = "select",
           UNCHANGED <<src, dstClosed, taken, copied, window, ticks>>
    PROVE  LimitInv'
  <1>1. /\ left \in Int /\ left' \in Int /\ window \in Nat /\ ticks \in Nat
        /\ left' <= left + 1
        /\ MaxQuota > 0 /\ left >= 0 => left' > 0 /\ left' <= MaxQuota
    BY QuotaAssumption DEF LimitInv, LimitTypes, Capped, QuotaAssumption
  <1>2. QuotaOK'
    BY <1>1 DEF LimitInv, QuotaOK
  <1>3. Budget'
    <2> SUFFICES ASSUME MaxQuota > 0, ticks < MaxTicks
                 PROVE  window + left' <= MaxQuota + ticks + 1
      BY <1>1 DEF Budget
    <2>1. window + left + 1 <= MaxQuota + ticks + 1
      BY DEF LimitInv, Budget
    <2> QED BY <1>1, <2>1, QuotaAssumption DEF QuotaAssumption
  <1>4. LimitTypes'
    BY <1>1 DEF LimitInv, LimitTypes
  <1>5. InTransit'
    BY DEF LimitInv, LimitTypes, InTransit
  <1> QED BY <1>2, <1>3, <1>4, <1>5 DEF LimitInv

LEMMA LimitStep ==
    ASSUME LimitInv, [LimitNext]_limitVars
    PROVE  LimitInv'
  <1> USE QuotaAssumption DEF QuotaAssumption, LimitInv, LimitTypes, QuotaOK, Budget, InTransit
  <1>1. CASE Refresh
    BY <1>1, RefillKeeps DEF Refresh
  <1>2. CASE Take
    BY <1>2 DEF Take
  <1>3. CASE SourceClosed
    BY <1>3 DEF SourceClosed
  <1>4. CASE Send
    BY <1>4 DEF Send
  <1>5. CASE Refill
    BY <1>5, RefillKeeps DEF Refill
  <1>6. CASE Tick
    BY <1>6 DEF Tick
  <1>7. CASE Offer
    BY <1>7 DEF Offer
  <1>8. CASE CloseSource
    BY <1>8 DEF CloseSource
  <1>9. CASE StartWindow
    BY <1>9 DEF StartWindow
  <1>10. CASE UNCHANGED limitVars
    BY <1>10 DEF limitVars
  <1> QED
    BY <1>1, <1>2, <1>3, <1>4, <1>5, <1>6, <1>7, <1>8, <1>9, <1>10 DEF LimitNext

LEMMA LimitInvariant == LimitSpec => []LimitInv
  <1>1. LimitInit => LimitInv
    BY LimitStart
  <1>2. LimitInv /\ [LimitNext]_limitVars => LimitInv'
    BY LimitStep
  <1> QED BY <1>1, <1>2, PTL DEF LimitSpec

\* In any period RateLimit copies no more messages than its quota, one for every
\* tick of the period and one for a tick that was waiting when it began.
THEOREM RateTheorem == LimitSpec => []RateBounded
  <1>1. LimitInv => RateBounded
    BY QuotaAssumption DEF LimitInv, LimitTypes, QuotaOK, Budget, RateBounded, QuotaAssumption
  <1> QED BY <1>1, LimitInvariant, PTL

\* Nothing that is taken from src is lost, and dst is closed only after all of
\* src has been copied.
THEOREM CopiedTheorem == LimitSpec => []ClosedWhenCopied
  <1>1. LimitInv => ClosedWhenCopied
    BY DEF LimitInv, LimitTypes, InTransit, ClosedWhenCopied
  <1> QED BY <1>1, LimitInvariant, PTL

-----------------------------------------------------------------------------
(* AutoPing and AutoPong.                                                  *)

\* The timer was drained only where it is going to be armed, and if the peer
\* answers in time, a PING that is out is being answered: AutoPong has it, unless
\* the line is down or ctx is done.
PingPongInv ==
    /\ ping \in PingPoints /\ pong \in PongPoints
    /\ timer \in {"armed", "fired", "drained"}
    /\ pingSent \in BOOLEAN /\ canceled \in BOOLEAN /\ timedOut \in BOOLEAN
    /\ listening \in BOOLEAN /\ quick \in BOOLEAN
    /\ TimerRuns
    /\ ping = "forward" => timer \in {"armed", "fired"} /\ ~pingSent
    /\ PongPreventsTimeout
    /\ quick /\ listening /\ pingSent /\ ping = "select" =>
          timer = "armed" /\ pong \in {"reply", "returned"}

LEMMA PingPongInvariant == PingPongSpec => []PingPongInv
  <1>1. PingPongInit => PingPongInv
    BY DEF PingPongInit, PingPongInv, PingPoints, PongPoints, TimerRuns, PongPreventsTimeout
  <1>2. PingPongInv /\ [PingPongNext]_pingPongVars => PingPongInv'
    <2> SUFFICES ASSUME PingPongInv, [PingPongNext]_pingPongVars PROVE PingPongInv'
      OBVIOUS
    <2> USE DEF PingPongInv, PingPoints, PongPoints, TimerRuns, PongPreventsTimeout
    <2>1. CASE DrainTimer
      BY <2>1 DEF DrainTimer, Restarted
    <2>2. CASE Expiry
      BY <2>2 DEF Expiry
    <2>3. CASE Forwarded
      BY <2>3 DEF Forwarded
    <2>4. CASE PingTaken
      BY <2>4 DEF PingTaken, Pinged
    <2>5. CASE PongTaken
      BY <2>5 DEF PongTaken, Incoming, Restarted
    <2>6. CASE PongForwarded
      BY <2>6 DEF PongForwarded
    <2>7. CASE PingReturns \/ PongReturns
      BY <2>7 DEF PingReturns, PongReturns
    <2>8. CASE TimerFires
      BY <2>8 DEF TimerFires, Idle
    <2>9. CASE OtherToPing
      BY <2>9 DEF OtherToPing, Incoming, Restarted
    <2>10. CASE OtherToPong
      BY <2>10 DEF OtherToPong
    <2>11. CASE LineBreaks
      BY <2>11, ZenonT(40) DEF LineBreaks
    <2>12. CASE Cancel
      BY <2>12 DEF Cancel
    <2>13. CASE UNCHANGED pingPongVars
      BY <2>13 DEF pingPongVars
    <2> QED
      BY <2>1, <2>2, <2>3, <2>4, <2>5, <2>6, <2>7, <2>8, <2>9, <2>10, <2>11, <2>12,
         <2>13
         DEF PingPongNext, PingStep, PongStep
  <1> QED BY <1>1, <1>2, PTL DEF PingPongSpec

\* AutoPing never waits for a timer that is not running.
THEOREM TimerTheorem == PingPongSpec => []TimerRuns
  <1>1. PingPongInv => TimerRuns
    BY DEF PingPongInv
  <1> QED BY <1>1, PingPongInvariant, PTL

\* A peer that answers within pingTime is not disconnected.
THEOREM PongTheorem == PingPongSpec => []PongPreventsTimeout
  <1>1. PingPongInv => PongPreventsTimeout
    BY DEF PingPongInv
  <1> QED BY <1>1, PingPongInvariant, PTL

=============================================================================
