--------------------------- MODULE MigrationGenProofs ---------------------------
(***************************************************************************)
(* The statements generated for a schema change, and what becomes of the   *)
(* database, for every change, every number of clients and every failure.  *)
(***************************************************************************)
EXTENDS MigrationGen, FiniteSetTheorems, SequenceTheorems, TLAPS

-----------------------------------------------------------------------------
(* Induction.  The library's induction theorems are about operators; these are
   about sets, which the provers can instantiate.                           *)

(* Every set of naturals that is not empty has a least element: intervals 0..n
   are finite, and finite sets are well-founded.                            *)
LEMMA Least ==
    ASSUME NEW T, T \subseteq Nat, T # {}
    PROVE  \E x \in T : \A y \in T : x <= y
<1> DEFINE R == StrictSubsetOrdering(Nat)
           C == {0..n : n \in T}
<1>1. IsWellFoundedOn(R, FiniteSubsetsOf(Nat))
  BY FS_StrictSubsetOrderingWellFounded
<1>2. C \subseteq FiniteSubsetsOf(Nat) /\ C # {}
  <2>1. ASSUME NEW n \in T PROVE 0..n \in FiniteSubsetsOf(Nat)
    <3>1. IsFiniteSet(0..n)
      BY FS_Interval
    <3> QED BY <3>1 DEF FiniteSubsetsOf
  <2> QED BY <2>1
<1>3. PICK c \in C : \A d \in C : <<d, c>> \notin R
  <2> HIDE DEF R, C
  <2> QED BY <1>1, <1>2, WFMin
<1>4. PICK x \in T : c = 0..x
  OBVIOUS
<1>5. ASSUME NEW y \in T, ~(x <= y)
      PROVE  FALSE
  <2>1. 0..y \in SUBSET Nat /\ 0..x \in SUBSET Nat /\ 0..y \subseteq 0..x /\ 0..y # 0..x
    <3>1. x \in 0..x /\ x \notin 0..y /\ 0..y \subseteq 0..x
      BY <1>5
    <3> QED BY <3>1
  <2>2. <<0..y, c>> \in R
    BY <2>1, <1>4 DEF StrictSubsetOrdering
  <2> QED BY <2>2, <1>3
<1> QED BY <1>5

(* From m upwards to n. *)
LEMMA Climb ==
    ASSUME NEW m \in Nat, NEW n \in Nat, NEW Q, m \in Q,
           \A i \in m..n : i \in Q /\ i < n => i + 1 \in Q
    PROVE  m..n \subseteq Q
<1> DEFINE T == (m..n) \ Q
<1> SUFFICES ASSUME T # {} PROVE FALSE
  OBVIOUS
<1>1. PICK x \in T : \A y \in T : x <= y
  <2>1. T \subseteq Nat
    OBVIOUS
  <2> HIDE DEF T
  <2> QED BY <2>1, Least
<1>2. x - 1 \in m..n /\ x - 1 \notin T /\ x - 1 < n
  BY <1>1
<1> QED BY <1>1, <1>2

-----------------------------------------------------------------------------
(* The recursive function that FlattenSeq chooses exists. *)
LEMMA FlattenDef ==
    ASSUME NEW S, NEW ss \in Seq(Seq(S)), Len(ss) # 0
    PROVE  \E f \in [1..Len(ss) -> Seq(S)] :
              /\ f[1] = ss[1]
              /\ \A i \in 1..Len(ss) : i > 1 => f[i] = f[i - 1] \o ss[i]
              /\ FlattenSeq(ss) = f[Len(ss)]
<1> DEFINE N == Len(ss)
           Rec(f, n) == /\ f \in [1..n -> Seq(S)] /\ f[1] = ss[1]
                        /\ \A i \in 1..n : i > 1 => f[i] = f[i - 1] \o ss[i]
           Q == {n \in Nat : \E f : Rec(f, n)}
<1>1. N \in Nat /\ N >= 1 /\ \A i \in 1..N : ss[i] \in Seq(S)
  OBVIOUS
<1>2. 1 \in Q
  <2>1. Rec([i \in 1..1 |-> ss[1]], 1)
    BY <1>1
  <2> QED BY <2>1
<1>3. ASSUME NEW n \in 1..N, n \in Q, n < N PROVE n + 1 \in Q
  <2>1. PICK f : Rec(f, n)
    BY <1>3
  <2>2. n \in Nat /\ n + 1 \in Nat /\ n >= 1 /\ n <= N
    BY <1>1, <1>3
  <2> DEFINE g == [i \in 1..(n + 1) |-> IF i = n + 1 THEN f[n] \o ss[n + 1] ELSE f[i]]
  <2>3. f[n] \o ss[n + 1] \in Seq(S)
    BY <1>1, <1>3, <2>1
  <2>4. g \in [1..(n + 1) -> Seq(S)] /\ g[1] = ss[1]
    BY <1>3, <2>1, <2>3
  <2>5. g[n + 1] = f[n] \o ss[n + 1] /\ \A i \in 1..n : g[i] = f[i]
    <3>1. n + 1 \in 1..(n + 1) /\ \A i \in 1..n : i \in 1..(n + 1) /\ i # n + 1
      BY <2>2
    <3> QED BY <3>1
  <2> HIDE DEF g
  <2>6. ASSUME NEW i \in 1..(n + 1), i > 1 PROVE g[i] = g[i - 1] \o ss[i]
    <3>1. CASE i = n + 1
      <4>1. i - 1 = n /\ n \in 1..n
        BY <2>2, <3>1
      <4> QED BY <2>5, <3>1, <4>1
    <3>2. CASE i # n + 1
      <4>1. i \in 1..n /\ i - 1 \in 1..n
        BY <2>6, <2>2, <3>2
      <4> QED BY <2>1, <2>6, <2>5, <4>1
    <3> QED BY <3>1, <3>2
  <2>7. Rec(g, n + 1)
    <3> HIDE DEF g
    <3> QED BY <2>4, <2>6
  <2> HIDE DEF g, Rec
  <2> QED BY <2>7, <2>2
<1>4. N \in Q
  <2> HIDE DEF Q
  <2>1. 1..N \subseteq Q
    BY <1>1, <1>2, <1>3, Climb
  <2> QED BY <1>1, <2>1, SMTT(30)
<1>5. PICK f : Rec(f, N)
  BY <1>4
<1> DEFINE body(g) == [i \in 1..N |-> IF i = 1 THEN ss[i] ELSE g[i - 1] \o ss[i]]
           h == CHOOSE g : g = body(g)
<1>6. f = body(f)
  <2>1. ASSUME NEW i \in 1..N PROVE f[i] = IF i = 1 THEN ss[i] ELSE f[i - 1] \o ss[i]
    <3>1. CASE i = 1
      BY <1>5, <3>1
    <3>2. CASE i # 1
      <4>1. i > 1
        BY <1>1, <3>2
      <4> QED BY <1>5, <3>2, <4>1
    <3> QED BY <3>1, <3>2
  <2>2. f = [i \in 1..N |-> f[i]]
    BY <1>5
  <2> QED BY <2>1, <2>2
<1>7. h = body(h)
  <2> HIDE DEF body
  <2> QED BY <1>6
<1>8. FlattenSeq(ss) = h[N]
  BY DEF FlattenSeq
<1> DEFINE E == {i \in Nat : h[i] = f[i]}
<1>9. 1 \in E /\ \A i \in 1..N : i \in E /\ i < N => i + 1 \in E
  <2> HIDE DEF h
  <2>1. h[1] = ss[1] /\ f[1] = ss[1]
    BY <1>1, <1>5, <1>7
  <2>2. ASSUME NEW i \in 1..N, i < N PROVE h[i + 1] = h[i] \o ss[i + 1] /\ f[i + 1] = f[i] \o ss[i + 1]
    <3>1. i + 1 \in 1..N /\ i + 1 > 1 /\ (i + 1) - 1 = i /\ i + 1 # 1
      BY <1>1, <2>2
    <3> QED BY <3>1, <1>5, <1>7
  <2>3. 1 \in Nat /\ \A i \in 1..N : i + 1 \in Nat
    BY <1>1
  <2> HIDE DEF N
  <2> QED BY <2>1, <2>2, <2>3
<1>10. h[N] = f[N]
  <2>1. 1..N \subseteq E
    <3> HIDE DEF E
    <3> QED BY <1>1, <1>9, Climb
  <2>2. N \in E
    <3>1. N \in 1..N
      BY <1>1
    <3> QED BY <2>1, <3>1
  <2> HIDE DEF h
  <2> QED BY <2>2
<1> QED BY <1>5, <1>8, <1>10

(* Where the elements of ss[i] are: after those of all earlier ones, in order. *)
Places(ss, G, off) ==
    /\ off \in [1..Len(ss) -> Nat]
    /\ \A i \in 1..Len(ss) : \A k \in 1..Len(ss[i]) :
          off[i] + k \in 1..Len(G) /\ G[off[i] + k] = ss[i][k]
    /\ \A p \in 1..Len(G) : \E i \in 1..Len(ss) : \E k \in 1..Len(ss[i]) : p = off[i] + k
    /\ \A i, j \in 1..Len(ss) : i < j => off[i] + Len(ss[i]) <= off[j]

(* Each element of the result is an element of one part, in its order. *)
LEMMA FlattenPlaces ==
    ASSUME NEW S, NEW ss \in Seq(Seq(S))
    PROVE  FlattenSeq(ss) \in Seq(S) /\ \E off : Places(ss, FlattenSeq(ss), off)
<1> DEFINE N == Len(ss)
           G == FlattenSeq(ss)
<1>1. CASE N = 0
  <2>1. G = << >> /\ ss = << >>
    BY <1>1 DEF FlattenSeq
  <2>2. Places(ss, G, [i \in 1..0 |-> 0])
    <3> HIDE DEF G
    <3> QED BY <2>1 DEF Places
  <2> QED BY <2>1, <2>2
<1>2. CASE N # 0
  <2>1. PICK f \in [1..N -> Seq(S)] :
           /\ f[1] = ss[1]
           /\ \A i \in 1..N : i > 1 => f[i] = f[i - 1] \o ss[i]
           /\ G = f[N]
    BY <1>2, FlattenDef
  <2>2. N \in Nat /\ N >= 1 /\ \A i \in 1..N : ss[i] \in Seq(S) /\ Len(ss[i]) \in Nat
    BY <1>2
  <2> DEFINE off == [i \in 1..N |-> IF i = 1 THEN 0 ELSE Len(f[i - 1])]
             In(n) == \A i \in 1..n : off[i] \in Nat /\ off[i] + Len(ss[i]) <= Len(f[n])
             At(n) == \A i \in 1..n : \A k \in 1..Len(ss[i]) : f[n][off[i] + k] = ss[i][k]
             All(n) == \A p \in 1..Len(f[n]) : \E i \in 1..n : \E k \in 1..Len(ss[i]) : p = off[i] + k
             Q == {n \in Nat : In(n) /\ At(n) /\ All(n)}
  <2>3. off[1] = 0 /\ \A i \in 1..N : off[i] \in Nat /\ (i < N => off[i + 1] = Len(f[i]))
    <3>1. off[1] = 0
      BY <2>2
    <3>2. ASSUME NEW i \in 1..N, i # 1 PROVE off[i] = Len(f[i - 1]) /\ Len(f[i - 1]) \in Nat
      <4>1. i - 1 \in 1..N
        BY <2>2, <3>2
      <4> QED BY <3>2, <4>1
    <3>3. ASSUME NEW i \in 1..N, i < N PROVE off[i + 1] = Len(f[i])
      <4>1. i + 1 \in 1..N /\ i + 1 # 1 /\ (i + 1) - 1 = i
        BY <2>2, <3>3
      <4> QED BY <3>2, <4>1
    <3> HIDE DEF off
    <3> QED BY <3>1, <3>2, <3>3
  <2> HIDE DEF off, N, G
  <2>4. 1 \in Q
    <3>1. 1..1 = {1} /\ f[1] = ss[1] /\ 1 \in 1..N
      BY <2>1, <2>2
    <3>2. Len(ss[1]) \in Nat
      BY <3>1, <2>2
    <3> QED BY <2>3, <3>1, <3>2
  <2>5. ASSUME NEW n \in 1..N, n \in Q, n < N PROVE n + 1 \in Q
    <3>1. n \in Nat /\ n + 1 \in 1..N /\ n + 1 > 1 /\ (n + 1) - 1 = n /\ n + 1 \in Nat
      BY <2>2, <2>5
    <3>2. f[n + 1] = f[n] \o ss[n + 1] /\ off[n + 1] = Len(f[n])
      BY <2>1, <2>3, <2>5, <3>1
    <3>3. f[n] \in Seq(S) /\ ss[n + 1] \in Seq(S)
      BY <2>1, <2>2, <3>1
    <3>4. /\ Len(f[n + 1]) = Len(f[n]) + Len(ss[n + 1])
          /\ \A p \in 1..Len(f[n]) : f[n + 1][p] = f[n][p]
          /\ \A k \in 1..Len(ss[n + 1]) : f[n + 1][Len(f[n]) + k] = ss[n + 1][k]
          /\ Len(f[n]) \in Nat /\ Len(ss[n + 1]) \in Nat
      BY <3>2, <3>3
    <3>5. \A i \in 1..(n + 1) : i = n + 1 \/ i \in 1..n
      BY <3>1
    <3>6. In(n) /\ At(n) /\ All(n)
      BY <2>5
    <3>7. \A i \in 1..n : i \in 1..N /\ i \in 1..(n + 1)
      BY <2>2, <3>1
    <3>8. In(n + 1)
      <4> SUFFICES ASSUME NEW i \in 1..(n + 1)
                   PROVE  off[i] \in Nat /\ off[i] + Len(ss[i]) <= Len(f[n + 1])
        OBVIOUS
      <4>1. CASE i = n + 1
        BY <3>2, <3>4, <4>1
      <4>2. CASE i \in 1..n
        <5>1. off[i] \in Nat /\ off[i] + Len(ss[i]) <= Len(f[n]) /\ Len(ss[i]) \in Nat
          BY <2>2, <3>6, <3>7, <4>2
        <5> QED BY <3>4, <5>1, SMTT(30)
      <4> QED BY <3>5, <4>1, <4>2
    <3>9. At(n + 1)
      <4> SUFFICES ASSUME NEW i \in 1..(n + 1), NEW k \in 1..Len(ss[i])
                   PROVE  f[n + 1][off[i] + k] = ss[i][k]
        OBVIOUS
      <4>1. CASE i = n + 1
        BY <3>2, <3>4, <4>1
      <4>2. CASE i \in 1..n
        <5>1. off[i] \in Nat /\ off[i] + Len(ss[i]) <= Len(f[n]) /\ Len(ss[i]) \in Nat
          BY <2>2, <3>6, <3>7, <4>2
        <5>2. off[i] + k \in 1..Len(f[n])
          <6>1. k \in Nat /\ k >= 1 /\ k <= Len(ss[i]) /\ Len(f[n]) \in Nat
            BY <3>4, <5>1
          <6> HIDE DEF At
          <6> QED BY <5>1, <6>1
        <5> QED BY <3>4, <3>6, <4>2, <5>2
      <4> QED BY <3>5, <4>1, <4>2
    <3>10. All(n + 1)
      <4> SUFFICES ASSUME NEW p \in 1..Len(f[n + 1])
                   PROVE  \E i \in 1..(n + 1) : \E k \in 1..Len(ss[i]) : p = off[i] + k
        OBVIOUS
      <4>1. CASE p \in 1..Len(f[n])
        BY <3>6, <3>7, <4>1
      <4>2. CASE p \notin 1..Len(f[n])
        <5>1. p - Len(f[n]) \in 1..Len(ss[n + 1]) /\ p = off[n + 1] + (p - Len(f[n]))
          BY <3>2, <3>4, <4>2
        <5>2. n + 1 \in 1..(n + 1)
          BY <3>1
        <5> QED BY <5>1, <5>2
      <4> QED BY <4>1, <4>2
    <3> HIDE DEF In, At, All
    <3> QED BY <3>1, <3>8, <3>9, <3>10
  <2>6. 1..N \subseteq Q
    <3> HIDE DEF Q
    <3> QED BY <2>2, <2>4, <2>5, Climb
  <2>7. N \in 1..N
    BY <2>2
  <2>8. In(N) /\ At(N) /\ All(N) /\ G = f[N] /\ Len(G) \in Nat
    <3>1. N \in Q /\ f[N] \in Seq(S)
      BY <2>1, <2>6, <2>7
    <3>2. In(N) /\ At(N) /\ All(N)
      <4> HIDE DEF In, At, All
      <4> QED BY <3>1
    <3> HIDE DEF In, At, All, Q
    <3> QED BY <2>1, <3>1, <3>2
  <2>9. \A i, j \in 1..N : i < j => off[i] + Len(ss[i]) <= off[j]
    <3> SUFFICES ASSUME NEW i \in 1..N, NEW j \in 1..N, i < j
                 PROVE  off[i] + Len(ss[i]) <= off[j]
      OBVIOUS
    <3>1. j - 1 \in 1..N /\ i \in 1..(j - 1) /\ j - 1 < N /\ (j - 1) + 1 = j
      BY <2>2
    <3>2. off[j] = Len(f[j - 1])
      BY <2>3, <3>1
    <3>3. In(j - 1)
      BY <2>6, <3>1
    <3> QED BY <3>1, <3>2, <3>3
  <2>10. \A i \in 1..N : \A k \in 1..Len(ss[i]) : off[i] + k \in 1..Len(G) /\ G[off[i] + k] = ss[i][k]
    <3> SUFFICES ASSUME NEW i \in 1..N, NEW k \in 1..Len(ss[i])
                 PROVE  off[i] + k \in 1..Len(G) /\ G[off[i] + k] = ss[i][k]
      OBVIOUS
    <3>1. off[i] \in Nat /\ off[i] + Len(ss[i]) <= Len(G) /\ Len(ss[i]) \in Nat
      BY <2>2, <2>8
    <3>2. G[off[i] + k] = ss[i][k]
      BY <2>8
    <3> QED BY <2>8, <3>1, <3>2, SMTT(30)
  <2>11. Places(ss, G, off)
    <3>1. off \in [1..N -> Nat]
      BY <2>3 DEF off
    <3> QED BY <2>8, <2>9, <2>10, <3>1 DEF Places, N
  <2>12. G \in Seq(S)
    BY <2>1, <2>7
  <2> QED BY <2>11, <2>12 DEF G
<1> QED BY <1>1, <1>2

(* The elements of the result are those of the parts. *)
LEMMA FlattenMembers ==
    ASSUME NEW S, NEW ss \in Seq(Seq(S))
    PROVE  /\ FlattenSeq(ss) \in Seq(S)
           /\ \A x : x \in ToSet(FlattenSeq(ss)) <=> \E i \in 1..Len(ss) : x \in ToSet(ss[i])
<1>1. PICK off : FlattenSeq(ss) \in Seq(S) /\ Places(ss, FlattenSeq(ss), off)
  BY FlattenPlaces
<1> DEFINE G == FlattenSeq(ss)
<1>2. G \in Seq(S) /\ Places(ss, G, off)
  BY <1>1
<1> HIDE DEF G
<1>3. DOMAIN G = 1..Len(G) /\ \A i \in 1..Len(ss) : DOMAIN ss[i] = 1..Len(ss[i])
  BY <1>2
<1>4. ASSUME NEW p \in 1..Len(G) PROVE \E i \in 1..Len(ss) : G[p] \in ToSet(ss[i])
  <2>1. PICK i \in 1..Len(ss) : \E k \in 1..Len(ss[i]) : p = off[i] + k
    BY <1>2 DEF Places
  <2>2. PICK k \in 1..Len(ss[i]) : p = off[i] + k
    BY <2>1
  <2>3. G[p] = ss[i][k]
    BY <1>2, <2>2 DEF Places
  <2> QED BY <1>3, <2>2, <2>3 DEF ToSet
<1>5. ASSUME NEW i \in 1..Len(ss), NEW k \in 1..Len(ss[i]) PROVE ss[i][k] \in ToSet(G)
  BY <1>2, <1>3 DEF Places, ToSet
<1>6. \A x : x \in ToSet(G) => \E i \in 1..Len(ss) : x \in ToSet(ss[i])
  BY <1>3, <1>4 DEF ToSet
<1>7. ASSUME NEW i \in 1..Len(ss) PROVE ToSet(ss[i]) \subseteq ToSet(G)
  BY <1>3, <1>5 DEF ToSet
<1> QED BY <1>2, <1>6, <1>7 DEF G

(* A single part is the result. *)
LEMMA FlattenOne ==
    ASSUME NEW S, NEW s \in Seq(S)
    PROVE  FlattenSeq(<<s>>) = s
<1>1. <<s>> \in Seq(Seq(S)) /\ Len(<<s>>) = 1 /\ <<s>>[1] = s
  OBVIOUS
<1>2. PICK f \in [1..Len(<<s>>) -> Seq(S)] :
         f[1] = <<s>>[1] /\ FlattenSeq(<<s>>) = f[Len(<<s>>)]
  <2>1. Len(<<s>>) # 0
    OBVIOUS
  <2> QED BY <1>1, <2>1, FlattenDef
<1> QED BY <1>1, <1>2

(* The elements of a concatenation. *)
LEMMA ConcatSet ==
    ASSUME NEW S, NEW a \in Seq(S), NEW b \in Seq(S)
    PROVE  a \o b \in Seq(S) /\ ToSet(a \o b) = ToSet(a) \cup ToSet(b)
<1>1. /\ a \o b \in Seq(S) /\ Len(a \o b) = Len(a) + Len(b)
      /\ Len(a) \in Nat /\ Len(b) \in Nat
      /\ \A i \in 1..Len(a) : (a \o b)[i] = a[i]
      /\ \A i \in 1..Len(b) : (a \o b)[Len(a) + i] = b[i]
  OBVIOUS
<1>2. DOMAIN (a \o b) = 1..Len(a) + Len(b) /\ DOMAIN a = 1..Len(a) /\ DOMAIN b = 1..Len(b)
  BY <1>1
<1>3. ASSUME NEW i \in 1..Len(a) + Len(b) PROVE (a \o b)[i] \in ToSet(a) \cup ToSet(b)
  <2>1. CASE i <= Len(a)
    <3>1. i \in 1..Len(a)
      BY <1>1, <2>1
    <3> QED BY <1>1, <1>2, <3>1 DEF ToSet
  <2>2. CASE i > Len(a)
    <3>1. i - Len(a) \in 1..Len(b) /\ i = Len(a) + (i - Len(a))
      BY <1>1, <2>2
    <3>2. (a \o b)[i] = b[i - Len(a)]
      BY <1>1, <3>1
    <3> QED BY <1>2, <3>1, <3>2 DEF ToSet
  <2> QED BY <1>1, <2>1, <2>2
<1>4. \A i \in 1..Len(a) : i \in DOMAIN (a \o b)
  BY <1>1, <1>2
<1>5. \A i \in 1..Len(b) : Len(a) + i \in DOMAIN (a \o b)
  BY <1>1, <1>2
<1>6. ToSet(a) \subseteq ToSet(a \o b)
  BY <1>1, <1>2, <1>4 DEF ToSet
<1>7. ToSet(b) \subseteq ToSet(a \o b)
  BY <1>1, <1>2, <1>5 DEF ToSet
<1>8. ToSet(a \o b) \subseteq ToSet(a) \cup ToSet(b)
  BY <1>2, <1>3 DEF ToSet
<1> QED BY <1>1, <1>6, <1>7, <1>8

(* push_unique adds an element. *)
LEMMA PushUnique ==
    ASSUME NEW S, NEW a \in Seq(S), NEW x \in S
    PROVE  push_unique(a, x) \in Seq(S) /\ ToSet(push_unique(a, x)) = ToSet(a) \cup {x}
<1>1. CASE x \in ToSet(a)
  BY <1>1 DEF push_unique
<1>2. CASE x \notin ToSet(a)
  <2>1. Append(a, x) = a \o <<x>> /\ <<x>> \in Seq(S)
    OBVIOUS
  <2>2. ToSet(<<x>>) = {x}
    <3>1. DOMAIN <<x>> = {1} /\ <<x>>[1] = x
      OBVIOUS
    <3> QED BY <3>1 DEF ToSet
  <2>3. push_unique(a, x) = a \o <<x>>
    BY <1>2, <2>1 DEF push_unique
  <2>4. a \o <<x>> \in Seq(S) /\ ToSet(a \o <<x>>) = ToSet(a) \cup ToSet(<<x>>)
    BY <2>1, ConcatSet
  <2> QED BY <2>2, <2>3, <2>4
<1> QED BY <1>1, <1>2

(* Duplicates are dropped, and nothing else. *)
LEMMA UniqueSet ==
    ASSUME NEW S, NEW s \in Seq(S)
    PROVE  Unique(s) \in Seq(S) /\ ToSet(Unique(s)) = ToSet(s)
<1> DEFINE N == Len(s)
           body(g) == [n \in 0..N |-> IF n = 0 THEN <<>> ELSE push_unique(g[n - 1], s[n])]
           Rec(f, n) == /\ f \in [0..n -> Seq(S)] /\ f[0] = << >>
                        /\ \A i \in 1..n : f[i] = push_unique(f[i - 1], s[i])
           Q == {n \in Nat : \E f : Rec(f, n)}
<1>1. N \in Nat /\ DOMAIN s = 1..N /\ \A i \in 1..N : s[i] \in S
  OBVIOUS
<1>2. 0 \in Q
  <2>1. Rec([i \in 0..0 |-> << >>], 0)
    OBVIOUS
  <2> QED BY <2>1
<1> HIDE DEF N
<1>3. ASSUME NEW n \in 0..N, n \in Q, n < N PROVE n + 1 \in Q
  <2>1. PICK f : Rec(f, n)
    BY <1>3
  <2>2. n \in Nat /\ n + 1 \in Nat /\ n + 1 \in 1..N /\ n \in 0..n
    BY <1>1, <1>3
  <2> DEFINE g == [i \in 0..(n + 1) |-> IF i = n + 1 THEN push_unique(f[n], s[n + 1]) ELSE f[i]]
  <2>3. push_unique(f[n], s[n + 1]) \in Seq(S)
    <3>1. f[n] \in Seq(S) /\ s[n + 1] \in S
      BY <1>1, <2>1, <2>2
    <3> QED BY <3>1, PushUnique
  <2>4. /\ g \in [0..(n + 1) -> Seq(S)] /\ g[n + 1] = push_unique(f[n], s[n + 1])
        /\ \A i \in 0..n : g[i] = f[i]
    <3>1. n + 1 \in 0..(n + 1) /\ \A i \in 0..n : i \in 0..(n + 1) /\ i # n + 1
      BY <2>2
    <3>2. \A i \in 0..(n + 1) : i = n + 1 \/ i \in 0..n
      BY <2>2
    <3> QED BY <2>1, <2>3, <3>1, <3>2
  <2> HIDE DEF g
  <2>5. ASSUME NEW i \in 1..(n + 1) PROVE g[i] = push_unique(g[i - 1], s[i])
    <3>1. CASE i = n + 1
      <4>1. i - 1 = n /\ n \in 0..n
        BY <2>2, <3>1
      <4> QED BY <2>4, <3>1, <4>1
    <3>2. CASE i # n + 1
      <4>1. i \in 1..n /\ i \in 0..n /\ i - 1 \in 0..n
        BY <2>2, <3>2
      <4> QED BY <2>1, <2>4, <4>1
    <3> QED BY <3>1, <3>2
  <2>6. g[0] = << >>
    <3>1. 0 \in 0..n
      BY <2>2
    <3> QED BY <2>1, <2>4, <3>1
  <2>7. Rec(g, n + 1)
    BY <2>4, <2>5, <2>6
  <2> HIDE DEF Rec
  <2> QED BY <2>2, <2>7
<1>4. N \in Q
  <2>1. 0..N \subseteq Q
    <3> HIDE DEF Q
    <3> QED BY <1>1, <1>2, <1>3, Climb
  <2>2. N \in 0..N
    BY <1>1
  <2> QED BY <2>1, <2>2
<1>5. PICK f : Rec(f, N)
  BY <1>4
<1> DEFINE h == CHOOSE g : g = body(g)
<1>6. f = body(f)
  <2>1. ASSUME NEW i \in 0..N PROVE f[i] = IF i = 0 THEN << >> ELSE push_unique(f[i - 1], s[i])
    <3>1. i = 0 \/ i \in 1..N
      BY <1>1
    <3> QED BY <1>5, <3>1
  <2>2. f = [i \in 0..N |-> f[i]]
    BY <1>5
  <2> QED BY <2>1, <2>2
<1>7. h = body(h)
  <2> HIDE DEF body
  <2> QED BY <1>6
<1>8. Unique(s) = h[N]
  BY DEF Unique, N
<1> HIDE DEF h
<1>9. h[0] = << >> /\ \A i \in 0..N : i < N => h[i + 1] = push_unique(h[i], s[i + 1])
  <2>1. 0 \in 0..N
    BY <1>1
  <2>2. \A i \in 0..N : i < N => i + 1 \in 0..N /\ i + 1 # 0 /\ (i + 1) - 1 = i
    BY <1>1
  <2> QED BY <1>7, <2>1, <2>2
<1> DEFINE F(n) == {s[i] : i \in 1..n}
           E == {n \in Nat : h[n] \in Seq(S) /\ ToSet(h[n]) = F(n)}
<1>10. 0 \in E
  <2>1. 1..0 = {} /\ DOMAIN << >> = {}
    OBVIOUS
  <2>2. ToSet(<< >>) = {} /\ F(0) = {}
    BY <2>1 DEF ToSet
  <2>3. h[0] \in Seq(S) /\ ToSet(h[0]) = F(0)
    <3> DEFINE e == << >>
    <3>1. e \in Seq(S) /\ ToSet(e) = F(0) /\ h[0] = e
      BY <1>9, <2>2
    <3> HIDE DEF F, e
    <3> QED BY <3>1
  <2> HIDE DEF F
  <2> QED BY <2>3
<1>11. ASSUME NEW n \in 0..N, n \in E, n < N PROVE n + 1 \in E
  <2>1. n \in Nat /\ n + 1 \in Nat /\ n + 1 \in 1..N /\ 1..(n + 1) = (1..n) \cup {n + 1}
    BY <1>1, <1>11
  <2>2. h[n + 1] = push_unique(h[n], s[n + 1]) /\ s[n + 1] \in S
    BY <1>1, <1>9, <1>11, <2>1
  <2>3. F(n + 1) = F(n) \cup {s[n + 1]}
    BY <2>1
  <2> HIDE DEF F
  <2>4. h[n] \in Seq(S) /\ ToSet(h[n]) = F(n)
    BY <1>11
  <2>5. /\ push_unique(h[n], s[n + 1]) \in Seq(S)
        /\ ToSet(push_unique(h[n], s[n + 1])) = ToSet(h[n]) \cup {s[n + 1]}
    <3> DEFINE a == h[n]
               x == s[n + 1]
    <3>1. a \in Seq(S) /\ x \in S
      BY <2>2, <2>4
    <3> HIDE DEF E, a, x
    <3>2. push_unique(a, x) \in Seq(S) /\ ToSet(push_unique(a, x)) = ToSet(a) \cup {x}
      BY <3>1, PushUnique
    <3> QED BY <3>2 DEF a, x
  <2> QED BY <2>1, <2>2, <2>3, <2>4, <2>5
<1>12. N \in E
  <2>1. 0..N \subseteq E
    <3> HIDE DEF E
    <3> QED BY <1>1, <1>10, <1>11, Climb
  <2>2. N \in 0..N
    BY <1>1
  <2> QED BY <2>1, <2>2
<1> QED BY <1>1, <1>8, <1>12 DEF ToSet

-----------------------------------------------------------------------------
(* Orders in a list of statements: pairs that do not come one after the other,
   and elements that call for another one after them.                        *)

Avoids(L, bad)  == \A p, q \in 1..Len(L) : p < q => <<L[p], L[q]>> \notin bad
Follows(L, rel) == \A p \in 1..Len(L) : \A y :
                      <<L[p], y>> \in rel => \E q \in 1..Len(L) : q > p /\ L[q] = y
(* What is in A has something of B before it. *)
Preceded(L, A, B) == \A p \in 1..Len(L) : L[p] \in A => \E q \in 1..Len(L) : q < p /\ L[q] \in B

LEMMA FlattenAvoids ==
    ASSUME NEW S, NEW ss \in Seq(Seq(S)), NEW bad,
           \A i \in 1..Len(ss) : Avoids(ss[i], bad),
           \A i, j \in 1..Len(ss) : i < j =>
               \A x \in ToSet(ss[i]), y \in ToSet(ss[j]) : <<x, y>> \notin bad
    PROVE  Avoids(FlattenSeq(ss), bad)
<1>1. PICK off : FlattenSeq(ss) \in Seq(S) /\ Places(ss, FlattenSeq(ss), off)
  BY FlattenPlaces
<1> DEFINE G == FlattenSeq(ss)
           N == Len(ss)
<1>2. G \in Seq(S) /\ Places(ss, G, off)
  BY <1>1
<1> HIDE DEF G
<1>3. \A i \in 1..N : ss[i] \in Seq(S) /\ DOMAIN ss[i] = 1..Len(ss[i]) /\ Len(ss[i]) \in Nat
  OBVIOUS
<1>4. SUFFICES ASSUME NEW p \in 1..Len(G), NEW q \in 1..Len(G), p < q, <<G[p], G[q]>> \in bad
               PROVE  FALSE
  BY DEF Avoids, G
<1>5. PICK i \in 1..N : \E k \in 1..Len(ss[i]) : p = off[i] + k
  BY <1>2 DEF Places
<1>6. PICK k \in 1..Len(ss[i]) : p = off[i] + k
  BY <1>5
<1>7. PICK j \in 1..N : \E k2 \in 1..Len(ss[j]) : q = off[j] + k2
  BY <1>2 DEF Places
<1>8. PICK l \in 1..Len(ss[j]) : q = off[j] + l
  BY <1>7
<1>9. G[p] = ss[i][k] /\ G[q] = ss[j][l]
  BY <1>2, <1>6, <1>8 DEF Places
<1>10. off[i] \in Nat /\ off[j] \in Nat /\ Len(ss[i]) \in Nat /\ Len(ss[j]) \in Nat
  BY <1>2, <1>3 DEF Places
<1>11. ASSUME i < j PROVE FALSE
  <2>1. ss[i][k] \in ToSet(ss[i]) /\ ss[j][l] \in ToSet(ss[j])
    BY <1>3 DEF ToSet
  <2> QED BY <1>4, <1>9, <1>11, <2>1
<1>12. ASSUME j < i PROVE FALSE
  <2>1. off[j] + Len(ss[j]) <= off[i]
    BY <1>2, <1>12 DEF Places
  <2>2. k \in Nat /\ k >= 1 /\ l \in Nat /\ l <= Len(ss[j])
    BY <1>10
  <2>3. PICK a \in Nat, b \in Nat, n \in Nat : a = off[i] /\ b = off[j] /\ n = Len(ss[j])
    BY <1>10
  <2>4. p = a + k /\ q = b + l /\ b + n <= a /\ l <= n
    BY <1>6, <1>8, <2>1, <2>2, <2>3
  <2>5. p < q
    BY <1>4
  <2> QED BY <2>2, <2>4, <2>5
<1>13. ASSUME i = j PROVE FALSE
  <2>1. k < l /\ l \in 1..Len(ss[i])
    BY <1>4, <1>6, <1>8, <1>10, <1>13, SMTT(30)
  <2> QED BY <1>4, <1>9, <1>13, <2>1 DEF Avoids
<1> QED BY <1>11, <1>12, <1>13

LEMMA FlattenFollows ==
    ASSUME NEW S, NEW ss \in Seq(Seq(S)), NEW rel, \A i \in 1..Len(ss) : Follows(ss[i], rel)
    PROVE  Follows(FlattenSeq(ss), rel)
<1>1. PICK off : FlattenSeq(ss) \in Seq(S) /\ Places(ss, FlattenSeq(ss), off)
  BY FlattenPlaces
<1> DEFINE G == FlattenSeq(ss)
           N == Len(ss)
<1>2. G \in Seq(S) /\ Places(ss, G, off)
  BY <1>1
<1> HIDE DEF G
<1>3. SUFFICES ASSUME NEW p \in 1..Len(G), NEW y, <<G[p], y>> \in rel
               PROVE  \E q \in 1..Len(G) : q > p /\ G[q] = y
  BY DEF Follows, G
<1>4. PICK i \in 1..N : \E k \in 1..Len(ss[i]) : p = off[i] + k
  BY <1>2 DEF Places
<1>5. PICK k \in 1..Len(ss[i]) : p = off[i] + k
  BY <1>4
<1>6. G[p] = ss[i][k]
  BY <1>2, <1>5 DEF Places
<1>7. PICK l \in 1..Len(ss[i]) : l > k /\ ss[i][l] = y
  BY <1>3, <1>6 DEF Follows
<1>8. off[i] + l \in 1..Len(G) /\ G[off[i] + l] = y
  BY <1>2, <1>7 DEF Places
<1>9. off[i] + l > p
  <2>1. off[i] \in Nat
    BY <1>2 DEF Places
  <2>2. k \in Nat /\ l \in Nat
    OBVIOUS
  <2> QED BY <1>5, <1>7, <2>1, <2>2
<1> QED BY <1>8, <1>9

LEMMA FlattenPreceded ==
    ASSUME NEW S, NEW ss \in Seq(Seq(S)), NEW A, NEW B, \A i \in 1..Len(ss) : Preceded(ss[i], A, B)
    PROVE  Preceded(FlattenSeq(ss), A, B)
<1>1. PICK off : FlattenSeq(ss) \in Seq(S) /\ Places(ss, FlattenSeq(ss), off)
  BY FlattenPlaces
<1> DEFINE G == FlattenSeq(ss)
           N == Len(ss)
<1>2. G \in Seq(S) /\ Places(ss, G, off)
  BY <1>1
<1> HIDE DEF G
<1>3. SUFFICES ASSUME NEW p \in 1..Len(G), G[p] \in A
               PROVE  \E q \in 1..Len(G) : q < p /\ G[q] \in B
  BY DEF Preceded, G
<1>4. PICK i \in 1..N : \E k \in 1..Len(ss[i]) : p = off[i] + k
  BY <1>2 DEF Places
<1>5. PICK k \in 1..Len(ss[i]) : p = off[i] + k
  BY <1>4
<1>6. G[p] = ss[i][k]
  BY <1>2, <1>5 DEF Places
<1>7. PICK l \in 1..Len(ss[i]) : l < k /\ ss[i][l] \in B
  BY <1>3, <1>6 DEF Preceded
<1>8. off[i] + l \in 1..Len(G) /\ G[off[i] + l] \in B
  BY <1>2, <1>7 DEF Places
<1>9. off[i] + l < p
  <2>1. off[i] \in Nat
    BY <1>2 DEF Places
  <2>2. k \in Nat /\ l \in Nat
    OBVIOUS
  <2> QED BY <1>5, <1>7, <2>1, <2>2
<1> QED BY <1>8, <1>9

(* What is left after the first statement. *)
LEMMA TailFacts ==
    ASSUME NEW S, NEW L \in Seq(S), L # << >>
    PROVE  /\ Tail(L) \in Seq(S) /\ Head(L) \in ToSet(L) /\ Head(L) = L[1] /\ Head(L) \in S
           /\ \A x : x \in ToSet(L) <=> x = Head(L) \/ x \in ToSet(Tail(L))
           /\ \A p \in 1..Len(Tail(L)) : p + 1 \in 1..Len(L) /\ Tail(L)[p] = L[p + 1]
           /\ \A p \in 1..Len(L) : p = 1 \/ p - 1 \in 1..Len(Tail(L))
<1> DEFINE T == Tail(L)
<1>1. /\ T \in Seq(S) /\ Head(L) = L[1] /\ Len(L) \in Nat /\ 1 \in 1..Len(L) /\ Len(T) = Len(L) - 1
      /\ DOMAIN L = 1..Len(L) /\ DOMAIN T = 1..Len(T)
      /\ \A p \in 1..Len(T) : p + 1 \in 1..Len(L) /\ T[p] = L[p + 1]
  OBVIOUS
<1> HIDE DEF T
<1>2. \A p \in 1..Len(L) : p = 1 \/ (p - 1 \in 1..Len(T) /\ (p - 1) + 1 = p)
  BY <1>1
<1>3. \A p \in 1..Len(T) : T[p] \in ToSet(L)
  BY <1>1 DEF ToSet
<1>4. ASSUME NEW p \in 1..Len(L) PROVE L[p] = Head(L) \/ L[p] \in ToSet(T)
  <2>1. CASE p = 1
    BY <1>1, <2>1
  <2>2. CASE p # 1
    <3>1. p - 1 \in 1..Len(T) /\ (p - 1) + 1 = p
      BY <1>2, <2>2
    <3>2. L[p] = T[p - 1]
      BY <1>1, <3>1
    <3> QED BY <1>1, <3>1, <3>2 DEF ToSet
  <2> QED BY <2>1, <2>2
<1>5. \A x \in ToSet(L) : x = Head(L) \/ x \in ToSet(T)
  BY <1>1, <1>4 DEF ToSet
<1>6. \A x \in ToSet(T) : x \in ToSet(L)
  BY <1>1, <1>3 DEF ToSet
<1>7. Head(L) \in ToSet(L) /\ Head(L) \in S
  BY <1>1 DEF ToSet
<1> QED BY <1>1, <1>2, <1>5, <1>6, <1>7 DEF T

LEMMA TailAvoids ==
    ASSUME NEW S, NEW L \in Seq(S), L # << >>, NEW bad, Avoids(L, bad)
    PROVE  Avoids(Tail(L), bad) /\ \A y \in ToSet(Tail(L)) : <<Head(L), y>> \notin bad
<1> DEFINE T == Tail(L)
<1>1. /\ T \in Seq(S) /\ Head(L) = L[1]
      /\ \A p \in 1..Len(T) : p + 1 \in 1..Len(L) /\ T[p] = L[p + 1]
  BY TailFacts
<1> HIDE DEF T
<1>2. DOMAIN T = 1..Len(T) /\ Len(T) \in Nat /\ 1 \in 1..Len(L)
  <2>1. 1 \in 1..Len(L)
    OBVIOUS
  <2> QED BY <1>1, <2>1
<1>3. Avoids(T, bad)
  <2>1. SUFFICES ASSUME NEW p \in 1..Len(T), NEW q \in 1..Len(T), p < q PROVE <<T[p], T[q]>> \notin bad
    BY DEF Avoids
  <2>2. p + 1 \in 1..Len(L) /\ q + 1 \in 1..Len(L) /\ p + 1 < q + 1
    BY <1>1, <1>2, <2>1
  <2> QED BY <1>1, <2>2 DEF Avoids
<1>4. ASSUME NEW q \in 1..Len(T) PROVE <<Head(L), T[q]>> \notin bad
  <2>1. q + 1 \in 1..Len(L) /\ 1 < q + 1
    BY <1>1, <1>2
  <2> QED BY <1>1, <1>2, <2>1 DEF Avoids
<1> QED BY <1>2, <1>3, <1>4 DEF T, ToSet

LEMMA TailFollows ==
    ASSUME NEW S, NEW L \in Seq(S), L # << >>, NEW rel, Follows(L, rel)
    PROVE  /\ Follows(Tail(L), rel)
           /\ \A y : <<Head(L), y>> \in rel => y \in ToSet(Tail(L))
<1> DEFINE T == Tail(L)
<1>1. /\ T \in Seq(S) /\ Head(L) = L[1]
      /\ \A p \in 1..Len(T) : p + 1 \in 1..Len(L) /\ T[p] = L[p + 1]
      /\ \A p \in 1..Len(L) : p = 1 \/ p - 1 \in 1..Len(T)
  BY TailFacts
<1> HIDE DEF T
<1>2. DOMAIN T = 1..Len(T) /\ Len(T) \in Nat /\ 1 \in 1..Len(L) /\ Len(L) \in Nat
  <2>1. 1 \in 1..Len(L) /\ Len(L) \in Nat
    OBVIOUS
  <2> QED BY <1>1, <2>1
<1>3. Follows(T, rel)
  <2>1. SUFFICES ASSUME NEW p \in 1..Len(T), NEW y, <<T[p], y>> \in rel
                 PROVE  \E q \in 1..Len(T) : q > p /\ T[q] = y
    BY DEF Follows
  <2>2. p + 1 \in 1..Len(L) /\ T[p] = L[p + 1]
    BY <1>1
  <2>3. PICK q \in 1..Len(L) : q > p + 1 /\ L[q] = y
    BY <2>1, <2>2 DEF Follows
  <2>4. q # 1 /\ q - 1 > p /\ (q - 1) + 1 = q
    BY <1>2, <2>3
  <2>5. q - 1 \in 1..Len(T)
    BY <1>1, <2>4
  <2>6. T[q - 1] = y
    BY <1>1, <2>3, <2>4, <2>5
  <2> QED BY <2>4, <2>5, <2>6
<1>4. ASSUME NEW y, <<Head(L), y>> \in rel PROVE y \in ToSet(T)
  <2>1. PICK q \in 1..Len(L) : q > 1 /\ L[q] = y
    BY <1>1, <1>2, <1>4 DEF Follows
  <2>2. q # 1 /\ (q - 1) + 1 = q
    BY <1>2, <2>1
  <2>3. q - 1 \in 1..Len(T)
    BY <1>1, <2>2
  <2>4. T[q - 1] = y
    BY <1>1, <2>1, <2>2, <2>3
  <2> QED BY <1>2, <2>3, <2>4 DEF ToSet
<1> QED BY <1>3, <1>4 DEF T

LEMMA TailPreceded ==
    ASSUME NEW S, NEW L \in Seq(S), L # << >>, NEW A, NEW B, Preceded(L, A, B), Head(L) \notin B
    PROVE  Preceded(Tail(L), A, B) /\ Head(L) \notin A
<1> DEFINE T == Tail(L)
<1>1. /\ T \in Seq(S) /\ Head(L) = L[1]
      /\ \A p \in 1..Len(T) : p + 1 \in 1..Len(L) /\ T[p] = L[p + 1]
      /\ \A p \in 1..Len(L) : p = 1 \/ p - 1 \in 1..Len(T)
  BY TailFacts
<1> HIDE DEF T
<1>2. 1 \in 1..Len(L) /\ Len(L) \in Nat /\ Len(T) \in Nat
  <2>1. 1 \in 1..Len(L) /\ Len(L) \in Nat
    OBVIOUS
  <2> QED BY <1>1, <2>1
<1>3. Preceded(T, A, B)
  <2>1. SUFFICES ASSUME NEW p \in 1..Len(T), T[p] \in A
                 PROVE  \E q \in 1..Len(T) : q < p /\ T[q] \in B
    BY DEF Preceded
  <2>2. p + 1 \in 1..Len(L) /\ L[p + 1] \in A
    BY <1>1, <2>1
  <2>3. PICK q \in 1..Len(L) : q < p + 1 /\ L[q] \in B
    BY <2>2 DEF Preceded
  <2>4. q # 1
    BY <1>1, <2>3
  <2>5. q - 1 \in 1..Len(T) /\ q - 1 < p /\ (q - 1) + 1 = q
    BY <1>1, <1>2, <2>3, <2>4
  <2>6. T[q - 1] \in B
    BY <1>1, <2>3, <2>5
  <2> QED BY <2>5, <2>6
<1>4. Head(L) \notin A
  <2> SUFFICES ASSUME L[1] \in A PROVE FALSE
    BY <1>1
  <2>1. PICK q \in 1..Len(L) : q < 1
    BY <1>2 DEF Preceded
  <2> QED BY <2>1
<1> QED BY <1>3, <1>4 DEF T

-----------------------------------------------------------------------------
(* The statements of a change. *)

Statement ==
    [verb : {"THROW"}, why : Columns \cup {"primary key", "table rename"}, table : STRING]
    \cup [verb : {"RETURN NONE"}]
    \cup [verb : {"DEFINE TABLE"}, table : STRING, if_not_exists : BOOLEAN]
    \cup [verb : {"REMOVE TABLE"}, table : STRING]
    \cup [verb : {"DEFINE INDEX"}, table : STRING, index : STRING, columns : Seq(Columns),
          unique : BOOLEAN, if_not_exists : BOOLEAN]
    \cup [verb : {"REMOVE INDEX"}, table : STRING, index : STRING]
    \cup [verb : {"UPDATE SET"}, table : STRING, from : Columns, to : Columns]
    \cup [verb : {"UPDATE UNSET"}, table : STRING, column : Columns]

LEMMA TableTyping ==
    ASSUME NEW t \in Schema, NEW b \in BOOLEAN
    PROVE  /\ DefineTable(t, b) \in Statement /\ RemoveTable(t) \in Statement
           /\ Throw("primary key", t.name) \in Statement
           /\ Throw("table rename", t.name) \in Statement
           /\ ReturnNone \in Statement
<1>1. t.name \in STRING
  BY DEF Schema
<1> QED BY <1>1 DEF Statement, DefineTable, RemoveTable, Throw, ReturnNone

LEMMA IndexTyping ==
    ASSUME NEW t \in Schema, NEW i \in Index, NEW b \in BOOLEAN
    PROVE  DefineIndex(t, i, b) \in Statement /\ RemoveIndex(t, i) \in Statement
<1>1. t.name \in STRING
  BY DEF Schema
<1>2. i.name \in STRING /\ i.columns \in Seq(Columns) /\ i.unique \in BOOLEAN
  BY DEF Index
<1>3. DefineIndex(t, i, b) \in [verb : {"DEFINE INDEX"}, table : STRING, index : STRING,
           columns : Seq(Columns), unique : BOOLEAN, if_not_exists : BOOLEAN]
  BY <1>1, <1>2 DEF DefineIndex
<1>4. RemoveIndex(t, i) \in [verb : {"REMOVE INDEX"}, table : STRING, index : STRING]
  BY <1>1, <1>2 DEF RemoveIndex
<1> QED BY <1>3, <1>4 DEF Statement

LEMMA ColumnTyping ==
    ASSUME NEW t \in Schema, NEW c \in Columns, NEW e \in Columns
    PROVE  /\ Throw(c, t.name) \in Statement /\ Copy(t, c, e) \in Statement
           /\ Unset(t, c) \in Statement
<1>1. t.name \in STRING
  BY DEF Schema
<1> QED BY <1>1 DEF Statement, Throw, Copy, Unset

(* ss has one statement or none for each of n elements: c[i] says whether, e[i]
   which. *)
Chosen(S, n, ss, c, e) ==
    /\ ss = [i \in 1..n |-> ss[i]]
    /\ \A i \in 1..n : e[i] \in S /\ ss[i] = When(c[i], <<e[i]>>)

LEMMA ForEachWhen ==
    ASSUME NEW S, NEW n \in Nat, NEW ss, NEW c, NEW e, Chosen(S, n, ss, c, e)
    PROVE  /\ FlattenSeq(ss) \in Seq(S)
           /\ \A x : x \in ToSet(FlattenSeq(ss)) <=> \E i \in 1..n : c[i] /\ x = e[i]
<1>1. ASSUME NEW i \in 1..n
      PROVE  ss[i] \in Seq(S) /\ \A x : x \in ToSet(ss[i]) <=> c[i] /\ x = e[i]
  <2>1. DOMAIN <<e[i]>> = {1} /\ <<e[i]>>[1] = e[i] /\ DOMAIN << >> = {}
    OBVIOUS
  <2>2. ToSet(<<e[i]>>) = {e[i]} /\ ToSet(<< >>) = {}
    BY <2>1 DEF ToSet
  <2>3. \A x \in S : <<x>> \in Seq(S) /\ << >> \in Seq(S)
    OBVIOUS
  <2>4. ss[i] = (IF c[i] THEN <<e[i]>> ELSE << >>) /\ e[i] \in S
    BY DEF When, Chosen
  <2> QED BY <2>2, <2>3, <2>4
<1>2. ss \in Seq(Seq(S)) /\ Len(ss) = n
  BY <1>1 DEF Chosen
<1>3. /\ FlattenSeq(ss) \in Seq(S)
      /\ \A x : x \in ToSet(FlattenSeq(ss)) <=> \E i \in 1..n : x \in ToSet(ss[i])
  BY <1>2, FlattenMembers
<1> QED BY <1>1, <1>3

(* The indexes of a table as a sequence and as a set. *)
LEMMA TableFacts ==
    ASSUME NEW t \in Schema
    PROVE  /\ t.indices \in Seq(Index) /\ Len(t.indices) \in Nat
           /\ DOMAIN t.indices = 1..Len(t.indices)
           /\ \A k \in 1..Len(t.indices) : t.indices[k] \in Index /\ t.indices[k] \in ToSet(t.indices)
           /\ \A i \in ToSet(t.indices) : \E k \in 1..Len(t.indices) : i = t.indices[k]
           /\ t.columns \in Seq(Columns) /\ Len(t.columns) \in Nat
           /\ DOMAIN t.columns = 1..Len(t.columns)
           /\ \A k \in 1..Len(t.columns) : t.columns[k] \in Columns /\ t.columns[k] \in ToSet(t.columns)
           /\ \A c \in ToSet(t.columns) : \E k \in 1..Len(t.columns) : c = t.columns[k]
           /\ t.primary_key \in Seq(Columns) /\ t.name \in STRING
<1>1. t.indices \in Seq(Index) /\ t.columns \in Seq(Columns)
      /\ t.primary_key \in Seq(Columns) /\ t.name \in STRING
  BY DEF Schema
<1> QED BY <1>1 DEF ToSet

LEMMA DiffFacts ==
    ASSUME NEW d \in Diff
    PROVE  /\ d.previous \in Schema /\ d.next \in Schema /\ d.kind \in {"Create", "Drop", "Alter"}
           /\ \A c \in Columns : Mapped(d, c) \in Columns
<1>1. d.hints \in UNION {[cs -> Columns] : cs \in SUBSET Columns}
  BY DEF Diff
<1>2. PICK cs \in SUBSET Columns : d.hints \in [cs -> Columns]
  BY <1>1
<1> QED BY <1>2 DEF Diff, Mapped

(* define_table_statements: the table, then its secondary indexes. *)
LEMMA Defines ==
    ASSUME NEW t \in Schema, NEW b \in BOOLEAN
    PROVE  LET L == define_table_statements(t, b) IN
           /\ L \in Seq(Statement) /\ Len(L) > 0 /\ L[1] = DefineTable(t, b)
           /\ \A x : x \in ToSet(L) <=>
                 x = DefineTable(t, b) \/ \E i \in Secondary(t) : x = DefineIndex(t, i, b)
<1> DEFINE n  == Len(t.indices)
           ss == [k \in DOMAIN t.indices |->
                    When(~t.indices[k].primary_key, <<DefineIndex(t, t.indices[k], b)>>)]
           c  == [k \in 1..n |-> ~t.indices[k].primary_key]
           e  == [k \in 1..n |-> DefineIndex(t, t.indices[k], b)]
           D  == <<DefineTable(t, b)>>
<1>1. /\ n \in Nat /\ DOMAIN t.indices = 1..n
      /\ \A k \in 1..n : t.indices[k] \in Index /\ t.indices[k] \in ToSet(t.indices)
      /\ \A i \in ToSet(t.indices) : \E k \in 1..n : i = t.indices[k]
  BY TableFacts
<1>2. define_table_statements(t, b) = D \o FlattenSeq(ss)
  BY DEF define_table_statements, ForEach
<1>3. ss = [k \in 1..n |-> ss[k]] /\ \A k \in 1..n : ss[k] = When(c[k], <<e[k]>>)
  BY <1>1
<1>4. \A k \in 1..n : e[k] = DefineIndex(t, t.indices[k], b) /\ e[k] \in Statement
                       /\ (c[k] <=> ~t.indices[k].primary_key)
  BY <1>1, IndexTyping
<1> HIDE DEF n, ss, c, e
<1>9. Chosen(Statement, n, ss, c, e)
  BY <1>3, <1>4 DEF Chosen
<1>5. /\ FlattenSeq(ss) \in Seq(Statement)
      /\ \A x : x \in ToSet(FlattenSeq(ss)) <=> \E k \in 1..n : c[k] /\ x = e[k]
  BY <1>1, <1>9, ForEachWhen
<1>6. /\ D \in Seq(Statement) /\ ToSet(D) = {DefineTable(t, b)}
      /\ Len(D) = 1 /\ D[1] = DefineTable(t, b)
  <2>1. D \in Seq(Statement) /\ DOMAIN D = {1} /\ D[1] = DefineTable(t, b)
    <3>1. DefineTable(t, b) \in Statement
      BY TableTyping
    <3> QED BY <3>1
  <2> QED BY <2>1 DEF ToSet
<1> HIDE DEF D
<1>7. D \o FlattenSeq(ss) \in Seq(Statement)
      /\ ToSet(D \o FlattenSeq(ss)) = ToSet(D) \cup ToSet(FlattenSeq(ss))
  BY <1>5, <1>6, ConcatSet
<1>10. Len(D \o FlattenSeq(ss)) > 0 /\ (D \o FlattenSeq(ss))[1] = D[1]
  <2> DEFINE R == FlattenSeq(ss)
  <2>1. R \in Seq(Statement)
    BY <1>5
  <2> HIDE DEF R
  <2>2. Len(D \o R) > 0 /\ (D \o R)[1] = D[1]
    BY <1>6, <2>1
  <2> QED BY <2>2 DEF R
<1>8. \A x : (\E k \in 1..n : c[k] /\ x = e[k]) <=> \E i \in Secondary(t) : x = DefineIndex(t, i, b)
  <2>1. ASSUME NEW k \in 1..n, c[k] PROVE t.indices[k] \in Secondary(t)
    BY <1>1, <1>4, <2>1 DEF Secondary
  <2>2. ASSUME NEW i \in Secondary(t) PROVE \E k \in 1..n : i = t.indices[k] /\ c[k]
    BY <1>1, <1>4 DEF Secondary
  <2> QED BY <1>4, <2>1, <2>2
<1> QED BY <1>2, <1>5, <1>6, <1>7, <1>8, <1>10

(* The two loops over the indexes of a table in render_alter_table: c[k] says
   whether the diff, f[k] whether a moved field asks for statement e[k].     *)
ChosenBy(S, n, L, c, f, e) ==
    L \in Seq(S) /\ \A x : x \in ToSet(L) <=> \E k \in 1..n : (c[k] \/ f[k]) /\ x = e[k]
LEMMA TwoLoops ==
    ASSUME NEW S, NEW n \in Nat, NEW ss, NEW tt, NEW c, NEW f, NEW e,
           Chosen(S, n, ss, c, e), Chosen(S, n, tt, f, e)
    PROVE  ChosenBy(S, n, Unique(FlattenSeq(ss) \o FlattenSeq(tt)), c, f, e)
<1> DEFINE A == FlattenSeq(ss)
           B == FlattenSeq(tt)
<1>1. A \in Seq(S) /\ \A x : x \in ToSet(A) <=> \E k \in 1..n : c[k] /\ x = e[k]
  BY ForEachWhen
<1>2. B \in Seq(S) /\ \A x : x \in ToSet(B) <=> \E k \in 1..n : f[k] /\ x = e[k]
  BY ForEachWhen
<1> HIDE DEF A, B
<1>3. A \o B \in Seq(S) /\ ToSet(A \o B) = ToSet(A) \cup ToSet(B)
  BY <1>1, <1>2, ConcatSet
<1>4. Unique(A \o B) \in Seq(S) /\ ToSet(Unique(A \o B)) = ToSet(A \o B)
  BY <1>3, UniqueSet
<1>5. Unique(A \o B) \in Seq(S)
      /\ \A x : x \in ToSet(Unique(A \o B)) <=> \E k \in 1..n : (c[k] \/ f[k]) /\ x = e[k]
  BY <1>1, <1>2, <1>3, <1>4
<1> QED BY <1>5 DEF A, B, ChosenBy

(* index_removals: the indexes the diff drops or alters, and those over a field
   that moves. *)
LEMMA Removals ==
    ASSUME NEW d \in Diff
    PROVE  LET L == index_removals(d) IN
           /\ L \in Seq(Statement)
           /\ \A x : x \in ToSet(L) <=> \E i \in Secondary(d.previous) :
                 (Outgoing(d, i) \/ Touching(i, Moves(d))) /\ x = RemoveIndex(d.previous, i)
<1> DEFINE t  == d.previous
           n  == Len(t.indices)
           ss == [k \in DOMAIN t.indices |->
                    When(~t.indices[k].primary_key /\ Outgoing(d, t.indices[k]),
                         <<RemoveIndex(t, t.indices[k])>>)]
           tt == [k \in DOMAIN t.indices |->
                    When(~t.indices[k].primary_key /\ Touching(t.indices[k], Moves(d)),
                         <<RemoveIndex(t, t.indices[k])>>)]
           c  == [k \in 1..n |-> ~t.indices[k].primary_key /\ Outgoing(d, t.indices[k])]
           f  == [k \in 1..n |-> ~t.indices[k].primary_key /\ Touching(t.indices[k], Moves(d))]
           e  == [k \in 1..n |-> RemoveIndex(t, t.indices[k])]
<1>1. /\ t \in Schema /\ n \in Nat /\ DOMAIN t.indices = 1..n
      /\ \A k \in 1..n : t.indices[k] \in Index /\ t.indices[k] \in ToSet(t.indices)
      /\ \A i \in ToSet(t.indices) : \E k \in 1..n : i = t.indices[k]
  BY DiffFacts, TableFacts
<1>2. index_removals(d) = Unique(FlattenSeq(ss) \o FlattenSeq(tt))
  BY DEF index_removals, ForEach
<1>3. /\ ss = [k \in 1..n |-> ss[k]] /\ tt = [k \in 1..n |-> tt[k]]
      /\ \A k \in 1..n : ss[k] = When(c[k], <<e[k]>>) /\ tt[k] = When(f[k], <<e[k]>>)
  BY <1>1
<1>4. \A k \in 1..n :
         /\ e[k] = RemoveIndex(t, t.indices[k]) /\ e[k] \in Statement
         /\ c[k] <=> ~t.indices[k].primary_key /\ Outgoing(d, t.indices[k])
         /\ f[k] <=> ~t.indices[k].primary_key /\ Touching(t.indices[k], Moves(d))
  BY <1>1, IndexTyping
<1> HIDE DEF t, n, ss, tt, c, f, e
<1>7. Chosen(Statement, n, ss, c, e) /\ Chosen(Statement, n, tt, f, e)
  BY <1>3, <1>4 DEF Chosen
<1>8. n \in Nat
  BY <1>1
<1>9. ChosenBy(Statement, n, Unique(FlattenSeq(ss) \o FlattenSeq(tt)), c, f, e)
  BY <1>7, <1>8, TwoLoops
<1>5. /\ Unique(FlattenSeq(ss) \o FlattenSeq(tt)) \in Seq(Statement)
      /\ \A x : x \in ToSet(Unique(FlattenSeq(ss) \o FlattenSeq(tt)))
                <=> \E k \in 1..n : (c[k] \/ f[k]) /\ x = e[k]
  BY <1>9 DEF ChosenBy
<1>6. \A x : (\E k \in 1..n : (c[k] \/ f[k]) /\ x = e[k])
             <=> \E i \in Secondary(t) :
                    (Outgoing(d, i) \/ Touching(i, Moves(d))) /\ x = RemoveIndex(t, i)
  <2>1. ASSUME NEW k \in 1..n, c[k] \/ f[k] PROVE t.indices[k] \in Secondary(t)
    BY <1>1, <1>4, <2>1 DEF Secondary
  <2>2. ASSUME NEW i \in Secondary(t) PROVE \E k \in 1..n : i = t.indices[k] /\ ~i.primary_key
    BY <1>1 DEF Secondary
  <2> QED BY <1>4, <2>1, <2>2
<1> QED BY <1>2, <1>5, <1>6 DEF t

(* index_definitions: the indexes the diff creates or alters, and those over a
   field that moves. *)
LEMMA Definitions ==
    ASSUME NEW d \in Diff
    PROVE  LET L == index_definitions(d) IN
           /\ L \in Seq(Statement)
           /\ \A x : x \in ToSet(L) <=> \E i \in Secondary(d.next) :
                 /\ Incoming(d, i) \/ Touching(i, {Mapped(d, m) : m \in Moves(d)})
                 /\ x = DefineIndex(d.next, i, FALSE)
<1> DEFINE t  == d.next
           M  == {Mapped(d, m) : m \in Moves(d)}
           n  == Len(t.indices)
           ss == [k \in DOMAIN t.indices |->
                    When(~t.indices[k].primary_key /\ Incoming(d, t.indices[k]),
                         <<DefineIndex(t, t.indices[k], FALSE)>>)]
           tt == [k \in DOMAIN t.indices |->
                    When(~t.indices[k].primary_key /\ Touching(t.indices[k], M),
                         <<DefineIndex(t, t.indices[k], FALSE)>>)]
           c  == [k \in 1..n |-> ~t.indices[k].primary_key /\ Incoming(d, t.indices[k])]
           f  == [k \in 1..n |-> ~t.indices[k].primary_key /\ Touching(t.indices[k], M)]
           e  == [k \in 1..n |-> DefineIndex(t, t.indices[k], FALSE)]
<1>1. /\ t \in Schema /\ n \in Nat /\ DOMAIN t.indices = 1..n
      /\ \A k \in 1..n : t.indices[k] \in Index /\ t.indices[k] \in ToSet(t.indices)
      /\ \A i \in ToSet(t.indices) : \E k \in 1..n : i = t.indices[k]
  BY DiffFacts, TableFacts
<1>2. index_definitions(d) = Unique(FlattenSeq(ss) \o FlattenSeq(tt))
  BY DEF index_definitions, ForEach
<1> HIDE DEF M
<1>3. /\ ss = [k \in 1..n |-> ss[k]] /\ tt = [k \in 1..n |-> tt[k]]
      /\ \A k \in 1..n : ss[k] = When(c[k], <<e[k]>>) /\ tt[k] = When(f[k], <<e[k]>>)
  BY <1>1
<1>4. \A k \in 1..n :
         /\ e[k] = DefineIndex(t, t.indices[k], FALSE) /\ e[k] \in Statement
         /\ c[k] <=> ~t.indices[k].primary_key /\ Incoming(d, t.indices[k])
         /\ f[k] <=> ~t.indices[k].primary_key /\ Touching(t.indices[k], M)
  BY <1>1, IndexTyping
<1> HIDE DEF t, n, ss, tt, c, f, e
<1>7. Chosen(Statement, n, ss, c, e) /\ Chosen(Statement, n, tt, f, e)
  BY <1>3, <1>4 DEF Chosen
<1>8. n \in Nat
  BY <1>1
<1>9. ChosenBy(Statement, n, Unique(FlattenSeq(ss) \o FlattenSeq(tt)), c, f, e)
  BY <1>7, <1>8, TwoLoops
<1>5. /\ Unique(FlattenSeq(ss) \o FlattenSeq(tt)) \in Seq(Statement)
      /\ \A x : x \in ToSet(Unique(FlattenSeq(ss) \o FlattenSeq(tt)))
                <=> \E k \in 1..n : (c[k] \/ f[k]) /\ x = e[k]
  BY <1>9 DEF ChosenBy
<1>6. \A x : (\E k \in 1..n : (c[k] \/ f[k]) /\ x = e[k])
             <=> \E i \in Secondary(t) :
                    (Incoming(d, i) \/ Touching(i, M)) /\ x = DefineIndex(t, i, FALSE)
  <2>1. ASSUME NEW k \in 1..n, c[k] \/ f[k] PROVE t.indices[k] \in Secondary(t)
    BY <1>1, <1>4, <2>1 DEF Secondary
  <2>2. ASSUME NEW i \in Secondary(t) PROVE \E k \in 1..n : i = t.indices[k] /\ ~i.primary_key
    BY <1>1 DEF Secondary
  <2>3. ASSUME NEW x, NEW k \in 1..n, c[k] \/ f[k], x = e[k]
        PROVE  \E i \in Secondary(t) :
                  (Incoming(d, i) \/ Touching(i, M)) /\ x = DefineIndex(t, i, FALSE)
    BY <1>4, <2>1, <2>3
  <2>4. ASSUME NEW x, NEW i \in Secondary(t),
               Incoming(d, i) \/ Touching(i, M), x = DefineIndex(t, i, FALSE)
        PROVE  \E k \in 1..n : (c[k] \/ f[k]) /\ x = e[k]
    <3>1. PICK k \in 1..n : i = t.indices[k] /\ ~i.primary_key
      BY <2>2
    <3>2. c[k] \/ f[k]
      BY <1>4, <2>4, <3>1
    <3>3. x = e[k]
      BY <1>4, <2>4, <3>1
    <3> QED BY <3>2, <3>3
  <2> QED BY <2>3, <2>4
<1> QED BY <1>2, <1>5, <1>6 DEF t, M

(* The guards only throw, and every unsafe change that keeps the name of the table
   has one. *)
LEMMA Guards ==
    ASSUME NEW d \in Diff
    PROVE  /\ Unique(guards(d)) \in Seq(Statement)
           /\ \A x \in ToSet(Unique(guards(d))) : x.verb = "THROW"
           /\ Unsafe(d) /\ d.previous.name = d.next.name => ToSet(Unique(guards(d))) # {}
<1> DEFINE t  == d.previous
           n  == Len(t.columns)
           ss == [k \in DOMAIN t.columns |->
                    When(Survives(d, t.columns[k])
                           /\ t.type[t.columns[k]] # d.next.type[Mapped(d, t.columns[k])],
                         <<Throw(Mapped(d, t.columns[k]), d.next.name)>>)]
           c  == [k \in 1..n |-> Survives(d, t.columns[k])
                           /\ t.type[t.columns[k]] # d.next.type[Mapped(d, t.columns[k])]]
           e  == [k \in 1..n |-> Throw(Mapped(d, t.columns[k]), d.next.name)]
           P  == When(primary_key_changed(d), <<Throw("primary key", d.next.name)>>)
           F  == FlattenSeq(ss)
<1>1. /\ t \in Schema /\ d.next \in Schema /\ n \in Nat /\ DOMAIN t.columns = 1..n
      /\ \A k \in 1..n : t.columns[k] \in Columns /\ Mapped(d, t.columns[k]) \in Columns
      /\ \A x \in ToSet(t.columns) : \E k \in 1..n : x = t.columns[k]
  BY DiffFacts, TableFacts
<1>2. guards(d) = P \o F
  BY DEF guards, ForEach
<1>3. ss = [k \in 1..n |-> ss[k]] /\ \A k \in 1..n : ss[k] = When(c[k], <<e[k]>>)
  BY <1>1
<1>4. \A k \in 1..n : e[k] \in Statement /\ e[k].verb = "THROW"
  <2>1. ASSUME NEW k \in 1..n PROVE e[k] = Throw(Mapped(d, t.columns[k]), d.next.name)
    OBVIOUS
  <2>2. \A x, y : Throw(x, y).verb = "THROW"
    BY DEF Throw
  <2> HIDE DEF e
  <2> QED BY <1>1, <2>1, <2>2, ColumnTyping
<1>5. \A k \in 1..n : c[k] <=> Survives(d, t.columns[k])
                           /\ t.type[t.columns[k]] # d.next.type[Mapped(d, t.columns[k])]
  OBVIOUS
<1> HIDE DEF n, ss, c, e, t
<1>6. Chosen(Statement, n, ss, c, e)
  BY <1>3, <1>4 DEF Chosen
<1>7. F \in Seq(Statement) /\ \A x : x \in ToSet(F) <=> \E k \in 1..n : c[k] /\ x = e[k]
  BY <1>1, <1>6, ForEachWhen
<1>8. /\ P \in Seq(Statement) /\ \A x \in ToSet(P) : x.verb = "THROW"
      /\ primary_key_changed(d) => ToSet(P) # {}
  <2> DEFINE w == Throw("primary key", d.next.name)
  <2>1. w \in Statement /\ w.verb = "THROW"
    BY <1>1, TableTyping DEF Throw
  <2> HIDE DEF w
  <2>2. <<w>> \in Seq(Statement) /\ << >> \in Seq(Statement)
    BY <2>1
  <2>3. ToSet(<<w>>) = {w} /\ ToSet(<< >>) = {}
    <3>1. DOMAIN <<w>> = {1} /\ <<w>>[1] = w /\ DOMAIN << >> = {}
      OBVIOUS
    <3> QED BY <3>1 DEF ToSet
  <2>4. P = IF primary_key_changed(d) THEN <<w>> ELSE << >>
    BY DEF When, w
  <2> QED BY <2>1, <2>2, <2>3, <2>4
<1> HIDE DEF P, F
<1>9. guards(d) \in Seq(Statement) /\ ToSet(guards(d)) = ToSet(P) \cup ToSet(F)
  BY <1>2, <1>7, <1>8, ConcatSet
<1>10. Unique(guards(d)) \in Seq(Statement) /\ ToSet(Unique(guards(d))) = ToSet(guards(d))
  BY <1>9, UniqueSet
<1>11. ASSUME Unsafe(d), d.previous.name = d.next.name
       PROVE  primary_key_changed(d) \/ \E k \in 1..n : c[k]
  <2>1. CASE [k \in DOMAIN d.previous.primary_key |-> Mapped(d, d.previous.primary_key[k])]
                # d.next.primary_key
    <3> SUFFICES ASSUME ~primary_key_changed(d) PROVE FALSE
      OBVIOUS
    <3>1. d.previous.primary_key \in Seq(Columns) /\ d.next.primary_key \in Seq(Columns)
      BY DiffFacts, TableFacts
    <3>2. Len(d.previous.primary_key) = Len(d.next.primary_key)
      BY DEF primary_key_changed
    <3>3. \A k \in DOMAIN d.previous.primary_key :
             Mapped(d, d.previous.primary_key[k]) = d.next.primary_key[k]
      BY DEF primary_key_changed
    <3>4. DOMAIN d.previous.primary_key = DOMAIN d.next.primary_key
      BY <3>1, <3>2
    <3>5. d.next.primary_key = [k \in DOMAIN d.next.primary_key |-> d.next.primary_key[k]]
      BY <3>1
    <3> QED BY <2>1, <3>3, <3>4, <3>5
  <2>2. CASE \E x \in ToSet(d.previous.columns), y \in ToSet(d.next.columns) :
                Mapped(d, x) = y /\ d.previous.type[x] # d.next.type[y]
    BY <1>1, <1>5, <2>2 DEF Survives, t
  <2> QED BY <1>11, <2>1, <2>2 DEF Unsafe
<1>12. ASSUME Unsafe(d), d.previous.name = d.next.name PROVE ToSet(P) \cup ToSet(F) # {}
  BY <1>7, <1>8, <1>11, <1>12
<1>13. \A x \in ToSet(P) \cup ToSet(F) : x.verb = "THROW"
  BY <1>4, <1>7, <1>8
<1> QED BY <1>9, <1>10, <1>12, <1>13

(* Moving data only updates rows of the table. *)
LEMMA DataMoves ==
    ASSUME NEW d \in Diff
    PROVE  /\ data_changes(d) \in Seq(Statement)
           /\ \A x \in ToSet(data_changes(d)) :
                 x.verb \in {"UPDATE SET", "UPDATE UNSET"} /\ x.table = d.next.name
<1> DEFINE t  == d.previous
           n  == Len(t.columns)
           pt(k) == IF ~Survives(d, t.columns[k])
                    THEN When(~is_primary_key(t, t.columns[k]), <<Unset(d.next, t.columns[k])>>)
                    ELSE When(t.columns[k] \in Moves(d),
                              <<Copy(d.next, t.columns[k], Mapped(d, t.columns[k])),
                                Unset(d.next, t.columns[k])>>)
           ss == [k \in DOMAIN t.columns |-> pt(k)]
<1>1. /\ t \in Schema /\ d.next \in Schema /\ n \in Nat /\ DOMAIN t.columns = 1..n
      /\ \A k \in 1..n : t.columns[k] \in Columns /\ Mapped(d, t.columns[k]) \in Columns
  BY DiffFacts, TableFacts
<1>2. data_changes(d) = FlattenSeq(ss)
  BY DEF data_changes, ForEach
<1>3. ASSUME NEW k \in 1..n
      PROVE  /\ pt(k) \in Seq(Statement)
             /\ \A x \in ToSet(pt(k)) :
                   x.verb \in {"UPDATE SET", "UPDATE UNSET"} /\ x.table = d.next.name
  <2> DEFINE a == Copy(d.next, t.columns[k], Mapped(d, t.columns[k]))
             b == Unset(d.next, t.columns[k])
  <2>1. /\ a \in Statement /\ a.verb = "UPDATE SET" /\ a.table = d.next.name
        /\ b \in Statement /\ b.verb = "UPDATE UNSET" /\ b.table = d.next.name
    BY <1>1, ColumnTyping DEF Copy, Unset
  <2>2. pt(k) \in {<< >>, <<b>>, <<a, b>>}
    BY DEF When
  <2> HIDE DEF a, b, pt
  <2>3. ToSet(<< >>) = {} /\ ToSet(<<b>>) = {b} /\ ToSet(<<a, b>>) = {a, b}
    <3>1. /\ DOMAIN <<b>> = {1} /\ <<b>>[1] = b /\ DOMAIN << >> = {}
          /\ DOMAIN <<a, b>> = {1, 2} /\ <<a, b>>[1] = a /\ <<a, b>>[2] = b
      OBVIOUS
    <3> QED BY <3>1 DEF ToSet
  <2>4. << >> \in Seq(Statement) /\ <<b>> \in Seq(Statement) /\ <<a, b>> \in Seq(Statement)
    <3>1. a \in Statement /\ b \in Statement
      BY <2>1
    <3>2. <<a, b>> \in Seq(Statement)
      BY <3>1
    <3> QED BY <3>1, <3>2
  <2> QED BY <2>1, <2>2, <2>3, <2>4
<1>4. ss \in Seq(Seq(Statement)) /\ Len(ss) = n /\ \A k \in 1..n : ss[k] = pt(k)
  <2> HIDE DEF pt
  <2>1. ss = [k \in 1..n |-> pt(k)]
    BY <1>1
  <2> HIDE DEF ss, n
  <2>2. ss \in [1..n -> Seq(Statement)] /\ \A k \in 1..n : ss[k] = pt(k)
    BY <1>3, <2>1
  <2> QED BY <1>1, <2>2
<1> HIDE DEF pt, ss, n
<1>5. /\ FlattenSeq(ss) \in Seq(Statement)
      /\ \A x : x \in ToSet(FlattenSeq(ss)) <=> \E k \in 1..n : x \in ToSet(ss[k])
  BY <1>4, FlattenMembers
<1> QED BY <1>2, <1>3, <1>4, <1>5

(* x spoils an index of table t that is built after it. *)
Disturbs(x, t) == x.verb \in {"UPDATE SET", "UPDATE UNSET", "REMOVE TABLE"} /\ x.table = t

(* Indexes are built before the rows they cover are touched. *)
IndexFirst(L) ==
    \A p, q \in 1..Len(L) :
        p < q /\ L[q].verb = "DEFINE INDEX" => ~Disturbs(L[p], L[q].table)

(* No index is removed after one of its table is defined. *)
RemovesFirst(L) ==
    \A p, q \in 1..Len(L) :
        p < q /\ L[p].verb = "DEFINE INDEX" /\ L[q].verb = "REMOVE INDEX" => L[p].table # L[q].table

(* An index of the next schema that is removed is defined again later. *)
Replaced(d, L) ==
    \A p \in 1..Len(L) : L[p].verb = "REMOVE INDEX" =>
        \A i \in Secondary(d.next) : i.name = L[p].index =>
            \E q \in 1..Len(L) : q > p /\ L[q] = DefineIndex(d.next, i, FALSE)

(* The statements of diff d, by verb. *)
Fits(d, x) ==
    /\ x.verb \in {"THROW", "DEFINE TABLE", "REMOVE TABLE", "DEFINE INDEX", "REMOVE INDEX",
                   "UPDATE SET", "UPDATE UNSET"}
    /\ x.verb = "DEFINE TABLE" => d.kind = "Create" /\ x = DefineTable(d.next, FALSE)
    /\ x.verb = "REMOVE TABLE" => d.kind = "Drop" /\ x.table = d.previous.name
    /\ x.verb = "DEFINE INDEX" =>
          /\ d.kind = "Create" \/ (d.kind = "Alter" /\ d.previous.name = d.next.name)
          /\ \E i \in Secondary(d.next) : x = DefineIndex(d.next, i, FALSE)
    /\ x.verb = "REMOVE INDEX" =>
          /\ d.kind = "Alter" /\ d.previous.name = d.next.name
          /\ \E i \in Secondary(d.previous) :
                (Outgoing(d, i) \/ Touching(i, Moves(d))) /\ x = RemoveIndex(d.previous, i)
    /\ x.verb \in {"UPDATE SET", "UPDATE UNSET"} =>
          d.kind = "Alter" /\ d.previous.name = d.next.name /\ x.table = d.next.name

(* Both halves of a concatenation, and where their elements are. *)
Joined(a, b, L) ==
    /\ Len(a) \in Nat /\ Len(b) \in Nat /\ Len(L) = Len(a) + Len(b)
    /\ \A p \in 1..Len(L) : \/ p \in 1..Len(a) /\ L[p] = a[p] /\ a[p] \in ToSet(a)
                            \/ p > Len(a) /\ L[p] \in ToSet(b)
    /\ \A y \in ToSet(b) : \E q \in 1..Len(L) : q > Len(a) /\ L[q] = y

LEMMA ConcatPlaces ==
    ASSUME NEW S, NEW a \in Seq(S), NEW b \in Seq(S)
    PROVE  Joined(a, b, a \o b)
<1>1. /\ a \o b \in Seq(S) /\ Len(a \o b) = Len(a) + Len(b)
      /\ Len(a) \in Nat /\ Len(b) \in Nat
      /\ \A i \in 1..Len(a) : (a \o b)[i] = a[i]
      /\ \A i \in 1..Len(b) : (a \o b)[Len(a) + i] = b[i]
      /\ DOMAIN a = 1..Len(a) /\ DOMAIN b = 1..Len(b)
  OBVIOUS
<1> DEFINE L == a \o b
<1>2. /\ Len(L) = Len(a) + Len(b) /\ \A i \in 1..Len(a) : L[i] = a[i]
      /\ \A i \in 1..Len(b) : L[Len(a) + i] = b[i]
  BY <1>1
<1> HIDE DEF L
<1>3. ASSUME NEW p \in 1..Len(L)
      PROVE  \/ p \in 1..Len(a) /\ L[p] = a[p] /\ a[p] \in ToSet(a)
             \/ p > Len(a) /\ L[p] \in ToSet(b)
  <2>1. CASE p <= Len(a)
    <3>1. p \in 1..Len(a)
      BY <1>1, <1>2, <2>1
    <3> QED BY <1>1, <1>2, <3>1 DEF ToSet
  <2>2. CASE p > Len(a)
    <3>1. p - Len(a) \in 1..Len(b) /\ p = Len(a) + (p - Len(a))
      BY <1>1, <1>2, <2>2
    <3>2. L[p] = b[p - Len(a)]
      BY <1>2, <3>1
    <3> QED BY <1>1, <2>2, <3>1, <3>2 DEF ToSet
  <2> QED BY <1>1, <1>2, <2>1, <2>2
<1>4. ASSUME NEW y \in ToSet(b) PROVE \E q \in 1..Len(L) : q > Len(a) /\ L[q] = y
  <2>1. PICK i \in 1..Len(b) : y = b[i]
    BY <1>1 DEF ToSet
  <2>2. Len(a) + i \in 1..Len(L) /\ Len(a) + i > Len(a)
    BY <1>1, <1>2
  <2> QED BY <1>2, <2>1, <2>2
<1>5. Joined(a, b, L)
  BY <1>1, <1>2, <1>3, <1>4 DEF Joined
<1> QED BY <1>5 DEF L

(* A removed index that the next schema has is among those defined. *)
LEMMA RemovedReturns ==
    ASSUME NEW d \in Diff, IndexesNamed(d.previous),
           NEW i \in Secondary(d.previous), Outgoing(d, i) \/ Touching(i, Moves(d)),
           NEW k \in Secondary(d.next), k.name = i.name
    PROVE  Incoming(d, k) \/ Touching(k, {Mapped(d, m) : m \in Moves(d)})
<1>1. i \in ToSet(d.previous.indices) /\ k \in ToSet(d.next.indices)
  BY DEF Secondary
<1>2. k \in Named(d.next.indices, i)
  BY <1>1 DEF Named
<1>3. \A from \in Named(d.previous.indices, k) : from = i
  BY <1>1 DEF Named, IndexesNamed, ToSet
<1>4. Altered(d, i, k) => Incoming(d, k)
  BY <1>3 DEF Incoming
<1>5. CASE ~Altered(d, i, k)
  <2>1. [j \in DOMAIN i.columns |-> Mapped(d, i.columns[j])] = k.columns
    BY <1>5 DEF Altered
  <2>2. Touching(i, Moves(d))
    BY <1>2, <1>5 DEF Outgoing
  <2>3. PICK j \in DOMAIN i.columns : i.columns[j] \in Moves(d)
    BY <2>2 DEF Touching, ToSet
  <2>4. j \in DOMAIN k.columns /\ k.columns[j] = Mapped(d, i.columns[j])
    BY <2>1
  <2>5. Mapped(d, i.columns[j]) \in ToSet(k.columns)
    BY <2>4 DEF ToSet
  <2>6. Mapped(d, i.columns[j]) \in {Mapped(d, m) : m \in Moves(d)}
    BY <2>3
  <2> QED BY <2>5, <2>6 DEF Touching
<1> QED BY <1>4, <1>5

(* render_alter_table of a table that keeps its name. *)
LEMMA Alters ==
    ASSUME NEW d \in Diff, IndexesNamed(d.previous), d.kind = "Alter",
           d.previous.name = d.next.name
    PROVE  LET L == render_alter_table(d) IN
           /\ L \in Seq(Statement) /\ IndexFirst(L) /\ RemovesFirst(L) /\ Replaced(d, L)
           /\ \A x \in ToSet(L) : Fits(d, x)
           /\ ToSet(index_removals(d)) \cup ToSet(index_definitions(d)) \subseteq ToSet(L)
           /\ Unsafe(d) => Len(L) > 0 /\ L[1].verb = "THROW"
<1> DEFINE G == Unique(guards(d))
           R == index_removals(d)
           D == index_definitions(d)
           U == data_changes(d)
<1>1. render_alter_table(d) = ((G \o R) \o D) \o U
  BY DEF render_alter_table
<1>2. G \in Seq(Statement) /\ R \in Seq(Statement) /\ D \in Seq(Statement) /\ U \in Seq(Statement)
  BY Guards, Removals, Definitions, DataMoves
<1>3. \A x \in ToSet(G) : x.verb = "THROW"
  BY Guards
<1>4. \A x \in ToSet(R) : /\ x.verb = "REMOVE INDEX"
                          /\ \E i \in Secondary(d.previous) :
                                /\ Outgoing(d, i) \/ Touching(i, Moves(d))
                                /\ x = RemoveIndex(d.previous, i)
  <2>1. \A i : RemoveIndex(d.previous, i).verb = "REMOVE INDEX"
    BY DEF RemoveIndex
  <2>2. \A x \in ToSet(R) : \E i \in Secondary(d.previous) :
           (Outgoing(d, i) \/ Touching(i, Moves(d))) /\ x = RemoveIndex(d.previous, i)
    BY Removals
  <2> QED BY <2>1, <2>2
<1>5. \A x : x \in ToSet(D) <=> \E i \in Secondary(d.next) :
                 /\ Incoming(d, i) \/ Touching(i, {Mapped(d, m) : m \in Moves(d)})
                 /\ x = DefineIndex(d.next, i, FALSE)
  BY Definitions
<1>6. \A x \in ToSet(D) : x.verb = "DEFINE INDEX" /\ \E i \in Secondary(d.next) : x = DefineIndex(d.next, i, FALSE)
  <2>1. \A i : DefineIndex(d.next, i, FALSE).verb = "DEFINE INDEX"
    BY DEF DefineIndex
  <2> QED BY <1>5, <2>1
<1>7. \A x \in ToSet(U) : x.verb \in {"UPDATE SET", "UPDATE UNSET"} /\ x.table = d.next.name
  BY DataMoves
<1>8. Unsafe(d) => ToSet(G) # {}
  BY Guards
<1> HIDE DEF G, R, D, U
<1> DEFINE A == G \o R
           B == D \o U
           C == A \o D
           L == render_alter_table(d)
<1>9. A \in Seq(Statement) /\ ToSet(A) = ToSet(G) \cup ToSet(R)
  BY <1>2, ConcatSet
<1>10. B \in Seq(Statement) /\ ToSet(B) = ToSet(D) \cup ToSet(U)
  BY <1>2, ConcatSet
<1>11. L = C \o U
  BY <1>1
<1> HIDE DEF A, L
<1>12. C \in Seq(Statement) /\ ToSet(C) = ToSet(A) \cup ToSet(D) /\ C \o U = A \o B
  <2>1. C \in Seq(Statement) /\ ToSet(C) = ToSet(A) \cup ToSet(D)
    BY <1>2, <1>9, ConcatSet
  <2>2. (A \o D) \o U = A \o (D \o U)
    BY <1>2, <1>9, ConcatAssociative, SMTT(30)
  <2> QED BY <2>1, <2>2
<1> HIDE DEF B, C
<1>13. L = A \o B /\ L \in Seq(Statement) /\ ToSet(L) = ToSet(A) \cup ToSet(B) /\ Len(L) \in Nat
  <2>1. L = A \o B
    BY <1>11, <1>12
  <2>2. A \o B \in Seq(Statement) /\ ToSet(A \o B) = ToSet(A) \cup ToSet(B)
    BY <1>9, <1>10, ConcatSet
  <2> QED BY <2>1, <2>2
<1>14. \A x \in ToSet(L) : Fits(d, x)
  <2> SUFFICES ASSUME NEW x \in ToSet(L) PROVE Fits(d, x)
    OBVIOUS
  <2>1. CASE x \in ToSet(G)
    BY <1>3, <2>1 DEF Fits
  <2>2. CASE x \in ToSet(R)
    BY <1>4, <2>2 DEF Fits
  <2>3. CASE x \in ToSet(D)
    BY <1>6, <2>3 DEF Fits
  <2>4. CASE x \in ToSet(U)
    BY <1>7, <2>4 DEF Fits
  <2> QED BY <1>9, <1>10, <1>13, <2>1, <2>2, <2>3, <2>4
<1>15. IndexFirst(L)
  <2>1. /\ Len(C) \in Nat
        /\ \A p \in 1..Len(L) : \/ p \in 1..Len(C) /\ L[p] \in ToSet(C)
                                \/ p > Len(C) /\ L[p] \in ToSet(U)
    <3>1. Joined(C, U, L)
      BY <1>2, <1>11, <1>12, ConcatPlaces
    <3>2. Len(C) \in Nat
      BY <3>1 DEF Joined
    <3>3. ASSUME NEW p \in 1..Len(L) 
          PROVE  \/ p \in 1..Len(C) /\ L[p] \in ToSet(C)
                 \/ p > Len(C) /\ L[p] \in ToSet(U)
      BY <3>1 DEF Joined
    <3> QED BY <3>2, <3>3
  <2>2. SUFFICES ASSUME NEW p \in 1..Len(L), NEW q \in 1..Len(L), p < q,
                        L[q].verb = "DEFINE INDEX", Disturbs(L[p], L[q].table)
                 PROVE  FALSE
    BY DEF IndexFirst
  <2>3. L[q] \notin ToSet(U)
    BY <1>7, <2>2
  <2>4. L[p] \in ToSet(C)
    <3>1. q \in 1..Len(C)
      BY <2>1, <2>3
    <3>2. Len(C) \in Nat /\ p < q /\ p \in Nat
      <4>1. p \in Nat
        BY <1>13
      <4>2. Len(C) \in Nat
        BY <2>1
      <4> QED BY <2>2, <4>1, <4>2
    <3>3. ~(p > Len(C))
      BY <3>1, <3>2
    <3> QED BY <2>1, <3>3
  <2> QED BY <1>3, <1>4, <1>6, <1>9, <1>12, <2>2, <2>4 DEF Disturbs
<1>16. Replaced(d, L)
  <2>1. /\ Len(A) \in Nat
        /\ \A p \in 1..Len(L) : \/ p \in 1..Len(A) /\ L[p] \in ToSet(A)
                                \/ p > Len(A) /\ L[p] \in ToSet(B)
        /\ \A y \in ToSet(B) : \E q \in 1..Len(L) : q > Len(A) /\ L[q] = y
    <3>1. Joined(A, B, L)
      BY <1>9, <1>10, <1>13, ConcatPlaces
    <3>2. Len(A) \in Nat /\ \A y \in ToSet(B) : \E q \in 1..Len(L) : q > Len(A) /\ L[q] = y
      BY <3>1 DEF Joined
    <3>3. ASSUME NEW p \in 1..Len(L) 
          PROVE  \/ p \in 1..Len(A) /\ L[p] \in ToSet(A)
                 \/ p > Len(A) /\ L[p] \in ToSet(B)
      BY <3>1 DEF Joined
    <3> QED BY <3>2, <3>3
  <2>2. SUFFICES ASSUME NEW p \in 1..Len(L), L[p].verb = "REMOVE INDEX",
                        NEW k \in Secondary(d.next), k.name = L[p].index
                 PROVE  \E q \in 1..Len(L) : q > p /\ L[q] = DefineIndex(d.next, k, FALSE)
    BY DEF Replaced
  <2>3. p \in 1..Len(A) /\ L[p] \in ToSet(R)
    BY <1>3, <1>6, <1>7, <1>9, <1>10, <2>1, <2>2
  <2>4. PICK i \in Secondary(d.previous) : /\ Outgoing(d, i) \/ Touching(i, Moves(d))
                                           /\ L[p] = RemoveIndex(d.previous, i)
    BY <1>4, <2>3
  <2>5. k.name = i.name
    <3>1. RemoveIndex(d.previous, i).index = i.name
      BY DEF RemoveIndex
    <3> QED BY <2>2, <2>4, <3>1
  <2>6. DefineIndex(d.next, k, FALSE) \in ToSet(B)
    BY <1>5, <1>10, <2>4, <2>5, RemovedReturns
  <2>7. PICK q \in 1..Len(L) : q > Len(A) /\ L[q] = DefineIndex(d.next, k, FALSE)
    BY <2>1, <2>6
  <2>8. q > p
    BY <1>13, <2>1, <2>3, <2>7
  <2> QED BY <2>7, <2>8
<1>17. ASSUME Unsafe(d) PROVE Len(L) > 0 /\ L[1].verb = "THROW"
  <2>1. Len(G) > 0 /\ 1 \in 1..Len(G)
    BY <1>2, <1>8, <1>17 DEF ToSet
  <2>2. /\ Len(A) = Len(G) + Len(R) /\ A[1] = G[1] /\ Len(R) \in Nat
    BY <1>2, <2>1 DEF A
  <2>3. /\ Len(L) = Len(A) + Len(B) /\ L[1] = A[1] /\ Len(B) \in Nat
    <3>1. 1 \in 1..Len(A)
      BY <1>2, <2>1, <2>2
    <3> QED BY <1>9, <1>10, <1>13, <3>1
  <2>4. G[1].verb = "THROW"
    BY <1>2, <1>3, <2>1 DEF ToSet
  <2> QED BY <1>2, <2>1, <2>2, <2>3, <2>4
<1>18. RemovesFirst(L)
  <2>1. Joined(A, B, L)
    BY <1>9, <1>10, <1>13, ConcatPlaces
  <2>2. SUFFICES ASSUME NEW p \in 1..Len(L), NEW q \in 1..Len(L), p < q,
                        L[p].verb = "DEFINE INDEX", L[q].verb = "REMOVE INDEX"
                 PROVE  FALSE
    BY DEF RemovesFirst
  <2>3. L[p] \notin ToSet(A) /\ L[q] \notin ToSet(B)
    BY <1>3, <1>4, <1>6, <1>7, <1>9, <1>10, <2>2
  <2>4. p > Len(A) /\ q \in 1..Len(A) /\ Len(A) \in Nat
    BY <2>1, <2>3 DEF Joined
  <2>5. p \in Nat /\ q \in Nat
    BY <1>13
  <2>6. q <= Len(A)
    BY <2>4
  <2>7. p < q
    BY <2>2
  <2> QED BY <2>4, <2>5, <2>6, <2>7
<1>19. ToSet(R) \cup ToSet(D) \subseteq ToSet(L)
  BY <1>9, <1>10, <1>13
<1> QED BY <1>13, <1>14, <1>15, <1>16, <1>17, <1>18, <1>19 DEF L, R, D

-----------------------------------------------------------------------------
(* The statements of one diff. *)

PartOf(d, L) ==
    /\ L \in Seq(Statement) /\ IndexFirst(L) /\ RemovesFirst(L) /\ Replaced(d, L)
    /\ \A x \in ToSet(L) : Fits(d, x)
    /\ Unsafe(d) => Len(L) > 0 /\ L[1].verb = "THROW"

(* A list without updates and removals, or with a single statement. *)
Defining(L) == \A x \in ToSet(L) : x.verb \in {"DEFINE TABLE", "DEFINE INDEX"}
Alone(d, x) == Fits(d, x) /\ x.verb # "REMOVE INDEX" /\ (Unsafe(d) => x.verb = "THROW")

LEMMA PlainPart ==
    ASSUME NEW d \in Diff, NEW L \in Seq(Statement), Defining(L)
    PROVE  IndexFirst(L) /\ RemovesFirst(L) /\ Replaced(d, L)
<1>1. \A p \in 1..Len(L) : L[p] \in ToSet(L)
  <2>1. DOMAIN L = 1..Len(L)
    OBVIOUS
  <2> QED BY <2>1 DEF ToSet
<1>2. \A p \in 1..Len(L) : L[p].verb \in {"DEFINE TABLE", "DEFINE INDEX"}
  BY <1>1 DEF Defining
<1>3. IndexFirst(L)
  BY <1>2 DEF IndexFirst, Disturbs
<1>4. RemovesFirst(L)
  BY <1>2 DEF RemovesFirst
<1>5. Replaced(d, L)
  BY <1>2 DEF Replaced
<1> QED BY <1>3, <1>4, <1>5

LEMMA SinglePart ==
    ASSUME NEW d \in Diff, NEW x \in Statement, Alone(d, x)
    PROVE  PartOf(d, <<x>>) /\ ToSet(<<x>>) = {x}
<1> DEFINE L == <<x>>
<1>0. L \in Seq(Statement)
  OBVIOUS
<1>1. Len(L) = 1 /\ L[1] = x /\ DOMAIN L = {1}
  OBVIOUS
<1> HIDE DEF L
<1>2. ToSet(L) = {x}
  BY <1>1 DEF ToSet
<1>3. \A p \in 1..Len(L) : p = 1 /\ L[p] = x
  BY <1>1
<1>4. \A p, q \in 1..Len(L) : ~(p < q)
  BY <1>1
<1>5. IndexFirst(L) /\ RemovesFirst(L)
  BY <1>4 DEF IndexFirst, RemovesFirst
<1>6. Replaced(d, L)
  BY <1>3 DEF Replaced, Alone
<1>7. Len(L) > 0
  BY <1>1
<1> QED BY <1>0, <1>1, <1>2, <1>5, <1>6, <1>7 DEF PartOf, Alone, L

LEMMA Created ==
    ASSUME NEW d \in Diff, d.kind = "Create"
    PROVE  LET L == TableStatements(d) IN
           /\ PartOf(d, L) /\ DefineTable(d.next, FALSE) \in ToSet(L)
           /\ Len(L) > 0 /\ L[1] = DefineTable(d.next, FALSE)
           /\ \A i \in Secondary(d.next) : DefineIndex(d.next, i, FALSE) \in ToSet(L)
<1> DEFINE L == TableStatements(d)
<1>1. L = define_table_statements(d.next, FALSE)
  BY DEF TableStatements
<1>2. d.next \in Schema
  BY DiffFacts
<1>3. /\ L \in Seq(Statement) /\ Len(L) > 0 /\ L[1] = DefineTable(d.next, FALSE)
      /\ \A x : x \in ToSet(L) <=> \/ x = DefineTable(d.next, FALSE)
                                   \/ \E i \in Secondary(d.next) : x = DefineIndex(d.next, i, FALSE)
  BY <1>1, <1>2, Defines
<1> HIDE DEF L
<1>4. /\ DefineTable(d.next, FALSE).verb = "DEFINE TABLE"
      /\ \A i : DefineIndex(d.next, i, FALSE).verb = "DEFINE INDEX"
  BY DEF DefineTable, DefineIndex
<1>5. \A x \in ToSet(L) : Fits(d, x) /\ x.verb \in {"DEFINE TABLE", "DEFINE INDEX"}
  <2> SUFFICES ASSUME NEW x \in ToSet(L)
               PROVE  Fits(d, x) /\ x.verb \in {"DEFINE TABLE", "DEFINE INDEX"}
    OBVIOUS
  <2>1. CASE x = DefineTable(d.next, FALSE)
    BY <1>4, <2>1 DEF Fits
  <2>2. CASE \E i \in Secondary(d.next) : x = DefineIndex(d.next, i, FALSE)
    <3>1. x.verb = "DEFINE INDEX"
      BY <1>4, <2>2
    <3> QED BY <2>2, <3>1 DEF Fits
  <2> QED BY <1>3, <2>1, <2>2
<1>6. IndexFirst(L) /\ RemovesFirst(L) /\ Replaced(d, L)
  BY <1>3, <1>5, PlainPart DEF Defining
<1>7. ~Unsafe(d)
  BY DEF Unsafe
<1>8. PartOf(d, L)
  BY <1>3, <1>5, <1>6, <1>7 DEF PartOf
<1> QED BY <1>3, <1>8 DEF L

LEMMA Dropped ==
    ASSUME NEW d \in Diff, d.kind = "Drop"
    PROVE  LET L == TableStatements(d) IN
           PartOf(d, L) /\ \E x \in ToSet(L) : x.verb = "REMOVE TABLE" /\ x.table = d.previous.name
<1> DEFINE x == RemoveTable(d.previous)
<1>1. TableStatements(d) = <<x>>
  BY DEF TableStatements
<1>2. x \in Statement
  BY DiffFacts, TableTyping
<1>3. x.verb = "REMOVE TABLE" /\ x.table = d.previous.name
  BY DEF RemoveTable
<1>4. ~Unsafe(d)
  BY DEF Unsafe
<1> HIDE DEF x
<1>5. Fits(d, x)
  BY <1>3 DEF Fits
<1>6. PartOf(d, <<x>>) /\ ToSet(<<x>>) = {x}
  BY <1>2, <1>3, <1>4, <1>5, SinglePart DEF Alone
<1>7. x \in ToSet(<<x>>)
  BY <1>6
<1> QED BY <1>1, <1>3, <1>6, <1>7

LEMMA Renames ==
    ASSUME NEW d \in Diff, d.kind = "Alter", d.previous.name # d.next.name
    PROVE  PartOf(d, TableStatements(d))
<1> DEFINE x == Throw("table rename", d.next.name)
<1>1. TableStatements(d) = <<x>>
  BY DEF TableStatements, render_alter_table
<1>2. x \in Statement
  BY DiffFacts, TableTyping
<1>3. x.verb = "THROW"
  BY DEF Throw
<1> HIDE DEF x
<1>4. Fits(d, x)
  BY <1>3 DEF Fits
<1> QED BY <1>1, <1>2, <1>3, <1>4, SinglePart DEF Alone

LEMMA Parts ==
    ASSUME NEW d \in Diff, IndexesNamed(d.previous)
    PROVE  PartOf(d, TableStatements(d))
<1>1. CASE d.kind = "Create"
  BY <1>1, Created
<1>2. CASE d.kind = "Drop"
  BY <1>2, Dropped
<1>3. CASE d.kind = "Alter" /\ d.previous.name # d.next.name
  BY <1>3, Renames
<1>4. CASE d.kind = "Alter" /\ d.previous.name = d.next.name
  <2> DEFINE L == render_alter_table(d)
  <2>1. TableStatements(d) = L
    BY <1>4 DEF TableStatements
  <2>2. /\ L \in Seq(Statement) /\ IndexFirst(L) /\ RemovesFirst(L) /\ Replaced(d, L)
        /\ \A x \in ToSet(L) : Fits(d, x)
        /\ Unsafe(d) => Len(L) > 0 /\ L[1].verb = "THROW"
    BY <1>4, Alters
  <2> HIDE DEF L
  <2> QED BY <2>1, <2>2 DEF PartOf
<1> QED BY <1>1, <1>2, <1>3, <1>4, DiffFacts

-----------------------------------------------------------------------------
(* The inductive invariant. *)

(* An index over the fields `columns`, as it is when it agrees with the rows. *)
IndexOf(rows, columns, unique) ==
    [columns |-> columns, unique |-> unique,
     entries |-> [id \in DOMAIN rows |-> Project(rows[id], columns)]]
CurrentIndexes(rows, indices) ==
    /\ indices = [i \in DOMAIN indices |-> indices[i]]
    /\ \A i \in DOMAIN indices :
          indices[i] = IndexOf(rows, indices[i].columns, indices[i].unique)
CurrentTable(t) ==
    t = [rows |-> t.rows, indices |-> t.indices] /\ CurrentIndexes(t.rows, t.indices)
CurrentDb(v) ==
    v = [t \in DOMAIN v |-> v[t]] /\ \A t \in DOMAIN v : CurrentTable(v[t])

RowsOf(v, t) == IF t \in DOMAIN v THEN v[t].rows ELSE Empty

(* The index i of table t is defined as the schema has it. *)
DefinedIn(v, t, i) ==
    /\ HasIndex(v, t.name, i.name)
    /\ v[t.name].indices[i.name].columns = i.columns
    /\ v[t.name].indices[i.name].unique = i.unique

(* Before the migration: the previous schema, and pushed parts of the next. *)
Legit(diffs, v) ==
    /\ \A t \in Before(diffs) : t.name \in DOMAIN v /\ \A i \in Secondary(t) : DefinedIn(v, t, i)
    /\ \A n \in DOMAIN v : \E t \in Before(diffs) \cup After(diffs) : t.name = n
    /\ \A n, m : HasIndex(v, n, m) =>
          \E t \in Before(diffs) \cup After(diffs) : t.name = n /\ \E i \in Secondary(t) : i.name = m

Safe(diffs) == \A d \in ToSet(diffs) : ~Unsafe(d)

(* What may remain to be run of a migration: no index is spoilt after it is built
   or removed after it is defined, and those of the next schema come back.    *)
Disturbing == {s \in Statement \X Statement :
                  s[2].verb = "DEFINE INDEX" /\ Disturbs(s[1], s[2].table)}
Reversed == {s \in Statement \X Statement :
                s[1].verb = "DEFINE INDEX" /\ s[2].verb = "REMOVE INDEX" /\ s[1].table = s[2].table}
Restores(diffs) ==
    {s \in Statement \X Statement : s[1].verb = "REMOVE INDEX" /\
        \E t \in After(diffs) : \E i \in Secondary(t) :
            t.name = s[1].table /\ i.name = s[1].index /\ s[2] = DefineIndex(t, i, FALSE)}
Plan(diffs, L) ==
    /\ L \in Seq(Statement)
    /\ Avoids(L, Disturbing) /\ Avoids(L, Reversed) /\ Follows(L, Restores(diffs))
    /\ \A x \in ToSet(L) : x = ReturnNone \/ \E d \in ToSet(diffs) : Fits(d, x)

(* Every secondary index is over columns of its table that are not in the key. *)
OverFields(t) == \A i \in Secondary(t) : ToSet(i.columns) \subseteq Fields(t)
FieldIndexes(diffs) == \A t \in Before(diffs) \cup After(diffs) : OverFields(t)

RemovesTable(x, n)    == x.verb = "REMOVE TABLE" /\ x.table = n
RemovesIndex(x, n, m) == x.verb = "REMOVE INDEX" /\ x.table = n /\ x.index = m

(* What the next schema has is there, or still to be defined; what it has not is
   not there, or still to be removed.                                        *)
Reaches(diffs, v, L) ==
    /\ \A t \in After(diffs) : t.name \in DOMAIN v \/ DefineTable(t, FALSE) \in ToSet(L)
    /\ \A n \in DOMAIN v : (\E t \in After(diffs) : t.name = n) \/ \E x \in ToSet(L) : RemovesTable(x, n)
    /\ \A t \in After(diffs) : \A i \in Secondary(t) :
          \/ DefineIndex(t, i, FALSE) \in ToSet(L)
          \/ /\ HasIndex(v, t.name, i.name)
             /\ FieldIndexes(diffs) => DefinedIn(v, t, i)
             /\ \A x \in ToSet(L) : ~RemovesIndex(x, t.name, i.name)
    /\ \A t \in After(diffs) : \A m : HasIndex(v, t.name, m) =>
          (\E i \in Secondary(t) : i.name = m) \/ \E x \in ToSet(L) : RemovesIndex(x, t.name, m)

(* A list of statements does not spoil what it defines. *)
RowsKnown(base, v, L) ==
    \A x \in ToSet(L) : x.verb = "DEFINE INDEX" => RowsOf(v, x.table) = RowsOf(base, x.table)
(* A table that is created and was there already is still there, and so is the
   statement that will not be accepted. *)
Drifts(diffs, base, v, L) ==
    \A d \in ToSet(diffs) : d.kind = "Create" /\ d.next.name \in DOMAIN base =>
        d.next.name \in DOMAIN v /\ DefineTable(d.next, FALSE) \in ToSet(L)
(* Statements that change table n, those that cannot be accepted while n is there,
   and a list where none of the former comes before one of the latter.         *)
Touchers(n) == {x \in Statement : x.table = n /\
    x.verb \in {"REMOVE TABLE", "DEFINE INDEX", "REMOVE INDEX", "UPDATE SET", "UPDATE UNSET"}}
Stoppers(n) == {x \in Statement :
    x.verb = "THROW" \/ (x.verb = "DEFINE TABLE" /\ x.table = n /\ x.if_not_exists = FALSE)}
Shielded(L, n) == Preceded(L, Touchers(n), Stoppers(n))
Same(base, v, n) == n \in DOMAIN base /\ n \in DOMAIN v /\ v[n] = base[n]

(* A statement that throws is ahead, and until it is met the table of an unsafe
   diff is as it was. *)
Guarded(diffs, base, v, L) ==
    /\ ~Safe(diffs) => \E x \in ToSet(L) : x.verb = "THROW"
    /\ \A d \in ToSet(diffs) : Unsafe(d) =>
          Same(base, v, d.previous.name) /\ Shielded(L, d.previous.name)

MigrateInv(diffs, j) ==
    /\ Plan(diffs, j.todo) /\ CurrentDb(j.base) /\ CurrentDb(j.view)
    /\ RowsKnown(j.base, j.view, j.todo)
    /\ Safe(diffs) => Reaches(diffs, j.view, j.todo)
    /\ Guarded(diffs, j.base, j.view, j.todo)
    /\ Drifts(diffs, j.base, j.view, j.todo)

(* What is not defined yet, a push has still to define. *)
Defined(diffs, v, L) ==
    \A t \in After(diffs) :
        /\ t.name \in DOMAIN v \/ DefineTable(t, TRUE) \in ToSet(L)
        /\ \A i \in Secondary(t) :
              HasIndex(v, t.name, i.name) \/ DefineIndex(t, i, TRUE) \in ToSet(L)
Pushing(diffs, x) ==
    \E t \in After(diffs) :
        x = DefineTable(t, TRUE) \/ \E i \in Secondary(t) : x = DefineIndex(t, i, TRUE)
PushInv(diffs, v, j) ==
    /\ j.todo \in Seq(Statement) /\ \A x \in ToSet(j.todo) : Pushing(diffs, x)
    /\ Defined(diffs, v, j.todo)

IsJob(j) == j = [at |-> j.at, todo |-> j.todo, base |-> j.base, view |-> j.view]
JobInv(diffs, v, j) ==
    /\ IsJob(j) /\ j.at \in {"idle", "push", "migrate"}
    /\ j.at = "push" => PushInv(diffs, v, j)
    /\ j.at = "migrate" => MigrateInv(diffs, j)

GenInv ==
    /\ change \in Changes /\ applied \in BOOLEAN
    /\ reply = [c \in Clients |-> reply[c]] /\ job = [c \in Clients |-> job[c]]
    /\ CurrentDb(db)
    /\ (\E c \in Clients : reply[c] = "pushed") => Defined(change, db, << >>)
    /\ ~applied => Legit(change, db)
    /\ applied => Safe(change)
    /\ \A c \in Clients : JobInv(change, db, job[c])

-----------------------------------------------------------------------------
(* The names in a change. *)

LEMMA ChangeFacts ==
    ASSUME NEW diffs \in Changes
    PROVE  /\ diffs \in Seq(Diff) /\ DOMAIN diffs = 1..Len(diffs) /\ Len(diffs) \in Nat
           /\ \A k \in 1..Len(diffs) : diffs[k] \in Diff /\ diffs[k] \in ToSet(diffs)
           /\ \A d \in ToSet(diffs) : \E k \in 1..Len(diffs) : d = diffs[k]
           /\ \A d \in ToSet(diffs) : d \in Diff /\ IndexesNamed(d.previous) /\ IndexesNamed(d.next)
<1>1. diffs \in Seq(Diff)
  BY ChangesAssumption
<1>2. DOMAIN diffs = 1..Len(diffs) /\ Len(diffs) \in Nat /\ \A k \in 1..Len(diffs) : diffs[k] \in Diff
  BY <1>1
<1>3. \A k \in DOMAIN diffs : IndexesNamed(diffs[k].previous) /\ IndexesNamed(diffs[k].next)
  BY ChangesAssumption
<1> QED BY <1>1, <1>2, <1>3 DEF ToSet

LEMMA Distinct ==
    ASSUME NEW diffs \in Changes, NEW j \in 1..Len(diffs), NEW k \in 1..Len(diffs)
    PROVE  LET d == diffs[j]  e == diffs[k] IN
           /\ j # k /\ d.kind # "Create" /\ e.kind # "Create" => d.previous.name # e.previous.name
           /\ j # k /\ d.kind # "Drop" /\ e.kind # "Drop" => d.next.name # e.next.name
           /\ d.kind = "Create" /\ e.kind = "Drop" => d.next.name # e.previous.name
<1>1. j \in DOMAIN diffs /\ k \in DOMAIN diffs
  BY ChangeFacts
<1> QED BY <1>1, ChangesAssumption

(* The tables of a schema are identified by their names. *)
LEMMA SchemaNames ==
    ASSUME NEW diffs \in Changes
    PROVE  /\ \A t \in Before(diffs) : t \in Schema /\ IndexesNamed(t)
                 /\ \E d \in ToSet(diffs) : d.kind # "Create" /\ t = d.previous
           /\ \A t \in After(diffs) : t \in Schema /\ IndexesNamed(t)
                 /\ \E d \in ToSet(diffs) : d.kind # "Drop" /\ t = d.next
           /\ \A d \in ToSet(diffs) : d.kind # "Create" => d.previous \in Before(diffs)
           /\ \A d \in ToSet(diffs) : d.kind # "Drop" => d.next \in After(diffs)
           /\ \A d, e \in ToSet(diffs) :
                 /\ d.kind # "Create" /\ e.kind # "Create" /\ d.previous.name = e.previous.name => d = e
                 /\ d.kind # "Drop" /\ e.kind # "Drop" /\ d.next.name = e.next.name => d = e
                 /\ d.kind = "Create" /\ e.kind = "Drop" => d.next.name # e.previous.name
<1>1. \A d \in ToSet(diffs) : /\ d \in Diff /\ IndexesNamed(d.previous) /\ IndexesNamed(d.next)
                              /\ d.previous \in Schema /\ d.next \in Schema
  BY ChangeFacts, DiffFacts
<1>2. ASSUME NEW d \in ToSet(diffs), NEW e \in ToSet(diffs)
      PROVE  /\ d.kind # "Create" /\ e.kind # "Create" /\ d.previous.name = e.previous.name => d = e
             /\ d.kind # "Drop" /\ e.kind # "Drop" /\ d.next.name = e.next.name => d = e
             /\ d.kind = "Create" /\ e.kind = "Drop" => d.next.name # e.previous.name
  <2>1. PICK j \in 1..Len(diffs) : d = diffs[j]
    BY ChangeFacts
  <2>2. PICK k \in 1..Len(diffs) : e = diffs[k]
    BY ChangeFacts
  <2> QED BY <2>1, <2>2, Distinct
<1> QED BY <1>1, <1>2 DEF Before, After

LEMMA IndexNames ==
    ASSUME NEW t, IndexesNamed(t)
    PROVE  \A i, k \in ToSet(t.indices) : i.name = k.name => i = k
BY DEF IndexesNamed, ToSet

-----------------------------------------------------------------------------
(* What generate() promises of the order of its statements. *)

(* Within a diff. *)
LEMMA PartOrders ==
    ASSUME NEW diffs \in Changes, NEW d \in ToSet(diffs), NEW L, PartOf(d, L)
    PROVE  Avoids(L, Disturbing) /\ Avoids(L, Reversed) /\ Follows(L, Restores(diffs))
<1>1. /\ L \in Seq(Statement) /\ IndexFirst(L) /\ RemovesFirst(L) /\ Replaced(d, L)
      /\ \A x \in ToSet(L) : Fits(d, x)
  BY DEF PartOf
<1>2. \A p \in 1..Len(L) : Fits(d, L[p])
  <2>1. DOMAIN L = 1..Len(L)
    BY <1>1
  <2> QED BY <1>1, <2>1 DEF ToSet
<1>3. Avoids(L, Disturbing)
  BY <1>1 DEF Avoids, Disturbing, IndexFirst
<1>4. Avoids(L, Reversed)
  BY <1>1 DEF Avoids, Reversed, RemovesFirst
<1>5. Follows(L, Restores(diffs))
  <2>1. SUFFICES ASSUME NEW p \in 1..Len(L), NEW y, <<L[p], y>> \in Restores(diffs)
                 PROVE  \E q \in 1..Len(L) : q > p /\ L[q] = y
    BY DEF Follows
  <2>2. PICK t \in After(diffs) : L[p].verb = "REMOVE INDEX" /\ \E i \in Secondary(t) :
            t.name = L[p].table /\ i.name = L[p].index /\ y = DefineIndex(t, i, FALSE)
    BY <2>1 DEF Restores
  <2>3. PICK i \in Secondary(t) :
            t.name = L[p].table /\ i.name = L[p].index /\ y = DefineIndex(t, i, FALSE)
    BY <2>2
  <2>4. PICK e \in ToSet(diffs) : e.kind # "Drop" /\ t = e.next
    BY SchemaNames
  <2>5. d.kind = "Alter" /\ d.previous.name = d.next.name /\ L[p].table = d.previous.name
    <3>1. \A k : RemoveIndex(d.previous, k).table = d.previous.name
      BY DEF RemoveIndex
    <3> QED BY <1>2, <2>2, <3>1 DEF Fits
  <2>6. t = d.next
    BY <2>3, <2>4, <2>5, SchemaNames
  <2> QED BY <1>1, <2>2, <2>3, <2>6 DEF Replaced
<1> QED BY <1>3, <1>4, <1>5

(* Between two diffs: their tables differ. *)
LEMMA PartsApart ==
    ASSUME NEW diffs \in Changes, NEW j \in 1..Len(diffs), NEW k \in 1..Len(diffs), j # k,
           NEW x, NEW y, Fits(diffs[j], x), Fits(diffs[k], y)
    PROVE  <<x, y>> \notin Disturbing /\ <<x, y>> \notin Reversed
<1> DEFINE d == diffs[j]
           e == diffs[k]
<1>1. /\ d.kind # "Create" /\ e.kind # "Create" => d.previous.name # e.previous.name
      /\ d.kind # "Drop" /\ e.kind # "Drop" => d.next.name # e.next.name
      /\ e.kind = "Create" /\ d.kind = "Drop" => e.next.name # d.previous.name
  BY Distinct
<1>2. Fits(d, x) /\ Fits(e, y)
  OBVIOUS
<1> HIDE DEF d, e
<1>3. /\ \A t, i : DefineIndex(t, i, FALSE).table = t.name
      /\ \A t, i : RemoveIndex(t, i).table = t.name
  BY DEF DefineIndex, RemoveIndex
<1>4. ASSUME y.verb = "DEFINE INDEX"
      PROVE  /\ y.table = e.next.name
             /\ e.kind = "Create" \/ (e.kind = "Alter" /\ e.previous.name = e.next.name)
  BY <1>2, <1>3, <1>4 DEF Fits
<1>5. <<x, y>> \notin Disturbing
  <2> SUFFICES ASSUME y.verb = "DEFINE INDEX", Disturbs(x, y.table) PROVE FALSE
    BY DEF Disturbing
  <2>1. CASE x.verb = "REMOVE TABLE"
    <3>1. d.kind = "Drop" /\ x.table = d.previous.name /\ x.table = y.table
      BY <1>2, <2>1 DEF Fits, Disturbs
    <3> QED BY <1>1, <1>4, <3>1
  <2>2. CASE x.verb \in {"UPDATE SET", "UPDATE UNSET"}
    <3>1. d.kind = "Alter" /\ x.table = d.next.name /\ x.table = y.table
      BY <1>2, <2>2 DEF Fits, Disturbs
    <3> QED BY <1>1, <1>4, <3>1
  <2> QED BY <2>1, <2>2 DEF Disturbs
<1>6. ASSUME x.verb = "DEFINE INDEX" PROVE x.table = d.next.name /\ d.kind # "Drop"
  BY <1>2, <1>3, <1>6 DEF Fits
<1>7. ASSUME y.verb = "REMOVE INDEX" PROVE y.table = e.next.name /\ e.kind = "Alter"
  <2>1. e.kind = "Alter" /\ e.previous.name = e.next.name
    BY <1>2, <1>7 DEF Fits
  <2>2. PICK i \in Secondary(e.previous) : y = RemoveIndex(e.previous, i)
    BY <1>2, <1>7 DEF Fits
  <2> QED BY <1>3, <2>1, <2>2
<1>8. <<x, y>> \notin Reversed
  <2> SUFFICES ASSUME x.verb = "DEFINE INDEX", y.verb = "REMOVE INDEX", x.table = y.table PROVE FALSE
    BY DEF Reversed
  <2> QED BY <1>1, <1>6, <1>7
<1> QED BY <1>5, <1>8

(* No diff touches the table of an unsafe one ahead of a guard: only the diff itself
   does, after its own, and a table that is created over it, which is not accepted. *)
LEMMA PartShields ==
    ASSUME NEW diffs \in Changes, NEW d \in ToSet(diffs), Unsafe(d), NEW e \in ToSet(diffs)
    PROVE  Shielded(TableStatements(e), d.previous.name)
<1> DEFINE L == TableStatements(e)
           n == d.previous.name
<1>1. /\ e \in Diff /\ d \in Diff /\ IndexesNamed(e.previous) /\ d.kind = "Alter"
      /\ e.kind \in {"Create", "Drop", "Alter"}
  BY ChangeFacts, DiffFacts DEF Unsafe
<1>2. PartOf(e, L)
  BY <1>1, Parts
<1>3. e.kind = "Create" => Len(L) > 0 /\ L[1] = DefineTable(e.next, FALSE)
  BY <1>1, Created
<1> HIDE DEF L
<1>4. L \in Seq(Statement) /\ \A p \in 1..Len(L) : L[p] \in Statement /\ Fits(e, L[p])
  <2>1. L \in Seq(Statement) /\ \A x \in ToSet(L) : Fits(e, x)
    BY <1>2 DEF PartOf
  <2>2. \A p \in 1..Len(L) : L[p] \in ToSet(L) /\ L[p] \in Statement
    BY <2>1 DEF ToSet
  <2> QED BY <2>1, <2>2
<1> HIDE DEF n
<1>5. SUFFICES ASSUME NEW p \in 1..Len(L), L[p] \in Touchers(n)
               PROVE  \E q \in 1..Len(L) : q < p /\ L[q] \in Stoppers(n)
  BY DEF Shielded, Preceded, L, n
<1>6. /\ L[p].table = n
      /\ L[p].verb \in {"REMOVE TABLE", "DEFINE INDEX", "REMOVE INDEX", "UPDATE SET", "UPDATE UNSET"}
  BY <1>5 DEF Touchers
<1>7. Len(L) \in Nat /\ p >= 1
  BY <1>4
<1>8. ASSUME Len(L) > 0, L[1] \in Stoppers(n), p # 1
      PROVE  \E q \in 1..Len(L) : q < p /\ L[q] \in Stoppers(n)
  <2>1. 1 \in 1..Len(L) /\ 1 < p
    BY <1>7, <1>8
  <2> QED BY <1>8, <2>1
<1>9. CASE e = d
  <2>1. Len(L) > 0 /\ L[1].verb = "THROW"
    BY <1>2, <1>9 DEF PartOf
  <2>2. p # 1
    BY <1>6, <2>1
  <2>3. L[1] \in Stoppers(n)
    <3>1. 1 \in 1..Len(L)
      BY <1>7, <2>1
    <3> QED BY <1>4, <2>1, <3>1 DEF Stoppers
  <2> QED BY <1>8, <2>1, <2>2, <2>3
<1>10. CASE e.kind = "Create"
  <2>1. PICK i \in Secondary(e.next) : L[p] = DefineIndex(e.next, i, FALSE)
    BY <1>4, <1>6, <1>10 DEF Fits
  <2>2. e.next.name = n /\ L[p].verb = "DEFINE INDEX"
    <3>1. /\ DefineIndex(e.next, i, FALSE).table = e.next.name
          /\ DefineIndex(e.next, i, FALSE).verb = "DEFINE INDEX"
      BY DEF DefineIndex
    <3> QED BY <1>6, <2>1, <3>1
  <2>3. L[1].verb = "DEFINE TABLE" /\ L[1].table = n /\ L[1].if_not_exists = FALSE
    <3>1. /\ DefineTable(e.next, FALSE).verb = "DEFINE TABLE"
          /\ DefineTable(e.next, FALSE).table = e.next.name
          /\ DefineTable(e.next, FALSE).if_not_exists = FALSE
      BY DEF DefineTable
    <3> QED BY <1>3, <1>10, <2>2, <3>1
  <2>4. p # 1
    BY <2>2, <2>3
  <2>5. L[1] \in Stoppers(n)
    <3>1. 1 \in 1..Len(L)
      BY <1>3, <1>7, <1>10
    <3> QED BY <1>4, <2>3, <3>1 DEF Stoppers
  <2> QED BY <1>3, <1>8, <1>10, <2>4, <2>5
<1>11. CASE e # d /\ e.kind # "Create"
  <2>1. e.previous.name # n
    BY <1>1, <1>11, SchemaNames DEF n
  <2>2. \A t, i : DefineIndex(t, i, FALSE).table = t.name /\ RemoveIndex(t, i).table = t.name
    BY DEF DefineIndex, RemoveIndex
  <2> DEFINE x == L[p]
  <2>3. Fits(e, x)
    BY <1>4
  <2>4. x.table = n /\ x.verb # "DEFINE TABLE"
        /\ x.verb \in {"REMOVE TABLE", "DEFINE INDEX", "REMOVE INDEX", "UPDATE SET", "UPDATE UNSET"}
    BY <1>6
  <2> HIDE DEF x
  <2>5. CASE x.verb = "REMOVE TABLE"
    BY <2>1, <2>3, <2>4, <2>5 DEF Fits
  <2>6. CASE x.verb = "DEFINE INDEX"
    <3>1. e.previous.name = e.next.name /\ \E i \in Secondary(e.next) : x = DefineIndex(e.next, i, FALSE)
      BY <1>11, <2>3, <2>6 DEF Fits
    <3> QED BY <2>1, <2>2, <2>4, <3>1
  <2>7. CASE x.verb = "REMOVE INDEX"
    <3>1. \E i \in Secondary(e.previous) : x = RemoveIndex(e.previous, i)
      BY <2>3, <2>7 DEF Fits
    <3> QED BY <2>1, <2>2, <2>4, <3>1
  <2>8. CASE x.verb \in {"UPDATE SET", "UPDATE UNSET"}
    BY <2>1, <2>3, <2>4, <2>8 DEF Fits
  <2> QED BY <2>4, <2>5, <2>6, <2>7, <2>8
<1> QED BY <1>9, <1>10, <1>11

(* The statements of a change are those of its diffs, in a safe order. *)
LEMMA Generated ==
    ASSUME NEW diffs \in Changes
    PROVE  LET L == generate(diffs) IN
           /\ Plan(diffs, L) /\ L # << >>
           /\ \A d \in ToSet(diffs) : ToSet(TableStatements(d)) \subseteq ToSet(L)
           /\ \A d \in ToSet(diffs) : Unsafe(d) => Shielded(L, d.previous.name)
<1> DEFINE ss == [k \in DOMAIN diffs |-> TableStatements(diffs[k])]
           F  == FlattenSeq(ss)
           L  == generate(diffs)
           N  == Len(diffs)
<1>1. /\ DOMAIN diffs = 1..N /\ N \in Nat
      /\ \A k \in 1..N : diffs[k] \in Diff /\ diffs[k] \in ToSet(diffs)
      /\ \A d \in ToSet(diffs) : \E k \in 1..N : d = diffs[k]
      /\ \A d \in ToSet(diffs) : d \in Diff /\ IndexesNamed(d.previous)
  BY ChangeFacts
<1>2. L = IF F = << >> THEN <<ReturnNone>> ELSE F
  BY DEF generate, ForEach
<1>3. \A k \in 1..N : PartOf(diffs[k], ss[k])
  BY <1>1, Parts
<1>4. ss \in Seq(Seq(Statement)) /\ Len(ss) = N
  <2>1. \A k \in 1..N : ss[k] \in Seq(Statement)
    BY <1>3 DEF PartOf
  <2>2. ss = [k \in 1..N |-> ss[k]]
    BY <1>1
  <2> HIDE DEF ss, N
  <2> QED BY <1>1, <2>1, <2>2
<1>5. \A k \in 1..N : ss[k] = TableStatements(diffs[k])
  BY <1>1
<1> HIDE DEF ss, F, L, N
<1>6. F \in Seq(Statement) /\ \A x : x \in ToSet(F) <=> \E k \in 1..N : x \in ToSet(ss[k])
  BY <1>4, FlattenMembers DEF F
<1>7. ASSUME NEW j \in 1..N, NEW k \in 1..N, j < k, NEW x \in ToSet(ss[j]), NEW y \in ToSet(ss[k])
      PROVE  <<x, y>> \notin Disturbing /\ <<x, y>> \notin Reversed
  <2>1. Fits(diffs[j], x) /\ Fits(diffs[k], y)
    BY <1>3 DEF PartOf
  <2>2. j # k
    BY <1>7
  <2> QED BY <2>1, <2>2, PartsApart DEF N
<1>8. \A k \in 1..N : Avoids(ss[k], Disturbing) /\ Avoids(ss[k], Reversed)
                      /\ Follows(ss[k], Restores(diffs))
  BY <1>1, <1>3, PartOrders
<1>9. Avoids(F, Disturbing)
  BY <1>4, <1>7, <1>8, FlattenAvoids DEF F
<1>10. Avoids(F, Reversed)
  BY <1>4, <1>7, <1>8, FlattenAvoids DEF F
<1>11. Follows(F, Restores(diffs))
  BY <1>4, <1>8, FlattenFollows DEF F
<1>12. \A x \in ToSet(F) : \E d \in ToSet(diffs) : Fits(d, x)
  BY <1>1, <1>3, <1>6 DEF PartOf
<1>13. Plan(diffs, F)
  BY <1>6, <1>9, <1>10, <1>11, <1>12 DEF Plan
<1>14. Plan(diffs, <<ReturnNone>>)
  <2> DEFINE R == <<ReturnNone>>
  <2>1. ReturnNone \in Statement /\ ReturnNone.verb = "RETURN NONE"
    BY DEF ReturnNone, Statement
  <2>2. Len(R) = 1 /\ R[1] = ReturnNone /\ DOMAIN R = {1}
    OBVIOUS
  <2>3. R \in Seq(Statement)
    <3>1. ReturnNone \in Statement
      BY <2>1
    <3> QED BY <3>1
  <2>4. ToSet(R) = {ReturnNone}
    BY <2>2 DEF ToSet
  <2> HIDE DEF R
  <2>5. Avoids(R, Disturbing) /\ Avoids(R, Reversed)
    <3>1. \A p, q \in 1..Len(R) : ~(p < q)
      BY <2>2
    <3> QED BY <3>1 DEF Avoids
  <2>6. Follows(R, Restores(diffs))
    <3>1. \A p \in 1..Len(R) : R[p] = ReturnNone
      BY <2>2
    <3> QED BY <2>1, <3>1 DEF Follows, Restores
  <2>7. Plan(diffs, R)
    BY <2>3, <2>4, <2>5, <2>6 DEF Plan
  <2> QED BY <2>7 DEF R
<1>15. Plan(diffs, L) /\ L # << >>
  BY <1>2, <1>13, <1>14
<1>16. ASSUME NEW d \in ToSet(diffs) PROVE ToSet(TableStatements(d)) \subseteq ToSet(L)
  <2>1. PICK k \in 1..N : d = diffs[k]
    BY <1>1
  <2>2. ToSet(TableStatements(d)) \subseteq ToSet(F)
    BY <1>5, <1>6, <2>1
  <2>3. F = << >> => ToSet(F) = {}
    BY DEF ToSet
  <2> QED BY <1>2, <2>2, <2>3
<1>17. ASSUME NEW d \in ToSet(diffs), Unsafe(d) PROVE Shielded(L, d.previous.name)
  <2> DEFINE n == d.previous.name
  <2>1. \A k \in 1..N : Shielded(ss[k], n)
    BY <1>1, <1>5, <1>17, PartShields
  <2>2. Shielded(F, n)
    BY <1>4, <2>1, FlattenPreceded DEF F, Shielded
  <2>3. Shielded(<<ReturnNone>>, n)
    <3> DEFINE R == <<ReturnNone>>
    <3>1. ReturnNone.verb = "RETURN NONE"
      BY DEF ReturnNone
    <3>2. \A p \in 1..Len(R) : R[p] = ReturnNone
      OBVIOUS
    <3> HIDE DEF R
    <3>3. Shielded(R, n)
      BY <3>1, <3>2 DEF Shielded, Preceded, Touchers
    <3> QED BY <3>3 DEF R
  <2> QED BY <1>2, <2>2, <2>3
<1> QED BY <1>15, <1>16, <1>17 DEF L

-----------------------------------------------------------------------------
(* A migration that begins reaches the next schema from any legitimate database. *)

(* An index over fields that the diff leaves alone names the same fields. *)
LEMMA SameColumns ==
    ASSUME NEW d \in Diff, OverFields(d.previous), OverFields(d.next),
           NEW from \in Secondary(d.previous), NEW i \in Secondary(d.next), ~Altered(d, from, i),
           ~Touching(i, {Mapped(d, m) : m \in Moves(d)})
    PROVE  from.columns = i.columns
<1>1. from.columns \in Seq(Columns)
  <2>1. d.previous \in Schema
    BY DiffFacts
  <2>2. from \in Index
    <3>1. from \in ToSet(d.previous.indices)
      BY DEF Secondary
    <3>2. PICK k \in 1..Len(d.previous.indices) : from = d.previous.indices[k]
      BY <2>1, <3>1, TableFacts
    <3> QED BY <2>1, <3>2, TableFacts
  <2> QED BY <2>2 DEF Index
<1>2. [k \in DOMAIN from.columns |-> Mapped(d, from.columns[k])] = i.columns
  BY DEF Altered
<1>3. ASSUME NEW k \in DOMAIN from.columns PROVE Mapped(d, from.columns[k]) = from.columns[k]
  <2> DEFINE c == from.columns[k]
  <2>1. c \in ToSet(from.columns)
    BY DEF ToSet
  <2>2. i.columns[k] = Mapped(d, c) /\ k \in DOMAIN i.columns
    BY <1>2
  <2>3. Mapped(d, c) \in ToSet(i.columns)
    BY <2>2 DEF ToSet
  <2>4. c \in Fields(d.previous) /\ Mapped(d, c) \in Fields(d.next)
    BY <2>1, <2>3 DEF OverFields
  <2> HIDE DEF c
  <2>5. Mapped(d, c) # c => c \in Moves(d)
    BY <2>4 DEF Fields, Moves, Renamed, Survives, is_primary_key
  <2>6. c \notin Moves(d)
    BY <2>3 DEF Touching
  <2> QED BY <2>5, <2>6 DEF c
<1>4. from.columns = [k \in DOMAIN from.columns |-> from.columns[k]]
  BY <1>1
<1> QED BY <1>2, <1>3, <1>4

(* The statements of a diff that keeps the name of its table. *)
LEMMA AlterMembers ==
    ASSUME NEW d \in Diff, IndexesNamed(d.previous), d.kind = "Alter",
           d.previous.name = d.next.name
    PROVE  LET L == ToSet(TableStatements(d)) IN
           /\ \A i \in Secondary(d.previous) :
                 Outgoing(d, i) \/ Touching(i, Moves(d)) => RemoveIndex(d.previous, i) \in L
           /\ \A i \in Secondary(d.next) :
                 Incoming(d, i) \/ Touching(i, {Mapped(d, m) : m \in Moves(d)}) =>
                     DefineIndex(d.next, i, FALSE) \in L
<1>1. TableStatements(d) = render_alter_table(d)
  BY DEF TableStatements
<1>2. ToSet(index_removals(d)) \cup ToSet(index_definitions(d)) \subseteq ToSet(TableStatements(d))
  BY <1>1, Alters
<1>3. \A i \in Secondary(d.previous) :
         Outgoing(d, i) \/ Touching(i, Moves(d)) => RemoveIndex(d.previous, i) \in ToSet(index_removals(d))
  BY Removals
<1>4. \A i \in Secondary(d.next) :
         Incoming(d, i) \/ Touching(i, {Mapped(d, m) : m \in Moves(d)}) =>
             DefineIndex(d.next, i, FALSE) \in ToSet(index_definitions(d))
  BY Definitions
<1> QED BY <1>2, <1>3, <1>4

LEMMA ReachStart ==
    ASSUME NEW diffs \in Changes, NEW v, Legit(diffs, v), Safe(diffs)
    PROVE  Reaches(diffs, v, generate(diffs))
<1> DEFINE L == generate(diffs)
<1>1. Plan(diffs, L) /\ \A d \in ToSet(diffs) : ToSet(TableStatements(d)) \subseteq ToSet(L)
  BY Generated
<1> HIDE DEF L
<1>2. \A d \in ToSet(diffs) : /\ d \in Diff /\ d.kind \in {"Create", "Drop", "Alter"}
                              /\ IndexesNamed(d.previous) /\ IndexesNamed(d.next)
  BY ChangeFacts, DiffFacts
<1>3. \A d \in ToSet(diffs) : d.kind = "Alter" => d.previous.name = d.next.name
  BY DEF Safe, Unsafe
<1>4. ASSUME NEW t \in After(diffs) PROVE t.name \in DOMAIN v \/ DefineTable(t, FALSE) \in ToSet(L)
  <2>1. PICK d \in ToSet(diffs) : d.kind # "Drop" /\ t = d.next
    BY SchemaNames
  <2>2. CASE d.kind = "Create"
    BY <1>1, <1>2, <2>1, <2>2, Created
  <2>3. CASE d.kind = "Alter"
    <3>1. d.previous \in Before(diffs)
      BY <2>3, SchemaNames
    <3> QED BY <1>3, <2>1, <2>3, <3>1 DEF Legit
  <2> QED BY <1>2, <2>1, <2>2, <2>3
<1>5. ASSUME NEW n \in DOMAIN v
      PROVE  (\E t \in After(diffs) : t.name = n) \/ \E x \in ToSet(L) : RemovesTable(x, n)
  <2>1. PICK t \in Before(diffs) \cup After(diffs) : t.name = n
    BY DEF Legit
  <2>2. ASSUME t \in Before(diffs)
        PROVE  (\E u \in After(diffs) : u.name = n) \/ \E x \in ToSet(L) : RemovesTable(x, n)
    <3>1. PICK d \in ToSet(diffs) : d.kind # "Create" /\ t = d.previous
      BY <2>2, SchemaNames
    <3>2. CASE d.kind = "Drop"
      BY <1>1, <1>2, <2>1, <3>1, <3>2, Dropped DEF RemovesTable
    <3>3. CASE d.kind = "Alter"
      <4>1. d.next \in After(diffs) /\ d.next.name = n
        BY <1>3, <2>1, <3>1, <3>3, SchemaNames
      <4> QED BY <4>1
    <3> QED BY <1>2, <3>1, <3>2, <3>3
  <2> QED BY <2>1, <2>2
<1>6. ASSUME NEW t \in After(diffs), NEW i \in Secondary(t)
      PROVE  \/ DefineIndex(t, i, FALSE) \in ToSet(L)
             \/ /\ HasIndex(v, t.name, i.name)
                /\ FieldIndexes(diffs) => DefinedIn(v, t, i)
                /\ \A x \in ToSet(L) : ~RemovesIndex(x, t.name, i.name)
  <2>1. PICK d \in ToSet(diffs) : d.kind # "Drop" /\ t = d.next
    BY SchemaNames
  <2>2. CASE d.kind = "Create"
    BY <1>1, <1>2, <2>1, <2>2, Created
  <2>3. CASE d.kind = "Alter" /\ (Incoming(d, i) \/ Touching(i, {Mapped(d, m) : m \in Moves(d)}))
    <3>1. DefineIndex(d.next, i, FALSE) \in ToSet(TableStatements(d))
      BY <1>2, <1>3, <2>1, <2>3, AlterMembers
    <3> QED BY <1>1, <2>1, <3>1
  <2>4. CASE d.kind = "Alter" /\ ~Incoming(d, i) /\ ~Touching(i, {Mapped(d, m) : m \in Moves(d)})
    <3>1. d.previous.name = d.next.name /\ d.previous \in Before(diffs) /\ d \in Diff
      BY <1>2, <1>3, <2>4, SchemaNames
    <3>2. PICK from \in Named(d.previous.indices, i) : ~Altered(d, from, i)
      BY <2>4 DEF Incoming
    <3>3. from \in Secondary(d.previous) /\ from.name = i.name
      BY <2>1, <3>2 DEF Named, Altered, Secondary
    <3>4. DefinedIn(v, d.previous, from)
      BY <3>1, <3>3 DEF Legit
    <3>5. HasIndex(v, t.name, i.name) /\ from.unique = i.unique
      BY <2>1, <3>1, <3>2, <3>3, <3>4 DEF DefinedIn, Altered
    <3>6. ASSUME FieldIndexes(diffs) PROVE DefinedIn(v, t, i)
      <4>1. OverFields(d.previous) /\ OverFields(d.next)
        BY <2>1, <3>1, <3>6 DEF FieldIndexes
      <4>2. from.columns = i.columns
        BY <2>1, <2>4, <3>1, <3>2, <3>3, <4>1, SameColumns
      <4> QED BY <2>1, <3>1, <3>3, <3>4, <3>5, <4>2 DEF DefinedIn
    <3>7. ASSUME NEW x \in ToSet(L), RemovesIndex(x, t.name, i.name) PROVE FALSE
      <4>1. x.verb = "REMOVE INDEX" /\ x.table = t.name /\ x.index = i.name
        BY <3>7 DEF RemovesIndex
      <4>2. PICK e \in ToSet(diffs) : Fits(e, x)
        <5>1. ReturnNone.verb # "REMOVE INDEX"
          BY DEF ReturnNone
        <5> QED BY <1>1, <4>1, <5>1 DEF Plan
      <4>3. e.kind = "Alter" /\ e.previous.name = e.next.name
        BY <4>1, <4>2 DEF Fits
      <4>4. PICK k \in Secondary(e.previous) :
               (Outgoing(e, k) \/ Touching(k, Moves(e))) /\ x = RemoveIndex(e.previous, k)
        BY <4>1, <4>2 DEF Fits
      <4>5. x.table = e.previous.name /\ x.index = k.name
        BY <4>4 DEF RemoveIndex
      <4>6. e = d
        <5>1. e.next.name = d.next.name
          BY <2>1, <4>1, <4>3, <4>5
        <5>2. e.kind # "Drop" /\ d.kind # "Drop"
          BY <2>1, <4>3
        <5> QED BY <5>1, <5>2, SchemaNames
      <4>7. k.name = i.name /\ IndexesNamed(d.previous) /\ k \in Secondary(d.previous)
        BY <1>2, <4>1, <4>4, <4>5, <4>6
      <4> QED BY <2>1, <2>4, <3>1, <4>4, <4>6, <4>7, RemovedReturns
    <3> QED BY <3>5, <3>6, <3>7
  <2> QED BY <1>2, <2>1, <2>2, <2>3, <2>4
<1>7. ASSUME NEW t \in After(diffs), NEW m, HasIndex(v, t.name, m)
      PROVE  (\E i \in Secondary(t) : i.name = m) \/ \E x \in ToSet(L) : RemovesIndex(x, t.name, m)
  <2>1. PICK d \in ToSet(diffs) : d.kind # "Drop" /\ t = d.next
    BY SchemaNames
  <2>2. PICK u \in Before(diffs) \cup After(diffs) :
           u.name = t.name /\ \E i \in Secondary(u) : i.name = m
    BY <1>7 DEF Legit
  <2>3. CASE u \in After(diffs)
    <3>1. PICK e \in ToSet(diffs) : e.kind # "Drop" /\ u = e.next
      BY <2>3, SchemaNames
    <3>2. e = d
      BY <2>1, <2>2, <3>1, SchemaNames
    <3> QED BY <2>1, <2>2, <3>1, <3>2
  <2>4. CASE u \in Before(diffs)
    <3>1. PICK e \in ToSet(diffs) : e.kind # "Create" /\ u = e.previous
      BY <2>4, SchemaNames
    <3>2. e.kind = "Alter" => e.next.name = t.name
      BY <1>3, <2>2, <3>1
    <3>3. e.kind = "Alter" => e = d
      BY <2>1, <3>2, SchemaNames
    <3>4. d.kind = "Alter" => e = d
      BY <1>3, <2>1, <2>2, <3>1, SchemaNames
    <3>5. ~(d.kind = "Create" /\ e.kind = "Drop")
      BY <2>1, <2>2, <3>1, SchemaNames
    <3>6. e = d /\ d.kind = "Alter"
      BY <1>2, <2>1, <3>1, <3>3, <3>4, <3>5
    <3>7. PICK i \in Secondary(d.previous) : i.name = m
      BY <2>2, <3>1, <3>6
    <3>8. CASE \E k \in Secondary(t) : k.name = m
      BY <3>8
    <3>9. CASE \A k \in Secondary(t) : k.name # m
      <4>1. Outgoing(d, i)
        <5> SUFFICES ASSUME NEW to \in Named(d.next.indices, i) PROVE Altered(d, i, to)
          BY DEF Outgoing
        <5>1. to \in ToSet(t.indices) /\ to.name = m
          BY <2>1, <3>7 DEF Named
        <5>2. to \notin Secondary(t)
          BY <3>9, <5>1
        <5> QED BY <3>7, <5>1, <5>2 DEF Secondary, Altered
      <4>2. RemoveIndex(d.previous, i) \in ToSet(TableStatements(d))
        BY <1>2, <1>3, <3>6, <4>1, AlterMembers
      <4>3. RemoveIndex(d.previous, i) \in ToSet(L)
        BY <1>1, <4>2
      <4>4. RemovesIndex(RemoveIndex(d.previous, i), t.name, m)
        BY <1>3, <2>1, <3>6, <3>7 DEF RemovesIndex, RemoveIndex
      <4> QED BY <4>3, <4>4
    <3> QED BY <3>8, <3>9
  <2> QED BY <2>2, <2>3, <2>4
<1>8. Reaches(diffs, v, L)
  BY <1>4, <1>5, <1>6, <1>7 DEF Reaches
<1> QED BY <1>8 DEF L

-----------------------------------------------------------------------------
(* What a statement changes. *)

DefinesTable(x, n)    == x.verb = "DEFINE TABLE" /\ x.table = n
DefinesIndex(x, n, m) == x.verb = "DEFINE INDEX" /\ x.table = n /\ x.index = m

SameIndex(a, b) == a.columns = b.columns /\ a.unique = b.unique

(* From `view` to v: the tables, the indexes, what they are, and the rows. *)
Turns(view, s, v) ==
    /\ \A n : n \in DOMAIN v <=> (n \in DOMAIN view \/ DefinesTable(s, n)) /\ ~RemovesTable(s, n)
    /\ \A n, m : HasIndex(v, n, m) <=>
          /\ HasIndex(view, n, m) \/ DefinesIndex(s, n, m)
          /\ ~RemovesTable(s, n) /\ ~RemovesIndex(s, n, m)
    /\ \A n, m : HasIndex(v, n, m) =>
          SameIndex(v[n].indices[m], IF HasIndex(view, n, m) THEN view[n].indices[m] ELSE s)
    /\ \A n : ~Disturbs(s, n) => RowsOf(v, n) = RowsOf(view, n)

LEMMA TurnsNothing ==
    ASSUME NEW view, NEW s,
           \A n : DefinesTable(s, n) => n \in DOMAIN view,
           \A n : ~RemovesTable(s, n),
           \A n, m : DefinesIndex(s, n, m) => HasIndex(view, n, m),
           \A n, m : ~RemovesIndex(s, n, m)
    PROVE  Turns(view, s, view)
<1>1. \A n, m : HasIndex(view, n, m) => SameIndex(view[n].indices[m], view[n].indices[m])
  BY DEF SameIndex
<1> QED BY <1>1 DEF Turns

(* One table of a database is replaced. *)
LEMMA ReplaceTable ==
    ASSUME NEW view, CurrentDb(view), NEW n \in DOMAIN view, NEW T, CurrentTable(T)
    PROVE  LET v == [view EXCEPT ![n] = T] IN
           /\ CurrentDb(v) /\ DOMAIN v = DOMAIN view /\ v[n] = T
           /\ \A x \in DOMAIN view : x # n => v[x] = view[x]
<1> DEFINE v == [view EXCEPT ![n] = T]
<1>1. view = [x \in DOMAIN view |-> view[x]] /\ \A x \in DOMAIN view : CurrentTable(view[x])
  BY DEF CurrentDb
<1>2. /\ DOMAIN v = DOMAIN view /\ v[n] = T /\ v = [x \in DOMAIN v |-> v[x]]
      /\ \A x \in DOMAIN view : x # n => v[x] = view[x]
  BY <1>1
<1> HIDE DEF v
<1>3. CurrentDb(v)
  BY <1>1, <1>2 DEF CurrentDb
<1> QED BY <1>2, <1>3 DEF v

(* An UPDATE keeps every index as current as it was. *)
LEMMA UpdatedCurrent ==
    ASSUME NEW t, CurrentTable(t), NEW new
    PROVE  LET u == Updated(t, new) IN
           /\ CurrentTable(u) /\ DOMAIN u.indices = DOMAIN t.indices
           /\ \A i \in DOMAIN t.indices : SameIndex(u.indices[i], t.indices[i])
<1> DEFINE u == Updated(t, new)
           r == [id \in DOMAIN t.rows |-> IF id \in DOMAIN new THEN new[id] ELSE t.rows[id]]
           E(i) == [id \in DOMAIN t.rows |-> IF id \in DOMAIN new
                       THEN Project(new[id], t.indices[i].columns) ELSE t.indices[i].entries[id]]
           J == [i \in DOMAIN t.indices |-> [t.indices[i] EXCEPT !.entries = E(i)]]
<1>1. u = [rows |-> r, indices |-> J]
  BY DEF Updated
<1>2. DOMAIN r = DOMAIN t.rows
  OBVIOUS
<1>3. ASSUME NEW i \in DOMAIN t.indices
      PROVE  J[i] = IndexOf(r, t.indices[i].columns, t.indices[i].unique)
  <2> DEFINE cs == t.indices[i].columns
             un == t.indices[i].unique
  <2>1. t.indices[i] = IndexOf(t.rows, cs, un)
    BY DEF CurrentTable, CurrentIndexes
  <2>2. J[i] = [t.indices[i] EXCEPT !.entries = E(i)]
    OBVIOUS
  <2>3. J[i] = [columns |-> cs, unique |-> un, entries |-> E(i)]
    <3>1. t.indices[i] = [columns |-> cs, unique |-> un,
                          entries |-> [id \in DOMAIN t.rows |-> Project(t.rows[id], cs)]]
      BY <2>1 DEF IndexOf
    <3> HIDE DEF E, cs, un, J
    <3>2. J[i] = [[columns |-> cs, unique |-> un,
                   entries |-> [id \in DOMAIN t.rows |-> Project(t.rows[id], cs)]] EXCEPT !.entries = E(i)]
      BY <2>2, <3>1
    <3> QED BY <3>2
  <2>4. E(i) = [id \in DOMAIN r |-> Project(r[id], cs)]
    <3>1. \A id \in DOMAIN t.rows : t.indices[i].entries[id] = Project(t.rows[id], cs)
      <4> HIDE DEF cs, un
      <4> QED BY <2>1 DEF IndexOf
    <3>2. \A id \in DOMAIN t.rows : E(i)[id] = Project(r[id], cs)
      BY <3>1
    <3>3. E(i) = [id \in DOMAIN t.rows |-> E(i)[id]]
      OBVIOUS
    <3> HIDE DEF E, r, cs
    <3> QED BY <1>2, <3>2, <3>3
  <2> HIDE DEF E, J, r
  <2> QED BY <2>3, <2>4 DEF IndexOf
<1>4. J = [i \in DOMAIN J |-> J[i]] /\ DOMAIN J = DOMAIN t.indices
  OBVIOUS
<1> HIDE DEF u, r, J
<1>5. u.rows = r /\ u.indices = J
  BY <1>1
<1>6. \A i \in DOMAIN t.indices : J[i].columns = t.indices[i].columns /\ J[i].unique = t.indices[i].unique
  <2>1. \A x, y, z : IndexOf(x, y, z).columns = y /\ IndexOf(x, y, z).unique = z
    BY DEF IndexOf
  <2> QED BY <1>3, <2>1
<1>7. CurrentTable(u)
  <2>1. \A i \in DOMAIN J : J[i] = IndexOf(r, J[i].columns, J[i].unique)
    BY <1>3, <1>4, <1>6
  <2> QED BY <1>1, <1>4, <1>5, <2>1 DEF CurrentTable, CurrentIndexes
<1> QED BY <1>4, <1>5, <1>6, <1>7 DEF SameIndex, u

Verbs == {"THROW", "RETURN NONE", "DEFINE TABLE", "REMOVE TABLE", "DEFINE INDEX", "REMOVE INDEX",
          "UPDATE SET", "UPDATE UNSET"}

LEMMA StatementVerbs ==
    ASSUME NEW s \in Statement
    PROVE  s.verb \in Verbs
BY DEF Statement, Verbs

LEMMA EffectIs ==
    ASSUME NEW base, NEW view, NEW s
    PROVE  /\ s.verb = "DEFINE TABLE" /\ s.table \notin DOMAIN view =>
                 Effect(base, view, s) = Put(view, s.table, [rows |-> Empty, indices |-> Empty])
           /\ s.verb = "DEFINE TABLE" /\ s.table \in DOMAIN view => Effect(base, view, s) = view
           /\ s.verb = "REMOVE TABLE" => Effect(base, view, s) = Without(view, s.table)
           /\ s.verb = "DEFINE INDEX" /\ ~HasIndex(view, s.table, s.index) =>
                 Effect(base, view, s) = [view EXCEPT ![s.table].indices = Put(@, s.index, Built(base, s))]
           /\ s.verb = "DEFINE INDEX" /\ HasIndex(view, s.table, s.index) => Effect(base, view, s) = view
           /\ s.verb = "REMOVE INDEX" =>
                 Effect(base, view, s) = [view EXCEPT ![s.table].indices = Without(@, s.index)]
           /\ s.verb = "UPDATE SET" => Effect(base, view, s) = [view EXCEPT ![s.table] = CopyField(@, s)]
           /\ s.verb = "UPDATE UNSET" => Effect(base, view, s) = [view EXCEPT ![s.table] = UnsetField(@, s)]
           /\ s.verb = "RETURN NONE" => Effect(base, view, s) = view
<1>1. CASE s.verb = "DEFINE TABLE"
  BY <1>1 DEF Effect
<1>2. CASE s.verb = "REMOVE TABLE"
  BY <1>2 DEF Effect
<1>3. CASE s.verb = "DEFINE INDEX"
  BY <1>3 DEF Effect
<1>4. CASE s.verb = "REMOVE INDEX"
  BY <1>4 DEF Effect
<1>5. CASE s.verb = "UPDATE SET"
  BY <1>5 DEF Effect
<1>6. CASE s.verb = "UPDATE UNSET"
  BY <1>6 DEF Effect
<1>7. CASE s.verb = "RETURN NONE"
  BY <1>7 DEF Effect
<1> QED BY <1>1, <1>2, <1>3, <1>4, <1>5, <1>6, <1>7

LEMMA AcceptedIs ==
    ASSUME NEW view, NEW s, Accepted(view, s)
    PROVE  /\ s.verb # "THROW"
           /\ s.verb = "DEFINE TABLE" => s.if_not_exists \/ s.table \notin DOMAIN view
           /\ s.verb = "REMOVE TABLE" => s.table \in DOMAIN view
           /\ s.verb = "DEFINE INDEX" =>
                 /\ s.table \in DOMAIN view
                 /\ s.if_not_exists \/ ~HasIndex(view, s.table, s.index)
           /\ s.verb = "REMOVE INDEX" => HasIndex(view, s.table, s.index)
           /\ s.verb \in {"UPDATE SET", "UPDATE UNSET"} => s.table \in DOMAIN view
<1>1. CASE s.verb = "THROW"
  BY <1>1 DEF Accepted
<1>2. CASE s.verb = "DEFINE TABLE"
  BY <1>2 DEF Accepted
<1>3. CASE s.verb = "REMOVE TABLE"
  BY <1>3 DEF Accepted
<1>4. CASE s.verb = "DEFINE INDEX"
  BY <1>4 DEF Accepted
<1>5. CASE s.verb = "REMOVE INDEX"
  BY <1>5 DEF Accepted
<1>6. CASE s.verb = "UPDATE SET"
  BY <1>6 DEF Accepted
<1>7. CASE s.verb = "UPDATE UNSET"
  BY <1>7 DEF Accepted
<1> QED BY <1>1, <1>2, <1>3, <1>4, <1>5, <1>6, <1>7

LEMMA DefineTableTurns ==
    ASSUME NEW base, NEW view, CurrentDb(view), NEW s, s.verb = "DEFINE TABLE"
    PROVE  CurrentDb(Effect(base, view, s)) /\ Turns(view, s, Effect(base, view, s))
<1> DEFINE v == Effect(base, view, s)
           E == [rows |-> Empty, indices |-> Empty]
<1>1. /\ \A n : DefinesTable(s, n) <=> n = s.table
      /\ \A n : ~RemovesTable(s, n)
      /\ \A n, m : ~DefinesIndex(s, n, m) /\ ~RemovesIndex(s, n, m)
  BY DEF DefinesTable, RemovesTable, DefinesIndex, RemovesIndex
<1>2. CASE s.table \in DOMAIN view
  <2>1. v = view
    BY <1>2, EffectIs
  <2>2. Turns(view, s, view)
    BY <1>1, <1>2, TurnsNothing
  <2> QED BY <2>1, <2>2
<1>3. CASE s.table \notin DOMAIN view
  <2>1. v = Put(view, s.table, E)
    BY <1>3 DEF Effect
  <2>2. /\ DOMAIN v = DOMAIN view \cup {s.table} /\ v[s.table] = E /\ v = [n \in DOMAIN v |-> v[n]]
        /\ \A n \in DOMAIN view : v[n] = view[n]
    BY <1>3, <2>1 DEF Put
  <2>3. E.rows = Empty /\ E.indices = Empty /\ DOMAIN Empty = {}
    BY DEF Empty
  <2>4. CurrentTable(E)
    <3>1. Empty = [i \in DOMAIN Empty |-> Empty[i]]
      BY DEF Empty
    <3> QED BY <2>3, <3>1 DEF CurrentTable, CurrentIndexes
  <2> HIDE DEF v, E
  <2>5. CurrentDb(v)
    BY <2>2, <2>4 DEF CurrentDb
  <2>6. \A n, m : HasIndex(v, n, m) <=> HasIndex(view, n, m)
    BY <1>3, <2>2, <2>3 DEF HasIndex
  <2>7. \A n, m : HasIndex(v, n, m) => v[n] = view[n]
    BY <1>3, <2>2, <2>6 DEF HasIndex
  <2>8. \A n : RowsOf(v, n) = RowsOf(view, n)
    BY <1>3, <2>2, <2>3 DEF RowsOf
  <2>9. Turns(view, s, v)
    BY <1>1, <2>2, <2>6, <2>7, <2>8 DEF Turns, SameIndex
  <2> QED BY <2>5, <2>9 DEF v
<1> QED BY <1>2, <1>3

LEMMA RemoveTableTurns ==
    ASSUME NEW base, NEW view, CurrentDb(view), NEW s, s.verb = "REMOVE TABLE"
    PROVE  CurrentDb(Effect(base, view, s)) /\ Turns(view, s, Effect(base, view, s))
<1> DEFINE v == Effect(base, view, s)
<1>1. /\ \A n : RemovesTable(s, n) <=> n = s.table
      /\ \A n : ~DefinesTable(s, n)
      /\ \A n, m : ~DefinesIndex(s, n, m) /\ ~RemovesIndex(s, n, m)
      /\ \A n : ~Disturbs(s, n) <=> n # s.table
  BY DEF DefinesTable, RemovesTable, DefinesIndex, RemovesIndex, Disturbs
<1>2. v = Without(view, s.table)
  BY DEF Effect
<1>3. /\ DOMAIN v = DOMAIN view \ {s.table} /\ v = [n \in DOMAIN v |-> v[n]]
      /\ \A n \in DOMAIN v : v[n] = view[n]
  BY <1>2 DEF Without
<1> HIDE DEF v
<1>4. CurrentDb(v)
  BY <1>3 DEF CurrentDb
<1>5. \A n, m : HasIndex(v, n, m) <=> HasIndex(view, n, m) /\ n # s.table
  BY <1>3 DEF HasIndex
<1>6. \A n, m : HasIndex(v, n, m) => v[n] = view[n]
  BY <1>3 DEF HasIndex
<1>7. \A n : n # s.table => RowsOf(v, n) = RowsOf(view, n)
  BY <1>3 DEF RowsOf
<1>8. Turns(view, s, v)
  BY <1>1, <1>3, <1>5, <1>6, <1>7 DEF Turns, SameIndex
<1> QED BY <1>4, <1>8 DEF v

(* The indexes of one table are replaced. *)
WithIndexes(view, n, J) == [view EXCEPT ![n].indices = J]
Reindexed(view, n, J, v) ==
    /\ CurrentDb(v) /\ DOMAIN v = DOMAIN view /\ v[n].indices = J
    /\ \A x \in DOMAIN view : x # n => v[x] = view[x]
    /\ \A x : RowsOf(v, x) = RowsOf(view, x)

LEMMA ReplaceIndexes ==
    ASSUME NEW view, CurrentDb(view), NEW n \in DOMAIN view, NEW J,
           CurrentIndexes(view[n].rows, J)
    PROVE  Reindexed(view, n, J, WithIndexes(view, n, J))
<1> DEFINE T == [rows |-> view[n].rows, indices |-> J]
           v == [view EXCEPT ![n] = T]
<1>1. view[n] = [rows |-> view[n].rows, indices |-> view[n].indices]
  BY DEF CurrentDb, CurrentTable, CurrentIndexes
<1>2. [view[n] EXCEPT !.indices = J] = T
  BY <1>1
<1>3. WithIndexes(view, n, J) = v
  BY <1>2 DEF WithIndexes
<1>4. T.rows = view[n].rows /\ T.indices = J /\ T = [rows |-> T.rows, indices |-> T.indices]
  OBVIOUS
<1> HIDE DEF T
<1>5. CurrentTable(T)
  BY <1>4 DEF CurrentTable, CurrentIndexes
<1>6. /\ CurrentDb(v) /\ DOMAIN v = DOMAIN view /\ v[n] = T
      /\ \A x \in DOMAIN view : x # n => v[x] = view[x]
  BY <1>5, ReplaceTable
<1> HIDE DEF v
<1>7. \A x : RowsOf(v, x) = RowsOf(view, x)
  BY <1>4, <1>6 DEF RowsOf
<1> QED BY <1>3, <1>4, <1>6, <1>7 DEF Reindexed

LEMMA DefineIndexTurns ==
    ASSUME NEW base, NEW view, CurrentDb(view), NEW s, s.verb = "DEFINE INDEX",
           s.table \in DOMAIN view, RowsOf(view, s.table) = RowsOf(base, s.table)
    PROVE  CurrentDb(Effect(base, view, s)) /\ Turns(view, s, Effect(base, view, s))
<1> DEFINE v == Effect(base, view, s)
           n == s.table
           old == view[n].indices
           new == Built(base, s)
           J == Put(old, s.index, new)
<1>1. /\ \A x : ~RemovesTable(s, x) /\ ~DefinesTable(s, x) /\ ~Disturbs(s, x)
      /\ \A x, m : DefinesIndex(s, x, m) <=> x = n /\ m = s.index
      /\ \A x, m : ~RemovesIndex(s, x, m)
  BY DEF DefinesTable, RemovesTable, DefinesIndex, RemovesIndex, Disturbs
<1>2. CASE HasIndex(view, n, s.index)
  <2>1. v = view
    BY <1>2 DEF Effect
  <2>2. Turns(view, s, view)
    BY <1>1, <1>2, TurnsNothing
  <2> QED BY <2>1, <2>2
<1>3. CASE ~HasIndex(view, n, s.index)
  <2>1. v = [view EXCEPT ![n].indices = Put(@, s.index, new)]
    BY <1>3 DEF Effect
  <2>2. v = WithIndexes(view, n, J)
    BY <2>1 DEF WithIndexes
  <2>3. new = IndexOf(view[n].rows, s.columns, s.unique)
    <3>1. CASE n \in DOMAIN base
      <4>1. view[n].rows = base[n].rows
        BY <3>1 DEF RowsOf
      <4> QED BY <3>1, <4>1 DEF Built, IndexOf
    <3>2. CASE n \notin DOMAIN base
      <4>1. view[n].rows = Empty
        BY <3>2 DEF RowsOf
      <4>2. Empty = [id \in DOMAIN Empty |-> Project(Empty[id], s.columns)]
        BY DEF Empty
      <4>3. new = [columns |-> s.columns, unique |-> s.unique, entries |-> Empty]
        BY <3>2 DEF Built
      <4> QED BY <4>1, <4>2, <4>3 DEF IndexOf
    <3> QED BY <3>1, <3>2
  <2>4. new.columns = s.columns /\ new.unique = s.unique
    BY DEF Built
  <2>5. /\ old = [i \in DOMAIN old |-> old[i]]
        /\ \A i \in DOMAIN old : old[i] = IndexOf(view[n].rows, old[i].columns, old[i].unique)
    BY DEF CurrentDb, CurrentTable, CurrentIndexes
  <2>6. s.index \notin DOMAIN old
    BY <1>3 DEF HasIndex
  <2> HIDE DEF new, old
  <2>7. /\ DOMAIN J = DOMAIN old \cup {s.index} /\ J = [i \in DOMAIN J |-> J[i]]
        /\ J[s.index] = new /\ \A i \in DOMAIN old : J[i] = old[i]
    BY <2>6 DEF Put
  <2> HIDE DEF J
  <2>8. CurrentIndexes(view[n].rows, J)
    BY <2>3, <2>4, <2>5, <2>7 DEF CurrentIndexes
  <2>9. /\ CurrentDb(v) /\ DOMAIN v = DOMAIN view /\ v[n].indices = J
        /\ \A x \in DOMAIN view : x # n => v[x] = view[x]
        /\ \A x : RowsOf(v, x) = RowsOf(view, x)
    <3> HIDE DEF n, v
    <3>1. n \in DOMAIN view
      BY DEF n
    <3>2. Reindexed(view, n, J, WithIndexes(view, n, J))
      BY <2>8, <3>1, ReplaceIndexes
    <3>3. Reindexed(view, n, J, v)
      BY <2>2, <3>2
    <3> QED BY <3>3 DEF Reindexed
  <2> HIDE DEF v
  <2>10. \A x, m : HasIndex(v, x, m) <=> HasIndex(view, x, m) \/ (x = n /\ m = s.index)
    BY <2>7, <2>9 DEF HasIndex, old
  <2>11. ASSUME NEW x, NEW m, HasIndex(v, x, m)
         PROVE  SameIndex(v[x].indices[m], IF HasIndex(view, x, m) THEN view[x].indices[m] ELSE s)
    <3>1. CASE x # n
      BY <2>9, <2>10, <2>11, <3>1 DEF HasIndex, SameIndex
    <3>2. CASE x = n /\ m = s.index
      BY <1>3, <2>4, <2>7, <2>9, <3>2 DEF SameIndex
    <3>3. CASE x = n /\ m # s.index
      BY <2>7, <2>9, <2>10, <2>11, <3>3 DEF HasIndex, SameIndex, old
    <3> QED BY <3>1, <3>2, <3>3
  <2>12. Turns(view, s, v)
    BY <1>1, <2>9, <2>10, <2>11 DEF Turns
  <2> QED BY <2>9, <2>12 DEF v
<1> QED BY <1>2, <1>3

LEMMA RemoveIndexTurns ==
    ASSUME NEW base, NEW view, CurrentDb(view), NEW s, s.verb = "REMOVE INDEX",
           HasIndex(view, s.table, s.index)
    PROVE  CurrentDb(Effect(base, view, s)) /\ Turns(view, s, Effect(base, view, s))
<1> DEFINE v == Effect(base, view, s)
           n == s.table
           old == view[n].indices
           J == Without(old, s.index)
<1>1. /\ \A x : ~RemovesTable(s, x) /\ ~DefinesTable(s, x) /\ ~Disturbs(s, x)
      /\ \A x, m : RemovesIndex(s, x, m) <=> x = n /\ m = s.index
      /\ \A x, m : ~DefinesIndex(s, x, m)
  BY DEF DefinesTable, RemovesTable, DefinesIndex, RemovesIndex, Disturbs
<1>2. v = [view EXCEPT ![n].indices = Without(@, s.index)]
  BY DEF Effect
<1>3. v = WithIndexes(view, n, J)
  BY <1>2 DEF WithIndexes
<1>4. n \in DOMAIN view
  BY DEF HasIndex
<1>5. /\ old = [i \in DOMAIN old |-> old[i]]
      /\ \A i \in DOMAIN old : old[i] = IndexOf(view[n].rows, old[i].columns, old[i].unique)
  BY <1>4 DEF CurrentDb, CurrentTable, CurrentIndexes
<1> HIDE DEF old
<1>6. /\ DOMAIN J = DOMAIN old \ {s.index} /\ J = [i \in DOMAIN J |-> J[i]]
      /\ \A i \in DOMAIN J : J[i] = old[i]
  BY DEF Without
<1> HIDE DEF J
<1>7. CurrentIndexes(view[n].rows, J)
  BY <1>5, <1>6 DEF CurrentIndexes
<1>8. /\ CurrentDb(v) /\ DOMAIN v = DOMAIN view /\ v[n].indices = J
      /\ \A x \in DOMAIN view : x # n => v[x] = view[x]
      /\ \A x : RowsOf(v, x) = RowsOf(view, x)
  <2> HIDE DEF n, v
  <2>1. Reindexed(view, n, J, WithIndexes(view, n, J))
    BY <1>4, <1>7, ReplaceIndexes
  <2>2. Reindexed(view, n, J, v)
    BY <1>3, <2>1
  <2> QED BY <2>2 DEF Reindexed
<1> HIDE DEF v
<1>9. \A x, m : HasIndex(v, x, m) <=> HasIndex(view, x, m) /\ ~(x = n /\ m = s.index)
  BY <1>4, <1>6, <1>8 DEF HasIndex, old
<1>10. ASSUME NEW x, NEW m, HasIndex(v, x, m)
       PROVE  HasIndex(view, x, m) /\ SameIndex(v[x].indices[m], view[x].indices[m])
  <2>1. CASE x # n
    BY <1>8, <1>9, <1>10, <2>1 DEF HasIndex, SameIndex
  <2>2. CASE x = n
    BY <1>6, <1>8, <1>9, <1>10, <2>2 DEF HasIndex, SameIndex, old
  <2> QED BY <2>1, <2>2
<1>11. Turns(view, s, v)
  BY <1>1, <1>8, <1>9, <1>10 DEF Turns
<1> QED BY <1>8, <1>11 DEF v

Updates(s) == s.verb \in {"UPDATE SET", "UPDATE UNSET"}

LEMMA UpdateTurns ==
    ASSUME NEW base, NEW view, CurrentDb(view), NEW s, Updates(s),
           s.table \in DOMAIN view
    PROVE  CurrentDb(Effect(base, view, s)) /\ Turns(view, s, Effect(base, view, s))
<1> DEFINE v == Effect(base, view, s)
           n == s.table
<1>1. /\ \A x : ~RemovesTable(s, x) /\ ~DefinesTable(s, x) /\ (Disturbs(s, x) <=> x = n)
      /\ \A x, m : ~DefinesIndex(s, x, m) /\ ~RemovesIndex(s, x, m)
  BY DEF Updates, DefinesTable, RemovesTable, DefinesIndex, RemovesIndex, Disturbs
<1>2. \E new : v = [view EXCEPT ![n] = Updated(view[n], new)]
  <2>1. CASE s.verb = "UPDATE SET"
    <3>1. v = [view EXCEPT ![n] = CopyField(@, s)]
      BY <2>1 DEF Effect
    <3>2. \E new : CopyField(view[n], s) = Updated(view[n], new)
      BY DEF CopyField
    <3> HIDE DEF v
    <3> QED BY <3>1, <3>2
  <2>2. CASE s.verb = "UPDATE UNSET"
    <3>1. v = [view EXCEPT ![n] = UnsetField(@, s)]
      BY <2>2 DEF Effect
    <3>2. \E new : UnsetField(view[n], s) = Updated(view[n], new)
      BY DEF UnsetField
    <3> HIDE DEF v
    <3> QED BY <3>1, <3>2
  <2> QED BY <2>1, <2>2 DEF Updates
<1>3. PICK new : v = [view EXCEPT ![n] = Updated(view[n], new)]
  BY <1>2
<1> DEFINE T == Updated(view[n], new)
<1>4. CurrentTable(view[n])
  BY DEF CurrentDb
<1>5. /\ CurrentTable(T) /\ DOMAIN T.indices = DOMAIN view[n].indices
      /\ \A i \in DOMAIN view[n].indices : SameIndex(T.indices[i], view[n].indices[i])
  BY <1>4, UpdatedCurrent
<1> HIDE DEF v, T
<1>6. /\ CurrentDb(v) /\ DOMAIN v = DOMAIN view /\ v[n] = T
      /\ \A x \in DOMAIN view : x # n => v[x] = view[x]
  <2>1. v = [view EXCEPT ![n] = T] /\ n \in DOMAIN view
    BY <1>3 DEF T
  <2> HIDE DEF n
  <2> QED BY <1>5, <2>1, ReplaceTable
<1>7. \A x, m : HasIndex(v, x, m) <=> HasIndex(view, x, m)
  BY <1>5, <1>6 DEF HasIndex
<1>8. ASSUME NEW x, NEW m, HasIndex(v, x, m)
      PROVE  HasIndex(view, x, m) /\ SameIndex(v[x].indices[m], view[x].indices[m])
  <2>1. CASE x # n
    BY <1>6, <1>7, <1>8, <2>1 DEF HasIndex, SameIndex
  <2>2. CASE x = n
    BY <1>5, <1>6, <1>7, <1>8, <2>2 DEF HasIndex
  <2> QED BY <2>1, <2>2
<1>9. \A x : x # n => RowsOf(v, x) = RowsOf(view, x)
  BY <1>6 DEF RowsOf
<1>10. Turns(view, s, v)
  BY <1>1, <1>6, <1>7, <1>8, <1>9 DEF Turns
<1> QED BY <1>6, <1>10 DEF v

(* A statement that is accepted does what its verb says, and leaves every index
   current.                                                                  *)
LEMMA Effects ==
    ASSUME NEW base, NEW view, CurrentDb(view), NEW s \in Statement, Accepted(view, s),
           s.verb = "DEFINE INDEX" => RowsOf(view, s.table) = RowsOf(base, s.table)
    PROVE  CurrentDb(Effect(base, view, s)) /\ Turns(view, s, Effect(base, view, s))
<1>1. s.verb \in Verbs
  BY StatementVerbs
<1>2. CASE s.verb = "DEFINE TABLE"
  BY <1>2, DefineTableTurns
<1>3. CASE s.verb = "REMOVE TABLE"
  BY <1>3, RemoveTableTurns
<1>4. CASE s.verb = "DEFINE INDEX"
  <2>1. s.table \in DOMAIN view
    BY <1>4, AcceptedIs
  <2> QED BY <1>4, <2>1, DefineIndexTurns
<1>5. CASE s.verb = "REMOVE INDEX"
  <2>1. HasIndex(view, s.table, s.index)
    BY <1>5, AcceptedIs
  <2> QED BY <1>5, <2>1, RemoveIndexTurns
<1>6. CASE s.verb \in {"UPDATE SET", "UPDATE UNSET"}
  <2>1. s.table \in DOMAIN view
    BY <1>6, AcceptedIs
  <2>2. Updates(s)
    BY <1>6 DEF Updates
  <2> QED BY <2>1, <2>2, UpdateTurns
<1>7. CASE s.verb = "RETURN NONE"
  <2>1. Effect(base, view, s) = view
    BY <1>7 DEF Effect
  <2>2. Turns(view, s, view)
    <3>1. /\ \A n : ~DefinesTable(s, n) /\ ~RemovesTable(s, n)
          /\ \A n, m : ~DefinesIndex(s, n, m) /\ ~RemovesIndex(s, n, m)
      BY <1>7 DEF DefinesTable, RemovesTable, DefinesIndex, RemovesIndex
    <3> QED BY <3>1, TurnsNothing
  <2> QED BY <2>1, <2>2
<1>8. s.verb # "THROW"
  BY AcceptedIs
<1> QED BY <1>1, <1>2, <1>3, <1>4, <1>5, <1>6, <1>7, <1>8 DEF Verbs

-----------------------------------------------------------------------------
(* One statement of a migration. *)

LEMMA PlanTail ==
    ASSUME NEW diffs, NEW L, Plan(diffs, L), L # << >>
    PROVE  Plan(diffs, Tail(L))
<1>1. L \in Seq(Statement) /\ Avoids(L, Disturbing) /\ Avoids(L, Reversed) /\ Follows(L, Restores(diffs))
  BY DEF Plan
<1>2. Tail(L) \in Seq(Statement) /\ \A x \in ToSet(Tail(L)) : x \in ToSet(L)
  BY <1>1, TailFacts
<1>3. Avoids(Tail(L), Disturbing)
  BY <1>1, TailAvoids
<1>4. Avoids(Tail(L), Reversed)
  BY <1>1, TailAvoids
<1>5. Follows(Tail(L), Restores(diffs))
  BY <1>1, TailFollows
<1> QED BY <1>2, <1>3, <1>4, <1>5 DEF Plan

(* An index that is defined is one of the next schema. *)
Wanted(diffs, s, n, m) ==
    \A t \in After(diffs) : t.name = n =>
        \E i \in Secondary(t) : i.name = m /\ s = DefineIndex(t, i, FALSE)

(* What the first statement of a plan leaves to the others. *)
Leads(diffs, s, T) ==
    /\ \A x \in ToSet(T) : x.verb = "DEFINE INDEX" => ~Disturbs(s, x.table)
    /\ \A n, m : DefinesIndex(s, n, m) =>
          /\ ~s.if_not_exists
          /\ \A x \in ToSet(T) : ~RemovesIndex(x, n, m)
          /\ Wanted(diffs, s, n, m)
    /\ \A n, m : RemovesIndex(s, n, m) =>
          \A t \in After(diffs) : t.name = n =>
              \A i \in Secondary(t) : i.name = m => DefineIndex(t, i, FALSE) \in ToSet(T)
    /\ \A n : DefinesTable(s, n) => \E t \in After(diffs) : t.name = n /\ s = DefineTable(t, FALSE)
    /\ \A n : RemovesTable(s, n) =>
          \E d \in ToSet(diffs) : d.kind = "Drop" /\ d.previous.name = n

LEMMA HeadLeads ==
    ASSUME NEW diffs \in Changes, NEW L, Plan(diffs, L), L # << >>
    PROVE  Leads(diffs, Head(L), Tail(L))
<1> DEFINE s == Head(L)
           T == Tail(L)
<1>1. L \in Seq(Statement) /\ Avoids(L, Disturbing) /\ Avoids(L, Reversed) /\ Follows(L, Restores(diffs))
  BY DEF Plan
<1>2. T \in Seq(Statement) /\ s \in Statement /\ s \in ToSet(L) /\ \A x \in ToSet(T) : x \in Statement
  <2>1. T \in Seq(Statement) /\ s \in Statement /\ s \in ToSet(L)
    BY <1>1, TailFacts
  <2>2. \A x \in ToSet(T) : x \in Statement
    <3>1. DOMAIN T = 1..Len(T) /\ \A p \in 1..Len(T) : T[p] \in Statement
      BY <2>1
    <3> QED BY <3>1 DEF ToSet
  <2> QED BY <2>1, <2>2
<1>3. \A y \in ToSet(T) : <<s, y>> \notin Disturbing
  BY <1>1, TailAvoids
<1>4. \A y \in ToSet(T) : <<s, y>> \notin Reversed
  BY <1>1, TailAvoids
<1>5. \A y : <<s, y>> \in Restores(diffs) => y \in ToSet(T)
  BY <1>1, TailFollows
<1>6. s = ReturnNone \/ \E d \in ToSet(diffs) : Fits(d, s)
  BY <1>2 DEF Plan
<1> HIDE DEF s, T
<1>7. \A x \in ToSet(T) : x.verb = "DEFINE INDEX" => ~Disturbs(s, x.table)
  BY <1>2, <1>3 DEF Disturbing
<1>8. ReturnNone.verb = "RETURN NONE"
  BY DEF ReturnNone
<1>9. ASSUME NEW n, NEW m, DefinesIndex(s, n, m)
      PROVE  /\ ~s.if_not_exists
             /\ \A x \in ToSet(T) : ~RemovesIndex(x, n, m)
             /\ Wanted(diffs, s, n, m)
  <2>1. s.verb = "DEFINE INDEX" /\ s.table = n /\ s.index = m
    BY <1>9 DEF DefinesIndex
  <2>2. PICK d \in ToSet(diffs) : Fits(d, s)
    BY <1>6, <1>8, <2>1
  <2>3. PICK i \in Secondary(d.next) : s = DefineIndex(d.next, i, FALSE)
    BY <2>1, <2>2 DEF Fits
  <2>4. d.kind # "Drop"
    BY <2>1, <2>2 DEF Fits
  <2>5. s.table = d.next.name /\ s.index = i.name /\ ~s.if_not_exists
    BY <2>3 DEF DefineIndex
  <2>6. ASSUME NEW x \in ToSet(T), RemovesIndex(x, n, m) PROVE FALSE
    <3>1. x.verb = "REMOVE INDEX" /\ x.table = n
      BY <2>6 DEF RemovesIndex
    <3> QED BY <1>2, <1>4, <2>1, <3>1 DEF Reversed
  <2>7. ASSUME NEW t \in After(diffs), t.name = n PROVE t = d.next
    <3>1. PICK e \in ToSet(diffs) : e.kind # "Drop" /\ t = e.next
      BY SchemaNames
    <3>2. e.next.name = d.next.name
      BY <2>1, <2>5, <2>7, <3>1
    <3> QED BY <2>4, <3>1, <3>2, SchemaNames
  <2>8. Wanted(diffs, s, n, m)
    BY <2>1, <2>3, <2>5, <2>7 DEF Wanted
  <2> QED BY <2>5, <2>6, <2>8
<1>10. ASSUME NEW n, NEW m, RemovesIndex(s, n, m), NEW t \in After(diffs), t.name = n,
              NEW i \in Secondary(t), i.name = m
       PROVE  DefineIndex(t, i, FALSE) \in ToSet(T)
  <2>1. s.verb = "REMOVE INDEX" /\ s.table = n /\ s.index = m
    BY <1>10 DEF RemovesIndex
  <2>2. DefineIndex(t, i, FALSE) \in Statement
    <3>1. t \in Schema
      BY SchemaNames
    <3>2. i \in ToSet(t.indices)
      BY DEF Secondary
    <3>3. PICK k \in 1..Len(t.indices) : i = t.indices[k]
      BY <3>1, <3>2, TableFacts
    <3>4. i \in Index
      BY <3>1, <3>3, TableFacts
    <3> QED BY <3>1, <3>4, IndexTyping
  <2>3. <<s, DefineIndex(t, i, FALSE)>> \in Restores(diffs)
    BY <1>2, <1>10, <2>1, <2>2 DEF Restores
  <2> QED BY <1>5, <2>3
<1>11. ASSUME NEW n, DefinesTable(s, n)
       PROVE  \E t \in After(diffs) : t.name = n /\ s = DefineTable(t, FALSE)
  <2>1. s.verb = "DEFINE TABLE" /\ s.table = n
    BY <1>11 DEF DefinesTable
  <2>2. PICK d \in ToSet(diffs) : Fits(d, s)
    BY <1>6, <1>8, <2>1
  <2>3. d.kind = "Create" /\ s = DefineTable(d.next, FALSE)
    BY <2>1, <2>2 DEF Fits
  <2>4. s.table = d.next.name
    BY <2>3 DEF DefineTable
  <2>5. d.next \in After(diffs)
    BY <2>3, SchemaNames
  <2> QED BY <2>1, <2>3, <2>4, <2>5
<1>12. ASSUME NEW n, RemovesTable(s, n)
       PROVE  \E d \in ToSet(diffs) : d.kind = "Drop" /\ d.previous.name = n
  <2>1. s.verb = "REMOVE TABLE" /\ s.table = n
    BY <1>12 DEF RemovesTable
  <2>2. PICK d \in ToSet(diffs) : Fits(d, s)
    BY <1>6, <1>8, <2>1
  <2>3. d.kind = "Drop" /\ s.table = d.previous.name
    BY <2>1, <2>2 DEF Fits
  <2> QED BY <2>1, <2>3
<1>13. Leads(diffs, s, T)
  BY <1>7, <1>9, <1>10, <1>11, <1>12 DEF Leads
<1> QED BY <1>13 DEF s, T

(* A table of the next schema is not dropped. *)
LEMMA KeptTables ==
    ASSUME NEW diffs \in Changes, Safe(diffs), NEW t \in After(diffs), NEW d \in ToSet(diffs),
           d.kind = "Drop"
    PROVE  d.previous.name # t.name
<1>1. PICK e \in ToSet(diffs) : e.kind # "Drop" /\ t = e.next
  BY SchemaNames
<1>2. e.kind \in {"Create", "Alter"}
  BY <1>1, ChangeFacts, DiffFacts
<1>3. CASE e.kind = "Create"
  BY <1>1, <1>3, SchemaNames
<1>4. CASE e.kind = "Alter"
  <2>1. e.previous.name = e.next.name
    BY <1>4 DEF Safe, Unsafe
  <2>2. d.previous.name = e.previous.name => d = e
    BY <1>4, SchemaNames
  <2> QED BY <1>1, <1>4, <2>1, <2>2
<1> QED BY <1>2, <1>3, <1>4

(* Each statement brings the tables and indexes nearer to the next schema. *)
LEMMA ReachStep ==
    ASSUME NEW diffs \in Changes, Safe(diffs), NEW view, NEW v, NEW s, NEW L, NEW T,
           Leads(diffs, s, T), \A x : x \in ToSet(L) <=> x = s \/ x \in ToSet(T),
           Accepted(view, s), Turns(view, s, v), Reaches(diffs, view, L)
    PROVE  Reaches(diffs, v, T)
<1>1. ASSUME NEW t \in After(diffs) PROVE ~RemovesTable(s, t.name)
  <2> SUFFICES ASSUME RemovesTable(s, t.name) PROVE FALSE
    OBVIOUS
  <2>1. PICK d \in ToSet(diffs) : d.kind = "Drop" /\ d.previous.name = t.name
    BY DEF Leads
  <2> QED BY <2>1, KeptTables
<1>2. ASSUME NEW t \in After(diffs) PROVE t.name \in DOMAIN v \/ DefineTable(t, FALSE) \in ToSet(T)
  <2>1. t.name \in DOMAIN view \/ DefineTable(t, FALSE) \in ToSet(L)
    BY DEF Reaches
  <2>2. DefinesTable(DefineTable(t, FALSE), t.name)
    BY DEF DefineTable, DefinesTable
  <2> QED BY <1>1, <2>1, <2>2 DEF Turns
<1>3. ASSUME NEW n \in DOMAIN v
      PROVE  (\E t \in After(diffs) : t.name = n) \/ \E x \in ToSet(T) : RemovesTable(x, n)
  <2>1. (n \in DOMAIN view \/ DefinesTable(s, n)) /\ ~RemovesTable(s, n)
    BY DEF Turns
  <2>2. CASE n \in DOMAIN view
    <3>1. (\E t \in After(diffs) : t.name = n) \/ \E x \in ToSet(L) : RemovesTable(x, n)
      BY <2>2 DEF Reaches
    <3> QED BY <2>1, <3>1
  <2>3. CASE DefinesTable(s, n)
    BY <2>3 DEF Leads
  <2> QED BY <2>1, <2>2, <2>3
<1>4. ASSUME NEW t \in After(diffs), NEW i \in Secondary(t)
      PROVE  \/ DefineIndex(t, i, FALSE) \in ToSet(T)
             \/ /\ HasIndex(v, t.name, i.name)
                /\ FieldIndexes(diffs) => DefinedIn(v, t, i)
                /\ \A x \in ToSet(T) : ~RemovesIndex(x, t.name, i.name)
  <2>1. CASE s = DefineIndex(t, i, FALSE)
    <3>1. /\ DefinesIndex(s, t.name, i.name) /\ s.columns = i.columns /\ s.unique = i.unique
          /\ s.verb = "DEFINE INDEX" /\ s.table = t.name /\ s.index = i.name
      BY <2>1 DEF DefineIndex, DefinesIndex
    <3>2. ~RemovesIndex(s, t.name, i.name)
      BY <3>1 DEF RemovesIndex
    <3>3. HasIndex(v, t.name, i.name)
      BY <1>1, <3>1, <3>2 DEF Turns
    <3>4. ~s.if_not_exists /\ \A x \in ToSet(T) : ~RemovesIndex(x, t.name, i.name)
      BY <3>1 DEF Leads
    <3>5. ~HasIndex(view, t.name, i.name)
      BY <3>1, <3>4, AcceptedIs
    <3>6. SameIndex(v[t.name].indices[i.name], s)
      BY <3>3, <3>5 DEF Turns
    <3>7. DefinedIn(v, t, i)
      BY <3>1, <3>3, <3>6 DEF DefinedIn, SameIndex
    <3> QED BY <3>3, <3>4, <3>7
  <2>2. CASE s # DefineIndex(t, i, FALSE) /\ DefineIndex(t, i, FALSE) \in ToSet(L)
    BY <2>2
  <2>3. CASE /\ HasIndex(view, t.name, i.name)
             /\ FieldIndexes(diffs) => DefinedIn(view, t, i)
             /\ \A x \in ToSet(L) : ~RemovesIndex(x, t.name, i.name)
    <3>1. HasIndex(v, t.name, i.name)
      BY <1>1, <2>3 DEF Turns
    <3>2. SameIndex(v[t.name].indices[i.name], view[t.name].indices[i.name])
      BY <2>3, <3>1 DEF Turns
    <3>3. DefinedIn(view, t, i) => DefinedIn(v, t, i)
      BY <3>1, <3>2 DEF DefinedIn, SameIndex
    <3> QED BY <2>3, <3>1, <3>3
  <2> QED BY <2>1, <2>2, <2>3 DEF Reaches
<1>5. ASSUME NEW t \in After(diffs), NEW m, HasIndex(v, t.name, m)
      PROVE  (\E i \in Secondary(t) : i.name = m) \/ \E x \in ToSet(T) : RemovesIndex(x, t.name, m)
  <2>1. /\ HasIndex(view, t.name, m) \/ DefinesIndex(s, t.name, m)
        /\ ~RemovesIndex(s, t.name, m)
    BY <1>5 DEF Turns
  <2>2. CASE HasIndex(view, t.name, m)
    <3>1. (\E i \in Secondary(t) : i.name = m) \/ \E x \in ToSet(L) : RemovesIndex(x, t.name, m)
      BY <2>2 DEF Reaches
    <3> QED BY <2>1, <3>1
  <2>3. CASE DefinesIndex(s, t.name, m)
    <3>1. Wanted(diffs, s, t.name, m)
      BY <2>3 DEF Leads
    <3> QED BY <3>1 DEF Wanted
  <2> QED BY <2>1, <2>2, <2>3
<1> QED BY <1>2, <1>3, <1>4, <1>5 DEF Reaches

LEMMA DriftStep ==
    ASSUME NEW diffs \in Changes, NEW base, NEW view, NEW v, NEW s, NEW L, NEW T,
           Leads(diffs, s, T), \A x : x \in ToSet(L) <=> x = s \/ x \in ToSet(T),
           Accepted(view, s), Turns(view, s, v), Drifts(diffs, base, view, L)
    PROVE  Drifts(diffs, base, v, T)
<1> SUFFICES ASSUME NEW d \in ToSet(diffs), d.kind = "Create", d.next.name \in DOMAIN base
             PROVE  d.next.name \in DOMAIN v /\ DefineTable(d.next, FALSE) \in ToSet(T)
  BY DEF Drifts
<1>1. d.next.name \in DOMAIN view /\ DefineTable(d.next, FALSE) \in ToSet(L)
  BY DEF Drifts
<1>2. s # DefineTable(d.next, FALSE)
  <2> SUFFICES ASSUME s = DefineTable(d.next, FALSE) PROVE FALSE
    OBVIOUS
  <2>1. s.verb = "DEFINE TABLE" /\ s.table = d.next.name /\ ~s.if_not_exists
    BY DEF DefineTable
  <2> QED BY <1>1, <2>1, AcceptedIs
<1>3. ~RemovesTable(s, d.next.name)
  <2> SUFFICES ASSUME RemovesTable(s, d.next.name) PROVE FALSE
    OBVIOUS
  <2>1. PICK e \in ToSet(diffs) : e.kind = "Drop" /\ e.previous.name = d.next.name
    BY DEF Leads
  <2> QED BY <2>1, SchemaNames
<1> QED BY <1>1, <1>2, <1>3 DEF Turns

-----------------------------------------------------------------------------
(* Migrations. *)

(* A statement that is accepted leaves a table alone that it does not touch. *)
LEMMA LeavesTable ==
    ASSUME NEW base, NEW view, NEW s \in Statement, Accepted(view, s),
           NEW n \in DOMAIN view, s \notin Touchers(n)
    PROVE  n \in DOMAIN Effect(base, view, s) /\ Effect(base, view, s)[n] = view[n]
<1>1. s.verb \in Verbs /\ s.verb # "THROW"
  BY StatementVerbs, AcceptedIs
<1>2. CASE s.verb = "DEFINE TABLE"
  <2>1. CASE s.table \in DOMAIN view
    BY <1>2, <2>1 DEF Effect
  <2>2. CASE s.table \notin DOMAIN view
    <3>1. Effect(base, view, s) = Put(view, s.table, [rows |-> Empty, indices |-> Empty])
      BY <1>2, <2>2 DEF Effect
    <3> QED BY <2>2, <3>1 DEF Put
  <2> QED BY <2>1, <2>2
<1>3. CASE s.verb = "RETURN NONE"
  BY <1>3 DEF Effect
<1>4. CASE s.verb = "REMOVE TABLE"
  <2>1. s.table # n
    BY <1>4 DEF Touchers
  <2>2. Effect(base, view, s) = Without(view, s.table)
    BY <1>4 DEF Effect
  <2> QED BY <2>1, <2>2 DEF Without
<1>5. CASE s.verb = "DEFINE INDEX"
  <2>1. s.table # n
    BY <1>5 DEF Touchers
  <2>2. CASE HasIndex(view, s.table, s.index)
    BY <1>5, <2>2 DEF Effect
  <2>3. CASE ~HasIndex(view, s.table, s.index)
    <3>1. Effect(base, view, s) = [view EXCEPT ![s.table].indices = Put(@, s.index, Built(base, s))]
      BY <1>5, <2>3 DEF Effect
    <3> QED BY <2>1, <3>1
  <2> QED BY <2>2, <2>3
<1>6. CASE s.verb = "REMOVE INDEX"
  <2>1. s.table # n
    BY <1>6 DEF Touchers
  <2>2. Effect(base, view, s) = [view EXCEPT ![s.table].indices = Without(@, s.index)]
    BY <1>6 DEF Effect
  <2> QED BY <2>1, <2>2
<1>7. CASE s.verb = "UPDATE SET"
  <2>1. s.table # n
    BY <1>7 DEF Touchers
  <2>2. Effect(base, view, s) = [view EXCEPT ![s.table] = CopyField(@, s)]
    BY <1>7 DEF Effect
  <2> QED BY <2>1, <2>2
<1>8. CASE s.verb = "UPDATE UNSET"
  <2>1. s.table # n
    BY <1>8 DEF Touchers
  <2>2. Effect(base, view, s) = [view EXCEPT ![s.table] = UnsetField(@, s)]
    BY <1>8 DEF Effect
  <2> QED BY <2>1, <2>2
<1> QED BY <1>1, <1>2, <1>3, <1>4, <1>5, <1>6, <1>7, <1>8 DEF Verbs

LEMMA MigrateStart ==
    ASSUME NEW diffs \in Changes, NEW v, CurrentDb(v), Legit(diffs, v),
           NEW j, j.todo = generate(diffs), j.base = v, j.view = v
    PROVE  MigrateInv(diffs, j)
<1> DEFINE L == generate(diffs)
<1>1. /\ Plan(diffs, L) /\ L # << >>
      /\ \A d \in ToSet(diffs) : ToSet(TableStatements(d)) \subseteq ToSet(L)
      /\ \A d \in ToSet(diffs) : Unsafe(d) => Shielded(L, d.previous.name)
  BY Generated
<1>2. Safe(diffs) => Reaches(diffs, v, L)
  BY ReachStart
<1> HIDE DEF L
<1>3. \A d \in ToSet(diffs) : d \in Diff /\ IndexesNamed(d.previous)
  BY ChangeFacts
<1>4. ASSUME ~Safe(diffs) PROVE \E x \in ToSet(L) : x.verb = "THROW"
  <2>1. PICK d \in ToSet(diffs) : Unsafe(d)
    BY <1>4 DEF Safe
  <2> DEFINE P == TableStatements(d)
  <2>2. PartOf(d, P)
    BY <1>3, Parts
  <2> HIDE DEF P
  <2>3. P \in Seq(Statement) /\ Len(P) > 0
    BY <2>1, <2>2 DEF PartOf
  <2>4. P[1].verb = "THROW"
    BY <2>1, <2>2 DEF PartOf
  <2>5. P[1] \in ToSet(P)
    <3>1. 1 \in DOMAIN P
      BY <2>3
    <3> QED BY <3>1 DEF ToSet
  <2> QED BY <1>1, <2>4, <2>5 DEF P
<1>5. ASSUME NEW d \in ToSet(diffs), Unsafe(d) PROVE d.previous.name \in DOMAIN v
  <2>1. d.previous \in Before(diffs)
    BY <1>5, SchemaNames DEF Unsafe
  <2> QED BY <2>1 DEF Legit
<1>6. Guarded(diffs, v, v, L)
  BY <1>1, <1>4, <1>5 DEF Guarded, Same
<1>7. Drifts(diffs, v, v, L)
  <2> SUFFICES ASSUME NEW d \in ToSet(diffs), d.kind = "Create"
               PROVE  DefineTable(d.next, FALSE) \in ToSet(L)
    BY DEF Drifts
  <2>1. DefineTable(d.next, FALSE) \in ToSet(TableStatements(d))
    BY <1>3, Created
  <2> QED BY <1>1, <2>1
<1>8. RowsKnown(v, v, L)
  BY DEF RowsKnown
<1> QED BY <1>1, <1>2, <1>6, <1>7, <1>8 DEF MigrateInv, L

LEMMA MigrateStep ==
    ASSUME NEW diffs \in Changes, NEW j, MigrateInv(diffs, j), j.todo # << >>,
           Accepted(j.view, Head(j.todo)),
           NEW k, k.todo = Tail(j.todo), k.base = j.base,
           k.view = Effect(j.base, j.view, Head(j.todo))
    PROVE  MigrateInv(diffs, k)
<1> DEFINE L == j.todo
           T == Tail(L)
           s == Head(L)
           view == j.view
           base == j.base
           v == Effect(base, view, s)
<1>1. /\ Plan(diffs, L) /\ CurrentDb(base) /\ CurrentDb(view) /\ RowsKnown(base, view, L)
      /\ Safe(diffs) => Reaches(diffs, view, L)
      /\ Guarded(diffs, base, view, L) /\ Drifts(diffs, base, view, L)
  BY DEF MigrateInv
<1>2. Plan(diffs, T) /\ Leads(diffs, s, T)
  BY <1>1, PlanTail, HeadLeads
<1>3. Accepted(view, s) /\ L # << >>
  OBVIOUS
<1>4. L \in Seq(Statement)
  BY <1>1 DEF Plan
<1> HIDE DEF L, base, view
<1>5. s \in Statement /\ s \in ToSet(L) /\ \A x : x \in ToSet(L) <=> x = s \/ x \in ToSet(T)
  BY <1>3, <1>4, TailFacts
<1> HIDE DEF s, T
<1>6. CurrentDb(v) /\ Turns(view, s, v)
  <2>1. s.verb = "DEFINE INDEX" => RowsOf(view, s.table) = RowsOf(base, s.table)
    BY <1>1, <1>5 DEF RowsKnown
  <2> QED BY <1>1, <1>3, <1>5, <2>1, Effects
<1> HIDE DEF v
<1>7. RowsKnown(base, v, T)
  <2> SUFFICES ASSUME NEW x \in ToSet(T), x.verb = "DEFINE INDEX"
               PROVE  RowsOf(v, x.table) = RowsOf(base, x.table)
    BY DEF RowsKnown
  <2>1. ~Disturbs(s, x.table)
    BY <1>2 DEF Leads
  <2>2. RowsOf(v, x.table) = RowsOf(view, x.table)
    BY <1>6, <2>1 DEF Turns
  <2>3. RowsOf(view, x.table) = RowsOf(base, x.table)
    BY <1>1, <1>5 DEF RowsKnown
  <2> QED BY <2>2, <2>3
<1>8. Safe(diffs) => Reaches(diffs, v, T)
  BY <1>1, <1>2, <1>3, <1>5, <1>6, ReachStep
<1>9. Drifts(diffs, base, v, T)
  BY <1>1, <1>2, <1>3, <1>5, <1>6, DriftStep
<1>10. Guarded(diffs, base, v, T)
  <2>1. s.verb # "THROW"
    BY <1>3, AcceptedIs
  <2>2. ~Safe(diffs) => \E x \in ToSet(T) : x.verb = "THROW"
    BY <1>1, <1>5, <2>1 DEF Guarded
  <2>3. ASSUME NEW d \in ToSet(diffs), Unsafe(d)
        PROVE  Same(base, v, d.previous.name) /\ Shielded(T, d.previous.name)
    <3> DEFINE n == d.previous.name
    <3>1. Same(base, view, n) /\ Shielded(L, n)
      BY <1>1, <2>3 DEF Guarded
    <3> HIDE DEF n
    <3>2. s \notin Stoppers(n)
      BY <1>3, <2>1, <3>1, AcceptedIs DEF Stoppers, Same
    <3>3. Shielded(T, n) /\ s \notin Touchers(n)
      BY <1>3, <1>4, <3>1, <3>2, TailPreceded DEF Shielded, T, s
    <3>4. n \in DOMAIN v /\ v[n] = view[n]
      BY <1>3, <1>5, <3>1, <3>3, LeavesTable DEF Same, v
    <3> QED BY <3>1, <3>3, <3>4 DEF Same, n
  <2> QED BY <2>2, <2>3 DEF Guarded
<1>11. k.todo = T /\ k.base = base /\ k.view = v
  BY DEF T, L, base, view, v, s
<1> QED BY <1>1, <1>2, <1>6, <1>7, <1>8, <1>9, <1>10, <1>11 DEF MigrateInv

(* A migration that has run all of its statements. *)
LEMMA MigrateEnd ==
    ASSUME NEW diffs \in Changes, NEW j, MigrateInv(diffs, j), j.todo = << >>
    PROVE  /\ CurrentDb(j.view) /\ Safe(diffs) /\ Defined(diffs, j.view, << >>)
           /\ \A d \in ToSet(diffs) : d.kind = "Create" => d.next.name \notin DOMAIN j.base
           /\ FieldIndexes(diffs) => DefinedAs(j.view, After(diffs))
<1> DEFINE v == j.view
<1>1. \A x : x \notin ToSet(j.todo)
  BY DEF ToSet
<1>2. Safe(diffs)
  BY <1>1 DEF MigrateInv, Guarded
<1>3. Reaches(diffs, v, j.todo)
  BY <1>2 DEF MigrateInv
<1>4. Drifts(diffs, j.base, v, j.todo) /\ CurrentDb(v)
  BY DEF MigrateInv
<1> HIDE DEF v
<1>5. \A t \in After(diffs) : t.name \in DOMAIN v
  BY <1>1, <1>3 DEF Reaches
<1>6. \A n \in DOMAIN v : \E t \in After(diffs) : t.name = n
  BY <1>1, <1>3 DEF Reaches
<1>7. \A t \in After(diffs) : \A i \in Secondary(t) :
         HasIndex(v, t.name, i.name) /\ (FieldIndexes(diffs) => DefinedIn(v, t, i))
  BY <1>1, <1>3 DEF Reaches
<1>8. \A t \in After(diffs) : \A m : HasIndex(v, t.name, m) => \E i \in Secondary(t) : i.name = m
  BY <1>1, <1>3 DEF Reaches
<1>9. Defined(diffs, v, << >>)
  BY <1>5, <1>7 DEF Defined
<1>10. \A d \in ToSet(diffs) : d.kind = "Create" => d.next.name \notin DOMAIN j.base
  BY <1>1, <1>4 DEF Drifts
<1>11. ASSUME FieldIndexes(diffs) PROVE DefinedAs(v, After(diffs))
  <2>1. DOMAIN v = {t.name : t \in After(diffs)}
    BY <1>5, <1>6
  <2>2. ASSUME NEW t \in After(diffs)
        PROVE  DOMAIN v[t.name].indices = {i.name : i \in Secondary(t)}
    BY <1>5, <1>7, <1>8 DEF HasIndex
  <2>3. ASSUME NEW t \in After(diffs), NEW i \in Secondary(t)
        PROVE  /\ v[t.name].indices[i.name].columns = i.columns
               /\ v[t.name].indices[i.name].unique = i.unique
    BY <1>7, <1>11 DEF DefinedIn
  <2> QED BY <2>1, <2>2, <2>3 DEF DefinedAs
<1> QED BY <1>2, <1>4, <1>9, <1>10, <1>11 DEF v

-----------------------------------------------------------------------------
(* Pushes. *)

LEMMA PushParts ==
    ASSUME NEW diffs \in Changes
    PROVE  LET L == PushStatements(diffs) IN
           L \in Seq(Statement) /\ \A x : x \in ToSet(L) <=> Pushing(diffs, x)
<1> DEFINE L  == PushStatements(diffs)
           N  == Len(diffs)
           pt(d) == When(d.kind # "Drop", define_table_statements(d.next, TRUE))
           ss == [k \in DOMAIN diffs |-> pt(diffs[k])]
<1>1. /\ DOMAIN diffs = 1..N /\ N \in Nat
      /\ \A k \in 1..N : diffs[k] \in Diff /\ diffs[k] \in ToSet(diffs)
      /\ \A d \in ToSet(diffs) : d \in Diff /\ \E k \in 1..N : d = diffs[k]
  BY ChangeFacts
<1>2. L = FlattenSeq(ss)
  BY DEF PushStatements, ForEach
<1> DEFINE of(d, x) ==
      /\ d.kind # "Drop"
      /\ x = DefineTable(d.next, TRUE) \/ \E i \in Secondary(d.next) : x = DefineIndex(d.next, i, TRUE)
<1>3. ASSUME NEW d \in Diff PROVE pt(d) \in Seq(Statement) /\ \A x : x \in ToSet(pt(d)) <=> of(d, x)
  <2> DEFINE D == define_table_statements(d.next, TRUE)
  <2>1. /\ D \in Seq(Statement)
        /\ \A x : x \in ToSet(D) <=>
              x = DefineTable(d.next, TRUE) \/ \E i \in Secondary(d.next) : x = DefineIndex(d.next, i, TRUE)
    <3>1. d.next \in Schema /\ TRUE \in BOOLEAN
      BY DiffFacts
    <3> QED BY <3>1, Defines
  <2> HIDE DEF D
  <2>2. pt(d) = IF d.kind # "Drop" THEN D ELSE << >>
    BY DEF When, D
  <2>3. << >> \in Seq(Statement)
    OBVIOUS
  <2>4. ToSet(<< >>) = {}
    BY DEF ToSet
  <2> HIDE DEF pt
  <2> QED BY <2>1, <2>2, <2>3, <2>4
<1> HIDE DEF pt, of, L
<1>4. ss \in Seq(Seq(Statement)) /\ Len(ss) = N
  <2>1. ss = [k \in 1..N |-> pt(diffs[k])]
    BY <1>1
  <2> HIDE DEF ss, N
  <2>2. ss \in [1..N -> Seq(Statement)]
    BY <1>1, <1>3, <2>1
  <2> QED BY <1>1, <2>1, <2>2
<1>5. \A k \in 1..N : ss[k] = pt(diffs[k])
  BY <1>1
<1> HIDE DEF ss, N
<1>6. L \in Seq(Statement) /\ \A x : x \in ToSet(L) <=> \E k \in 1..N : x \in ToSet(ss[k])
  BY <1>2, <1>4, FlattenMembers
<1>7. \A x : x \in ToSet(L) <=> \E d \in ToSet(diffs) : of(d, x)
  BY <1>1, <1>3, <1>5, <1>6
<1>8. ASSUME NEW x PROVE (\E d \in ToSet(diffs) : of(d, x)) <=> Pushing(diffs, x)
  <2>1. ASSUME NEW d \in ToSet(diffs), of(d, x) PROVE Pushing(diffs, x)
    <3>1. d.next \in After(diffs)
      BY <2>1, SchemaNames DEF of
    <3> QED BY <2>1, <3>1 DEF of, Pushing
  <2>2. ASSUME Pushing(diffs, x) PROVE \E d \in ToSet(diffs) : of(d, x)
    <3>1. PICK t \in After(diffs) :
             x = DefineTable(t, TRUE) \/ \E i \in Secondary(t) : x = DefineIndex(t, i, TRUE)
      BY <2>2 DEF Pushing
    <3>2. PICK d \in ToSet(diffs) : d.kind # "Drop" /\ t = d.next
      BY SchemaNames
    <3> QED BY <3>1, <3>2 DEF of
  <2> QED BY <2>1, <2>2
<1> QED BY <1>6, <1>7, <1>8 DEF L

LEMMA PushStart ==
    ASSUME NEW diffs \in Changes, NEW v, NEW j, j.todo = PushStatements(diffs)
    PROVE  PushInv(diffs, v, j)
<1> DEFINE L == PushStatements(diffs)
<1>1. L \in Seq(Statement) /\ \A x : x \in ToSet(L) <=> Pushing(diffs, x)
  BY PushParts
<1>2. Defined(diffs, v, L)
  <2>1. \A t \in After(diffs) : Pushing(diffs, DefineTable(t, TRUE))
    BY DEF Pushing
  <2>2. \A t \in After(diffs) : \A i \in Secondary(t) : Pushing(diffs, DefineIndex(t, i, TRUE))
    BY DEF Pushing
  <2> HIDE DEF L
  <2> QED BY <1>1, <2>1, <2>2 DEF Defined
<1> QED BY <1>1, <1>2 DEF PushInv

(* Nothing is lost. *)
Grows(v, w) ==
    DOMAIN v \subseteq DOMAIN w /\ \A n, m : HasIndex(v, n, m) => HasIndex(w, n, m)

LEMMA DefinedGrows ==
    ASSUME NEW diffs, NEW v, NEW w, Grows(v, w), NEW L, Defined(diffs, v, L)
    PROVE  Defined(diffs, w, L)
BY DEF Grows, Defined

LEMMA PushEffect ==
    ASSUME NEW diffs \in Changes, NEW v, CurrentDb(v), NEW s \in Statement, Pushing(diffs, s),
           Accepted(v, s)
    PROVE  LET w == Effect(v, v, s) IN
           /\ CurrentDb(w) /\ Grows(v, w)
           /\ Legit(diffs, v) => Legit(diffs, w)
           /\ \A n : DefinesTable(s, n) => n \in DOMAIN w
           /\ \A n, m : DefinesIndex(s, n, m) => HasIndex(w, n, m)
<1> DEFINE w == Effect(v, v, s)
<1>1. CurrentDb(w) /\ Turns(v, s, w)
  BY Effects
<1> HIDE DEF w
<1>2. PICK t \in After(diffs) :
         s = DefineTable(t, TRUE) \/ \E i \in Secondary(t) : s = DefineIndex(t, i, TRUE)
  BY DEF Pushing
<1>3. /\ \A n : ~RemovesTable(s, n)
      /\ \A n, m : ~RemovesIndex(s, n, m)
      /\ \A n : DefinesTable(s, n) => n = t.name
      /\ \A n, m : DefinesIndex(s, n, m) => n = t.name /\ \E i \in Secondary(t) : i.name = m
  <2>1. CASE s = DefineTable(t, TRUE)
    <3>1. s.verb = "DEFINE TABLE" /\ s.table = t.name
      BY <2>1 DEF DefineTable
    <3> QED BY <3>1 DEF RemovesTable, RemovesIndex, DefinesTable, DefinesIndex
  <2>2. CASE \E i \in Secondary(t) : s = DefineIndex(t, i, TRUE)
    <3>1. PICK i \in Secondary(t) : s = DefineIndex(t, i, TRUE)
      BY <2>2
    <3>2. s.verb = "DEFINE INDEX" /\ s.table = t.name /\ s.index = i.name
      BY <3>1 DEF DefineIndex
    <3> QED BY <3>2 DEF RemovesTable, RemovesIndex, DefinesTable, DefinesIndex
  <2> QED BY <1>2, <2>1, <2>2
<1>4. \A n : n \in DOMAIN w <=> n \in DOMAIN v \/ DefinesTable(s, n)
  BY <1>1, <1>3 DEF Turns
<1>5. \A n, m : HasIndex(w, n, m) <=> HasIndex(v, n, m) \/ DefinesIndex(s, n, m)
  BY <1>1, <1>3 DEF Turns
<1>6. Grows(v, w)
  BY <1>4, <1>5 DEF Grows
<1>7. ASSUME Legit(diffs, v) PROVE Legit(diffs, w)
  <2>1. ASSUME NEW u \in Before(diffs)
        PROVE  u.name \in DOMAIN w /\ \A i \in Secondary(u) : DefinedIn(w, u, i)
    <3>1. u.name \in DOMAIN v /\ \A i \in Secondary(u) : DefinedIn(v, u, i)
      BY <1>7 DEF Legit
    <3>2. ASSUME NEW i \in Secondary(u) PROVE DefinedIn(w, u, i)
      <4>1. HasIndex(v, u.name, i.name) /\ HasIndex(w, u.name, i.name)
        BY <1>5, <3>1 DEF DefinedIn
      <4>2. SameIndex(w[u.name].indices[i.name], v[u.name].indices[i.name])
        BY <1>1, <4>1 DEF Turns
      <4> QED BY <3>1, <4>1, <4>2 DEF DefinedIn, SameIndex
    <3> QED BY <1>4, <3>1, <3>2
  <2>2. ASSUME NEW n \in DOMAIN w PROVE \E u \in Before(diffs) \cup After(diffs) : u.name = n
    BY <1>3, <1>4, <1>7 DEF Legit
  <2>3. ASSUME NEW n, NEW m, HasIndex(w, n, m)
        PROVE  \E u \in Before(diffs) \cup After(diffs) :
                  u.name = n /\ \E i \in Secondary(u) : i.name = m
    <3>1. CASE HasIndex(v, n, m)
      BY <1>7, <3>1 DEF Legit
    <3>2. CASE DefinesIndex(s, n, m)
      BY <1>3, <3>2
    <3> QED BY <1>5, <2>3, <3>1, <3>2
  <2> QED BY <2>1, <2>2, <2>3 DEF Legit
<1> QED BY <1>1, <1>4, <1>5, <1>6, <1>7 DEF w

LEMMA PushStep ==
    ASSUME NEW diffs \in Changes, NEW v, CurrentDb(v), NEW j, PushInv(diffs, v, j),
           j.todo # << >>, Accepted(v, Head(j.todo)), NEW k, k.todo = Tail(j.todo)
    PROVE  LET w == Effect(v, v, Head(j.todo)) IN
           /\ PushInv(diffs, w, k) /\ CurrentDb(w) /\ Grows(v, w)
           /\ Legit(diffs, v) => Legit(diffs, w)
<1> DEFINE L == j.todo
           T == Tail(L)
           s == Head(L)
           w == Effect(v, v, s)
<1>1. L \in Seq(Statement) /\ (\A x \in ToSet(L) : Pushing(diffs, x)) /\ Defined(diffs, v, L)
  BY DEF PushInv
<1>2. Accepted(v, s) /\ L # << >> /\ k.todo = T
  OBVIOUS
<1> HIDE DEF L
<1>3. /\ T \in Seq(Statement) /\ s \in Statement /\ s \in ToSet(L)
      /\ \A x : x \in ToSet(L) <=> x = s \/ x \in ToSet(T)
  BY <1>1, <1>2, TailFacts
<1> HIDE DEF s, T
<1>4. Pushing(diffs, s)
  BY <1>1, <1>3
<1>5. /\ CurrentDb(w) /\ Grows(v, w)
      /\ Legit(diffs, v) => Legit(diffs, w)
      /\ \A n : DefinesTable(s, n) => n \in DOMAIN w
      /\ \A n, m : DefinesIndex(s, n, m) => HasIndex(w, n, m)
  BY <1>2, <1>3, <1>4, PushEffect
<1> HIDE DEF w
<1>6. ASSUME NEW t \in After(diffs) PROVE t.name \in DOMAIN w \/ DefineTable(t, TRUE) \in ToSet(T)
  <2>1. DefinesTable(DefineTable(t, TRUE), t.name)
    BY DEF DefinesTable, DefineTable
  <2>2. t.name \in DOMAIN v \/ DefineTable(t, TRUE) \in ToSet(L)
    BY <1>1 DEF Defined
  <2> QED BY <1>3, <1>5, <2>1, <2>2 DEF Grows
<1>7. ASSUME NEW t \in After(diffs), NEW i \in Secondary(t)
      PROVE  HasIndex(w, t.name, i.name) \/ DefineIndex(t, i, TRUE) \in ToSet(T)
  <2>1. DefinesIndex(DefineIndex(t, i, TRUE), t.name, i.name)
    BY DEF DefinesIndex, DefineIndex
  <2>2. HasIndex(v, t.name, i.name) \/ DefineIndex(t, i, TRUE) \in ToSet(L)
    BY <1>1 DEF Defined
  <2> QED BY <1>3, <1>5, <2>1, <2>2 DEF Grows
<1>8. PushInv(diffs, w, k)
  BY <1>1, <1>2, <1>3, <1>6, <1>7 DEF PushInv, Defined
<1> QED BY <1>5, <1>8 DEF w, s, L

-----------------------------------------------------------------------------
(* The database of the previous schema. *)

LEMMA TableIs ==
    ASSUME NEW t, IndexesNamed(t), NEW r \in Rows(t)
    PROVE  LET T == Table(t, r) IN
           /\ CurrentTable(T)
           /\ DOMAIN T.indices = {i.name : i \in Secondary(t)}
           /\ \A i \in Secondary(t) :
                 T.indices[i.name].columns = i.columns /\ T.indices[i.name].unique = i.unique
<1> DEFINE T == Table(t, r)
           names == {i.name : i \in Secondary(t)}
           at(n) == CHOOSE j \in Secondary(t) : j.name = n
           index(n) == [columns |-> at(n).columns, unique |-> at(n).unique,
                        entries |-> [id \in Ids |-> Project(r[id], at(n).columns)]]
           J == [n \in names |-> index(n)]
<1>1. T = [rows |-> r, indices |-> J]
  BY DEF Table
<1>2. DOMAIN r = Ids
  BY DEF Rows
<1>3. \A n \in names : index(n) = IndexOf(r, index(n).columns, index(n).unique)
  BY <1>2 DEF IndexOf
<1>4. ASSUME NEW i \in Secondary(t) PROVE at(i.name) = i /\ i.name \in names
  <2>1. at(i.name) \in Secondary(t) /\ at(i.name).name = i.name
    OBVIOUS
  <2> HIDE DEF at
  <2>2. i \in ToSet(t.indices) /\ at(i.name) \in ToSet(t.indices)
    BY <2>1 DEF Secondary
  <2> QED BY <2>1, <2>2, IndexNames
<1>5. \A i \in Secondary(t) : index(i.name).columns = i.columns /\ index(i.name).unique = i.unique
  BY <1>4
<1> HIDE DEF index, at
<1>6. CurrentIndexes(r, J)
  BY <1>3 DEF CurrentIndexes
<1>7. DOMAIN J = names /\ \A i \in Secondary(t) : J[i.name] = index(i.name)
  OBVIOUS
<1> HIDE DEF J, names, T
<1>8. T.rows = r /\ T.indices = J /\ T = [rows |-> T.rows, indices |-> T.indices]
  BY <1>1
<1>9. CurrentTable(T)
  BY <1>6, <1>8 DEF CurrentTable
<1> QED BY <1>5, <1>7, <1>8, <1>9 DEF T, names

LEMMA StartingDb ==
    ASSUME NEW diffs \in Changes, NEW rows,
           \A t \in Before(diffs) : rows[t.name] \in Rows(t),
           NEW v, v = [n \in {t.name : t \in Before(diffs)} |->
                          Table(CHOOSE t \in Before(diffs) : t.name = n, rows[n])]
    PROVE  CurrentDb(v) /\ Legit(diffs, v)
<1> DEFINE at(n) == CHOOSE t \in Before(diffs) : t.name = n
<1>1. ASSUME NEW n \in DOMAIN v
      PROVE  /\ at(n) \in Before(diffs) /\ at(n).name = n /\ v[n] = Table(at(n), rows[n])
             /\ IndexesNamed(at(n)) /\ rows[n] \in Rows(at(n))
  <2>1. at(n) \in Before(diffs) /\ at(n).name = n /\ v[n] = Table(at(n), rows[n])
    OBVIOUS
  <2> HIDE DEF at
  <2>2. IndexesNamed(at(n))
    BY <2>1, SchemaNames
  <2> QED BY <2>1, <2>2
<1>2. ASSUME NEW t \in Before(diffs) PROVE t.name \in DOMAIN v /\ at(t.name) = t
  <2>1. t.name \in DOMAIN v
    OBVIOUS
  <2>2. at(t.name) \in Before(diffs) /\ at(t.name).name = t.name
    BY <1>1, <2>1
  <2> HIDE DEF at
  <2>3. PICK d \in ToSet(diffs) : d.kind # "Create" /\ t = d.previous
    BY SchemaNames
  <2>4. PICK e \in ToSet(diffs) : e.kind # "Create" /\ at(t.name) = e.previous
    BY <2>2, SchemaNames
  <2>5. d = e
    BY <2>2, <2>3, <2>4, SchemaNames
  <2> QED BY <2>1, <2>3, <2>4, <2>5
<1>3. v = [n \in DOMAIN v |-> v[n]]
  OBVIOUS
<1> HIDE DEF at
<1>4. CurrentDb(v)
  BY <1>1, <1>3, TableIs DEF CurrentDb
<1>5. ASSUME NEW t \in Before(diffs)
      PROVE  /\ t.name \in DOMAIN v
             /\ DOMAIN v[t.name].indices = {i.name : i \in Secondary(t)}
             /\ \A i \in Secondary(t) : DefinedIn(v, t, i)
  <2>1. /\ t.name \in DOMAIN v /\ v[t.name] = Table(t, rows[t.name])
        /\ IndexesNamed(t) /\ rows[t.name] \in Rows(t)
    BY <1>1, <1>2
  <2>2. /\ DOMAIN v[t.name].indices = {i.name : i \in Secondary(t)}
        /\ \A i \in Secondary(t) : /\ v[t.name].indices[i.name].columns = i.columns
                                   /\ v[t.name].indices[i.name].unique = i.unique
    <3> DEFINE r == rows[t.name]
               T == Table(t, r)
    <3> HIDE DEF r
    <3>1. IndexesNamed(t) /\ r \in Rows(t)
      BY <2>1 DEF r
    <3>2. /\ DOMAIN T.indices = {i.name : i \in Secondary(t)}
          /\ \A i \in Secondary(t) : T.indices[i.name].columns = i.columns /\ T.indices[i.name].unique = i.unique
      BY <3>1, TableIs
    <3>3. v[t.name] = T
      BY <2>1 DEF r
    <3> HIDE DEF T
    <3> QED BY <3>2, <3>3
  <2> QED BY <2>1, <2>2 DEF DefinedIn, HasIndex
<1>6. \A n \in DOMAIN v : \E t \in Before(diffs) \cup After(diffs) : t.name = n
  BY <1>1
<1>7. ASSUME NEW n, NEW m, HasIndex(v, n, m)
      PROVE  \E t \in Before(diffs) \cup After(diffs) :
                t.name = n /\ \E i \in Secondary(t) : i.name = m
  <2>1. n \in DOMAIN v /\ m \in DOMAIN v[n].indices
    BY <1>7 DEF HasIndex
  <2>2. at(n) \in Before(diffs) /\ at(n).name = n
    BY <1>1, <2>1
  <2>3. DOMAIN v[n].indices = {i.name : i \in Secondary(at(n))}
    BY <1>5, <2>2
  <2>4. \E i \in Secondary(at(n)) : i.name = m
    BY <2>1, <2>3
  <2> QED BY <2>2, <2>4
<1>8. Legit(diffs, v)
  BY <1>5, <1>6, <1>7 DEF Legit
<1> QED BY <1>4, <1>8

(* A database that only grows stays within what a push may reckon with. *)
LEMMA PushGrows ==
    ASSUME NEW diffs, NEW v, NEW w, Grows(v, w), NEW j, PushInv(diffs, v, j)
    PROVE  PushInv(diffs, w, j)
BY DefinedGrows DEF PushInv

-----------------------------------------------------------------------------
(* The steps. *)

LEMMA InitInv == Init => GenInv
<1> SUFFICES ASSUME Init PROVE GenInv
  OBVIOUS
<1>1. change \in Changes /\ applied = FALSE /\ job = [c \in Clients |-> NoJob]
      /\ reply = [c \in Clients |-> "none"]
  BY DEF Init
<1>2. CurrentDb(db) /\ Legit(change, db)
  <2>1. PICK rows \in [{t.name : t \in Before(change)} -> UNION {Rows(t) : t \in Before(change)}] :
           /\ \A t \in Before(change) : rows[t.name] \in Rows(t)
           /\ db = [n \in {t.name : t \in Before(change)} |->
                       Table(CHOOSE t \in Before(change) : t.name = n, rows[n])]
    BY DEF Init
  <2> QED BY <1>1, <2>1, StartingDb, SMTT(30)
<1>3. JobInv(change, db, NoJob)
  BY DEF JobInv, IsJob, NoJob
<1>4. \A c \in Clients : reply[c] # "pushed" /\ job[c] = NoJob
  BY <1>1
<1>5. reply = [c \in Clients |-> reply[c]] /\ job = [c \in Clients |-> job[c]]
  BY <1>1
<1> QED BY <1>1, <1>2, <1>3, <1>4, <1>5 DEF GenInv

LEMMA BeginsInv ==
    ASSUME GenInv, NEW c \in Clients, NEW at \in {"push", "migrate"}, NEW todo, Begin(c, at, todo),
           at = "push" => todo = PushStatements(change),
           at = "migrate" => ~applied /\ todo = generate(change)
    PROVE  GenInv'
<1> DEFINE j == [at |-> at, todo |-> todo, base |-> db, view |-> db]
<1>1. job' = [job EXCEPT ![c] = j] /\ UNCHANGED <<change, db, reply, applied>>
  BY DEF Begin
<1>2. /\ change \in Changes /\ CurrentDb(db) /\ job = [k \in Clients |-> job[k]]
      /\ \A k \in Clients : JobInv(change, db, job[k])
  BY DEF GenInv
<1>3. JobInv(change, db, j)
  <2>1. j.at = at /\ j.todo = todo /\ j.base = db /\ j.view = db /\ IsJob(j)
    BY DEF IsJob
  <2> HIDE DEF j
  <2>2. CASE at = "push"
    <3>1. PushInv(change, db, j)
      BY <1>2, <2>1, <2>2, PushStart
    <3> QED BY <2>1, <2>2, <3>1 DEF JobInv
  <2>3. CASE at = "migrate"
    <3>1. Legit(change, db)
      BY <2>3 DEF GenInv
    <3>2. MigrateInv(change, j)
      BY <1>2, <2>1, <2>3, <3>1, MigrateStart
    <3> QED BY <2>1, <2>3, <3>2 DEF JobInv
  <2> QED BY <2>2, <2>3
<1> HIDE DEF j
<1>4. job' = [k \in Clients |-> job'[k]] /\ \A k \in Clients : job'[k] = IF k = c THEN j ELSE job[k]
  BY <1>1, <1>2
<1>5. \A k \in Clients : JobInv(change, db, job'[k])
  BY <1>2, <1>3, <1>4
<1> QED BY <1>1, <1>4, <1>5 DEF GenInv

(* A job ends with a reply; the database is w from then on. *)
LEMMA EndsInv ==
    ASSUME GenInv, NEW c \in Clients, NEW r, End(c, r), UNCHANGED change, applied' \in BOOLEAN,
           CurrentDb(db'),
           r = "pushed" => Defined(change, db', << >>),
           Defined(change, db, << >>) => Defined(change, db', << >>),
           ~applied' => Legit(change, db'),
           applied' => Safe(change),
           \A k \in Clients : JobInv(change, db, job[k]) => JobInv(change, db', job[k])
    PROVE  GenInv'
<1>1. job' = [job EXCEPT ![c] = NoJob] /\ reply' = [reply EXCEPT ![c] = r]
  BY DEF End
<1>2. /\ change \in Changes
      /\ job = [k \in Clients |-> job[k]] /\ reply = [k \in Clients |-> reply[k]]
      /\ \A k \in Clients : JobInv(change, db, job[k])
      /\ (\E k \in Clients : reply[k] = "pushed") => Defined(change, db, << >>)
  BY DEF GenInv
<1>3. JobInv(change, db', NoJob)
  BY DEF JobInv, IsJob, NoJob
<1>4. job' = [k \in Clients |-> job'[k]] /\ \A k \in Clients : job'[k] = IF k = c THEN NoJob ELSE job[k]
  BY <1>1, <1>2
<1>5. reply' = [k \in Clients |-> reply'[k]] /\ \A k \in Clients : reply'[k] = IF k = c THEN r ELSE reply[k]
  BY <1>1, <1>2
<1>6. \A k \in Clients : JobInv(change, db', job'[k])
  BY <1>2, <1>3, <1>4
<1>7. (\E k \in Clients : reply'[k] = "pushed") => Defined(change, db', << >>)
  BY <1>2, <1>5
<1> QED BY <1>2, <1>4, <1>5, <1>6, <1>7 DEF GenInv

LEMMA PushedInv ==
    ASSUME GenInv, NEW c \in Clients, Pushed(c)
    PROVE  GenInv'
<1>1. End(c, "pushed") /\ UNCHANGED <<change, db, applied>> /\ job[c].at = "push" /\ job[c].todo = << >>
  BY DEF Pushed
<1>2. Defined(change, db, << >>)
  BY <1>1 DEF GenInv, JobInv, PushInv
<1>3. applied' \in BOOLEAN /\ CurrentDb(db') /\ (~applied' => Legit(change, db')) /\ (applied' => Safe(change))
  BY <1>1 DEF GenInv
<1> QED BY <1>1, <1>2, <1>3, EndsInv

LEMMA FailsInv ==
    ASSUME GenInv, NEW c \in Clients, End(c, "error"), UNCHANGED <<change, db, applied>>
    PROVE  GenInv'
<1>1. applied' \in BOOLEAN /\ CurrentDb(db') /\ (~applied' => Legit(change, db')) /\ (applied' => Safe(change))
  BY DEF GenInv
<1> QED BY <1>1, EndsInv

LEMMA DefinesInv ==
    ASSUME GenInv, NEW c \in Clients, DefineNext(c)
    PROVE  GenInv'
<1> DEFINE s == Head(job[c].todo)
           w == Effect(db, db, s)
<1>1. job[c].at = "push" /\ job[c].todo # << >> /\ UNCHANGED <<change, applied>>
  BY DEF DefineNext
<1>2. CASE ~Accepted(db, s)
  BY <1>2, FailsInv DEF DefineNext
<1>3. CASE Accepted(db, s)
  <2> DEFINE j == [job[c] EXCEPT !.todo = Tail(job[c].todo)]
  <2>1. db' = w /\ job' = [job EXCEPT ![c] = j] /\ UNCHANGED reply
    BY <1>3 DEF DefineNext
  <2>2. /\ change \in Changes /\ CurrentDb(db) /\ job = [k \in Clients |-> job[k]]
        /\ \A k \in Clients : JobInv(change, db, job[k])
        /\ (\E k \in Clients : reply[k] = "pushed") => Defined(change, db, << >>)
        /\ ~applied => Legit(change, db)
    BY DEF GenInv
  <2>3. PushInv(change, db, job[c]) /\ IsJob(job[c])
    BY <1>1, <2>2 DEF JobInv
  <2>4. j.at = "push" /\ j.todo = Tail(job[c].todo) /\ IsJob(j)
    BY <1>1, <2>3, SMTT(30) DEF IsJob
  <2>5. Accepted(db, Head(job[c].todo)) /\ w = Effect(db, db, Head(job[c].todo))
    BY <1>3
  <2> HIDE DEF j, w, s
  <2>6. /\ PushInv(change, w, j) /\ CurrentDb(w) /\ Grows(db, w)
        /\ Legit(change, db) => Legit(change, w)
    BY <1>1, <2>2, <2>3, <2>4, <2>5, PushStep
  <2>7. JobInv(change, w, j)
    BY <2>4, <2>6 DEF JobInv
  <2>8. \A k \in Clients : JobInv(change, w, job[k])
    BY <2>2, <2>6, PushGrows DEF JobInv
  <2>9. job' = [k \in Clients |-> job'[k]] /\ \A k \in Clients : job'[k] = IF k = c THEN j ELSE job[k]
    BY <2>1, <2>2
  <2>10. \A k \in Clients : JobInv(change, db', job'[k])
    BY <2>1, <2>7, <2>8, <2>9
  <2>11. Defined(change, db, << >>) => Defined(change, db', << >>)
    BY <2>1, <2>6, DefinedGrows
  <2> QED BY <1>1, <2>1, <2>2, <2>6, <2>9, <2>10, <2>11 DEF GenInv
<1> QED BY <1>2, <1>3

(* A job whose statements and view are replaced. *)
Onward(r, todo, view) == [r EXCEPT !.todo = todo, !.view = view]
Holds(r, at, todo, base, view) == r \in [at : {at}, todo : {todo}, base : {base}, view : {view}]
LEMMA OnwardHolds ==
    ASSUME NEW r, NEW at, NEW was, NEW base, NEW from, NEW todo, NEW view,
           Holds(r, at, was, base, from)
    PROVE  Holds(Onward(r, todo, view), at, todo, base, view)
BY DEF Onward, Holds

LEMMA JobStep ==
    ASSUME NEW r, IsJob(r), NEW todo, NEW view
    PROVE  LET j == Onward(r, todo, view)
           IN  /\ IsJob(j) /\ j.at = r.at /\ j.todo = todo
               /\ j.base = r.base /\ j.view = view
<1> DEFINE j == Onward(r, todo, view)
<1>1. Holds(r, r.at, r.todo, r.base, r.view)
  BY DEF IsJob, Holds
<1>2. Holds(j, r.at, todo, r.base, view)
  BY <1>1, OnwardHolds
<1> HIDE DEF j
<1>3. IsJob(j) /\ j.at = r.at /\ j.todo = todo /\ j.base = r.base /\ j.view = view
  BY <1>2 DEF IsJob, Holds
<1> QED BY <1>3 DEF j

LEMMA RunsInv ==
    ASSUME GenInv, NEW c \in Clients, RunNext(c)
    PROVE  GenInv'
<1> DEFINE s == Head(job[c].todo)
           v == Effect(job[c].base, job[c].view, s)
<1>1. job[c].at = "migrate" /\ job[c].todo # << >> /\ UNCHANGED <<change, db, applied>>
  BY DEF RunNext
<1>2. CASE ~Accepted(job[c].view, s)
  BY <1>2, FailsInv DEF RunNext
<1>3. CASE Accepted(job[c].view, s)
  <2> DEFINE j == Onward(job[c], Tail(job[c].todo), v)
  <2>1. /\ change \in Changes /\ job = [k \in Clients |-> job[k]]
        /\ \A k \in Clients : JobInv(change, db, job[k])
    BY DEF GenInv
  <2>2. MigrateInv(change, job[c]) /\ IsJob(job[c])
    BY <1>1, <2>1 DEF JobInv
  <2>3. job' = [job EXCEPT ![c] = j] /\ UNCHANGED reply
    BY <1>3, <2>1, <2>2 DEF RunNext, IsJob, Onward
  <2>4. j.at = "migrate" /\ j.todo = Tail(job[c].todo) /\ j.base = job[c].base /\ j.view = v /\ IsJob(j)
    <3>1. IsJob(job[c]) /\ job[c].at = "migrate"
      BY <1>1, <2>2
    <3> HIDE DEF v
    <3> QED BY <3>1, JobStep
  <2>5. Accepted(job[c].view, Head(job[c].todo)) /\ v = Effect(job[c].base, job[c].view, Head(job[c].todo))
    BY <1>3
  <2> HIDE DEF j, v, s
  <2>6. MigrateInv(change, j)
    BY <1>1, <2>1, <2>2, <2>4, <2>5, MigrateStep
  <2>7. JobInv(change, db, j)
    BY <2>4, <2>6 DEF JobInv
  <2>8. job' = [k \in Clients |-> job'[k]] /\ \A k \in Clients : job'[k] = IF k = c THEN j ELSE job[k]
    BY <2>1, <2>3
  <2>9. \A k \in Clients : JobInv(change, db, job'[k])
    BY <2>1, <2>7, <2>8
  <2> QED BY <1>1, <2>3, <2>8, <2>9 DEF GenInv
<1> QED BY <1>2, <1>3

LEMMA CommitsInv ==
    ASSUME GenInv, NEW c \in Clients, Commit(c)
    PROVE  GenInv'
<1>1. job[c].at = "migrate" /\ job[c].todo = << >> /\ UNCHANGED change
  BY DEF Commit
<1>2. CASE ~(db = job[c].base /\ ~applied)
  BY <1>2, FailsInv DEF Commit
<1>3. CASE db = job[c].base /\ ~applied
  <2>1. db' = job[c].view /\ applied' = TRUE /\ End(c, "migrated")
    BY <1>3 DEF Commit
  <2>2. change \in Changes /\ MigrateInv(change, job[c])
    BY <1>1 DEF GenInv, JobInv
  <2>3. CurrentDb(db') /\ Safe(change) /\ Defined(change, db', << >>)
    BY <1>1, <2>1, <2>2, MigrateEnd
  <2>4. ASSUME NEW k \in Clients, JobInv(change, db, job[k]) PROVE JobInv(change, db', job[k])
    <3>1. PushInv(change, db, job[k]) => PushInv(change, db', job[k])
      <4>1. ToSet(<< >>) = {}
        BY DEF ToSet
      <4>2. \A L : Defined(change, db', << >>) => Defined(change, db', L)
        BY <4>1 DEF Defined
      <4> QED BY <2>3, <4>2 DEF PushInv
    <3> QED BY <2>4, <3>1 DEF JobInv
  <2> QED BY <1>1, <2>1, <2>3, <2>4, EndsInv
<1> QED BY <1>2, <1>3

LEMMA NextInv ==
    ASSUME GenInv, [Next]_vars
    PROVE  GenInv'
<1>1. CASE UNCHANGED vars
  BY <1>1 DEF vars, GenInv
<1>2. ASSUME NEW c \in Clients, PushSchema(c) PROVE GenInv'
  BY <1>2, BeginsInv DEF PushSchema
<1>3. ASSUME NEW c \in Clients, ApplyMigration(c) PROVE GenInv'
  BY <1>3, BeginsInv DEF ApplyMigration
<1>4. ASSUME NEW c \in Clients, Fail(c) PROVE GenInv'
  BY <1>4, FailsInv DEF Fail
<1>5. ASSUME NEW c \in Clients, DefineNext(c) PROVE GenInv'
  BY <1>5, DefinesInv
<1>6. ASSUME NEW c \in Clients, Pushed(c) PROVE GenInv'
  BY <1>6, PushedInv
<1>7. ASSUME NEW c \in Clients, RunNext(c) PROVE GenInv'
  BY <1>7, RunsInv
<1>8. ASSUME NEW c \in Clients, Commit(c) PROVE GenInv'
  BY <1>8, CommitsInv
<1> QED BY <1>1, <1>2, <1>3, <1>4, <1>5, <1>6, <1>7, <1>8 DEF Next, Push, Migrate

-----------------------------------------------------------------------------
(* In every reachable state the indexes agree with the rows, an unsafe change is
   not applied, before the migration the database is the previous schema with
   pushed parts of the next, a push has still to run what is not defined yet, and
   what a migration has still to run brings its view from where it is to the
   next schema (conn.rs:118-123, migration.rs:31-54, 67-240).                *)
THEOREM GenInvariance == Spec => []GenInv
<1>1. GenInv /\ [Next]_vars => GenInv'
  BY NextInv
<1> QED BY <1>1, InitInv, PTL DEF Spec

(* IndexesCurrent: an index that a push or a migration defines covers every row
   with what its fields hold, although the builder sees only the rows committed
   before the transaction: no statement of a migration writes a table before the
   last definition of an index on it (migration.rs:234-239).                *)
THEOREM IndexesAgree == Spec => []IndexesCurrent
<1>1. GenInv => IndexesCurrent
  <2> SUFFICES ASSUME GenInv, NEW t \in DOMAIN db, NEW i \in DOMAIN db[t].indices
               PROVE  db[t].indices[i].entries =
                         [id \in DOMAIN db[t].rows |-> Project(db[t].rows[id], db[t].indices[i].columns)]
    BY DEF IndexesCurrent
  <2>1. CurrentIndexes(db[t].rows, db[t].indices)
    BY DEF GenInv, CurrentDb, CurrentTable
  <2>2. db[t].indices[i] = IndexOf(db[t].rows, db[t].indices[i].columns, db[t].indices[i].unique)
    BY <2>1 DEF CurrentIndexes
  <2> QED BY <2>2 DEF IndexOf
<1> QED BY <1>1, GenInvariance, PTL

(* PushComplete: once a push has answered, every table and every secondary index
   of the next schema is there and stays there, however the pushes of other
   connections, those that failed halfway and the migration interleaved with it
   (conn.rs:118-123).                                                        *)
THEOREM PushesComplete == Spec => []PushComplete
<1>1. GenInv => PushComplete
  <2> SUFFICES ASSUME GenInv, NEW c \in Clients, reply[c] = "pushed", NEW t \in After(change)
               PROVE  t.name \in DOMAIN db /\ {i.name : i \in Secondary(t)} \subseteq DOMAIN db[t.name].indices
    BY DEF PushComplete
  <2>1. Defined(change, db, << >>)
    BY DEF GenInv
  <2>2. ToSet(<< >>) = {}
    BY DEF ToSet
  <2>3. t.name \in DOMAIN db /\ \A i \in Secondary(t) : HasIndex(db, t.name, i.name)
    BY <2>1, <2>2 DEF Defined
  <2> QED BY <2>3 DEF HasIndex
<1> QED BY <1>1, GenInvariance, PTL

(* GuardHolds: a change that renames a table, gives record ids another meaning or
   keeps a column whose type differs is never applied as generated: a statement
   that throws is among its statements until it is met
   (migration.rs:71-83, 91-99, 120-130).                                     *)
THEOREM UnsafeRefused == Spec => []GuardHolds
<1>1. GenInv => GuardHolds
  BY DEF GenInv, GuardHolds, Safe
<1> QED BY <1>1, GenInvariance, PTL

(* GuardedUntouched: until a migration with unsafe diffs is cancelled, none of the
   tables they are about has been changed in its transaction, wherever in the change
   these diffs are and whatever has been done to other tables by then
   (migration.rs:230-233).                                                        *)
THEOREM GuardsFirst == Spec => []GuardedUntouched
<1>1. GenInv => GuardedUntouched
  <2> SUFFICES ASSUME GenInv, NEW c \in Clients, job[c].at = "migrate",
                      NEW d \in ToSet(change), Unsafe(d)
               PROVE  Untouched(job[c], d.previous.name)
    BY DEF GuardedUntouched
  <2>1. Guarded(change, job[c].base, job[c].view, job[c].todo)
    BY DEF GenInv, JobInv, MigrateInv
  <2> QED BY <2>1 DEF Guarded, Same, Untouched
<1> QED BY <1>1, GenInvariance, PTL

(* The migration is recorded in the step that commits it. *)
LEMMA MigratedBy ==
    ASSUME GenInv, [Next]_vars, Migrated
    PROVE  \E c \in Clients : /\ db = job[c].base /\ db' = job[c].view /\ change' = change
                              /\ job[c].todo = << >> /\ job[c].at = "migrate"
<1>1. PICK c \in Clients : Commit(c) /\ db = job[c].base /\ ~applied
  <2>1. ~(UNCHANGED vars)
    BY DEF vars, Migrated
  <2>2. PICK c \in Clients : Push(c) \/ Migrate(c) \/ Fail(c)
    BY <2>1 DEF Next
  <2>3. applied' # applied
    BY DEF Migrated, GenInv
  <2>4. ~PushSchema(c) /\ ~ApplyMigration(c) /\ ~Fail(c) /\ ~DefineNext(c) /\ ~Pushed(c) /\ ~RunNext(c)
    BY <2>3 DEF PushSchema, ApplyMigration, Begin, Fail, DefineNext, Pushed, RunNext
  <2>5. Commit(c)
    BY <2>2, <2>4 DEF Push, Migrate
  <2>6. db = job[c].base /\ ~applied
    BY <2>3, <2>5 DEF Commit
  <2> QED BY <2>5, <2>6
<1> QED BY <1>1 DEF Commit

(* What a migration finds and leaves when it is recorded. *)
LEMMA MigratedFacts ==
    ASSUME GenInv, [Next]_vars, Migrated
    PROVE  /\ change \in Changes /\ change' = change
           /\ \A d \in ToSet(change) : d.kind = "Create" => d.next.name \notin DOMAIN db
           /\ FieldIndexes(change) => DefinedAs(db', After(change))
<1>1. PICK c \in Clients : /\ db = job[c].base /\ db' = job[c].view /\ change' = change
                           /\ job[c].todo = << >> /\ job[c].at = "migrate"
  BY MigratedBy
<1>2. change \in Changes /\ MigrateInv(change, job[c])
  BY <1>1 DEF GenInv, JobInv
<1>3. /\ \A d \in ToSet(change) : d.kind = "Create" => d.next.name \notin DOMAIN job[c].base
      /\ FieldIndexes(change) => DefinedAs(job[c].view, After(change))
  BY <1>1, <1>2, MigrateEnd
<1> QED BY <1>1, <1>2, <1>3

(* DriftDetected: a migration that creates a table is not applied where the table
   is there already, as a push that failed halfway leaves it: the definition
   without IF NOT EXISTS is run and refused (migration.rs:46-48).            *)
THEOREM DriftRefused == Spec => DriftDetected
<1>1. GenInv /\ [Next]_vars =>
         [Migrated => \A d \in ToSet(change) : d.kind = "Create" => d.next.name \notin DOMAIN db]_vars
  BY MigratedFacts
<1> QED BY <1>1, GenInvariance, PTL DEF Spec, DriftDetected

(* SchemaFollows: a migration leaves exactly the tables and the secondary indexes
   of the next schema, over the fields it names, whatever was pushed before, when
   every secondary index is over fields of its table: an index over a column of
   the key names no field (migration.rs:31-54, 161-239).                     *)
THEOREM SchemaReached ==
    ASSUME \A diffs \in Changes : FieldIndexes(diffs)
    PROVE  Spec => SchemaFollows
<1>1. GenInv /\ [Next]_vars => [Migrated => DefinedAs(db', After(change))]_vars
  BY MigratedFacts
<1> QED BY <1>1, GenInvariance, PTL DEF Spec, SchemaFollows

-----------------------------------------------------------------------------
(* The rows under a migration. *)

(* The fields that a migration empties, and its statements about fields. *)
Gone(d)      == {c \in Fields(d.previous) : ~Survives(d, c) \/ c \in Moves(d)}
CopyOf(d, c) == Copy(d.next, c, Mapped(d, c))
DataOf(d)    == {CopyOf(d, c) : c \in Moves(d)} \cup {Unset(d.next, c) : c \in Gone(d)}

(* The columns of a table are distinct and hold its key, no two of them become the
   same column, and none takes the name of a field further down the table: the
   fields move one at a time, in the order of the table, so that such a field would
   be overwritten before it has moved itself.  Columns that trade names do not
   move orderly.                                                             *)
Orderly(d) ==
    LET columns == d.previous.columns IN
    /\ ToSet(d.previous.primary_key) \subseteq ToSet(columns)
    /\ \A j, k \in DOMAIN columns : columns[j] = columns[k] => j = k
    /\ \A p, q \in ToSet(columns) : Survives(d, p) /\ Mapped(d, p) = Mapped(d, q) => p = q
    /\ \A j, k \in DOMAIN columns :
          j < k /\ columns[j] \in Moves(d) /\ columns[k] \in Fields(d.previous) =>
              Mapped(d, columns[j]) # columns[k]

(* Statements about fields of one table of which the second is late: it is the first
   again, it reads or empties the field that the first has written, or it reads
   what the first has emptied.                                               *)
Copies(s) == s.verb = "UPDATE SET"
Unsets(s) == s.verb = "UPDATE UNSET"
Writes(s, n) == Updates(s) /\ s.table = n
Late ==
    {s \in Statement \X Statement :
        /\ Updates(s[1]) /\ Updates(s[2]) /\ s[1].table = s[2].table
        /\ \/ s[1] = s[2]
           \/ Copies(s[1]) /\ Copies(s[2]) /\ s[1].to = s[2].from
           \/ Copies(s[1]) /\ Unsets(s[2]) /\ s[1].to = s[2].column
           \/ Unsets(s[1]) /\ Copies(s[2]) /\ s[1].column = s[2].from}

LEMMA FieldFacts ==
    ASSUME NEW d \in Diff
    PROVE  /\ \A c \in Moves(d) : /\ c \in Fields(d.previous) /\ c \in Gone(d) /\ c \in Columns
                                  /\ Mapped(d, c) \in Columns /\ Mapped(d, c) # c /\ Survives(d, c)
                                  /\ Mapped(d, c) \notin ToSet(d.next.primary_key)
           /\ \A c \in Fields(d.previous) :
                 /\ c \in Columns /\ c \in ToSet(d.previous.columns)
                 /\ c \notin ToSet(d.previous.primary_key)
           /\ Gone(d) \subseteq Fields(d.previous)
<1>1. /\ d.previous \in Schema /\ d.next \in Schema
      /\ \A c \in Columns : Mapped(d, c) \in Columns
  BY DiffFacts
<1>2. ToSet(d.previous.columns) \subseteq Columns
  <2>1. \A c \in ToSet(d.previous.columns) : \E k \in 1..Len(d.previous.columns) :
           c = d.previous.columns[k] /\ d.previous.columns[k] \in Columns
    BY <1>1, TableFacts
  <2> QED BY <2>1
<1>3. \A c \in Fields(d.previous) : /\ c \in Columns /\ c \in ToSet(d.previous.columns)
                                    /\ c \notin ToSet(d.previous.primary_key)
  BY <1>2 DEF Fields
<1>4. \A c \in Moves(d) : /\ c \in Fields(d.previous) /\ Mapped(d, c) # c /\ Survives(d, c)
                          /\ Mapped(d, c) \notin ToSet(d.next.primary_key)
  BY DEF Moves, Renamed, Fields, is_primary_key
<1> QED BY <1>1, <1>3, <1>4 DEF Gone

LEMMA FieldStatements ==
    ASSUME NEW d \in Diff
    PROVE  /\ \A c \in Moves(d) :
                 /\ CopyOf(d, c) \in Statement /\ Copies(CopyOf(d, c)) /\ ~Unsets(CopyOf(d, c))
                 /\ Writes(CopyOf(d, c), d.next.name)
                 /\ CopyOf(d, c).from = c /\ CopyOf(d, c).to = Mapped(d, c)
           /\ \A c \in Gone(d) :
                 /\ Unset(d.next, c) \in Statement /\ Unsets(Unset(d.next, c)) /\ ~Copies(Unset(d.next, c))
                 /\ Writes(Unset(d.next, c), d.next.name) /\ Unset(d.next, c).column = c
<1>1. d.next \in Schema
  BY DiffFacts
<1>2. ASSUME NEW c \in Moves(d) PROVE CopyOf(d, c) \in Statement
  <2>1. c \in Columns /\ Mapped(d, c) \in Columns
    BY FieldFacts
  <2> QED BY <1>1, <2>1, ColumnTyping DEF CopyOf
<1>3. ASSUME NEW c \in Gone(d) PROVE Unset(d.next, c) \in Statement
  <2>1. c \in Columns
    BY FieldFacts
  <2> QED BY <1>1, <2>1, ColumnTyping
<1>4. ASSUME NEW c
      PROVE  /\ Copies(CopyOf(d, c)) /\ ~Unsets(CopyOf(d, c))
             /\ Writes(CopyOf(d, c), d.next.name)
             /\ CopyOf(d, c).from = c /\ CopyOf(d, c).to = Mapped(d, c)
  <2>1. /\ CopyOf(d, c).verb = "UPDATE SET" /\ CopyOf(d, c).table = d.next.name
        /\ CopyOf(d, c).from = c /\ CopyOf(d, c).to = Mapped(d, c)
    BY DEF CopyOf, Copy
  <2> QED BY <2>1, Zenon DEF Copies, Unsets, Writes, Updates
<1>5. ASSUME NEW c
      PROVE  /\ Unsets(Unset(d.next, c)) /\ ~Copies(Unset(d.next, c))
             /\ Writes(Unset(d.next, c), d.next.name) /\ Unset(d.next, c).column = c
  <2>1. /\ Unset(d.next, c).verb = "UPDATE UNSET" /\ Unset(d.next, c).table = d.next.name
        /\ Unset(d.next, c).column = c
    BY DEF Unset
  <2> QED BY <2>1, Zenon DEF Copies, Unsets, Writes, Updates
<1> QED BY <1>2, <1>3, <1>4, <1>5

(* The statements that data_changes has for one column. *)
Motion(d, c) ==
    IF ~Survives(d, c) THEN When(~is_primary_key(d.previous, c), <<Unset(d.next, c)>>)
    ELSE When(c \in Moves(d), <<CopyOf(d, c), Unset(d.next, c)>>)

LEMMA MotionFacts ==
    ASSUME NEW d \in Diff, NEW c \in ToSet(d.previous.columns)
    PROVE  LET L == Motion(d, c) IN
           /\ L \in Seq(Statement) /\ Avoids(L, Late)
           /\ \A x : x \in ToSet(L) <=> \/ c \in Moves(d) /\ x = CopyOf(d, c)
                                        \/ c \in Gone(d) /\ x = Unset(d.next, c)
<1> DEFINE L == Motion(d, c)
           a == CopyOf(d, c)
           b == Unset(d.next, c)
<1>1. /\ c \in Moves(d) => c \in Gone(d) /\ Survives(d, c)
      /\ ~Survives(d, c) => (c \in Gone(d) <=> ~is_primary_key(d.previous, c))
      /\ Survives(d, c) => (c \in Gone(d) <=> c \in Moves(d))
  <2>1. c \in Fields(d.previous) <=> ~is_primary_key(d.previous, c)
    BY DEF Fields, is_primary_key
  <2> QED BY <2>1, FieldFacts DEF Gone
<1>2. /\ c \in Moves(d) => /\ a \in Statement /\ Copies(a) /\ ~Unsets(a) /\ a.from = c /\ a.to # c
      /\ c \in Gone(d) => b \in Statement /\ Unsets(b) /\ ~Copies(b) /\ b.column = c
  BY FieldFacts, FieldStatements
<1> HIDE DEF a, b
<1>3. CASE c \in Moves(d)
  <2>1. L = <<a, b>>
    <3>1. Survives(d, c)
      BY <1>1, <1>3
    <3>2. L = When(c \in Moves(d), <<a, b>>)
      BY <3>1, Zenon DEF Motion, a, b
    <3> HIDE DEF L
    <3> QED BY <1>3, <3>2, Zenon DEF When
  <2>2. a \in Statement /\ b \in Statement
    BY <1>1, <1>2, <1>3
  <2>3. <<a, b>> \in Seq(Statement) /\ Len(<<a, b>>) = 2
    BY <2>2
  <2>4. DOMAIN <<a, b>> = {1, 2} /\ <<a, b>>[1] = a /\ <<a, b>>[2] = b
    OBVIOUS
  <2> HIDE DEF L
  <2>5. <<a, b>> \notin Late
    BY <1>1, <1>2, <1>3 DEF Late
  <2>6. Avoids(L, Late)
    <3>1. SUFFICES ASSUME NEW p \in 1..Len(L), NEW q \in 1..Len(L), p < q
                   PROVE  <<L[p], L[q]>> \notin Late
      BY DEF Avoids
    <3>2. p = 1 /\ q = 2
      BY <2>1, <2>3, <3>1
    <3> QED BY <2>1, <2>4, <2>5, <3>2
  <2>7. ToSet(L) = {a, b}
    BY <2>1, <2>4 DEF ToSet
  <2>8. \A x : x \in ToSet(L) <=> (c \in Moves(d) /\ x = a) \/ (c \in Gone(d) /\ x = b)
    BY <1>1, <1>3, <2>7
  <2> QED BY <2>1, <2>3, <2>6, <2>8 DEF L, a, b
<1>4. CASE c \in Gone(d) /\ c \notin Moves(d)
  <2>1. L = <<b>>
    BY <1>1, <1>4 DEF Motion, When, b
  <2>2. b \in Statement
    BY <1>2, <1>4
  <2>3. <<b>> \in Seq(Statement) /\ Len(<<b>>) = 1
    BY <2>2
  <2>4. DOMAIN <<b>> = {1} /\ <<b>>[1] = b
    OBVIOUS
  <2> HIDE DEF L
  <2>5. Avoids(L, Late)
    <3>1. \A p, q \in 1..Len(L) : ~(p < q)
      BY <2>1, <2>3
    <3> QED BY <3>1 DEF Avoids
  <2>6. ToSet(L) = {b}
    BY <2>1, <2>4 DEF ToSet
  <2>7. \A x : x \in ToSet(L) <=> (c \in Moves(d) /\ x = a) \/ (c \in Gone(d) /\ x = b)
    BY <1>4, <2>6
  <2> QED BY <2>1, <2>3, <2>5, <2>7 DEF L, a, b
<1>5. CASE c \notin Gone(d)
  <2>1. L = << >>
    BY <1>1, <1>5 DEF Motion, When
  <2>2. << >> \in Seq(Statement) /\ Len(<< >>) = 0 /\ DOMAIN << >> = {}
    OBVIOUS
  <2> HIDE DEF L
  <2>3. Avoids(L, Late)
    <3>1. \A p \in 1..Len(L) : FALSE
      BY <2>1, <2>2
    <3> QED BY <3>1 DEF Avoids
  <2>4. ToSet(L) = {}
    BY <2>1, <2>2 DEF ToSet
  <2>5. \A x : x \in ToSet(L) <=> (c \in Moves(d) /\ x = a) \/ (c \in Gone(d) /\ x = b)
    BY <1>1, <1>5, <2>4
  <2> QED BY <2>1, <2>2, <2>3, <2>5 DEF L, a, b
<1> QED BY <1>3, <1>4, <1>5

(* What data_changes does, and in which order. *)
LEMMA DataOrder ==
    ASSUME NEW d \in Diff
    PROVE  LET L == data_changes(d) IN
           /\ L \in Seq(Statement) /\ ToSet(L) = DataOf(d)
           /\ Orderly(d) => Avoids(L, Late)
<1> DEFINE cs == d.previous.columns
           n  == Len(cs)
           ss == [k \in DOMAIN cs |-> Motion(d, cs[k])]
<1>1. /\ n \in Nat /\ DOMAIN cs = 1..n
      /\ \A k \in 1..n : cs[k] \in ToSet(cs)
      /\ \A c \in ToSet(cs) : \E k \in 1..n : c = cs[k]
  BY DiffFacts, TableFacts
<1>2. data_changes(d) = FlattenSeq(ss)
  BY DEF data_changes, ForEach, Motion, CopyOf
<1>3. ss = [k \in 1..n |-> ss[k]] /\ \A k \in 1..n : ss[k] = Motion(d, cs[k])
  BY <1>1
<1> HIDE DEF ss
<1>4. ASSUME NEW k \in 1..n
      PROVE  /\ ss[k] \in Seq(Statement) /\ Avoids(ss[k], Late)
             /\ \A x : x \in ToSet(ss[k]) <=> \/ cs[k] \in Moves(d) /\ x = CopyOf(d, cs[k])
                                              \/ cs[k] \in Gone(d) /\ x = Unset(d.next, cs[k])
  <2>1. cs[k] \in ToSet(cs)
    BY <1>1
  <2> QED BY <1>3, <2>1, MotionFacts
<1>5. ss \in Seq(Seq(Statement)) /\ Len(ss) = n
  <2> HIDE DEF n
  <2> QED BY <1>1, <1>3, <1>4
<1>6. /\ FlattenSeq(ss) \in Seq(Statement)
      /\ \A x : x \in ToSet(FlattenSeq(ss)) <=> \E k \in 1..n : x \in ToSet(ss[k])
  BY <1>5, FlattenMembers
<1>7. \A c \in Gone(d) : c \in ToSet(cs) /\ \A e \in Moves(d) : e \in ToSet(cs)
  BY FieldFacts
<1>8. ToSet(FlattenSeq(ss)) = DataOf(d)
  <2>1. ASSUME NEW x \in ToSet(FlattenSeq(ss)) PROVE x \in DataOf(d)
    BY <1>4, <1>6 DEF DataOf
  <2>2. ASSUME NEW c \in Moves(d) PROVE CopyOf(d, c) \in ToSet(FlattenSeq(ss))
    <3>1. c \in ToSet(cs)
      BY FieldFacts
    <3>2. PICK k \in 1..n : c = cs[k]
      BY <1>1, <3>1
    <3> QED BY <1>4, <1>6, <3>2
  <2>3. ASSUME NEW c \in Gone(d) PROVE Unset(d.next, c) \in ToSet(FlattenSeq(ss))
    <3>1. c \in ToSet(cs)
      BY FieldFacts
    <3>2. PICK k \in 1..n : c = cs[k]
      BY <1>1, <3>1
    <3> QED BY <1>4, <1>6, <3>2
  <2>4. DataOf(d) \subseteq ToSet(FlattenSeq(ss))
    BY <2>2, <2>3 DEF DataOf
  <2> QED BY <2>1, <2>4
<1>9. ASSUME Orderly(d), NEW j \in 1..n, NEW k \in 1..n, j < k,
             NEW x \in ToSet(ss[j]), NEW y \in ToSet(ss[k])
      PROVE  <<x, y>> \notin Late
  <2>0. j \in DOMAIN cs /\ k \in DOMAIN cs /\ j < k /\ j # k
    <3>1. j # k
      BY <1>1, <1>9
    <3> QED BY <1>1, <1>9, <3>1
  <2>1. cs[j] # cs[k]
    <3>1. \A p, q \in DOMAIN cs : cs[p] = cs[q] => p = q
      BY <1>9, Zenon DEF Orderly
    <3> HIDE DEF cs
    <3> QED BY <2>0, <3>1
  <2>2. cs[j] \in Moves(d) /\ cs[k] \in Gone(d) => Mapped(d, cs[j]) # cs[k]
    <3>1. Gone(d) \subseteq Fields(d.previous)
      BY FieldFacts
    <3> HIDE DEF cs
    <3>3. \A p, q \in DOMAIN cs : p < q /\ cs[p] \in Moves(d) /\ cs[q] \in Fields(d.previous) =>
             Mapped(d, cs[p]) # cs[q]
      BY <1>9, Zenon DEF Orderly, cs
    <3> QED BY <2>0, <3>1, <3>3
  <2> DEFINE One(c, z) == \/ c \in Moves(d) /\ z = CopyOf(d, c)
                          \/ c \in Gone(d) /\ z = Unset(d.next, c)
  <2>6. One(cs[j], x) /\ One(cs[k], y)
    BY <1>4, <1>9
  <2>7. ASSUME NEW c, NEW z, One(c, z)
        PROVE  \/ c \in Moves(d) /\ Copies(z) /\ ~Unsets(z) /\ z.from = c /\ z.to = Mapped(d, c)
               \/ c \in Gone(d) /\ Unsets(z) /\ ~Copies(z) /\ z.column = c
    BY <2>7, FieldStatements
  <2> HIDE DEF One
  <2>3. \/ cs[j] \in Moves(d) /\ Copies(x) /\ ~Unsets(x) /\ x.from = cs[j] /\ x.to = Mapped(d, cs[j])
        \/ cs[j] \in Gone(d) /\ Unsets(x) /\ ~Copies(x) /\ x.column = cs[j]
    BY <2>6, <2>7
  <2>4. \/ cs[k] \in Moves(d) /\ Copies(y) /\ ~Unsets(y) /\ y.from = cs[k]
        \/ cs[k] \in Gone(d) /\ Unsets(y) /\ ~Copies(y) /\ y.column = cs[k]
    BY <2>6, <2>7
  <2>5. cs[k] \in Moves(d) => cs[k] \in Gone(d)
    BY FieldFacts
  <2> QED BY <2>1, <2>2, <2>3, <2>4, <2>5 DEF Late
<1>10. Orderly(d) => Avoids(FlattenSeq(ss), Late)
  BY <1>4, <1>5, <1>9, FlattenAvoids
<1> QED BY <1>2, <1>6, <1>8, <1>10

(* What an order forbids, a concatenation does not do when neither part does it
   and nothing of it spans the two.                                          *)
LEMMA ConcatAvoids ==
    ASSUME NEW S, NEW a \in Seq(S), NEW b \in Seq(S), NEW bad, Avoids(a, bad), Avoids(b, bad),
           \A x \in ToSet(a), y \in ToSet(b) : <<x, y>> \notin bad
    PROVE  Avoids(a \o b, bad)
<1> DEFINE L == a \o b
           m == Len(a)
<1>1. /\ L \in Seq(S) /\ Len(L) = m + Len(b) /\ m \in Nat /\ Len(b) \in Nat
      /\ \A i \in 1..m : L[i] = a[i]
      /\ \A i \in 1..Len(b) : L[m + i] = b[i]
      /\ DOMAIN a = 1..m /\ DOMAIN b = 1..Len(b)
  OBVIOUS
<1> HIDE DEF L, m
<1>2. ASSUME NEW p \in 1..Len(L), p > m
      PROVE  p - m \in 1..Len(b) /\ L[p] = b[p - m]
  <2>1. p - m \in 1..Len(b) /\ p = m + (p - m)
    BY <1>1, <1>2
  <2> QED BY <1>1, <2>1
<1>3. \A i \in 1..m : a[i] \in ToSet(a)
  BY <1>1 DEF ToSet
<1>4. \A i \in 1..Len(b) : b[i] \in ToSet(b)
  BY <1>1 DEF ToSet
<1>5. SUFFICES ASSUME NEW p \in 1..Len(L), NEW q \in 1..Len(L), p < q
               PROVE  <<L[p], L[q]>> \notin bad
  BY DEF Avoids, L
<1>6. CASE q <= m
  <2>1. p \in 1..m /\ q \in 1..m
    BY <1>1, <1>5, <1>6
  <2> QED BY <1>1, <1>5, <2>1 DEF Avoids, m
<1>7. CASE p <= m /\ q > m
  <2>1. p \in 1..m
    BY <1>1, <1>7
  <2>2. L[p] = a[p] /\ a[p] \in ToSet(a)
    BY <1>1, <1>3, <2>1
  <2>3. L[q] \in ToSet(b)
    BY <1>2, <1>4, <1>7
  <2> QED BY <2>2, <2>3
<1>8. CASE p > m /\ q > m
  <2>1. /\ p - m \in 1..Len(b) /\ L[p] = b[p - m]
        /\ q - m \in 1..Len(b) /\ L[q] = b[q - m]
    BY <1>2, <1>8
  <2>2. p - m < q - m
    BY <1>1, <1>5
  <2> QED BY <2>1, <2>2 DEF Avoids
<1>9. p <= m \/ p > m
  BY <1>1
<1>10. q <= m \/ q > m
  BY <1>1
<1>11. q <= m => p <= m
  BY <1>1, <1>5
<1> QED BY <1>6, <1>7, <1>8, <1>9, <1>10, <1>11

(* A list without two updates in it is never late. *)
LEMMA StillAvoids ==
    ASSUME NEW L \in Seq(Statement), \A x \in ToSet(L) : ~Updates(x)
    PROVE  Avoids(L, Late)
<1>1. \A p \in 1..Len(L) : L[p] \in ToSet(L)
  <2>1. DOMAIN L = 1..Len(L)
    OBVIOUS
  <2> QED BY <2>1 DEF ToSet
<1> QED BY <1>1 DEF Avoids, Late

(* The statements about fields among those of one diff. *)
LEMMA AlterData ==
    ASSUME NEW d \in Diff, d.kind = "Alter", d.previous.name = d.next.name
    PROVE  LET L == TableStatements(d) IN
           /\ L \in Seq(Statement) /\ DataOf(d) \subseteq ToSet(L)
           /\ \A x \in ToSet(L) : Updates(x) => x \in DataOf(d)
           /\ Orderly(d) => Avoids(L, Late)
<1> DEFINE G == Unique(guards(d))
           R == index_removals(d)
           D == index_definitions(d)
           U == data_changes(d)
           L == TableStatements(d)
<1>1. L = ((G \o R) \o D) \o U
  BY DEF TableStatements, render_alter_table
<1>2. G \in Seq(Statement) /\ \A x \in ToSet(G) : ~Updates(x)
  <2>1. G \in Seq(Statement) /\ \A x \in ToSet(G) : x.verb = "THROW"
    BY Guards
  <2> QED BY <2>1, Zenon DEF Updates
<1>3. R \in Seq(Statement) /\ \A x \in ToSet(R) : ~Updates(x)
  <2>1. \A i : RemoveIndex(d.previous, i).verb = "REMOVE INDEX"
    BY DEF RemoveIndex
  <2>2. R \in Seq(Statement) /\ \A x \in ToSet(R) : \E i : x = RemoveIndex(d.previous, i)
    BY Removals
  <2> QED BY <2>1, <2>2, Zenon DEF Updates
<1>4. D \in Seq(Statement) /\ \A x \in ToSet(D) : ~Updates(x)
  <2>1. \A i : DefineIndex(d.next, i, FALSE).verb = "DEFINE INDEX"
    BY DEF DefineIndex
  <2>2. D \in Seq(Statement) /\ \A x \in ToSet(D) : \E i : x = DefineIndex(d.next, i, FALSE)
    BY Definitions
  <2> QED BY <2>1, <2>2, Zenon DEF Updates
<1>5. U \in Seq(Statement) /\ ToSet(U) = DataOf(d) /\ (Orderly(d) => Avoids(U, Late))
  BY DataOrder
<1> HIDE DEF G, R, D, U, L
<1> DEFINE A == G \o R
           C == A \o D
<1>6. A \in Seq(Statement) /\ \A x \in ToSet(A) : ~Updates(x)
  BY <1>2, <1>3, ConcatSet
<1> HIDE DEF A
<1>7. C \in Seq(Statement) /\ \A x \in ToSet(C) : ~Updates(x)
  BY <1>4, <1>6, ConcatSet
<1>8. L = C \o U
  BY <1>1 DEF A
<1> HIDE DEF C
<1>9. L \in Seq(Statement) /\ ToSet(L) = ToSet(C) \cup ToSet(U)
  BY <1>5, <1>7, <1>8, ConcatSet
<1>10. ASSUME Orderly(d) PROVE Avoids(L, Late)
  <2>1. \A x \in ToSet(C), y \in ToSet(U) : <<x, y>> \notin Late
    BY <1>7 DEF Late
  <2>2. Avoids(C, Late) /\ Avoids(U, Late)
    BY <1>5, <1>7, <1>10, StillAvoids
  <2> QED BY <1>5, <1>7, <1>8, <2>1, <2>2, ConcatAvoids
<1> QED BY <1>5, <1>7, <1>9, <1>10 DEF L

(* Updates of one diff are on the table it alters. *)
LEMMA UpdateFits ==
    ASSUME NEW d, NEW x, Fits(d, x), Updates(x)
    PROVE  d.kind = "Alter" /\ d.previous.name = d.next.name /\ Writes(x, d.next.name)
BY Zenon DEF Fits, Updates, Writes

Steady(diffs) == \A d \in ToSet(diffs) : d.kind = "Alter" => Orderly(d)

(* The statements about the fields of a table are those of its diff, in order. *)
Moved(diffs, L) ==
    /\ L \in Seq(Statement) /\ Avoids(L, Late)
    /\ \A d \in ToSet(diffs) : d.kind = "Alter" =>
          \A x \in ToSet(L) : Writes(x, d.next.name) => x \in DataOf(d)

LEMMA ChangeData ==
    ASSUME NEW diffs \in Changes, Safe(diffs), Steady(diffs)
    PROVE  /\ Moved(diffs, generate(diffs))
           /\ \A d \in ToSet(diffs) : d.kind = "Alter" => DataOf(d) \subseteq ToSet(generate(diffs))
<1> DEFINE ss == [k \in DOMAIN diffs |-> TableStatements(diffs[k])]
           F  == FlattenSeq(ss)
           L  == generate(diffs)
           N  == Len(diffs)
<1>1. /\ DOMAIN diffs = 1..N /\ N \in Nat
      /\ \A k \in 1..N : diffs[k] \in Diff /\ diffs[k] \in ToSet(diffs) /\ IndexesNamed(diffs[k].previous)
      /\ \A d \in ToSet(diffs) : d \in Diff
  BY ChangeFacts
<1>2. L = IF F = << >> THEN <<ReturnNone>> ELSE F
  BY DEF generate, ForEach
<1>3. ss = [k \in 1..N |-> ss[k]] /\ \A k \in 1..N : ss[k] = TableStatements(diffs[k])
  BY <1>1
<1>4. \A d \in ToSet(diffs) : d.kind = "Alter" => d.previous.name = d.next.name /\ Orderly(d)
  BY DEF Safe, Unsafe, Steady
<1> HIDE DEF ss
<1>5. ASSUME NEW k \in 1..N
      PROVE  /\ ss[k] \in Seq(Statement) /\ Avoids(ss[k], Late)
             /\ \A x \in ToSet(ss[k]) : Fits(diffs[k], x)
             /\ \A x \in ToSet(ss[k]) : Updates(x) => x \in DataOf(diffs[k])
  <2> DEFINE d == diffs[k]
  <2>1. d \in Diff /\ d \in ToSet(diffs) /\ ss[k] = TableStatements(d) /\ IndexesNamed(d.previous)
    BY <1>1, <1>3
  <2> HIDE DEF d
  <2>2. PartOf(d, ss[k])
    BY <2>1, Parts
  <2>3. ss[k] \in Seq(Statement) /\ \A x \in ToSet(ss[k]) : Fits(d, x)
    BY <2>2 DEF PartOf
  <2>4. CASE d.kind = "Alter"
    <3>1. d.previous.name = d.next.name /\ Orderly(d)
      BY <1>4, <2>1, <2>4
    <3> QED BY <2>1, <2>3, <2>4, <3>1, AlterData DEF d
  <2>5. CASE d.kind # "Alter"
    <3>1. \A x \in ToSet(ss[k]) : ~Updates(x)
      BY <2>3, <2>5, UpdateFits
    <3> QED BY <2>3, <3>1, StillAvoids DEF d
  <2> QED BY <2>4, <2>5
<1>6. ss \in Seq(Seq(Statement)) /\ Len(ss) = N
  <2> HIDE DEF N
  <2> QED BY <1>1, <1>3, <1>5
<1>7. F \in Seq(Statement) /\ \A x : x \in ToSet(F) <=> \E k \in 1..N : x \in ToSet(ss[k])
  BY <1>6, FlattenMembers
<1>8. ASSUME NEW j \in 1..N, NEW k \in 1..N, j < k, NEW x \in ToSet(ss[j]), NEW y \in ToSet(ss[k])
      PROVE  <<x, y>> \notin Late
  <2> SUFFICES ASSUME <<x, y>> \in Late PROVE FALSE
    OBVIOUS
  <2>1. Updates(x) /\ Updates(y) /\ x.table = y.table
    BY DEF Late
  <2>2. /\ diffs[j].kind = "Alter" /\ x.table = diffs[j].next.name
        /\ diffs[k].kind = "Alter" /\ y.table = diffs[k].next.name
    BY <1>5, <2>1, UpdateFits DEF Writes
  <2>3. j # k
    BY <1>8
  <2>4. diffs[j].kind # "Drop" /\ diffs[k].kind # "Drop"
    BY <2>2
  <2>5. diffs[j].next.name # diffs[k].next.name
    BY <2>3, <2>4, Distinct
  <2> QED BY <2>1, <2>2, <2>5
<1>9. Avoids(F, Late)
  BY <1>5, <1>6, <1>8, FlattenAvoids
<1>10. ASSUME NEW d \in ToSet(diffs), d.kind = "Alter", NEW x \in ToSet(F), Writes(x, d.next.name)
       PROVE  x \in DataOf(d)
  <2>1. PICK k \in 1..N : x \in ToSet(ss[k])
    BY <1>7
  <2>2. Updates(x) /\ x.table = d.next.name
    BY <1>10 DEF Writes
  <2>3. diffs[k].kind = "Alter" /\ x.table = diffs[k].next.name /\ diffs[k] \in ToSet(diffs)
    BY <1>1, <1>5, <2>1, <2>2, UpdateFits DEF Writes
  <2>4. diffs[k] = d
    <3> DEFINE e == diffs[k]
    <3>1. e \in ToSet(diffs) /\ e.kind # "Drop" /\ d.kind # "Drop" /\ d.next.name = e.next.name
      BY <1>10, <2>2, <2>3
    <3> HIDE DEF e
    <3>2. d = e
      BY <1>10, <3>1, SchemaNames
    <3> QED BY <3>2 DEF e
  <2> QED BY <1>5, <2>1, <2>2, <2>4
<1> HIDE DEF F
<1>11. L \in Seq(Statement) /\ \A d \in ToSet(diffs) : ToSet(TableStatements(d)) \subseteq ToSet(L)
  BY Generated DEF Plan
<1>12. ASSUME NEW d \in ToSet(diffs), d.kind = "Alter" PROVE DataOf(d) \subseteq ToSet(L)
  <2>1. DataOf(d) \subseteq ToSet(TableStatements(d))
    BY <1>1, <1>4, <1>12, AlterData
  <2> QED BY <1>11, <2>1
<1>13. ASSUME L = <<ReturnNone>> PROVE \A x \in ToSet(L) : ~Updates(x)
  <2>1. DOMAIN <<ReturnNone>> = {1} /\ <<ReturnNone>>[1] = ReturnNone
    OBVIOUS
  <2>2. ReturnNone.verb = "RETURN NONE"
    BY DEF ReturnNone
  <2>3. ~Updates(ReturnNone)
    BY <2>2, Zenon DEF Updates
  <2> QED BY <1>13, <2>1, <2>3 DEF ToSet
<1>14. Avoids(L, Late)
  BY <1>2, <1>9, <1>11, <1>13, StillAvoids
<1>15. \A d \in ToSet(diffs) : d.kind = "Alter" =>
          \A x \in ToSet(L) : Writes(x, d.next.name) => x \in DataOf(d)
  BY <1>2, <1>10, <1>13 DEF Writes
<1> QED BY <1>11, <1>12, <1>14, <1>15 DEF Moved

-----------------------------------------------------------------------------
(* A row while the statements P have still to be run. *)

(* The fields that have been copied. *)
Landed(d, P) == {p \in Moves(d) : CopyOf(d, p) \notin P}
Stays(d)     == Fields(d.previous) \ Gone(d)
IsRow(r)     == r = [c \in Columns |-> r[c]]

(* From `old` to `new`: a field that moves is where it was, or where it will be;
   one that stays has not changed; there is nothing else but what has still to be
   emptied.                                                                  *)
Underway(d, old, new, P) ==
    /\ \A p \in Moves(d) \ Landed(d, P) : new[p] = old[p]
    /\ \A p \in Landed(d, P) : new[Mapped(d, p)] = old[p]
    /\ \A c \in Stays(d) : new[c] = old[c]
    /\ \A c \in Columns :
          /\ c \in Fields(d.previous) => c \in Gone(d) /\ Unset(d.next, c) \notin P
          /\ \A p \in Landed(d, P) : Mapped(d, p) # c
          => new[c] = NONE

(* A field that another is copied to is not emptied afterwards. *)
Ahead(d, P) ==
    \A p \in Moves(d) : LET m == Mapped(d, p) IN
        m \in Gone(d) /\ Unset(d.next, m) \in P => CopyOf(d, p) \in P

(* s is the next of the statements P, Q the others. *)
NextOf(s, P, Q) ==
    /\ s \in Statement /\ Q \subseteq Statement
    /\ \A x : x \in P <=> x = s \/ x \in Q
    /\ \A y \in Q : <<s, y>> \notin Late

(* Two columns do not become the same; what neither moves nor goes keeps its name. *)
LEMMA OrderlyFacts ==
    ASSUME NEW d \in Diff, Orderly(d), d.kind = "Alter", ~Unsafe(d)
    PROVE  /\ \A p, q \in Moves(d) : Mapped(d, p) = Mapped(d, q) => p = q
           /\ \A c \in Stays(d) : /\ Survives(d, c) /\ Mapped(d, c) = c
                                  /\ c \notin ToSet(d.next.primary_key)
                                  /\ \A p \in Moves(d) : Mapped(d, p) # c
<1>1. /\ ToSet(d.previous.primary_key) \subseteq ToSet(d.previous.columns)
      /\ \A p, q \in ToSet(d.previous.columns) : Survives(d, p) /\ Mapped(d, p) = Mapped(d, q) => p = q
  BY DEF Orderly
<1>2. \A c \in Fields(d.previous) :
         c \in ToSet(d.previous.columns) /\ c \notin ToSet(d.previous.primary_key)
  BY FieldFacts
<1>3. \A p \in Moves(d) : p \in ToSet(d.previous.columns) /\ Survives(d, p) /\ Mapped(d, p) # p
  BY <1>2, FieldFacts
<1>4. [k \in DOMAIN d.previous.primary_key |-> Mapped(d, d.previous.primary_key[k])]
         = d.next.primary_key
  BY DEF Unsafe
<1>5. ASSUME NEW c \in Fields(d.previous), Survives(d, c)
      PROVE  Mapped(d, c) \notin ToSet(d.next.primary_key)
  <2> SUFFICES ASSUME Mapped(d, c) \in ToSet(d.next.primary_key) PROVE FALSE
    OBVIOUS
  <2>1. PICK k \in DOMAIN d.next.primary_key : Mapped(d, c) = d.next.primary_key[k]
    BY DEF ToSet
  <2>2. k \in DOMAIN d.previous.primary_key
        /\ d.next.primary_key[k] = Mapped(d, d.previous.primary_key[k])
    BY <1>4, <2>1
  <2>3. d.previous.primary_key[k] \in ToSet(d.previous.primary_key)
    BY <2>2 DEF ToSet
  <2> QED BY <1>1, <1>2, <1>5, <2>1, <2>2, <2>3
<1>6. ASSUME NEW c \in Stays(d)
      PROVE  /\ Survives(d, c) /\ Mapped(d, c) = c /\ c \in ToSet(d.previous.columns)
             /\ c \notin ToSet(d.next.primary_key)
  <2>1. c \in Fields(d.previous) /\ Survives(d, c) /\ c \notin Moves(d)
    BY DEF Stays, Gone
  <2>2. Mapped(d, c) \notin ToSet(d.next.primary_key)
    BY <1>5, <2>1
  <2>3. Mapped(d, c) = c
    BY <1>2, <2>1, <2>2 DEF Moves, Renamed, is_primary_key
  <2> QED BY <1>2, <2>1, <2>2, <2>3
<1> QED BY <1>1, <1>3, <1>6

(* The statements about the fields of a table differ as their fields do. *)
LEMMA DataApart ==
    ASSUME NEW d \in Diff
    PROVE  /\ \A p, q \in Moves(d) : CopyOf(d, p) = CopyOf(d, q) => p = q
           /\ \A p, q \in Gone(d) : Unset(d.next, p) = Unset(d.next, q) => p = q
           /\ \A p \in Moves(d), q \in Gone(d) : CopyOf(d, p) # Unset(d.next, q)
           /\ \A p \in Moves(d) : /\ <<CopyOf(d, p), CopyOf(d, p)>> \in Late
                                  /\ \A q \in Moves(d) : Mapped(d, p) = q =>
                                        <<CopyOf(d, p), CopyOf(d, q)>> \in Late
                                  /\ \A q \in Gone(d) : Mapped(d, p) = q =>
                                        <<CopyOf(d, p), Unset(d.next, q)>> \in Late
           /\ \A p \in Moves(d) : <<Unset(d.next, p), CopyOf(d, p)>> \in Late
<1>1. \A c \in Moves(d) : /\ CopyOf(d, c) \in Statement /\ Copies(CopyOf(d, c)) /\ ~Unsets(CopyOf(d, c))
                          /\ Updates(CopyOf(d, c)) /\ CopyOf(d, c).table = d.next.name
                          /\ CopyOf(d, c).from = c /\ CopyOf(d, c).to = Mapped(d, c)
  BY FieldStatements DEF Writes
<1>2. \A c \in Gone(d) : /\ Unset(d.next, c) \in Statement /\ Unsets(Unset(d.next, c))
                         /\ Updates(Unset(d.next, c)) /\ Unset(d.next, c).table = d.next.name
                         /\ Unset(d.next, c).column = c
  BY FieldStatements DEF Writes
<1>3. \A c \in Moves(d) : c \in Gone(d)
  BY FieldFacts
<1>4. /\ \A p, q \in Moves(d) : CopyOf(d, p) = CopyOf(d, q) => p = q
      /\ \A p, q \in Gone(d) : Unset(d.next, p) = Unset(d.next, q) => p = q
      /\ \A p \in Moves(d), q \in Gone(d) : CopyOf(d, p) # Unset(d.next, q)
  BY <1>1, <1>2
<1>5. ASSUME NEW p \in Moves(d) PROVE <<CopyOf(d, p), CopyOf(d, p)>> \in Late
  BY <1>1 DEF Late
<1>6. ASSUME NEW p \in Moves(d), NEW q \in Moves(d), Mapped(d, p) = q
      PROVE  <<CopyOf(d, p), CopyOf(d, q)>> \in Late
  BY <1>1, <1>6 DEF Late
<1>7. ASSUME NEW p \in Moves(d), NEW q \in Gone(d), Mapped(d, p) = q
      PROVE  <<CopyOf(d, p), Unset(d.next, q)>> \in Late
  BY <1>1, <1>2, <1>7 DEF Late
<1>8. ASSUME NEW p \in Moves(d) PROVE <<Unset(d.next, p), CopyOf(d, p)>> \in Late
  BY <1>1, <1>2, <1>3 DEF Late
<1> QED BY <1>4, <1>5, <1>6, <1>7, <1>8

(* A statement about something else. *)
LEMMA OtherRow ==
    ASSUME NEW d \in Diff, NEW s, NEW P, NEW Q, \A x : x \in P <=> x = s \/ x \in Q, s \notin DataOf(d),
           Ahead(d, P)
    PROVE  /\ Ahead(d, Q)
           /\ \A old, new : Underway(d, old, new, P) => Underway(d, old, new, Q)
<1>1. /\ \A p \in Moves(d) : CopyOf(d, p) \in P <=> CopyOf(d, p) \in Q
      /\ \A c \in Gone(d) : Unset(d.next, c) \in P <=> Unset(d.next, c) \in Q
  BY DEF DataOf
<1>2. Landed(d, P) = Landed(d, Q)
  BY <1>1 DEF Landed
<1>3. Ahead(d, Q)
  BY <1>1 DEF Ahead
<1>4. ASSUME NEW old, NEW new, Underway(d, old, new, P) PROVE Underway(d, old, new, Q)
  BY <1>1, <1>2, <1>4 DEF Underway
<1> QED BY <1>3, <1>4

(* A field is copied: nothing is there yet, and nobody reads there any more. *)
LEMMA CopiedRow ==
    ASSUME NEW d \in Diff, Orderly(d), d.kind = "Alter", ~Unsafe(d), NEW p \in Moves(d),
           NEW P, NEW Q, NextOf(CopyOf(d, p), P, Q), Ahead(d, P)
    PROVE  /\ Ahead(d, Q)
           /\ \A old, new : IsRow(new) /\ Underway(d, old, new, P) =>
                 LET row == IF new[p] # NONE THEN [new EXCEPT ![Mapped(d, p)] = new[p]] ELSE new
                 IN  IsRow(row) /\ Underway(d, old, row, Q)
<1> DEFINE s == CopyOf(d, p)
           m == Mapped(d, p)
<1>1. /\ m \in Columns /\ m # p /\ p \in Columns
      /\ \A q \in Moves(d) : m = Mapped(d, q) => q = p
      /\ \A c \in Stays(d) : m # c
  BY FieldFacts, OrderlyFacts
<1>2. (\A x : x \in P <=> x = s \/ x \in Q) /\ s \notin Q
  BY DataApart DEF NextOf
<1>3. /\ \A q \in Moves(d) : m = q => CopyOf(d, q) \notin Q
      /\ \A q \in Gone(d) : m = q => Unset(d.next, q) \notin Q
  BY DataApart DEF NextOf
<1>4. /\ \A q \in Moves(d) : q # p => (CopyOf(d, q) \in P <=> CopyOf(d, q) \in Q)
      /\ \A q \in Gone(d) : Unset(d.next, q) \in P <=> Unset(d.next, q) \in Q
  BY <1>2, DataApart
<1>5. p \notin Landed(d, P) /\ Landed(d, Q) = Landed(d, P) \cup {p}
  BY <1>2, <1>4 DEF Landed
<1>6. Ahead(d, Q)
  <2> SUFFICES ASSUME NEW q \in Moves(d), Mapped(d, q) \in Gone(d), Unset(d.next, Mapped(d, q)) \in Q
               PROVE  CopyOf(d, q) \in Q
    BY DEF Ahead
  <2>1. CopyOf(d, q) \in P
    BY <1>2 DEF Ahead
  <2>2. q # p
    BY <1>3
  <2> QED BY <1>4, <2>1, <2>2
<1>7. ASSUME NEW old, NEW new, IsRow(new), Underway(d, old, new, P)
      PROVE  LET row == IF new[p] # NONE THEN [new EXCEPT ![m] = new[p]] ELSE new
             IN  IsRow(row) /\ Underway(d, old, row, Q)
  <2> DEFINE row == IF new[p] # NONE THEN [new EXCEPT ![m] = new[p]] ELSE new
  <2>1. new[p] = old[p]
    BY <1>5, <1>7 DEF Underway
  <2>2. new[m] = NONE
    <3>1. m \in Fields(d.previous) => m \in Gone(d)
      BY <1>1 DEF Stays
    <3>2. m \in Gone(d) => Unset(d.next, m) \notin P
      BY <1>3, <1>4
    <3>3. \A q \in Landed(d, P) : Mapped(d, q) # m
      BY <1>1, <1>5 DEF Landed
    <3> QED BY <1>1, <1>7, <3>1, <3>2, <3>3 DEF Underway
  <2>3. /\ row = [c \in Columns |-> IF c = m THEN old[p] ELSE new[c]]
    <3>1. new = [c \in Columns |-> new[c]]
      BY <1>7 DEF IsRow
    <3>2. CASE new[p] = NONE
      BY <2>1, <2>2, <3>1, <3>2
    <3>3. CASE new[p] # NONE
      BY <1>1, <2>1, <3>1, <3>3
    <3> QED BY <3>2, <3>3
  <2> HIDE DEF row, m
  <2>4. IsRow(row) /\ row[m] = old[p] /\ \A c \in Columns : c # m => row[c] = new[c]
    BY <1>1, <2>3 DEF IsRow
  <2>5. ASSUME NEW q \in Moves(d) \ Landed(d, Q) PROVE row[q] = old[q]
    <3>1. q \in Moves(d) \ Landed(d, P) /\ CopyOf(d, q) \in Q
      BY <1>5 DEF Landed
    <3>2. m # q /\ q \in Columns
      BY <1>3, <3>1, FieldFacts DEF m
    <3> QED BY <1>7, <2>4, <3>1, <3>2 DEF Underway
  <2>6. ASSUME NEW q \in Landed(d, Q) PROVE row[Mapped(d, q)] = old[q]
    <3>1. CASE q = p
      BY <2>4, <3>1 DEF m
    <3>2. CASE q # p
      <4>1. q \in Landed(d, P) /\ q \in Moves(d)
        BY <1>5, <3>2 DEF Landed
      <4>2. Mapped(d, q) # m /\ Mapped(d, q) \in Columns
        BY <1>1, <3>2, <4>1, FieldFacts
      <4> QED BY <1>7, <2>4, <4>1, <4>2 DEF Underway
    <3> QED BY <3>1, <3>2
  <2>7. ASSUME NEW c \in Stays(d) PROVE row[c] = old[c]
    <3>1. c # m /\ c \in Columns
      BY <1>1, FieldFacts DEF Stays
    <3> QED BY <1>7, <2>4, <3>1 DEF Underway
  <2>8. ASSUME NEW c \in Columns,
               c \in Fields(d.previous) => c \in Gone(d) /\ Unset(d.next, c) \notin Q,
               \A q \in Landed(d, Q) : Mapped(d, q) # c
        PROVE  row[c] = NONE
    <3>1. c # m /\ \A q \in Landed(d, P) : Mapped(d, q) # c
      BY <1>5, <2>8 DEF m
    <3>2. c \in Fields(d.previous) => c \in Gone(d) /\ Unset(d.next, c) \notin P
      BY <1>4, <2>8
    <3> QED BY <1>7, <2>4, <3>1, <3>2 DEF Underway
  <2>9. Underway(d, old, row, Q)
    BY <2>5, <2>6, <2>7, <2>8 DEF Underway
  <2> QED BY <2>4, <2>9 DEF row, m
<1> QED BY <1>6, <1>7

(* A field is emptied: what was in it is elsewhere, or is not kept. *)
LEMMA EmptiedRow ==
    ASSUME NEW d \in Diff, NEW e \in Gone(d), NEW P, NEW Q, NextOf(Unset(d.next, e), P, Q), Ahead(d, P)
    PROVE  /\ Ahead(d, Q)
           /\ \A old, new : IsRow(new) /\ Underway(d, old, new, P) =>
                 LET row == [new EXCEPT ![e] = NONE]
                 IN  IsRow(row) /\ Underway(d, old, row, Q)
<1> DEFINE s == Unset(d.next, e)
<1>1. e \in Columns /\ e \notin Stays(d)
  BY FieldFacts DEF Stays
<1>2. (\A x : x \in P <=> x = s \/ x \in Q) /\ s \in P
  BY DEF NextOf
<1>3. e \in Moves(d) => CopyOf(d, e) \notin Q
  BY DataApart DEF NextOf
<1>4. /\ \A q \in Moves(d) : CopyOf(d, q) \in P <=> CopyOf(d, q) \in Q
      /\ \A q \in Gone(d) : q # e => (Unset(d.next, q) \in P <=> Unset(d.next, q) \in Q)
  BY <1>2, DataApart
<1>5. Landed(d, Q) = Landed(d, P)
  BY <1>4 DEF Landed
<1>6. Ahead(d, Q)
  <2> SUFFICES ASSUME NEW q \in Moves(d), Mapped(d, q) \in Gone(d), Unset(d.next, Mapped(d, q)) \in Q
               PROVE  CopyOf(d, q) \in Q
    BY DEF Ahead
  <2>1. CopyOf(d, q) \in P
    BY <1>2 DEF Ahead
  <2> QED BY <1>4, <2>1
<1>7. ASSUME NEW q \in Landed(d, P) PROVE Mapped(d, q) # e
  BY <1>2, <1>7 DEF Ahead, Landed
<1>8. ASSUME NEW old, NEW new, IsRow(new), Underway(d, old, new, P)
      PROVE  LET row == [new EXCEPT ![e] = NONE]
             IN  IsRow(row) /\ Underway(d, old, row, Q)
  <2> DEFINE row == [new EXCEPT ![e] = NONE]
  <2>1. row = [c \in Columns |-> IF c = e THEN NONE ELSE new[c]]
    <3>1. new = [c \in Columns |-> new[c]]
      BY <1>8 DEF IsRow
    <3> QED BY <1>1, <3>1
  <2> HIDE DEF row
  <2>2. IsRow(row) /\ row[e] = NONE /\ \A c \in Columns : c # e => row[c] = new[c]
    BY <1>1, <2>1 DEF IsRow
  <2>3. ASSUME NEW q \in Moves(d) \ Landed(d, Q) PROVE row[q] = old[q]
    <3>1. q \in Moves(d) \ Landed(d, P) /\ q # e /\ q \in Columns
      BY <1>3, <1>5, FieldFacts DEF Landed
    <3> QED BY <1>8, <2>2, <3>1 DEF Underway
  <2>4. ASSUME NEW q \in Landed(d, Q) PROVE row[Mapped(d, q)] = old[q]
    <3>1. q \in Landed(d, P) /\ q \in Moves(d)
      BY <1>5 DEF Landed
    <3>2. Mapped(d, q) # e /\ Mapped(d, q) \in Columns
      BY <1>7, <3>1, FieldFacts
    <3> QED BY <1>8, <2>2, <3>1, <3>2 DEF Underway
  <2>5. ASSUME NEW c \in Stays(d) PROVE row[c] = old[c]
    <3>1. c # e /\ c \in Columns
      BY <1>1, FieldFacts DEF Stays
    <3> QED BY <1>8, <2>2, <3>1 DEF Underway
  <2>6. ASSUME NEW c \in Columns,
               c \in Fields(d.previous) => c \in Gone(d) /\ Unset(d.next, c) \notin Q,
               \A q \in Landed(d, Q) : Mapped(d, q) # c
        PROVE  row[c] = NONE
    <3>1. CASE c = e
      BY <2>2, <3>1
    <3>2. CASE c # e
      <4>1. c \in Fields(d.previous) => c \in Gone(d) /\ Unset(d.next, c) \notin P
        BY <1>4, <2>6, <3>2
      <4> QED BY <1>5, <1>8, <2>2, <2>6, <3>2, <4>1 DEF Underway
    <3> QED BY <3>1, <3>2
  <2>7. Underway(d, old, row, Q)
    BY <2>3, <2>4, <2>5, <2>6 DEF Underway
  <2> QED BY <2>2, <2>7 DEF row
<1> QED BY <1>6, <1>8

-----------------------------------------------------------------------------
(* The rows of a table. *)

(* Before the migration: nothing but the fields of the previous schema. *)
Sparse(d, v) ==
    /\ d.next.name \in DOMAIN v
    /\ \A id \in DOMAIN v[d.next.name].rows :
          LET r == v[d.next.name].rows[id]
          IN  IsRow(r) /\ \A c \in Columns \ Fields(d.previous) : r[c] = NONE

(* From `base` to `view`, with the statements P still to be run. *)
Between(d, base, view, P) ==
    LET n == d.next.name IN
    /\ n \in DOMAIN base /\ n \in DOMAIN view
    /\ DOMAIN view[n].rows = DOMAIN base[n].rows
    /\ \A id \in DOMAIN base[n].rows :
          IsRow(view[n].rows[id]) /\ Underway(d, base[n].rows[id], view[n].rows[id], P)

Following(diffs, j) ==
    /\ Moved(diffs, j.todo)
    /\ \A d \in ToSet(diffs) : d.kind = "Alter" =>
          Ahead(d, ToSet(j.todo)) /\ Between(d, j.base, j.view, ToSet(j.todo))

(* Before anything has been run. *)
LEMMA FollowStart ==
    ASSUME NEW diffs \in Changes, Safe(diffs), Steady(diffs), NEW v,
           \A d \in ToSet(diffs) : d.kind = "Alter" => Sparse(d, v),
           NEW j, j.todo = generate(diffs), j.base = v, j.view = v
    PROVE  Following(diffs, j)
<1> DEFINE P == ToSet(generate(diffs))
<1>1. Moved(diffs, j.todo) /\ \A d \in ToSet(diffs) : d.kind = "Alter" => DataOf(d) \subseteq P
  BY ChangeData
<1> HIDE DEF P
<1>2. ASSUME NEW d \in ToSet(diffs), d.kind = "Alter" PROVE Ahead(d, P) /\ Between(d, v, v, P)
  <2>1. /\ \A p \in Moves(d) : CopyOf(d, p) \in P
        /\ \A p \in Gone(d) : Unset(d.next, p) \in P
    BY <1>1, <1>2 DEF DataOf
  <2>2. Ahead(d, P) /\ Landed(d, P) = {}
    BY <2>1 DEF Ahead, Landed
  <2>3. Sparse(d, v)
    BY <1>2
  <2>4. ASSUME NEW r, IsRow(r), \A c \in Columns \ Fields(d.previous) : r[c] = NONE
        PROVE  Underway(d, r, r, P)
    BY <2>1, <2>2, <2>4 DEF Underway
  <2> QED BY <2>2, <2>3, <2>4 DEF Sparse, Between
<1> QED BY <1>1, <1>2 DEF Following, P

(* What an UPDATE makes of the rows of its table. *)
CopiedTo(r, s) == IF r[s.from] # NONE THEN [r EXCEPT ![s.to] = r[s.from]] ELSE r
LEMMA UpdatedRows ==
    ASSUME NEW base, NEW view, CurrentDb(view), NEW s, s.table \in DOMAIN view
    PROVE  LET v == Effect(base, view, s)
               rows == view[s.table].rows
           IN  /\ Copies(s) => /\ s.table \in DOMAIN v
                               /\ v[s.table].rows = [id \in DOMAIN rows |-> CopiedTo(rows[id], s)]
               /\ Unsets(s) => /\ s.table \in DOMAIN v
                               /\ v[s.table].rows =
                                     [id \in DOMAIN rows |-> [rows[id] EXCEPT ![s.column] = NONE]]
<1> DEFINE v == Effect(base, view, s)
           n == s.table
           t == view[n]
           rows == t.rows
<1>1. \A T : LET u == [view EXCEPT ![n] = T] IN n \in DOMAIN u /\ u[n] = T
  <2>1. view = [x \in DOMAIN view |-> view[x]]
    BY DEF CurrentDb
  <2> QED BY <2>1
<1>2. \A x, new : Updated(x, new).rows =
         [id \in DOMAIN x.rows |-> IF id \in DOMAIN new THEN new[id] ELSE x.rows[id]]
  BY DEF Updated
<1>3. ASSUME Copies(s) PROVE v = [view EXCEPT ![n] = CopyField(t, s)]
  <2>1. s.verb = "UPDATE SET"
    BY <1>3 DEF Copies
  <2>2. Effect(base, view, s) = [view EXCEPT ![s.table] = CopyField(view[s.table], s)]
    BY <2>1, Zenon DEF Effect
  <2> QED BY <2>2
<1>4. ASSUME Unsets(s) PROVE v = [view EXCEPT ![n] = UnsetField(t, s)]
  <2>1. s.verb = "UPDATE UNSET"
    BY <1>4 DEF Unsets
  <2>2. Effect(base, view, s) = [view EXCEPT ![s.table] = UnsetField(view[s.table], s)]
    BY <2>1, Zenon DEF Effect
  <2> QED BY <2>2
<1> HIDE DEF v, t, n
<1>5. CopyField(t, s).rows = [id \in DOMAIN rows |-> CopiedTo(rows[id], s)]
  <2> DEFINE hit == {id \in DOMAIN rows : rows[id][s.from] # NONE}
             new == [id \in hit |-> [rows[id] EXCEPT ![s.to] = rows[id][s.from]]]
  <2>1. CopyField(t, s) = Updated(t, new)
    BY DEF CopyField
  <2>2. CopyField(t, s).rows = [id \in DOMAIN rows |-> IF id \in DOMAIN new THEN new[id] ELSE rows[id]]
    <3> HIDE DEF new
    <3> QED BY <1>2, <2>1
  <2>3. \A id \in DOMAIN rows : (IF id \in DOMAIN new THEN new[id] ELSE rows[id]) = CopiedTo(rows[id], s)
    BY DEF CopiedTo
  <2> HIDE DEF new, hit
  <2> QED BY <2>2, <2>3
<1>6. UnsetField(t, s).rows = [id \in DOMAIN rows |-> [rows[id] EXCEPT ![s.column] = NONE]]
  <2> DEFINE new == [id \in DOMAIN rows |-> [rows[id] EXCEPT ![s.column] = NONE]]
  <2>1. UnsetField(t, s) = Updated(t, new)
    BY DEF UnsetField
  <2>2. UnsetField(t, s).rows = [id \in DOMAIN rows |-> IF id \in DOMAIN new THEN new[id] ELSE rows[id]]
    <3> HIDE DEF new
    <3> QED BY <1>2, <2>1
  <2>3. \A id \in DOMAIN rows : (IF id \in DOMAIN new THEN new[id] ELSE rows[id]) = new[id]
    OBVIOUS
  <2>4. new = [id \in DOMAIN rows |-> new[id]]
    OBVIOUS
  <2> HIDE DEF new
  <2>5. UnsetField(t, s).rows = new
    BY <2>2, <2>3, <2>4
  <2> QED BY <2>5 DEF new
<1>7. ASSUME Copies(s) PROVE n \in DOMAIN v /\ v[n].rows = [id \in DOMAIN rows |-> CopiedTo(rows[id], s)]
  <2>1. n \in DOMAIN v /\ v[n] = CopyField(t, s)
    BY <1>1, <1>3, <1>7
  <2> QED BY <1>5, <2>1
<1>8. ASSUME Unsets(s)
      PROVE  n \in DOMAIN v /\ v[n].rows = [id \in DOMAIN rows |-> [rows[id] EXCEPT ![s.column] = NONE]]
  <2>1. n \in DOMAIN v /\ v[n] = UnsetField(t, s)
    BY <1>1, <1>4, <1>8
  <2> QED BY <1>6, <2>1
<1> QED BY <1>7, <1>8 DEF v, t, n

(* One statement: the rows of each altered table follow. *)
LEMMA BetweenStep ==
    ASSUME NEW diffs \in Changes, Safe(diffs), Steady(diffs), NEW d \in ToSet(diffs), d.kind = "Alter",
           NEW base, NEW view, CurrentDb(view), NEW s, NEW P, NEW Q, NextOf(s, P, Q),
           Writes(s, d.next.name) => s \in DataOf(d),
           \A n : RemovesTable(s, n) => \E e \in ToSet(diffs) : e.kind = "Drop" /\ e.previous.name = n,
           NEW v, v = Effect(base, view, s), Turns(view, s, v),
           Ahead(d, P), Between(d, base, view, P)
    PROVE  Ahead(d, Q) /\ Between(d, base, v, Q)
<1> DEFINE n == d.next.name
           old == base[n].rows
           new == view[n].rows
<1>1. d \in Diff /\ Orderly(d) /\ ~Unsafe(d) /\ d.next \in After(diffs)
  BY ChangeFacts, SchemaNames DEF Safe, Steady
<1>2. /\ n \in DOMAIN base /\ n \in DOMAIN view /\ DOMAIN new = DOMAIN old
      /\ \A id \in DOMAIN old : IsRow(new[id]) /\ Underway(d, old[id], new[id], P)
  BY DEF Between
<1>6. ASSUME s.table = n
      PROVE  /\ Copies(s) => n \in DOMAIN v /\ v[n].rows = [id \in DOMAIN new |-> CopiedTo(new[id], s)]
             /\ Unsets(s) => n \in DOMAIN v /\ v[n].rows = [id \in DOMAIN new |-> [new[id] EXCEPT ![s.column] = NONE]]
  <2> DEFINE rows == view[s.table].rows
             w    == Effect(base, view, s)
  <2>1. s.table \in DOMAIN view /\ rows = new /\ w = v
    BY <1>2, <1>6
  <2>2. /\ Copies(s) => s.table \in DOMAIN w /\ w[s.table].rows = [id \in DOMAIN rows |-> CopiedTo(rows[id], s)]
        /\ Unsets(s) => s.table \in DOMAIN w /\ w[s.table].rows = [id \in DOMAIN rows |-> [rows[id] EXCEPT ![s.column] = NONE]]
    BY <2>1, UpdatedRows, SMTT(30)
  <2> HIDE DEF rows, w, n, new
  <2> QED BY <1>6, <2>1, <2>2
<1> HIDE DEF n, old, new
<1>3. ASSUME NEW p \in Moves(d), s = CopyOf(d, p) PROVE Ahead(d, Q) /\ Between(d, base, v, Q)
  <2>1. Copies(s) /\ s.table = n /\ s.from = p /\ s.to = Mapped(d, p)
    BY <1>1, <1>3, FieldStatements DEF Writes, n
  <2>2. n \in DOMAIN v /\ v[n].rows = [id \in DOMAIN new |-> CopiedTo(new[id], s)]
    BY <1>6, <2>1
  <2>3. /\ Ahead(d, Q)
        /\ \A o, r : IsRow(r) /\ Underway(d, o, r, P) =>
              LET row == IF r[p] # NONE THEN [r EXCEPT ![Mapped(d, p)] = r[p]] ELSE r
              IN  IsRow(row) /\ Underway(d, o, row, Q)
    BY <1>1, <1>3, CopiedRow
  <2>4. \A r : CopiedTo(r, s) = IF r[p] # NONE THEN [r EXCEPT ![Mapped(d, p)] = r[p]] ELSE r
    BY <2>1 DEF CopiedTo
  <2>5. \A o, r : IsRow(r) /\ Underway(d, o, r, P) => IsRow(CopiedTo(r, s)) /\ Underway(d, o, CopiedTo(r, s), Q)
    <3> SUFFICES ASSUME NEW o, NEW r, IsRow(r), Underway(d, o, r, P)
                 PROVE  IsRow(CopiedTo(r, s)) /\ Underway(d, o, CopiedTo(r, s), Q)
      OBVIOUS
    <3> DEFINE row == IF r[p] # NONE THEN [r EXCEPT ![Mapped(d, p)] = r[p]] ELSE r
    <3>1. IsRow(row) /\ Underway(d, o, row, Q)
      BY <2>3
    <3>2. CopiedTo(r, s) = row
      BY <2>4
    <3> HIDE DEF row
    <3> QED BY <3>1, <3>2
  <2>6. \A id \in DOMAIN old : IsRow(v[n].rows[id]) /\ Underway(d, old[id], v[n].rows[id], Q)
    BY <1>2, <2>2, <2>5
  <2> QED BY <1>2, <2>2, <2>3, <2>6 DEF Between, n, old
<1>4. ASSUME NEW e \in Gone(d), s = Unset(d.next, e) PROVE Ahead(d, Q) /\ Between(d, base, v, Q)
  <2>1. Unsets(s) /\ s.table = n /\ s.column = e
    BY <1>1, <1>4, FieldStatements DEF Writes, n
  <2>2. n \in DOMAIN v /\ v[n].rows = [id \in DOMAIN new |-> [new[id] EXCEPT ![e] = NONE]]
    BY <1>6, <2>1
  <2>3. /\ Ahead(d, Q)
        /\ \A o, r : IsRow(r) /\ Underway(d, o, r, P) =>
              LET row == [r EXCEPT ![e] = NONE]
              IN  IsRow(row) /\ Underway(d, o, row, Q)
    BY <1>1, <1>4, EmptiedRow
  <2>4. \A id \in DOMAIN old : IsRow(v[n].rows[id]) /\ Underway(d, old[id], v[n].rows[id], Q)
    BY <1>2, <2>2, <2>3
  <2> QED BY <1>2, <2>2, <2>3, <2>4 DEF Between, n, old
<1>5. ASSUME s \notin DataOf(d) PROVE Ahead(d, Q) /\ Between(d, base, v, Q)
  <2>1. ~Writes(s, n)
    BY <1>5 DEF n
  <2>2. ~RemovesTable(s, n)
    <3> SUFFICES ASSUME RemovesTable(s, n) PROVE FALSE
      OBVIOUS
    <3>1. PICK e \in ToSet(diffs) : e.kind = "Drop" /\ e.previous.name = n
      OBVIOUS
    <3> QED BY <1>1, <3>1, KeptTables DEF n
  <2>3. ~Disturbs(s, n)
    BY <2>1, <2>2, Zenon DEF Disturbs, Writes, Updates, RemovesTable
  <2>4. n \in DOMAIN v /\ v[n].rows = new
    BY <1>2, <2>2, <2>3 DEF Turns, RowsOf, new
  <2>5. Ahead(d, Q) /\ \A o, r : Underway(d, o, r, P) => Underway(d, o, r, Q)
    BY <1>1, <1>5, OtherRow DEF NextOf
  <2> QED BY <1>2, <2>4, <2>5 DEF Between, n, old
<1> QED BY <1>3, <1>4, <1>5 DEF DataOf

LEMMA FollowStep ==
    ASSUME NEW diffs \in Changes, Safe(diffs), Steady(diffs), NEW j, MigrateInv(diffs, j),
           Following(diffs, j), j.todo # << >>, Accepted(j.view, Head(j.todo)),
           NEW k, k.todo = Tail(j.todo), k.base = j.base,
           k.view = Effect(j.base, j.view, Head(j.todo))
    PROVE  Following(diffs, k)
<1> DEFINE L == j.todo
           T == Tail(L)
           s == Head(L)
           view == j.view
           base == j.base
           v == Effect(base, view, s)
<1>1. Plan(diffs, L) /\ CurrentDb(view) /\ RowsKnown(base, view, L)
  BY DEF MigrateInv
<1>2. Moved(diffs, L) /\ \A d \in ToSet(diffs) : d.kind = "Alter" =>
          Ahead(d, ToSet(L)) /\ Between(d, base, view, ToSet(L))
  BY DEF Following
<1>3. L # << >> /\ Accepted(view, s) /\ k.todo = T /\ k.base = base /\ k.view = v
  OBVIOUS
<1> HIDE DEF L, view, base
<1>4. L \in Seq(Statement) /\ Avoids(L, Late)
  BY <1>2 DEF Moved
<1>5. /\ s \in Statement /\ T \in Seq(Statement)
      /\ \A x : x \in ToSet(L) <=> x = s \/ x \in ToSet(T)
  BY <1>3, <1>4, TailFacts
<1>6. Avoids(T, Late) /\ \A y \in ToSet(T) : <<s, y>> \notin Late
  BY <1>3, <1>4, TailAvoids
<1>7. Leads(diffs, s, T)
  BY <1>1, <1>3, HeadLeads
<1> HIDE DEF s, T
<1>8. Turns(view, s, v)
  <2>1. s.verb = "DEFINE INDEX" => RowsOf(view, s.table) = RowsOf(base, s.table)
    BY <1>1, <1>5 DEF RowsKnown
  <2> QED BY <1>1, <1>3, <1>5, <2>1, Effects
<1>9. NextOf(s, ToSet(L), ToSet(T))
  <2>1. ToSet(T) \subseteq Statement
    <3>1. \A i \in DOMAIN T : T[i] \in Statement
      BY <1>5
    <3> QED BY <3>1 DEF ToSet
  <2> QED BY <1>5, <1>6, <2>1 DEF NextOf
<1>10. \A n : RemovesTable(s, n) => \E e \in ToSet(diffs) : e.kind = "Drop" /\ e.previous.name = n
  BY <1>7 DEF Leads
<1>11. ASSUME NEW d \in ToSet(diffs), d.kind = "Alter"
       PROVE  Ahead(d, ToSet(T)) /\ Between(d, base, v, ToSet(T))
  <2>1. Writes(s, d.next.name) => s \in DataOf(d)
    BY <1>2, <1>5, <1>11 DEF Moved
  <2> DEFINE w == v
  <2>2. w = Effect(base, view, s) /\ Turns(view, s, w)
    BY <1>8
  <2> HIDE DEF w
  <2>3. Ahead(d, ToSet(T)) /\ Between(d, base, w, ToSet(T))
    BY <1>1, <1>2, <1>9, <1>10, <1>11, <2>1, <2>2, BetweenStep
  <2> QED BY <2>3 DEF w
<1>12. Moved(diffs, T)
  BY <1>2, <1>5, <1>6 DEF Moved
<1> QED BY <1>3, <1>11, <1>12 DEF Following

(* When everything has been run. *)
LEMMA FollowEnd ==
    ASSUME NEW diffs \in Changes, Safe(diffs), Steady(diffs), NEW d \in ToSet(diffs), d.kind = "Alter",
           NEW old, NEW new, Underway(d, old, new, {})
    PROVE  Kept(d, old, new)
<1>1. d \in Diff /\ Orderly(d) /\ ~Unsafe(d)
  BY ChangeFacts DEF Safe, Steady
<1>2. Landed(d, {}) = Moves(d)
  BY DEF Landed
<1>3. /\ \A p \in Moves(d) : new[Mapped(d, p)] = old[p]
      /\ \A c \in Stays(d) : new[c] = old[c]
      /\ \A c \in Columns : /\ c \in Fields(d.previous) => c \in Gone(d)
                            /\ \A p \in Moves(d) : Mapped(d, p) # c
                            => new[c] = NONE
  BY <1>2 DEF Underway
<1>4. /\ \A p \in Moves(d) : /\ p \in Fields(d.previous) /\ Mapped(d, p) # p /\ Survives(d, p)
                             /\ Mapped(d, p) \notin ToSet(d.next.primary_key)
      /\ \A c \in Stays(d) : /\ Survives(d, c) /\ Mapped(d, c) = c
                             /\ c \notin ToSet(d.next.primary_key)
                             /\ \A p \in Moves(d) : Mapped(d, p) # c
      /\ \A p, q \in Moves(d) : Mapped(d, p) = Mapped(d, q) => p = q
  BY <1>1, FieldFacts, OrderlyFacts
<1>5. ASSUME NEW p \in Fields(d.previous), Mapped(d, p) \in Fields(d.next)
      PROVE  p \in Moves(d) \/ (p \in Stays(d) /\ Mapped(d, p) = p)
  <2>1. Survives(d, p)
    BY <1>5 DEF Survives, Fields
  <2> QED BY <1>4, <2>1 DEF Stays, Gone
<1>6. \A p, q \in Fields(d.previous) :
         Mapped(d, p) \in Fields(d.next) /\ Mapped(d, p) = Mapped(d, q) => p = q
  <2> SUFFICES ASSUME NEW p \in Fields(d.previous), NEW q \in Fields(d.previous),
                      Mapped(d, p) \in Fields(d.next), Mapped(d, p) = Mapped(d, q)
               PROVE  p = q
    OBVIOUS
  <2>1. p \in Moves(d) \/ (p \in Stays(d) /\ Mapped(d, p) = p)
    BY <1>5
  <2>2. q \in Moves(d) \/ (q \in Stays(d) /\ Mapped(d, q) = q)
    BY <1>5
  <2> QED BY <1>4, <2>1, <2>2
<1>7. SUFFICES ASSUME NEW c \in Columns
               PROVE  new[c] = IF c \in Fields(d.next) /\ \E p \in Fields(d.previous) : Mapped(d, p) = c
                               THEN old[CHOOSE p \in Fields(d.previous) : Mapped(d, p) = c] ELSE NONE
  BY DEF Kept
<1>8. CASE c \in Fields(d.next) /\ \E p \in Fields(d.previous) : Mapped(d, p) = c
  <2> DEFINE p == CHOOSE q \in Fields(d.previous) : Mapped(d, q) = c
  <2>1. p \in Fields(d.previous) /\ Mapped(d, p) = c
    BY <1>8
  <2> HIDE DEF p
  <2>2. new[c] = old[p]
    BY <1>3, <1>5, <1>8, <2>1
  <2> QED BY <1>8, <2>2 DEF p
<1>9. CASE ~(c \in Fields(d.next) /\ \E p \in Fields(d.previous) : Mapped(d, p) = c)
  <2>1. ASSUME NEW p \in Moves(d) PROVE Mapped(d, p) # c
    <3>1. Mapped(d, p) \in Fields(d.next) /\ p \in Fields(d.previous)
      BY <1>4 DEF Fields, Survives
    <3> QED BY <1>9, <3>1
  <2>2. c \notin Stays(d)
    <3> SUFFICES ASSUME c \in Stays(d) PROVE FALSE
      OBVIOUS
    <3>1. c \in Fields(d.next) /\ c \in Fields(d.previous) /\ Mapped(d, c) = c
      BY <1>4 DEF Fields, Survives, Stays
    <3> QED BY <1>9, <3>1
  <2>3. new[c] = NONE
    BY <1>3, <2>1, <2>2 DEF Stays
  <2> QED BY <1>9, <2>3
<1> QED BY <1>8, <1>9

-----------------------------------------------------------------------------
(* The rows in the steps. *)

FollowInv ==
    Safe(change) =>
        /\ ~applied => \A d \in ToSet(change) : d.kind = "Alter" => Sparse(d, db)
        /\ \A c \in Clients : job[c].at = "migrate" => Following(change, job[c])

(* Every row starts with nothing but the fields of the previous schema. *)
LEMMA StartingRows ==
    ASSUME NEW diffs \in Changes, Safe(diffs), NEW rows,
           \A t \in Before(diffs) : rows[t.name] \in Rows(t),
           NEW v, v = [n \in {t.name : t \in Before(diffs)} |->
                          Table(CHOOSE t \in Before(diffs) : t.name = n, rows[n])],
           NEW d \in ToSet(diffs), d.kind = "Alter"
    PROVE  Sparse(d, v)
<1> DEFINE n == d.next.name
           at == CHOOSE t \in Before(diffs) : t.name = n
           own == rows[n]
<1>1. d.previous \in Before(diffs) /\ d.previous.name = n
  <2>1. d.previous \in Before(diffs)
    BY SchemaNames
  <2> QED BY <2>1 DEF Safe, Unsafe
<1>2. n \in DOMAIN v /\ v[n] = Table(at, own)
  BY <1>1
<1>3. own \in Rows(d.previous)
  BY <1>1
<1> HIDE DEF own, at, n
<1>4. n \in DOMAIN v /\ v[n].rows = own
  <2>1. Table(at, own).rows = own
    BY DEF Table
  <2> QED BY <1>2, <2>1
<1>5. ASSUME NEW id \in DOMAIN own
      PROVE  IsRow(own[id]) /\ \A c \in Columns \ Fields(d.previous) : own[id][c] = NONE
  BY <1>3 DEF Rows, IsRow
<1> DEFINE kept == v[n].rows
<1>6. kept = own
  BY <1>4
<1> HIDE DEF kept
<1>7. \A id \in DOMAIN kept :
         IsRow(kept[id]) /\ \A c \in Columns \ Fields(d.previous) : kept[id][c] = NONE
  BY <1>5, <1>6
<1> QED BY <1>4, <1>7 DEF Sparse, n, kept

(* A push defines tables and indexes: it leaves the rows alone. *)
LEMMA PushedRows ==
    ASSUME NEW diffs \in Changes, NEW v, CurrentDb(v), NEW s \in Statement, Pushing(diffs, s),
           Accepted(v, s), NEW d, Sparse(d, v)
    PROVE  Sparse(d, Effect(v, v, s))
<1> DEFINE w == Effect(v, v, s)
           n == d.next.name
<1>1. Turns(v, s, w) /\ Grows(v, w)
  BY Effects, PushEffect
<1> HIDE DEF w
<1>2. ~Disturbs(s, n)
  <2>1. PICK t \in After(diffs) :
           s = DefineTable(t, TRUE) \/ \E i \in Secondary(t) : s = DefineIndex(t, i, TRUE)
    BY DEF Pushing
  <2>2. CASE s = DefineTable(t, TRUE)
    <3>1. s.verb = "DEFINE TABLE"
      BY <2>2 DEF DefineTable
    <3> QED BY <3>1 DEF Disturbs
  <2>3. CASE \E i \in Secondary(t) : s = DefineIndex(t, i, TRUE)
    <3>1. PICK i \in Secondary(t) : s = DefineIndex(t, i, TRUE)
      BY <2>3
    <3>2. s.verb = "DEFINE INDEX"
      BY <3>1 DEF DefineIndex
    <3> QED BY <3>2 DEF Disturbs
  <2> QED BY <2>1, <2>2, <2>3
<1>3. n \in DOMAIN v /\ n \in DOMAIN w
  BY <1>1 DEF Grows, Sparse
<1>4. w[n].rows = v[n].rows
  BY <1>1, <1>2, <1>3 DEF Turns, RowsOf
<1> QED BY <1>3, <1>4 DEF Sparse, w

LEMMA InitFollow == Init => FollowInv
<1> SUFFICES ASSUME Init, Safe(change)
             PROVE  /\ \A d \in ToSet(change) : d.kind = "Alter" => Sparse(d, db)
                    /\ \A c \in Clients : job[c].at # "migrate"
  BY DEF FollowInv
<1>1. change \in Changes /\ job = [c \in Clients |-> NoJob]
  BY DEF Init
<1>2. ASSUME NEW d \in ToSet(change), d.kind = "Alter" PROVE Sparse(d, db)
  <2>1. PICK rows \in [{t.name : t \in Before(change)} -> UNION {Rows(t) : t \in Before(change)}] :
           /\ \A t \in Before(change) : rows[t.name] \in Rows(t)
           /\ db = [n \in {t.name : t \in Before(change)} |->
                       Table(CHOOSE t \in Before(change) : t.name = n, rows[n])]
    BY DEF Init
  <2> QED BY <1>1, <1>2, <2>1, StartingRows, SMTT(30)
<1>3. \A c \in Clients : job[c].at # "migrate"
  BY <1>1 DEF NoJob
<1> QED BY <1>2, <1>3

(* A job ends: those of the others follow as before. *)
LEMMA EndsFollow ==
    ASSUME GenInv, FollowInv, NEW c \in Clients, NEW r, End(c, r), UNCHANGED change,
           ~applied' => ~applied /\ db' = db
    PROVE  FollowInv'
<1>1. job' = [job EXCEPT ![c] = NoJob] /\ job = [k \in Clients |-> job[k]]
  BY DEF End, GenInv
<1>2. \A k \in Clients : job'[k] = IF k = c THEN NoJob ELSE job[k]
  BY <1>1
<1>3. NoJob.at # "migrate"
  BY DEF NoJob
<1> QED BY <1>2, <1>3 DEF FollowInv

LEMMA BeginsFollow ==
    ASSUME GenInv, FollowInv, Safe(change) => Steady(change), NEW c \in Clients,
           NEW at \in {"push", "migrate"}, NEW todo, Begin(c, at, todo),
           at = "migrate" => ~applied /\ todo = generate(change)
    PROVE  FollowInv'
<1> DEFINE j == [at |-> at, todo |-> todo, base |-> db, view |-> db]
<1>1. job' = [job EXCEPT ![c] = j] /\ UNCHANGED <<change, db, applied>>
  BY DEF Begin
<1>2. job = [k \in Clients |-> job[k]] /\ change \in Changes
  BY DEF GenInv
<1>3. j.at = at /\ j.todo = todo /\ j.base = db /\ j.view = db
  OBVIOUS
<1> HIDE DEF j
<1>4. \A k \in Clients : job'[k] = IF k = c THEN j ELSE job[k]
  BY <1>1, <1>2
<1>5. ASSUME Safe(change), at = "migrate" PROVE Following(change, j)
  <2>1. \A d \in ToSet(change) : d.kind = "Alter" => Sparse(d, db)
    BY <1>5 DEF FollowInv
  <2> QED BY <1>2, <1>3, <1>5, <2>1, FollowStart
<1> QED BY <1>1, <1>3, <1>4, <1>5 DEF FollowInv

LEMMA DefinesFollow ==
    ASSUME GenInv, FollowInv, NEW c \in Clients, DefineNext(c)
    PROVE  FollowInv'
<1> DEFINE s == Head(job[c].todo)
<1>1. job[c].at = "push" /\ job[c].todo # << >> /\ UNCHANGED <<change, applied>>
  BY DEF DefineNext
<1>2. CASE ~Accepted(db, s)
  BY <1>1, <1>2, EndsFollow DEF DefineNext
<1>3. CASE Accepted(db, s)
  <2> DEFINE j == [job[c] EXCEPT !.todo = Tail(job[c].todo)]
             w == Effect(db, db, s)
  <2>1. db' = w /\ job' = [job EXCEPT ![c] = j]
    BY <1>3 DEF DefineNext
  <2>2. /\ change \in Changes /\ CurrentDb(db) /\ job = [k \in Clients |-> job[k]]
        /\ PushInv(change, db, job[c]) /\ IsJob(job[c])
    BY <1>1 DEF GenInv, JobInv
  <2>3. j.at = "push"
    BY <1>1, <2>2, SMTT(30) DEF IsJob
  <2>4. s \in Statement /\ Pushing(change, s)
    <3>1. job[c].todo \in Seq(Statement) /\ \A x \in ToSet(job[c].todo) : Pushing(change, x)
      BY <2>2 DEF PushInv
    <3>2. s \in Statement /\ s \in ToSet(job[c].todo)
      BY <1>1, <3>1, TailFacts
    <3> QED BY <3>1, <3>2
  <2> HIDE DEF j, s
  <2>5. \A k \in Clients : job'[k] = IF k = c THEN j ELSE job[k]
    BY <2>1, <2>2
  <2>6. \A d : Sparse(d, db) => Sparse(d, w)
    BY <1>3, <2>2, <2>4, PushedRows
  <2> HIDE DEF w
  <2> QED BY <1>1, <2>1, <2>3, <2>5, <2>6 DEF FollowInv
<1> QED BY <1>2, <1>3

LEMMA RunsFollow ==
    ASSUME GenInv, FollowInv, Safe(change) => Steady(change), NEW c \in Clients, RunNext(c)
    PROVE  FollowInv'
<1> DEFINE s == Head(job[c].todo)
           v == Effect(job[c].base, job[c].view, s)
<1>1. job[c].at = "migrate" /\ job[c].todo # << >> /\ UNCHANGED <<change, db, applied>>
  BY DEF RunNext
<1>2. CASE ~Accepted(job[c].view, s)
  BY <1>1, <1>2, EndsFollow DEF RunNext
<1>3. CASE Accepted(job[c].view, s)
  <2> DEFINE j == Onward(job[c], Tail(job[c].todo), v)
  <2>1. /\ change \in Changes /\ job = [k \in Clients |-> job[k]]
        /\ MigrateInv(change, job[c]) /\ IsJob(job[c])
    BY <1>1 DEF GenInv, JobInv
  <2>2. job' = [job EXCEPT ![c] = j]
    BY <1>3, <2>1 DEF RunNext, IsJob, Onward
  <2>3. j.at = "migrate" /\ j.todo = Tail(job[c].todo) /\ j.base = job[c].base /\ j.view = v
    <3>1. IsJob(job[c]) /\ job[c].at = "migrate"
      BY <1>1, <2>1
    <3> HIDE DEF v
    <3> QED BY <3>1, JobStep
  <2>4. Accepted(job[c].view, Head(job[c].todo)) /\ v = Effect(job[c].base, job[c].view, Head(job[c].todo))
    BY <1>3
  <2> HIDE DEF j, v, s
  <2>5. \A k \in Clients : job'[k] = IF k = c THEN j ELSE job[k]
    BY <2>1, <2>2
  <2>6. ASSUME Safe(change) PROVE Following(change, j)
    <3>1. Following(change, job[c]) /\ Steady(change)
      BY <1>1, <2>6 DEF FollowInv
    <3> QED BY <1>1, <2>1, <2>3, <2>4, <2>6, <3>1, FollowStep
  <2> QED BY <1>1, <2>5, <2>6 DEF FollowInv
<1> QED BY <1>2, <1>3

LEMMA NextFollow ==
    ASSUME GenInv, FollowInv, Safe(change) => Steady(change), [Next]_vars
    PROVE  FollowInv'
<1>1. CASE UNCHANGED vars
  BY <1>1 DEF vars, FollowInv
<1>2. ASSUME NEW c \in Clients, PushSchema(c) PROVE FollowInv'
  BY <1>2, BeginsFollow DEF PushSchema
<1>3. ASSUME NEW c \in Clients, ApplyMigration(c) PROVE FollowInv'
  BY <1>3, BeginsFollow DEF ApplyMigration
<1>4. ASSUME NEW c \in Clients, Fail(c) PROVE FollowInv'
  BY <1>4, EndsFollow DEF Fail
<1>5. ASSUME NEW c \in Clients, DefineNext(c) PROVE FollowInv'
  BY <1>5, DefinesFollow
<1>6. ASSUME NEW c \in Clients, Pushed(c) PROVE FollowInv'
  BY <1>6, EndsFollow DEF Pushed
<1>7. ASSUME NEW c \in Clients, RunNext(c) PROVE FollowInv'
  BY <1>7, RunsFollow
<1>8. ASSUME NEW c \in Clients, Commit(c) PROVE FollowInv'
  <2>1. UNCHANGED change /\ \E r : End(c, r)
    BY <1>8 DEF Commit
  <2>2. ~applied' => ~applied /\ db' = db
    BY <1>8 DEF Commit
  <2> QED BY <2>1, <2>2, EndsFollow
<1> QED BY <1>1, <1>2, <1>3, <1>4, <1>5, <1>6, <1>7, <1>8 DEF Next, Push, Migrate

LEMMA CommittedRows ==
    ASSUME GenInv, FollowInv, Safe(change) => Steady(change), [Next]_vars, Migrated
    PROVE  RowsKept
<1>1. PICK c \in Clients : /\ db = job[c].base /\ db' = job[c].view
                           /\ job[c].todo = << >> /\ job[c].at = "migrate"
  BY MigratedBy
<1>2. change \in Changes /\ MigrateInv(change, job[c])
  BY <1>1 DEF GenInv, JobInv
<1>3. Safe(change)
  BY <1>1, <1>2, MigrateEnd
<1>4. Following(change, job[c]) /\ Steady(change)
  BY <1>1, <1>3 DEF FollowInv
<1>5. ToSet(job[c].todo) = {}
  BY <1>1 DEF ToSet
<1>6. SUFFICES ASSUME NEW d \in ToSet(change), d.kind = "Alter"
               PROVE  LET old == db[d.previous.name].rows  new == db'[d.next.name].rows
                      IN  DOMAIN old = DOMAIN new /\ \A id \in DOMAIN old : Kept(d, old[id], new[id])
  BY DEF RowsKept
<1> DEFINE old == db[d.previous.name].rows
           new == db'[d.next.name].rows
<1>7. Between(d, db, db', {})
  BY <1>1, <1>4, <1>5, <1>6 DEF Following
<1>8. d.previous.name = d.next.name
  BY <1>3, <1>6 DEF Safe, Unsafe
<1>9. DOMAIN new = DOMAIN old /\ \A id \in DOMAIN old : Underway(d, old[id], new[id], {})
  BY <1>7, <1>8 DEF Between
<1> HIDE DEF old, new
<1>10. ASSUME NEW id \in DOMAIN old PROVE Kept(d, old[id], new[id])
  BY <1>2, <1>3, <1>4, <1>6, <1>9, FollowEnd
<1> QED BY <1>9, <1>10 DEF old, new

(* RowsFollow, for changes whose columns move orderly: while a migration runs, the
   data of a field that is renamed is where it was until its UPDATE SET, and
   where it will be from then on; nothing that is still to run reads or empties
   what has been written, and nothing but the fields of the next schema is left
   when everything has been run (migration.rs:101-152).  Changes that trade the
   names of two columns are refuted by SwapKeepsData.                        *)
THEOREM RowsFollowed ==
    ASSUME \A diffs \in Changes : Safe(diffs) => Steady(diffs)
    PROVE  Spec => RowsFollow
<1>1. GenInv /\ [Next]_vars => (Safe(change) => Steady(change))
  BY DEF GenInv
<1>2. GenInv /\ FollowInv /\ [Next]_vars => FollowInv'
  BY <1>1, NextFollow
<1>3. GenInv /\ FollowInv /\ [Next]_vars => [Migrated => RowsKept]_vars
  BY <1>1, CommittedRows
<1> QED BY <1>2, <1>3, InitFollow, GenInvariance, PTL DEF Spec, RowsFollow
=============================================================================
