---------------------------- MODULE CombatProofs ----------------------------
(***************************************************************************)
(* Combat for every catalogue of skills and statuses that keeps to the     *)
(* assumptions of Combat, any line-ups and any number of turns: what the   *)
(* verdict says of the board, how long statuses last, and what they        *)
(* replace.                                                                *)
(*                                                                         *)
(* A queue, an action's targets and effects, the members of a team and     *)
(* the statuses of a fighter are all gone through by folds.  Each fold has *)
(* a lemma that what its step keeps to holds at the end (the second        *)
(* section); what the steps keep to are sets of boards: the fighters of    *)
(* Fighters(m, c, u, z), with m the line-up, c the fighter, u the turn and *)
(* z "play", or "cleanup" while the turn ends.  Their statuses are OnTime  *)
(* and Single, their slots Backed.                                         *)
(***************************************************************************)
EXTENDS Combat, NaturalsInduction, WellFoundedInduction, SequenceTheorems,
        FiniteSetTheorems, TLAPS

-----------------------------------------------------------------------------
(* Numbers: induction over a set, and extremes *)

LEMMA LeastNumber ==
    ASSUME NEW T \in SUBSET Nat, T # {}
    PROVE  \E x \in T : \A y \in T : x <= y
<1> DEFINE R == {ss \in Nat \X Nat : ss[1] < ss[2]}
<1>1. R = OpToRel(<, Nat)
  BY Zenon DEF OpToRel
<1>2. IsWellFoundedOn(R, Nat)
  BY <1>1, NatLessThanWellFounded, Zenon
<1>3. PICK x \in T : \A y \in T : ~(<<y, x>> \in R)
  BY <1>2, WFMin, Zenon
<1>4. ASSUME NEW y \in T, ~(x <= y) PROVE FALSE
  <2>1. <<y, x>> \in Nat \X Nat /\ y < x
    BY <1>4
  <2>2. <<y, x>> \in R
    BY <2>1
  <2>3. QED BY <1>3, <2>2
<1>5. QED BY <1>4

\* What holds at 0 and is passed on holds up to n.
LEMMA UpTo ==
    ASSUME NEW n \in Nat, NEW T, 0 \in T, \A k \in 1 .. n : k - 1 \in T => k \in T
    PROVE  \A k \in 0 .. n : k \in T
<1> DEFINE Bad == {k \in 0 .. n : k \notin T}
<1>1. SUFFICES ASSUME Bad # {} PROVE FALSE
  OBVIOUS
<1>2. PICK k \in Bad : \A j \in Bad : k <= j
  <2>1. Bad \in SUBSET Nat
    OBVIOUS
  <2> HIDE DEF Bad
  <2> QED BY <1>1, <2>1, LeastNumber
<1>3. k \in 1 .. n /\ k \notin T
  BY <1>2
<1>4. k - 1 \in 0 .. n /\ k - 1 \in T
  BY <1>2, <1>3
<1> QED BY <1>3, <1>4

LEMMA LargestOf ==
    ASSUME NEW s \in SUBSET Int, NEW m \in s, \A y \in s : m >= y
    PROVE  Max(s) = m
<1>1. \A x \in s : (\A y \in s : x >= y) => x = m
  OBVIOUS
<1> QED BY <1>1 DEF Max

LEMMA SmallestOf ==
    ASSUME NEW s \in SUBSET Int, NEW m \in s, \A y \in s : m <= y
    PROVE  Min(s) = m
<1>1. \A x \in s : (\A y \in s : x <= y) => x = m
  OBVIOUS
<1> QED BY <1>1 DEF Min

LEMMA MaxInside ==
    ASSUME NEW n \in Nat, NEW s \in SUBSET (1 .. n), s # {}
    PROVE  Max(s) \in s
<1> DEFINE T == {k \in Nat : k <= n /\ n - k \in s}
<1>1. PICK x \in s : TRUE
  OBVIOUS
<1>2. n - x \in T
  BY <1>1
<1>3. PICK k \in T : \A j \in T : k <= j
  <2>1. T \in SUBSET Nat /\ T # {}
    BY <1>2
  <2> HIDE DEF T
  <2> QED BY <2>1, LeastNumber
<1>4. n - k \in s /\ k \in Nat
  BY <1>3
<1>5. ASSUME NEW y \in s PROVE n - k >= y
  <2>1. n - y \in T /\ y \in Int
    OBVIOUS
  <2>2. k <= n - y
    BY <1>3, <2>1
  <2> HIDE DEF T
  <2> QED BY <1>4, <2>1, <2>2
<1>6. \E m \in s : \A y \in s : m >= y
  BY <1>4, <1>5
<1> QED BY <1>6 DEF Max

LEMMA MinInside ==
    ASSUME NEW s \in SUBSET Nat, s # {}
    PROVE  Min(s) \in s /\ \A y \in s : Min(s) <= y
BY LeastNumber DEF Min

LEMMA MinOfTwo ==
    ASSUME NEW a \in Int, NEW b \in Int
    PROVE  Min({a, b}) = IF a <= b THEN a ELSE b
<1>1. CASE a <= b
  BY <1>1, SmallestOf
<1>2. CASE ~(a <= b)
  BY <1>2, SmallestOf
<1> QED BY <1>1, <1>2

LEMMA MaxOfTwo ==
    ASSUME NEW a \in Int, NEW b \in Int
    PROVE  Max({a, b}) = IF a >= b THEN a ELSE b
<1>1. CASE a >= b
  BY <1>1, LargestOf
<1>2. CASE ~(a >= b)
  BY <1>2, LargestOf
<1> QED BY <1>1, <1>2

-----------------------------------------------------------------------------
(* Folds.  A fold over a sequence is a table over the sets of its indices,  *)
(* each entry in a set of its own; along the prefixes 1 .. k it takes one   *)
(* step for each element.                                                   *)

IsTable(g, V, F, b, k) ==
    /\ g = [s \in SUBSET (1 .. k) |-> g[s]]
    /\ \A s \in SUBSET (1 .. k) : g[s] \in V[s]
    /\ \A s \in SUBSET (1 .. k) : g[s] = IF s = {} THEN b ELSE F[<<g[s \ {Max(s)}], Max(s)>>]

LEMMA FoldTable ==
    ASSUME NEW n \in Nat, NEW V, NEW F, NEW b \in V[{}],
           \A s \in SUBSET (1 .. n), i \in 1 .. n :
              i \notin s => \A v \in V[s] : F[<<v, i>>] \in V[s \cup {i}]
    PROVE  \E g : IsTable(g, V, F, b, n)
<1> DEFINE T == {k \in 0 .. n : \E g : IsTable(g, V, F, b, k)}
<1>1. 0 \in T
  <2> DEFINE g == [s \in SUBSET (1 .. 0) |-> b]
  <2>1. \A s \in SUBSET (1 .. 0) : s = {}
    OBVIOUS
  <2>2. IsTable(g, V, F, b, 0)
    BY <2>1 DEF IsTable
  <2> HIDE DEF g
  <2> QED BY <2>2
<1>2. ASSUME NEW k \in 1 .. n, k - 1 \in T PROVE k \in T
  <2>1. PICK g : IsTable(g, V, F, b, k - 1)
    BY <1>2
  <2> DEFINE h == [s \in SUBSET (1 .. k) |-> IF k \in s THEN F[<<g[s \ {k}], k>>] ELSE g[s]]
  <2>2. \A s \in SUBSET (1 .. k) : s \ {k} \in SUBSET (1 .. k - 1)
    OBVIOUS
  <2>3. \A s \in SUBSET (1 .. k) : k \notin s => s \in SUBSET (1 .. k - 1)
    OBVIOUS
  <2>4. ASSUME NEW s \in SUBSET (1 .. k) PROVE h[s] \in V[s]
    <3>1. CASE k \in s
      <4>1. g[s \ {k}] \in V[s \ {k}]
        BY <2>1, <2>2 DEF IsTable
      <4>2. s \ {k} \in SUBSET (1 .. n) /\ k \notin s \ {k} /\ (s \ {k}) \cup {k} = s
        BY <3>1
      <4>3. F[<<g[s \ {k}], k>>] \in V[s]
        BY <4>1, <4>2
      <4> QED BY <3>1, <4>3
    <3>2. CASE k \notin s
      BY <2>1, <2>3, <3>2 DEF IsTable
    <3> QED BY <3>1, <3>2
  <2>5. ASSUME NEW s \in SUBSET (1 .. k), s # {}
        PROVE  h[s] = F[<<h[s \ {Max(s)}], Max(s)>>]
    <3>1. CASE k \in s
      <4>1. Max(s) = k
        BY <3>1, LargestOf
      <4>2. h[s \ {k}] = g[s \ {k}]
        BY <2>2
      <4> QED BY <3>1, <4>1, <4>2
    <3>2. CASE k \notin s
      <4>1. Max(s) \in s
        <5>1. k \in Nat
          OBVIOUS
        <5> QED BY <2>5, <5>1, MaxInside
      <4>2. h[s] = g[s] /\ h[s \ {Max(s)}] = g[s \ {Max(s)}]
        BY <2>3, <3>2
      <4> QED BY <2>1, <2>3, <2>5, <3>2, <4>2 DEF IsTable
    <3> QED BY <3>1, <3>2
  <2>6. h[{}] = b
    BY <2>1 DEF IsTable
  <2>7. h = [s \in SUBSET (1 .. k) |-> h[s]]
    OBVIOUS
  <2> HIDE DEF h
  <2>8. IsTable(h, V, F, b, k)
    BY <2>4, <2>5, <2>6, <2>7 DEF IsTable
  <2> QED BY <2>8
<1>3. n \in T
  <2>1. n \in 0 .. n
    OBVIOUS
  <2> HIDE DEF T
  <2> QED BY <1>1, <1>2, <2>1, UpTo
<1> QED BY <1>3

LEMMA Prefix ==
    ASSUME NEW k \in Nat, k # 0
    PROVE  /\ Max(1 .. k) = k /\ (1 .. k) \ {k} = 1 .. (k - 1) /\ 1 .. k # {}
<1>1. k \in 1 .. k /\ \A y \in 1 .. k : k >= y
  OBVIOUS
<1>2. Max(1 .. k) = k
  <2>1. 1 .. k \in SUBSET Int
    OBVIOUS
  <2> QED BY <1>1, <2>1, LargestOf, Zenon
<1> QED BY <1>1, <1>2

\* Whatever satisfies the equation of the table along the prefixes is in the
\* sets of the prefixes.
LEMMA FoldRun ==
    ASSUME NEW n \in Nat, NEW V, NEW f, f[1 .. 0] \in V[1 .. 0],
           \A k \in 1 .. n : f[1 .. (k - 1)] \in V[1 .. (k - 1)] => f[1 .. k] \in V[1 .. k]
    PROVE  \A k \in 0 .. n : f[1 .. k] \in V[1 .. k]
<1> DEFINE T == {k \in 0 .. n : f[1 .. k] \in V[1 .. k]}
<1>1. 0 \in T
  OBVIOUS
<1>2. ASSUME NEW k \in 1 .. n, k - 1 \in T PROVE k \in T
  <2>1. k \in 0 .. n
    OBVIOUS
  <2> QED BY <1>2, <2>1
<1>3. \A k \in 0 .. n : k \in T
  <2> HIDE DEF T
  <2> QED BY <1>1, <1>2, UpTo
<1> QED BY <1>3

-----------------------------------------------------------------------------
(* The folds of Combat: what every step keeps to, the fold ends in.         *)

\* Only: the elements are looked at one after the other.
LEMMA OnlySteps ==
    ASSUME NEW S, NEW ss \in Seq(S), NEW T,
           NEW V, <<>> \in V, \A v \in V, i \in DOMAIN ss : Kept(v, ss[i], T) \in V
    PROVE  \E acc : /\ acc[0] = <<>> /\ acc[Len(ss)] = Only(ss, T)
                    /\ \A k \in 0 .. Len(ss) : acc[k] \in V
                    /\ \A k \in 1 .. Len(ss) : acc[k] = Kept(acc[k - 1], ss[k], T)
<1> DEFINE n == Len(ss)
           VV == [u \in SUBSET (1 .. n) |-> V]
           F == [r \in V \X (1 .. n) |-> Kept(r[1], ss[r[2]], T)]
           Eq(g) == g = [u \in SUBSET (1 .. n) |->
                           IF u = {} THEN <<>> ELSE Kept(g[u \ {Max(u)}], ss[Max(u)], T)]
<1>1. n \in Nat /\ DOMAIN ss = 1 .. n
  OBVIOUS
<1>2. \A u \in SUBSET (1 .. n), i \in 1 .. n :
         i \notin u => \A v \in VV[u] : F[<<v, i>>] = Kept(v, ss[i], T) /\ F[<<v, i>>] \in VV[u \cup {i}]
  BY <1>1
<1>3. <<>> \in VV[{}]
  BY <1>1
<1>4. PICK g : IsTable(g, VV, F, <<>>, n)
  <2> HIDE DEF F, VV, n
  <2> QED BY <1>1, <1>2, <1>3, FoldTable
<1>5. Eq(g)
  <2>1. ASSUME NEW u \in SUBSET (1 .. n), u # {}
        PROVE  F[<<g[u \ {Max(u)}], Max(u)>>] = Kept(g[u \ {Max(u)}], ss[Max(u)], T)
    <3>1. Max(u) \in u /\ Max(u) \in 1 .. n
      BY <1>1, <2>1, MaxInside
    <3>2. g[u \ {Max(u)}] \in VV[u \ {Max(u)}] /\ u \ {Max(u)} \in SUBSET (1 .. n) /\ Max(u) \notin u \ {Max(u)}
      BY <1>4 DEF IsTable
    <3> HIDE DEF F, VV, n
    <3>3. \A v \in VV[u \ {Max(u)}] : F[<<v, Max(u)>>] = Kept(v, ss[Max(u)], T)
      BY <1>2, <3>1, <3>2
    <3> QED BY <3>2, <3>3
  <2> HIDE DEF F, VV, n
  <2> QED BY <1>4, <2>1 DEF IsTable
<1>6. Only(ss, T) = (CHOOSE f : Eq(f))[1 .. n]
  BY <1>1 DEF FoldLeft, MapThenFoldSet, Only
<1>7. PICK f : Eq(f) /\ Only(ss, T) = f[1 .. n]
  BY <1>5, <1>6
<1>8. f[1 .. 0] = <<>> /\ 1 .. 0 = {}
  <2>1. 1 .. 0 = {} /\ 1 .. 0 \in SUBSET (1 .. n)
    BY <1>1
  <2> HIDE DEF n
  <2> QED BY <1>7, <2>1
<1>9. ASSUME NEW k \in 1 .. n PROVE f[1 .. k] = Kept(f[1 .. (k - 1)], ss[k], T)
  <2>1. 1 .. k \in SUBSET (1 .. n) /\ k \in Nat /\ k # 0
    BY <1>1
  <2>2. Max(1 .. k) = k /\ (1 .. k) \ {k} = 1 .. (k - 1) /\ 1 .. k # {}
    BY <2>1, Prefix
  <2> HIDE DEF n, F, VV
  <2> QED BY <1>7, <2>1, <2>2
<1> HIDE DEF Eq
<1>10. \A k \in 0 .. n : f[1 .. k] \in VV[1 .. k]
  <2>1. ASSUME NEW k \in 1 .. n, f[1 .. (k - 1)] \in VV[1 .. (k - 1)] PROVE f[1 .. k] \in VV[1 .. k]
    <3>1. 1 .. (k - 1) \in SUBSET (1 .. n) /\ k \notin 1 .. (k - 1) /\ (1 .. (k - 1)) \cup {k} = 1 .. k
      BY <1>1
    <3> HIDE DEF F, VV, n
    <3>2. /\ F[<<f[1 .. (k - 1)], k>>] = Kept(f[1 .. (k - 1)], ss[k], T)
          /\ F[<<f[1 .. (k - 1)], k>>] \in VV[(1 .. (k - 1)) \cup {k}]
      BY <1>2, <2>1, <3>1
    <3>3. f[1 .. k] = Kept(f[1 .. (k - 1)], ss[k], T)
      BY <1>9
    <3> QED BY <3>1, <3>2, <3>3
  <2>2. f[1 .. 0] \in VV[1 .. 0]
    BY <1>3, <1>8
  <2> HIDE DEF F, VV, n
  <2> QED BY <1>1, <2>1, <2>2, FoldRun
<1> DEFINE acc == [k \in 0 .. n |-> f[1 .. k]]
<1>11. acc[0] = <<>> /\ acc[n] = Only(ss, T)
  BY <1>1, <1>7, <1>8
<1>12. \A k \in 0 .. n : acc[k] \in VV[1 .. k]
  BY <1>10
<1>13. \A k \in 1 .. n : acc[k] = Kept(acc[k - 1], ss[k], T)
  <2>1. ASSUME NEW k \in 1 .. n PROVE acc[k] = f[1 .. k] /\ acc[k - 1] = f[1 .. (k - 1)]
    BY <1>1
  <2> HIDE DEF acc, n, F, VV
  <2> QED BY <1>9, <2>1
<1>14. \A k \in 0 .. n : VV[1 .. k] = V
  BY <1>1
<1> HIDE DEF acc, F, VV
<1> QED BY <1>11, <1>12, <1>13, <1>14

\* Total: a sum over the statuses in force.
LEMMA TotalStays ==
    ASSUME NEW S, NEW c, InForce(c) \in Seq(S), NEW field,
           NEW V, 0 \in V, \A v \in V, i \in DOMAIN InForce(c) : v + Kind[InForce(c)[i].id][field] \in V
    PROVE  Total(c, field) \in V
<1> DEFINE n == Len(InForce(c))
           VV == [u \in SUBSET (1 .. n) |-> V]
           F == [r \in V \X (1 .. n) |-> r[1] + Kind[InForce(c)[r[2]].id][field]]
           Eq(g) == g = [u \in SUBSET (1 .. n) |->
                           IF u = {} THEN 0 ELSE g[u \ {Max(u)}] + Kind[InForce(c)[Max(u)].id][field]]
<1>1. n \in Nat /\ DOMAIN InForce(c) = 1 .. n
  OBVIOUS
<1>2. \A u \in SUBSET (1 .. n), i \in 1 .. n :
         i \notin u => \A v \in VV[u] : F[<<v, i>>] = v + Kind[InForce(c)[i].id][field] /\ F[<<v, i>>] \in VV[u \cup {i}]
  BY <1>1
<1>3. 0 \in VV[{}]
  BY <1>1
<1>4. PICK g : IsTable(g, VV, F, 0, n)
  <2> HIDE DEF F, VV, n
  <2> QED BY <1>1, <1>2, <1>3, FoldTable
<1>5. Eq(g)
  <2>1. ASSUME NEW u \in SUBSET (1 .. n), u # {}
        PROVE  F[<<g[u \ {Max(u)}], Max(u)>>] = g[u \ {Max(u)}] + Kind[InForce(c)[Max(u)].id][field]
    <3>1. Max(u) \in u /\ Max(u) \in 1 .. n
      BY <1>1, <2>1, MaxInside
    <3>2. g[u \ {Max(u)}] \in VV[u \ {Max(u)}] /\ u \ {Max(u)} \in SUBSET (1 .. n) /\ Max(u) \notin u \ {Max(u)}
      BY <1>4 DEF IsTable
    <3> HIDE DEF F, VV, n
    <3>3. \A v \in VV[u \ {Max(u)}] : F[<<v, Max(u)>>] = v + Kind[InForce(c)[Max(u)].id][field]
      BY <1>2, <3>1, <3>2
    <3> QED BY <3>2, <3>3
  <2> HIDE DEF F, VV, n
  <2> QED BY <1>4, <2>1 DEF IsTable
<1>6. Total(c, field) = (CHOOSE f : Eq(f))[1 .. n]
  BY <1>1 DEF FoldLeft, MapThenFoldSet, Total
<1>7. PICK f : Eq(f) /\ Total(c, field) = f[1 .. n]
  BY <1>5, <1>6
<1>8. f[1 .. 0] = 0 /\ 1 .. 0 = {}
  <2>1. 1 .. 0 = {} /\ 1 .. 0 \in SUBSET (1 .. n)
    BY <1>1
  <2> HIDE DEF n
  <2> QED BY <1>7, <2>1
<1>9. ASSUME NEW k \in 1 .. n PROVE f[1 .. k] = f[1 .. (k - 1)] + Kind[InForce(c)[k].id][field]
  <2>1. 1 .. k \in SUBSET (1 .. n) /\ k \in Nat /\ k # 0
    BY <1>1
  <2>2. Max(1 .. k) = k /\ (1 .. k) \ {k} = 1 .. (k - 1) /\ 1 .. k # {}
    BY <2>1, Prefix
  <2> HIDE DEF n, F, VV
  <2> QED BY <1>7, <2>1, <2>2
<1> HIDE DEF Eq
<1>10. \A k \in 0 .. n : f[1 .. k] \in VV[1 .. k]
  <2>1. ASSUME NEW k \in 1 .. n, f[1 .. (k - 1)] \in VV[1 .. (k - 1)] PROVE f[1 .. k] \in VV[1 .. k]
    <3>1. 1 .. (k - 1) \in SUBSET (1 .. n) /\ k \notin 1 .. (k - 1) /\ (1 .. (k - 1)) \cup {k} = 1 .. k
      BY <1>1
    <3> HIDE DEF F, VV, n
    <3>2. /\ F[<<f[1 .. (k - 1)], k>>] = f[1 .. (k - 1)] + Kind[InForce(c)[k].id][field]
          /\ F[<<f[1 .. (k - 1)], k>>] \in VV[(1 .. (k - 1)) \cup {k}]
      BY <1>2, <2>1, <3>1
    <3>3. f[1 .. k] = f[1 .. (k - 1)] + Kind[InForce(c)[k].id][field]
      BY <1>9
    <3> QED BY <3>1, <3>2, <3>3
  <2>2. f[1 .. 0] \in VV[1 .. 0]
    BY <1>3, <1>8
  <2> HIDE DEF F, VV, n
  <2> QED BY <1>1, <2>1, <2>2, FoldRun
<1>11. Total(c, field) \in VV[1 .. n]
  <2>1. n \in 0 .. n
    BY <1>1
  <2> HIDE DEF F, VV, n
  <2> QED BY <1>7, <1>10, <2>1
<1> QED BY <1>1, <1>11

\* Shield: the defenses in force.
LEMMA ShieldStays ==
    ASSUME NEW S, NEW c, InForce(c) \in Seq(S),
           NEW V, 0 \in V, \A v \in V, i \in DOMAIN InForce(c) : v + InForce(c)[i].defense \in V
    PROVE  Shield(c) \in V
<1> DEFINE n == Len(InForce(c))
           VV == [u \in SUBSET (1 .. n) |-> V]
           F == [r \in V \X (1 .. n) |-> r[1] + InForce(c)[r[2]].defense]
           Eq(g) == g = [u \in SUBSET (1 .. n) |->
                           IF u = {} THEN 0 ELSE g[u \ {Max(u)}] + InForce(c)[Max(u)].defense]
<1>1. n \in Nat /\ DOMAIN InForce(c) = 1 .. n
  OBVIOUS
<1>2. \A u \in SUBSET (1 .. n), i \in 1 .. n :
         i \notin u => \A v \in VV[u] : F[<<v, i>>] = v + InForce(c)[i].defense /\ F[<<v, i>>] \in VV[u \cup {i}]
  BY <1>1
<1>3. 0 \in VV[{}]
  BY <1>1
<1>4. PICK g : IsTable(g, VV, F, 0, n)
  <2> HIDE DEF F, VV, n
  <2> QED BY <1>1, <1>2, <1>3, FoldTable
<1>5. Eq(g)
  <2>1. ASSUME NEW u \in SUBSET (1 .. n), u # {}
        PROVE  F[<<g[u \ {Max(u)}], Max(u)>>] = g[u \ {Max(u)}] + InForce(c)[Max(u)].defense
    <3>1. Max(u) \in u /\ Max(u) \in 1 .. n
      BY <1>1, <2>1, MaxInside
    <3>2. g[u \ {Max(u)}] \in VV[u \ {Max(u)}] /\ u \ {Max(u)} \in SUBSET (1 .. n) /\ Max(u) \notin u \ {Max(u)}
      BY <1>4 DEF IsTable
    <3> HIDE DEF F, VV, n
    <3>3. \A v \in VV[u \ {Max(u)}] : F[<<v, Max(u)>>] = v + InForce(c)[Max(u)].defense
      BY <1>2, <3>1, <3>2
    <3> QED BY <3>2, <3>3
  <2> HIDE DEF F, VV, n
  <2> QED BY <1>4, <2>1 DEF IsTable
<1>6. Shield(c) = (CHOOSE f : Eq(f))[1 .. n]
  BY <1>1 DEF FoldLeft, MapThenFoldSet, Shield
<1>7. PICK f : Eq(f) /\ Shield(c) = f[1 .. n]
  BY <1>5, <1>6
<1>8. f[1 .. 0] = 0 /\ 1 .. 0 = {}
  <2>1. 1 .. 0 = {} /\ 1 .. 0 \in SUBSET (1 .. n)
    BY <1>1
  <2> HIDE DEF n
  <2> QED BY <1>7, <2>1
<1>9. ASSUME NEW k \in 1 .. n PROVE f[1 .. k] = f[1 .. (k - 1)] + InForce(c)[k].defense
  <2>1. 1 .. k \in SUBSET (1 .. n) /\ k \in Nat /\ k # 0
    BY <1>1
  <2>2. Max(1 .. k) = k /\ (1 .. k) \ {k} = 1 .. (k - 1) /\ 1 .. k # {}
    BY <2>1, Prefix
  <2> HIDE DEF n, F, VV
  <2> QED BY <1>7, <2>1, <2>2
<1> HIDE DEF Eq
<1>10. \A k \in 0 .. n : f[1 .. k] \in VV[1 .. k]
  <2>1. ASSUME NEW k \in 1 .. n, f[1 .. (k - 1)] \in VV[1 .. (k - 1)] PROVE f[1 .. k] \in VV[1 .. k]
    <3>1. 1 .. (k - 1) \in SUBSET (1 .. n) /\ k \notin 1 .. (k - 1) /\ (1 .. (k - 1)) \cup {k} = 1 .. k
      BY <1>1
    <3> HIDE DEF F, VV, n
    <3>2. /\ F[<<f[1 .. (k - 1)], k>>] = f[1 .. (k - 1)] + InForce(c)[k].defense
          /\ F[<<f[1 .. (k - 1)], k>>] \in VV[(1 .. (k - 1)) \cup {k}]
      BY <1>2, <2>1, <3>1
    <3>3. f[1 .. k] = f[1 .. (k - 1)] + InForce(c)[k].defense
      BY <1>9
    <3> QED BY <3>1, <3>2, <3>3
  <2>2. f[1 .. 0] \in VV[1 .. 0]
    BY <1>3, <1>8
  <2> HIDE DEF F, VV, n
  <2> QED BY <1>1, <2>1, <2>2, FoldRun
<1>11. Shield(c) \in VV[1 .. n]
  <2>1. n \in 0 .. n
    BY <1>1
  <2> HIDE DEF F, VV, n
  <2> QED BY <1>7, <1>10, <2>1
<1> QED BY <1>1, <1>11

\* TakenBack: one status after the other gives its slots back.
LEMMA TakenBackSteps ==
    ASSUME NEW S, NEW ss \in Seq(S), NEW c,
           NEW V, c \in V, \A v \in V, i \in DOMAIN ss : Unswapped(v, ss[i]) \in V
    PROVE  \E acc : /\ acc[0] = c /\ acc[Len(ss)] = TakenBack(c, ss)
                    /\ \A k \in 0 .. Len(ss) : acc[k] \in V
                    /\ \A k \in 1 .. Len(ss) : acc[k] = Unswapped(acc[k - 1], ss[k])
<1> DEFINE n == Len(ss)
           VV == [u \in SUBSET (1 .. n) |-> V]
           F == [r \in V \X (1 .. n) |-> Unswapped(r[1], ss[r[2]])]
           Eq(g) == g = [u \in SUBSET (1 .. n) |->
                           IF u = {} THEN c ELSE Unswapped(g[u \ {Max(u)}], ss[Max(u)])]
<1>1. n \in Nat /\ DOMAIN ss = 1 .. n
  OBVIOUS
<1>2. \A u \in SUBSET (1 .. n), i \in 1 .. n :
         i \notin u => \A v \in VV[u] : F[<<v, i>>] = Unswapped(v, ss[i]) /\ F[<<v, i>>] \in VV[u \cup {i}]
  BY <1>1
<1>3. c \in VV[{}]
  BY <1>1
<1>4. PICK g : IsTable(g, VV, F, c, n)
  <2> HIDE DEF F, VV, n
  <2> QED BY <1>1, <1>2, <1>3, FoldTable
<1>5. Eq(g)
  <2>1. ASSUME NEW u \in SUBSET (1 .. n), u # {}
        PROVE  F[<<g[u \ {Max(u)}], Max(u)>>] = Unswapped(g[u \ {Max(u)}], ss[Max(u)])
    <3>1. Max(u) \in u /\ Max(u) \in 1 .. n
      BY <1>1, <2>1, MaxInside
    <3>2. g[u \ {Max(u)}] \in VV[u \ {Max(u)}] /\ u \ {Max(u)} \in SUBSET (1 .. n) /\ Max(u) \notin u \ {Max(u)}
      BY <1>4 DEF IsTable
    <3> HIDE DEF F, VV, n
    <3>3. \A v \in VV[u \ {Max(u)}] : F[<<v, Max(u)>>] = Unswapped(v, ss[Max(u)])
      BY <1>2, <3>1, <3>2
    <3> QED BY <3>2, <3>3
  <2> HIDE DEF F, VV, n
  <2> QED BY <1>4, <2>1 DEF IsTable
<1>6. TakenBack(c, ss) = (CHOOSE f : Eq(f))[1 .. n]
  BY <1>1 DEF FoldLeft, MapThenFoldSet, TakenBack
<1>7. PICK f : Eq(f) /\ TakenBack(c, ss) = f[1 .. n]
  BY <1>5, <1>6
<1>8. f[1 .. 0] = c /\ 1 .. 0 = {}
  <2>1. 1 .. 0 = {} /\ 1 .. 0 \in SUBSET (1 .. n)
    BY <1>1
  <2> HIDE DEF n
  <2> QED BY <1>7, <2>1
<1>9. ASSUME NEW k \in 1 .. n PROVE f[1 .. k] = Unswapped(f[1 .. (k - 1)], ss[k])
  <2>1. 1 .. k \in SUBSET (1 .. n) /\ k \in Nat /\ k # 0
    BY <1>1
  <2>2. Max(1 .. k) = k /\ (1 .. k) \ {k} = 1 .. (k - 1) /\ 1 .. k # {}
    BY <2>1, Prefix
  <2> HIDE DEF n, F, VV
  <2> QED BY <1>7, <2>1, <2>2
<1> HIDE DEF Eq
<1>10. \A k \in 0 .. n : f[1 .. k] \in VV[1 .. k]
  <2>1. ASSUME NEW k \in 1 .. n, f[1 .. (k - 1)] \in VV[1 .. (k - 1)] PROVE f[1 .. k] \in VV[1 .. k]
    <3>1. 1 .. (k - 1) \in SUBSET (1 .. n) /\ k \notin 1 .. (k - 1) /\ (1 .. (k - 1)) \cup {k} = 1 .. k
      BY <1>1
    <3> HIDE DEF F, VV, n
    <3>2. /\ F[<<f[1 .. (k - 1)], k>>] = Unswapped(f[1 .. (k - 1)], ss[k])
          /\ F[<<f[1 .. (k - 1)], k>>] \in VV[(1 .. (k - 1)) \cup {k}]
      BY <1>2, <2>1, <3>1
    <3>3. f[1 .. k] = Unswapped(f[1 .. (k - 1)], ss[k])
      BY <1>9
    <3> QED BY <3>1, <3>2, <3>3
  <2>2. f[1 .. 0] \in VV[1 .. 0]
    BY <1>3, <1>8
  <2> HIDE DEF F, VV, n
  <2> QED BY <1>1, <2>1, <2>2, FoldRun
<1> DEFINE acc == [k \in 0 .. n |-> f[1 .. k]]
<1>11. acc[0] = c /\ acc[n] = TakenBack(c, ss)
  BY <1>1, <1>7, <1>8
<1>12. \A k \in 0 .. n : acc[k] \in VV[1 .. k]
  BY <1>10
<1>13. \A k \in 1 .. n : acc[k] = Unswapped(acc[k - 1], ss[k])
  <2>1. ASSUME NEW k \in 1 .. n PROVE acc[k] = f[1 .. k] /\ acc[k - 1] = f[1 .. (k - 1)]
    BY <1>1
  <2> HIDE DEF acc, n, F, VV
  <2> QED BY <1>9, <2>1
<1>14. \A k \in 0 .. n : VV[1 .. k] = V
  BY <1>1
<1> HIDE DEF acc, F, VV
<1> QED BY <1>11, <1>12, <1>13, <1>14

\* Wear: each status bears what the ones before it left.
LEMMA WearSteps ==
    ASSUME NEW S, NEW ss \in Seq(S), NEW d,
           NEW V, [n |-> d, out |-> <<>>] \in V, \A v \in V, i \in DOMAIN ss : Bears(v, ss[i]) \in V
    PROVE  \E acc : /\ acc[0] = [n |-> d, out |-> <<>>] /\ acc[Len(ss)] = Wear(ss, d)
                    /\ \A k \in 0 .. Len(ss) : acc[k] \in V
                    /\ \A k \in 1 .. Len(ss) : acc[k] = Bears(acc[k - 1], ss[k])
<1> DEFINE n == Len(ss)
           VV == [u \in SUBSET (1 .. n) |-> V]
           F == [r \in V \X (1 .. n) |-> Bears(r[1], ss[r[2]])]
           Eq(g) == g = [u \in SUBSET (1 .. n) |->
                           IF u = {} THEN [n |-> d, out |-> <<>>] ELSE Bears(g[u \ {Max(u)}], ss[Max(u)])]
<1>1. n \in Nat /\ DOMAIN ss = 1 .. n
  OBVIOUS
<1>2. \A u \in SUBSET (1 .. n), i \in 1 .. n :
         i \notin u => \A v \in VV[u] : F[<<v, i>>] = Bears(v, ss[i]) /\ F[<<v, i>>] \in VV[u \cup {i}]
  BY <1>1
<1>3. [n |-> d, out |-> <<>>] \in VV[{}]
  BY <1>1
<1>4. PICK g : IsTable(g, VV, F, [n |-> d, out |-> <<>>], n)
  <2> HIDE DEF F, VV, n
  <2> QED BY <1>1, <1>2, <1>3, FoldTable
<1>5. Eq(g)
  <2>1. ASSUME NEW u \in SUBSET (1 .. n), u # {}
        PROVE  F[<<g[u \ {Max(u)}], Max(u)>>] = Bears(g[u \ {Max(u)}], ss[Max(u)])
    <3>1. Max(u) \in u /\ Max(u) \in 1 .. n
      BY <1>1, <2>1, MaxInside
    <3>2. g[u \ {Max(u)}] \in VV[u \ {Max(u)}] /\ u \ {Max(u)} \in SUBSET (1 .. n) /\ Max(u) \notin u \ {Max(u)}
      BY <1>4 DEF IsTable
    <3> HIDE DEF F, VV, n
    <3>3. \A v \in VV[u \ {Max(u)}] : F[<<v, Max(u)>>] = Bears(v, ss[Max(u)])
      BY <1>2, <3>1, <3>2
    <3> QED BY <3>2, <3>3
  <2> HIDE DEF F, VV, n
  <2> QED BY <1>4, <2>1 DEF IsTable
<1>6. Wear(ss, d) = (CHOOSE f : Eq(f))[1 .. n]
  BY <1>1 DEF FoldLeft, MapThenFoldSet, Wear
<1>7. PICK f : Eq(f) /\ Wear(ss, d) = f[1 .. n]
  BY <1>5, <1>6
<1>8. f[1 .. 0] = [n |-> d, out |-> <<>>] /\ 1 .. 0 = {}
  <2>1. 1 .. 0 = {} /\ 1 .. 0 \in SUBSET (1 .. n)
    BY <1>1
  <2> HIDE DEF n
  <2> QED BY <1>7, <2>1
<1>9. ASSUME NEW k \in 1 .. n PROVE f[1 .. k] = Bears(f[1 .. (k - 1)], ss[k])
  <2>1. 1 .. k \in SUBSET (1 .. n) /\ k \in Nat /\ k # 0
    BY <1>1
  <2>2. Max(1 .. k) = k /\ (1 .. k) \ {k} = 1 .. (k - 1) /\ 1 .. k # {}
    BY <2>1, Prefix
  <2> HIDE DEF n, F, VV
  <2> QED BY <1>7, <2>1, <2>2
<1> HIDE DEF Eq
<1>10. \A k \in 0 .. n : f[1 .. k] \in VV[1 .. k]
  <2>1. ASSUME NEW k \in 1 .. n, f[1 .. (k - 1)] \in VV[1 .. (k - 1)] PROVE f[1 .. k] \in VV[1 .. k]
    <3>1. 1 .. (k - 1) \in SUBSET (1 .. n) /\ k \notin 1 .. (k - 1) /\ (1 .. (k - 1)) \cup {k} = 1 .. k
      BY <1>1
    <3> HIDE DEF F, VV, n
    <3>2. /\ F[<<f[1 .. (k - 1)], k>>] = Bears(f[1 .. (k - 1)], ss[k])
          /\ F[<<f[1 .. (k - 1)], k>>] \in VV[(1 .. (k - 1)) \cup {k}]
      BY <1>2, <2>1, <3>1
    <3>3. f[1 .. k] = Bears(f[1 .. (k - 1)], ss[k])
      BY <1>9
    <3> QED BY <3>1, <3>2, <3>3
  <2>2. f[1 .. 0] \in VV[1 .. 0]
    BY <1>3, <1>8
  <2> HIDE DEF F, VV, n
  <2> QED BY <1>1, <2>1, <2>2, FoldRun
<1> DEFINE acc == [k \in 0 .. n |-> f[1 .. k]]
<1>11. acc[0] = [n |-> d, out |-> <<>>] /\ acc[n] = Wear(ss, d)
  BY <1>1, <1>7, <1>8
<1>12. \A k \in 0 .. n : acc[k] \in VV[1 .. k]
  BY <1>10
<1>13. \A k \in 1 .. n : acc[k] = Bears(acc[k - 1], ss[k])
  <2>1. ASSUME NEW k \in 1 .. n PROVE acc[k] = f[1 .. k] /\ acc[k - 1] = f[1 .. (k - 1)]
    BY <1>1
  <2> HIDE DEF acc, n, F, VV
  <2> QED BY <1>9, <2>1
<1>14. \A k \in 0 .. n : VV[1 .. k] = V
  BY <1>1
<1> HIDE DEF acc, F, VV
<1> QED BY <1>11, <1>12, <1>13, <1>14

\* QueuePrice: the prices of the actions.
LEMMA PriceStays ==
    ASSUME NEW S, NEW q \in Seq(S), NEW b,
           NEW V, 0 \in V, \A v \in V, i \in DOMAIN q : v + Price(b.team[q[i].by], Skill[SkillOf(b, q[i])]) \in V
    PROVE  QueuePrice(b, q) \in V
<1> DEFINE n == Len(q)
           VV == [u \in SUBSET (1 .. n) |-> V]
           F == [r \in V \X (1 .. n) |-> r[1] + Price(b.team[q[r[2]].by], Skill[SkillOf(b, q[r[2]])])]
           Eq(g) == g = [u \in SUBSET (1 .. n) |->
                           IF u = {} THEN 0 ELSE g[u \ {Max(u)}] + Price(b.team[q[Max(u)].by], Skill[SkillOf(b, q[Max(u)])])]
<1>1. n \in Nat /\ DOMAIN q = 1 .. n
  OBVIOUS
<1>2. \A u \in SUBSET (1 .. n), i \in 1 .. n :
         i \notin u => \A v \in VV[u] : F[<<v, i>>] = v + Price(b.team[q[i].by], Skill[SkillOf(b, q[i])]) /\ F[<<v, i>>] \in VV[u \cup {i}]
  BY <1>1
<1>3. 0 \in VV[{}]
  BY <1>1
<1>4. PICK g : IsTable(g, VV, F, 0, n)
  <2> HIDE DEF F, VV, n
  <2> QED BY <1>1, <1>2, <1>3, FoldTable
<1>5. Eq(g)
  <2>1. ASSUME NEW u \in SUBSET (1 .. n), u # {}
        PROVE  F[<<g[u \ {Max(u)}], Max(u)>>] = g[u \ {Max(u)}] + Price(b.team[q[Max(u)].by], Skill[SkillOf(b, q[Max(u)])])
    <3>1. Max(u) \in u /\ Max(u) \in 1 .. n
      BY <1>1, <2>1, MaxInside
    <3>2. g[u \ {Max(u)}] \in VV[u \ {Max(u)}] /\ u \ {Max(u)} \in SUBSET (1 .. n) /\ Max(u) \notin u \ {Max(u)}
      BY <1>4 DEF IsTable
    <3> HIDE DEF F, VV, n
    <3>3. \A v \in VV[u \ {Max(u)}] : F[<<v, Max(u)>>] = v + Price(b.team[q[Max(u)].by], Skill[SkillOf(b, q[Max(u)])])
      BY <1>2, <3>1, <3>2
    <3> QED BY <3>2, <3>3
  <2> HIDE DEF F, VV, n
  <2> QED BY <1>4, <2>1 DEF IsTable
<1>6. QueuePrice(b, q) = (CHOOSE f : Eq(f))[1 .. n]
  BY <1>1 DEF FoldLeft, MapThenFoldSet, QueuePrice
<1>7. PICK f : Eq(f) /\ QueuePrice(b, q) = f[1 .. n]
  BY <1>5, <1>6
<1>8. f[1 .. 0] = 0 /\ 1 .. 0 = {}
  <2>1. 1 .. 0 = {} /\ 1 .. 0 \in SUBSET (1 .. n)
    BY <1>1
  <2> HIDE DEF n
  <2> QED BY <1>7, <2>1
<1>9. ASSUME NEW k \in 1 .. n PROVE f[1 .. k] = f[1 .. (k - 1)] + Price(b.team[q[k].by], Skill[SkillOf(b, q[k])])
  <2>1. 1 .. k \in SUBSET (1 .. n) /\ k \in Nat /\ k # 0
    BY <1>1
  <2>2. Max(1 .. k) = k /\ (1 .. k) \ {k} = 1 .. (k - 1) /\ 1 .. k # {}
    BY <2>1, Prefix
  <2> HIDE DEF n, F, VV
  <2> QED BY <1>7, <2>1, <2>2
<1> HIDE DEF Eq
<1>10. \A k \in 0 .. n : f[1 .. k] \in VV[1 .. k]
  <2>1. ASSUME NEW k \in 1 .. n, f[1 .. (k - 1)] \in VV[1 .. (k - 1)] PROVE f[1 .. k] \in VV[1 .. k]
    <3>1. 1 .. (k - 1) \in SUBSET (1 .. n) /\ k \notin 1 .. (k - 1) /\ (1 .. (k - 1)) \cup {k} = 1 .. k
      BY <1>1
    <3> HIDE DEF F, VV, n
    <3>2. /\ F[<<f[1 .. (k - 1)], k>>] = f[1 .. (k - 1)] + Price(b.team[q[k].by], Skill[SkillOf(b, q[k])])
          /\ F[<<f[1 .. (k - 1)], k>>] \in VV[(1 .. (k - 1)) \cup {k}]
      BY <1>2, <2>1, <3>1
    <3>3. f[1 .. k] = f[1 .. (k - 1)] + Price(b.team[q[k].by], Skill[SkillOf(b, q[k])])
      BY <1>9
    <3> QED BY <3>1, <3>2, <3>3
  <2>2. f[1 .. 0] \in VV[1 .. 0]
    BY <1>3, <1>8
  <2> HIDE DEF F, VV, n
  <2> QED BY <1>1, <2>1, <2>2, FoldRun
<1>11. QueuePrice(b, q) \in VV[1 .. n]
  <2>1. n \in 0 .. n
    BY <1>1
  <2> HIDE DEF F, VV, n
  <2> QED BY <1>7, <1>10, <2>1
<1> QED BY <1>1, <1>11

\* Watched: character by character.
LEMMA WatchedStays ==
    ASSUME NEW S, NEW b, b.lineup \in Seq(S), NEW a, NEW skill,
           NEW V, b \in V, \A v \in V, i \in DOMAIN b.lineup : Scouted(v, b.lineup[i], Scouts(b, b.lineup[i], a, skill)) \in V
    PROVE  Watched(b, a, skill) \in V
<1> DEFINE n == Len(b.lineup)
           VV == [u \in SUBSET (1 .. n) |-> V]
           F == [r \in V \X (1 .. n) |-> Scouted(r[1], b.lineup[r[2]], Scouts(b, b.lineup[r[2]], a, skill))]
           Eq(g) == g = [u \in SUBSET (1 .. n) |->
                           IF u = {} THEN b ELSE Scouted(g[u \ {Max(u)}], b.lineup[Max(u)], Scouts(b, b.lineup[Max(u)], a, skill))]
<1>1. n \in Nat /\ DOMAIN b.lineup = 1 .. n
  OBVIOUS
<1>2. \A u \in SUBSET (1 .. n), i \in 1 .. n :
         i \notin u => \A v \in VV[u] : F[<<v, i>>] = Scouted(v, b.lineup[i], Scouts(b, b.lineup[i], a, skill)) /\ F[<<v, i>>] \in VV[u \cup {i}]
  BY <1>1
<1>3. b \in VV[{}]
  BY <1>1
<1>4. PICK g : IsTable(g, VV, F, b, n)
  <2> HIDE DEF F, VV, n
  <2> QED BY <1>1, <1>2, <1>3, FoldTable
<1>5. Eq(g)
  <2>1. ASSUME NEW u \in SUBSET (1 .. n), u # {}
        PROVE  F[<<g[u \ {Max(u)}], Max(u)>>] = Scouted(g[u \ {Max(u)}], b.lineup[Max(u)], Scouts(b, b.lineup[Max(u)], a, skill))
    <3>1. Max(u) \in u /\ Max(u) \in 1 .. n
      BY <1>1, <2>1, MaxInside
    <3>2. g[u \ {Max(u)}] \in VV[u \ {Max(u)}] /\ u \ {Max(u)} \in SUBSET (1 .. n) /\ Max(u) \notin u \ {Max(u)}
      BY <1>4 DEF IsTable
    <3> HIDE DEF F, VV, n
    <3>3. \A v \in VV[u \ {Max(u)}] : F[<<v, Max(u)>>] = Scouted(v, b.lineup[Max(u)], Scouts(b, b.lineup[Max(u)], a, skill))
      BY <1>2, <3>1, <3>2
    <3> QED BY <3>2, <3>3
  <2> HIDE DEF F, VV, n
  <2> QED BY <1>4, <2>1 DEF IsTable
<1>6. Watched(b, a, skill) = (CHOOSE f : Eq(f))[1 .. n]
  BY <1>1 DEF FoldLeft, MapThenFoldSet, Watched
<1>7. PICK f : Eq(f) /\ Watched(b, a, skill) = f[1 .. n]
  BY <1>5, <1>6
<1>8. f[1 .. 0] = b /\ 1 .. 0 = {}
  <2>1. 1 .. 0 = {} /\ 1 .. 0 \in SUBSET (1 .. n)
    BY <1>1
  <2> HIDE DEF n
  <2> QED BY <1>7, <2>1
<1>9. ASSUME NEW k \in 1 .. n PROVE f[1 .. k] = Scouted(f[1 .. (k - 1)], b.lineup[k], Scouts(b, b.lineup[k], a, skill))
  <2>1. 1 .. k \in SUBSET (1 .. n) /\ k \in Nat /\ k # 0
    BY <1>1
  <2>2. Max(1 .. k) = k /\ (1 .. k) \ {k} = 1 .. (k - 1) /\ 1 .. k # {}
    BY <2>1, Prefix
  <2> HIDE DEF n, F, VV
  <2> QED BY <1>7, <2>1, <2>2
<1> HIDE DEF Eq
<1>10. \A k \in 0 .. n : f[1 .. k] \in VV[1 .. k]
  <2>1. ASSUME NEW k \in 1 .. n, f[1 .. (k - 1)] \in VV[1 .. (k - 1)] PROVE f[1 .. k] \in VV[1 .. k]
    <3>1. 1 .. (k - 1) \in SUBSET (1 .. n) /\ k \notin 1 .. (k - 1) /\ (1 .. (k - 1)) \cup {k} = 1 .. k
      BY <1>1
    <3> HIDE DEF F, VV, n
    <3>2. /\ F[<<f[1 .. (k - 1)], k>>] = Scouted(f[1 .. (k - 1)], b.lineup[k], Scouts(b, b.lineup[k], a, skill))
          /\ F[<<f[1 .. (k - 1)], k>>] \in VV[(1 .. (k - 1)) \cup {k}]
      BY <1>2, <2>1, <3>1
    <3>3. f[1 .. k] = Scouted(f[1 .. (k - 1)], b.lineup[k], Scouts(b, b.lineup[k], a, skill))
      BY <1>9
    <3> QED BY <3>1, <3>2, <3>3
  <2>2. f[1 .. 0] \in VV[1 .. 0]
    BY <1>3, <1>8
  <2> HIDE DEF F, VV, n
  <2> QED BY <1>1, <2>1, <2>2, FoldRun
<1>11. Watched(b, a, skill) \in VV[1 .. n]
  <2>1. n \in 0 .. n
    BY <1>1
  <2> HIDE DEF F, VV, n
  <2> QED BY <1>7, <1>10, <2>1
<1> QED BY <1>1, <1>11

\* Punished: target by target, for a melee skill.
LEMMA PunishedStays ==
    ASSUME NEW S, NEW b, NEW a, NEW targets \in Seq(S), NEW skill, "melee" \in skill.classes,
           NEW V, b \in V, \A v \in V, i \in DOMAIN targets : Spited(v, a, targets[i], Spites(b.team[targets[i]])) \in V
    PROVE  Punished(b, a, skill, targets) \in V
<1> DEFINE n == Len(targets)
           VV == [u \in SUBSET (1 .. n) |-> V]
           F == [r \in V \X (1 .. n) |-> Spited(r[1], a, targets[r[2]], Spites(b.team[targets[r[2]]]))]
           Eq(g) == g = [u \in SUBSET (1 .. n) |->
                           IF u = {} THEN b ELSE Spited(g[u \ {Max(u)}], a, targets[Max(u)], Spites(b.team[targets[Max(u)]]))]
<1>1. n \in Nat /\ DOMAIN targets = 1 .. n
  OBVIOUS
<1>2. \A u \in SUBSET (1 .. n), i \in 1 .. n :
         i \notin u => \A v \in VV[u] : F[<<v, i>>] = Spited(v, a, targets[i], Spites(b.team[targets[i]])) /\ F[<<v, i>>] \in VV[u \cup {i}]
  BY <1>1
<1>3. b \in VV[{}]
  BY <1>1
<1>4. PICK g : IsTable(g, VV, F, b, n)
  <2> HIDE DEF F, VV, n
  <2> QED BY <1>1, <1>2, <1>3, FoldTable
<1>5. Eq(g)
  <2>1. ASSUME NEW u \in SUBSET (1 .. n), u # {}
        PROVE  F[<<g[u \ {Max(u)}], Max(u)>>] = Spited(g[u \ {Max(u)}], a, targets[Max(u)], Spites(b.team[targets[Max(u)]]))
    <3>1. Max(u) \in u /\ Max(u) \in 1 .. n
      BY <1>1, <2>1, MaxInside
    <3>2. g[u \ {Max(u)}] \in VV[u \ {Max(u)}] /\ u \ {Max(u)} \in SUBSET (1 .. n) /\ Max(u) \notin u \ {Max(u)}
      BY <1>4 DEF IsTable
    <3> HIDE DEF F, VV, n
    <3>3. \A v \in VV[u \ {Max(u)}] : F[<<v, Max(u)>>] = Spited(v, a, targets[Max(u)], Spites(b.team[targets[Max(u)]]))
      BY <1>2, <3>1, <3>2
    <3> QED BY <3>2, <3>3
  <2> HIDE DEF F, VV, n
  <2> QED BY <1>4, <2>1 DEF IsTable
<1>6. Punished(b, a, skill, targets) = (CHOOSE f : Eq(f))[1 .. n]
  BY <1>1 DEF FoldLeft, MapThenFoldSet, Punished
<1>7. PICK f : Eq(f) /\ Punished(b, a, skill, targets) = f[1 .. n]
  BY <1>5, <1>6
<1>8. f[1 .. 0] = b /\ 1 .. 0 = {}
  <2>1. 1 .. 0 = {} /\ 1 .. 0 \in SUBSET (1 .. n)
    BY <1>1
  <2> HIDE DEF n
  <2> QED BY <1>7, <2>1
<1>9. ASSUME NEW k \in 1 .. n PROVE f[1 .. k] = Spited(f[1 .. (k - 1)], a, targets[k], Spites(b.team[targets[k]]))
  <2>1. 1 .. k \in SUBSET (1 .. n) /\ k \in Nat /\ k # 0
    BY <1>1
  <2>2. Max(1 .. k) = k /\ (1 .. k) \ {k} = 1 .. (k - 1) /\ 1 .. k # {}
    BY <2>1, Prefix
  <2> HIDE DEF n, F, VV
  <2> QED BY <1>7, <2>1, <2>2
<1> HIDE DEF Eq
<1>10. \A k \in 0 .. n : f[1 .. k] \in VV[1 .. k]
  <2>1. ASSUME NEW k \in 1 .. n, f[1 .. (k - 1)] \in VV[1 .. (k - 1)] PROVE f[1 .. k] \in VV[1 .. k]
    <3>1. 1 .. (k - 1) \in SUBSET (1 .. n) /\ k \notin 1 .. (k - 1) /\ (1 .. (k - 1)) \cup {k} = 1 .. k
      BY <1>1
    <3> HIDE DEF F, VV, n
    <3>2. /\ F[<<f[1 .. (k - 1)], k>>] = Spited(f[1 .. (k - 1)], a, targets[k], Spites(b.team[targets[k]]))
          /\ F[<<f[1 .. (k - 1)], k>>] \in VV[(1 .. (k - 1)) \cup {k}]
      BY <1>2, <2>1, <3>1
    <3>3. f[1 .. k] = Spited(f[1 .. (k - 1)], a, targets[k], Spites(b.team[targets[k]]))
      BY <1>9
    <3> QED BY <3>1, <3>2, <3>3
  <2>2. f[1 .. 0] \in VV[1 .. 0]
    BY <1>3, <1>8
  <2> HIDE DEF F, VV, n
  <2> QED BY <1>1, <2>1, <2>2, FoldRun
<1>11. Punished(b, a, skill, targets) \in VV[1 .. n]
  <2>1. n \in 0 .. n
    BY <1>1
  <2> HIDE DEF F, VV, n
  <2> QED BY <1>7, <1>10, <2>1
<1> QED BY <1>1, <1>11

\* GiveAll: member by member.
LEMMA GiveAllStays ==
    ASSUME NEW S, NEW members \in Seq(S), NEW b, NEW id, NEW by, NEW to,
           NEW V, b \in V, \A v \in V, i \in DOMAIN members : Give(v, members[i], id, by, to) \in V
    PROVE  GiveAll(b, members, id, by, to) \in V
<1> DEFINE n == Len(members)
           VV == [u \in SUBSET (1 .. n) |-> V]
           F == [r \in V \X (1 .. n) |-> Give(r[1], members[r[2]], id, by, to)]
           Eq(g) == g = [u \in SUBSET (1 .. n) |->
                           IF u = {} THEN b ELSE Give(g[u \ {Max(u)}], members[Max(u)], id, by, to)]
<1>1. n \in Nat /\ DOMAIN members = 1 .. n
  OBVIOUS
<1>2. \A u \in SUBSET (1 .. n), i \in 1 .. n :
         i \notin u => \A v \in VV[u] : F[<<v, i>>] = Give(v, members[i], id, by, to) /\ F[<<v, i>>] \in VV[u \cup {i}]
  BY <1>1
<1>3. b \in VV[{}]
  BY <1>1
<1>4. PICK g : IsTable(g, VV, F, b, n)
  <2> HIDE DEF F, VV, n
  <2> QED BY <1>1, <1>2, <1>3, FoldTable
<1>5. Eq(g)
  <2>1. ASSUME NEW u \in SUBSET (1 .. n), u # {}
        PROVE  F[<<g[u \ {Max(u)}], Max(u)>>] = Give(g[u \ {Max(u)}], members[Max(u)], id, by, to)
    <3>1. Max(u) \in u /\ Max(u) \in 1 .. n
      BY <1>1, <2>1, MaxInside
    <3>2. g[u \ {Max(u)}] \in VV[u \ {Max(u)}] /\ u \ {Max(u)} \in SUBSET (1 .. n) /\ Max(u) \notin u \ {Max(u)}
      BY <1>4 DEF IsTable
    <3> HIDE DEF F, VV, n
    <3>3. \A v \in VV[u \ {Max(u)}] : F[<<v, Max(u)>>] = Give(v, members[Max(u)], id, by, to)
      BY <1>2, <3>1, <3>2
    <3> QED BY <3>2, <3>3
  <2> HIDE DEF F, VV, n
  <2> QED BY <1>4, <2>1 DEF IsTable
<1>6. GiveAll(b, members, id, by, to) = (CHOOSE f : Eq(f))[1 .. n]
  BY <1>1 DEF FoldLeft, MapThenFoldSet, GiveAll
<1>7. PICK f : Eq(f) /\ GiveAll(b, members, id, by, to) = f[1 .. n]
  BY <1>5, <1>6
<1>8. f[1 .. 0] = b /\ 1 .. 0 = {}
  <2>1. 1 .. 0 = {} /\ 1 .. 0 \in SUBSET (1 .. n)
    BY <1>1
  <2> HIDE DEF n
  <2> QED BY <1>7, <2>1
<1>9. ASSUME NEW k \in 1 .. n PROVE f[1 .. k] = Give(f[1 .. (k - 1)], members[k], id, by, to)
  <2>1. 1 .. k \in SUBSET (1 .. n) /\ k \in Nat /\ k # 0
    BY <1>1
  <2>2. Max(1 .. k) = k /\ (1 .. k) \ {k} = 1 .. (k - 1) /\ 1 .. k # {}
    BY <2>1, Prefix
  <2> HIDE DEF n, F, VV
  <2> QED BY <1>7, <2>1, <2>2
<1> HIDE DEF Eq
<1>10. \A k \in 0 .. n : f[1 .. k] \in VV[1 .. k]
  <2>1. ASSUME NEW k \in 1 .. n, f[1 .. (k - 1)] \in VV[1 .. (k - 1)] PROVE f[1 .. k] \in VV[1 .. k]
    <3>1. 1 .. (k - 1) \in SUBSET (1 .. n) /\ k \notin 1 .. (k - 1) /\ (1 .. (k - 1)) \cup {k} = 1 .. k
      BY <1>1
    <3> HIDE DEF F, VV, n
    <3>2. /\ F[<<f[1 .. (k - 1)], k>>] = Give(f[1 .. (k - 1)], members[k], id, by, to)
          /\ F[<<f[1 .. (k - 1)], k>>] \in VV[(1 .. (k - 1)) \cup {k}]
      BY <1>2, <2>1, <3>1
    <3>3. f[1 .. k] = Give(f[1 .. (k - 1)], members[k], id, by, to)
      BY <1>9
    <3> QED BY <3>1, <3>2, <3>3
  <2>2. f[1 .. 0] \in VV[1 .. 0]
    BY <1>3, <1>8
  <2> HIDE DEF F, VV, n
  <2> QED BY <1>1, <2>1, <2>2, FoldRun
<1>11. GiveAll(b, members, id, by, to) \in VV[1 .. n]
  <2>1. n \in 0 .. n
    BY <1>1
  <2> HIDE DEF F, VV, n
  <2> QED BY <1>7, <1>10, <2>1
<1> QED BY <1>1, <1>11

\* ApplyEffect: recipient by recipient.
LEMMA ApplyStays ==
    ASSUME NEW S, NEW a, NEW e, Recipients(a, e) \in Seq(S), NEW b, NEW mirror, NEW b0,
           NEW W, NEW V \in [SUBSET DOMAIN Recipients(a, e) -> SUBSET W], b \in V[{}],
           \A u \in SUBSET DOMAIN Recipients(a, e), i \in DOMAIN Recipients(a, e) :
              i \notin u => \A v \in V[u] : AffectOne(v, a, e, Recipients(a, e)[i], mirror, b0) \in V[u \cup {i}]
    PROVE  ApplyEffect(b, a, e, mirror, b0) \in V[DOMAIN Recipients(a, e)]
<1> DEFINE n == Len(Recipients(a, e))
           VV == V
           F == [r \in W \X (1 .. n) |-> AffectOne(r[1], a, e, Recipients(a, e)[r[2]], mirror, b0)]
           Eq(g) == g = [u \in SUBSET (1 .. n) |->
                           IF u = {} THEN b ELSE AffectOne(g[u \ {Max(u)}], a, e, Recipients(a, e)[Max(u)], mirror, b0)]
<1>1. n \in Nat /\ DOMAIN Recipients(a, e) = 1 .. n
  OBVIOUS
<1>2. \A u \in SUBSET (1 .. n), i \in 1 .. n :
         i \notin u => \A v \in VV[u] : F[<<v, i>>] = AffectOne(v, a, e, Recipients(a, e)[i], mirror, b0) /\ F[<<v, i>>] \in VV[u \cup {i}]
  BY <1>1
<1>3. b \in VV[{}]
  BY <1>1
<1>4. PICK g : IsTable(g, VV, F, b, n)
  <2> HIDE DEF F, VV, n
  <2> QED BY <1>1, <1>2, <1>3, FoldTable
<1>5. Eq(g)
  <2>1. ASSUME NEW u \in SUBSET (1 .. n), u # {}
        PROVE  F[<<g[u \ {Max(u)}], Max(u)>>] = AffectOne(g[u \ {Max(u)}], a, e, Recipients(a, e)[Max(u)], mirror, b0)
    <3>1. Max(u) \in u /\ Max(u) \in 1 .. n
      BY <1>1, <2>1, MaxInside
    <3>2. g[u \ {Max(u)}] \in VV[u \ {Max(u)}] /\ u \ {Max(u)} \in SUBSET (1 .. n) /\ Max(u) \notin u \ {Max(u)}
      BY <1>4 DEF IsTable
    <3> HIDE DEF F, VV, n
    <3>3. \A v \in VV[u \ {Max(u)}] : F[<<v, Max(u)>>] = AffectOne(v, a, e, Recipients(a, e)[Max(u)], mirror, b0)
      BY <1>2, <3>1, <3>2
    <3> QED BY <3>2, <3>3
  <2> HIDE DEF F, VV, n
  <2> QED BY <1>4, <2>1 DEF IsTable
<1>6. ApplyEffect(b, a, e, mirror, b0) = (CHOOSE f : Eq(f))[1 .. n]
  BY <1>1 DEF FoldLeft, MapThenFoldSet, ApplyEffect
<1>7. PICK f : Eq(f) /\ ApplyEffect(b, a, e, mirror, b0) = f[1 .. n]
  BY <1>5, <1>6
<1>8. f[1 .. 0] = b /\ 1 .. 0 = {}
  <2>1. 1 .. 0 = {} /\ 1 .. 0 \in SUBSET (1 .. n)
    BY <1>1
  <2> HIDE DEF n
  <2> QED BY <1>7, <2>1
<1>9. ASSUME NEW k \in 1 .. n PROVE f[1 .. k] = AffectOne(f[1 .. (k - 1)], a, e, Recipients(a, e)[k], mirror, b0)
  <2>1. 1 .. k \in SUBSET (1 .. n) /\ k \in Nat /\ k # 0
    BY <1>1
  <2>2. Max(1 .. k) = k /\ (1 .. k) \ {k} = 1 .. (k - 1) /\ 1 .. k # {}
    BY <2>1, Prefix
  <2> HIDE DEF n, F, VV
  <2> QED BY <1>7, <2>1, <2>2
<1> HIDE DEF Eq
<1>10. \A k \in 0 .. n : f[1 .. k] \in VV[1 .. k]
  <2>1. ASSUME NEW k \in 1 .. n, f[1 .. (k - 1)] \in VV[1 .. (k - 1)] PROVE f[1 .. k] \in VV[1 .. k]
    <3>1. 1 .. (k - 1) \in SUBSET (1 .. n) /\ k \notin 1 .. (k - 1) /\ (1 .. (k - 1)) \cup {k} = 1 .. k
      BY <1>1
    <3> HIDE DEF F, VV, n
    <3>2. /\ F[<<f[1 .. (k - 1)], k>>] = AffectOne(f[1 .. (k - 1)], a, e, Recipients(a, e)[k], mirror, b0)
          /\ F[<<f[1 .. (k - 1)], k>>] \in VV[(1 .. (k - 1)) \cup {k}]
      BY <1>2, <2>1, <3>1
    <3>3. f[1 .. k] = AffectOne(f[1 .. (k - 1)], a, e, Recipients(a, e)[k], mirror, b0)
      BY <1>9
    <3> QED BY <3>1, <3>2, <3>3
  <2>2. f[1 .. 0] \in VV[1 .. 0]
    BY <1>3, <1>8
  <2> HIDE DEF F, VV, n
  <2> QED BY <1>1, <2>1, <2>2, FoldRun
<1>11. ApplyEffect(b, a, e, mirror, b0) \in VV[1 .. n]
  <2>1. n \in 0 .. n
    BY <1>1
  <2> HIDE DEF F, VV, n
  <2> QED BY <1>7, <1>10, <2>1
<1> QED BY <1>1, <1>11

\* Effects: effect by effect.
LEMMA EffectsStays ==
    ASSUME NEW S, NEW id, Skill[id].effects \in Seq(S), NEW b, NEW a, NEW mirror,
           NEW W, NEW V \in [SUBSET DOMAIN Skill[id].effects -> SUBSET W], b \in V[{}],
           \A u \in SUBSET DOMAIN Skill[id].effects, i \in DOMAIN Skill[id].effects :
              i \notin u => \A v \in V[u] : ApplyEffect(v, a, Skill[id].effects[i], mirror, b) \in V[u \cup {i}]
    PROVE  Effects(b, a, id, mirror) \in V[DOMAIN Skill[id].effects]
<1> DEFINE n == Len(Skill[id].effects)
           VV == V
           F == [r \in W \X (1 .. n) |-> ApplyEffect(r[1], a, Skill[id].effects[r[2]], mirror, b)]
           Eq(g) == g = [u \in SUBSET (1 .. n) |->
                           IF u = {} THEN b ELSE ApplyEffect(g[u \ {Max(u)}], a, Skill[id].effects[Max(u)], mirror, b)]
<1>1. n \in Nat /\ DOMAIN Skill[id].effects = 1 .. n
  OBVIOUS
<1>2. \A u \in SUBSET (1 .. n), i \in 1 .. n :
         i \notin u => \A v \in VV[u] : F[<<v, i>>] = ApplyEffect(v, a, Skill[id].effects[i], mirror, b) /\ F[<<v, i>>] \in VV[u \cup {i}]
  BY <1>1
<1>3. b \in VV[{}]
  BY <1>1
<1>4. PICK g : IsTable(g, VV, F, b, n)
  <2> HIDE DEF F, VV, n
  <2> QED BY <1>1, <1>2, <1>3, FoldTable
<1>5. Eq(g)
  <2>1. ASSUME NEW u \in SUBSET (1 .. n), u # {}
        PROVE  F[<<g[u \ {Max(u)}], Max(u)>>] = ApplyEffect(g[u \ {Max(u)}], a, Skill[id].effects[Max(u)], mirror, b)
    <3>1. Max(u) \in u /\ Max(u) \in 1 .. n
      BY <1>1, <2>1, MaxInside
    <3>2. g[u \ {Max(u)}] \in VV[u \ {Max(u)}] /\ u \ {Max(u)} \in SUBSET (1 .. n) /\ Max(u) \notin u \ {Max(u)}
      BY <1>4 DEF IsTable
    <3> HIDE DEF F, VV, n
    <3>3. \A v \in VV[u \ {Max(u)}] : F[<<v, Max(u)>>] = ApplyEffect(v, a, Skill[id].effects[Max(u)], mirror, b)
      BY <1>2, <3>1, <3>2
    <3> QED BY <3>2, <3>3
  <2> HIDE DEF F, VV, n
  <2> QED BY <1>4, <2>1 DEF IsTable
<1>6. Effects(b, a, id, mirror) = (CHOOSE f : Eq(f))[1 .. n]
  BY <1>1 DEF FoldLeft, MapThenFoldSet, Effects
<1>7. PICK f : Eq(f) /\ Effects(b, a, id, mirror) = f[1 .. n]
  BY <1>5, <1>6
<1>8. f[1 .. 0] = b /\ 1 .. 0 = {}
  <2>1. 1 .. 0 = {} /\ 1 .. 0 \in SUBSET (1 .. n)
    BY <1>1
  <2> HIDE DEF n
  <2> QED BY <1>7, <2>1
<1>9. ASSUME NEW k \in 1 .. n PROVE f[1 .. k] = ApplyEffect(f[1 .. (k - 1)], a, Skill[id].effects[k], mirror, b)
  <2>1. 1 .. k \in SUBSET (1 .. n) /\ k \in Nat /\ k # 0
    BY <1>1
  <2>2. Max(1 .. k) = k /\ (1 .. k) \ {k} = 1 .. (k - 1) /\ 1 .. k # {}
    BY <2>1, Prefix
  <2> HIDE DEF n, F, VV
  <2> QED BY <1>7, <2>1, <2>2
<1> HIDE DEF Eq
<1>10. \A k \in 0 .. n : f[1 .. k] \in VV[1 .. k]
  <2>1. ASSUME NEW k \in 1 .. n, f[1 .. (k - 1)] \in VV[1 .. (k - 1)] PROVE f[1 .. k] \in VV[1 .. k]
    <3>1. 1 .. (k - 1) \in SUBSET (1 .. n) /\ k \notin 1 .. (k - 1) /\ (1 .. (k - 1)) \cup {k} = 1 .. k
      BY <1>1
    <3> HIDE DEF F, VV, n
    <3>2. /\ F[<<f[1 .. (k - 1)], k>>] = ApplyEffect(f[1 .. (k - 1)], a, Skill[id].effects[k], mirror, b)
          /\ F[<<f[1 .. (k - 1)], k>>] \in VV[(1 .. (k - 1)) \cup {k}]
      BY <1>2, <2>1, <3>1
    <3>3. f[1 .. k] = ApplyEffect(f[1 .. (k - 1)], a, Skill[id].effects[k], mirror, b)
      BY <1>9
    <3> QED BY <3>1, <3>2, <3>3
  <2>2. f[1 .. 0] \in VV[1 .. 0]
    BY <1>3, <1>8
  <2> HIDE DEF F, VV, n
  <2> QED BY <1>1, <2>1, <2>2, FoldRun
<1>11. Effects(b, a, id, mirror) \in VV[1 .. n]
  <2>1. n \in 0 .. n
    BY <1>1
  <2> HIDE DEF F, VV, n
  <2> QED BY <1>7, <1>10, <2>1
<1> QED BY <1>1, <1>11

\* Resolved: action by action.
LEMMA ResolvedStays ==
    ASSUME NEW S, NEW q \in Seq(S), NEW b,
           NEW V, b \in V, \A v \in V, i \in DOMAIN q : Resolve(v, q[i]) \in V
    PROVE  Resolved(b, q) \in V
<1> DEFINE n == Len(q)
           VV == [u \in SUBSET (1 .. n) |-> V]
           F == [r \in V \X (1 .. n) |-> Resolve(r[1], q[r[2]])]
           Eq(g) == g = [u \in SUBSET (1 .. n) |->
                           IF u = {} THEN b ELSE Resolve(g[u \ {Max(u)}], q[Max(u)])]
<1>1. n \in Nat /\ DOMAIN q = 1 .. n
  OBVIOUS
<1>2. \A u \in SUBSET (1 .. n), i \in 1 .. n :
         i \notin u => \A v \in VV[u] : F[<<v, i>>] = Resolve(v, q[i]) /\ F[<<v, i>>] \in VV[u \cup {i}]
  BY <1>1
<1>3. b \in VV[{}]
  BY <1>1
<1>4. PICK g : IsTable(g, VV, F, b, n)
  <2> HIDE DEF F, VV, n
  <2> QED BY <1>1, <1>2, <1>3, FoldTable
<1>5. Eq(g)
  <2>1. ASSUME NEW u \in SUBSET (1 .. n), u # {}
        PROVE  F[<<g[u \ {Max(u)}], Max(u)>>] = Resolve(g[u \ {Max(u)}], q[Max(u)])
    <3>1. Max(u) \in u /\ Max(u) \in 1 .. n
      BY <1>1, <2>1, MaxInside
    <3>2. g[u \ {Max(u)}] \in VV[u \ {Max(u)}] /\ u \ {Max(u)} \in SUBSET (1 .. n) /\ Max(u) \notin u \ {Max(u)}
      BY <1>4 DEF IsTable
    <3> HIDE DEF F, VV, n
    <3>3. \A v \in VV[u \ {Max(u)}] : F[<<v, Max(u)>>] = Resolve(v, q[Max(u)])
      BY <1>2, <3>1, <3>2
    <3> QED BY <3>2, <3>3
  <2> HIDE DEF F, VV, n
  <2> QED BY <1>4, <2>1 DEF IsTable
<1>6. Resolved(b, q) = (CHOOSE f : Eq(f))[1 .. n]
  BY <1>1 DEF FoldLeft, MapThenFoldSet, Resolved
<1>7. PICK f : Eq(f) /\ Resolved(b, q) = f[1 .. n]
  BY <1>5, <1>6
<1>8. f[1 .. 0] = b /\ 1 .. 0 = {}
  <2>1. 1 .. 0 = {} /\ 1 .. 0 \in SUBSET (1 .. n)
    BY <1>1
  <2> HIDE DEF n
  <2> QED BY <1>7, <2>1
<1>9. ASSUME NEW k \in 1 .. n PROVE f[1 .. k] = Resolve(f[1 .. (k - 1)], q[k])
  <2>1. 1 .. k \in SUBSET (1 .. n) /\ k \in Nat /\ k # 0
    BY <1>1
  <2>2. Max(1 .. k) = k /\ (1 .. k) \ {k} = 1 .. (k - 1) /\ 1 .. k # {}
    BY <2>1, Prefix
  <2> HIDE DEF n, F, VV
  <2> QED BY <1>7, <2>1, <2>2
<1> HIDE DEF Eq
<1>10. \A k \in 0 .. n : f[1 .. k] \in VV[1 .. k]
  <2>1. ASSUME NEW k \in 1 .. n, f[1 .. (k - 1)] \in VV[1 .. (k - 1)] PROVE f[1 .. k] \in VV[1 .. k]
    <3>1. 1 .. (k - 1) \in SUBSET (1 .. n) /\ k \notin 1 .. (k - 1) /\ (1 .. (k - 1)) \cup {k} = 1 .. k
      BY <1>1
    <3> HIDE DEF F, VV, n
    <3>2. /\ F[<<f[1 .. (k - 1)], k>>] = Resolve(f[1 .. (k - 1)], q[k])
          /\ F[<<f[1 .. (k - 1)], k>>] \in VV[(1 .. (k - 1)) \cup {k}]
      BY <1>2, <2>1, <3>1
    <3>3. f[1 .. k] = Resolve(f[1 .. (k - 1)], q[k])
      BY <1>9
    <3> QED BY <3>1, <3>2, <3>3
  <2>2. f[1 .. 0] \in VV[1 .. 0]
    BY <1>3, <1>8
  <2> HIDE DEF F, VV, n
  <2> QED BY <1>1, <2>1, <2>2, FoldRun
<1>11. Resolved(b, q) \in VV[1 .. n]
  <2>1. n \in 0 .. n
    BY <1>1
  <2> HIDE DEF F, VV, n
  <2> QED BY <1>7, <1>10, <2>1
<1> QED BY <1>1, <1>11

\* Expired: status by status, by its place.
LEMMA ExpiredStays ==
    ASSUME NEW b, NEW c, NEW p, Places(b.team[c].statuses) \in Seq(Nat),
           NEW V, b \in V, \A v \in V, i \in DOMAIN Places(b.team[c].statuses) : ExpiringAt(v, c, Places(b.team[c].statuses)[i], p) \in V
    PROVE  Expired(b, c, p) \in V
<1> DEFINE n == Len(Places(b.team[c].statuses))
           VV == [u \in SUBSET (1 .. n) |-> V]
           F == [r \in V \X (1 .. n) |-> ExpiringAt(r[1], c, Places(b.team[c].statuses)[r[2]], p)]
           Eq(g) == g = [u \in SUBSET (1 .. n) |->
                           IF u = {} THEN b ELSE ExpiringAt(g[u \ {Max(u)}], c, Places(b.team[c].statuses)[Max(u)], p)]
<1>1. n \in Nat /\ DOMAIN Places(b.team[c].statuses) = 1 .. n
  OBVIOUS
<1>2. \A u \in SUBSET (1 .. n), i \in 1 .. n :
         i \notin u => \A v \in VV[u] : F[<<v, i>>] = ExpiringAt(v, c, Places(b.team[c].statuses)[i], p) /\ F[<<v, i>>] \in VV[u \cup {i}]
  BY <1>1
<1>3. b \in VV[{}]
  BY <1>1
<1>4. PICK g : IsTable(g, VV, F, b, n)
  <2> HIDE DEF F, VV, n
  <2> QED BY <1>1, <1>2, <1>3, FoldTable
<1>5. Eq(g)
  <2>1. ASSUME NEW u \in SUBSET (1 .. n), u # {}
        PROVE  F[<<g[u \ {Max(u)}], Max(u)>>] = ExpiringAt(g[u \ {Max(u)}], c, Places(b.team[c].statuses)[Max(u)], p)
    <3>1. Max(u) \in u /\ Max(u) \in 1 .. n
      BY <1>1, <2>1, MaxInside
    <3>2. g[u \ {Max(u)}] \in VV[u \ {Max(u)}] /\ u \ {Max(u)} \in SUBSET (1 .. n) /\ Max(u) \notin u \ {Max(u)}
      BY <1>4 DEF IsTable
    <3> HIDE DEF F, VV, n
    <3>3. \A v \in VV[u \ {Max(u)}] : F[<<v, Max(u)>>] = ExpiringAt(v, c, Places(b.team[c].statuses)[Max(u)], p)
      BY <1>2, <3>1, <3>2
    <3> QED BY <3>2, <3>3
  <2> HIDE DEF F, VV, n
  <2> QED BY <1>4, <2>1 DEF IsTable
<1>6. Expired(b, c, p) = (CHOOSE f : Eq(f))[1 .. n]
  BY <1>1 DEF FoldLeft, MapThenFoldSet, Expired
<1>7. PICK f : Eq(f) /\ Expired(b, c, p) = f[1 .. n]
  BY <1>5, <1>6
<1>8. f[1 .. 0] = b /\ 1 .. 0 = {}
  <2>1. 1 .. 0 = {} /\ 1 .. 0 \in SUBSET (1 .. n)
    BY <1>1
  <2> HIDE DEF n
  <2> QED BY <1>7, <2>1
<1>9. ASSUME NEW k \in 1 .. n PROVE f[1 .. k] = ExpiringAt(f[1 .. (k - 1)], c, Places(b.team[c].statuses)[k], p)
  <2>1. 1 .. k \in SUBSET (1 .. n) /\ k \in Nat /\ k # 0
    BY <1>1
  <2>2. Max(1 .. k) = k /\ (1 .. k) \ {k} = 1 .. (k - 1) /\ 1 .. k # {}
    BY <2>1, Prefix
  <2> HIDE DEF n, F, VV
  <2> QED BY <1>7, <2>1, <2>2
<1> HIDE DEF Eq
<1>10. \A k \in 0 .. n : f[1 .. k] \in VV[1 .. k]
  <2>1. ASSUME NEW k \in 1 .. n, f[1 .. (k - 1)] \in VV[1 .. (k - 1)] PROVE f[1 .. k] \in VV[1 .. k]
    <3>1. 1 .. (k - 1) \in SUBSET (1 .. n) /\ k \notin 1 .. (k - 1) /\ (1 .. (k - 1)) \cup {k} = 1 .. k
      BY <1>1
    <3> HIDE DEF F, VV, n
    <3>2. /\ F[<<f[1 .. (k - 1)], k>>] = ExpiringAt(f[1 .. (k - 1)], c, Places(b.team[c].statuses)[k], p)
          /\ F[<<f[1 .. (k - 1)], k>>] \in VV[(1 .. (k - 1)) \cup {k}]
      BY <1>2, <2>1, <3>1
    <3>3. f[1 .. k] = ExpiringAt(f[1 .. (k - 1)], c, Places(b.team[c].statuses)[k], p)
      BY <1>9
    <3> QED BY <3>1, <3>2, <3>3
  <2>2. f[1 .. 0] \in VV[1 .. 0]
    BY <1>3, <1>8
  <2> HIDE DEF F, VV, n
  <2> QED BY <1>1, <2>1, <2>2, FoldRun
<1>11. Expired(b, c, p) \in VV[1 .. n]
  <2>1. n \in 0 .. n
    BY <1>1
  <2> HIDE DEF F, VV, n
  <2> QED BY <1>7, <1>10, <2>1
<1> QED BY <1>1, <1>11

\* Poisoned: status by status.
LEMMA PoisonedStays ==
    ASSUME NEW S, NEW b, NEW c, b.team[c].statuses \in Seq(S), NEW p,
           NEW V, b \in V, \A v \in V, i \in DOMAIN b.team[c].statuses : PoisonedBy(v, c, b.team[c].statuses[i], p) \in V
    PROVE  Poisoned(b, c, p) \in V
<1> DEFINE n == Len(b.team[c].statuses)
           VV == [u \in SUBSET (1 .. n) |-> V]
           F == [r \in V \X (1 .. n) |-> PoisonedBy(r[1], c, b.team[c].statuses[r[2]], p)]
           Eq(g) == g = [u \in SUBSET (1 .. n) |->
                           IF u = {} THEN b ELSE PoisonedBy(g[u \ {Max(u)}], c, b.team[c].statuses[Max(u)], p)]
<1>1. n \in Nat /\ DOMAIN b.team[c].statuses = 1 .. n
  OBVIOUS
<1>2. \A u \in SUBSET (1 .. n), i \in 1 .. n :
         i \notin u => \A v \in VV[u] : F[<<v, i>>] = PoisonedBy(v, c, b.team[c].statuses[i], p) /\ F[<<v, i>>] \in VV[u \cup {i}]
  BY <1>1
<1>3. b \in VV[{}]
  BY <1>1
<1>4. PICK g : IsTable(g, VV, F, b, n)
  <2> HIDE DEF F, VV, n
  <2> QED BY <1>1, <1>2, <1>3, FoldTable
<1>5. Eq(g)
  <2>1. ASSUME NEW u \in SUBSET (1 .. n), u # {}
        PROVE  F[<<g[u \ {Max(u)}], Max(u)>>] = PoisonedBy(g[u \ {Max(u)}], c, b.team[c].statuses[Max(u)], p)
    <3>1. Max(u) \in u /\ Max(u) \in 1 .. n
      BY <1>1, <2>1, MaxInside
    <3>2. g[u \ {Max(u)}] \in VV[u \ {Max(u)}] /\ u \ {Max(u)} \in SUBSET (1 .. n) /\ Max(u) \notin u \ {Max(u)}
      BY <1>4 DEF IsTable
    <3> HIDE DEF F, VV, n
    <3>3. \A v \in VV[u \ {Max(u)}] : F[<<v, Max(u)>>] = PoisonedBy(v, c, b.team[c].statuses[Max(u)], p)
      BY <1>2, <3>1, <3>2
    <3> QED BY <3>2, <3>3
  <2> HIDE DEF F, VV, n
  <2> QED BY <1>4, <2>1 DEF IsTable
<1>6. Poisoned(b, c, p) = (CHOOSE f : Eq(f))[1 .. n]
  BY <1>1 DEF FoldLeft, MapThenFoldSet, Poisoned
<1>7. PICK f : Eq(f) /\ Poisoned(b, c, p) = f[1 .. n]
  BY <1>5, <1>6
<1>8. f[1 .. 0] = b /\ 1 .. 0 = {}
  <2>1. 1 .. 0 = {} /\ 1 .. 0 \in SUBSET (1 .. n)
    BY <1>1
  <2> HIDE DEF n
  <2> QED BY <1>7, <2>1
<1>9. ASSUME NEW k \in 1 .. n PROVE f[1 .. k] = PoisonedBy(f[1 .. (k - 1)], c, b.team[c].statuses[k], p)
  <2>1. 1 .. k \in SUBSET (1 .. n) /\ k \in Nat /\ k # 0
    BY <1>1
  <2>2. Max(1 .. k) = k /\ (1 .. k) \ {k} = 1 .. (k - 1) /\ 1 .. k # {}
    BY <2>1, Prefix
  <2> HIDE DEF n, F, VV
  <2> QED BY <1>7, <2>1, <2>2
<1> HIDE DEF Eq
<1>10. \A k \in 0 .. n : f[1 .. k] \in VV[1 .. k]
  <2>1. ASSUME NEW k \in 1 .. n, f[1 .. (k - 1)] \in VV[1 .. (k - 1)] PROVE f[1 .. k] \in VV[1 .. k]
    <3>1. 1 .. (k - 1) \in SUBSET (1 .. n) /\ k \notin 1 .. (k - 1) /\ (1 .. (k - 1)) \cup {k} = 1 .. k
      BY <1>1
    <3> HIDE DEF F, VV, n
    <3>2. /\ F[<<f[1 .. (k - 1)], k>>] = PoisonedBy(f[1 .. (k - 1)], c, b.team[c].statuses[k], p)
          /\ F[<<f[1 .. (k - 1)], k>>] \in VV[(1 .. (k - 1)) \cup {k}]
      BY <1>2, <2>1, <3>1
    <3>3. f[1 .. k] = PoisonedBy(f[1 .. (k - 1)], c, b.team[c].statuses[k], p)
      BY <1>9
    <3> QED BY <3>1, <3>2, <3>3
  <2>2. f[1 .. 0] \in VV[1 .. 0]
    BY <1>3, <1>8
  <2> HIDE DEF F, VV, n
  <2> QED BY <1>1, <2>1, <2>2, FoldRun
<1>11. Poisoned(b, c, p) \in VV[1 .. n]
  <2>1. n \in 0 .. n
    BY <1>1
  <2> HIDE DEF F, VV, n
  <2> QED BY <1>7, <1>10, <2>1
<1> QED BY <1>1, <1>11

\* CleanedUp: character by character.
LEMMA CleanupStays ==
    ASSUME NEW S, NEW b, b.lineup \in Seq(S), NEW p,
           NEW W, NEW V \in [SUBSET DOMAIN b.lineup -> SUBSET W], b \in V[{}],
           \A u \in SUBSET DOMAIN b.lineup, i \in DOMAIN b.lineup :
              i \notin u => \A v \in V[u] : Cleanup(v, b.lineup[i], p) \in V[u \cup {i}]
    PROVE  CleanedUp(b, p) \in V[DOMAIN b.lineup]
<1> DEFINE n == Len(b.lineup)
           VV == V
           F == [r \in W \X (1 .. n) |-> Cleanup(r[1], b.lineup[r[2]], p)]
           Eq(g) == g = [u \in SUBSET (1 .. n) |->
                           IF u = {} THEN b ELSE Cleanup(g[u \ {Max(u)}], b.lineup[Max(u)], p)]
<1>1. n \in Nat /\ DOMAIN b.lineup = 1 .. n
  OBVIOUS
<1>2. \A u \in SUBSET (1 .. n), i \in 1 .. n :
         i \notin u => \A v \in VV[u] : F[<<v, i>>] = Cleanup(v, b.lineup[i], p) /\ F[<<v, i>>] \in VV[u \cup {i}]
  BY <1>1
<1>3. b \in VV[{}]
  BY <1>1
<1>4. PICK g : IsTable(g, VV, F, b, n)
  <2> HIDE DEF F, VV, n
  <2> QED BY <1>1, <1>2, <1>3, FoldTable
<1>5. Eq(g)
  <2>1. ASSUME NEW u \in SUBSET (1 .. n), u # {}
        PROVE  F[<<g[u \ {Max(u)}], Max(u)>>] = Cleanup(g[u \ {Max(u)}], b.lineup[Max(u)], p)
    <3>1. Max(u) \in u /\ Max(u) \in 1 .. n
      BY <1>1, <2>1, MaxInside
    <3>2. g[u \ {Max(u)}] \in VV[u \ {Max(u)}] /\ u \ {Max(u)} \in SUBSET (1 .. n) /\ Max(u) \notin u \ {Max(u)}
      BY <1>4 DEF IsTable
    <3> HIDE DEF F, VV, n
    <3>3. \A v \in VV[u \ {Max(u)}] : F[<<v, Max(u)>>] = Cleanup(v, b.lineup[Max(u)], p)
      BY <1>2, <3>1, <3>2
    <3> QED BY <3>2, <3>3
  <2> HIDE DEF F, VV, n
  <2> QED BY <1>4, <2>1 DEF IsTable
<1>6. CleanedUp(b, p) = (CHOOSE f : Eq(f))[1 .. n]
  BY <1>1 DEF FoldLeft, MapThenFoldSet, CleanedUp
<1>7. PICK f : Eq(f) /\ CleanedUp(b, p) = f[1 .. n]
  BY <1>5, <1>6
<1>8. f[1 .. 0] = b /\ 1 .. 0 = {}
  <2>1. 1 .. 0 = {} /\ 1 .. 0 \in SUBSET (1 .. n)
    BY <1>1
  <2> HIDE DEF n
  <2> QED BY <1>7, <2>1
<1>9. ASSUME NEW k \in 1 .. n PROVE f[1 .. k] = Cleanup(f[1 .. (k - 1)], b.lineup[k], p)
  <2>1. 1 .. k \in SUBSET (1 .. n) /\ k \in Nat /\ k # 0
    BY <1>1
  <2>2. Max(1 .. k) = k /\ (1 .. k) \ {k} = 1 .. (k - 1) /\ 1 .. k # {}
    BY <2>1, Prefix
  <2> HIDE DEF n, F, VV
  <2> QED BY <1>7, <2>1, <2>2
<1> HIDE DEF Eq
<1>10. \A k \in 0 .. n : f[1 .. k] \in VV[1 .. k]
  <2>1. ASSUME NEW k \in 1 .. n, f[1 .. (k - 1)] \in VV[1 .. (k - 1)] PROVE f[1 .. k] \in VV[1 .. k]
    <3>1. 1 .. (k - 1) \in SUBSET (1 .. n) /\ k \notin 1 .. (k - 1) /\ (1 .. (k - 1)) \cup {k} = 1 .. k
      BY <1>1
    <3> HIDE DEF F, VV, n
    <3>2. /\ F[<<f[1 .. (k - 1)], k>>] = Cleanup(f[1 .. (k - 1)], b.lineup[k], p)
          /\ F[<<f[1 .. (k - 1)], k>>] \in VV[(1 .. (k - 1)) \cup {k}]
      BY <1>2, <2>1, <3>1
    <3>3. f[1 .. k] = Cleanup(f[1 .. (k - 1)], b.lineup[k], p)
      BY <1>9
    <3> QED BY <3>1, <3>2, <3>3
  <2>2. f[1 .. 0] \in VV[1 .. 0]
    BY <1>3, <1>8
  <2> HIDE DEF F, VV, n
  <2> QED BY <1>1, <2>1, <2>2, FoldRun
<1>11. CleanedUp(b, p) \in VV[1 .. n]
  <2>1. n \in 0 .. n
    BY <1>1
  <2> HIDE DEF F, VV, n
  <2> QED BY <1>7, <1>10, <2>1
<1> QED BY <1>1, <1>11
-----------------------------------------------------------------------------
(* What Only picks *)

\* Only goes along ss without turning back, and passes over nothing in T.
LEMMA OnlyPlaces ==
    ASSUME NEW S, NEW ss \in Seq(S), NEW T
    PROVE  /\ Only(ss, T) \in Seq(S)
           /\ \E f \in [DOMAIN Only(ss, T) -> DOMAIN ss] :
                 /\ \A i, j \in DOMAIN Only(ss, T) : f[i] = f[j] => i = j
                 /\ \A i \in DOMAIN Only(ss, T) : Only(ss, T)[i] = ss[f[i]] /\ ss[f[i]] \in T
                 /\ \A j \in DOMAIN ss : ss[j] \in T => \E i \in DOMAIN Only(ss, T) : f[i] = j
<1> DEFINE n == Len(ss)
<1>1. n \in Nat /\ DOMAIN ss = 1 .. n
  OBVIOUS
<1>2. \A v \in Seq(S), i \in DOMAIN ss : Kept(v, ss[i], T) \in Seq(S)
  BY DEF Kept
<1>3. PICK acc : /\ acc[0] = <<>> /\ acc[n] = Only(ss, T)
                 /\ \A k \in 0 .. n : acc[k] \in Seq(S)
                 /\ \A k \in 1 .. n : acc[k] = Kept(acc[k - 1], ss[k], T)
  <2> DEFINE V == Seq(S)
  <2>1. <<>> \in V /\ \A v \in V, i \in DOMAIN ss : Kept(v, ss[i], T) \in V
    BY <1>2
  <2>2. \E acc : /\ acc[0] = <<>> /\ acc[n] = Only(ss, T)
                 /\ \A k \in 0 .. n : acc[k] \in V
                 /\ \A k \in 1 .. n : acc[k] = Kept(acc[k - 1], ss[k], T)
    <3> HIDE DEF V
    <3> QED BY <2>1, OnlySteps
  <2> QED BY <2>2
<1> DEFINE Follows(out, k) ==
             \E f \in [1 .. Len(out) -> 1 .. k] :
                /\ \A i, j \in 1 .. Len(out) : f[i] = f[j] => i = j
                /\ \A i \in 1 .. Len(out) : out[i] = ss[f[i]] /\ ss[f[i]] \in T
                /\ \A j \in 1 .. k : ss[j] \in T => \E i \in 1 .. Len(out) : f[i] = j
           G == {k \in 0 .. n : Follows(acc[k], k)}
<1>4. 0 \in G
  <2>1. Len(acc[0]) = 0
    BY <1>3
  <2>2. Follows(acc[0], 0)
    <3> DEFINE f == [i \in 1 .. 0 |-> 0]
    <3>1. f \in [1 .. Len(acc[0]) -> 1 .. 0] /\ 1 .. 0 = {}
      BY <2>1
    <3> QED BY <2>1, <3>1
  <2> QED BY <1>1, <2>2
<1>5. ASSUME NEW k \in 1 .. n, k - 1 \in G PROVE k \in G
  <2> DEFINE a == acc[k - 1]
  <2>1. PICK f \in [1 .. Len(a) -> 1 .. (k - 1)] :
           /\ \A i, j \in 1 .. Len(a) : f[i] = f[j] => i = j
           /\ \A i \in 1 .. Len(a) : a[i] = ss[f[i]] /\ ss[f[i]] \in T
           /\ \A j \in 1 .. (k - 1) : ss[j] \in T => \E i \in 1 .. Len(a) : f[i] = j
    BY <1>5
  <2>2. a \in Seq(S) /\ Len(a) \in Nat /\ ss[k] \in S
    BY <1>1, <1>3
  <2>3. acc[k] = Kept(a, ss[k], T)
    BY <1>3
  <2> HIDE DEF a
  <2>4. CASE ss[k] \in T
    <3>1. acc[k] = Append(a, ss[k])
      BY <2>3, <2>4 DEF Kept
    <3>2. /\ Len(acc[k]) = Len(a) + 1 /\ acc[k][Len(a) + 1] = ss[k]
          /\ \A i \in 1 .. Len(a) : acc[k][i] = a[i]
      BY <2>2, <3>1
    <3> DEFINE g == [i \in 1 .. (Len(a) + 1) |-> IF i = Len(a) + 1 THEN k ELSE f[i]]
    <3>3. g \in [1 .. Len(acc[k]) -> 1 .. k]
      BY <1>1, <2>1, <2>2, <3>2
    <3>4. ASSUME NEW i \in 1 .. Len(acc[k]), NEW j \in 1 .. Len(acc[k]), g[i] = g[j] PROVE i = j
      <4>1. \A x \in 1 .. Len(a) : g[x] = f[x] /\ f[x] \in 1 .. (k - 1)
        <5> SUFFICES ASSUME NEW x \in 1 .. Len(a) PROVE g[x] = f[x] /\ f[x] \in 1 .. (k - 1)
          OBVIOUS
        <5>1. f[x] \in 1 .. (k - 1)
          OBVIOUS
        <5>2. x \in 1 .. (Len(a) + 1) /\ x # Len(a) + 1
          BY <2>2
        <5>3. g[x] = f[x]
          BY <5>2
        <5> QED BY <5>1, <5>3
      <4>2. g[Len(a) + 1] = k
        BY <2>2
      <4>3. i \in 1 .. Len(a) \/ i = Len(a) + 1
        BY <2>2, <3>2
      <4>4. j \in 1 .. Len(a) \/ j = Len(a) + 1
        BY <2>2, <3>2
      <4>5. \A x \in 1 .. (k - 1) : x # k
        OBVIOUS
      <4> HIDE DEF g
      <4> QED BY <2>1, <3>4, <4>1, <4>2, <4>3, <4>4, <4>5
    <3>5. \A i \in 1 .. Len(acc[k]) : acc[k][i] = ss[g[i]] /\ ss[g[i]] \in T
      BY <1>1, <2>1, <2>2, <2>4, <3>2
    <3>6. \A j \in 1 .. k : ss[j] \in T => \E i \in 1 .. Len(acc[k]) : g[i] = j
      <4>1. g[Len(a) + 1] = k /\ Len(a) + 1 \in 1 .. Len(acc[k])
        BY <2>2, <3>2
      <4>2. ASSUME NEW j \in 1 .. (k - 1), ss[j] \in T PROVE \E i \in 1 .. Len(acc[k]) : g[i] = j
        <5>1. PICK i \in 1 .. Len(a) : f[i] = j
          BY <2>1, <4>2
        <5>2. i \in 1 .. Len(acc[k]) /\ g[i] = j
          BY <2>2, <3>2, <5>1
        <5> QED BY <5>2
      <4> QED BY <1>1, <4>1, <4>2
    <3> HIDE DEF g
    <3> QED BY <1>1, <3>3, <3>4, <3>5, <3>6
  <2>5. CASE ss[k] \notin T
    <3>1. acc[k] = a
      BY <2>3, <2>5 DEF Kept
    <3>2. f \in [1 .. Len(acc[k]) -> 1 .. k]
      BY <1>1, <2>1, <3>1
    <3>3. \A j \in 1 .. k : ss[j] \in T => j \in 1 .. (k - 1)
      BY <1>1, <2>5
    <3>4. /\ \A i, j \in 1 .. Len(acc[k]) : f[i] = f[j] => i = j
          /\ \A i \in 1 .. Len(acc[k]) : acc[k][i] = ss[f[i]] /\ ss[f[i]] \in T
      BY <2>1, <3>1
    <3>5. \A j \in 1 .. k : ss[j] \in T => \E i \in 1 .. Len(acc[k]) : f[i] = j
      BY <2>1, <3>1, <3>3
    <3>6. Follows(acc[k], k)
      BY <3>2, <3>4, <3>5
    <3> HIDE DEF Follows
    <3> QED BY <1>1, <3>6
  <2> HIDE DEF G
  <2> QED BY <2>4, <2>5
<1>6. n \in G
  <2>1. n \in 0 .. n
    BY <1>1
  <2> HIDE DEF G, n
  <2> QED BY <1>1, <1>4, <1>5, <2>1, UpTo
<1>7. Only(ss, T) \in Seq(S)
  BY <1>1, <1>3
<1>8. DOMAIN Only(ss, T) = 1 .. Len(Only(ss, T))
  BY <1>7
<1>9. Follows(Only(ss, T), n)
  BY <1>3, <1>6
<1>10. PICK f \in [1 .. Len(Only(ss, T)) -> 1 .. n] :
          /\ \A i, j \in 1 .. Len(Only(ss, T)) : f[i] = f[j] => i = j
          /\ \A i \in 1 .. Len(Only(ss, T)) : Only(ss, T)[i] = ss[f[i]] /\ ss[f[i]] \in T
          /\ \A j \in 1 .. n : ss[j] \in T => \E i \in 1 .. Len(Only(ss, T)) : f[i] = j
  BY <1>9
<1> HIDE DEF G, n
<1>11. f \in [DOMAIN Only(ss, T) -> DOMAIN ss]
  BY <1>1, <1>8, <1>10
<1>12. \A i, j \in DOMAIN Only(ss, T) : f[i] = f[j] => i = j
  BY <1>8, <1>10
<1>13. \A i \in DOMAIN Only(ss, T) : Only(ss, T)[i] = ss[f[i]] /\ ss[f[i]] \in T
  BY <1>8, <1>10
<1>14. \A j \in DOMAIN ss : ss[j] \in T => \E i \in DOMAIN Only(ss, T) : f[i] = j
  BY <1>1, <1>8, <1>10
<1> QED BY <1>7, <1>11, <1>12, <1>13, <1>14

Picks(out, ss, T) ==
    /\ \A i \in DOMAIN out : out[i] \in T /\ \E j \in DOMAIN ss : out[i] = ss[j]
    /\ \A j \in DOMAIN ss : ss[j] \in T => \E i \in DOMAIN out : out[i] = ss[j]
    /\ out # <<>> => 1 \in DOMAIN out /\ Head(out) = out[1]

LEMMA OnlyIn ==
    ASSUME NEW S, NEW ss \in Seq(S), NEW T
    PROVE  Only(ss, T) \in Seq(S) /\ Picks(Only(ss, T), ss, T)
<1>1. /\ Only(ss, T) \in Seq(S)
      /\ \E f \in [DOMAIN Only(ss, T) -> DOMAIN ss] :
            /\ \A i, j \in DOMAIN Only(ss, T) : f[i] = f[j] => i = j
            /\ \A i \in DOMAIN Only(ss, T) : Only(ss, T)[i] = ss[f[i]] /\ ss[f[i]] \in T
            /\ \A j \in DOMAIN ss : ss[j] \in T => \E i \in DOMAIN Only(ss, T) : f[i] = j
  BY OnlyPlaces
<1>2. Only(ss, T) # <<>> => 1 \in DOMAIN Only(ss, T) /\ Head(Only(ss, T)) = Only(ss, T)[1]
  BY <1>1
<1> QED BY <1>1, <1>2 DEF Picks

\* What Only picks of the statuses in force.
LEMMA PickedIs ==
    ASSUME NEW S, NEW c, c.statuses \in Seq(S), NEW T
    PROVE  /\ InForce(c) \in Seq(S) /\ Only(InForce(c), T) \in Seq(S)
           /\ Picks(InForce(c), c.statuses, {s \in ToSet(c.statuses) : s.left # 0})
           /\ Picks(Only(InForce(c), T), c.statuses, {s \in ToSet(c.statuses) : s.left # 0 /\ s \in T})
<1> DEFINE q == InForce(c)
           ss == c.statuses
           A == {s \in ToSet(ss) : s.left # 0}
           B == {s \in ToSet(ss) : s.left # 0 /\ s \in T}
<1>1. q \in Seq(S) /\ Picks(q, ss, A)
  <2>1. q = Only(ss, A)
    BY DEF InForce
  <2> HIDE DEF q, A
  <2> QED BY <2>1, OnlyIn
<1>2. Only(q, T) \in Seq(S) /\ Picks(Only(q, T), q, T)
  <2> HIDE DEF q
  <2> QED BY <1>1, OnlyIn
<1> DEFINE o == Only(q, T)
<1>3. Picks(o, ss, B)
  <2>1. A \in SUBSET ToSet(ss) /\ \A s \in A : s \in T => s \in B
    OBVIOUS
  <2> HIDE DEF q, A, B, o
  <2>2. ASSUME NEW i \in DOMAIN o PROVE o[i] \in B /\ \E j \in DOMAIN ss : o[i] = ss[j]
    <3>1. PICK j \in DOMAIN q : o[i] = q[j] /\ o[i] \in T
      BY <1>2 DEF Picks, o
    <3> QED BY <1>1, <2>1, <3>1 DEF Picks
  <2>3. ASSUME NEW j \in DOMAIN ss, ss[j] \in B PROVE \E i \in DOMAIN o : o[i] = ss[j]
    <3>1. ss[j] \in A /\ ss[j] \in T
      BY <2>3 DEF A, B
    <3>2. PICK i \in DOMAIN q : q[i] = ss[j]
      BY <1>1, <3>1 DEF Picks
    <3> QED BY <1>2, <3>1, <3>2 DEF Picks, o
  <2>4. o # <<>> => 1 \in DOMAIN o /\ Head(o) = o[1]
    BY <1>2 DEF Picks, o
  <2> QED BY <2>2, <2>3, <2>4 DEF Picks
<1> QED BY <1>1, <1>2, <1>3

-----------------------------------------------------------------------------
(* Statuses and fighters *)

Clocks == {"source", "target", "turn"} \cup {Kind[id].clock : id \in DOMAIN Kind}
Cools == UNION {[K -> Int] : K \in SUBSET DOMAIN Skill}

At(t) == IF t % 2 = 1 THEN First ELSE Second

\* The turns of its clock that a status of c has seen when turn u begins.
Counts(s, c, t) ==
    CASE s.clock = "source" -> At(t) = Side[s.by]
      [] s.clock = "target" -> At(t) = Side[c]
      [] s.clock = "round"  -> At(t) = Second
      [] OTHER -> TRUE
Elapsed(s, c, u) == Cardinality({t \in s.born + 1 .. u - 1 : Counts(s, c, t)})

StatusShape(m) ==
    [id : DOMAIN Kind, by : m, to : m \cup {NoOne}, born : Nat, clock : Clocks, left : Int,
     full : Int, stacks : Nat \ {0}, defense : Nat]

\* The time left is what was given less what has passed; z says whether the turn
\* is played or cleaned up, when a status may be at its end.
OnTime(s, c, u, z) ==
    /\ s.left = 0 => z = "cleanup"
    /\ s.born <= u
    /\ s.left # 0 => (s.left > 0 <=> s.full > 0)
    /\ s.left < 0 => Lasting(s.id)
    /\ s.left # 0 /\ s.born > 0 /\ s.full > 0 => s.left = s.full - Elapsed(s, c, u)

StatusSet(m, c, u, z) ==
    {s \in StatusShape(m) : OnTime(s, c, u, z) /\ (Kind[s.id].redirect => s.to \in m)}

FighterShape(m, c, u, z) ==
    [hp : 0 .. MaxHp, alive : BOOLEAN, acted : BOOLEAN, reduced : Int, awake : BOOLEAN,
     statuses : Seq(StatusSet(m, c, u, z)), swap : [Base[c] -> DOMAIN Skill], cool : Cools]

\* At most one status of a kind replaces, and the slots are as they say.
Single(ss) ==
    \A i, j \in DOMAIN ss : ss[i].id = ss[j].id /\ Replacing(ss[i].id) => i = j
Backs(s, k) == k \in DOMAIN Kind[s.id].swap /\ Unlocked(s)
Backed(ss, swap) ==
    \A k \in DOMAIN swap :
        /\ \A i \in DOMAIN ss : Backs(ss[i], k) => swap[k] = Kind[ss[i].id].swap[k]
        /\ swap[k] # k => \E i \in DOMAIN ss : Backs(ss[i], k)

Fighters(m, c, u, z) ==
    {x \in FighterShape(m, c, u, z) :
        (x.alive <=> x.hp > 0) /\ Single(x.statuses) /\ Backed(x.statuses, x.swap)}

LEMMA KindFacts ==
    ASSUME NEW id \in DOMAIN Kind
    PROVE  /\ Kind[id].for \in Int /\ Kind[id].for # 0
           /\ Kind[id].max \in Nat /\ Kind[id].unlock \in Nat /\ Kind[id].defense \in Nat
           /\ Kind[id].reduction \in Int /\ Kind[id].taken \in Int /\ Kind[id].output \in Int
           /\ Kind[id].healing \in Int /\ Kind[id].wild_delta \in Int
           /\ Kind[id].poison \in Int /\ Kind[id].retaliate \in Int /\ Kind[id].drains \in Int
BY KindAssumption

LEMMA GivenFacts ==
    ASSUME NEW id \in DOMAIN Kind,
           NEW g \in {Kind[id].spite, Kind[id].grants, Kind[id].punish, Kind[id].exposes, Kind[id].reward},
           g # ""
    PROVE  g \in DOMAIN Kind /\ ~Kind[g].redirect /\ ~Replacing(g)
BY KindAssumption

LEMMA GivesFacts ==
    ASSUME NEW c \in DOMAIN Passive
    PROVE  /\ Passive[c].gives \in DOMAIN Kind /\ ~Kind[Passive[c].gives].redirect
           /\ ~Replacing(Passive[c].gives)
BY KindAssumption

LEMMA ElapsedSame ==
    ASSUME NEW s, NEW r, NEW c, NEW u, s.born = r.born, s.clock = r.clock, s.by = r.by
    PROVE  Elapsed(s, c, u) = Elapsed(r, c, u)
BY DEF Elapsed, Counts

LEMMA StatusFacts ==
    ASSUME NEW m, NEW c, NEW u, NEW z, NEW s \in StatusSet(m, c, u, z)
    PROVE  /\ s \in StatusShape(m)
           /\ s.id \in DOMAIN Kind /\ s.by \in m /\ s.to \in m \cup {NoOne} /\ s.born \in Nat
           /\ s.clock \in Clocks /\ s.left \in Int /\ s.full \in Int /\ s.stacks \in Nat \ {0}
           /\ s.defense \in Nat /\ OnTime(s, c, u, z) /\ (Kind[s.id].redirect => s.to \in m)
BY DEF StatusSet, StatusShape

\* Another status with the same time.
LEMMA StatusChanged ==
    ASSUME NEW m, NEW c, NEW u, NEW z, NEW s \in StatusSet(m, c, u, z), NEW r \in StatusShape(m),
           r.id = s.id, r.to = s.to, r.born = s.born, r.clock = s.clock, r.by = s.by,
           r.left = s.left, r.full = s.full
    PROVE  r \in StatusSet(m, c, u, z)
BY StatusFacts, ElapsedSame DEF StatusSet, OnTime

\* A fresh status of the engine has no turn it was applied in.
LEMMA BareStatus ==
    ASSUME NEW m, NEW c, NEW u \in Nat, NEW z, NEW id \in DOMAIN Kind, ~Kind[id].redirect,
           NEW by \in m, NEW clock \in Clocks, NEW for \in Int \ {0}, for < 0 => Lasting(id)
    PROVE  Status(id, by, NoOne, 0, clock, for) \in StatusSet(m, c, u, z)
<1>1. Kind[id].defense \in Nat
  BY KindFacts
<1> QED BY <1>1 DEF Status, StatusSet, StatusShape, OnTime, Clocks

\* One that a skill applies in turn u has its whole time left.
LEMMA AppliedStatus ==
    ASSUME NEW m, NEW c, NEW u \in Nat, NEW z, NEW id \in DOMAIN Kind,
           NEW by \in m, NEW to \in m \cup {NoOne}, Kind[id].redirect => to \in m, NEW clock \in Clocks
    PROVE  Status(id, by, to, u, clock, Kind[id].for) \in StatusSet(m, c, u, z)
<1> DEFINE s == Status(id, by, to, u, clock, Kind[id].for)
<1>1. Kind[id].defense \in Nat /\ Kind[id].for \in Int /\ Kind[id].for # 0
  BY KindFacts
<1>2. /\ s \in StatusShape(m) /\ s.id = id /\ s.to = to /\ s.born = u /\ s.left = Kind[id].for
      /\ s.full = Kind[id].for
  BY <1>1 DEF Status, StatusShape
<1>3. Elapsed(s, c, u) = 0
  <2>1. {t \in s.born + 1 .. u - 1 : Counts(s, c, t)} = {}
    BY <1>2
  <2> QED BY <2>1, FS_EmptySet DEF Elapsed
<1>4. OnTime(s, c, u, z)
  <2> HIDE DEF s
  <2> QED BY <1>1, <1>2, <1>3 DEF OnTime, Lasting
<1> QED BY <1>2, <1>4 DEF StatusSet

LEMMA FighterFacts ==
    ASSUME NEW m, NEW c, NEW u, NEW z, NEW x \in Fighters(m, c, u, z)
    PROVE  /\ x.hp \in 0 .. MaxHp /\ x.alive \in BOOLEAN /\ x.acted \in BOOLEAN /\ x.reduced \in Int
           /\ x.awake \in BOOLEAN /\ x.statuses \in Seq(StatusSet(m, c, u, z))
           /\ x.swap \in [Base[c] -> DOMAIN Skill] /\ x.cool \in Cools
           /\ (x.alive <=> x.hp > 0) /\ Single(x.statuses) /\ Backed(x.statuses, x.swap)
           /\ x = [hp |-> x.hp, alive |-> x.alive, acted |-> x.acted, reduced |-> x.reduced,
                   awake |-> x.awake, statuses |-> x.statuses, swap |-> x.swap, cool |-> x.cool]
BY DEF Fighters, FighterShape

LEMMA StatusAt ==
    ASSUME NEW m, NEW c, NEW u, NEW z, NEW ss \in Seq(StatusSet(m, c, u, z)), NEW i \in DOMAIN ss
    PROVE  ss[i] \in StatusSet(m, c, u, z)
OBVIOUS

-----------------------------------------------------------------------------
(* What the statuses of a fighter add up to *)

SumField == {"reduction", "taken", "output", "healing", "wild_delta"}

LEMMA TotalIsNumber ==
    ASSUME NEW m, NEW c, NEW u, NEW z, NEW x \in Fighters(m, c, u, z), NEW field \in SumField
    PROVE  Total(x, field) \in Int
<1> DEFINE S == StatusSet(m, c, u, z)
           q == InForce(x)
<1>1. q \in Seq(S)
  BY FighterFacts, PickedIs
<1>2. \A i \in DOMAIN q : q[i] \in S
  BY <1>1
<1>3. \A s \in S : Kind[s.id][field] \in Int
  BY StatusFacts, KindFacts DEF SumField
<1>4. 0 \in Int /\ \A v \in Int, i \in DOMAIN q : v + Kind[q[i].id][field] \in Int
  <2> HIDE DEF q, S
  <2> QED BY <1>2, <1>3
<1>5. Total(x, field) \in Int
  <2> HIDE DEF S
  <2> QED BY <1>1, <1>4, TotalStays
<1> QED BY <1>5

LEMMA ShieldIsNumber ==
    ASSUME NEW m, NEW c, NEW u, NEW z, NEW x \in Fighters(m, c, u, z)
    PROVE  Shield(x) \in Nat
<1> DEFINE S == StatusSet(m, c, u, z)
           q == InForce(x)
<1>1. q \in Seq(S)
  BY FighterFacts, PickedIs
<1>2. \A i \in DOMAIN q : q[i] \in S
  BY <1>1
<1>3. \A s \in S : s.defense \in Nat
  BY StatusFacts
<1>4. 0 \in Nat /\ \A v \in Nat, i \in DOMAIN q : v + q[i].defense \in Nat
  <2> HIDE DEF q, S
  <2> QED BY <1>2, <1>3
<1>5. Shield(x) \in Nat
  <2> HIDE DEF S
  <2> QED BY <1>1, <1>4, ShieldStays
<1> QED BY <1>5

\* The same statuses, but for their time and their defense.
SameKinds(rr, ss) ==
    Len(rr) = Len(ss) /\ \A i \in DOMAIN ss : rr[i].id = ss[i].id /\ rr[i].stacks = ss[i].stacks

\* Wear takes from the defenses and leaves the rest.
LEMMA WornIs ==
    ASSUME NEW m, NEW c, NEW u, NEW z, NEW ss \in Seq(StatusSet(m, c, u, z)), NEW d \in Int
    PROVE  Worn(ss, d) \in Seq(StatusSet(m, c, u, z)) /\ SameKinds(Worn(ss, d), ss)
<1> DEFINE S == StatusSet(m, c, u, z)
           V == [n : Int, out : Seq(S)]
           n == Len(ss)
           Bear(v, s) == IF s.left = 0 THEN 0 ELSE Min({s.defense, v.n})
<1>1. n \in Nat /\ DOMAIN ss = 1 .. n /\ \A i \in 1 .. n : ss[i] \in S
  OBVIOUS
<1>2. ASSUME NEW v \in V, NEW s \in S
      PROVE  /\ Bears(v, s) \in V /\ Len(Bears(v, s).out) = Len(v.out) + 1
             /\ \A i \in 1 .. Len(v.out) : Bears(v, s).out[i] = v.out[i]
             /\ LET r == Bears(v, s).out[Len(v.out) + 1] IN r.id = s.id /\ r.stacks = s.stacks
  <2>1. v.n \in Int /\ v.out \in Seq(S) /\ s.defense \in Nat
    BY <1>2, StatusFacts
  <2>2. Bear(v, s) \in Int /\ s.defense - Bear(v, s) \in Nat
    BY <2>1, MinOfTwo
  <2> DEFINE r == [s EXCEPT !.defense = @ - Bear(v, s)]
  <2>3. r \in S /\ r.id = s.id /\ r.stacks = s.stacks
    <3>1. s \in StatusShape(m)
      BY <1>2, StatusFacts
    <3>2. /\ r \in StatusShape(m) /\ r.id = s.id /\ r.to = s.to /\ r.born = s.born /\ r.clock = s.clock
          /\ r.by = s.by /\ r.left = s.left /\ r.full = s.full /\ r.stacks = s.stacks
      <4> HIDE DEF Bear
      <4> QED BY <2>2, <3>1 DEF StatusShape
    <3> HIDE DEF r
    <3> QED BY <1>2, <3>2, StatusChanged
  <2>4. Bears(v, s) = [n |-> v.n - Bear(v, s), out |-> Append(v.out, r)]
    BY DEF Bears
  <2> HIDE DEF r, Bear, S
  <2>5. Append(v.out, r) \in Seq(S) /\ Len(Append(v.out, r)) = Len(v.out) + 1
    BY <2>1, <2>3
  <2>6. \A i \in 1 .. Len(v.out) : Append(v.out, r)[i] = v.out[i]
    BY <2>1, <2>3
  <2>7. Append(v.out, r)[Len(v.out) + 1] = r
    BY <2>1, <2>3
  <2> QED BY <2>1, <2>2, <2>3, <2>4, <2>5, <2>6, <2>7
<1>3. [n |-> d, out |-> <<>>] \in V
  OBVIOUS
<1>4. PICK acc : /\ acc[0] = [n |-> d, out |-> <<>>] /\ acc[n] = Wear(ss, d)
                 /\ \A k \in 0 .. n : acc[k] \in V
                 /\ \A k \in 1 .. n : acc[k] = Bears(acc[k - 1], ss[k])
  <2>1. \A v \in V, i \in DOMAIN ss : Bears(v, ss[i]) \in V
    <3> HIDE DEF V, S
    <3> QED BY <1>1, <1>2
  <2> HIDE DEF V
  <2> QED BY <1>3, <2>1, WearSteps
<1> DEFINE Like(out, k) == Len(out) = k /\ \A i \in 1 .. k : out[i].id = ss[i].id /\ out[i].stacks = ss[i].stacks
           G == {k \in 0 .. n : Like(acc[k].out, k)}
<1>5. 0 \in G
  BY <1>1, <1>4
<1>6. ASSUME NEW k \in 1 .. n, k - 1 \in G PROVE k \in G
  <2> DEFINE a == acc[k - 1]
  <2>1. a \in V /\ ss[k] \in S /\ acc[k] = Bears(a, ss[k]) /\ k - 1 \in Nat
    BY <1>1, <1>4
  <2>2. Like(a.out, k - 1)
    BY <1>6
  <2> HIDE DEF a, V, S
  <2>3. /\ Len(acc[k].out) = Len(a.out) + 1
        /\ \A i \in 1 .. Len(a.out) : acc[k].out[i] = a.out[i]
        /\ acc[k].out[Len(a.out) + 1].id = ss[k].id
        /\ acc[k].out[Len(a.out) + 1].stacks = ss[k].stacks
    BY <1>2, <2>1
  <2>4. Len(a.out) = k - 1
    BY <2>2
  <2>5. Len(acc[k].out) = k /\ acc[k].out[k].id = ss[k].id /\ acc[k].out[k].stacks = ss[k].stacks
    BY <2>3, <2>4
  <2>6. \A i \in 1 .. (k - 1) : acc[k].out[i].id = ss[i].id /\ acc[k].out[i].stacks = ss[i].stacks
    BY <2>2, <2>3, <2>4
  <2>7. \A i \in 1 .. k : i = k \/ i \in 1 .. (k - 1)
    OBVIOUS
  <2>8. Like(acc[k].out, k)
    BY <2>5, <2>6, <2>7
  <2> HIDE DEF Like
  <2> QED BY <1>1, <2>8
<1>7. n \in G
  <2>1. n \in 0 .. n
    BY <1>1
  <2> HIDE DEF G, n
  <2> QED BY <1>1, <1>5, <1>6, <2>1, UpTo
<1>8. acc[n].out = Worn(ss, d) /\ acc[n] \in V
  BY <1>1, <1>4 DEF Worn
<1> QED BY <1>1, <1>7, <1>8 DEF SameKinds

-----------------------------------------------------------------------------
(* Replacements *)

LEMMA ReplacementFacts ==
    ASSUME NEW id \in DOMAIN Kind, Replacing(id)
    PROVE  /\ \A j \in DOMAIN Kind : j # id => DOMAIN Kind[id].swap \cap DOMAIN Kind[j].swap = {}
           /\ \A k \in DOMAIN Kind[id].swap :
                 Kind[id].swap[k] \in DOMAIN Skill /\ Kind[id].swap[k] # k /\ k \in DOMAIN Skill
           /\ Kind[id].max = 0 => Kind[id].unlock <= 1
BY ReplacementAssumption

\* A slot is covered by the statuses of one kind at most.
LEMMA OneCover ==
    ASSUME NEW i \in DOMAIN Kind, NEW j \in DOMAIN Kind, NEW k \in DOMAIN Kind[i].swap, k \in DOMAIN Kind[j].swap
    PROVE  i = j /\ Replacing(i)
<1>1. Replacing(i)
  BY DEF Replacing
<1> QED BY <1>1, ReplacementFacts

LEMMA KindsKept ==
    ASSUME NEW S, NEW R, NEW ss \in Seq(S), NEW rr \in Seq(R), NEW swap, SameKinds(rr, ss),
           Single(ss), Backed(ss, swap)
    PROVE  Single(rr) /\ Backed(rr, swap)
<1>1. DOMAIN rr = DOMAIN ss /\ \A i \in DOMAIN ss : rr[i].id = ss[i].id /\ rr[i].stacks = ss[i].stacks
  BY DEF SameKinds
<1>2. Single(rr)
  BY <1>1 DEF Single
<1>3. \A i \in DOMAIN ss, k \in DOMAIN swap : Backs(rr[i], k) <=> Backs(ss[i], k)
  BY <1>1 DEF Backs, Unlocked
<1> QED BY <1>1, <1>2, <1>3 DEF Backed

LEMMA Refreshed ==
    ASSUME NEW m, NEW c, NEW u, NEW z, NEW hp \in 0 .. MaxHp, NEW alive \in BOOLEAN, NEW acted \in BOOLEAN,
           NEW reduced \in Int, NEW awake \in BOOLEAN, NEW ss \in Seq(StatusSet(m, c, u, z)),
           NEW swap \in [Base[c] -> DOMAIN Skill], NEW cool \in Cools,
           alive <=> hp > 0, Single(ss), Backed(ss, swap)
    PROVE  [hp |-> hp, alive |-> alive, acted |-> acted, reduced |-> reduced, awake |-> awake,
            statuses |-> ss, swap |-> swap, cool |-> cool] \in Fighters(m, c, u, z)
BY DEF Fighters, FighterShape

\* The statuses are relabelled one by one.
LEMMA RelabelledIs ==
    ASSUME NEW m, NEW c, NEW u, NEW z, NEW u1, NEW z1, NEW x \in Fighters(m, c, u, z),
           NEW rr \in Seq(StatusSet(m, c, u1, z1)), SameKinds(rr, x.statuses)
    PROVE  [x EXCEPT !.statuses = rr] \in Fighters(m, c, u1, z1)
<1>1. Single(rr) /\ Backed(rr, x.swap)
  BY FighterFacts, KindsKept
<1>2. [x EXCEPT !.statuses = rr]
        = [hp |-> x.hp, alive |-> x.alive, acted |-> x.acted, reduced |-> x.reduced,
           awake |-> x.awake, statuses |-> rr, swap |-> x.swap, cool |-> x.cool]
  BY FighterFacts
<1> QED BY <1>1, <1>2, FighterFacts, Refreshed

\* A status that replaces nothing joins.
LEMMA JoinedIs ==
    ASSUME NEW m, NEW c, NEW u, NEW z, NEW x \in Fighters(m, c, u, z),
           NEW s \in StatusSet(m, c, u, z), ~Replacing(s.id)
    PROVE  [x EXCEPT !.statuses = Append(@, s)] \in Fighters(m, c, u, z)
<1> DEFINE rr == Append(x.statuses, s)
           n == Len(x.statuses)
<1>1. /\ rr \in Seq(StatusSet(m, c, u, z)) /\ n \in Nat /\ Len(rr) = n + 1 /\ rr[n + 1] = s
      /\ DOMAIN rr = 1 .. (n + 1) /\ DOMAIN x.statuses = 1 .. n
      /\ \A i \in 1 .. n : rr[i] = x.statuses[i]
  BY FighterFacts
<1> HIDE DEF rr, n
<1>2. \A i \in 1 .. (n + 1) : i = n + 1 \/ i \in 1 .. n
  BY <1>1
<1>3. Single(rr)
  <2> SUFFICES ASSUME NEW i \in 1 .. (n + 1), NEW j \in 1 .. (n + 1),
                      rr[i].id = rr[j].id, Replacing(rr[i].id)
               PROVE  i = j
    BY <1>1 DEF Single
  <2>1. i \in 1 .. n /\ j \in 1 .. n
    BY <1>1, <1>2
  <2>2. x.statuses[i].id = x.statuses[j].id /\ Replacing(x.statuses[i].id)
    BY <1>1, <2>1
  <2>3. Single(x.statuses)
    BY FighterFacts
  <2> QED BY <1>1, <2>1, <2>2, <2>3 DEF Single
<1>4. Backed(rr, x.swap)
  <2>1. \A k : ~Backs(s, k)
    BY DEF Backs, Replacing
  <2>2. Backed(x.statuses, x.swap)
    BY FighterFacts
  <2>3. \A k, i : i \in 1 .. (n + 1) /\ Backs(rr[i], k) => i \in 1 .. n /\ rr[i] = x.statuses[i]
    BY <1>1, <1>2, <2>1
  <2>4. \A k, i : i \in 1 .. n /\ Backs(x.statuses[i], k) => i \in 1 .. (n + 1) /\ Backs(rr[i], k)
    BY <1>1
  <2> QED BY <1>1, <2>2, <2>3, <2>4 DEF Backed
<1>5. [x EXCEPT !.statuses = Append(@, s)]
        = [hp |-> x.hp, alive |-> x.alive, acted |-> x.acted, reduced |-> x.reduced,
           awake |-> x.awake, statuses |-> rr, swap |-> x.swap, cool |-> x.cool]
  <2>1. x = [hp |-> x.hp, alive |-> x.alive, acted |-> x.acted, reduced |-> x.reduced,
             awake |-> x.awake, statuses |-> x.statuses, swap |-> x.swap, cool |-> x.cool]
    BY FighterFacts
  <2>2. [x EXCEPT !.statuses = Append(@, s)] = [x EXCEPT !.statuses = rr]
    BY DEF rr
  <2> QED BY <2>1, <2>2
<1> QED BY <1>1, <1>3, <1>4, <1>5, FighterFacts, Refreshed

LEMMA GainedIs ==
    ASSUME NEW m, NEW c, NEW u, NEW z, NEW x \in Fighters(m, c, u, z),
           NEW qq \in Seq(StatusSet(m, c, u, z)), \A i \in DOMAIN qq : ~Replacing(qq[i].id)
    PROVE  Gained(x, qq) \in Fighters(m, c, u, z) /\ Gained(x, qq).swap = x.swap
<1> DEFINE ss == x.statuses
           rr == ss \o qq
           n == Len(ss)
           l == Len(qq)
<1>1. /\ rr \in Seq(StatusSet(m, c, u, z)) /\ n \in Nat /\ l \in Nat
      /\ DOMAIN rr = 1 .. (n + l) /\ DOMAIN ss = 1 .. n /\ DOMAIN qq = 1 .. l
      /\ \A i \in 1 .. n : rr[i] = ss[i]
      /\ \A i \in 1 .. (n + l) : i \notin 1 .. n => i - n \in 1 .. l /\ rr[i] = qq[i - n]
  BY FighterFacts
<1>2. Single(ss) /\ Backed(ss, x.swap)
  BY FighterFacts
<1>3. Gained(x, qq)
        = [hp |-> x.hp, alive |-> x.alive, acted |-> x.acted, reduced |-> x.reduced,
           awake |-> x.awake, statuses |-> rr, swap |-> x.swap, cool |-> x.cool]
  <2>1. x = [hp |-> x.hp, alive |-> x.alive, acted |-> x.acted, reduced |-> x.reduced,
             awake |-> x.awake, statuses |-> ss, swap |-> x.swap, cool |-> x.cool]
    BY FighterFacts
  <2>2. Gained(x, qq) = [x EXCEPT !.statuses = rr]
    BY DEF Gained
  <2> HIDE DEF rr
  <2> QED BY <2>1, <2>2
<1> HIDE DEF rr, n, l
<1>4. \A i \in DOMAIN rr : Replacing(rr[i].id) => i \in 1 .. n
  BY <1>1
<1>5. Single(rr)
  <2> SUFFICES ASSUME NEW i \in DOMAIN rr, NEW j \in DOMAIN rr, rr[i].id = rr[j].id, Replacing(rr[i].id)
               PROVE  i = j
    BY DEF Single
  <2>1. i \in 1 .. n /\ j \in 1 .. n
    BY <1>4
  <2>2. i \in DOMAIN ss /\ j \in DOMAIN ss /\ ss[i].id = ss[j].id /\ Replacing(ss[i].id)
    BY <1>1, <2>1
  <2> HIDE DEF ss
  <2> QED BY <1>2, <2>2 DEF Single
<1>6. Backed(rr, x.swap)
  <2>1. \A k : \A i \in DOMAIN rr : Backs(rr[i], k) => i \in DOMAIN ss /\ rr[i] = ss[i]
    BY <1>1, <1>4 DEF Backs, Replacing
  <2>2. \A i \in DOMAIN ss : i \in DOMAIN rr /\ rr[i] = ss[i]
    BY <1>1
  <2>3. ASSUME NEW k \in DOMAIN x.swap, NEW i \in DOMAIN rr, Backs(rr[i], k)
        PROVE  x.swap[k] = Kind[rr[i].id].swap[k]
    BY <1>2, <2>1, <2>3 DEF Backed
  <2>4. ASSUME NEW k \in DOMAIN x.swap, x.swap[k] # k PROVE \E i \in DOMAIN rr : Backs(rr[i], k)
    <3>1. PICK i \in DOMAIN ss : Backs(ss[i], k)
      BY <1>2, <2>4 DEF Backed
    <3> QED BY <2>2, <3>1
  <2> HIDE DEF ss
  <2> QED BY <2>3, <2>4 DEF Backed
<1>7. Gained(x, qq) \in Fighters(m, c, u, z)
  BY <1>1, <1>3, <1>5, <1>6, FighterFacts, Refreshed
<1> QED BY <1>3, <1>7

\* As many statuses, one for each of another sequence.
LEMMA EachIs ==
    ASSUME NEW S, NEW T, NEW q \in Seq(T), NEW f, DOMAIN f = DOMAIN q, f = [i \in DOMAIN f |-> f[i]],
           \A i \in DOMAIN q : f[i] \in S
    PROVE  f \in Seq(S)
<1>1. Len(q) \in Nat /\ DOMAIN q = 1 .. Len(q)
  OBVIOUS
<1>2. f \in [1 .. Len(q) -> S]
  BY <1>1
<1> QED BY <1>1, <1>2

LEMMA SwappedPlain ==
    ASSUME NEW m, NEW c, NEW u, NEW z, NEW x \in Fighters(m, c, u, z), NEW s, ~Replacing(s.id)
    PROVE  Swapped(x, s) = x
<1>1. x.swap = [k \in DOMAIN x.swap |-> x.swap[k]]
  BY FighterFacts
<1>2. DOMAIN Kind[s.id].swap = {}
  BY DEF Replacing
<1>3. Swapped(x, s) = [x EXCEPT !.swap = [k \in DOMAIN x.swap |-> x.swap[k]]]
  BY <1>2 DEF Swapped, Unswapped
<1> QED BY <1>1, <1>3, FighterFacts

\* What a slot that a kind covers can hold.
LEMMA SlotIs ==
    ASSUME NEW m, NEW c, NEW u, NEW z, NEW x \in Fighters(m, c, u, z), NEW id \in DOMAIN Kind,
           NEW k \in Base[c], k \in DOMAIN Kind[id].swap
    PROVE  x.swap[k] = k \/ x.swap[k] = Kind[id].swap[k]
<1> SUFFICES ASSUME x.swap[k] # k PROVE x.swap[k] = Kind[id].swap[k]
  OBVIOUS
<1>1. DOMAIN x.swap = Base[c]
  BY FighterFacts
<1>2. PICK i \in DOMAIN x.statuses : Backs(x.statuses[i], k)
  BY <1>1, FighterFacts DEF Backed
<1>3. x.swap[k] = Kind[x.statuses[i].id].swap[k]
  BY <1>1, <1>2, FighterFacts DEF Backed
<1>4. x.statuses[i].id \in DOMAIN Kind
  BY FighterFacts, StatusFacts
<1> QED BY <1>2, <1>3, <1>4, OneCover DEF Backs

\* Other statuses, the swaps put right by the j-th of them.
LEMMA ReswappedIs ==
    ASSUME NEW m, NEW c \in Character, NEW u, NEW z, NEW x \in Fighters(m, c, u, z),
           NEW rr \in Seq(StatusSet(m, c, u, z)), Single(rr), NEW j \in DOMAIN rr,
           \A k \in Base[c] : k \notin DOMAIN Kind[rr[j].id].swap =>
              /\ \A i \in DOMAIN rr : Backs(rr[i], k) => x.swap[k] = Kind[rr[i].id].swap[k]
              /\ x.swap[k] # k => \E i \in DOMAIN rr : Backs(rr[i], k)
    PROVE  Swapped([x EXCEPT !.statuses = rr], rr[j]) \in Fighters(m, c, u, z)
<1> DEFINE s == rr[j]
           id == s.id
           y == [x EXCEPT !.statuses = rr]
           swap == [k \in Base[c] |->
                      IF k \notin DOMAIN Kind[id].swap THEN x.swap[k]
                      ELSE IF Unlocked(s) THEN Kind[id].swap[k] ELSE k]
<1>1. id \in DOMAIN Kind /\ \A i \in DOMAIN rr : rr[i].id \in DOMAIN Kind
  BY StatusFacts
<1>2. /\ y = [hp |-> x.hp, alive |-> x.alive, acted |-> x.acted, reduced |-> x.reduced,
              awake |-> x.awake, statuses |-> rr, swap |-> x.swap, cool |-> x.cool]
      /\ DOMAIN x.swap = Base[c]
  BY FighterFacts
<1>3. Swapped(y, s)
        = [hp |-> x.hp, alive |-> x.alive, acted |-> x.acted, reduced |-> x.reduced,
           awake |-> x.awake, statuses |-> rr, swap |-> swap, cool |-> x.cool]
  <2>1. CASE Unlocked(s)
    <3>1. swap = [k \in DOMAIN x.swap |->
                    IF k \in DOMAIN Kind[id].swap THEN Kind[id].swap[k] ELSE x.swap[k]]
      BY <1>2, <2>1
    <3>2. Swapped(y, s) = [y EXCEPT !.swap = swap]
      <4> HIDE DEF swap, s, id
      <4> QED BY <1>2, <2>1, <3>1 DEF Swapped, id
    <3> HIDE DEF y, swap
    <3> QED BY <1>2, <3>2
  <2>2. CASE ~Unlocked(s)
    <3>1. \A k \in Base[c] : k \in DOMAIN Kind[id].swap => x.swap[k] = k \/ x.swap[k] = Kind[id].swap[k]
      BY <1>1, SlotIs
    <3>2. swap = [k \in DOMAIN x.swap |->
                    IF k \in DOMAIN Kind[id].swap /\ x.swap[k] = Kind[id].swap[k] THEN k ELSE x.swap[k]]
      <4> HIDE DEF id, s
      <4> QED BY <1>2, <2>2, <3>1
    <3>3. Swapped(y, s) = [y EXCEPT !.swap = swap]
      <4> HIDE DEF swap, s, id
      <4> QED BY <1>2, <2>2, <3>2 DEF Swapped, Unswapped, id
    <3> HIDE DEF y, swap
    <3> QED BY <1>2, <3>3
  <2> QED BY <2>1, <2>2
<1>4. swap \in [Base[c] -> DOMAIN Skill]
  <2>1. \A k \in Base[c] : k \in DOMAIN Skill /\ x.swap[k] \in DOMAIN Skill
    BY FighterFacts, CombatAssumption
  <2>2. \A k \in DOMAIN Kind[id].swap : Kind[id].swap[k] \in DOMAIN Skill
    BY <1>1, ReplacementFacts DEF Replacing
  <2> HIDE DEF id, s
  <2> QED BY <2>1, <2>2
<1>5. Backed(rr, swap)
  <2>1. SUFFICES ASSUME NEW k \in Base[c]
                 PROVE  /\ \A i \in DOMAIN rr : Backs(rr[i], k) => swap[k] = Kind[rr[i].id].swap[k]
                        /\ swap[k] # k => \E i \in DOMAIN rr : Backs(rr[i], k)
    BY DEF Backed
  <2>2. CASE k \notin DOMAIN Kind[id].swap
    BY <2>2
  <2>3. CASE k \in DOMAIN Kind[id].swap
    <3>1. ASSUME NEW i \in DOMAIN rr, Backs(rr[i], k) PROVE i = j
      <4>1. rr[i].id = id /\ Replacing(rr[i].id)
        BY <1>1, <2>3, <3>1, OneCover DEF Backs
      <4> QED BY <4>1 DEF Single
    <3>2. Backs(s, k) <=> Unlocked(s)
      BY <2>3 DEF Backs
    <3>3. CASE Unlocked(s)
      BY <2>3, <3>1, <3>2, <3>3
    <3>4. CASE ~Unlocked(s)
      BY <2>3, <3>1, <3>2, <3>4
    <3> QED BY <3>3, <3>4
  <2> QED BY <2>2, <2>3
<1> HIDE DEF swap, y
<1> QED BY <1>3, <1>4, <1>5, FighterFacts, Refreshed DEF y

\* The slots of x once the statuses of qq have given theirs back.
GivenBack(c, x, qq) ==
    [k \in Base[c] |->
        IF \E i \in DOMAIN qq : k \in DOMAIN Kind[qq[i].id].swap /\ x.swap[k] = Kind[qq[i].id].swap[k]
        THEN k ELSE x.swap[k]]

WithSwap(x, swap) == [x EXCEPT !.swap = swap]

LEMMA TakenBackIs ==
    ASSUME NEW m, NEW c \in Character, NEW u, NEW z, NEW S, NEW qq \in Seq(S),
           NEW x \in FighterShape(m, c, u, z),
           \A i \in DOMAIN qq : qq[i].id \in DOMAIN Kind
    PROVE  TakenBack(x, qq) = WithSwap(x, GivenBack(c, x, qq))
<1> DEFINE n == Len(qq)
           swap == x.swap
           With(g) == WithSwap(x, g)
           V == {With(g) : g \in [Base[c] -> DOMAIN Skill]}
           Lost(k, j) == \E i \in 1 .. j : k \in DOMAIN Kind[qq[i].id].swap /\ swap[k] = Kind[qq[i].id].swap[k]
           At1(j) == [k \in Base[c] |-> IF Lost(k, j) THEN k ELSE swap[k]]
<1>1. n \in Nat /\ DOMAIN qq = 1 .. n
  OBVIOUS
<1>2. swap \in [Base[c] -> DOMAIN Skill] /\ \A k \in Base[c] : k \in DOMAIN Skill /\ swap[k] \in DOMAIN Skill
  BY CombatAssumption DEF FighterShape
<1>3. \A g : With(g).swap = g /\ \A h : [With(g) EXCEPT !.swap = h] = With(h)
  BY DEF FighterShape, WithSwap
<1>4. ASSUME NEW g \in [Base[c] -> DOMAIN Skill], NEW s
      PROVE  Unswapped(With(g), s)
               = With([k \in Base[c] |->
                    IF k \in DOMAIN Kind[s.id].swap /\ g[k] = Kind[s.id].swap[k] THEN k ELSE g[k]])
  <2>1. DOMAIN g = Base[c]
    OBVIOUS
  <2> HIDE DEF With
  <2> QED BY <1>3, <2>1 DEF Unswapped
<1>5. \A v \in V, i \in DOMAIN qq : Unswapped(v, qq[i]) \in V
  <2>1. ASSUME NEW g \in [Base[c] -> DOMAIN Skill], NEW s
        PROVE  [k \in Base[c] |-> IF k \in DOMAIN Kind[s.id].swap /\ g[k] = Kind[s.id].swap[k] THEN k ELSE g[k]]
                  \in [Base[c] -> DOMAIN Skill]
    BY <1>2
  <2>2. ASSUME NEW v \in V, NEW i \in DOMAIN qq PROVE Unswapped(v, qq[i]) \in V
    <3>1. PICK g \in [Base[c] -> DOMAIN Skill] : v = With(g)
      BY <2>2
    <3> DEFINE h == [k \in Base[c] |-> IF k \in DOMAIN Kind[qq[i].id].swap /\ g[k] = Kind[qq[i].id].swap[k]
                                       THEN k ELSE g[k]]
    <3>2. Unswapped(v, qq[i]) = With(h)
      <4> HIDE DEF With
      <4> QED BY <1>4, <3>1
    <3>3. h \in [Base[c] -> DOMAIN Skill]
      BY <2>1
    <3> HIDE DEF h, With
    <3> QED BY <3>2, <3>3
  <2> QED BY <2>2
<1>6. x \in V /\ x = With(swap)
  <2>1. x = With(swap)
    BY DEF FighterShape, WithSwap
  <2> HIDE DEF With
  <2> QED BY <1>2, <2>1
<1>7. PICK acc : /\ acc[0] = x /\ acc[n] = TakenBack(x, qq)
                 /\ \A j \in 0 .. n : acc[j] \in V
                 /\ \A j \in 1 .. n : acc[j] = Unswapped(acc[j - 1], qq[j])
  <2> HIDE DEF V
  <2>1. x \in V /\ \A v \in V, i \in DOMAIN qq : Unswapped(v, qq[i]) \in V
    BY <1>5, <1>6, Zenon
  <2> HIDE DEF With
  <2> QED BY <2>1, TakenBackSteps
<1>8. \A j \in 0 .. n : At1(j) \in [Base[c] -> DOMAIN Skill]
  <2> HIDE DEF Lost
  <2> QED BY <1>2
<1> DEFINE G == {j \in 0 .. n : acc[j] = With(At1(j))}
<1>9. 0 \in G
  <2>1. \A k \in Base[c] : ~Lost(k, 0)
    OBVIOUS
  <2>2. At1(0) = swap
    <3> HIDE DEF Lost, swap
    <3> QED BY <1>2, <2>1
  <2> HIDE DEF At1, With
  <2> QED BY <1>1, <1>6, <1>7, <2>2
<1>10. ASSUME NEW j \in 1 .. n, j - 1 \in G PROVE j \in G
  <2> DEFINE g == At1(j - 1)
             s == qq[j]
             h == [k \in Base[c] |-> IF k \in DOMAIN Kind[s.id].swap /\ g[k] = Kind[s.id].swap[k] THEN k ELSE g[k]]
  <2>1. acc[j] = With(h)
    <3>1. j - 1 \in 0 .. n /\ acc[j - 1] = With(g) /\ acc[j] = Unswapped(acc[j - 1], s)
      BY <1>1, <1>7, <1>10
    <3>2. g \in [Base[c] -> DOMAIN Skill]
      BY <1>8, <3>1
    <3> HIDE DEF g, With, s
    <3> QED BY <1>4, <3>1, <3>2 DEF h
  <2>2. ASSUME NEW k \in Base[c] PROVE h[k] = At1(j)[k]
    <3>1. Lost(k, j) <=> Lost(k, j - 1) \/ (k \in DOMAIN Kind[s.id].swap /\ swap[k] = Kind[s.id].swap[k])
      <4>1. 1 .. j = (1 .. (j - 1)) \cup {j}
        BY <1>1
      <4> QED BY <4>1
    <3>2. s.id \in DOMAIN Kind /\ \A i \in 1 .. (j - 1) : qq[i].id \in DOMAIN Kind
      BY <1>1
    <3>3. g[k] = IF Lost(k, j - 1) THEN k ELSE swap[k]
      BY <1>1
    <3>4. k \in DOMAIN Kind[s.id].swap => Kind[s.id].swap[k] # k
      BY <3>2, ReplacementFacts DEF Replacing
    <3>5. h[k] = IF k \in DOMAIN Kind[s.id].swap /\ g[k] = Kind[s.id].swap[k] THEN k ELSE g[k]
      OBVIOUS
    <3>6. At1(j)[k] = IF Lost(k, j) THEN k ELSE swap[k]
      OBVIOUS
    <3> HIDE DEF g, h, At1, Lost, s
    <3> QED BY <3>1, <3>3, <3>4, <3>5, <3>6
  <2>3. h = At1(j)
    <3> HIDE DEF g, s, Lost
    <3> QED BY <2>2
  <2> HIDE DEF h, At1, With
  <2> QED BY <1>1, <2>1, <2>3
<1>11. n \in G
  <2>1. n \in 0 .. n
    BY <1>1
  <2> HIDE DEF G, n
  <2> QED BY <1>1, <1>9, <1>10, <2>1, UpTo
<1>12. TakenBack(x, qq) = With(At1(n))
  BY <1>7, <1>11
<1>13. At1(n) = GivenBack(c, x, qq)
  BY <1>1 DEF GivenBack
<1> HIDE DEF At1
<1> QED BY <1>12, <1>13

-----------------------------------------------------------------------------
(* Statuses that go *)

\* Only what is single stays single.
LEMMA OnlySingle ==
    ASSUME NEW S, NEW ss \in Seq(S), NEW T, Single(ss)
    PROVE  Single(Only(ss, T))
<1>1. PICK f \in [DOMAIN Only(ss, T) -> DOMAIN ss] :
         /\ \A i, j \in DOMAIN Only(ss, T) : f[i] = f[j] => i = j
         /\ \A i \in DOMAIN Only(ss, T) : Only(ss, T)[i] = ss[f[i]] /\ ss[f[i]] \in T
  BY OnlyPlaces
<1> SUFFICES ASSUME NEW i \in DOMAIN Only(ss, T), NEW j \in DOMAIN Only(ss, T),
                    Only(ss, T)[i].id = Only(ss, T)[j].id, Replacing(Only(ss, T)[i].id)
             PROVE  i = j
  BY DEF Single
<1>2. f[i] \in DOMAIN ss /\ f[j] \in DOMAIN ss /\ ss[f[i]].id = ss[f[j]].id /\ Replacing(ss[f[i]].id)
  BY <1>1
<1>3. f[i] = f[j]
  BY <1>2 DEF Single
<1> QED BY <1>1, <1>3

\* Statuses rr of ss stay, those in qq give back what they replaced.
LEMMA TakenAwayIs ==
    ASSUME NEW m, NEW c \in Character, NEW u, NEW z, NEW u1, NEW z1, NEW S, NEW x \in Fighters(m, c, u, z),
           NEW rr \in Seq(StatusSet(m, c, u1, z1)), NEW qq \in Seq(S), Single(rr),
           \A i \in DOMAIN rr : \E j \in DOMAIN x.statuses :
              rr[i].id = x.statuses[j].id /\ rr[i].stacks = x.statuses[j].stacks,
           \A j \in DOMAIN x.statuses :
              \/ \E i \in DOMAIN rr : rr[i].id = x.statuses[j].id /\ rr[i].stacks = x.statuses[j].stacks
              \/ \E i \in DOMAIN qq : qq[i].id = x.statuses[j].id,
           \A i \in DOMAIN qq : qq[i].id \in DOMAIN Kind,
           \A i \in DOMAIN rr, j \in DOMAIN qq : rr[i].id = qq[j].id => ~Replacing(rr[i].id)
    PROVE  TakenBack([x EXCEPT !.statuses = rr], qq) \in Fighters(m, c, u1, z1)
<1> DEFINE y == [x EXCEPT !.statuses = rr]
           Lost(k) == \E i \in DOMAIN qq : k \in DOMAIN Kind[qq[i].id].swap /\ x.swap[k] = Kind[qq[i].id].swap[k]
           swap == GivenBack(c, x, qq)
<1>1. /\ y = [hp |-> x.hp, alive |-> x.alive, acted |-> x.acted, reduced |-> x.reduced,
              awake |-> x.awake, statuses |-> rr, swap |-> x.swap, cool |-> x.cool]
      /\ DOMAIN x.swap = Base[c]
  <2>1. /\ x = [hp |-> x.hp, alive |-> x.alive, acted |-> x.acted, reduced |-> x.reduced,
                awake |-> x.awake, statuses |-> x.statuses, swap |-> x.swap, cool |-> x.cool]
        /\ DOMAIN x.swap = Base[c]
    BY FighterFacts
  <2> QED BY <2>1
<1>2. y \in FighterShape(m, c, u1, z1) /\ y.swap = x.swap
  BY <1>1, FighterFacts DEF FighterShape
<1>3. TakenBack(y, qq) = WithSwap(y, swap)
  <2> HIDE DEF y
  <2>1. TakenBack(y, qq) = WithSwap(y, GivenBack(c, y, qq))
    BY <1>2, TakenBackIs
  <2>2. GivenBack(c, y, qq) = swap
    BY <1>2 DEF GivenBack
  <2> HIDE DEF swap
  <2> QED BY <2>1, <2>2
<1>4. TakenBack(y, qq)
        = [hp |-> x.hp, alive |-> x.alive, acted |-> x.acted, reduced |-> x.reduced,
           awake |-> x.awake, statuses |-> rr, swap |-> swap, cool |-> x.cool]
  <2> HIDE DEF y, swap
  <2> QED BY <1>1, <1>3 DEF WithSwap
<1>5. swap \in [Base[c] -> DOMAIN Skill]
  <2>1. \A k \in Base[c] : k \in DOMAIN Skill /\ x.swap[k] \in DOMAIN Skill
    BY FighterFacts, CombatAssumption
  <2> HIDE DEF Lost
  <2> QED BY <2>1 DEF GivenBack
<1>6. \A i \in DOMAIN x.statuses : x.statuses[i].id \in DOMAIN Kind
  BY FighterFacts, StatusFacts
<1>7. Backed(x.statuses, x.swap)
  BY FighterFacts
<1>8. Backed(rr, swap)
  <2>1. SUFFICES ASSUME NEW k \in Base[c]
                 PROVE  /\ \A i \in DOMAIN rr : Backs(rr[i], k) => swap[k] = Kind[rr[i].id].swap[k]
                        /\ swap[k] # k => \E i \in DOMAIN rr : Backs(rr[i], k)
    <3> HIDE DEF swap
    <3>1. DOMAIN swap = Base[c]
      BY <1>5
    <3> QED BY <3>1 DEF Backed
  <2>2. swap[k] = IF Lost(k) THEN k ELSE x.swap[k]
    BY DEF GivenBack
  <2> HIDE DEF swap
  <2>3. ASSUME NEW i \in DOMAIN rr, Backs(rr[i], k) PROVE swap[k] = Kind[rr[i].id].swap[k]
    <3>1. PICK j \in DOMAIN x.statuses : rr[i].id = x.statuses[j].id /\ rr[i].stacks = x.statuses[j].stacks
      OBVIOUS
    <3>2. Backs(x.statuses[j], k)
      BY <2>3, <3>1 DEF Backs, Unlocked
    <3>3. x.swap[k] = Kind[rr[i].id].swap[k]
      BY <1>1, <1>7, <3>1, <3>2 DEF Backed
    <3>4. ASSUME Lost(k) PROVE FALSE
      <4>1. PICK l \in DOMAIN qq : k \in DOMAIN Kind[qq[l].id].swap
        BY <3>4
      <4>2. qq[l].id = rr[i].id /\ Replacing(rr[i].id)
        BY <1>6, <2>3, <3>1, <4>1, OneCover DEF Backs
      <4> QED BY <4>2
    <3> QED BY <2>2, <3>3, <3>4
  <2>4. ASSUME swap[k] # k PROVE \E i \in DOMAIN rr : Backs(rr[i], k)
    <3>1. ~Lost(k) /\ x.swap[k] # k
      BY <2>2, <2>4
    <3>2. PICK j \in DOMAIN x.statuses : Backs(x.statuses[j], k)
      BY <1>1, <1>7, <3>1 DEF Backed
    <3>3. x.swap[k] = Kind[x.statuses[j].id].swap[k]
      BY <1>1, <1>7, <3>2 DEF Backed
    <3>4. ~ \E i \in DOMAIN qq : qq[i].id = x.statuses[j].id
      BY <3>1, <3>2, <3>3 DEF Backs
    <3>5. PICK i \in DOMAIN rr : rr[i].id = x.statuses[j].id /\ rr[i].stacks = x.statuses[j].stacks
      BY <3>4
    <3> QED BY <3>2, <3>5 DEF Backs, Unlocked
  <2> QED BY <2>3, <2>4
<1> HIDE DEF y, swap
<1> QED BY <1>4, <1>5, <1>8, FighterFacts, Refreshed DEF y

\* What Drop leaves.
Leaves(rr, ss, gone) ==
    /\ \A i \in DOMAIN rr : rr[i].left = 0 \/ rr[i] \notin gone
    /\ \A i \in DOMAIN rr : \E j \in DOMAIN ss : rr[i] = ss[j]
    /\ \A j \in DOMAIN ss : ss[j].left = 0 \/ ss[j] \notin gone => \E i \in DOMAIN rr : rr[i] = ss[j]

LEMMA DropLeaves ==
    ASSUME NEW m, NEW c, NEW u, NEW z, NEW x \in Fighters(m, c, u, z), NEW gone
    PROVE  \E rr \in Seq(StatusSet(m, c, u, z)) :
              /\ Drop(x, gone) = [x EXCEPT !.statuses = rr]
              /\ Single(rr) /\ Leaves(rr, x.statuses, gone)
<1> DEFINE T == {s \in ToSet(x.statuses) : s.left = 0 \/ s \notin gone}
           rr == Only(x.statuses, T)
<1>1. x.statuses \in Seq(StatusSet(m, c, u, z)) /\ Single(x.statuses)
  BY FighterFacts
<1>2. rr \in Seq(StatusSet(m, c, u, z)) /\ Picks(rr, x.statuses, T) /\ Single(rr)
  <2> HIDE DEF T
  <2> QED BY <1>1, OnlyIn, OnlySingle
<1>3. Drop(x, gone) = [x EXCEPT !.statuses = rr]
  BY DEF Drop
<1>4. \A j \in DOMAIN x.statuses : x.statuses[j] \in T <=> x.statuses[j].left = 0 \/ x.statuses[j] \notin gone
  BY DEF ToSet
<1>5. \A s \in T : s.left = 0 \/ s \notin gone
  OBVIOUS
<1> HIDE DEF rr, T
<1>6. Leaves(rr, x.statuses, gone)
  BY <1>2, <1>4, <1>5 DEF Picks, Leaves
<1> QED BY <1>2, <1>3, <1>6

\* What replaces nothing may go without more ado.
LEMMA DropIs ==
    ASSUME NEW m, NEW c, NEW u, NEW z, NEW x \in Fighters(m, c, u, z), NEW gone,
           \A s \in gone : s.id \in DOMAIN Kind => ~Replacing(s.id)
    PROVE  Drop(x, gone) \in Fighters(m, c, u, z) /\ Drop(x, gone).swap = x.swap
<1>1. PICK rr \in Seq(StatusSet(m, c, u, z)) :
         Drop(x, gone) = [x EXCEPT !.statuses = rr] /\ Single(rr) /\ Leaves(rr, x.statuses, gone)
  BY DropLeaves
<1>2. \A j \in DOMAIN x.statuses : x.statuses[j].id \in DOMAIN Kind
  BY FighterFacts, StatusFacts
<1>3. Backed(x.statuses, x.swap)
  BY FighterFacts
<1>4. Backed(rr, x.swap)
  <2>1. \A j \in DOMAIN x.statuses : \A k : Backs(x.statuses[j], k) => x.statuses[j] \notin gone
    BY <1>2 DEF Backs, Replacing
  <2>2. ASSUME NEW k \in DOMAIN x.swap, NEW i \in DOMAIN rr, Backs(rr[i], k)
        PROVE  x.swap[k] = Kind[rr[i].id].swap[k]
    <3>1. PICK j \in DOMAIN x.statuses : rr[i] = x.statuses[j]
      BY <1>1 DEF Leaves
    <3> QED BY <1>3, <2>2, <3>1 DEF Backed
  <2>3. ASSUME NEW k \in DOMAIN x.swap, x.swap[k] # k PROVE \E i \in DOMAIN rr : Backs(rr[i], k)
    <3>1. PICK j \in DOMAIN x.statuses : Backs(x.statuses[j], k)
      BY <1>3, <2>3 DEF Backed
    <3>2. PICK i \in DOMAIN rr : rr[i] = x.statuses[j]
      BY <1>1, <2>1, <3>1 DEF Leaves
    <3> QED BY <3>1, <3>2
  <2> QED BY <2>2, <2>3 DEF Backed
<1>5. [x EXCEPT !.statuses = rr]
        = [hp |-> x.hp, alive |-> x.alive, acted |-> x.acted, reduced |-> x.reduced,
           awake |-> x.awake, statuses |-> rr, swap |-> x.swap, cool |-> x.cool]
  BY FighterFacts
<1>6. [x EXCEPT !.statuses = rr] \in Fighters(m, c, u, z)
  BY <1>1, <1>4, <1>5, FighterFacts, Refreshed
<1> QED BY <1>1, <1>5, <1>6

LEMMA RemovedIs ==
    ASSUME NEW m, NEW c \in Character, NEW u, NEW z, NEW x \in Fighters(m, c, u, z), NEW gone
    PROVE  Removed(x, gone) \in Fighters(m, c, u, z)
<1> DEFINE S == StatusSet(m, c, u, z)
           qq == Only(InForce(x), gone)
           ss == x.statuses
<1>1. PICK rr \in Seq(S) :
         Drop(x, gone) = [x EXCEPT !.statuses = rr] /\ Single(rr) /\ Leaves(rr, ss, gone)
  BY DropLeaves
<1>2. qq \in Seq(S) /\ Picks(qq, ss, {s \in ToSet(ss) : s.left # 0 /\ s \in gone})
  <2>1. x.statuses \in Seq(S)
    BY FighterFacts
  <2> HIDE DEF S
  <2> QED BY <2>1, PickedIs
<1>3. \A i \in DOMAIN qq : qq[i].left # 0 /\ qq[i] \in gone /\ \E j \in DOMAIN ss : qq[i] = ss[j]
  BY <1>2 DEF Picks
<1>4. \A j \in DOMAIN ss : ss[j].left # 0 /\ ss[j] \in gone => \E i \in DOMAIN qq : qq[i] = ss[j]
  BY <1>2 DEF Picks, ToSet
<1> HIDE DEF qq
<1>5. \A i \in DOMAIN qq : qq[i].id \in DOMAIN Kind
  BY <1>2, StatusFacts
<1>6. ASSUME NEW i \in DOMAIN rr, NEW j \in DOMAIN qq, rr[i].id = qq[j].id, Replacing(rr[i].id) PROVE FALSE
  <2>1. PICK a \in DOMAIN ss : rr[i] = ss[a]
    BY <1>1 DEF Leaves
  <2>2. PICK b \in DOMAIN ss : qq[j] = ss[b]
    BY <1>3
  <2>3. a = b
    BY <1>6, <2>1, <2>2, FighterFacts DEF Single
  <2> QED BY <1>1, <1>3, <2>1, <2>2, <2>3 DEF Leaves
<1>7. \A j \in DOMAIN ss : \/ \E i \in DOMAIN rr : rr[i].id = ss[j].id /\ rr[i].stacks = ss[j].stacks
                           \/ \E i \in DOMAIN qq : qq[i].id = ss[j].id
  BY <1>1, <1>4 DEF Leaves
<1>8. \A i \in DOMAIN rr : \E j \in DOMAIN ss : rr[i].id = ss[j].id /\ rr[i].stacks = ss[j].stacks
  BY <1>1 DEF Leaves
<1>9. TakenBack([x EXCEPT !.statuses = rr], qq) \in Fighters(m, c, u, z)
  BY <1>1, <1>2, <1>5, <1>6, <1>7, <1>8, TakenAwayIs
<1> QED BY <1>1, <1>9 DEF Removed, qq

\* What a sequence holds at a place is one of its elements.
LEMMA ElementAt ==
    ASSUME NEW S, NEW ss \in Seq(S), NEW i \in DOMAIN ss
    PROVE  ss[i] \in S
  OBVIOUS

\* One status goes: the others stay, each with its own.
Skips(f, rr, ss, i) ==
    /\ f \in [DOMAIN rr -> DOMAIN ss]
    /\ \A j \in DOMAIN rr : rr[j] = ss[f[j]] /\ f[j] # i
    /\ \A j, k \in DOMAIN rr : f[j] = f[k] => j = k
    /\ \A j \in DOMAIN ss : j # i => \E k \in DOMAIN rr : f[k] = j

LEMMA RemoveAtIs ==
    ASSUME NEW S, NEW ss \in Seq(S), NEW i \in DOMAIN ss
    PROVE  RemoveAt(ss, i) \in Seq(S) /\ \E f : Skips(f, RemoveAt(ss, i), ss, i)
<1> DEFINE n == Len(ss)
           rr == RemoveAt(ss, i)
           aa == SubSeq(ss, 1, i - 1)
           bb == SubSeq(ss, i + 1, n)
           f == [j \in 1 .. (n - 1) |-> IF j < i THEN j ELSE j + 1]
<1>1. n \in Nat /\ DOMAIN ss = 1 .. n /\ i \in 1 .. n
  OBVIOUS
<1>2. /\ aa \in Seq(S) /\ Len(aa) = i - 1 /\ \A j \in 1 .. (i - 1) : aa[j] = ss[j]
      /\ bb \in Seq(S) /\ Len(bb) = n - i /\ \A j \in 1 .. (n - i) : bb[j] = ss[i + j]
  <2>1. /\ SubSeq(ss, 1, i - 1) \in Seq(S)
        /\ SubSeq(ss, i + 1, n) \in Seq(S)
    BY <1>1
  <2>2. /\ Len(SubSeq(ss, 1, i - 1)) = i - 1
        /\ \A j \in 1 .. (i - 1) : SubSeq(ss, 1, i - 1)[j] = ss[j]
    BY <1>1
  <2>3. /\ Len(SubSeq(ss, i + 1, n)) = n - i
        /\ \A j \in 1 .. (n - i) : SubSeq(ss, i + 1, n)[j] = ss[i + j]
    BY <1>1
  <2> QED BY <2>1, <2>2, <2>3
<1>3. rr = aa \o bb
  BY DEF RemoveAt
<1> HIDE DEF rr, n, aa, bb
<1>4. /\ rr \in Seq(S) /\ Len(rr) = n - 1 /\ DOMAIN rr = 1 .. (n - 1)
      /\ \A j \in 1 .. (n - 1) : rr[j] = IF j <= i - 1 THEN aa[j] ELSE bb[j - (i - 1)]
  BY <1>1, <1>2, <1>3
<1>5. ASSUME NEW j \in 1 .. (n - 1) PROVE rr[j] = ss[f[j]]
  <2>1. CASE j < i
    BY <1>1, <1>2, <1>4, <2>1
  <2>2. CASE ~(j < i)
    <3>1. j - (i - 1) \in 1 .. (n - i) /\ i + (j - (i - 1)) = j + 1 /\ ~(j <= i - 1)
      BY <1>1, <2>2
    <3> QED BY <1>2, <1>4, <2>2, <3>1
  <2> QED BY <2>1, <2>2
<1>6. ASSUME NEW j \in 1 .. n, j # i PROVE \E k \in 1 .. (n - 1) : f[k] = j
  <2>1. CASE j < i
    <3>1. j \in 1 .. (n - 1) /\ f[j] = j
      BY <1>1, <2>1
    <3> QED BY <3>1
  <2>2. CASE i < j
    <3>1. j - 1 \in 1 .. (n - 1) /\ f[j - 1] = j
      BY <1>1, <2>2
    <3> QED BY <3>1
  <2> QED BY <1>1, <1>6, <2>1, <2>2
<1>7. f \in [1 .. (n - 1) -> 1 .. n] /\ \A j \in 1 .. (n - 1) : f[j] # i
  BY <1>1
<1>8. \A j, k \in 1 .. (n - 1) : f[j] = f[k] => j = k
  BY <1>1
<1> HIDE DEF f
<1>9. Skips(f, rr, ss, i)
  BY <1>1, <1>4, <1>5, <1>6, <1>7, <1>8 DEF Skips
<1> QED BY <1>4, <1>9 DEF rr

\* What is left without the status at i.
Spares(rr, ss, i) ==
    /\ \A k \in DOMAIN rr : \E j \in DOMAIN ss : j # i /\ rr[k] = ss[j]
    /\ \A j \in DOMAIN ss : j # i => \E k \in DOMAIN rr : rr[k] = ss[j]

LEMMA RemovedAt ==
    ASSUME NEW m, NEW c, NEW u, NEW z, NEW x \in Fighters(m, c, u, z), NEW i \in DOMAIN x.statuses
    PROVE  /\ RemoveAt(x.statuses, i) \in Seq(StatusSet(m, c, u, z)) /\ Single(RemoveAt(x.statuses, i))
           /\ Spares(RemoveAt(x.statuses, i), x.statuses, i)
<1> DEFINE ss == x.statuses
           rr == RemoveAt(ss, i)
<1>1. ss \in Seq(StatusSet(m, c, u, z)) /\ Single(ss) /\ i \in DOMAIN ss
  BY FighterFacts
<1> HIDE DEF ss
<1>2. rr \in Seq(StatusSet(m, c, u, z)) /\ \E f : Skips(f, rr, ss, i)
  BY <1>1, RemoveAtIs
<1> HIDE DEF rr
<1>3. PICK f : Skips(f, rr, ss, i)
  BY <1>2
<1>4. Single(rr)
  <2> SUFFICES ASSUME NEW j \in DOMAIN rr, NEW k \in DOMAIN rr, rr[j].id = rr[k].id, Replacing(rr[j].id)
               PROVE  j = k
    BY DEF Single
  <2>1. f[j] \in DOMAIN ss /\ f[k] \in DOMAIN ss /\ ss[f[j]].id = ss[f[k]].id /\ Replacing(ss[f[j]].id)
    BY <1>3 DEF Skips
  <2>2. f[j] = f[k]
    BY <1>1, <2>1 DEF Single
  <2> QED BY <1>3, <2>2 DEF Skips
<1>5. Spares(rr, ss, i)
  BY <1>3 DEF Skips, Spares
<1> QED BY <1>2, <1>4, <1>5 DEF rr, ss

LEMMA WithoutIs ==
    ASSUME NEW m, NEW c \in Character, NEW u, NEW z, NEW x \in Fighters(m, c, u, z), NEW i \in DOMAIN x.statuses
    PROVE  Without(x, i) \in Fighters(m, c, u, z)
<1> DEFINE S == StatusSet(m, c, u, z)
           ss == x.statuses
           rr == RemoveAt(ss, i)
           qq == <<ss[i]>>
<1>1. rr \in Seq(S) /\ Single(rr) /\ Spares(rr, ss, i)
  BY RemovedAt
<1>2. ss[i] \in S /\ ss[i].id \in DOMAIN Kind /\ Single(ss)
  BY FighterFacts, StatusFacts
<1>3. qq \in Seq(S) /\ DOMAIN qq = {1} /\ qq[1] = ss[i]
  <2> HIDE DEF S, ss
  <2> QED BY <1>2
<1>4. Without(x, i) = TakenBack([x EXCEPT !.statuses = rr], qq)
  BY DEF Without
<1> HIDE DEF rr, qq
<1>5. \A k \in DOMAIN rr, j \in DOMAIN qq : rr[k].id = qq[j].id => ~Replacing(rr[k].id)
  BY <1>1, <1>2, <1>3 DEF Single, Spares
<1>6. \A j \in DOMAIN ss : \/ \E k \in DOMAIN rr : rr[k].id = ss[j].id /\ rr[k].stacks = ss[j].stacks
                           \/ \E k \in DOMAIN qq : qq[k].id = ss[j].id
  BY <1>1, <1>3 DEF Spares
<1>7. \A k \in DOMAIN rr : \E j \in DOMAIN ss : rr[k].id = ss[j].id /\ rr[k].stacks = ss[j].stacks
  BY <1>1 DEF Spares
<1>8. \A j \in DOMAIN qq : qq[j].id \in DOMAIN Kind
  BY <1>2, <1>3
<1>9. TakenBack([x EXCEPT !.statuses = rr], qq) \in Fighters(m, c, u, z)
  BY <1>1, <1>3, <1>5, <1>6, <1>7, <1>8, TakenAwayIs
<1> QED BY <1>4, <1>9

LEMMA CleansedIs ==
    ASSUME NEW m, NEW c \in Character, NEW u, NEW z, NEW x \in Fighters(m, c, u, z)
    PROVE  Cleansed(x) \in Fighters(m, c, u, z)
<1> SUFFICES ASSUME Afflictions(x) # {} PROVE Cleansed(x) \in Fighters(m, c, u, z)
  BY DEF Cleansed
<1>1. DOMAIN x.statuses \in SUBSET Nat
  BY FighterFacts
<1>2. Afflictions(x) \in SUBSET Nat
  BY <1>1 DEF Afflictions
<1>3. Min(Afflictions(x)) \in Afflictions(x)
  BY <1>2, MinInside
<1>4. Min(Afflictions(x)) \in DOMAIN x.statuses
  BY <1>3 DEF Afflictions
<1> QED BY <1>4, WithoutIs DEF Cleansed

-----------------------------------------------------------------------------
(* What happens to one fighter *)

LEMMA SameFacts ==
    ASSUME NEW m, NEW c, NEW u, NEW z, NEW x \in Fighters(m, c, u, z), NEW id, Has(x, id)
    PROVE  /\ Min(Same(x, id)) \in DOMAIN x.statuses
           /\ x.statuses[Min(Same(x, id))].id = id /\ x.statuses[Min(Same(x, id))].left # 0
<1>1. Same(x, id) \in SUBSET Nat
  <2>1. DOMAIN x.statuses \in SUBSET Nat
    BY FighterFacts
  <2> QED BY <2>1 DEF Same
<1>2. Same(x, id) # {}
  BY DEF Has, Same
<1>3. Min(Same(x, id)) \in Same(x, id)
  BY <1>1, <1>2, MinInside
<1> QED BY <1>3 DEF Same

\* One status in the place of another of its kind.
LEMMA ReplacedIs ==
    ASSUME NEW m, NEW c \in Character, NEW u, NEW z, NEW x \in Fighters(m, c, u, z),
           NEW i \in DOMAIN x.statuses, NEW s \in StatusSet(m, c, u, z), s.id = x.statuses[i].id
    PROVE  Replaced(x, i, s) \in Fighters(m, c, u, z)
<1> DEFINE ss == x.statuses
           rr == [ss EXCEPT ![i] = s]
<1>1. ss \in Seq(StatusSet(m, c, u, z)) /\ Single(ss) /\ Backed(ss, x.swap) /\ DOMAIN x.swap = Base[c]
  BY FighterFacts
<1>2. /\ rr \in Seq(StatusSet(m, c, u, z)) /\ DOMAIN rr = DOMAIN ss /\ rr[i] = s
      /\ \A j \in DOMAIN ss : j # i => rr[j] = ss[j]
  BY <1>1
<1>3. Replaced(x, i, s) = Swapped([x EXCEPT !.statuses = rr], rr[i])
  <2>1. [x EXCEPT !.statuses[i] = s] = [x EXCEPT !.statuses = rr]
    OBVIOUS
  <2> HIDE DEF rr
  <2> QED BY <1>2, <2>1 DEF Replaced
<1> HIDE DEF rr, ss
<1>4. Single(rr)
  <2>1. \A j \in DOMAIN ss : rr[j].id = ss[j].id
    BY <1>2 DEF ss
  <2> QED BY <1>1, <1>2, <2>1 DEF Single
<1>5. ASSUME NEW k \in Base[c], k \notin DOMAIN Kind[rr[i].id].swap
      PROVE  /\ \A j \in DOMAIN rr : Backs(rr[j], k) => x.swap[k] = Kind[rr[j].id].swap[k]
             /\ x.swap[k] # k => \E j \in DOMAIN rr : Backs(rr[j], k)
  <2>1. ~Backs(rr[i], k) /\ ~Backs(ss[i], k)
    BY <1>2, <1>5 DEF Backs, ss
  <2> QED BY <1>1, <1>2, <2>1 DEF Backed
<1>6. Swapped([x EXCEPT !.statuses = rr], rr[i]) \in Fighters(m, c, u, z)
  <2>1. i \in DOMAIN rr
    BY <1>2 DEF ss
  <2> QED BY <1>2, <1>4, <1>5, <2>1, ReswappedIs
<1> QED BY <1>3, <1>6

\* A status is renewed: from the turn u on it has the longer of the two times.
LEMMA RenewedIs ==
    ASSUME NEW m, NEW c, NEW u \in Nat, NEW old \in StatusSet(m, c, u, "play"), NEW by, NEW to, NEW clock,
           Kind[old.id].max > 0
    PROVE  Renewed(old, Status(old.id, by, to, u, clock, Kind[old.id].for)) \in StatusSet(m, c, u, "play")
<1> DEFINE id == old.id
           for == Kind[id].for
           s == Status(id, by, to, u, clock, for)
           r == Renewed(old, s)
           k == Min({Kind[id].max, old.stacks + 1})
           l == Max({old.left, for})
<1>1. /\ old \in StatusShape(m) /\ id \in DOMAIN Kind /\ old.left \in Int /\ old.stacks \in Nat \ {0}
      /\ OnTime(old, c, u, "play") /\ (Kind[id].redirect => old.to \in m)
  BY StatusFacts
<1>2. for \in Int /\ for # 0 /\ Kind[id].max \in Nat /\ Kind[id].defense \in Nat
  BY <1>1, KindFacts
<1>3. old.left # 0 /\ (old.left < 0 => Lasting(id))
  BY <1>1 DEF OnTime
<1>4. k \in Nat \ {0}
  BY <1>1, <1>2, MinOfTwo
<1>5. l \in Int /\ l # 0 /\ (l < 0 => Lasting(id))
  BY <1>1, <1>2, <1>3, MaxOfTwo
<1>6. r = [old EXCEPT !.stacks = k, !.born = u, !.defense = Kind[id].defense, !.left = l, !.full = l]
  BY DEF Renewed, Status
<1> HIDE DEF k, l, for
<1>7. /\ r \in StatusShape(m) /\ r.id = id /\ r.to = old.to /\ r.born = u /\ r.left = l /\ r.full = l
  <2> HIDE DEF r
  <2> QED BY <1>1, <1>2, <1>4, <1>5, <1>6 DEF StatusShape
<1> HIDE DEF r, s
<1>8. Elapsed(r, c, u) = 0
  <2>1. {t \in r.born + 1 .. u - 1 : Counts(r, c, t)} = {}
    BY <1>7
  <2> QED BY <2>1, FS_EmptySet DEF Elapsed
<1>9. OnTime(r, c, u, "play")
  BY <1>5, <1>7, <1>8 DEF OnTime
<1>10. r \in StatusSet(m, c, u, "play")
  BY <1>1, <1>7, <1>9 DEF StatusSet
<1> QED BY <1>10 DEF r, s, for

\* A status that comes on top of itself, and replaces.
Exclusive(id) == Replacing(id) /\ Kind[id].max = 0
Free(id, c, swap) ==
    Exclusive(id) => \A k \in DOMAIN Kind[id].swap : k \in Base[c] /\ swap[k] = k

LEMMA AppendedIs ==
    ASSUME NEW m, NEW c \in Character, NEW u, NEW z, NEW x \in Fighters(m, c, u, z),
           NEW s \in StatusSet(m, c, u, z),
           Replacing(s.id) => \A i \in DOMAIN x.statuses : x.statuses[i].id # s.id
    PROVE  Swapped([x EXCEPT !.statuses = Append(@, s)], s) \in Fighters(m, c, u, z)
<1> DEFINE ss == x.statuses
           rr == Append(ss, s)
           n == Len(ss)
<1>1. ss \in Seq(StatusSet(m, c, u, z)) /\ Single(ss) /\ Backed(ss, x.swap) /\ DOMAIN x.swap = Base[c]
  BY FighterFacts
<1>2. /\ rr \in Seq(StatusSet(m, c, u, z)) /\ n \in Nat /\ rr[n + 1] = s
      /\ DOMAIN rr = 1 .. (n + 1) /\ DOMAIN ss = 1 .. n
      /\ \A i \in 1 .. n : rr[i] = ss[i]
  BY <1>1
<1>3. [x EXCEPT !.statuses = Append(@, s)] = [x EXCEPT !.statuses = rr]
  OBVIOUS
<1> HIDE DEF rr, n, ss
<1>4. \A i \in 1 .. (n + 1) : i = n + 1 \/ i \in 1 .. n
  BY <1>2
<1>5. Replacing(s.id) => \A i \in 1 .. n : ss[i].id # s.id
  BY <1>2 DEF ss
<1>6. Single(rr)
  <2> SUFFICES ASSUME NEW i \in 1 .. (n + 1), NEW j \in 1 .. (n + 1),
                      rr[i].id = rr[j].id, Replacing(rr[i].id)
               PROVE  i = j
    BY <1>2 DEF Single
  <2>1. CASE i \in 1 .. n /\ j \in 1 .. n
    BY <1>1, <1>2, <2>1 DEF Single
  <2>2. CASE i = n + 1 \/ j = n + 1
    BY <1>2, <1>4, <1>5, <2>2
  <2> QED BY <1>4, <2>1, <2>2
<1>7. ASSUME NEW k \in Base[c], k \notin DOMAIN Kind[rr[n + 1].id].swap
      PROVE  /\ \A j \in DOMAIN rr : Backs(rr[j], k) => x.swap[k] = Kind[rr[j].id].swap[k]
             /\ x.swap[k] # k => \E j \in DOMAIN rr : Backs(rr[j], k)
  <2>1. ~Backs(rr[n + 1], k)
    BY <1>7 DEF Backs
  <2>2. \A j \in 1 .. n : j \in 1 .. (n + 1)
    BY <1>2
  <2> QED BY <1>1, <1>2, <1>4, <2>1, <2>2 DEF Backed
<1>8. Swapped([x EXCEPT !.statuses = rr], rr[n + 1]) \in Fighters(m, c, u, z)
  <2>1. n + 1 \in DOMAIN rr
    BY <1>2
  <2> QED BY <1>2, <1>6, <1>7, <2>1, ReswappedIs
<1> QED BY <1>2, <1>3, <1>8

\* A status is put on a fighter: its slots are right afterwards.
LEMMA PutIs ==
    ASSUME NEW m, NEW c \in Character, NEW u \in Nat, NEW x \in Fighters(m, c, u, "play"),
           NEW id \in DOMAIN Kind, NEW by \in m, NEW to \in m \cup {NoOne}, Kind[id].redirect => to \in m,
           NEW clock \in Clocks, Free(id, c, x.swap)
    PROVE  Put(x, Status(id, by, to, u, clock, Kind[id].for)) \in Fighters(m, c, u, "play")
<1> DEFINE s == Status(id, by, to, u, clock, Kind[id].for)
<1>1. s \in StatusSet(m, c, u, "play") /\ s.id = id
  <2>1. s \in StatusSet(m, c, u, "play")
    BY AppliedStatus
  <2> QED BY <2>1 DEF Status
<1>2. \A i \in DOMAIN x.statuses : x.statuses[i].left # 0 /\ x.statuses[i].stacks \in Nat \ {0}
  <2>1. ASSUME NEW i \in DOMAIN x.statuses
        PROVE  x.statuses[i].left # 0 /\ x.statuses[i].stacks \in Nat \ {0}
    <3>1. x.statuses[i] \in StatusSet(m, c, u, "play")
      BY FighterFacts, StatusAt
    <3> QED BY <3>1, StatusFacts DEF OnTime
  <2> QED BY <2>1
<1>3. Kind[id].max \in Nat
  BY KindFacts
<1>4. CASE Kind[id].max > 0 /\ Has(x, id)
  <2> DEFINE i == Min(Same(x, id))
  <2>1. i \in DOMAIN x.statuses /\ x.statuses[i].id = id
    <3> HIDE DEF s
    <3> QED BY <1>4, SameFacts
  <2>2. x.statuses[i] \in StatusSet(m, c, u, "play")
    BY <2>1, FighterFacts, StatusAt
  <2> HIDE DEF i
  <2>3. Renewed(x.statuses[i], s) \in StatusSet(m, c, u, "play")
    BY <1>4, <2>1, <2>2, RenewedIs
  <2>4. Renewed(x.statuses[i], s).id = id
    <3>1. x.statuses[i] \in StatusShape(m)
      BY <2>2, StatusFacts
    <3> QED BY <2>1, <3>1 DEF Renewed, StatusShape
  <2>5. Replaced(x, i, Renewed(x.statuses[i], s)) \in Fighters(m, c, u, "play")
    <3> HIDE DEF s
    <3> QED BY <2>1, <2>3, <2>4, ReplacedIs
  <2> QED BY <1>1, <1>4, <2>5 DEF Put, i
<1>5. CASE ~(Kind[id].max > 0 /\ Has(x, id))
  <2>1. ASSUME Replacing(id), NEW i \in DOMAIN x.statuses, x.statuses[i].id = id PROVE FALSE
    <3>1. Kind[id].max = 0
      <4>1. Has(x, id)
        BY <1>2, <2>1 DEF Has
      <4> QED BY <1>3, <1>5, <4>1
    <3>2. Kind[id].unlock \in Nat /\ Kind[id].unlock <= 1
      BY <2>1, <3>1, KindFacts, ReplacementFacts
    <3>3. PICK k \in DOMAIN Kind[id].swap : TRUE
      BY <2>1 DEF Replacing
    <3>4. Backs(x.statuses[i], k)
      BY <1>2, <2>1, <3>2, <3>3 DEF Backs, Unlocked
    <3>5. k \in Base[c] /\ x.swap[k] = k
      BY <2>1, <3>1, <3>3 DEF Free, Exclusive
    <3>6. Backed(x.statuses, x.swap) /\ DOMAIN x.swap = Base[c]
      BY FighterFacts
    <3>7. x.swap[k] = Kind[id].swap[k]
      BY <2>1, <3>4, <3>5, <3>6 DEF Backed
    <3> QED BY <2>1, <3>3, <3>5, <3>7, ReplacementFacts
  <2>2. Swapped([x EXCEPT !.statuses = Append(@, s)], s) \in Fighters(m, c, u, "play")
    <3> HIDE DEF s
    <3> QED BY <1>1, <2>1, AppendedIs
  <2> QED BY <1>1, <1>5, <2>2 DEF Put
<1> QED BY <1>4, <1>5

\* Stacks are used up, or the status with them.
LEMMA SpentIs ==
    ASSUME NEW m, NEW c \in Character, NEW u, NEW z, NEW x \in Fighters(m, c, u, z), NEW id, NEW n \in Int
    PROVE  Spent(x, id, n) \in Fighters(m, c, u, z)
<1> SUFFICES ASSUME Has(x, id) PROVE Spent(x, id, n) \in Fighters(m, c, u, z)
  BY DEF Spent
<1> DEFINE i == Min(Same(x, id))
           s == x.statuses[i]
<1>1. i \in DOMAIN x.statuses
  BY SameFacts
<1>2. s \in StatusSet(m, c, u, z)
  BY <1>1, FighterFacts, StatusAt
<1>3. CASE s.stacks <= n
  BY <1>1, <1>3, WithoutIs DEF Spent
<1>4. CASE ~(s.stacks <= n)
  <2> DEFINE r == [s EXCEPT !.stacks = @ - n]
  <2>1. s \in StatusShape(m) /\ s.stacks \in Nat
    BY <1>2, StatusFacts
  <2> HIDE DEF s
  <2>2. s.stacks - n \in Nat \ {0}
    BY <1>4, <2>1
  <2>3. /\ r \in StatusShape(m) /\ r.id = s.id /\ r.to = s.to /\ r.born = s.born /\ r.clock = s.clock
        /\ r.by = s.by /\ r.left = s.left /\ r.full = s.full
    BY <2>1, <2>2 DEF StatusShape
  <2> HIDE DEF r
  <2>4. r \in StatusSet(m, c, u, z)
    BY <1>2, <2>3, StatusChanged
  <2>5. Replaced(x, i, r) \in Fighters(m, c, u, z)
    BY <1>1, <2>3, <2>4, ReplacedIs DEF s
  <2> QED BY <1>4, <2>5 DEF Spent, r, s
<1> QED BY <1>3, <1>4

LEMMA HealedIs ==
    ASSUME NEW m, NEW c, NEW u, NEW z, NEW x \in Fighters(m, c, u, z), NEW n \in Int
    PROVE  Healed(x, n) \in Fighters(m, c, u, z)
<1> DEFINE more == Max({0, n + Total(x, "healing")})
           hp == Min({MaxHp, x.hp + more})
<1>1. n + Total(x, "healing") \in Int
  <2>1. Total(x, "healing") \in Int
    BY TotalIsNumber DEF SumField
  <2> QED BY <2>1
<1>2. more \in Nat
  BY <1>1, MaxOfTwo
<1>3. x.hp \in 0 .. MaxHp /\ MaxHp \in Nat \ {0}
  BY FighterFacts, CombatAssumption
<1>4. hp \in 0 .. MaxHp /\ (x.hp > 0 => hp > 0)
  <2> HIDE DEF more
  <2> QED BY <1>2, <1>3, MinOfTwo
<1> DEFINE alive == x.alive \/ hp > 0
<1> HIDE DEF hp
<1>5. alive \in BOOLEAN /\ (alive <=> hp > 0)
  BY <1>4, FighterFacts
<1>6. Healed(x, n) = [x EXCEPT !.hp = hp, !.alive = alive]
  BY DEF Healed, hp
<1> HIDE DEF alive
<1>7. Healed(x, n)
        = [hp |-> hp, alive |-> alive, acted |-> x.acted, reduced |-> x.reduced,
           awake |-> x.awake, statuses |-> x.statuses, swap |-> x.swap, cool |-> x.cool]
  <2>1. x = [hp |-> x.hp, alive |-> x.alive, acted |-> x.acted, reduced |-> x.reduced,
             awake |-> x.awake, statuses |-> x.statuses, swap |-> x.swap, cool |-> x.cool]
    BY FighterFacts
  <2> QED BY <1>6, <2>1
<1> QED BY <1>4, <1>5, <1>7, FighterFacts, Refreshed

\* What has an end is given more time.
LEMMA ElapsedIsNumber ==
    ASSUME NEW s, s.born \in Nat, NEW c, NEW u \in Nat
    PROVE  Elapsed(s, c, u) \in Nat
<1> DEFINE T == {t \in s.born + 1 .. u - 1 : Counts(s, c, t)}
<1>1. IsFiniteSet(s.born + 1 .. u - 1)
  BY FS_Interval
<1>2. IsFiniteSet(T)
  BY <1>1, FS_Subset
<1>3. Cardinality(T) \in Nat
  BY <1>2, FS_CardinalityType
<1> QED BY <1>3 DEF Elapsed

LEMMA LongerIs ==
    ASSUME NEW m, NEW c, NEW u \in Nat, NEW s \in StatusSet(m, c, u, "play"), ~Lasting(s.id), NEW n \in Nat
    PROVE  /\ Longer(s, n) \in StatusSet(m, c, u, "play")
           /\ Longer(s, n).id = s.id /\ Longer(s, n).stacks = s.stacks
<1> DEFINE r == Longer(s, n)
<1>1. /\ s \in StatusShape(m) /\ s.left \in Int /\ s.full \in Int /\ s.born \in Nat
      /\ OnTime(s, c, u, "play") /\ (Kind[s.id].redirect => s.to \in m)
  BY StatusFacts
<1>2. s.left > 0 /\ s.full > 0
  BY <1>1 DEF OnTime
<1> DEFINE l == s.left + n
           f == s.full + n
<1>a. l \in Int /\ f \in Int
  BY <1>1
<1>b. r = [s EXCEPT !.left = l, !.full = f]
  BY DEF Longer
<1> HIDE DEF r, l, f
<1>3. /\ r \in StatusShape(m) /\ r.id = s.id /\ r.to = s.to /\ r.born = s.born /\ r.clock = s.clock
      /\ r.by = s.by /\ r.stacks = s.stacks /\ r.left = l /\ r.full = f
  BY <1>1, <1>a, <1>b DEF StatusShape
<1> USE DEF l, f
<1>4. Elapsed(r, c, u) = Elapsed(s, c, u) /\ Elapsed(s, c, u) \in Int
  BY <1>1, <1>3, ElapsedSame, ElapsedIsNumber
<1>5. r.left > 0 /\ r.full > 0
  BY <1>1, <1>2, <1>3
<1>6. r.born > 0 => r.left = r.full - Elapsed(r, c, u)
  <2> SUFFICES ASSUME s.born > 0 PROVE s.left + n = (s.full + n) - Elapsed(s, c, u)
    BY <1>3, <1>4
  <2>1. s.left = s.full - Elapsed(s, c, u)
    BY <1>1, <1>2 DEF OnTime
  <2> QED BY <1>1, <1>4, <2>1
<1>7. OnTime(r, c, u, "play")
  BY <1>1, <1>3, <1>5, <1>6 DEF OnTime
<1>8. r \in StatusSet(m, c, u, "play")
  BY <1>1, <1>3, <1>7 DEF StatusSet
<1> QED BY <1>3, <1>8 DEF r

LEMMA ExtendedIs ==
    ASSUME NEW m, NEW c, NEW u \in Nat, NEW x \in Fighters(m, c, u, "play"), NEW id, ~Lasting(id), NEW n \in Nat
    PROVE  Extended(x, id, n) \in Fighters(m, c, u, "play")
<1> DEFINE S == StatusSet(m, c, u, "play")
           ss == x.statuses
           rr == [i \in DOMAIN ss |-> IF i \in Same(x, id) THEN Longer(ss[i], n) ELSE ss[i]]
<1>1. ss \in Seq(S)
  BY FighterFacts
<1>2. ASSUME NEW i \in DOMAIN ss PROVE rr[i] \in S /\ rr[i].id = ss[i].id /\ rr[i].stacks = ss[i].stacks
  <2>1. ss[i] \in S
    <3> HIDE DEF S, ss
    <3> QED BY <1>1
  <2>2. CASE i \in Same(x, id)
    <3>1. ss[i].id = id
      BY <2>2 DEF Same
    <3>2. Longer(ss[i], n) \in S /\ Longer(ss[i], n).id = ss[i].id /\ Longer(ss[i], n).stacks = ss[i].stacks
      <4> HIDE DEF ss
      <4> QED BY <2>1, <3>1, LongerIs
    <3> QED BY <2>2, <3>2
  <2>3. CASE i \notin Same(x, id)
    BY <2>1, <2>3
  <2> QED BY <2>2, <2>3
<1>3. rr \in Seq(S) /\ SameKinds(rr, ss)
  <2> HIDE DEF S, ss
  <2>1. Len(ss) \in Nat /\ DOMAIN ss = 1 .. Len(ss)
    BY <1>1
  <2>2. DOMAIN rr = DOMAIN ss
    OBVIOUS
  <2>3. rr = [i \in 1 .. Len(ss) |-> rr[i]]
    BY <2>1
  <2> HIDE DEF rr
  <2>4. rr \in Seq(S) /\ Len(rr) = Len(ss)
    BY <1>2, <2>1, <2>2, <2>3
  <2> QED BY <1>2, <2>4 DEF SameKinds
<1>4. Extended(x, id, n) = [x EXCEPT !.statuses = rr]
  BY DEF Extended
<1>5. [x EXCEPT !.statuses = rr] \in Fighters(m, c, u, "play")
  <2> HIDE DEF rr
  <2> QED BY <1>3, RelabelledIs
<1> QED BY <1>4, <1>5

\* Hit points go down to what is left of them, never below none.
LEMMA WoundIs ==
    ASSUME NEW m, NEW c, NEW u, NEW z, NEW x \in Fighters(m, c, u, z), NEW amount \in Int,
           NEW reduced \in Int, NEW blocked \in Int, amount - reduced - blocked >= 0
    PROVE  Wound(x, amount, reduced, blocked) \in Fighters(m, c, u, z)
<1> DEFINE hp == x.hp - Min({x.hp, amount - reduced - blocked})
           alive == hp > 0
           less == x.reduced + reduced
           rr == Worn(x.statuses, blocked)
<1>1. /\ x.hp \in 0 .. MaxHp /\ MaxHp \in Nat /\ x.reduced \in Int
      /\ x.statuses \in Seq(StatusSet(m, c, u, z)) /\ Single(x.statuses) /\ Backed(x.statuses, x.swap)
  BY FighterFacts, CombatAssumption
<1>2. hp \in 0 .. MaxHp
  BY <1>1, MinOfTwo
<1>3. rr \in Seq(StatusSet(m, c, u, z)) /\ SameKinds(rr, x.statuses)
  BY <1>1, WornIs
<1>4. Wound(x, amount, reduced, blocked)
        = [x EXCEPT !.hp = hp, !.alive = alive, !.reduced = less, !.statuses = rr]
  BY DEF Wound
<1>5. alive \in BOOLEAN /\ (alive <=> hp > 0) /\ less \in Int
  BY <1>1
<1> HIDE DEF hp, alive, less, rr
<1>6. Single(rr) /\ Backed(rr, x.swap)
  BY <1>1, <1>3, KindsKept
<1>7. Wound(x, amount, reduced, blocked)
        = [hp |-> hp, alive |-> alive, acted |-> x.acted, reduced |-> less,
           awake |-> x.awake, statuses |-> rr, swap |-> x.swap, cool |-> x.cool]
  <2>1. x = [hp |-> x.hp, alive |-> x.alive, acted |-> x.acted, reduced |-> x.reduced,
             awake |-> x.awake, statuses |-> x.statuses, swap |-> x.swap, cool |-> x.cool]
    BY FighterFacts
  <2> QED BY <1>4, <2>1
<1> QED BY <1>2, <1>3, <1>5, <1>6, <1>7, FighterFacts, Refreshed

LEMMA HurtIs ==
    ASSUME NEW m, NEW c, NEW u, NEW z, NEW x \in Fighters(m, c, u, z), NEW amount \in Int, NEW type
    PROVE  Hurt(x, amount, type) \in Fighters(m, c, u, z)
<1> DEFINE n == Max({0, amount + Total(x, "taken")})
           budget == Max({0, Total(x, "reduction") - x.reduced})
           reduced == IF type = "normal" THEN Min({n, budget}) ELSE 0
           blocked == IF type \in {"normal", "piercing"} THEN Min({n - reduced, Shield(x)}) ELSE 0
<1>1. Total(x, "taken") \in Int /\ Total(x, "reduction") \in Int /\ Shield(x) \in Nat /\ x.reduced \in Int
  BY TotalIsNumber, ShieldIsNumber, FighterFacts DEF SumField
<1>2. n \in Nat
  BY <1>1, MaxOfTwo
<1>3. budget \in Nat
  BY <1>1, MaxOfTwo
<1>4. reduced \in Nat /\ reduced <= n
  <2> HIDE DEF n, budget
  <2> QED BY <1>2, <1>3, MinOfTwo
<1>5. n - reduced \in Nat
  <2> HIDE DEF n, reduced
  <2> QED BY <1>2, <1>4
<1>6. blocked \in Nat /\ blocked <= n - reduced
  <2> HIDE DEF n, reduced
  <2> QED BY <1>1, <1>5, MinOfTwo
<1>7. Reduced(x, n, type) = Wound(x, n, reduced, blocked)
  <2> HIDE DEF n
  <2> QED BY DEF Reduced, Guarded
<1> HIDE DEF n, reduced, blocked
<1>8. n - reduced - blocked >= 0
  BY <1>5, <1>6
<1>9. Wound(x, n, reduced, blocked) \in Fighters(m, c, u, z)
  BY <1>2, <1>4, <1>6, <1>8, WoundIs
<1>10. Hurt(x, amount, type) = x \/ Hurt(x, amount, type) = Reduced(x, n, type)
  BY DEF Hurt, n
<1> QED BY <1>7, <1>9, <1>10

\* An awakening gives its status to one of the team.
LEMMA AwakenedIs ==
    ASSUME NEW m, NEW c \in Character, NEW u \in Nat, NEW z, NEW x \in Fighters(m, c, u, z), NEW who \in m
    PROVE  Awakened(x, who) \in Fighters(m, c, u, z)
<1> DEFINE id == Passive[who].gives
           s == Status(id, who, NoOne, 0, "turn", -1)
           y == [x EXCEPT !.awake = TRUE]
<1> SUFFICES ASSUME who \in DOMAIN Passive
             PROVE  Swapped([x EXCEPT !.awake = TRUE, !.statuses = Append(@, s)], s) \in Fighters(m, c, u, z)
  BY DEF Awakened
<1>1. id \in DOMAIN Kind /\ ~Kind[id].redirect /\ ~Replacing(id) /\ Lasting(id)
  BY GivesFacts DEF Lasting
<1>2. s \in StatusSet(m, c, u, z)
  <2> HIDE DEF id
  <2> QED BY <1>1, BareStatus DEF Clocks
<1>3. s.id = id
  BY DEF Status
<1>4. y \in Fighters(m, c, u, z) /\ y.statuses = x.statuses
  <2>1. x \in FighterShape(m, c, u, z)
    BY DEF Fighters
  <2>2. /\ y \in FighterShape(m, c, u, z) /\ y.hp = x.hp /\ y.alive = x.alive
        /\ y.statuses = x.statuses /\ y.swap = x.swap
    BY <2>1 DEF FighterShape
  <2> HIDE DEF y
  <2> QED BY <2>2, FighterFacts DEF Fighters
<1>5. [x EXCEPT !.awake = TRUE, !.statuses = Append(@, s)] = [y EXCEPT !.statuses = Append(@, s)]
  OBVIOUS
<1> HIDE DEF y, s, id
<1>6. [y EXCEPT !.statuses = Append(@, s)] \in Fighters(m, c, u, z)
  BY <1>1, <1>2, <1>3, <1>4, JoinedIs
<1>7. Swapped([y EXCEPT !.statuses = Append(@, s)], s) = [y EXCEPT !.statuses = Append(@, s)]
  BY <1>1, <1>3, <1>6, SwappedPlain
<1> QED BY <1>5, <1>6, <1>7

\* The board keeps a fighter's acts and cooldowns.
LEMMA ActedIs ==
    ASSUME NEW m, NEW c, NEW u, NEW z, NEW x \in Fighters(m, c, u, z), NEW acted \in BOOLEAN,
           NEW cool \in Cools
    PROVE  /\ [x EXCEPT !.acted = acted, !.cool = cool] \in Fighters(m, c, u, z)
           /\ [x EXCEPT !.acted = acted, !.cool = cool].swap = x.swap
           /\ [x EXCEPT !.acted = acted, !.cool = cool].statuses = x.statuses
<1> DEFINE y == [x EXCEPT !.acted = acted, !.cool = cool]
<1>1. x \in FighterShape(m, c, u, z)
  BY DEF Fighters
<1>2. /\ y \in FighterShape(m, c, u, z) /\ y.hp = x.hp /\ y.alive = x.alive
      /\ y.statuses = x.statuses /\ y.swap = x.swap
  BY <1>1 DEF FighterShape
<1>3. y \in Fighters(m, c, u, z)
  <2> HIDE DEF y
  <2> QED BY <1>2, FighterFacts DEF Fighters
<1> QED BY <1>2, <1>3

\* Defenses broken, and nothing else.
LEMMA BrokenIs ==
    ASSUME NEW m, NEW c, NEW u, NEW z, NEW x \in Fighters(m, c, u, z), NEW n \in Int
    PROVE  Broken(x, n) \in Fighters(m, c, u, z)
<1>1. Worn(x.statuses, n) \in Seq(StatusSet(m, c, u, z)) /\ SameKinds(Worn(x.statuses, n), x.statuses)
  BY FighterFacts, WornIs
<1> QED BY <1>1, RelabelledIs DEF Broken

-----------------------------------------------------------------------------
(* Boards *)

\* The boards of a line-up in turn t of player p, the fighter c being in W[c].
Boards(line, t, p, W) ==
    {b \in [lineup : {line}, team : [ToSet(line) -> UNION {W[c] : c \in ToSet(line)}],
            energy : [{First, Second} -> Nat], converted : BOOLEAN, turn : {t}, mover : {p},
            verdict : {Open, Draw, First, Second}] :
        \A c \in ToSet(line) : b.team[c] \in W[c]}

\* While the actions of the turn resolve.
Playing(line, t) == [c \in ToSet(line) |-> Fighters(ToSet(line), c, t, "play")]
Play(line, t, p) == Boards(line, t, p, Playing(line, t))

WithFighter(b, c, x) == [b EXCEPT !.team[c] = x]
WithTeam(b, team) == [b EXCEPT !.team = team]
WithEnergy(b, p, n) == [b EXCEPT !.energy[p] = n]

LEMMA LineFacts ==
    ASSUME NEW line \in Lineups
    PROVE  /\ line \in Seq(Character) /\ line \in Seq(ToSet(line))
           /\ \A c \in ToSet(line) : c \in Character
           /\ \A i \in DOMAIN line : line[i] \in ToSet(line)
           /\ \A c \in ToSet(line) : \E i \in DOMAIN line : line[i] = c
           /\ \A i, j \in DOMAIN line : line[i] = line[j] => i = j
<1>1. line \in Seq(Character) /\ IsInjective(line)
  BY CombatAssumption
<1> QED BY <1>1 DEF ToSet, IsInjective

LEMMA BoardFacts ==
    ASSUME NEW line, NEW t, NEW p, NEW W, NEW b \in Boards(line, t, p, W)
    PROVE  /\ b.lineup = line /\ b.turn = t /\ b.mover = p /\ DOMAIN b.team = ToSet(line)
           /\ b.energy \in [{First, Second} -> Nat] /\ b.verdict \in {Open, Draw, First, Second}
           /\ \A c \in ToSet(line) : b.team[c] \in W[c]
BY DEF Boards

LEMMA WithTeamIs ==
    ASSUME NEW line, NEW t, NEW p, NEW W, NEW W1, NEW b \in Boards(line, t, p, W), NEW team,
           team = [c \in ToSet(line) |-> team[c]], \A c \in ToSet(line) : team[c] \in W1[c]
    PROVE  WithTeam(b, team) \in Boards(line, t, p, W1) /\ WithTeam(b, team).team = team
<1>1. b \in [lineup : {line}, team : [ToSet(line) -> UNION {W[c] : c \in ToSet(line)}],
             energy : [{First, Second} -> Nat], converted : BOOLEAN, turn : {t}, mover : {p},
             verdict : {Open, Draw, First, Second}]
  BY DEF Boards
<1>2. team \in [ToSet(line) -> UNION {W1[c] : c \in ToSet(line)}]
  OBVIOUS
<1>3. /\ WithTeam(b, team) \in
            [lineup : {line}, team : [ToSet(line) -> UNION {W1[c] : c \in ToSet(line)}],
             energy : [{First, Second} -> Nat], converted : BOOLEAN, turn : {t}, mover : {p},
             verdict : {Open, Draw, First, Second}]
      /\ WithTeam(b, team).team = team
  BY <1>1, <1>2 DEF WithTeam
<1> QED BY <1>3 DEF Boards

\* The same board, said of other sets.
LEMMA BoardIn ==
    ASSUME NEW line, NEW t, NEW p, NEW W, NEW W1, NEW b \in Boards(line, t, p, W),
           \A c \in ToSet(line) : b.team[c] \in W1[c]
    PROVE  b \in Boards(line, t, p, W1)
<1>1. b \in [lineup : {line}, team : [ToSet(line) -> UNION {W[c] : c \in ToSet(line)}],
             energy : [{First, Second} -> Nat], converted : BOOLEAN, turn : {t}, mover : {p},
             verdict : {Open, Draw, First, Second}]
  BY DEF Boards
<1>2. b.team \in [ToSet(line) -> UNION {W1[c] : c \in ToSet(line)}]
  BY <1>1
<1>3. b \in [lineup : {line}, team : [ToSet(line) -> UNION {W1[c] : c \in ToSet(line)}],
             energy : [{First, Second} -> Nat], converted : BOOLEAN, turn : {t}, mover : {p},
             verdict : {Open, Draw, First, Second}]
  BY <1>1, <1>2
<1> QED BY <1>3 DEF Boards

LEMMA WithFighterIs ==
    ASSUME NEW line, NEW t, NEW p, NEW W, NEW b \in Boards(line, t, p, W), NEW c \in ToSet(line), NEW x \in W[c]
    PROVE  /\ WithFighter(b, c, x) \in Boards(line, t, p, W)
           /\ WithFighter(b, c, x).team[c] = x
           /\ \A d \in ToSet(line) : d # c => WithFighter(b, c, x).team[d] = b.team[d]
           /\ WithFighter(b, c, x).energy = b.energy
<1>1. b \in [lineup : {line}, team : [ToSet(line) -> UNION {W[d] : d \in ToSet(line)}],
             energy : [{First, Second} -> Nat], converted : BOOLEAN, turn : {t}, mover : {p},
             verdict : {Open, Draw, First, Second}]
      /\ \A d \in ToSet(line) : b.team[d] \in W[d]
  BY DEF Boards
<1> DEFINE team == [b.team EXCEPT ![c] = x]
<1>2. /\ team \in [ToSet(line) -> UNION {W[d] : d \in ToSet(line)}]
      /\ team[c] = x /\ \A d \in ToSet(line) : d # c => team[d] = b.team[d]
  BY <1>1
<1>3. WithFighter(b, c, x) = [b EXCEPT !.team = team]
  BY DEF WithFighter
<1> HIDE DEF team
<1>4. /\ WithFighter(b, c, x) \in
            [lineup : {line}, team : [ToSet(line) -> UNION {W[d] : d \in ToSet(line)}],
             energy : [{First, Second} -> Nat], converted : BOOLEAN, turn : {t}, mover : {p},
             verdict : {Open, Draw, First, Second}]
      /\ WithFighter(b, c, x).team = team /\ WithFighter(b, c, x).energy = b.energy
  BY <1>1, <1>2, <1>3
<1> QED BY <1>1, <1>2, <1>4 DEF Boards

LEMMA WithEnergyIs ==
    ASSUME NEW line, NEW t, NEW p, NEW W, NEW b \in Boards(line, t, p, W), NEW q \in {First, Second}, NEW n \in Nat
    PROVE  WithEnergy(b, q, n) \in Boards(line, t, p, W) /\ WithEnergy(b, q, n).team = b.team
<1>1. b \in [lineup : {line}, team : [ToSet(line) -> UNION {W[d] : d \in ToSet(line)}],
             energy : [{First, Second} -> Nat], converted : BOOLEAN, turn : {t}, mover : {p},
             verdict : {Open, Draw, First, Second}]
      /\ \A d \in ToSet(line) : b.team[d] \in W[d]
  BY DEF Boards
<1>2. /\ WithEnergy(b, q, n) \in
            [lineup : {line}, team : [ToSet(line) -> UNION {W[d] : d \in ToSet(line)}],
             energy : [{First, Second} -> Nat], converted : BOOLEAN, turn : {t}, mover : {p},
             verdict : {Open, Draw, First, Second}]
      /\ WithEnergy(b, q, n).team = b.team
  BY <1>1 DEF WithEnergy
<1> QED BY <1>1, <1>2 DEF Boards

LEMMA PlayFacts ==
    ASSUME NEW line, NEW t, NEW p, NEW b \in Play(line, t, p)
    PROVE  /\ b.lineup = line /\ b.turn = t /\ b.mover = p /\ DOMAIN b.team = ToSet(line)
           /\ b.energy \in [{First, Second} -> Nat]
           /\ \A c \in ToSet(line) : b.team[c] \in Fighters(ToSet(line), c, t, "play")
<1>1. b \in Boards(line, t, p, Playing(line, t))
  BY DEF Play
<1>2. \A c \in ToSet(line) : Playing(line, t)[c] = Fighters(ToSet(line), c, t, "play")
  BY DEF Playing
<1>3. /\ b.lineup = line /\ b.turn = t /\ b.mover = p /\ DOMAIN b.team = ToSet(line)
      /\ b.energy \in [{First, Second} -> Nat]
  BY <1>1 DEF Boards
<1>4. \A c \in ToSet(line) : b.team[c] \in Playing(line, t)[c]
  BY <1>1, BoardFacts
<1> QED BY <1>2, <1>3, <1>4

LEMMA PlayWith ==
    ASSUME NEW line, NEW t, NEW p, NEW b \in Play(line, t, p), NEW c \in ToSet(line),
           NEW x \in Fighters(ToSet(line), c, t, "play")
    PROVE  /\ WithFighter(b, c, x) \in Play(line, t, p)
           /\ WithFighter(b, c, x).team[c] = x
           /\ \A d \in ToSet(line) : d # c => WithFighter(b, c, x).team[d] = b.team[d]
BY WithFighterIs DEF Play, Playing

-----------------------------------------------------------------------------
(* Giving and answering *)

LEMMA GivePlays ==
    ASSUME NEW line \in Lineups, NEW t \in Nat, NEW p, NEW b \in Play(line, t, p), NEW on \in ToSet(line),
           NEW id \in DOMAIN Kind, NEW by \in ToSet(line), NEW to \in ToSet(line) \cup {NoOne},
           Kind[id].redirect => to \in ToSet(line), Free(id, on, b.team[on].swap)
    PROVE  Give(b, on, id, by, to) \in Play(line, t, p)
<1> DEFINE m == ToSet(line)
           clock == IF Kind[id].clock # "" THEN Kind[id].clock
                    ELSE IF Side[on] = Side[by] THEN "source" ELSE "target"
           x == b.team[on]
           s == Status(id, by, to, t, clock, Kind[id].for)
<1>1. x \in Fighters(m, on, t, "play") /\ b.turn = t /\ on \in Character
  BY PlayFacts, LineFacts
<1>2. clock \in Clocks
  BY DEF Clocks
<1> HIDE DEF clock, m
<1>3. Put(x, s) \in Fighters(m, on, t, "play")
  <2> HIDE DEF x
  <2> QED BY <1>1, <1>2, PutIs DEF x, m
<1>4. Give(b, on, id, by, to) = WithFighter(b, on, Put(x, s))
  BY <1>1 DEF Give, WithFighter, clock
<1> HIDE DEF x, s
<1> QED BY <1>3, <1>4, PlayWith DEF m

LEMMA GiveAllPlays ==
    ASSUME NEW line \in Lineups, NEW t \in Nat, NEW p, NEW b \in Play(line, t, p), NEW members \in Seq(ToSet(line)),
           NEW id \in DOMAIN Kind, NEW by \in ToSet(line), NEW to \in ToSet(line) \cup {NoOne},
           Kind[id].redirect => to \in ToSet(line), ~Exclusive(id)
    PROVE  GiveAll(b, members, id, by, to) \in Play(line, t, p)
<1> DEFINE V == Play(line, t, p)
<1>1. ASSUME NEW v \in V, NEW i \in DOMAIN members PROVE Give(v, members[i], id, by, to) \in V
  <2>1. members[i] \in ToSet(line) /\ Free(id, members[i], v.team[members[i]].swap)
    BY DEF Free
  <2> QED BY <2>1, GivePlays
<1> HIDE DEF V
<1>2. b \in V /\ \A v \in V, i \in DOMAIN members : Give(v, members[i], id, by, to) \in V
  BY <1>1 DEF V
<1>3. GiveAll(b, members, id, by, to) \in V
  BY <1>2, GiveAllStays
<1> QED BY <1>3 DEF V

\* What the engine appends by itself is in no hurry: two turns of any clock.
WithBare(b, on, id, by) == [b EXCEPT !.team[on].statuses = Append(@, Bare(id, by))]

LEMMA BarePlays ==
    ASSUME NEW line \in Lineups, NEW t \in Nat, NEW p, NEW b \in Play(line, t, p), NEW on \in ToSet(line),
           NEW id \in DOMAIN Kind, ~Kind[id].redirect, ~Replacing(id), NEW by \in ToSet(line)
    PROVE  WithBare(b, on, id, by) \in Play(line, t, p)
<1> DEFINE x == b.team[on]
           m == ToSet(line)
           s == Bare(id, by)
<1>1. x \in Fighters(m, on, t, "play")
  BY PlayFacts
<1>2. s \in StatusSet(m, on, t, "play") /\ s.id = id
  <2>1. s = Status(id, by, NoOne, 0, "turn", 2)
    BY DEF Bare
  <2>2. s.id = id
    BY <2>1 DEF Status
  <2> HIDE DEF s
  <2>3. s \in StatusSet(m, on, t, "play")
    BY <2>1, BareStatus DEF Clocks
  <2> QED BY <2>2, <2>3
<1>3. [x EXCEPT !.statuses = Append(@, s)] \in Fighters(m, on, t, "play")
  <2> HIDE DEF x, s
  <2> QED BY <1>1, <1>2, JoinedIs
<1>4. WithBare(b, on, id, by) = WithFighter(b, on, [x EXCEPT !.statuses = Append(@, s)])
  BY DEF WithFighter, WithBare
<1> HIDE DEF x, s
<1> QED BY <1>3, <1>4, PlayWith

LEMMA PunishedPlays ==
    ASSUME NEW line \in Lineups, NEW t \in Nat, NEW p, NEW b \in Play(line, t, p), NEW a, a.by \in ToSet(line),
           NEW skill, NEW targets \in Seq(ToSet(line))
    PROVE  Punished(b, a, skill, targets) \in Play(line, t, p)
<1> SUFFICES ASSUME "melee" \in skill.classes PROVE Punished(b, a, skill, targets) \in Play(line, t, p)
  BY DEF Punished
<1> DEFINE V == Play(line, t, p)
<1>1. ASSUME NEW v \in V, NEW i \in DOMAIN targets
      PROVE  Spited(v, a, targets[i], Spites(b.team[targets[i]])) \in V
  <2> DEFINE x == b.team[targets[i]]
             q == Spites(x)
             S == StatusSet(ToSet(line), targets[i], t, "play")
  <2>1. targets[i] \in ToSet(line)
    OBVIOUS
  <2>2. x.statuses \in Seq(S)
    BY <2>1, PlayFacts, FighterFacts
  <2> SUFFICES ASSUME q # <<>> PROVE Spited(v, a, targets[i], q) \in V
    BY DEF Spited
  <2>3. Head(q).id \in DOMAIN Kind /\ Kind[Head(q).id].punish # ""
    <3> DEFINE T == {s \in ToSet(x.statuses) : Kind[s.id].punish # ""}
               A == {s \in ToSet(x.statuses) : s.left # 0 /\ s \in T}
    <3>1. q = Only(InForce(x), T)
      BY DEF Spites
    <3> HIDE DEF q, T, x
    <3>2. q \in Seq(S) /\ Picks(q, x.statuses, A)
      <4> HIDE DEF S
      <4> QED BY <2>2, <3>1, PickedIs
    <3>3. 1 \in DOMAIN q /\ Head(q) = q[1] /\ q[1] \in A /\ q[1] \in S
      BY <3>2 DEF Picks
    <3>4. Head(q) \in T /\ Head(q) \in S
      BY <3>3
    <3>5. Head(q).id \in DOMAIN Kind
      BY <3>4, StatusFacts
    <3> QED BY <3>4, <3>5 DEF T
  <2> DEFINE g == Kind[Head(q).id].punish
  <2>4. g \in DOMAIN Kind /\ ~Kind[g].redirect /\ ~Replacing(g)
    <3> HIDE DEF q
    <3> QED BY <2>3, GivenFacts
  <2>5. Spited(v, a, targets[i], q) = WithBare(v, a.by, g, targets[i])
    BY DEF Spited, WithBare
  <2> HIDE DEF g, q, x
  <2> QED BY <2>1, <2>4, <2>5, BarePlays
<1> HIDE DEF V
<1>2. b \in V /\ \A v \in V, i \in DOMAIN targets : Spited(v, a, targets[i], Spites(b.team[targets[i]])) \in V
  BY <1>1 DEF V
<1>3. Punished(b, a, skill, targets) \in V
  BY <1>2, PunishedStays
<1> QED BY <1>3 DEF V

LEMMA PlainFree ==
    ASSUME NEW id, NEW c, NEW swap, ~Replacing(id)
    PROVE  Free(id, c, swap) /\ ~Exclusive(id)
BY DEF Free, Exclusive

\* A guard in force: a status of the fighter on, with an answer.
LEMMA AnswerPlays ==
    ASSUME NEW line \in Lineups, NEW t \in Nat, NEW p, NEW b \in Play(line, t, p), NEW a, a.by \in ToSet(line),
           NEW on \in ToSet(line), NEW g \in StatusSet(ToSet(line), on, t, "play")
    PROVE  Answer(b, a, g) \in Play(line, t, p)
<1> DEFINE x == b.team[a.by]
           y == Hurt(x, Kind[g.id].retaliate, "soul")
           b1 == WithFighter(b, a.by, y)
           spite == Kind[g.id].spite
<1>1. x \in Fighters(ToSet(line), a.by, t, "play") /\ g.id \in DOMAIN Kind /\ g.by \in ToSet(line)
  BY PlayFacts, StatusFacts
<1>2. Kind[g.id].retaliate \in Int
  BY <1>1, KindFacts
<1>3. y \in Fighters(ToSet(line), a.by, t, "play")
  <2> HIDE DEF x
  <2> QED BY <1>1, <1>2, HurtIs
<1>4. b1 \in Play(line, t, p)
  <2> HIDE DEF y
  <2> QED BY <1>3, PlayWith
<1>5. Answer(b, a, g) = IF spite = "" THEN b1 ELSE Give(b1, a.by, spite, g.by, NoOne)
  BY DEF Answer, WithFighter
<1> HIDE DEF b1
<1>6. ASSUME spite # "" PROVE Give(b1, a.by, spite, g.by, NoOne) \in Play(line, t, p)
  <2>1. spite \in DOMAIN Kind /\ ~Kind[spite].redirect /\ ~Replacing(spite)
    BY <1>1, <1>6, GivenFacts
  <2> HIDE DEF spite
  <2>2. Free(spite, a.by, b1.team[a.by].swap)
    BY <2>1, PlainFree
  <2> QED BY <1>1, <1>4, <2>1, <2>2, GivePlays
<1> QED BY <1>4, <1>5, <1>6

LEMMA RetaliatedPlays ==
    ASSUME NEW line \in Lineups, NEW t \in Nat, NEW p, NEW b \in Play(line, t, p), NEW a, a.by \in ToSet(line),
           NEW on \in ToSet(line), NEW guards \in Seq(StatusSet(ToSet(line), on, t, "play"))
    PROVE  Retaliated(b, a, guards) \in Play(line, t, p)
<1> SUFFICES ASSUME guards # <<>> PROVE Retaliated(b, a, guards) \in Play(line, t, p)
  BY DEF Retaliated
<1> DEFINE b1 == Answer(b, a, Head(guards))
           y == Awakened(b1.team[a.by], a.by)
<1>1. Head(guards) \in StatusSet(ToSet(line), on, t, "play")
  <2> DEFINE S == StatusSet(ToSet(line), on, t, "play")
  <2> HIDE DEF S
  <2>1. guards \in Seq(S)
    BY DEF S
  <2>2. Head(guards) \in S
    BY <2>1
  <2> QED BY <2>2 DEF S
<1>2. b1 \in Play(line, t, p)
  BY <1>1, AnswerPlays
<1>3. Retaliated(b, a, guards) = WithFighter(b1, a.by, y)
  BY DEF Retaliated, WithFighter
<1> HIDE DEF b1
<1>4. b1.team[a.by] \in Fighters(ToSet(line), a.by, t, "play") /\ a.by \in Character
  BY <1>2, PlayFacts, LineFacts
<1>5. y \in Fighters(ToSet(line), a.by, t, "play")
  <2> DEFINE x == b1.team[a.by]
  <2> HIDE DEF x
  <2>1. Awakened(x, a.by) \in Fighters(ToSet(line), a.by, t, "play")
    BY <1>4, AwakenedIs DEF x
  <2> QED BY <2>1 DEF x
<1> HIDE DEF y
<1> QED BY <1>2, <1>3, <1>5, PlayWith

LEMMA AnsweredPlays ==
    ASSUME NEW line \in Lineups, NEW t \in Nat, NEW p, NEW b, NEW b1 \in Play(line, t, p), NEW a, a.by \in ToSet(line),
           NEW e, NEW on \in ToSet(line)
    PROVE  Answered(b, b1, a, e, on) \in Play(line, t, p)
<1> DEFINE x == b1.team[on]
           b2 == WithFighter(b1, on, Awakened(x, on))
           T == {s \in ToSet(x.statuses) : Kind[s.id].retaliate > 0}
           guards == Only(InForce(x), T)
<1>1. x \in Fighters(ToSet(line), on, t, "play") /\ on \in Character
  BY PlayFacts, LineFacts
<1>2. Awakened(x, on) \in Fighters(ToSet(line), on, t, "play")
  <2> HIDE DEF x
  <2> QED BY <1>1, AwakenedIs
<1>3. b2 \in Play(line, t, p)
  <2> DEFINE y == Awakened(x, on)
  <2> HIDE DEF y
  <2>1. WithFighter(b1, on, y) \in Play(line, t, p)
    BY <1>2, PlayWith DEF y
  <2> QED BY <2>1 DEF y
<1>4. guards \in Seq(StatusSet(ToSet(line), on, t, "play"))
  <2>1. x.statuses \in Seq(StatusSet(ToSet(line), on, t, "play"))
    BY <1>1, FighterFacts
  <2> HIDE DEF x, T
  <2> QED BY <2>1, PickedIs
<1>5. Answered(b, b1, a, e, on) = b1 \/ Answered(b, b1, a, e, on) = Retaliated(b2, a, guards)
  BY DEF Answered, WithFighter
<1> HIDE DEF b2, guards
<1> QED BY <1>3, <1>4, <1>5, RetaliatedPlays

-----------------------------------------------------------------------------
(* Effects *)

LEMMA SkillFacts ==
    ASSUME NEW id \in DOMAIN Skill
    PROVE  /\ Skill[id].kind \in {"self", "enemies", "allies", "enemy", "ally"}
           /\ Skill[id].fixed \in Int /\ Skill[id].wild \in Int /\ Skill[id].cooldown \in Int
           /\ Skill[id].effects \in Seq(ToSet(Skill[id].effects))
BY SkillAssumption

LEMMA EffectFacts ==
    ASSUME NEW id \in DOMAIN Skill, NEW e \in ToSet(Skill[id].effects)
    PROVE  /\ e.type \in {"damage", "status", "team", "heal", "consume", "extend", "remove", "cleanse"}
           /\ e.amount \in Int /\ e.bonus \in Int /\ e.breaks \in Int
           /\ e.type \in {"status", "team", "extend"} => e.status \in DOMAIN Kind
           /\ e.type = "team" => ~Kind[e.status].redirect
           /\ e.type = "extend" => e.amount \in Nat /\ ~Lasting(e.status)
           /\ e.type = "status" /\ Kind[e.status].redirect => Redirecting(Skill[id])
           /\ e.type \in {"status", "team"} => Casts(Skill[id], e.status)
<1>1. /\ e.type \in {"damage", "status", "team", "heal", "consume", "extend", "remove", "cleanse"}
      /\ e.amount \in Int /\ e.bonus \in Int /\ e.breaks \in Int
      /\ e.type \in {"status", "team", "extend"} => e.status \in DOMAIN Kind
      /\ e.type = "team" => ~Kind[e.status].redirect
      /\ e.type = "extend" => e.amount \in Nat /\ ~Lasting(e.status)
  BY SkillAssumption
<1>2. PICK i \in DOMAIN Skill[id].effects : e = Skill[id].effects[i]
  BY DEF ToSet
<1> QED BY <1>1, <1>2 DEF Redirecting, Casts

\* A skill that casts what is exclusive does only that, to its caster.
LEMMA ExclusiveFacts ==
    ASSUME NEW sid \in DOMAIN Skill, NEW id \in DOMAIN Kind, Exclusive(id), Casts(Skill[sid], id)
    PROVE  /\ DOMAIN Kind[id].swap = {sid} /\ Len(Skill[sid].effects) = 1
           /\ Skill[sid].effects[1].type = "status" /\ Skill[sid].effects[1].on = "self"
<1>1. id \in {j \in DOMAIN Kind : Replacing(j)} /\ Kind[id].max = 0
  BY DEF Exclusive
<1>2. \A n \in DOMAIN Skill : Casts(Skill[n], id) =>
         /\ DOMAIN Kind[id].swap = {n} /\ Len(Skill[n].effects) = 1
         /\ Skill[n].effects[1].type = "status" /\ Skill[n].effects[1].on = "self"
  BY <1>1, ReplacementAssumption, Zenon
<1> QED BY <1>2, Zenon

\* The action a of a team m may take effect as the skill id.
Aimed(a, id, m) ==
    /\ a.by \in m /\ a.at \in Seq(m) /\ a.at # <<>>
    /\ a.mark \in m \cup {NoOne} /\ a.alt \in m \cup {NoOne}
    /\ id \in DOMAIN Skill /\ (Redirecting(Skill[id]) => a.alt \in m)

LEMMA AmountIsNumber ==
    ASSUME NEW line \in Lineups, NEW t, NEW p, NEW b \in Play(line, t, p), NEW a, a.by \in ToSet(line),
           NEW e, e.amount \in Int, e.bonus \in Int, NEW on
    PROVE  Amount(b, a, e, on) \in Int
<1> DEFINE more == IF e.bonus_if # "" /\ Has(b.team[on], e.bonus_if) THEN e.bonus ELSE 0
           n == e.amount + more
           sum == n + Total(b.team[a.by], "output")
<1>1. n \in Int
  <2>1. more = e.bonus \/ more = 0
    OBVIOUS
  <2> HIDE DEF more
  <2> QED BY <2>1
<1>2. b.team[a.by] \in Fighters(ToSet(line), a.by, t, "play")
  BY PlayFacts
<1>3. Total(b.team[a.by], "output") \in Int
  <2> DEFINE x == b.team[a.by]
  <2> HIDE DEF x
  <2>1. Total(x, "output") \in Int
    BY <1>2, TotalIsNumber DEF SumField, x
  <2> QED BY <2>1 DEF x
<1>4. Max({0, sum}) \in Int
  <2> HIDE DEF n
  <2>1. sum \in Int
    BY <1>1, <1>3
  <2> HIDE DEF sum
  <2> QED BY <2>1, MaxOfTwo
<1> QED BY <1>1, <1>4 DEF Amount

LEMMA DamagePlays ==
    ASSUME NEW line \in Lineups, NEW t \in Nat, NEW p, NEW b \in Play(line, t, p), NEW a, a.by \in ToSet(line),
           NEW e, e.amount \in Int, e.bonus \in Int, e.breaks \in Int, NEW on \in ToSet(line)
    PROVE  DamageEffect(b, a, e, on) \in Play(line, t, p)
<1> DEFINE F == Fighters(ToSet(line), on, t, "play")
           x == b.team[on]
           y == Broken(x, e.breaks)
           z == Hurt(y, Amount(b, a, e, on), DamageType(x, e.damage))
           b1 == WithFighter(b, on, z)
<1>1. x \in F
  BY PlayFacts
<1>2. y \in F
  <2> HIDE DEF x
  <2> QED BY <1>1, BrokenIs
<1>3. z \in F
  <2>1. Amount(b, a, e, on) \in Int
    BY AmountIsNumber
  <2> HIDE DEF y
  <2> QED BY <1>2, <2>1, HurtIs
<1>4. DamageEffect(b, a, e, on) = Answered(b, b1, a, e, on)
  BY DEF DamageEffect, WithFighter
<1>5. b1 \in Play(line, t, p)
  <2> HIDE DEF z
  <2> QED BY <1>3, PlayWith
<1> HIDE DEF b1
<1> QED BY <1>4, <1>5, AnsweredPlays

LEMMA LivingIn ==
    ASSUME NEW line \in Lineups, NEW b, b.lineup = line, NEW q
    PROVE  Members(b, q) \in Seq(ToSet(line)) /\ Living(b, q) \in Seq(ToSet(line))
<1> DEFINE T == {c \in Character : Side[c] = q}
           A == {c \in DOMAIN b.team : b.team[c].alive}
           S == ToSet(line)
<1>1. line \in Seq(S)
  BY LineFacts
<1>2. Members(b, q) = Only(line, T) /\ Living(b, q) = Only(Members(b, q), A)
  BY DEF Members, Living
<1> HIDE DEF S, T, A
<1>3. Members(b, q) \in Seq(S)
  BY <1>1, <1>2, OnlyIn
<1>4. Living(b, q) \in Seq(S)
  BY <1>2, <1>3, OnlyIn
<1> QED BY <1>3, <1>4 DEF S

\* One effect on one fighter.
LEMMA AffectPlays ==
    ASSUME NEW line \in Lineups, NEW t \in Nat, NEW p, NEW b \in Play(line, t, p),
           NEW a, NEW id, Aimed(a, id, ToSet(line)), NEW e \in ToSet(Skill[id].effects),
           NEW on \in ToSet(line), NEW by \in ToSet(line), NEW b0,
           e.type = "status" => Free(e.status, on, b.team[on].swap)
    PROVE  Affect(b, a, e, on, by, b0) \in Play(line, t, p)
<1> DEFINE m == ToSet(line)
           F == Fighters(m, on, t, "play")
           x == b.team[on]
           to == IF Kind[e.status].redirect THEN a.alt ELSE a.mark
<1>1. /\ id \in DOMAIN Skill /\ a.by \in m /\ a.mark \in m \cup {NoOne} /\ a.alt \in m \cup {NoOne}
      /\ (Redirecting(Skill[id]) => a.alt \in m)
  BY DEF Aimed
<1>2. /\ e.type \in {"damage", "status", "team", "heal", "consume", "extend", "remove", "cleanse"}
      /\ e.amount \in Int /\ e.bonus \in Int /\ e.breaks \in Int
      /\ e.type \in {"status", "team", "extend"} => e.status \in DOMAIN Kind
      /\ e.type = "team" => ~Kind[e.status].redirect
      /\ e.type = "extend" => e.amount \in Nat /\ ~Lasting(e.status)
      /\ e.type = "status" /\ Kind[e.status].redirect => Redirecting(Skill[id])
      /\ e.type \in {"status", "team"} => Casts(Skill[id], e.status)
  BY <1>1, EffectFacts
<1>3. x \in F /\ on \in Character
  BY PlayFacts, LineFacts
<1>4. \A y \in F : WithFighter(b, on, y) \in Play(line, t, p)
  BY PlayWith
<1>5. to \in m \cup {NoOne} /\ (e.type = "status" => (Kind[e.status].redirect => to \in m))
  BY <1>1, <1>2
<1> SUFFICES ASSUME Meets(b, a, e, on, b0) PROVE Affect(b, a, e, on, by, b0) \in Play(line, t, p)
  BY DEF Affect
<1>6. CASE e.type = "damage"
  <2>1. DamageEffect(b, a, e, on) \in Play(line, t, p)
    BY <1>1, <1>2, DamagePlays
  <2> QED BY <1>6, <2>1 DEF Affect
<1>7. CASE e.type = "status"
  <2>1. Affect(b, a, e, on, by, b0) = Give(b, on, e.status, by, to)
    BY <1>7 DEF Affect
  <2>2. e.status \in DOMAIN Kind /\ Free(e.status, on, b.team[on].swap)
    BY <1>2, <1>7
  <2> HIDE DEF to
  <2> QED BY <1>5, <1>7, <2>1, <2>2, GivePlays
<1>8. CASE e.type = "team"
  <2>1. Affect(b, a, e, on, by, b0) = GiveAll(b, Living(b, Side[on]), e.status, by, to)
    BY <1>8 DEF Affect
  <2>2. e.status \in DOMAIN Kind /\ ~Kind[e.status].redirect /\ Casts(Skill[id], e.status)
    BY <1>2, <1>8
  <2>3. ~Exclusive(e.status)
    <3> SUFFICES ASSUME Exclusive(e.status) PROVE FALSE
      OBVIOUS
    <3>1. Len(Skill[id].effects) = 1 /\ Skill[id].effects[1].type = "status"
      BY <1>1, <2>2, ExclusiveFacts
    <3>2. PICK i \in DOMAIN Skill[id].effects : e = Skill[id].effects[i]
      BY DEF ToSet
    <3>3. DOMAIN Skill[id].effects = 1 .. Len(Skill[id].effects)
      BY <1>1, SkillFacts
    <3>4. i = 1
      BY <3>1, <3>2, <3>3
    <3> QED BY <1>8, <3>1, <3>2, <3>4
  <2>4. Living(b, Side[on]) \in Seq(m)
    BY PlayFacts, LivingIn
  <2> HIDE DEF to
  <2>5. GiveAll(b, Living(b, Side[on]), e.status, by, to) \in Play(line, t, p)
    BY <1>5, <2>2, <2>3, <2>4, GiveAllPlays
  <2> QED BY <2>1, <2>5
<1>9. CASE e.type = "heal"
  <2>1. Affect(b, a, e, on, by, b0) = WithFighter(b, on, Healed(x, e.amount))
    BY <1>9 DEF Affect, WithFighter
  <2>2. Healed(x, e.amount) \in F
    <3> HIDE DEF x
    <3> QED BY <1>2, <1>3, HealedIs
  <2> QED BY <1>4, <2>1, <2>2, Zenon
<1>10. CASE e.type = "consume"
  <2>1. Affect(b, a, e, on, by, b0) = WithFighter(b, on, Spent(x, e.status, e.amount))
    BY <1>10 DEF Affect, WithFighter
  <2>2. Spent(x, e.status, e.amount) \in F
    <3> HIDE DEF x
    <3> QED BY <1>2, <1>3, SpentIs
  <2> QED BY <1>4, <2>1, <2>2, Zenon
<1>11. CASE e.type = "extend"
  <2>1. Affect(b, a, e, on, by, b0) = WithFighter(b, on, Extended(x, e.status, e.amount))
    BY <1>11 DEF Affect, WithFighter
  <2>2. Extended(x, e.status, e.amount) \in F
    <3> HIDE DEF x
    <3> QED BY <1>2, <1>3, <1>11, ExtendedIs
  <2> QED BY <1>4, <2>1, <2>2, Zenon
<1>12. CASE e.type = "remove"
  <2> DEFINE gone == {s \in ToSet(InForce(x)) : s.id = e.status}
  <2>1. Affect(b, a, e, on, by, b0) = WithFighter(b, on, Removed(x, gone))
    BY <1>12 DEF Affect, WithFighter
  <2>2. Removed(x, gone) \in F
    <3> HIDE DEF x, gone
    <3> QED BY <1>3, RemovedIs
  <2> QED BY <1>4, <2>1, <2>2, Zenon
<1>13. CASE e.type = "cleanse"
  <2>1. Affect(b, a, e, on, by, b0) = WithFighter(b, on, Cleansed(x))
    BY <1>13 DEF Affect, WithFighter
  <2>2. Cleansed(x) \in F
    <3> HIDE DEF x
    <3> QED BY <1>3, CleansedIs
  <2> QED BY <1>4, <2>1, <2>2, Zenon
<1> QED BY <1>2, <1>6, <1>7, <1>8, <1>9, <1>10, <1>11, <1>12, <1>13

LEMMA RecipientsIn ==
    ASSUME NEW m, NEW a, NEW id, Aimed(a, id, m), NEW e
    PROVE  Recipients(a, e) \in Seq(m)
<1>1. a.by \in m /\ a.at \in Seq(m) /\ a.at # <<>>
  BY DEF Aimed
<1>2. <<a.by>> \in Seq(m)
  BY <1>1
<1>3. SubSeq(a.at, 1, 1) \in Seq(m)
  <2>1. Len(a.at) \in Nat /\ Len(a.at) >= 1
    BY <1>1
  <2>2. \A i \in 1 .. 1 : a.at[i] \in m
    BY <1>1, <2>1
  <2> QED BY <1>1, <2>1, <2>2, SubSeqProperties
<1> QED BY <1>1, <1>2, <1>3 DEF Recipients

\* Who reflects what: a status of the reflector's, used up.
IsMirror(mirror, m) ==
    \A t \in DOMAIN mirror : mirror[t].by \in m /\ ~Replacing(mirror[t].id)

LEMMA ApplyPlays ==
    ASSUME NEW line \in Lineups, NEW t \in Nat, NEW p, NEW b \in Play(line, t, p),
           NEW a, NEW id, Aimed(a, id, ToSet(line)), NEW e \in ToSet(Skill[id].effects),
           NEW mirror, IsMirror(mirror, ToSet(line)), NEW b0,
           e.type = "status" => ~Exclusive(e.status)
    PROVE  ApplyEffect(b, a, e, mirror, b0) \in Play(line, t, p)
<1> DEFINE V == Play(line, t, p)
           m == ToSet(line)
           rr == Recipients(a, e)
           VV == [u \in SUBSET DOMAIN rr |-> V]
<1>1. rr \in Seq(m) /\ a.by \in m
  BY RecipientsIn DEF Aimed
<1>2. ASSUME NEW v \in V, NEW r \in m PROVE AffectOne(v, a, e, r, mirror, b0) \in V
  <2>1. ASSUME NEW on \in m, NEW by \in m PROVE Affect(v, a, e, on, by, b0) \in V
    <3>1. e.type = "status" => Free(e.status, on, v.team[on].swap)
      BY DEF Free
    <3> QED BY <3>1, AffectPlays
  <2>2. Back(e, r, mirror) => mirror[r].by \in m
    BY DEF Back, IsMirror
  <2> HIDE DEF V, m
  <2> QED BY <1>1, <2>1, <2>2 DEF AffectOne
<1> HIDE DEF V, m, rr
<1>3. VV \in [SUBSET DOMAIN rr -> SUBSET V] /\ b \in VV[{}]
  BY DEF V
<1>4. \A u \in SUBSET DOMAIN rr, i \in DOMAIN rr :
         i \notin u => \A v \in VV[u] : AffectOne(v, a, e, rr[i], mirror, b0) \in VV[u \cup {i}]
  BY <1>1, <1>2
<1>5. ApplyEffect(b, a, e, mirror, b0) \in VV[DOMAIN rr]
  <2> HIDE DEF VV
  <2> QED BY <1>1, <1>3, <1>4, ApplyStays DEF rr
<1> QED BY <1>5 DEF V

\* What is exclusive finds its slot free.
LEMMA ApplyExclusive ==
    ASSUME NEW line \in Lineups, NEW t \in Nat, NEW p, NEW b \in Play(line, t, p),
           NEW a, NEW id, Aimed(a, id, ToSet(line)), NEW e \in ToSet(Skill[id].effects),
           NEW mirror, NEW b0, e.type = "status", e.on = "self",
           Free(e.status, a.by, b.team[a.by].swap)
    PROVE  ApplyEffect(b, a, e, mirror, b0) \in Play(line, t, p)
<1> DEFINE V == Play(line, t, p)
           m == ToSet(line)
           rr == Recipients(a, e)
           VV == [u \in SUBSET DOMAIN rr |-> IF u = {} THEN {b} ELSE V]
<1>1. rr = <<a.by>> /\ a.by \in m
  BY DEF Recipients, Aimed
<1>2. rr \in Seq(m) /\ DOMAIN rr = {1} /\ rr[1] = a.by
  BY <1>1
<1>3. AffectOne(b, a, e, a.by, mirror, b0) \in V
  <2>1. Affect(b, a, e, a.by, a.by, b0) \in V
    BY <1>1, AffectPlays
  <2> HIDE DEF V
  <2> QED BY <2>1 DEF AffectOne, Back
<1>4. b \in V
  OBVIOUS
<1> HIDE DEF V, m, rr
<1>5. VV \in [SUBSET DOMAIN rr -> SUBSET V] /\ b \in VV[{}]
  BY <1>4
<1>6. \A u \in SUBSET DOMAIN rr, i \in DOMAIN rr :
         i \notin u => \A v \in VV[u] : AffectOne(v, a, e, rr[i], mirror, b0) \in VV[u \cup {i}]
  <2> SUFFICES ASSUME NEW u \in SUBSET DOMAIN rr, NEW i \in DOMAIN rr, i \notin u, NEW v \in VV[u]
               PROVE  AffectOne(v, a, e, rr[i], mirror, b0) \in VV[u \cup {i}]
    OBVIOUS
  <2>1. i = 1 /\ u = {} /\ v = b
    BY <1>2
  <2> QED BY <1>2, <1>3, <2>1
<1>7. ApplyEffect(b, a, e, mirror, b0) \in VV[DOMAIN rr]
  <2> HIDE DEF VV
  <2> QED BY <1>2, <1>5, <1>6, ApplyStays DEF rr
<1> QED BY <1>2, <1>7 DEF V

SkillFree(b, a, id) ==
    \A j \in DOMAIN Kind : Casts(Skill[id], j) => Free(j, a.by, b.team[a.by].swap)

LEMMA EffectsPlays ==
    ASSUME NEW line \in Lineups, NEW t \in Nat, NEW p, NEW b \in Play(line, t, p),
           NEW a, NEW id, Aimed(a, id, ToSet(line)), NEW mirror, IsMirror(mirror, ToSet(line)), SkillFree(b, a, id)
    PROVE  Effects(b, a, id, mirror) \in Play(line, t, p)
<1> DEFINE V == Play(line, t, p)
           ee == Skill[id].effects
<1>1. id \in DOMAIN Skill /\ ee \in Seq(ToSet(ee)) /\ \A i \in DOMAIN ee : ee[i] \in ToSet(ee)
  BY SkillFacts DEF Aimed, ToSet
<1>2. \A i \in DOMAIN ee : ee[i].type = "status" => Casts(Skill[id], ee[i].status) /\ ee[i].status \in DOMAIN Kind
  BY <1>1, EffectFacts
<1>3. CASE \E i \in DOMAIN ee : ee[i].type = "status" /\ Exclusive(ee[i].status)
  <2> DEFINE VV == [u \in SUBSET DOMAIN ee |-> IF u = {} THEN {b} ELSE V]
  <2>1. PICK j \in DOMAIN ee : ee[j].type = "status" /\ Exclusive(ee[j].status)
    BY <1>3
  <2>2. Len(ee) = 1 /\ ee[1].type = "status" /\ ee[1].on = "self"
    BY <1>1, <1>2, <2>1, ExclusiveFacts
  <2>3. DOMAIN ee = {1}
    BY <1>1, <2>2
  <2>4. Free(ee[1].status, a.by, b.team[a.by].swap)
    BY <1>2, <2>1, <2>3 DEF SkillFree
  <2>5. ApplyEffect(b, a, ee[1], mirror, b) \in V
    <3> DEFINE e == ee[1]
    <3>1. e \in ToSet(ee) /\ e.type = "status" /\ e.on = "self" /\ Free(e.status, a.by, b.team[a.by].swap)
      BY <1>1, <2>2, <2>3, <2>4
    <3> HIDE DEF e
    <3>2. ApplyEffect(b, a, e, mirror, b) \in V
      BY <3>1, ApplyExclusive
    <3> QED BY <3>2 DEF e
  <2>6. b \in V
    OBVIOUS
  <2> HIDE DEF V, ee
  <2>7. VV \in [SUBSET DOMAIN ee -> SUBSET V] /\ b \in VV[{}]
    BY <2>6
  <2>8. \A u \in SUBSET DOMAIN ee, i \in DOMAIN ee :
           i \notin u => \A v \in VV[u] : ApplyEffect(v, a, ee[i], mirror, b) \in VV[u \cup {i}]
    <3> SUFFICES ASSUME NEW u \in SUBSET DOMAIN ee, NEW i \in DOMAIN ee, i \notin u, NEW v \in VV[u]
                 PROVE  ApplyEffect(v, a, ee[i], mirror, b) \in VV[u \cup {i}]
      OBVIOUS
    <3>1. i = 1 /\ u = {} /\ v = b
      BY <2>3
    <3> QED BY <2>3, <2>5, <3>1
  <2>9. Effects(b, a, id, mirror) \in VV[DOMAIN ee]
    <3> HIDE DEF VV
    <3> QED BY <1>1, <2>7, <2>8, EffectsStays DEF ee
  <2> QED BY <2>3, <2>9 DEF V
<1>4. CASE ~ \E i \in DOMAIN ee : ee[i].type = "status" /\ Exclusive(ee[i].status)
  <2> DEFINE VV == [u \in SUBSET DOMAIN ee |-> V]
  <2>1. ASSUME NEW v \in V, NEW i \in DOMAIN ee PROVE ApplyEffect(v, a, ee[i], mirror, b) \in V
    <3> DEFINE e == ee[i]
    <3>1. e \in ToSet(ee) /\ (e.type = "status" => ~Exclusive(e.status))
      BY <1>1, <1>4
    <3> HIDE DEF e
    <3>2. ApplyEffect(v, a, e, mirror, b) \in V
      BY <3>1, ApplyPlays
    <3> QED BY <3>2 DEF e
  <2>2. b \in V
    OBVIOUS
  <2> HIDE DEF V, ee
  <2>3. VV \in [SUBSET DOMAIN ee -> SUBSET V] /\ b \in VV[{}]
    BY <2>2
  <2>4. \A u \in SUBSET DOMAIN ee, i \in DOMAIN ee :
           i \notin u => \A v \in VV[u] : ApplyEffect(v, a, ee[i], mirror, b) \in VV[u \cup {i}]
    BY <2>1
  <2>5. Effects(b, a, id, mirror) \in VV[DOMAIN ee]
    <3> HIDE DEF VV
    <3> QED BY <1>1, <2>3, <2>4, EffectsStays DEF ee
  <2> QED BY <2>5 DEF V
<1> QED BY <1>3, <1>4

-----------------------------------------------------------------------------
(* One action *)

\* The first of the statuses in force that Only picks.
LEMMA HeadIs ==
    ASSUME NEW S, NEW c, c.statuses \in Seq(S), NEW T, Only(InForce(c), T) # <<>>
    PROVE  Head(Only(InForce(c), T)) \in S /\ Head(Only(InForce(c), T)) \in T
<1> DEFINE q == Only(InForce(c), T)
           A == {s \in ToSet(c.statuses) : s.left # 0 /\ s \in T}
<1>1. q \in Seq(S) /\ Picks(q, c.statuses, A)
  <2> HIDE DEF q
  <2> QED BY PickedIs DEF q
<1> HIDE DEF q
<1>2. 1 \in DOMAIN q /\ Head(q) = q[1] /\ q[1] \in A
  BY <1>1 DEF Picks, q
<1>3. q[1] \in S
  BY <1>1, <1>2
<1> QED BY <1>2, <1>3 DEF q

LEMMA TrapIs ==
    ASSUME NEW m, NEW c, NEW u, NEW z, NEW x \in Fighters(m, c, u, z), NEW skill,
           NEW field \in {"counter", "reflect"}, Traps(x, skill, field) # <<>>
    PROVE  /\ Head(Traps(x, skill, field)).id \in DOMAIN Kind /\ Head(Traps(x, skill, field)).by \in m
           /\ ~Replacing(Head(Traps(x, skill, field)).id)
<1> DEFINE T == {s \in ToSet(x.statuses) :
                   /\ Kind[s.id][field] # ""
                   /\ Harmful(skill) /\ Immune[field] \notin skill.classes
                   /\ Kind[s.id][field] = "non_domain" => "domain" \notin skill.classes
                   /\ Kind[s.id][field] = "melee" => "melee" \in skill.classes}
           h == Head(Traps(x, skill, field))
<1>1. Traps(x, skill, field) = Only(InForce(x), T)
  BY DEF Traps
<1>2. x.statuses \in Seq(StatusSet(m, c, u, z))
  BY FighterFacts
<1>3. h \in StatusSet(m, c, u, z) /\ h \in T
  <2> HIDE DEF T
  <2> QED BY <1>1, <1>2, HeadIs
<1>4. h.id \in DOMAIN Kind /\ h.by \in m
  BY <1>3, StatusFacts
<1>5. Kind[h.id][field] # ""
  BY <1>3 DEF T
<1> HIDE DEF h
<1>6. ~Replacing(h.id)
  <2> SUFFICES ASSUME Replacing(h.id) PROVE FALSE
    OBVIOUS
  <2>1. Kind[h.id].counter = "" /\ Kind[h.id].reflect = ""
    BY <1>4, ReplacementAssumption
  <2> QED BY <1>5, <2>1
<1> QED BY <1>4, <1>6 DEF h

LEMMA TrappedIs ==
    ASSUME NEW m, NEW b, NEW targets \in Seq(m), NEW skill, NEW field
    PROVE  /\ Trapped(b, targets, skill, field) \in Seq(m)
           /\ \A t \in ToSet(Trapped(b, targets, skill, field)) : t \in m /\ Traps(b.team[t], skill, field) # <<>>
           /\ Trapped(b, targets, skill, field) # <<>> =>
                 LET h == Head(Trapped(b, targets, skill, field)) IN h \in m /\ Traps(b.team[h], skill, field) # <<>>
<1> DEFINE T == {t \in ToSet(targets) : Traps(b.team[t], skill, field) # <<>>}
           q == Trapped(b, targets, skill, field)
<1>1. q = Only(targets, T)
  BY DEF Trapped
<1> HIDE DEF q, T
<1>2. q \in Seq(m) /\ Picks(q, targets, T)
  BY <1>1, OnlyIn
<1>3. \A i \in DOMAIN q : q[i] \in m /\ q[i] \in T
  BY <1>2 DEF Picks
<1>4. q # <<>> => 1 \in DOMAIN q /\ Head(q) = q[1]
  BY <1>2 DEF Picks
<1>5. \A t \in T : Traps(b.team[t], skill, field) # <<>>
  BY DEF T
<1> QED BY <1>2, <1>3, <1>4, <1>5 DEF q, ToSet

\* A status that replaces nothing is consumed, and takes nothing with it.
LEMMA ConsumedIs ==
    ASSUME NEW m, NEW c, NEW u, NEW z, NEW x \in Fighters(m, c, u, z), NEW s, ~Replacing(s.id)
    PROVE  Consumed(x, s) \in Fighters(m, c, u, z) /\ Consumed(x, s).swap = x.swap
<1> DEFINE ss == x.statuses
           I == {i \in 1 .. Len(ss) : ss[i] = s}
<1>1. x = [hp |-> x.hp, alive |-> x.alive, acted |-> x.acted, reduced |-> x.reduced,
           awake |-> x.awake, statuses |-> ss, swap |-> x.swap, cool |-> x.cool]
  BY FighterFacts
<1>2. DOMAIN ss = 1 .. Len(ss) /\ Len(ss) \in Nat /\ Backed(ss, x.swap)
  BY FighterFacts
<1>3. CASE I = {}
  <2>1. RemoveFirst(ss, s) = ss
    BY <1>3 DEF RemoveFirst
  <2>2. Consumed(x, s) = [x EXCEPT !.statuses = ss]
    BY <2>1 DEF Consumed
  <2>3. Consumed(x, s) = x
    BY <1>1, <2>2
  <2> QED BY <2>3
<1>4. CASE I # {}
  <2> DEFINE i == Min(I)
             rr == RemoveAt(ss, i)
  <2>1. I \in SUBSET Nat
    BY <1>2
  <2>2. i \in I
    BY <1>4, <2>1, MinInside
  <2>3. RemoveFirst(ss, s) = rr
    <3>1. SelectInSeq(ss, LAMBDA v : v = s) = i
      BY <1>4 DEF SelectInSeq
    <3> QED BY <1>4, <3>1 DEF RemoveFirst
  <2>4. i \in DOMAIN ss /\ ss[i] = s
    BY <1>2, <2>2
  <2> HIDE DEF i, I
  <2>5. rr \in Seq(StatusSet(m, c, u, z)) /\ Single(rr) /\ Spares(rr, ss, i)
    BY <2>4, RemovedAt
  <2>6. Consumed(x, s)
          = [hp |-> x.hp, alive |-> x.alive, acted |-> x.acted, reduced |-> x.reduced,
             awake |-> x.awake, statuses |-> rr, swap |-> x.swap, cool |-> x.cool]
    <3>1. Consumed(x, s) = [x EXCEPT !.statuses = rr]
      BY <2>3 DEF Consumed
    <3> HIDE DEF rr
    <3> QED BY <1>1, <3>1
  <2> HIDE DEF rr
  <2>7. Backed(rr, x.swap)
    <3>1. \A k : ~Backs(ss[i], k)
      BY <2>4 DEF Backs, Replacing
    <3>2. ASSUME NEW k \in DOMAIN x.swap, NEW j \in DOMAIN rr, Backs(rr[j], k)
          PROVE  x.swap[k] = Kind[rr[j].id].swap[k]
      <4>1. PICK l \in DOMAIN ss : rr[j] = ss[l]
        BY <2>5 DEF Spares
      <4>2. Backs(ss[l], k)
        BY <3>2, <4>1
      <4> QED BY <1>2, <4>1, <4>2 DEF Backed
    <3>3. ASSUME NEW k \in DOMAIN x.swap, x.swap[k] # k PROVE \E j \in DOMAIN rr : Backs(rr[j], k)
      <4>1. PICK l \in DOMAIN ss : Backs(ss[l], k)
        BY <1>2, <3>3 DEF Backed
      <4> QED BY <2>5, <3>1, <4>1 DEF Spares
    <3> QED BY <3>2, <3>3 DEF Backed
  <2>8. Consumed(x, s) \in Fighters(m, c, u, z)
    BY <2>5, <2>6, <2>7, FighterFacts, Refreshed
  <2> QED BY <2>6, <2>8
<1> QED BY <1>3, <1>4

\* The statuses that a skill of its caster uses up.
LEMMA DealtOutPlays ==
    ASSUME NEW line \in Lineups, NEW t \in Nat, NEW p, NEW b \in Play(line, t, p), NEW a, a.by \in ToSet(line)
    PROVE  DealtOut(b, a) \in Play(line, t, p)
<1> DEFINE x == b.team[a.by]
           gone == {s \in ToSet(x.statuses) : Kind[s.id].after_damage}
<1>1. DealtOut(b, a) = WithFighter(b, a.by, Drop(x, gone))
  BY DEF DealtOut, WithFighter
<1>2. x \in Fighters(ToSet(line), a.by, t, "play")
  BY PlayFacts
<1>3. ASSUME NEW s \in gone, s.id \in DOMAIN Kind, Replacing(s.id) PROVE FALSE
  BY <1>3, ReplacementAssumption
<1> HIDE DEF gone, x
<1>4. Drop(x, gone) \in Fighters(ToSet(line), a.by, t, "play")
  BY <1>2, <1>3, DropIs
<1> QED BY <1>1, <1>4, PlayWith

LEMMA UsedUpPlays ==
    ASSUME NEW line \in Lineups, NEW t \in Nat, NEW p, NEW b \in Play(line, t, p), NEW a, a.by \in ToSet(line),
           NEW id \in DOMAIN Skill, NEW once
    PROVE  UsedUp(b, a, id, once) \in Play(line, t, p)
<1> DEFINE x == b.team[a.by]
           gone == {s \in ToSet(x.statuses) :
                      Kind[s.id].after_skill = id \/ (Kind[s.id].once /\ Mark(s) \in once)}
<1>1. UsedUp(b, a, id, once) = WithFighter(b, a.by, Drop(x, gone))
  BY DEF UsedUp, WithFighter
<1>2. x \in Fighters(ToSet(line), a.by, t, "play")
  BY PlayFacts
<1>3. ASSUME NEW s \in gone, s.id \in DOMAIN Kind, Replacing(s.id) PROVE FALSE
  <2>1. ~Kind[s.id].once /\ Kind[s.id].after_skill \notin DOMAIN Skill
    BY <1>3, ReplacementAssumption
  <2> QED BY <1>3, <2>1
<1> HIDE DEF gone, x
<1>4. Drop(x, gone) \in Fighters(ToSet(line), a.by, t, "play")
  BY <1>2, <1>3, DropIs
<1> QED BY <1>1, <1>4, PlayWith

\* What exposes its bearer replaces nothing.
LEMMA ExposedPlays ==
    ASSUME NEW line \in Lineups, NEW t \in Nat, NEW p, NEW b \in Play(line, t, p), NEW a, a.by \in ToSet(line)
    PROVE  Exposed(b, a, Exposers(b, a)) \in Play(line, t, p)
<1> DEFINE m == ToSet(line)
           x == b.team[a.by]
           S == StatusSet(m, a.by, t, "play")
           T == {s \in ToSet(x.statuses) : Kind[s.id].exposes # "" /\ s.by \in ToSet(a.at)}
           q == Exposers(b, a)
           qq == [i \in DOMAIN q |-> Bare(Kind[q[i].id].exposes, q[i].by)]
<1>1. x \in Fighters(m, a.by, t, "play")
  BY PlayFacts
<1>2. q = Only(InForce(x), T)
  BY DEF Exposers
<1>3. q \in Seq(S) /\ \A i \in DOMAIN q : q[i] \in T
  <2>1. x.statuses \in Seq(S)
    BY <1>1, FighterFacts
  <2> HIDE DEF q, T, x, S
  <2>2. q \in Seq(S) /\ Picks(q, x.statuses, {s \in ToSet(x.statuses) : s.left # 0 /\ s \in T})
    BY <1>2, <2>1, PickedIs
  <2> QED BY <2>2 DEF Picks
<1> HIDE DEF q
<1>4. ASSUME NEW i \in DOMAIN q PROVE qq[i] \in S /\ ~Replacing(qq[i].id)
  <2> DEFINE s == q[i]
             g == Kind[s.id].exposes
  <2>1. s \in S /\ g # ""
    <3>1. s \in T
      BY <1>3
    <3>2. g # ""
      BY <3>1
    <3>3. s \in S
      <4> HIDE DEF S, T, g, qq
      <4> QED BY <1>3, ElementAt
    <3> QED BY <3>2, <3>3
  <2>2. s.id \in DOMAIN Kind /\ s.by \in m
    BY <2>1, StatusFacts
  <2>3. qq[i] = Status(g, s.by, NoOne, 0, "turn", 2)
    BY DEF Bare
  <2> HIDE DEF qq, s
  <2>4. g \in DOMAIN Kind /\ ~Kind[g].redirect /\ ~Replacing(g)
    BY <2>1, <2>2, GivenFacts
  <2> HIDE DEF g
  <2>5. qq[i].id = g
    BY <2>3 DEF Status
  <2>6. Status(g, s.by, NoOne, 0, "turn", 2) \in S
    BY <2>2, <2>4, BareStatus DEF Clocks
  <2> QED BY <2>3, <2>4, <2>5, <2>6
<1>5. qq \in Seq(S) /\ DOMAIN qq = DOMAIN q
  <2>1. DOMAIN qq = DOMAIN q /\ qq = [i \in DOMAIN qq |-> qq[i]]
    OBVIOUS
  <2> HIDE DEF qq, S
  <2> QED BY <1>3, <1>4, <2>1, EachIs
<1>6. Exposed(b, a, q) = WithFighter(b, a.by, Gained(x, qq))
  BY DEF Exposed, WithFighter
<1> HIDE DEF qq, x
<1>7. Gained(x, qq) \in Fighters(m, a.by, t, "play")
  BY <1>1, <1>4, <1>5, GainedIs
<1>8. WithFighter(b, a.by, Gained(x, qq)) \in Play(line, t, p)
  BY <1>7, PlayWith
<1> QED BY <1>6, <1>8 DEF q

LEMMA CarryPlays ==
    ASSUME NEW line \in Lineups, NEW t \in Nat, NEW p, NEW b \in Play(line, t, p),
           NEW a, NEW id, Aimed(a, id, ToSet(line)), NEW mirror, IsMirror(mirror, ToSet(line)), SkillFree(b, a, id),
           NEW once
    PROVE  Carry(b, a, id, mirror, once) \in Play(line, t, p)
<1> DEFINE m == ToSet(line)
           team == [c \in m |-> IF c \in DOMAIN mirror THEN Consumed(b.team[c], mirror[c]) ELSE b.team[c]]
           b1 == WithTeam(b, team)
           b2 == Effects(b1, a, id, mirror)
           b3 == IF Strikes(id) THEN Punished(DealtOut(b2, a), a, Skill[id], a.at) ELSE b2
           b4 == UsedUp(b3, a, id, once)
<1>1. DOMAIN b.team = m /\ \A c \in m : b.team[c] \in Fighters(m, c, t, "play")
  BY PlayFacts
<1>2. a.by \in m /\ a.at \in Seq(m) /\ id \in DOMAIN Skill
  BY DEF Aimed
<1>3. ASSUME NEW c \in m PROVE team[c] \in Fighters(m, c, t, "play") /\ team[c].swap = b.team[c].swap
  <2> DEFINE x == b.team[c]
             s == mirror[c]
  <2>1. team[c] = IF c \in DOMAIN mirror THEN Consumed(x, s) ELSE x
    OBVIOUS
  <2>2. x \in Fighters(m, c, t, "play") /\ (c \in DOMAIN mirror => ~Replacing(s.id))
    BY <1>1 DEF IsMirror
  <2> HIDE DEF x, s, team, m
  <2>3. team[c] \in Fighters(m, c, t, "play") /\ team[c].swap = x.swap
    BY <2>1, <2>2, ConsumedIs
  <2> QED BY <2>3 DEF x
<1>4. Carry(b, a, id, mirror, once) = Exposed(b4, a, Exposers(b4, a))
  BY <1>1 DEF Carry, WithTeam
<1>5. b1 \in Play(line, t, p) /\ b1.team = team
  <2>1. team = [c \in ToSet(line) |-> team[c]]
    OBVIOUS
  <2> HIDE DEF team
  <2>2. \A c \in ToSet(line) : team[c] \in Playing(line, t)[c]
    BY <1>3 DEF Playing
  <2>3. b \in Boards(line, t, p, Playing(line, t))
    BY DEF Play
  <2>4. b1 \in Boards(line, t, p, Playing(line, t)) /\ b1.team = team
    BY <2>1, <2>2, <2>3, WithTeamIs
  <2> QED BY <2>4 DEF Play
<1>6. SkillFree(b1, a, id)
  <2>1. b1.team[a.by].swap = b.team[a.by].swap
    <3> HIDE DEF b1, team
    <3> QED BY <1>2, <1>3, <1>5
  <2> HIDE DEF b1
  <2> QED BY <2>1 DEF SkillFree
<1> HIDE DEF b1
<1>7. b2 \in Play(line, t, p)
  BY <1>5, <1>6, EffectsPlays
<1> HIDE DEF b2
<1>8. b3 \in Play(line, t, p)
  BY <1>2, <1>7, DealtOutPlays, PunishedPlays
<1> HIDE DEF b3
<1>9. b4 \in Play(line, t, p)
  BY <1>2, <1>8, UsedUpPlays
<1> HIDE DEF b4
<1>10. Exposed(b4, a, Exposers(b4, a)) \in Play(line, t, p)
  BY <1>2, <1>9, ExposedPlays
<1> QED BY <1>4, <1>10

LEMMA CounterPlays ==
    ASSUME NEW line \in Lineups, NEW t \in Nat, NEW p, NEW b \in Play(line, t, p),
           NEW a, NEW id, Aimed(a, id, ToSet(line)), NEW who \in ToSet(line), NEW trap, ~Replacing(trap.id)
    PROVE  Counter(b, a, id, who, trap) \in Play(line, t, p)
<1> DEFINE b1 == IF Kind[trap.id].punish # "" THEN Punished(b, a, Skill[id], <<who>>) ELSE b
           x == b1.team[who]
<1>1. b1 \in Play(line, t, p)
  <2>1. <<who>> \in Seq(ToSet(line)) /\ a.by \in ToSet(line)
    BY DEF Aimed
  <2>2. Punished(b, a, Skill[id], <<who>>) \in Play(line, t, p)
    BY <2>1, PunishedPlays
  <2> QED BY <2>2
<1>2. Counter(b, a, id, who, trap) = WithFighter(b1, who, Consumed(x, trap))
  BY DEF Counter, WithFighter
<1> HIDE DEF b1
<1>3. x \in Fighters(ToSet(line), who, t, "play")
  BY <1>1, PlayFacts
<1> HIDE DEF x
<1>4. Consumed(x, trap) \in Fighters(ToSet(line), who, t, "play")
  BY <1>3, ConsumedIs
<1> QED BY <1>1, <1>2, <1>4, PlayWith

LEMMA MeetPlays ==
    ASSUME NEW line \in Lineups, NEW t \in Nat, NEW p, NEW b \in Play(line, t, p),
           NEW a, NEW id, Aimed(a, id, ToSet(line)), SkillFree(b, a, id),
           NEW once,
           NEW counters,
           counters # <<>> => /\ Head(counters) \in ToSet(line)
                              /\ Traps(b.team[Head(counters)], Skill[id], "counter") # <<>>
    PROVE  Meet(b, a, id, once, counters) \in Play(line, t, p)
<1> DEFINE m == ToSet(line)
           skill == Skill[id]
           q == Trapped(b, a.at, skill, "reflect")
           mirror == [c \in ToSet(q) |-> Head(Traps(b.team[c], skill, "reflect"))]
<1>1. \A c \in m : b.team[c] \in Fighters(m, c, t, "play")
  BY PlayFacts
<1>2. CASE counters # <<>>
  <2> DEFINE who == Head(counters)
             trap == Head(Traps(b.team[who], skill, "counter"))
  <2>1. who \in m /\ Traps(b.team[who], skill, "counter") # <<>>
    BY <1>2
  <2>2. ~Replacing(trap.id)
    <3> DEFINE x == b.team[who]
    <3>1. x \in Fighters(m, who, t, "play")
      BY <1>1, <2>1
    <3> HIDE DEF x, who, skill
    <3>2. ~Replacing(Head(Traps(x, skill, "counter")).id)
      BY <2>1, <3>1, TrapIs DEF x
    <3> QED BY <3>2 DEF x
  <2>3. Meet(b, a, id, once, counters) = Counter(b, a, id, who, trap)
    BY <1>2 DEF Meet
  <2> HIDE DEF who, trap
  <2> QED BY <2>1, <2>2, <2>3, CounterPlays
<1>3. CASE counters = <<>>
  <2>1. Meet(b, a, id, once, counters) = Carry(b, a, id, mirror, once)
    BY <1>3 DEF Meet
  <2>2. IsMirror(mirror, m)
    <3> SUFFICES ASSUME NEW c \in ToSet(q) PROVE mirror[c].by \in m /\ ~Replacing(mirror[c].id)
      BY DEF IsMirror
    <3> DEFINE x == b.team[c]
    <3>1. c \in m /\ Traps(x, skill, "reflect") # <<>>
      <4>1. a.at \in Seq(m)
        BY DEF Aimed
      <4> HIDE DEF m, skill
      <4> QED BY <4>1, TrappedIs
    <3>2. x \in Fighters(m, c, t, "play")
      BY <1>1, <3>1
    <3>3. mirror[c] = Head(Traps(x, skill, "reflect"))
      OBVIOUS
    <3> HIDE DEF x, skill, mirror, q
    <3> QED BY <3>1, <3>2, <3>3, TrapIs
  <2> HIDE DEF mirror
  <2> QED BY <2>1, <2>2, CarryPlays
<1> QED BY <1>2, <1>3

LEMMA CoolingIs ==
    ASSUME NEW cool \in Cools, NEW id \in DOMAIN Skill, NEW n \in Int
    PROVE  Cooling(cool, id, n) \in Cools
<1>1. PICK K \in SUBSET DOMAIN Skill : cool \in [K -> Int]
  BY DEF Cools
<1>2. Cooling(cool, id, n) \in [K \cup {id} -> Int]
  BY <1>1 DEF Cooling
<1>3. K \cup {id} \in SUBSET DOMAIN Skill
  OBVIOUS
<1> QED BY <1>2, <1>3 DEF Cools

\* The caster has acted: the board is the same but for that.
LEMMA UsedPlays ==
    ASSUME NEW line \in Lineups, NEW t \in Nat, NEW p, NEW b \in Play(line, t, p),
           NEW a, NEW id, Aimed(a, id, ToSet(line)), SkillFree(b, a, id),
           NEW once
    PROVE  Used(b, a, id, once) \in Play(line, t, p)
<1> DEFINE m == ToSet(line)
           x == b.team[a.by]
           cool == IF Skill[id].cooldown > 0 THEN Cooling(x.cool, id, Skill[id].cooldown + 1) ELSE x.cool
           y == [x EXCEPT !.acted = TRUE, !.cool = cool]
           b1 == WithFighter(b, a.by, y)
           counters == Trapped(b, a.at, Skill[id], "counter")
<1>1. a.by \in m /\ a.at \in Seq(m) /\ id \in DOMAIN Skill
  BY DEF Aimed
<1>2. x \in Fighters(m, a.by, t, "play")
  BY <1>1, PlayFacts
<1>3. cool \in Cools
  <2>1. x.cool \in Cools /\ Skill[id].cooldown + 1 \in Int
    BY <1>1, <1>2, FighterFacts, SkillFacts
  <2> HIDE DEF x
  <2> QED BY <1>1, <2>1, CoolingIs
<1>4. y \in Fighters(m, a.by, t, "play") /\ y.swap = x.swap /\ y.statuses = x.statuses
  <2> HIDE DEF x, cool, m
  <2>1. x \in FighterShape(m, a.by, t, "play")
    BY <1>2 DEF Fighters
  <2>2. /\ y \in FighterShape(m, a.by, t, "play") /\ y.hp = x.hp /\ y.alive = x.alive
        /\ y.statuses = x.statuses /\ y.swap = x.swap
    BY <1>3, <2>1 DEF FighterShape
  <2> HIDE DEF y
  <2> QED BY <1>2, <2>2, FighterFacts DEF Fighters
<1>5. Used(b, a, id, once) = Meet(b1, a, id, once, counters)
  <2>1. b1 = [b EXCEPT !.team[a.by].acted = TRUE,
                       !.team[a.by].cool = IF Skill[id].cooldown > 0 THEN Cooling(@, id, Skill[id].cooldown + 1) ELSE @]
    BY DEF WithFighter
  <2> HIDE DEF b1, counters
  <2> QED BY <2>1 DEF Used, counters
<1> HIDE DEF y
<1>6. /\ b1 \in Play(line, t, p) /\ b1.team[a.by] = y
      /\ \A d \in m : d # a.by => b1.team[d] = b.team[d]
  <2> HIDE DEF x
  <2> QED BY <1>1, <1>4, PlayWith
<1> HIDE DEF b1
<1>7. SkillFree(b1, a, id)
  BY <1>4, <1>6 DEF SkillFree
<1>8. \A d \in m : b1.team[d].statuses = b.team[d].statuses
  BY <1>4, <1>6
<1>9. \A d \in m : Traps(b1.team[d], Skill[id], "counter") = Traps(b.team[d], Skill[id], "counter")
  <2> SUFFICES ASSUME NEW d \in m
               PROVE  Traps(b1.team[d], Skill[id], "counter") = Traps(b.team[d], Skill[id], "counter")
    OBVIOUS
  <2> DEFINE v == b1.team[d]
             w == b.team[d]
  <2>1. v.statuses = w.statuses
    BY <1>8
  <2> HIDE DEF v, w
  <2>2. Traps(v, Skill[id], "counter") = Traps(w, Skill[id], "counter")
    BY <2>1 DEF Traps, InForce
  <2> QED BY <2>2 DEF v, w
<1>10. counters # <<>> => Head(counters) \in m /\ Traps(b1.team[Head(counters)], Skill[id], "counter") # <<>>
  <2>1. counters # <<>> => Head(counters) \in m /\ Traps(b.team[Head(counters)], Skill[id], "counter") # <<>>
    <3> DEFINE skill == Skill[id]
    <3> HIDE DEF skill, m
    <3> QED BY <1>1, TrappedIs DEF skill
  <2> HIDE DEF counters
  <2> QED BY <1>9, <2>1
<1> HIDE DEF counters
<1> QED BY <1>5, <1>6, <1>7, <1>10, MeetPlays

\* An action of a team m, as it is queued.
Act(m) == [by : m, slot : DOMAIN Skill, at : Seq(m) \ {<<>>}, mark : m \cup {NoOne}, alt : m \cup {NoOne}]

\* A redirecting status names whom it redirects to, and replaces nothing.
LEMMA RedirectIs ==
    ASSUME NEW m, NEW c, NEW u, NEW z, NEW b, NEW a, b.team[a.by] \in Fighters(m, c, u, z), NEW id,
           Redirects(b, a, id) # <<>>
    PROVE  Head(Redirects(b, a, id)).to \in m /\ ~Replacing(Head(Redirects(b, a, id)).id)
<1> DEFINE x == b.team[a.by]
           T == {s \in ToSet(x.statuses) :
                   Kind[s.id].redirect /\ Harmful(Skill[id]) /\ Skill[id].kind \in {"enemy", "ally"}}
           h == Head(Only(InForce(x), T))
<1>1. Redirects(b, a, id) = Only(InForce(x), T)
  BY DEF Redirects
<1>2. x.statuses \in Seq(StatusSet(m, c, u, z))
  <2> HIDE DEF x
  <2>1. x \in Fighters(m, c, u, z)
    BY DEF x
  <2> QED BY <2>1, FighterFacts
<1>3. h \in StatusSet(m, c, u, z) /\ h \in T
  <2> HIDE DEF T, x
  <2> QED BY <1>1, <1>2, HeadIs
<1>4. h.id \in DOMAIN Kind /\ Kind[h.id].redirect
  BY <1>3, StatusFacts
<1> HIDE DEF h, T
<1>5. h.to \in m
  BY <1>3, <1>4, StatusFacts
<1>6. ~Replacing(h.id)
  <2> SUFFICES ASSUME Replacing(h.id) PROVE FALSE
    OBVIOUS
  <2>1. ~Kind[h.id].redirect
    BY <1>4, ReplacementAssumption
  <2> QED BY <1>4, <2>1
<1> QED BY <1>1, <1>5, <1>6 DEF h

LEMMA AimPlays ==
    ASSUME NEW line \in Lineups, NEW t \in Nat, NEW p, NEW b \in Play(line, t, p),
           NEW a \in Act(ToSet(line)), NEW id, Aimed(a, id, ToSet(line)), SkillFree(b, a, id),
           NEW once,
           NEW redirects,
           redirects # <<>> => Head(redirects).to \in ToSet(line) /\ ~Replacing(Head(redirects).id)
    PROVE  Aim(b, a, id, once, redirects) \in Play(line, t, p)
<1> DEFINE m == ToSet(line)
<1>1. CASE redirects = <<>>
  BY <1>1, UsedPlays DEF Aim
<1>2. CASE redirects # <<>>
  <2> DEFINE s == Head(redirects)
             a1 == [a EXCEPT !.at = <<s.to>>]
             x == b.team[a.by]
             y == Consumed(x, s)
             b1 == WithFighter(b, a.by, y)
  <2>1. s.to \in m /\ ~Replacing(s.id) /\ a.by \in m
    BY <1>2 DEF Act
  <2>2. /\ a1.by = a.by /\ a1.at = <<s.to>> /\ a1.mark = a.mark /\ a1.alt = a.alt
    <3> HIDE DEF s
    <3> QED BY DEF Act
  <2>3. Aim(b, a, id, once, redirects) = Used(b1, a1, id, once)
    BY <1>2 DEF Aim, WithFighter
  <2> HIDE DEF a1, s
  <2>4. Aimed(a1, id, m)
    <3>1. <<s.to>> \in Seq(m) /\ <<s.to>> # <<>>
      BY <2>1
    <3> QED BY <2>2, <3>1 DEF Aimed
  <2>5. y \in Fighters(m, a.by, t, "play") /\ y.swap = x.swap
    <3>1. x \in Fighters(m, a.by, t, "play")
      BY <2>1, PlayFacts
    <3> HIDE DEF x
    <3> QED BY <2>1, <3>1, ConsumedIs
  <2> HIDE DEF y
  <2>6. b1 \in Play(line, t, p) /\ b1.team[a.by] = y
    BY <2>1, <2>5, PlayWith
  <2> HIDE DEF b1
  <2>7. SkillFree(b1, a1, id)
    BY <2>2, <2>5, <2>6 DEF SkillFree
  <2> QED BY <2>3, <2>4, <2>6, <2>7, UsedPlays
<1> QED BY <1>1, <1>2

LEMMA DeclarePlays ==
    ASSUME NEW line \in Lineups, NEW t \in Nat, NEW p, NEW b \in Play(line, t, p),
           NEW a \in Act(ToSet(line)), NEW id, Aimed(a, id, ToSet(line)), SkillFree(b, a, id)
    PROVE  Declare(b, a, id) \in Play(line, t, p)
<1> DEFINE m == ToSet(line)
           once == OneShots(b.team[a.by])
           redirects == Redirects(b, a, id)
<1>1. b.team[a.by] \in Fighters(m, a.by, t, "play")
  BY PlayFacts DEF Aimed
<1>2. redirects # <<>> => Head(redirects).to \in m /\ ~Replacing(Head(redirects).id)
  <2> HIDE DEF m
  <2> QED BY <1>1, RedirectIs
<1>3. Declare(b, a, id) = Aim(b, a, id, once, redirects)
  BY DEF Declare
<1> HIDE DEF once, redirects
<1> QED BY <1>2, <1>3, AimPlays

\* The statuses that watch a caster replace nothing.
LEMMA ScoutsAre ==
    ASSUME NEW m, NEW c, NEW u, NEW z, NEW b, b.team[c] \in Fighters(m, c, u, z), NEW a, NEW skill
    PROVE  /\ Scouts(b, c, a, skill) \in Seq(StatusSet(m, c, u, z))
           /\ \A s \in ToSet(Scouts(b, c, a, skill)) : s.id \in DOMAIN Kind => ~Replacing(s.id)
<1> DEFINE x == b.team[c]
           T == {s \in ToSet(x.statuses) : Sees(s, a, skill)}
           q == Scouts(b, c, a, skill)
           S == StatusSet(m, c, u, z)
           A == {s \in ToSet(x.statuses) : s.left # 0 /\ s \in T}
<1>1. q = Only(InForce(x), T)
  BY DEF Scouts
<1>2. x.statuses \in Seq(S)
  <2> HIDE DEF x
  <2>1. x \in Fighters(m, c, u, z)
    BY DEF x
  <2> QED BY <2>1, FighterFacts
<1>3. q \in Seq(S) /\ Picks(q, x.statuses, A)
  <2> HIDE DEF q, T, x, S
  <2> QED BY <1>1, <1>2, PickedIs
<1> HIDE DEF q
<1>4. \A i \in DOMAIN q : q[i] \in T
  BY <1>3 DEF Picks
<1>5. ASSUME NEW s \in ToSet(q), s.id \in DOMAIN Kind, Replacing(s.id) PROVE FALSE
  <2>1. s \in T
    BY <1>4 DEF ToSet
  <2>2. ~Kind[s.id].watch
    BY <1>5, ReplacementAssumption
  <2> QED BY <2>1, <2>2 DEF Sees
<1> QED BY <1>3, <1>5 DEF q

\* What a scout promises replaces nothing.
LEMMA RewardsAre ==
    ASSUME NEW m, NEW c \in m, NEW u \in Nat, NEW z, NEW S, NEW scouts \in Seq(StatusSet(S, c, u, z))
    PROVE  /\ Rewards(c, scouts) \in Seq(StatusSet(m, c, u, z))
           /\ \A i \in DOMAIN Rewards(c, scouts) : ~Replacing(Rewards(c, scouts)[i].id)
<1> DEFINE T == {s \in ToSet(scouts) : Kind[s.id].reward # ""}
           q == Only(scouts, T)
           qq == [i \in DOMAIN q |->
                    Status(Kind[q[i].id].reward, c, NoOne, 0, "source", Kind[Kind[q[i].id].reward].for)]
<1>1. Rewards(c, scouts) = qq
  BY DEF Rewards
<1>2. q \in Seq(StatusSet(S, c, u, z)) /\ \A i \in DOMAIN q : q[i] \in T
  <2> HIDE DEF q, T
  <2>1. q \in Seq(StatusSet(S, c, u, z)) /\ Picks(q, scouts, T)
    BY OnlyIn DEF q
  <2> QED BY <2>1 DEF Picks
<1> HIDE DEF q
<1>3. ASSUME NEW i \in DOMAIN q PROVE qq[i] \in StatusSet(m, c, u, z) /\ ~Replacing(qq[i].id)
  <2> DEFINE s == q[i]
             g == Kind[s.id].reward
  <2>1. s \in StatusSet(S, c, u, z) /\ g # ""
    <3>1. s \in T
      BY <1>2
    <3>2. g # ""
      BY <3>1
    <3>3. s \in StatusSet(S, c, u, z)
      <4> HIDE DEF T, g, qq
      <4> QED BY <1>2, ElementAt
    <3> QED BY <3>2, <3>3
  <2>2. s.id \in DOMAIN Kind
    BY <2>1, StatusFacts
  <2>3. qq[i] = Status(g, c, NoOne, 0, "source", Kind[g].for)
    OBVIOUS
  <2> HIDE DEF qq, s
  <2>4. g \in DOMAIN Kind /\ ~Kind[g].redirect /\ ~Replacing(g)
    BY <2>1, <2>2, GivenFacts
  <2> HIDE DEF g
  <2>5. qq[i].id = g
    BY <2>3 DEF Status
  <2>6. Kind[g].for \in Int \ {0} /\ (Kind[g].for < 0 => Lasting(g))
    BY <2>4, KindFacts DEF Lasting
  <2>7. Status(g, c, NoOne, 0, "source", Kind[g].for) \in StatusSet(m, c, u, z)
    BY <2>4, <2>6, BareStatus DEF Clocks
  <2> QED BY <2>3, <2>4, <2>5, <2>7
<1>4. DOMAIN qq = DOMAIN q /\ qq = [i \in DOMAIN qq |-> qq[i]]
  OBVIOUS
<1> HIDE DEF qq
<1>5. qq \in Seq(StatusSet(m, c, u, z))
  BY <1>2, <1>3, <1>4, EachIs
<1> QED BY <1>1, <1>3, <1>4, <1>5

LEMMA EnergyPlays ==
    ASSUME NEW line, NEW t, NEW p, NEW b, b \in Play(line, t, p), NEW q, q \in {First, Second}, NEW n, n \in Nat
    PROVE  WithEnergy(b, q, n) \in Play(line, t, p) /\ WithEnergy(b, q, n).team = b.team
<1>1. b \in Boards(line, t, p, Playing(line, t))
  BY DEF Play
<1>2. WithEnergy(b, q, n) \in Boards(line, t, p, Playing(line, t)) /\ WithEnergy(b, q, n).team = b.team
  BY <1>1, WithEnergyIs
<1> QED BY <1>2 DEF Play

SwapsOf(line, b, v) == \A c \in ToSet(line) : v.team[c].swap = b.team[c].swap

LEMMA ScoutedPlays ==
    ASSUME NEW line \in Lineups, NEW t \in Nat, NEW p, NEW b, NEW v \in Play(line, t, p), SwapsOf(line, b, v),
           NEW c \in ToSet(line), NEW scouts \in Seq(StatusSet(ToSet(line), c, t, "play")),
           \A s \in ToSet(scouts) : s.id \in DOMAIN Kind => ~Replacing(s.id)
    PROVE  Scouted(v, c, scouts) \in Play(line, t, p) /\ SwapsOf(line, b, Scouted(v, c, scouts))
<1> DEFINE x == v.team[c]
           dropped == Drop(x, ToSet(scouts))
           y == Gained(dropped, Rewards(c, scouts))
           n == v.energy[Side[c]] + Len(scouts)
           v1 == WithEnergy(v, Side[c], n)
<1>1. Side[c] \in {First, Second}
  BY LineFacts, CombatAssumption
<1>2. x \in Fighters(ToSet(line), c, t, "play") /\ v.energy \in [{First, Second} -> Nat]
  BY PlayFacts
<1>3. y \in Fighters(ToSet(line), c, t, "play") /\ y.swap = x.swap
  <2> DEFINE gone == ToSet(scouts)
  <2>1. \A s \in gone : s.id \in DOMAIN Kind => ~Replacing(s.id)
    OBVIOUS
  <2> HIDE DEF gone, x
  <2>2. Drop(x, gone) \in Fighters(ToSet(line), c, t, "play") /\ Drop(x, gone).swap = x.swap
    BY <1>2, <2>1, DropIs
  <2>3. dropped \in Fighters(ToSet(line), c, t, "play") /\ dropped.swap = x.swap
    BY <2>2 DEF gone
  <2> DEFINE rr == Rewards(c, scouts)
  <2>4. rr \in Seq(StatusSet(ToSet(line), c, t, "play")) /\ \A i \in DOMAIN rr : ~Replacing(rr[i].id)
    BY RewardsAre
  <2> HIDE DEF dropped, rr
  <2>5. Gained(dropped, rr) \in Fighters(ToSet(line), c, t, "play") /\ Gained(dropped, rr).swap = dropped.swap
    BY <2>3, <2>4, GainedIs
  <2> QED BY <2>3, <2>5 DEF rr
<1>4. n \in Nat
  <2>1. Len(scouts) \in Nat
    OBVIOUS
  <2> QED BY <1>1, <1>2, <2>1
<1>5. v1 \in Play(line, t, p) /\ v1.team = v.team
  <2> DEFINE q == Side[c]
  <2>1. q \in {First, Second} /\ n \in Nat
    BY <1>1, <1>4
  <2> HIDE DEF n, q
  <2>2. WithEnergy(v, q, n) \in Play(line, t, p) /\ WithEnergy(v, q, n).team = v.team
    BY <2>1, EnergyPlays
  <2> QED BY <2>2 DEF q
<1>6. Scouted(v, c, scouts) = WithFighter(v1, c, y)
  <2>1. v1 = [v EXCEPT !.energy[Side[c]] = @ + Len(scouts)]
    BY DEF WithEnergy
  <2>2. v1.team[c] = x
    BY <1>5
  <2>3. Scouted(v, c, scouts) = [v1 EXCEPT !.team[c] = Gained(Drop(@, ToSet(scouts)), Rewards(c, scouts))]
    BY DEF Scouted, WithEnergy
  <2> HIDE DEF v1, x
  <2> QED BY <2>2, <2>3 DEF WithFighter
<1> HIDE DEF v1, y
<1>7. /\ WithFighter(v1, c, y) \in Play(line, t, p) /\ WithFighter(v1, c, y).team[c] = y
      /\ \A d \in ToSet(line) : d # c => WithFighter(v1, c, y).team[d] = v1.team[d]
  BY <1>3, <1>5, PlayWith
<1>8. SwapsOf(line, b, WithFighter(v1, c, y))
  <2> DEFINE w == WithFighter(v1, c, y)
  <2> HIDE DEF w
  <2>1. w.team[c] = y /\ \A d \in ToSet(line) : d # c => w.team[d] = v.team[d]
    BY <1>5, <1>7 DEF w
  <2>2. SwapsOf(line, b, w)
    BY <1>3, <2>1 DEF SwapsOf
  <2> QED BY <2>2 DEF w
<1> QED BY <1>6, <1>7, <1>8

LEMMA WatchedPlays ==
    ASSUME NEW line \in Lineups, NEW t \in Nat, NEW p, NEW b \in Play(line, t, p), NEW a, NEW skill
    PROVE  Watched(b, a, skill) \in Play(line, t, p) /\ SwapsOf(line, b, Watched(b, a, skill))
<1> DEFINE V == {v \in Play(line, t, p) : SwapsOf(line, b, v)}
<1>1. b.lineup = line /\ line \in Seq(ToSet(line)) /\ \A i \in DOMAIN line : line[i] \in ToSet(line)
  BY PlayFacts, LineFacts
<1>2. b \in V
  BY DEF SwapsOf
<1>3. ASSUME NEW v \in V, NEW c \in ToSet(line) PROVE Scouted(v, c, Scouts(b, c, a, skill)) \in V
  <2> DEFINE scouts == Scouts(b, c, a, skill)
  <2>1. b.team[c] \in Fighters(ToSet(line), c, t, "play")
    BY PlayFacts
  <2>2. /\ scouts \in Seq(StatusSet(ToSet(line), c, t, "play"))
        /\ \A s \in ToSet(scouts) : s.id \in DOMAIN Kind => ~Replacing(s.id)
    BY <2>1, ScoutsAre
  <2> HIDE DEF scouts
  <2>3. Scouted(v, c, scouts) \in Play(line, t, p) /\ SwapsOf(line, b, Scouted(v, c, scouts))
    BY <2>2, ScoutedPlays
  <2> QED BY <2>3 DEF scouts
<1> HIDE DEF V
<1>4. \A v \in V, i \in DOMAIN b.lineup : Scouted(v, b.lineup[i], Scouts(b, b.lineup[i], a, skill)) \in V
  BY <1>1, <1>3
<1>5. Watched(b, a, skill) \in V
  BY <1>1, <1>2, <1>4, WatchedStays
<1> QED BY <1>5 DEF V

\* A slot that a status replaced casts nothing that wants a slot to itself, and
\* does not redirect; one that is its own may cast only what replaces it.
LEMMA SkillOfIs ==
    ASSUME NEW m, NEW c \in Character, NEW u, NEW z, NEW x \in Fighters(m, c, u, z), NEW slot \in Base[c]
    PROVE  /\ x.swap[slot] \in DOMAIN Skill
           /\ x.swap[slot] # slot => ~Redirecting(Skill[x.swap[slot]]) /\ ~Redirecting(Skill[slot])
           /\ \A j \in DOMAIN Kind : Casts(Skill[x.swap[slot]], j) => Free(j, c, x.swap)
<1> DEFINE id == x.swap[slot]
<1>1. x.swap \in [Base[c] -> DOMAIN Skill] /\ Backed(x.statuses, x.swap) /\ id \in DOMAIN Skill
  BY FighterFacts
<1>2. CASE id # slot
  <2>1. PICK i \in DOMAIN x.statuses : Backs(x.statuses[i], slot)
    BY <1>1, <1>2 DEF Backed
  <2> DEFINE k == x.statuses[i].id
  <2>2. k \in DOMAIN Kind /\ slot \in DOMAIN Kind[k].swap /\ id = Kind[k].swap[slot] /\ Replacing(k)
    <3>1. x.statuses[i] \in StatusSet(m, c, u, z)
      BY FighterFacts
    <3>2. k \in DOMAIN Kind
      BY <3>1, StatusFacts
    <3>3. slot \in DOMAIN Kind[k].swap /\ Replacing(k)
      BY <2>1 DEF Backs, Replacing
    <3>4. slot \in DOMAIN x.swap
      BY <1>1
    <3>5. x.swap[slot] = Kind[x.statuses[i].id].swap[slot]
      BY <1>1, <2>1, <3>4 DEF Backed
    <3> QED BY <3>2, <3>3, <3>5
  <2> HIDE DEF k, id
  <2>3. /\ ~Redirecting(Skill[slot]) /\ ~Redirecting(Skill[id])
        /\ \A j \in DOMAIN Kind : Replacing(j) /\ Kind[j].max = 0 => ~Casts(Skill[id], j)
    BY <2>2, ReplacementAssumption
  <2>4. \A j \in DOMAIN Kind : Casts(Skill[id], j) => Free(j, c, x.swap)
    BY <2>3 DEF Free, Exclusive
  <2> QED BY <1>1, <2>3, <2>4 DEF id
<1>3. CASE id = slot
  <2>1. ASSUME NEW j \in DOMAIN Kind, Casts(Skill[id], j), Exclusive(j) PROVE Free(j, c, x.swap)
    <3> HIDE DEF id
    <3>1. DOMAIN Kind[j].swap = {id}
      BY <1>1, <2>1, ExclusiveFacts
    <3> QED BY <1>3, <3>1 DEF Free, id
  <2>2. \A j \in DOMAIN Kind : ~Exclusive(j) => Free(j, c, x.swap)
    BY DEF Free
  <2> HIDE DEF id
  <2>3. \A j \in DOMAIN Kind : Casts(Skill[id], j) => Free(j, c, x.swap)
    BY <2>1, <2>2
  <2> QED BY <1>1, <1>3, <2>3 DEF id
<1> QED BY <1>2, <1>3

\* The actions that may be queued, for whatever a slot holds by the time.
Queued(m) ==
    {a \in Act(m) : a.slot \in Base[a.by] /\ (Redirecting(Skill[a.slot]) => a.alt \in m)}

LEMMA ResolvePlays ==
    ASSUME NEW line \in Lineups, NEW t \in Nat, NEW p, NEW b \in Play(line, t, p), NEW a \in Queued(ToSet(line))
    PROVE  Resolve(b, a) \in Play(line, t, p)
<1> SUFFICES ASSUME Resolve(b, a) # b PROVE Resolve(b, a) \in Play(line, t, p)
  OBVIOUS
<1> DEFINE m == ToSet(line)
           id == SkillOf(b, a)
           a1 == [a EXCEPT !.mark = a.at[1]]
           skill == Skill[id]
           b1 == Watched(b, a, skill)
           x == b.team[a.by]
<1>1. /\ a \in Act(m) /\ a.by \in m /\ a.slot \in Base[a.by] /\ a.at \in Seq(m) /\ a.at # <<>>
      /\ a.mark \in m \cup {NoOne} /\ a.alt \in m \cup {NoOne} /\ a.slot \in DOMAIN Skill
      /\ (Redirecting(Skill[a.slot]) => a.alt \in m)
  BY DEF Queued, Act
<1>2. Resolve(b, a) = Declare(b1, a1, id)
  BY DEF Resolve
<1>3. a.at[1] \in m
  BY <1>1
<1>4. /\ a1 \in Act(m) /\ a1.by = a.by /\ a1.at = a.at /\ a1.alt = a.alt /\ a1.slot = a.slot /\ a1.mark = a.at[1]
  <2> DEFINE k == a.at[1]
  <2>1. k \in m
    BY <1>3
  <2> HIDE DEF k, m
  <2>2. a1 = [a EXCEPT !.mark = k]
    BY DEF k
  <2>3. a \in [by : m, slot : DOMAIN Skill, at : Seq(m) \ {<<>>}, mark : m \cup {NoOne}, alt : m \cup {NoOne}]
    BY <1>1 DEF Act
  <2> HIDE DEF a1
  <2>4. /\ a1 \in [by : m, slot : DOMAIN Skill, at : Seq(m) \ {<<>>}, mark : m \cup {NoOne}, alt : m \cup {NoOne}]
        /\ a1.by = a.by /\ a1.at = a.at /\ a1.alt = a.alt /\ a1.slot = a.slot /\ a1.mark = k
    BY <2>1, <2>2, <2>3
  <2> QED BY <2>4 DEF Act, k
<1>5. x \in Fighters(m, a.by, t, "play") /\ a.by \in Character
  BY <1>1, PlayFacts, LineFacts
<1>6. id = x.swap[a.slot]
  BY DEF SkillOf
<1> HIDE DEF x, a1, id
<1>7. /\ id \in DOMAIN Skill
      /\ id # a.slot => ~Redirecting(Skill[id]) /\ ~Redirecting(Skill[a.slot])
      /\ \A j \in DOMAIN Kind : Casts(Skill[id], j) => Free(j, a.by, x.swap)
  <2> DEFINE c == a.by
             slot == a.slot
  <2>1. c \in Character /\ slot \in Base[c] /\ x \in Fighters(m, c, t, "play") /\ id = x.swap[slot]
    BY <1>1, <1>5, <1>6
  <2> HIDE DEF c, slot, m
  <2>2. /\ id \in DOMAIN Skill
        /\ id # slot => ~Redirecting(Skill[id]) /\ ~Redirecting(Skill[slot])
        /\ \A j \in DOMAIN Kind : Casts(Skill[id], j) => Free(j, c, x.swap)
    BY <2>1, SkillOfIs
  <2> QED BY <2>2 DEF c, slot
<1>8. b1 \in Play(line, t, p) /\ b1.team[a.by].swap = x.swap
  BY <1>1, WatchedPlays DEF SwapsOf, x
<1> HIDE DEF b1
<1>9. Aimed(a1, id, m)
  <2>1. Redirecting(Skill[id]) => a.alt \in m
    BY <1>1, <1>7
  <2> QED BY <1>1, <1>3, <1>4, <1>7, <2>1 DEF Aimed
<1>10. SkillFree(b1, a1, id)
  BY <1>4, <1>7, <1>8 DEF SkillFree
<1> QED BY <1>2, <1>4, <1>8, <1>9, <1>10, DeclarePlays

LEMMA ResolvedPlays ==
    ASSUME NEW line \in Lineups, NEW t \in Nat, NEW p, NEW b \in Play(line, t, p),
           NEW q \in Seq(Queued(ToSet(line)))
    PROVE  Resolved(b, q) \in Play(line, t, p)
<1> DEFINE V == Play(line, t, p)
           S == Queued(ToSet(line))
<1>1. \A v \in V, a \in S : Resolve(v, a) \in V
  BY ResolvePlays
<1>2. b \in V /\ q \in Seq(S)
  OBVIOUS
<1> HIDE DEF V, S
<1>3. \A v \in V, i \in DOMAIN q : Resolve(v, q[i]) \in V
  BY <1>1, <1>2
<1>4. Resolved(b, q) \in V
  BY <1>2, <1>3, ResolvedStays
<1> QED BY <1>4 DEF V

-----------------------------------------------------------------------------
(* The end of a turn: time passes *)

\* A fighter that is through with the turn is as it begins the next one.
Ready(m, c, u) == {x \in Fighters(m, c, u, "play") : ~x.acted /\ x.reduced = 0}

LEMMA CleaningUp ==
    ASSUME NEW m, NEW c, NEW u, NEW x \in Fighters(m, c, u, "play")
    PROVE  x \in Fighters(m, c, u, "cleanup")
<1>1. StatusSet(m, c, u, "play") \subseteq StatusSet(m, c, u, "cleanup")
  BY DEF StatusSet, OnTime
<1>2. x \in FighterShape(m, c, u, "play") /\ x.statuses \in Seq(StatusSet(m, c, u, "play"))
  BY FighterFacts DEF Fighters
<1>3. x.statuses \in Seq(StatusSet(m, c, u, "cleanup"))
  BY <1>1, <1>2
<1>4. x \in FighterShape(m, c, u, "cleanup")
  BY <1>2, <1>3 DEF FighterShape
<1> QED BY <1>4, FighterFacts DEF Fighters

\* Turn u of the player at(u) counts for a status as its clock says.
LEMMA TicksCount ==
    ASSUME NEW s, NEW c, NEW u
    PROVE  Ticks(s, c, At(u), u) <=> s.born # u /\ Counts(s, c, u)
BY DEF Ticks, Counts

LEMMA ElapsedNext ==
    ASSUME NEW s, s.born \in Nat, NEW c, NEW u \in Nat, s.born <= u
    PROVE  Elapsed(s, c, u + 1) = Elapsed(s, c, u) + (IF Ticks(s, c, At(u), u) THEN 1 ELSE 0)
<1> DEFINE old == {t \in s.born + 1 .. u - 1 : Counts(s, c, t)}
           new == {t \in s.born + 1 .. (u + 1) - 1 : Counts(s, c, t)}
<1>1. Elapsed(s, c, u) = Cardinality(old) /\ Elapsed(s, c, u + 1) = Cardinality(new)
  BY DEF Elapsed
<1>2. IsFiniteSet(old) /\ u \notin old
  <2>1. IsFiniteSet(s.born + 1 .. u - 1)
    BY FS_Interval
  <2> QED BY <2>1, FS_Subset
<1>3. Cardinality(old) \in Nat
  BY <1>2, FS_CardinalityType
<1>4. CASE Ticks(s, c, At(u), u)
  <2>1. s.born # u /\ Counts(s, c, u)
    BY <1>4, TicksCount
  <2>2. new = old \cup {u}
    BY <2>1
  <2> HIDE DEF old, new
  <2>3. Cardinality(new) = Cardinality(old) + 1
    BY <1>2, <2>2, FS_AddElement
  <2> QED BY <1>1, <1>4, <2>3
<1>5. CASE ~Ticks(s, c, At(u), u)
  <2>1. s.born = u \/ ~Counts(s, c, u)
    BY <1>5, TicksCount
  <2>2. new = old
    BY <2>1
  <2> HIDE DEF old, new
  <2> QED BY <1>1, <1>3, <1>5, <2>2
<1> QED BY <1>4, <1>5

Older(s, c, p, turn) == IF s.left > 0 /\ Ticks(s, c, p, turn) THEN [s EXCEPT !.left = @ - 1] ELSE s

\* What has time left after the turn is on time for the next one.
LEMMA OlderIs ==
    ASSUME NEW m, NEW c, NEW u \in Nat, NEW s \in StatusSet(m, c, u, "cleanup")
    PROVE  /\ Older(s, c, At(u), u).id = s.id /\ Older(s, c, At(u), u).stacks = s.stacks
           /\ Older(s, c, At(u), u) \in StatusShape(m)
           /\ Older(s, c, At(u), u).left # 0 => Older(s, c, At(u), u) \in StatusSet(m, c, u + 1, "play")
<1> DEFINE r == Older(s, c, At(u), u)
           n == Elapsed(s, c, u)
           k == IF Ticks(s, c, At(u), u) THEN 1 ELSE 0
<1>1. /\ s \in StatusShape(m) /\ s.born \in Nat /\ s.left \in Int /\ s.full \in Int
      /\ s.born <= u /\ (s.left # 0 => (s.left > 0 <=> s.full > 0)) /\ (s.left < 0 => Lasting(s.id))
      /\ (s.left # 0 /\ s.born > 0 /\ s.full > 0 => s.left = s.full - n)
      /\ (Kind[s.id].redirect => s.to \in m)
  BY StatusFacts DEF OnTime
<1>2. /\ r \in StatusShape(m) /\ r.id = s.id /\ r.by = s.by /\ r.to = s.to /\ r.born = s.born
      /\ r.clock = s.clock /\ r.full = s.full /\ r.stacks = s.stacks
      /\ r.left = IF s.left > 0 /\ Ticks(s, c, At(u), u) THEN s.left - 1 ELSE s.left
  BY <1>1 DEF Older, StatusShape
<1>3. Elapsed(r, c, u + 1) = n + k
  <2>1. Elapsed(s, c, u + 1) = n + k
    BY <1>1, ElapsedNext
  <2> HIDE DEF r, n, k
  <2> QED BY <1>2, <2>1, ElapsedSame
<1>4. n \in Nat /\ k \in {0, 1} /\ (Ticks(s, c, At(u), u) <=> k = 1)
  BY <1>1, ElapsedIsNumber
<1>5. ASSUME r.left # 0 PROVE OnTime(r, c, u + 1, "play")
  <2>1. r.left = IF s.left > 0 THEN s.left - k ELSE s.left
    BY <1>1, <1>2, <1>4
  <2> HIDE DEF r, n, k
  <2>2. s.left # 0 /\ (r.left > 0 <=> s.left > 0) /\ (r.left < 0 => Lasting(r.id))
    BY <1>1, <1>2, <1>4, <1>5, <2>1
  <2>3. r.born <= u + 1
    BY <1>1, <1>2
  <2>4. r.born > 0 /\ r.full > 0 => r.left = r.full - (n + k)
    BY <1>1, <1>2, <1>4, <2>1, <2>2
  <2> QED BY <1>1, <1>2, <1>3, <1>5, <2>2, <2>3, <2>4 DEF OnTime
<1> HIDE DEF r
<1>6. r.left # 0 => r \in StatusSet(m, c, u + 1, "play")
  BY <1>1, <1>2, <1>5 DEF StatusSet
<1> QED BY <1>2, <1>6 DEF r

Aged(x, c, p, turn) == [i \in DOMAIN x.statuses |-> Older(x.statuses[i], c, p, turn)]
Later(x, c, p, turn) ==
    LET aged == Aged(x, c, p, turn)
    IN TakenBack([x EXCEPT !.statuses = Only(aged, {s \in ToSet(aged) : s.left # 0})],
                 Only(aged, {s \in ToSet(aged) : s.left = 0}))

LEMMA LaterIs ==
    ASSUME NEW m, NEW c \in Character, NEW u \in Nat, NEW x \in Fighters(m, c, u, "cleanup")
    PROVE  Later(x, c, At(u), u) \in Fighters(m, c, u + 1, "play")
<1> DEFINE S == StatusShape(m)
           N == StatusSet(m, c, u + 1, "play")
           ss == x.statuses
           aged == Aged(x, c, At(u), u)
           L == {s \in ToSet(aged) : s.left # 0}
           G == {s \in ToSet(aged) : s.left = 0}
           rr == Only(aged, L)
           qq == Only(aged, G)
<1>1. ss \in Seq(StatusSet(m, c, u, "cleanup")) /\ Single(ss)
  BY FighterFacts
<1>2. \A i \in DOMAIN ss : ss[i] \in StatusSet(m, c, u, "cleanup")
  BY <1>1
<1>3. /\ DOMAIN aged = DOMAIN ss
      /\ \A i \in DOMAIN ss : /\ aged[i].id = ss[i].id /\ aged[i].stacks = ss[i].stacks /\ aged[i] \in S
                              /\ aged[i].left # 0 => aged[i] \in N
  <2>1. DOMAIN aged = DOMAIN ss /\ \A i \in DOMAIN ss : aged[i] = Older(ss[i], c, At(u), u)
    BY DEF Aged
  <2> SUFFICES ASSUME NEW i \in DOMAIN ss
               PROVE  /\ aged[i].id = ss[i].id /\ aged[i].stacks = ss[i].stacks /\ aged[i] \in S
                      /\ aged[i].left # 0 => aged[i] \in N
    BY <2>1
  <2> DEFINE s == ss[i]
  <2>2. s \in StatusSet(m, c, u, "cleanup") /\ aged[i] = Older(s, c, At(u), u)
    BY <1>2, <2>1
  <2> HIDE DEF s, aged
  <2>3. /\ Older(s, c, At(u), u).id = s.id /\ Older(s, c, At(u), u).stacks = s.stacks
        /\ Older(s, c, At(u), u) \in StatusShape(m)
        /\ Older(s, c, At(u), u).left # 0 => Older(s, c, At(u), u) \in StatusSet(m, c, u + 1, "play")
    BY <2>2, OlderIs
  <2> QED BY <2>2, <2>3 DEF s
<1>4. aged \in Seq(S)
  <2>1. Len(ss) \in Nat /\ DOMAIN ss = 1 .. Len(ss)
    BY <1>1
  <2>2. aged = [i \in 1 .. Len(ss) |-> aged[i]]
    BY <2>1 DEF Aged
  <2> HIDE DEF aged, S
  <2> QED BY <1>3, <2>1, <2>2
<1> HIDE DEF aged
<1>5. Single(aged)
  BY <1>1, <1>3 DEF Single
<1>6. rr \in Seq(S) /\ Picks(rr, aged, L) /\ qq \in Seq(S) /\ Picks(qq, aged, G) /\ Single(rr)
  <2> HIDE DEF S, L, G
  <2> QED BY <1>4, <1>5, OnlyIn, OnlySingle
<1>7. Later(x, c, At(u), u) = TakenBack([x EXCEPT !.statuses = rr], qq)
  BY DEF Later, aged
<1>8. \A j \in DOMAIN aged : aged[j] \in L \/ aged[j] \in G
  BY DEF ToSet
<1>9. (\A s \in L : s.left # 0) /\ (\A s \in G : s.left = 0)
  OBVIOUS
<1> HIDE DEF L, G, rr, qq
<1>10. \A i \in DOMAIN rr : rr[i].left # 0 /\ \E j \in DOMAIN aged : rr[i] = aged[j]
  BY <1>6, <1>9 DEF Picks
<1>11. \A i \in DOMAIN qq : qq[i].left = 0 /\ \E j \in DOMAIN aged : qq[i] = aged[j]
  BY <1>6, <1>9 DEF Picks
<1>12. rr \in Seq(N)
  <2>1. \A i \in DOMAIN rr : rr[i] \in N
    BY <1>3, <1>10
  <2> HIDE DEF S, N
  <2> QED BY <1>6, <2>1
<1>13. \A i \in DOMAIN rr : \E j \in DOMAIN ss : rr[i].id = ss[j].id /\ rr[i].stacks = ss[j].stacks
  BY <1>3, <1>10
<1>14. \A j \in DOMAIN ss : \/ \E i \in DOMAIN rr : rr[i].id = ss[j].id /\ rr[i].stacks = ss[j].stacks
                            \/ \E i \in DOMAIN qq : qq[i].id = ss[j].id
  <2> SUFFICES ASSUME NEW j \in DOMAIN ss
               PROVE  \/ \E i \in DOMAIN rr : rr[i].id = ss[j].id /\ rr[i].stacks = ss[j].stacks
                      \/ \E i \in DOMAIN qq : qq[i].id = ss[j].id
    OBVIOUS
  <2>1. aged[j].id = ss[j].id /\ aged[j].stacks = ss[j].stacks /\ j \in DOMAIN aged
    BY <1>3
  <2>2. CASE aged[j] \in L
    <3>1. PICK i \in DOMAIN rr : rr[i] = aged[j]
      BY <1>6, <2>1, <2>2 DEF Picks
    <3> QED BY <2>1, <3>1
  <2>3. CASE aged[j] \in G
    <3>1. PICK i \in DOMAIN qq : qq[i] = aged[j]
      BY <1>6, <2>1, <2>3 DEF Picks
    <3> QED BY <2>1, <3>1
  <2> QED BY <1>8, <2>1, <2>2, <2>3
<1>15. \A i \in DOMAIN qq : qq[i].id \in DOMAIN Kind
  <2>1. \A r \in S : r.id \in DOMAIN Kind
    BY DEF StatusShape
  <2> HIDE DEF S
  <2>2. \A i \in DOMAIN qq : qq[i] \in S
    BY <1>6
  <2> QED BY <2>1, <2>2
<1>16. ASSUME NEW i \in DOMAIN rr, NEW j \in DOMAIN qq, rr[i].id = qq[j].id, Replacing(rr[i].id) PROVE FALSE
  <2>1. PICK a \in DOMAIN aged : rr[i] = aged[a] /\ rr[i].left # 0
    BY <1>10
  <2>2. PICK b \in DOMAIN aged : qq[j] = aged[b] /\ qq[j].left = 0
    BY <1>11
  <2>3. a = b
    BY <1>5, <1>16, <2>1, <2>2 DEF Single
  <2> QED BY <2>1, <2>2, <2>3
<1>17. TakenBack([x EXCEPT !.statuses = rr], qq) \in Fighters(m, c, u + 1, "play")
  BY <1>6, <1>12, <1>13, <1>14, <1>15, <1>16, TakenAwayIs
<1> QED BY <1>7, <1>17

LEMMA RestedCools ==
    ASSUME NEW cool \in Cools
    PROVE  [k \in {k \in DOMAIN cool : cool[k] > 1} |-> cool[k] - 1] \in Cools
<1>1. PICK K \in SUBSET DOMAIN Skill : cool \in [K -> Int]
  BY DEF Cools
<1> DEFINE J == {k \in DOMAIN cool : cool[k] > 1}
<1>2. J \in SUBSET DOMAIN Skill /\ \A k \in J : cool[k] - 1 \in Int
  BY <1>1
<1> HIDE DEF J
<1>3. [k \in J |-> cool[k] - 1] \in [J -> Int]
  BY <1>2
<1> QED BY <1>2, <1>3 DEF Cools, J

\* What Rested makes of a fighter of the player p, of side q.
Resting(x, mine) ==
    [x EXCEPT !.acted = FALSE, !.reduced = 0,
              !.cool = IF ~mine THEN @ ELSE [k \in {k \in DOMAIN @ : @[k] > 1} |-> @[k] - 1]]

LEMMA RestingIs ==
    ASSUME NEW m, NEW c, NEW u, NEW x \in Fighters(m, c, u, "play"), NEW mine
    PROVE  Resting(x, mine) \in Ready(m, c, u)
<1> DEFINE cool == IF ~mine THEN x.cool ELSE [k \in {k \in DOMAIN x.cool : x.cool[k] > 1} |-> x.cool[k] - 1]
           y == [x EXCEPT !.acted = FALSE, !.reduced = 0, !.cool = cool]
<1>1. Resting(x, mine) = y
  BY DEF Resting
<1>2. cool \in Cools
  <2>1. x.cool \in Cools
    BY FighterFacts
  <2> DEFINE rest == [k \in {k \in DOMAIN x.cool : x.cool[k] > 1} |-> x.cool[k] - 1]
  <2>2. rest \in Cools
    BY <2>1, RestedCools
  <2> HIDE DEF rest
  <2> QED BY <2>1, <2>2 DEF rest
<1> HIDE DEF cool
<1>3. x \in FighterShape(m, c, u, "play")
  BY DEF Fighters
<1>4. /\ y \in FighterShape(m, c, u, "play") /\ y.hp = x.hp /\ y.alive = x.alive
      /\ y.statuses = x.statuses /\ y.swap = x.swap /\ ~y.acted /\ y.reduced = 0
  <2> DEFINE y1 == [x EXCEPT !.acted = FALSE]
             y2 == [y1 EXCEPT !.reduced = 0]
  <2>1. /\ y1 \in FighterShape(m, c, u, "play") /\ y1.hp = x.hp /\ y1.alive = x.alive
        /\ y1.statuses = x.statuses /\ y1.swap = x.swap /\ ~y1.acted
    BY <1>3 DEF FighterShape
  <2>2. y = [y2 EXCEPT !.cool = cool]
    OBVIOUS
  <2> HIDE DEF y1, y
  <2>3. /\ y2 \in FighterShape(m, c, u, "play") /\ y2.hp = x.hp /\ y2.alive = x.alive
        /\ y2.statuses = x.statuses /\ y2.swap = x.swap /\ ~y2.acted /\ y2.reduced = 0
    BY <2>1 DEF FighterShape
  <2> HIDE DEF y2
  <2> QED BY <1>2, <2>2, <2>3 DEF FighterShape
<1> HIDE DEF y
<1>5. y \in Ready(m, c, u)
  BY <1>4, FighterFacts DEF Fighters, Ready
<1> QED BY <1>1, <1>5

-----------------------------------------------------------------------------
(* The end of a turn: what expires *)

\* A fighter during the cleanup: still to come, or through with it.
Phases(m, d, t) == {Fighters(m, d, t, "cleanup"), Ready(m, d, t + 1)}

LEMMA BareIn ==
    ASSUME NEW m, NEW c, NEW u \in Nat, NEW z, NEW id \in DOMAIN Kind, ~Kind[id].redirect, NEW by \in m
    PROVE  Bare(id, by) \in StatusSet(m, c, u, z) /\ Bare(id, by).id = id
<1> DEFINE s == Bare(id, by)
<1>1. s = Status(id, by, NoOne, 0, "turn", 2)
  BY DEF Bare
<1>2. s.id = id
  BY <1>1 DEF Status
<1> HIDE DEF s
<1>3. s \in StatusSet(m, c, u, z)
  BY <1>1, BareStatus DEF Clocks
<1> QED BY <1>2, <1>3 DEF s

LEMMA JoinedPhase ==
    ASSUME NEW m, NEW d, NEW t \in Nat, NEW X \in Phases(m, d, t), NEW x \in X, NEW joins \in BOOLEAN,
           NEW s, joins => /\ s \in StatusSet(m, d, t, "cleanup") /\ s \in StatusSet(m, d, t + 1, "play")
                           /\ ~Replacing(s.id)
    PROVE  Joined(x, joins, s) \in X /\ DOMAIN x.statuses \subseteq DOMAIN Joined(x, joins, s).statuses
<1>1. PICK u, z : /\ x \in Fighters(m, d, u, z)
                  /\ X = Fighters(m, d, u, z) \/ X = {y \in Fighters(m, d, u, z) : ~y.acted /\ y.reduced = 0}
                  /\ joins => s \in StatusSet(m, d, u, z)
  BY DEF Phases, Ready
<1>2. x = [hp |-> x.hp, alive |-> x.alive, acted |-> x.acted, reduced |-> x.reduced,
           awake |-> x.awake, statuses |-> x.statuses, swap |-> x.swap, cool |-> x.cool]
      /\ x.statuses \in Seq(StatusSet(m, d, u, z))
  BY <1>1, FighterFacts
<1>3. CASE ~joins
  <2>1. Joined(x, joins, s) = [x EXCEPT !.statuses = x.statuses]
    BY <1>3 DEF Joined
  <2>2. Joined(x, joins, s) = x
    BY <1>2, <2>1
  <2> QED BY <2>2
<1>4. CASE joins
  <2> DEFINE y == [x EXCEPT !.statuses = Append(@, s)]
             S == StatusSet(m, d, u, z)
  <2>1. Joined(x, joins, s) = y
    BY <1>4 DEF Joined
  <2>2. y.acted = x.acted /\ y.reduced = x.reduced /\ y.statuses = Append(x.statuses, s)
    BY <1>2
  <2>3. y \in Fighters(m, d, u, z)
    BY <1>1, <1>4, JoinedIs
  <2>4. DOMAIN x.statuses \subseteq DOMAIN Append(x.statuses, s)
    <3>1. x.statuses \in Seq(S) /\ s \in S
      BY <1>1, <1>2, <1>4
    <3> HIDE DEF S
    <3> QED BY <3>1
  <2> HIDE DEF y
  <2>5. y \in X
    BY <1>1, <2>2, <2>3
  <2> QED BY <2>1, <2>2, <2>4, <2>5
<1> QED BY <1>3, <1>4

\* One status of a fighter that is cleaned up comes to its end, or does not.
LEMMA EndedIs ==
    ASSUME NEW m, NEW c, NEW t, NEW x \in Fighters(m, c, t, "cleanup"), NEW i \in DOMAIN x.statuses, NEW ends \in BOOLEAN
    PROVE  /\ Ended(x, i, ends) \in Fighters(m, c, t, "cleanup")
           /\ DOMAIN Ended(x, i, ends).statuses = DOMAIN x.statuses
<1> DEFINE S == StatusSet(m, c, t, "cleanup")
           ss == x.statuses
           left == IF ends THEN 0 ELSE ss[i].left
           r == [ss[i] EXCEPT !.left = left]
           rr == [ss EXCEPT ![i] = r]
<1>1. ss \in Seq(S) /\ ss[i] \in S
  BY FighterFacts, StatusAt
<1>2. r \in S /\ r.id = ss[i].id /\ r.stacks = ss[i].stacks
  <2> DEFINE s == ss[i]
  <2>1. s \in StatusShape(m) /\ s.born <= t /\ s.left \in Int /\ (Kind[s.id].redirect => s.to \in m) /\ OnTime(s, c, t, "cleanup")
    BY <1>1, StatusFacts DEF OnTime
  <2> HIDE DEF s
  <2>2. left \in Int /\ (left = 0 \/ left = s.left)
    BY <2>1 DEF s
  <2>3. r = [s EXCEPT !.left = left]
    BY DEF s
  <2> HIDE DEF left, r
  <2>4. /\ r \in StatusShape(m) /\ r.id = s.id /\ r.to = s.to /\ r.born = s.born /\ r.clock = s.clock /\ r.by = s.by
        /\ r.full = s.full /\ r.stacks = s.stacks /\ r.left = left
    BY <2>1, <2>2, <2>3 DEF StatusShape
  <2>5. CASE left = s.left
    <3>1. r \in StatusSet(m, c, t, "cleanup")
      BY <1>1, <2>4, <2>5, StatusChanged DEF s
    <3> QED BY <2>4, <3>1 DEF s
  <2>6. CASE left = 0
    <3>1. OnTime(r, c, t, "cleanup")
      BY <2>1, <2>4, <2>6 DEF OnTime
    <3>2. r \in StatusSet(m, c, t, "cleanup")
      BY <2>1, <2>4, <3>1 DEF StatusSet
    <3> QED BY <2>4, <3>2 DEF s
  <2> QED BY <2>2, <2>5, <2>6
<1>3. Ended(x, i, ends) = [x EXCEPT !.statuses = rr]
  BY DEF Ended
<1> HIDE DEF r
<1>4. rr \in Seq(S) /\ SameKinds(rr, ss) /\ DOMAIN rr = DOMAIN ss
  <2> HIDE DEF S
  <2> QED BY <1>1, <1>2 DEF SameKinds
<1> HIDE DEF rr
<1>5. [x EXCEPT !.statuses = rr] \in Fighters(m, c, t, "cleanup")
  BY <1>4, RelabelledIs
<1>6. [x EXCEPT !.statuses = rr].statuses = rr
  BY FighterFacts
<1> QED BY <1>3, <1>4, <1>5, <1>6

\* The boards of the cleanup.
Cleaning(line, t, W) == W \in [ToSet(line) -> UNION {Phases(ToSet(line), d, t) : d \in ToSet(line)}]
                        /\ \A d \in ToSet(line) : W[d] \in Phases(ToSet(line), d, t)

LEMMA ExpiringPlays ==
    ASSUME NEW line \in Lineups, NEW t \in Nat, NEW p, p \in {First, Second}, NEW W, Cleaning(line, t, W),
           NEW c \in ToSet(line), W[c] = Fighters(ToSet(line), c, t, "cleanup"),
           NEW b, b \in Boards(line, t, p, W), NEW i \in DOMAIN b.team[c].statuses, NEW ticks \in BOOLEAN
    PROVE  /\ Expiring(b, c, b.team[c].statuses[i], i, ticks) \in Boards(line, t, p, W)
           /\ DOMAIN b.team[c].statuses
                 \subseteq DOMAIN Expiring(b, c, b.team[c].statuses[i], i, ticks).team[c].statuses
<1> DEFINE m == ToSet(line)
           x == b.team[c]
           s == x.statuses[i]
           grants == s.left = 1 /\ ticks /\ Kind[s.id].grants # "" /\ b.team[s.by].alive
           drains == Kind[s.id].drains > 0 /\ ticks /\ Side[c] = b.mover
           ends == (Kind[s.id].bound /\ ~b.team[s.by].alive) \/ drains
           g == Bare(Kind[s.id].grants, s.by)
           y == Ended(x, i, ends)
           T1 == [b.team EXCEPT ![c] = y]
           n == IF drains THEN b.energy[p] - Min({b.energy[p], Kind[s.id].drains}) ELSE b.energy[p]
           w == Joined(T1[s.by], grants, g)
           T2 == [T1 EXCEPT ![s.by] = w]
           b1 == WithTeam(b, T1)
           b2 == WithEnergy(b1, p, n)
           b3 == WithTeam(b2, T2)
<1>1. /\ b.lineup = line /\ b.turn = t /\ b.mover = p /\ DOMAIN b.team = m
      /\ b.energy \in [{First, Second} -> Nat] /\ \A d \in m : b.team[d] \in W[d]
      /\ b.team = [d \in m |-> b.team[d]]
  BY DEF Boards
<1>2. x \in Fighters(m, c, t, "cleanup")
  BY <1>1
<1>3. s.id \in DOMAIN Kind /\ s.by \in m
  <2>1. s \in StatusSet(m, c, t, "cleanup")
    <3> HIDE DEF x
    <3>1. x.statuses \in Seq(StatusSet(m, c, t, "cleanup"))
      BY <1>2, FighterFacts
    <3> QED BY <3>1, StatusAt DEF x
  <2> HIDE DEF s
  <2> QED BY <2>1, StatusFacts
<1>4. grants \in BOOLEAN /\ drains \in BOOLEAN /\ ends \in BOOLEAN
  OBVIOUS
<1>5. Expiring(b, c, s, i, ticks) = b3
  <2>1. b1 = [b EXCEPT !.team[c] = Ended(@, i, ends)] /\ b1.energy = b.energy
    <3> HIDE DEF ends
    <3> QED BY DEF WithTeam, Boards
  <2>2. /\ b2 = [b EXCEPT !.team[c] = Ended(@, i, ends),
                         !.energy[p] = IF drains THEN @ - Min({@, Kind[s.id].drains}) ELSE @]
        /\ b2.team = T1
    <3> DEFINE k == Kind[s.id].drains
    <3>1. b2 = [b EXCEPT !.team[c] = Ended(@, i, ends), !.energy[p] = IF drains THEN @ - Min({@, k}) ELSE @]
      BY <1>1, <2>1 DEF WithEnergy, WithTeam
    <3>2. b2.team = T1
      BY DEF WithEnergy, WithTeam, Boards
    <3> QED BY <3>1, <3>2
  <2>3. b3 = [b2 EXCEPT !.team[s.by] = Joined(@, grants, g)]
    <3> HIDE DEF b2, T1, grants, g
    <3> QED BY <2>2 DEF WithTeam
  <2> HIDE DEF b1, b2, b3
  <2> QED BY <1>1, <2>2, <2>3 DEF Expiring
<1>6. y \in Fighters(m, c, t, "cleanup") /\ DOMAIN y.statuses = DOMAIN x.statuses
  <2> HIDE DEF x, ends
  <2> QED BY <1>2, <1>4, EndedIs DEF x
<1>7. n \in Nat
  <2> DEFINE e == b.energy[p]
             k == Kind[s.id].drains
  <2>1. e \in Nat /\ k \in Int
    BY <1>1, <1>3, KindFacts
  <2>2. n = IF drains THEN e - Min({e, k}) ELSE e
    OBVIOUS
  <2>3. Min({e, k}) = IF e <= k THEN e ELSE k
    <3> HIDE DEF e, k
    <3> QED BY <2>1, MinOfTwo
  <2>4. drains => k > 0
    OBVIOUS
  <2> HIDE DEF e, k, n, drains
  <2> QED BY <2>1, <2>2, <2>3, <2>4
<1>8. grants => /\ \A d \in m : g \in StatusSet(m, d, t, "cleanup") /\ g \in StatusSet(m, d, t + 1, "play")
                /\ ~Replacing(g.id)
  <2> DEFINE id == Kind[s.id].grants
  <2>1. grants => id \in DOMAIN Kind /\ ~Kind[id].redirect /\ ~Replacing(id)
    <3> DEFINE k == s.id
    <3>1. k \in DOMAIN Kind /\ id = Kind[k].grants /\ (grants => id # "")
      BY <1>3
    <3> HIDE DEF k, grants, id
    <3> QED BY <3>1, GivenFacts
  <2> DEFINE by == s.by
  <2>2. by \in m /\ g = Bare(id, by)
    BY <1>3
  <2> HIDE DEF id, by, g, grants
  <2>3. t + 1 \in Nat
    OBVIOUS
  <2> QED BY <2>1, <2>2, <2>3, BareIn
<1> HIDE DEF y, n, g, grants, drains, ends, s, x
<1>9. /\ T1 = [d \in m |-> T1[d]] /\ T1[c] = y /\ \A d \in m : T1[d] \in W[d]
  BY <1>1, <1>6
<1> HIDE DEF T1
<1>10. w \in W[s.by] /\ DOMAIN T1[s.by].statuses \subseteq DOMAIN w.statuses
  <2> DEFINE d == s.by
             X == W[d]
             v == T1[d]
  <2>1. d \in m /\ X \in Phases(m, d, t) /\ v \in X /\ w = Joined(v, grants, g)
    BY <1>3, <1>9 DEF Cleaning
  <2>2. grants => g \in StatusSet(m, d, t, "cleanup") /\ g \in StatusSet(m, d, t + 1, "play") /\ ~Replacing(g.id)
    BY <1>8, <2>1
  <2> HIDE DEF d, X, v, w, m
  <2>3. w \in X /\ DOMAIN v.statuses \subseteq DOMAIN w.statuses
    BY <1>4, <2>1, <2>2, JoinedPhase
  <2> QED BY <2>3 DEF d, X, v
<1> HIDE DEF w
<1>11. /\ T2 = [d \in m |-> T2[d]] /\ \A d \in m : T2[d] \in W[d]
       /\ DOMAIN x.statuses \subseteq DOMAIN T2[c].statuses
  BY <1>3, <1>6, <1>9, <1>10
<1> HIDE DEF T2
<1>12. b1 \in Boards(line, t, p, W)
  BY <1>9, WithTeamIs
<1> HIDE DEF b1
<1>13. b2 \in Boards(line, t, p, W)
  BY <1>7, <1>12, WithEnergyIs
<1> HIDE DEF b2
<1>14. b3 \in Boards(line, t, p, W) /\ b3.team = T2
  BY <1>11, <1>13, WithTeamIs
<1> QED BY <1>5, <1>11, <1>14 DEF s, x

LEMMA ExpiredPlays ==
    ASSUME NEW line \in Lineups, NEW t \in Nat, NEW p, p \in {First, Second}, NEW W, Cleaning(line, t, W),
           NEW c \in ToSet(line), W[c] = Fighters(ToSet(line), c, t, "cleanup"),
           NEW b, b \in Boards(line, t, p, W)
    PROVE  Expired(b, c, p) \in Boards(line, t, p, W)
<1> DEFINE ss == b.team[c].statuses
           V == {v \in Boards(line, t, p, W) : DOMAIN ss \subseteq DOMAIN v.team[c].statuses}
           pl == Places(ss)
<1>1. ss \in Seq(StatusSet(ToSet(line), c, t, "cleanup"))
  <2>1. b.team[c] \in Fighters(ToSet(line), c, t, "cleanup")
    BY BoardFacts
  <2> QED BY <2>1, FighterFacts
<1>2. pl \in Seq(Nat) /\ DOMAIN pl = DOMAIN ss /\ \A i \in DOMAIN pl : pl[i] = i
  <2> DEFINE S == StatusSet(ToSet(line), c, t, "cleanup")
             n == Len(ss)
  <2>1. n \in Nat /\ DOMAIN ss = 1 .. n
    <3> HIDE DEF S, ss
    <3> QED BY <1>1 DEF S
  <2> HIDE DEF n
  <2>2. pl = [i \in 1 .. n |-> i]
    BY <2>1 DEF Places
  <2> HIDE DEF pl
  <2>3. DOMAIN pl = 1 .. n /\ \A i \in 1 .. n : pl[i] = i
    BY <2>2
  <2>4. pl \in Seq(Nat)
    BY <2>1, <2>2
  <2> QED BY <2>1, <2>3, <2>4
<1>3. ASSUME NEW v, v \in V, NEW i, i \in DOMAIN pl PROVE ExpiringAt(v, c, i, p) \in V
  <2>1. i \in DOMAIN v.team[c].statuses /\ v \in Boards(line, t, p, W)
    BY <1>2, <1>3
  <2> DEFINE s == v.team[c].statuses[i]
             ticks == Ticks(s, c, p, v.turn)
  <2>2. ticks \in BOOLEAN
    BY DEF Ticks
  <2> HIDE DEF ticks
  <2>3. /\ Expiring(v, c, s, i, ticks) \in Boards(line, t, p, W)
        /\ DOMAIN v.team[c].statuses \subseteq DOMAIN Expiring(v, c, s, i, ticks).team[c].statuses
    BY <2>1, <2>2, ExpiringPlays
  <2>4. ExpiringAt(v, c, i, p) = Expiring(v, c, s, i, ticks)
    BY DEF ExpiringAt, ticks
  <2> QED BY <1>3, <2>3, <2>4
<1>4. b \in V
  OBVIOUS
<1> HIDE DEF V
<1>5. \A v \in V, i \in DOMAIN pl : ExpiringAt(v, c, pl[i], p) \in V
  BY <1>2, <1>3
<1>6. Expired(b, c, p) \in V
  BY <1>2, <1>4, <1>5, ExpiredStays
<1> QED BY <1>6 DEF V

LEMMA PoisonedByPlays ==
    ASSUME NEW line \in Lineups, NEW t \in Nat, NEW p, NEW W,
           NEW c \in ToSet(line), W[c] = Fighters(ToSet(line), c, t, "cleanup"),
           NEW b, b \in Boards(line, t, p, W), NEW s, s.id \in DOMAIN Kind
    PROVE  PoisonedBy(b, c, s, p) \in Boards(line, t, p, W)
<1> DEFINE F == Fighters(ToSet(line), c, t, "cleanup")
           x == b.team[c]
           n == Kind[s.id].poison
           type == DamageType(x, Kind[s.id].poison_type)
           y == Hurt(x, n, type)
           w == Awakened(y, c)
<1>1. x \in F /\ c \in Character /\ n \in Int
  BY BoardFacts, LineFacts, KindFacts
<1>2. y \in F
  <2> HIDE DEF x, n, type
  <2> QED BY <1>1, HurtIs
<1>3. w \in F
  <2> HIDE DEF y
  <2> QED BY <1>1, <1>2, AwakenedIs
<1>4. PoisonedBy(b, c, s, p) = b \/ PoisonedBy(b, c, s, p) = WithFighter(b, c, w)
  BY DEF PoisonedBy, Struck, WithFighter
<1> HIDE DEF w
<1>5. WithFighter(b, c, w) \in Boards(line, t, p, W)
  BY <1>3, WithFighterIs
<1> QED BY <1>4, <1>5

LEMMA PoisonedPlays ==
    ASSUME NEW line \in Lineups, NEW t \in Nat, NEW p, NEW W,
           NEW c \in ToSet(line), W[c] = Fighters(ToSet(line), c, t, "cleanup"),
           NEW b, b \in Boards(line, t, p, W)
    PROVE  Poisoned(b, c, p) \in Boards(line, t, p, W)
<1> DEFINE S == StatusSet(ToSet(line), c, t, "cleanup")
           V == Boards(line, t, p, W)
           ss == b.team[c].statuses
<1>1. ss \in Seq(S) /\ \A s \in S : s.id \in DOMAIN Kind
  <2>1. b.team[c] \in Fighters(ToSet(line), c, t, "cleanup")
    BY BoardFacts
  <2> QED BY <2>1, FighterFacts, StatusFacts
<1>2. ASSUME NEW v, v \in V, NEW s, s \in S PROVE PoisonedBy(v, c, s, p) \in V
  BY <1>1, <1>2, PoisonedByPlays
<1> HIDE DEF V, S
<1>3. b \in V /\ \A v \in V, i \in DOMAIN ss : PoisonedBy(v, c, ss[i], p) \in V
  BY <1>1, <1>2 DEF V
<1>4. Poisoned(b, c, p) \in V
  BY <1>1, <1>3, PoisonedStays
<1> QED BY <1>4 DEF V

\* The fighter c goes on to X.
Moved(line, W, c, X) == [d \in ToSet(line) |-> IF d = c THEN X ELSE W[d]]

LEMMA MovedIs ==
    ASSUME NEW line, NEW t, NEW p, NEW W, NEW b, b \in Boards(line, t, p, W), NEW c, c \in ToSet(line), NEW X, NEW x, x \in X
    PROVE  WithFighter(b, c, x) \in Boards(line, t, p, Moved(line, W, c, X)) /\ WithFighter(b, c, x).turn = t
<1> DEFINE team == [b.team EXCEPT ![c] = x]
           W1 == Moved(line, W, c, X)
<1>1. DOMAIN b.team = ToSet(line) /\ (\A d \in ToSet(line) : b.team[d] \in W[d]) /\ b.team = [d \in ToSet(line) |-> b.team[d]]
  BY DEF Boards
<1>2. team = [d \in ToSet(line) |-> team[d]] /\ \A d \in ToSet(line) : team[d] \in W1[d]
  BY <1>1 DEF Moved
<1>3. WithFighter(b, c, x) = WithTeam(b, team)
  BY DEF WithFighter, WithTeam
<1> HIDE DEF team, W1
<1>4. WithTeam(b, team) \in Boards(line, t, p, W1)
  BY <1>2, WithTeamIs
<1> QED BY <1>3, <1>4, BoardFacts DEF W1

LEMMA TickedPlays ==
    ASSUME NEW line \in Lineups, NEW t \in Nat, NEW W,
           NEW c \in ToSet(line), W[c] = Fighters(ToSet(line), c, t, "cleanup"),
           NEW b, b \in Boards(line, t, At(t), W)
    PROVE  Ticked(b, c, At(t)) \in Boards(line, t, At(t), Moved(line, W, c, Fighters(ToSet(line), c, t + 1, "play")))
<1> DEFINE x == b.team[c]
           y == Later(x, c, At(t), t)
<1>1. x \in Fighters(ToSet(line), c, t, "cleanup") /\ c \in Character /\ b.turn = t
  BY BoardFacts, LineFacts
<1>2. y \in Fighters(ToSet(line), c, t + 1, "play")
  <2> HIDE DEF x
  <2> QED BY <1>1, LaterIs
<1>3. Ticked(b, c, At(t)) = WithFighter(b, c, y)
  BY <1>1 DEF Ticked, WithFighter, Later, Aged, Older
<1> HIDE DEF y
<1> QED BY <1>2, <1>3, MovedIs

LEMMA RestedPlays ==
    ASSUME NEW line \in Lineups, NEW t \in Nat, NEW p, NEW W,
           NEW c \in ToSet(line), W[c] = Fighters(ToSet(line), c, t + 1, "play"),
           NEW b, b \in Boards(line, t, p, W)
    PROVE  Rested(b, c, p) \in Boards(line, t, p, Moved(line, W, c, Ready(ToSet(line), c, t + 1)))
<1> DEFINE x == b.team[c]
           y == Resting(x, Side[c] = p)
<1>1. x \in Fighters(ToSet(line), c, t + 1, "play")
  BY BoardFacts
<1>2. y \in Ready(ToSet(line), c, t + 1)
  <2> HIDE DEF x
  <2> QED BY <1>1, RestingIs
<1>3. Rested(b, c, p) = WithFighter(b, c, y)
  BY DEF Rested, WithFighter, Resting
<1> HIDE DEF y
<1> QED BY <1>2, <1>3, MovedIs

LEMMA CleanupPlays ==
    ASSUME NEW line \in Lineups, NEW t \in Nat, NEW W, Cleaning(line, t, W),
           NEW c \in ToSet(line), W[c] = Fighters(ToSet(line), c, t, "cleanup"),
           NEW b, b \in Boards(line, t, At(t), W)
    PROVE  Cleanup(b, c, At(t)) \in Boards(line, t, At(t), Moved(line, W, c, Ready(ToSet(line), c, t + 1)))
<1> DEFINE p == At(t)
           W1 == Moved(line, W, c, Fighters(ToSet(line), c, t + 1, "play"))
           W2 == Moved(line, W1, c, Ready(ToSet(line), c, t + 1))
           b1 == Expired(b, c, p)
           b2 == Poisoned(b1, c, p)
           b3 == Ticked(b2, c, p)
           b4 == Rested(b3, c, p)
<1>1. p \in {First, Second}
  BY DEF At
<1>2. b1 \in Boards(line, t, p, W)
  BY <1>1, ExpiredPlays
<1> HIDE DEF b1
<1>3. b2 \in Boards(line, t, p, W)
  BY <1>2, PoisonedPlays
<1> HIDE DEF b2
<1>4. b3 \in Boards(line, t, p, W1)
  BY <1>3, TickedPlays
<1>5. W1[c] = Fighters(ToSet(line), c, t + 1, "play")
  BY DEF Moved
<1> HIDE DEF b3, W1
<1>6. b4 \in Boards(line, t, p, W2)
  BY <1>4, <1>5, RestedPlays
<1>7. \A d \in ToSet(line) : W2[d] = Moved(line, W, c, Ready(ToSet(line), c, t + 1))[d]
  BY DEF Moved, W1
<1>8. Cleanup(b, c, At(t)) = b4
  BY DEF Cleanup, b1, b2, b3
<1> HIDE DEF b4, W2
<1>9. b4 \in Boards(line, t, p, Moved(line, W, c, Ready(ToSet(line), c, t + 1)))
  <2> DEFINE X == Moved(line, W, c, Ready(ToSet(line), c, t + 1))
  <2> HIDE DEF X, p
  <2>1. \A d \in ToSet(line) : b4.team[d] \in X[d]
    BY <1>6, <1>7, BoardFacts DEF X
  <2>2. b4 \in Boards(line, t, p, X)
    BY <1>6, <2>1, BoardIn
  <2> QED BY <2>2 DEF X
<1> QED BY <1>8, <1>9

\* When the characters at the places u are through.
Stage(line, t, u) ==
    [d \in ToSet(line) |-> IF \E i \in u : line[i] = d THEN Ready(ToSet(line), d, t + 1)
                           ELSE Fighters(ToSet(line), d, t, "cleanup")]

Rests(line, t) == [d \in ToSet(line) |-> Ready(ToSet(line), d, t)]

LEMMA CleanedUpPlays ==
    ASSUME NEW line \in Lineups, NEW t \in Nat, NEW b, b \in Play(line, t, At(t))
    PROVE  CleanedUp(b, At(t)) \in Boards(line, t, At(t), Rests(line, t + 1))
<1> DEFINE m == ToSet(line)
           p == At(t)
           VV == [u \in SUBSET DOMAIN line |-> Boards(line, t, p, Stage(line, t, u))]
           AA == UNION {Boards(line, t, p, Stage(line, t, u)) : u \in SUBSET DOMAIN line}
<1>1. /\ line \in Seq(m) /\ \A c \in m : c \in Character
      /\ \A i \in DOMAIN line : line[i] \in m
      /\ \A c \in m : \E i \in DOMAIN line : line[i] = c
      /\ \A i, j \in DOMAIN line : line[i] = line[j] => i = j
  BY LineFacts
<1>2. b.lineup = line /\ \A c \in m : b.team[c] \in Fighters(m, c, t, "play")
  BY PlayFacts
<1>3. VV \in [SUBSET DOMAIN line -> SUBSET AA]
  <2> SUFFICES ASSUME NEW u \in SUBSET DOMAIN line PROVE Boards(line, t, p, Stage(line, t, u)) \in SUBSET AA
    OBVIOUS
  <2> QED OBVIOUS
<1>4. b \in VV[{}]
  <2>1. \A c \in m : b.team[c] \in Stage(line, t, {})[c]
    BY <1>2, CleaningUp DEF Stage
  <2>2. b \in Boards(line, t, p, Playing(line, t))
    BY DEF Play
  <2> DEFINE X == Stage(line, t, {})
  <2> HIDE DEF X, p, m
  <2>3. b \in Boards(line, t, p, X)
    BY <2>1, <2>2, BoardIn DEF X, m
  <2> QED BY <2>3 DEF X
<1>5. ASSUME NEW u \in SUBSET DOMAIN line, NEW i \in DOMAIN line, i \notin u, NEW v, v \in Boards(line, t, p, Stage(line, t, u))
      PROVE  Cleanup(v, line[i], p) \in Boards(line, t, p, Stage(line, t, u \cup {i}))
  <2> DEFINE W == Stage(line, t, u)
             c == line[i]
             W1 == Moved(line, W, c, Ready(m, c, t + 1))
             W2 == Stage(line, t, u \cup {i})
             w == Cleanup(v, c, p)
  <2>1. c \in m /\ W[c] = Fighters(m, c, t, "cleanup")
    BY <1>1, <1>5 DEF Stage
  <2>2. Cleaning(line, t, W)
    <3>1. \A d \in m : W[d] \in Phases(m, d, t)
      BY DEF Stage, Phases
    <3>2. W = [d \in m |-> W[d]]
      BY DEF Stage
    <3> HIDE DEF W
    <3>3. W \in [m -> UNION {Phases(m, d, t) : d \in m}]
      BY <3>1, <3>2
    <3> QED BY <3>1, <3>3 DEF Cleaning
  <2>3. \A d \in m : W1[d] = W2[d]
    BY <1>1 DEF Moved, Stage
  <2> HIDE DEF W, c, W2
  <2>4. w \in Boards(line, t, p, W1)
    BY <1>5, <2>1, <2>2, CleanupPlays DEF W
  <2> HIDE DEF W1, w, m, p
  <2>5. \A d \in ToSet(line) : w.team[d] \in W2[d]
    BY <2>3, <2>4, BoardFacts DEF m
  <2>6. w \in Boards(line, t, p, W2)
    BY <2>4, <2>5, BoardIn
  <2> QED BY <2>6 DEF w, W2, c
<1> HIDE DEF VV, AA, p
<1>6. \A u \in SUBSET DOMAIN line, i \in DOMAIN line :
         i \notin u => \A v \in VV[u] : Cleanup(v, line[i], p) \in VV[u \cup {i}]
  BY <1>5 DEF VV
<1>7. CleanedUp(b, p) \in VV[DOMAIN line]
  BY <1>1, <1>2, <1>3, <1>4, <1>6, CleanupStays
<1>8. CleanedUp(b, p) \in Boards(line, t, p, Stage(line, t, DOMAIN line))
  BY <1>7 DEF VV
<1>9. \A c \in m : Stage(line, t, DOMAIN line)[c] = Rests(line, t + 1)[c]
  BY <1>1 DEF Stage, Rests
<1> DEFINE w == CleanedUp(b, p)
           W == Stage(line, t, DOMAIN line)
           W1 == Rests(line, t + 1)
<1> HIDE DEF w, W, W1, m
<1>10. \A c \in ToSet(line) : w.team[c] \in W1[c]
  BY <1>8, <1>9, BoardFacts DEF w, W, W1, m
<1>11. w \in Boards(line, t, p, W1)
  BY <1>8, <1>10, BoardIn DEF w, W
<1> QED BY <1>11 DEF w, W1, p

LEMMA AtNext ==
    ASSUME NEW t \in Nat
    PROVE  Other(At(t)) = At(t + 1) /\ At(t) \in {First, Second}
<1>1. First # Second
  BY CombatAssumption
<1>2. t % 2 \in {0, 1} /\ (t % 2 = 1 <=> (t + 1) % 2 # 1)
  OBVIOUS
<1> QED BY <1>1, <1>2 DEF At, Other

LEMMA FinishTurnPlays ==
    ASSUME NEW line \in Lineups, NEW t \in Nat, NEW b, b \in Play(line, t, At(t))
    PROVE  FinishTurn(b, At(t)) \in Boards(line, t + 1, At(t + 1), Rests(line, t + 1))
<1> DEFINE w == CleanedUp(b, At(t))
           w1 == [w EXCEPT !.turn = t + 1]
           w2 == [w1 EXCEPT !.mover = At(t + 1)]
           w3 == [w2 EXCEPT !.converted = FALSE]
           W == Rests(line, t + 1)
           Row(u, q) == [lineup : {line}, team : [ToSet(line) -> UNION {W[c] : c \in ToSet(line)}],
                         energy : [{First, Second} -> Nat], converted : BOOLEAN, turn : {u}, mover : {q},
                         verdict : {Open, Draw, First, Second}]
<1>1. w \in Boards(line, t, At(t), W)
  BY CleanedUpPlays
<1>2. w \in Row(t, At(t)) /\ \A c \in ToSet(line) : w.team[c] \in W[c]
  BY <1>1 DEF Boards
<1>3. FinishTurn(b, At(t)) = w3
  BY <1>2, AtNext DEF FinishTurn
<1> HIDE DEF w, W
<1>4. w1 \in Row(t + 1, At(t)) /\ w1.team = w.team
  BY <1>2
<1> HIDE DEF w1
<1>5. w2 \in Row(t + 1, At(t + 1)) /\ w2.team = w.team
  BY <1>4
<1> HIDE DEF w2
<1>6. w3 \in Row(t + 1, At(t + 1)) /\ w3.team = w.team
  BY <1>5
<1> HIDE DEF w3
<1>7. w3 \in Boards(line, t + 1, At(t + 1), W)
  BY <1>2, <1>6 DEF Boards
<1> QED BY <1>3, <1>7 DEF W

-----------------------------------------------------------------------------
(* Between turns *)

\* The verdict is what CheckWinner says of the board.
Judged(b) == b.verdict = CheckWinner(b).verdict

\* A board between two turns, or when the battle is over.
Between(b, line, t) ==
    /\ b \in Boards(line, t, At(t), Rests(line, t))
    /\ Judged(b)

IInv == \E line \in Lineups, t \in 1 .. MaxTurn + 1 : Between(battle, line, t)

VerdictOf(first, second) ==
    IF first /\ second THEN Open ELSE IF first THEN First ELSE IF second THEN Second ELSE Draw

LEMMA WinnerIs ==
    ASSUME NEW line, NEW t, NEW p, NEW W, NEW b, b \in Boards(line, t, p, W)
    PROVE  /\ CheckWinner(b) \in Boards(line, t, p, W)
           /\ CheckWinner(b).team = b.team /\ CheckWinner(b).lineup = line /\ CheckWinner(b).mover = p
           /\ CheckWinner(b).verdict = VerdictOf(Standing(b, First), Standing(b, Second))
<1> DEFINE v == VerdictOf(Standing(b, First), Standing(b, Second))
           w == [b EXCEPT !.verdict = v]
<1>1. v \in {Open, Draw, First, Second}
  BY DEF VerdictOf
<1>2. CheckWinner(b) = w
  BY DEF CheckWinner, VerdictOf
<1> HIDE DEF v
<1>3. /\ b \in [lineup : {line}, team : [ToSet(line) -> UNION {W[c] : c \in ToSet(line)}],
                energy : [{First, Second} -> Nat], converted : BOOLEAN, turn : {t}, mover : {p},
                verdict : {Open, Draw, First, Second}]
      /\ \A c \in ToSet(line) : b.team[c] \in W[c]
  BY DEF Boards
<1>4. /\ w \in [lineup : {line}, team : [ToSet(line) -> UNION {W[c] : c \in ToSet(line)}],
                energy : [{First, Second} -> Nat], converted : BOOLEAN, turn : {t}, mover : {p},
                verdict : {Open, Draw, First, Second}]
      /\ w.team = b.team /\ w.lineup = line /\ w.mover = p /\ w.verdict = v
  BY <1>1, <1>3
<1> HIDE DEF w
<1>5. w \in Boards(line, t, p, W)
  BY <1>3, <1>4 DEF Boards
<1> QED BY <1>2, <1>4, <1>5 DEF v

LEMMA StandingSame ==
    ASSUME NEW b, NEW w, b.team = w.team, b.lineup = w.lineup, NEW p
    PROVE  Standing(b, p) <=> Standing(w, p)
BY DEF Standing

LEMMA GrantedIs ==
    ASSUME NEW line \in Lineups, NEW t, NEW p, p \in {First, Second}, NEW W, NEW b, b \in Boards(line, t, p, W)
    PROVE  /\ Granted(b) \in Boards(line, t, p, W)
           /\ Granted(b).team = b.team /\ Granted(b).lineup = b.lineup /\ Granted(b).verdict = b.verdict
<1> DEFINE n == b.energy[p] + Len(Living(b, p))
           w == WithEnergy(b, p, n)
<1>1. b.lineup = line /\ b.mover = p /\ b.energy \in [{First, Second} -> Nat]
  BY DEF Boards
<1>2. n \in Nat
  <2> DEFINE q == Living(b, p)
  <2>1. q \in Seq(ToSet(line))
    BY <1>1, LivingIn
  <2> HIDE DEF q
  <2>2. Len(q) \in Nat
    BY <2>1
  <2> QED BY <1>1, <2>2 DEF q
<1>3. Granted(b) = b \/ Granted(b) = w
  BY <1>1 DEF Granted, WithEnergy
<1>4. w \in Boards(line, t, p, W)
  <2> HIDE DEF n
  <2> QED BY <1>2, WithEnergyIs
<1>5. w.team = b.team /\ w.lineup = b.lineup /\ w.verdict = b.verdict
  <2> HIDE DEF n
  <2> QED BY DEF WithEnergy, Boards
<1> HIDE DEF w
<1> QED BY <1>3, <1>4, <1>5

LEMMA ConcludedIs ==
    ASSUME NEW line \in Lineups, NEW t \in Nat, NEW b, b \in Play(line, t, At(t))
    PROVE  Between(Concluded(b), line, t + 1)
<1> DEFINE W == Rests(line, t + 1)
           b1 == FinishTurn(b, At(t))
           b2 == CheckWinner(b1)
           b3 == Granted(b2)
<1>1. b.mover = At(t) /\ At(t + 1) \in {First, Second}
  BY PlayFacts, AtNext DEF At
<1>2. b1 \in Boards(line, t + 1, At(t + 1), W)
  BY FinishTurnPlays
<1>3. Concluded(b) = b3
  BY <1>1 DEF Concluded
<1> HIDE DEF b1, W
<1>4. /\ b2 \in Boards(line, t + 1, At(t + 1), W) /\ b2.team = b1.team /\ b2.lineup = line
      /\ b2.verdict = VerdictOf(Standing(b1, First), Standing(b1, Second))
  BY <1>2, WinnerIs
<1> HIDE DEF b2
<1>5. b3 \in Boards(line, t + 1, At(t + 1), W) /\ b3.team = b2.team /\ b3.lineup = b2.lineup /\ b3.verdict = b2.verdict
  BY <1>1, <1>4, GrantedIs
<1> HIDE DEF b3
<1>6. b1.lineup = line
  BY <1>2, BoardFacts
<1>7. /\ Standing(b3, First) <=> Standing(b1, First)
      /\ Standing(b3, Second) <=> Standing(b1, Second)
  BY <1>4, <1>5, <1>6, StandingSame
<1>8. CheckWinner(b3).verdict = VerdictOf(Standing(b3, First), Standing(b3, Second))
  BY <1>5, WinnerIs
<1>9. Judged(b3)
  BY <1>4, <1>5, <1>7, <1>8 DEF Judged, VerdictOf
<1> QED BY <1>3, <1>5, <1>9 DEF Between, W

\* A turn begins as the one before left the board.
LEMMA TurnBegins ==
    ASSUME NEW line, NEW t, NEW p, NEW b, b \in Boards(line, t, p, Rests(line, t))
    PROVE  b \in Play(line, t, p)
<1>1. \A c \in ToSet(line) : b.team[c] \in Rests(line, t)[c]
  BY BoardFacts
<1>2. \A c \in ToSet(line) : b.team[c] \in Playing(line, t)[c]
  BY <1>1 DEF Rests, Ready, Playing
<1> DEFINE W == Rests(line, t)
           W1 == Playing(line, t)
<1> HIDE DEF W, W1
<1>3. b \in Boards(line, t, p, W1)
  BY <1>2, BoardIn DEF W, W1
<1> QED BY <1>3 DEF Play, W1

LEMMA NewcomerIs ==
    ASSUME NEW m, NEW c \in Character
    PROVE  Newcomer(c) \in Ready(m, c, 1)
<1> DEFINE x == Newcomer(c)
           S == StatusSet(m, c, 1, "play")
<1>1. x = [hp |-> MaxHp, alive |-> TRUE, acted |-> FALSE, reduced |-> 0, awake |-> FALSE,
           statuses |-> <<>>, swap |-> [k \in Base[c] |-> k], cool |-> <<>>]
  BY DEF Newcomer
<1>2. MaxHp \in 0 .. MaxHp /\ MaxHp > 0 /\ Base[c] \subseteq DOMAIN Skill
  BY CombatAssumption
<1>3. <<>> \in Cools
  <2>1. {} \in SUBSET DOMAIN Skill /\ <<>> \in [{} -> Int]
    OBVIOUS
  <2> QED BY <2>1 DEF Cools
<1>4. <<>> \in Seq(S)
  OBVIOUS
<1>5. [k \in Base[c] |-> k] \in [Base[c] -> DOMAIN Skill]
  BY <1>2
<1>6. x \in FighterShape(m, c, 1, "play")
  <2> HIDE DEF S
  <2>1. x \in [hp : 0 .. MaxHp, alive : BOOLEAN, acted : BOOLEAN, reduced : Int, awake : BOOLEAN,
               statuses : Seq(S), swap : [Base[c] -> DOMAIN Skill], cool : Cools]
    BY <1>1, <1>2, <1>3, <1>4, <1>5
  <2> QED BY <2>1 DEF FighterShape, S
<1>7. Single(x.statuses)
  BY <1>1 DEF Single
<1>8. Backed(x.statuses, x.swap)
  BY <1>1 DEF Backed
<1>9. (x.alive <=> x.hp > 0) /\ ~x.acted /\ x.reduced = 0
  BY <1>1, <1>2
<1> HIDE DEF x
<1> QED BY <1>6, <1>7, <1>8, <1>9 DEF Fighters, Ready, x

LEMMA FirstBoard ==
    ASSUME NEW line \in Lineups,
           battle = [lineup |-> line, team |-> [c \in ToSet(line) |-> Newcomer(c)],
                     energy |-> [p \in {First, Second} |-> IF p = First THEN 1 ELSE 0],
                     converted |-> FALSE, turn |-> 1, mover |-> First, verdict |-> Open]
    PROVE  Between(battle, line, 1)
<1> DEFINE W == Rests(line, 1)
           team == [c \in ToSet(line) |-> Newcomer(c)]
           energy == [p \in {First, Second} |-> IF p = First THEN 1 ELSE 0]
<1>1. At(1) = First
  BY DEF At
<1>2. \A c \in ToSet(line) : team[c] \in W[c]
  BY NewcomerIs, LineFacts DEF Rests
<1>3. energy \in [{First, Second} -> Nat]
  OBVIOUS
<1>4. battle.lineup = line /\ battle.team = team /\ battle.verdict = Open /\ battle.mover = First
  OBVIOUS
<1>5. team \in [ToSet(line) -> UNION {W[c] : c \in ToSet(line)}]
  <2> DEFINE n(c) == Newcomer(c)
  <2> HIDE DEF W, n
  <2> QED BY <1>2
<1>6. battle \in Boards(line, 1, First, W)
  <2>1. battle = [lineup |-> line, team |-> team, energy |-> energy,
                  converted |-> FALSE, turn |-> 1, mover |-> First, verdict |-> Open]
    OBVIOUS
  <2> HIDE DEF W, team, energy
  <2>2. battle \in [lineup : {line}, team : [ToSet(line) -> UNION {W[c] : c \in ToSet(line)}],
            energy : [{First, Second} -> Nat], converted : BOOLEAN, turn : {1}, mover : {First},
            verdict : {Open, Draw, First, Second}]
    BY <1>3, <1>5, <2>1
  <2> QED BY <1>2, <1>4, <2>2 DEF Boards
<1>7. \A p \in {First, Second} : Standing(battle, p)
  <2> SUFFICES ASSUME NEW p \in {First, Second} PROVE Standing(battle, p)
    OBVIOUS
  <2>1. PICK i \in DOMAIN line : Side[line[i]] = p
    BY CombatAssumption
  <2>2. battle.team[line[i]].alive
    BY <1>4, LineFacts DEF Newcomer
  <2> QED BY <1>4, <2>1, <2>2 DEF Standing
<1>8. CheckWinner(battle).verdict = VerdictOf(Standing(battle, First), Standing(battle, Second))
  <2> HIDE DEF W
  <2> QED BY <1>6, WinnerIs
<1>9. Judged(battle)
  BY <1>4, <1>7, <1>8 DEF Judged, VerdictOf
<1> QED BY <1>1, <1>6, <1>9 DEF Between

-----------------------------------------------------------------------------
(* What is queued *)

\* Who stands is among the living.
LEMMA LivingStand ==
    ASSUME NEW line \in Lineups, NEW t, NEW b, b \in Play(line, t, At(t)), NEW p, Standing(b, p)
    PROVE  Living(b, p) # <<>>
<1> DEFINE m == ToSet(line)
           T == {c \in Character : Side[c] = p}
           A == {c \in DOMAIN b.team : b.team[c].alive}
           mm == Members(b, p)
           ll == Living(b, p)
<1>1. b.lineup = line /\ DOMAIN b.team = m /\ line \in Seq(m)
  BY PlayFacts, LineFacts
<1>2. mm = Only(line, T) /\ ll = Only(mm, A)
  BY <1>1 DEF Members, Living
<1>3. PICK i \in DOMAIN line : Side[line[i]] = p /\ b.team[line[i]].alive
  BY <1>1 DEF Standing
<1>4. line[i] \in T /\ line[i] \in A
  BY <1>1, <1>3, LineFacts
<1> HIDE DEF mm, ll, T, A, m
<1>5. mm \in Seq(m) /\ Picks(mm, line, T)
  BY <1>1, <1>2, OnlyIn
<1>6. PICK j \in DOMAIN mm : mm[j] = line[i]
  BY <1>4, <1>5 DEF Picks
<1>7. Picks(ll, mm, A)
  BY <1>2, <1>5, OnlyIn
<1>8. PICK k \in DOMAIN ll : ll[k] = mm[j]
  BY <1>4, <1>6, <1>7 DEF Picks
<1>9. ll # <<>>
  BY <1>8
<1> QED BY <1>9 DEF ll

LEMMA SomeAre ==
    ASSUME NEW S, NEW s \in Seq(S), NEW at \in Some(s)
    PROVE  at \in Seq(S) \ {<<>>}
<1>1. PICK n \in 1 .. Len(s) : at \in [1 .. n -> ToSet(s)]
  BY DEF Some
<1>2. ToSet(s) \subseteq S
  BY DEF ToSet
<1>3. n \in Nat \ {0} /\ DOMAIN at = 1 .. n
  BY <1>1
<1>4. at \in [1 .. n -> S]
  BY <1>1, <1>2
<1>5. at \in Seq(S) /\ Len(at) = n
  BY <1>3, <1>4
<1> QED BY <1>3, <1>5

LEMMA TargetsAre ==
    ASSUME NEW line \in Lineups, NEW t, NEW b, b \in Play(line, t, At(t)),
           Standing(b, First), Standing(b, Second), NEW by, by \in ToSet(line),
           NEW kind, kind \in {"self", "enemies", "allies", "enemy", "ally"}, NEW at, at \in Targets(b, by, kind)
    PROVE  at \in Seq(ToSet(line)) \ {<<>>}
<1> DEFINE m == ToSet(line)
           foes == Living(b, Other(Side[by]))
           mates == Living(b, Side[by])
<1>1. Side[by] \in {First, Second} /\ Other(Side[by]) \in {First, Second}
  BY LineFacts, CombatAssumption DEF Other
<1>2. b.lineup = line
  BY PlayFacts
<1>3. foes \in Seq(m) /\ mates \in Seq(m)
  BY <1>2, LivingIn
<1>4. at \in Some(foes) \/ at \in Some(mates) => at \in Seq(m) \ {<<>>}
  <2> HIDE DEF foes, mates, m
  <2> QED BY <1>3, SomeAre
<1>5. \/ at \in {<<by>>} \/ at \in Some(foes) \/ at \in Some(mates)
      \/ at \in {<<c>> : c \in ToSet(foes)} \/ at \in {<<c>> : c \in ToSet(mates)}
  BY DEF Targets
<1> HIDE DEF foes, mates, m
<1>6. \A c \in ToSet(foes) : c \in m
  BY <1>3 DEF ToSet
<1>7. \A c \in ToSet(mates) : c \in m
  BY <1>3 DEF ToSet
<1>8. \A c \in m : <<c>> \in Seq(m) \ {<<>>}
  OBVIOUS
<1>9. by \in m
  BY DEF m
<1> QED BY <1>3, <1>4, <1>5, <1>6, <1>7, <1>8, <1>9 DEF m

LEMMA ActionsAre ==
    ASSUME NEW line \in Lineups, NEW t, NEW b, b \in Play(line, t, At(t)),
           Standing(b, First), Standing(b, Second), NEW by, by \in ToSet(line), NEW a, a \in Actions(b, by)
    PROVE  a \in Queued(ToSet(line))
<1> DEFINE m == ToSet(line)
           x == b.team[by]
<1>1. x \in Fighters(m, by, t, "play") /\ by \in Character /\ DOMAIN b.team = m
  BY PlayFacts, LineFacts
<1>2. PICK k \in Base[by] :
         a \in [by : {by}, slot : {k}, at : Targets(b, by, Skill[x.swap[k]].kind), mark : {NoOne},
                alt : IF Redirecting(Skill[x.swap[k]]) THEN DOMAIN b.team ELSE {NoOne}]
  BY DEF Actions
<1> DEFINE id == x.swap[k]
           kind == Skill[id].kind
           alts == IF Redirecting(Skill[id]) THEN DOMAIN b.team ELSE {NoOne}
<1>3. id \in DOMAIN Skill /\ (id # k => ~Redirecting(Skill[k]))
  <2> HIDE DEF x, m
  <2> QED BY <1>1, SkillOfIs
<1>4. k \in DOMAIN Skill
  BY <1>1, CombatAssumption
<1>5. kind \in {"self", "enemies", "allies", "enemy", "ally"}
  <2> HIDE DEF id
  <2> QED BY <1>3, SkillFacts
<1> HIDE DEF kind
<1>6. a \in [by : {by}, slot : {k}, at : Targets(b, by, kind), mark : {NoOne}, alt : alts]
  BY <1>2 DEF kind
<1>7. alts \subseteq m \cup {NoOne} /\ (Redirecting(Skill[id]) => alts \subseteq m)
  BY <1>1
<1>8. \A at \in Targets(b, by, kind) : at \in Seq(m) \ {<<>>}
  BY <1>5, TargetsAre
<1> HIDE DEF alts, x
<1>9. a.by = by /\ a.slot = k /\ a.alt \in alts
  BY <1>6
<1>10. a \in Act(m)
  <2> DEFINE S == Seq(m) \ {<<>>}
             G == Targets(b, by, kind)
  <2>1. G \subseteq S
    BY <1>8
  <2>2. by \in m
    OBVIOUS
  <2> HIDE DEF S, G, m
  <2>3. a \in [by : m, slot : DOMAIN Skill, at : S, mark : m \cup {NoOne}, alt : m \cup {NoOne}]
    BY <1>4, <1>6, <1>7, <2>1, <2>2 DEF G
  <2> QED BY <2>3 DEF Act, S
<1>11. Redirecting(Skill[k]) => a.alt \in m
  BY <1>3, <1>7, <1>9
<1> QED BY <1>9, <1>10, <1>11 DEF Queued

LEMMA QueuesAre ==
    ASSUME NEW line \in Lineups, NEW t, NEW b, b \in Play(line, t, At(t)),
           Standing(b, First), Standing(b, Second), NEW q, q \in Queues(b)
    PROVE  q \in Seq(Queued(ToSet(line)))
<1> DEFINE m == ToSet(line)
           acts == UNION {{a \in Actions(b, c) : MayUse(b, a)} : c \in ToSet(Members(b, b.mover))}
<1>1. \A c \in ToSet(Members(b, b.mover)) : c \in m
  <2> DEFINE mm == Members(b, b.mover)
  <2>1. mm \in Seq(m)
    BY PlayFacts, LivingIn
  <2> HIDE DEF mm, m
  <2>2. \A c \in ToSet(mm) : c \in m
    BY <2>1 DEF ToSet
  <2> QED BY <2>2 DEF mm
<1>2. \A a \in acts : a \in Queued(m)
  BY <1>1, ActionsAre
<1>3. PICK n \in 1 .. MaxQueue : q \in [1 .. n -> acts]
  BY DEF Queues
<1> DEFINE S == Queued(m)
<1> HIDE DEF acts, S, m
<1>4. q \in Seq(S)
  <2>1. n \in Nat
    BY CombatAssumption
  <2>2. q \in [1 .. n -> S]
    BY <1>2, <1>3 DEF S
  <2> QED BY <2>1, <2>2, SeqDef
<1> QED BY <1>4 DEF S, m

LEMMA QueuePriceIsNumber ==
    ASSUME NEW line \in Lineups, NEW t, NEW b, b \in Play(line, t, At(t)),
           NEW q, q \in Seq(Queued(ToSet(line)))
    PROVE  QueuePrice(b, q) \in Int
<1> DEFINE S == Queued(ToSet(line))
<1>1. ASSUME NEW a, a \in S PROVE Price(b.team[a.by], Skill[SkillOf(b, a)]) \in Int
  <2> DEFINE c == a.by
             x == b.team[c]
             id == x.swap[a.slot]
             n == Total(x, "wild_delta")
  <2>1. c \in ToSet(line) /\ a.slot \in Base[c]
    BY <1>1 DEF Queued, Act
  <2>2. x \in Fighters(ToSet(line), c, t, "play")
    BY <2>1, PlayFacts
  <2>3. id \in DOMAIN Skill
    <3> DEFINE slot == a.slot
    <3>1. slot \in Base[c] /\ id = x.swap[slot]
      BY <2>1
    <3> HIDE DEF slot, x, id, c
    <3>2. x.swap \in [Base[c] -> DOMAIN Skill]
      BY <2>2, FighterFacts
    <3> QED BY <3>1, <3>2
  <2>4. n \in Int
    <3> HIDE DEF x
    <3> QED BY <2>2, TotalIsNumber DEF SumField
  <2>5. SkillOf(b, a) = id
    BY DEF SkillOf
  <2> HIDE DEF id, n, x, c
  <2>6. Skill[id].fixed \in Int /\ Skill[id].wild \in Int
    BY <2>3, SkillFacts
  <2> DEFINE w == Skill[id].wild + n
  <2>7. w \in Int
    BY <2>4, <2>6
  <2> HIDE DEF w
  <2>8. Max({0, w}) \in Int
    BY <2>7, MaxOfTwo
  <2>9. Price(x, Skill[id]) = Skill[id].fixed + Max({0, w})
    BY DEF Price, w, n
  <2>10. Price(x, Skill[id]) \in Int
    BY <2>6, <2>8, <2>9
  <2> QED BY <2>5, <2>10 DEF x, c
<1> HIDE DEF S
<1>2. \A v \in Int, i \in DOMAIN q : v + Price(b.team[q[i].by], Skill[SkillOf(b, q[i])]) \in Int
  <2> SUFFICES ASSUME NEW v \in Int, NEW i \in DOMAIN q
               PROVE  v + Price(b.team[q[i].by], Skill[SkillOf(b, q[i])]) \in Int
    OBVIOUS
  <2>1. q[i] \in S
    BY DEF S
  <2>2. Price(b.team[q[i].by], Skill[SkillOf(b, q[i])]) \in Int
    BY <1>1, <2>1
  <2> QED BY <2>2
<1>3. q \in Seq(S) /\ 0 \in Int
  BY DEF S
<1> QED BY <1>2, <1>3, PriceStays

-----------------------------------------------------------------------------
(* The theorems *)

LEMMA EnergyIs ==
    ASSUME NEW line, NEW t, NEW p, NEW W, NEW b, b \in Boards(line, t, p, W), NEW q, q \in {First, Second},
           NEW n, n \in Nat
    PROVE  WithEnergy(b, q, n) \in Boards(line, t, p, W) /\ WithEnergy(b, q, n).team = b.team
BY WithEnergyIs

LEMMA NextBetween ==
    ASSUME NEW line \in Lineups, NEW t, t \in 1 .. MaxTurn + 1, Between(battle, line, t), CombatNext
    PROVE  IInv'
<1> DEFINE p == At(t)
           W == Rests(line, t)
<1>1. /\ battle \in Boards(line, t, p, W) /\ t \in Nat /\ MaxTurn \in Nat /\ p \in {First, Second}
  <2>1. MaxTurn \in Nat
    BY CombatAssumption
  <2>2. t \in Nat
    BY <2>1
  <2>3. p \in {First, Second}
    BY DEF At
  <2> QED BY <2>1, <2>2, <2>3 DEF Between
<1>2. battle \in Play(line, t, p)
  BY <1>1, TurnBegins
<1>3. battle.mover = p /\ battle.turn = t /\ battle.energy \in [{First, Second} -> Nat] /\ battle.lineup = line
  BY <1>1 DEF Boards
<1>4. battle.verdict = Open => Standing(battle, First) /\ Standing(battle, Second)
  <2>1. battle.verdict = VerdictOf(Standing(battle, First), Standing(battle, Second))
    <3> HIDE DEF W, p
    <3> QED BY <1>1, WinnerIs DEF Between, Judged
  <2> QED BY <2>1, CombatAssumption DEF VerdictOf, Open, Draw
<1>5. ASSUME battle.turn <= MaxTurn, NEW b, b \in Play(line, t, p), battle' = Concluded(b) PROVE IInv'
  <2>1. Between(battle', line, t + 1)
    <3>1. Between(Concluded(b), line, t + 1)
      BY <1>1, <1>5, ConcludedIs
    <3> QED BY <1>5, <3>1
  <2>2. t + 1 \in 1 .. MaxTurn + 1
    BY <1>1, <1>3, <1>5
  <2>3. \E l \in Lineups, u \in 1 .. MaxTurn + 1 : Between(battle', l, u)
    BY <2>1, <2>2
  <2>4. IInv' <=> \E l \in Lineups, u \in 1 .. MaxTurn + 1 : Between(battle', l, u)
    BY DEF IInv, Between, Judged, CheckWinner, Standing
  <2> QED BY <2>3, <2>4
<1>6. CASE \E q \in Queues(battle) : ConfirmQueue(q)
  <2>1. PICK q \in Queues(battle) : ConfirmQueue(q)
    BY <1>6
  <2> DEFINE n == battle.energy[p] - QueuePrice(battle, q)
             b == WithEnergy(battle, p, n)
             b1 == Resolved(b, q)
  <2>2. battle.verdict = Open /\ battle.turn <= MaxTurn /\ QueuePrice(battle, q) <= battle.energy[p]
    BY <1>3, <2>1 DEF ConfirmQueue, MayQueue
  <2>3. q \in Seq(Queued(ToSet(line)))
    BY <1>2, <1>4, <2>2, QueuesAre
  <2>4. n \in Nat
    <3>1. QueuePrice(battle, q) \in Int
      BY <1>2, <2>3, QueuePriceIsNumber
    <3>2. battle.energy[p] \in Nat
      BY <1>1, <1>3
    <3> QED BY <2>2, <3>1, <3>2
  <2>5. battle' = Concluded(b1)
    BY <1>3, <2>1 DEF ConfirmQueue, WithEnergy
  <2> HIDE DEF n, p
  <2>6. b \in Play(line, t, p)
    BY <1>1, <1>2, <2>4, EnergyPlays
  <2> HIDE DEF b
  <2>7. b1 \in Play(line, t, p)
    BY <1>1, <2>3, <2>6, ResolvedPlays
  <2> HIDE DEF b1
  <2> QED BY <1>5, <2>2, <2>5, <2>7
<1>7. CASE EndTurn
  BY <1>2, <1>5, <1>7 DEF EndTurn
<1>8. CASE ConvertEnergy
  <2> DEFINE n == battle.energy[p] - Sources + 1
             b == WithEnergy(battle, p, n)
             w == [b EXCEPT !.converted = TRUE]
  <2>1. n \in Nat
    <3>1. battle.energy[p] \in Nat /\ Sources \in Nat /\ battle.energy[p] >= Sources
      BY <1>1, <1>3, <1>8, CombatAssumption DEF ConvertEnergy
    <3> QED BY <3>1
  <2>2. battle' = w
    BY <1>3, <1>8 DEF ConvertEnergy, WithEnergy
  <2>3. /\ b \in Boards(line, t, p, W) /\ b.team = battle.team /\ b.lineup = line /\ b.verdict = battle.verdict
    <3>1. b.lineup = line /\ b.verdict = battle.verdict
      <4> HIDE DEF n
      <4> QED BY <1>1 DEF WithEnergy, Boards
    <3> HIDE DEF n, W, p
    <3>2. b \in Boards(line, t, p, W) /\ b.team = battle.team
      BY <1>1, <2>1, EnergyIs
    <3> QED BY <3>1, <3>2
  <2> HIDE DEF b, W
  <2>4. w \in Boards(line, t, p, W) /\ w.team = b.team /\ w.lineup = b.lineup /\ w.verdict = b.verdict
    <3>1. /\ b \in [lineup : {line}, team : [ToSet(line) -> UNION {W[c] : c \in ToSet(line)}],
                    energy : [{First, Second} -> Nat], converted : BOOLEAN, turn : {t}, mover : {p},
                    verdict : {Open, Draw, First, Second}]
          /\ \A c \in ToSet(line) : b.team[c] \in W[c]
      BY <2>3 DEF Boards
    <3>2. /\ w \in [lineup : {line}, team : [ToSet(line) -> UNION {W[c] : c \in ToSet(line)}],
                    energy : [{First, Second} -> Nat], converted : BOOLEAN, turn : {t}, mover : {p},
                    verdict : {Open, Draw, First, Second}]
          /\ w.team = b.team /\ w.lineup = b.lineup /\ w.verdict = b.verdict
      BY <3>1
    <3> HIDE DEF w
    <3> QED BY <3>1, <3>2 DEF Boards
  <2> HIDE DEF w
  <2>5. Judged(w)
    <3>1. CheckWinner(w).verdict = VerdictOf(Standing(w, First), Standing(w, Second))
      BY <2>4, WinnerIs
    <3>2. CheckWinner(battle).verdict = VerdictOf(Standing(battle, First), Standing(battle, Second))
      BY <1>1, WinnerIs
    <3>3. /\ Standing(w, First) <=> Standing(battle, First)
          /\ Standing(w, Second) <=> Standing(battle, Second)
      BY <1>3, <2>3, <2>4, StandingSame
    <3>4. battle.verdict = CheckWinner(battle).verdict
      BY DEF Between, Judged
    <3> QED BY <2>3, <2>4, <3>1, <3>2, <3>3, <3>4 DEF Judged, VerdictOf
  <2>6. Between(battle', line, t)
    <3>1. Between(w, line, t)
      BY <2>4, <2>5 DEF Between, W
    <3> QED BY <2>2, <3>1
  <2>7. \E l \in Lineups, u \in 1 .. MaxTurn + 1 : Between(battle', l, u)
    BY <2>6
  <2>8. IInv' <=> \E l \in Lineups, u \in 1 .. MaxTurn + 1 : Between(battle', l, u)
    BY DEF IInv, Between, Judged, CheckWinner, Standing
  <2> QED BY <2>7, <2>8
<1> QED BY <1>6, <1>7, <1>8 DEF CombatNext

\* Every board between two turns, and the one the battle ends on, is made of
\* fighters whose statuses are on time and whose replaced slots are backed, and
\* its verdict is what check_winner says of it.
THEOREM CombatInvariant == CombatSpec => []IInv
<1>1. CombatInit => IInv
  <2> SUFFICES ASSUME CombatInit PROVE IInv
    OBVIOUS
  <2>1. PICK line \in Lineups :
          battle = [lineup |-> line, team |-> [c \in ToSet(line) |-> Newcomer(c)],
                    energy |-> [p \in {First, Second} |-> IF p = First THEN 1 ELSE 0],
                    converted |-> FALSE, turn |-> 1, mover |-> First, verdict |-> Open]
    BY DEF CombatInit
  <2>2. Between(battle, line, 1)
    BY <2>1, FirstBoard
  <2>3. 1 \in 1 .. MaxTurn + 1
    BY CombatAssumption
  <2> QED BY <2>2, <2>3 DEF IInv
<1>2. IInv /\ [CombatNext]_combatVars => IInv'
  <2> SUFFICES ASSUME IInv, [CombatNext]_combatVars PROVE IInv'
    OBVIOUS
  <2>1. CASE CombatNext
    <3>1. PICK line \in Lineups, t \in 1 .. MaxTurn + 1 : Between(battle, line, t)
      BY DEF IInv
    <3> QED BY <2>1, <3>1, NextBetween
  <2>2. CASE UNCHANGED combatVars
    BY <2>2 DEF combatVars, IInv, Between, Judged, CheckWinner, Standing
  <2> QED BY <2>1, <2>2
<1> QED BY <1>1, <1>2, PTL DEF CombatSpec

\* What is inside every board between two turns.
LEMMA BetweenFacts ==
    ASSUME NEW line \in Lineups, NEW t, t \in 1 .. MaxTurn + 1, Between(battle, line, t)
    PROVE  /\ battle.turn = t /\ battle.lineup = line /\ DOMAIN battle.team = ToSet(line)
           /\ battle.energy \in [{First, Second} -> Nat] /\ battle.verdict \in {Open, Draw, First, Second}
           /\ battle.verdict = VerdictOf(Standing(battle, First), Standing(battle, Second))
           /\ \A c \in ToSet(line) : /\ battle.team[c] \in Fighters(ToSet(line), c, t, "play")
                                     /\ ~battle.team[c].acted /\ battle.team[c].reduced = 0
<1> DEFINE W == Rests(line, t)
           p == At(t)
<1>1. battle \in Boards(line, t, p, W)
  BY DEF Between
<1>2. /\ battle.turn = t /\ battle.lineup = line /\ DOMAIN battle.team = ToSet(line)
      /\ battle.energy \in [{First, Second} -> Nat] /\ battle.verdict \in {Open, Draw, First, Second}
      /\ \A c \in ToSet(line) : battle.team[c] \in W[c]
  BY <1>1 DEF Boards
<1>3. battle.verdict = VerdictOf(Standing(battle, First), Standing(battle, Second))
  <2> HIDE DEF W, p
  <2> QED BY <1>1, WinnerIs DEF Between, Judged
<1>4. \A c \in ToSet(line) : battle.team[c] \in Ready(ToSet(line), c, t)
  BY <1>2 DEF Rests
<1> HIDE DEF W
<1> QED BY <1>2, <1>3, <1>4 DEF Ready

LEMMA TypeHolds == IInv => CombatTypeOK
<1> SUFFICES ASSUME IInv PROVE CombatTypeOK
  OBVIOUS
<1>1. PICK line \in Lineups, t \in 1 .. MaxTurn + 1 : Between(battle, line, t)
  BY DEF IInv
<1>2. /\ battle.turn = t /\ DOMAIN battle.team = ToSet(line)
      /\ battle.energy \in [{First, Second} -> Nat] /\ battle.verdict \in {Open, Draw, First, Second}
  BY <1>1, BetweenFacts
<1>3. ASSUME NEW c \in ToSet(line)
      PROVE  /\ battle.team[c].hp \in 0 .. MaxHp /\ ~battle.team[c].acted /\ battle.team[c].reduced = 0
             /\ \A i \in DOMAIN battle.team[c].statuses :
                   /\ battle.team[c].statuses[i].id \in DOMAIN Kind /\ battle.team[c].statuses[i].left # 0
                   /\ battle.team[c].statuses[i].defense \in Nat
  <2> DEFINE x == battle.team[c]
             F == Fighters(ToSet(line), c, t, "play")
             S == StatusSet(ToSet(line), c, t, "play")
  <2>1. x \in F /\ ~x.acted /\ x.reduced = 0
    BY <1>1, BetweenFacts
  <2> HIDE DEF x
  <2>2. x.hp \in 0 .. MaxHp /\ x.statuses \in Seq(S)
    BY <2>1, FighterFacts
  <2>3. \A s \in S : s.id \in DOMAIN Kind /\ s.left # 0 /\ s.defense \in Nat
    BY StatusFacts DEF OnTime
  <2> HIDE DEF S
  <2>4. \A i \in DOMAIN x.statuses : x.statuses[i] \in S
    BY <2>2
  <2> QED BY <2>1, <2>2, <2>3, <2>4 DEF x
<1> QED BY <1>2, <1>3 DEF CombatTypeOK

LEMMA VerdictHolds == IInv => VerdictMatchesBoard
<1> SUFFICES ASSUME IInv PROVE VerdictMatchesBoard
  OBVIOUS
<1>1. PICK line \in Lineups, t \in 1 .. MaxTurn + 1 : Between(battle, line, t)
  BY DEF IInv
<1>2. /\ DOMAIN battle.team = ToSet(line)
      /\ battle.verdict = VerdictOf(Standing(battle, First), Standing(battle, Second))
  BY <1>1, BetweenFacts
<1>3. ASSUME NEW c \in ToSet(line) PROVE battle.team[c].alive <=> battle.team[c].hp > 0
  <2> DEFINE x == battle.team[c]
  <2>1. x \in Fighters(ToSet(line), c, t, "play")
    BY <1>1, BetweenFacts
  <2> HIDE DEF x
  <2>2. x.alive <=> x.hp > 0
    BY <2>1, FighterFacts
  <2> QED BY <2>2 DEF x
<1>4. First # Second /\ First # Open /\ First # Draw /\ Second # Open /\ Second # Draw /\ Open # Draw
  BY CombatAssumption DEF Open, Draw
<1>5. /\ battle.verdict = First <=> Standing(battle, First) /\ ~Standing(battle, Second)
      /\ battle.verdict = Second <=> Standing(battle, Second) /\ ~Standing(battle, First)
      /\ battle.verdict = Open <=> Standing(battle, First) /\ Standing(battle, Second)
  BY <1>2, <1>4 DEF VerdictOf
<1>6. Other(First) = Second /\ Other(Second) = First
  BY <1>4 DEF Other
<1> QED BY <1>2, <1>3, <1>5, <1>6 DEF VerdictMatchesBoard

LEMMA TimeHolds ==
    ASSUME NEW m, NEW c, NEW u \in Nat, battle.turn = u, battle.team[c] \in Fighters(m, c, u, "play")
    PROVE  StatusKeepsTime(c)
<1> DEFINE x == battle.team[c]
           S == StatusSet(m, c, u, "play")
           spent(s) == Cardinality({t \in s.born + 1 .. battle.turn - 1 :
                          CASE s.clock = "source" -> (IF t % 2 = 1 THEN First ELSE Second) = Side[s.by]
                            [] s.clock = "target" -> (IF t % 2 = 1 THEN First ELSE Second) = Side[c]
                            [] s.clock = "round"  -> (IF t % 2 = 1 THEN First ELSE Second) = Second
                            [] OTHER -> TRUE})
<1>1. \A s : spent(s) = Elapsed(s, c, u)
  BY DEF Elapsed, Counts, At
<1>2. x.statuses \in Seq(S)
  <2> HIDE DEF x
  <2>1. x \in Fighters(m, c, u, "play")
    BY DEF x
  <2> QED BY <2>1, FighterFacts
<1>3. \A s \in S : s.born > 0 /\ s.full > 0 => s.left = s.full - Elapsed(s, c, u)
  BY StatusFacts DEF OnTime
<1>4. StatusKeepsTime(c) <=>
         \A i \in DOMAIN x.statuses :
            x.statuses[i].born > 0 /\ x.statuses[i].full > 0 => x.statuses[i].left = x.statuses[i].full - spent(x.statuses[i])
  BY DEF StatusKeepsTime
<1> HIDE DEF spent, S, x
<1>5. \A i \in DOMAIN x.statuses : x.statuses[i] \in S
  BY <1>2
<1> QED BY <1>1, <1>3, <1>4, <1>5

LEMMA ReplacementHolds ==
    ASSUME NEW m, NEW c, NEW u, battle.team[c] \in Fighters(m, c, u, "play")
    PROVE  ReplacementIsBacked(c)
<1> DEFINE x == battle.team[c]
<1> SUFFICES ASSUME NEW k \in DOMAIN x.swap
             PROVE  /\ x.swap[k] # k => \E i \in DOMAIN x.statuses :
                          Backs(x.statuses[i], k) /\ Kind[x.statuses[i].id].swap[k] = x.swap[k]
                    /\ (\E i \in DOMAIN x.statuses : Backs(x.statuses[i], k)) => x.swap[k] # k
  BY DEF ReplacementIsBacked, Backs
<1>1. x \in Fighters(m, c, u, "play")
  OBVIOUS
<1> HIDE DEF x
<1>2. Backed(x.statuses, x.swap) /\ \A i \in DOMAIN x.statuses : x.statuses[i].id \in DOMAIN Kind
  BY <1>1, FighterFacts, StatusFacts
<1>3. ASSUME NEW i \in DOMAIN x.statuses, Backs(x.statuses[i], k)
      PROVE  x.swap[k] = Kind[x.statuses[i].id].swap[k] /\ x.swap[k] # k
  <2> DEFINE id == x.statuses[i].id
  <2>1. id \in DOMAIN Kind /\ k \in DOMAIN Kind[id].swap /\ Replacing(id)
    BY <1>2, <1>3 DEF Backs, Replacing
  <2>2. x.swap[k] = Kind[id].swap[k]
    BY <1>2, <1>3 DEF Backed
  <2> HIDE DEF id
  <2>3. Kind[id].swap[k] # k
    BY <2>1, ReplacementAssumption
  <2> QED BY <2>2, <2>3 DEF id
<1>4. x.swap[k] # k => \E i \in DOMAIN x.statuses : Backs(x.statuses[i], k)
  BY <1>2 DEF Backed
<1> QED BY <1>3, <1>4

LEMMA StatusesHold == IInv => StatusesAreTrue
<1> SUFFICES ASSUME IInv PROVE StatusesAreTrue
  OBVIOUS
<1>1. PICK line \in Lineups, t \in 1 .. MaxTurn + 1 : Between(battle, line, t)
  BY DEF IInv
<1>2. battle.turn = t /\ t \in Nat /\ DOMAIN battle.team = ToSet(line)
  BY <1>1, BetweenFacts
<1>3. ASSUME NEW c \in ToSet(line) PROVE StatusKeepsTime(c) /\ ReplacementIsBacked(c)
  <2>1. battle.team[c] \in Fighters(ToSet(line), c, t, "play")
    BY <1>1, BetweenFacts
  <2> QED BY <1>2, <2>1, TimeHolds, ReplacementHolds
<1> QED BY <1>2, <1>3 DEF StatusesAreTrue

\* Between turns hit points are between none and the maximum, no energy is owed,
\* the marks of the turn are cleared and no status that ended is left, whatever
\* was queued (finish_turn, tick_statuses, validate_queue_energy).
THEOREM CombatTypeCorrect == CombatSpec => []CombatTypeOK
BY CombatInvariant, TypeHolds, PTL

\* check_winner comes last: the battle goes on exactly while both sides stand, the
\* one that stands alone has won, and nobody is down with hit points left; after
\* any queue, poison, retaliation or price in blood.
THEOREM VerdictAlwaysMatchesBoard == CombatSpec => []VerdictMatchesBoard
BY CombatInvariant, VerdictHolds, PTL

\* A status that a skill applied lasts as many of its clock's turns as it was given
\* for, stacked and extended or not (should_tick_status, tick_statuses), and a
\* slot is replaced exactly while a status that has the stacks for it is there
\* (_apply_status_side_effects, _remove_status_side_effects).
THEOREM StatusesAreAlwaysTrue == CombatSpec => []StatusesAreTrue
BY CombatInvariant, StatusesHold, PTL

=============================================================================
