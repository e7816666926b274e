-------------------------- MODULE HostProxyProofs --------------------------
(***************************************************************************)
(* Proofs about HostProxy: the answers of the cache, the consistency of    *)
(* its two structures, the choice of the host, the uniqueness of hosts and *)
(* the rotation of targets.                                                *)
(***************************************************************************)
EXTENDS HostProxy, WellFoundedInduction, FiniteSetTheorems, TLAPS

(* Induction for sets of numbers, from the well-foundedness of <.          *)
LEMMA LeastNat ==
  ASSUME NEW S, S \subseteq Nat, S # {}
  PROVE  \E n \in S : \A m \in S : n <= m
<1> DEFINE R == OpToRel(<, Nat)
<1>1. IsWellFoundedOn(R, Nat)
  BY NatLessThanWellFounded, Zenon
<1>2. \A x, y \in Nat : x < y => <<x, y>> \in R
  BY DEF OpToRel
<1> HIDE DEF R
<1>3. PICK n \in S : \A m \in S : ~(<<m, n>> \in R)
  BY <1>1, WFMin, Zenon
<1>4. ASSUME NEW m \in S
      PROVE  n <= m
  <2>1. m \in Nat /\ n \in Nat
    OBVIOUS
  <2>2. ~(m < n)
    BY <2>1, <1>2, <1>3, Zenon
  <2> QED BY <2>1, <2>2
<1> QED BY <1>4

LEMMA NatInSet ==
  ASSUME NEW S, 0 \in S, \A n \in Nat : n \in S => n + 1 \in S
  PROVE  \A n \in Nat : n \in S
<1> DEFINE B == Nat \ S
<1> SUFFICES ASSUME B # {}
             PROVE  FALSE
  OBVIOUS
<1>1. PICK n \in B : \A m \in B : n <= m
  BY LeastNat, Zenon
<1>2. n # 0 /\ n - 1 \in Nat /\ n - 1 \in S
  BY <1>1
<1> QED BY <1>2

(* A loop of n rounds has a value after each of them: what the recursive   *)
(* functions of the models are defined by.                                 *)
Loops(f, n, T, b, G) ==
  /\ f \in [0..n -> T] /\ f[0] = b
  /\ \A i \in 1..n : f[i] = G[i][f[i - 1]]

LEMMA LoopExists ==
  ASSUME NEW n \in Nat, NEW T, NEW b \in T, NEW G \in [1..n -> [T -> T]]
  PROVE  \E f : Loops(f, n, T, b, G)
<1> DEFINE D == {m \in Nat : m <= n => \E f : Loops(f, m, T, b, G)}
<1>1. 0 \in D
  <2>1. Loops([i \in 0..0 |-> b], 0, T, b, G)
    BY DEF Loops
  <2> QED BY <2>1
<1>2. ASSUME NEW k \in Nat, k \in D
      PROVE  k + 1 \in D
  <2> SUFFICES ASSUME k + 1 <= n
               PROVE  \E f : Loops(f, k + 1, T, b, G)
    OBVIOUS
  <2>1. PICK f : Loops(f, k, T, b, G)
    BY <1>2
  <2>2. G[k + 1] \in [T -> T] /\ f[k] \in T
    BY <2>1 DEF Loops
  <2> DEFINE g == [i \in 0..(k + 1) |-> IF i = k + 1 THEN G[k + 1][f[k]] ELSE f[i]]
  <2>3. g \in [0..(k + 1) -> T] /\ g[0] = b
    BY <2>1, <2>2 DEF Loops
  <2>4. ASSUME NEW i \in 1..(k + 1)
        PROVE  g[i] = G[i][g[i - 1]]
    <3>1. g[i - 1] = f[i - 1]
      OBVIOUS
    <3>2. CASE i = k + 1
      BY <3>1, <3>2
    <3>3. CASE i # k + 1
      <4>1. i \in 1..k /\ g[i] = f[i]
        BY <3>3
      <4> QED BY <4>1, <3>1, <2>1, Zenon DEF Loops
    <3> QED BY <3>2, <3>3, Zenon
  <2> HIDE DEF g
  <2>5. Loops(g, k + 1, T, b, G)
    BY <2>3, <2>4 DEF Loops
  <2> QED BY <2>5
<1> HIDE DEF D
<1>3. n \in D
  BY <1>1, <1>2, NatInSet
<1> QED BY <1>3 DEF D

-----------------------------------------------------------------------------
(* A finite list of numbers is bounded, and a bounded set of numbers has a *)
(* greatest one.                                                           *)
LEMMA ListBounded ==
  ASSUME NEW n \in Nat, NEW f \in [1..n -> Nat]
  PROVE  \E u \in Nat : \A i \in 1..n : f[i] <= u
<1> DEFINE D == {k \in Nat : k <= n => \E u \in Nat : \A i \in 1..k : f[i] <= u}
<1>1. 0 \in D
  OBVIOUS
<1>2. ASSUME NEW k \in Nat, k \in D
      PROVE  k + 1 \in D
  <2> SUFFICES ASSUME k + 1 <= n
               PROVE  \E u \in Nat : \A i \in 1..(k + 1) : f[i] <= u
    OBVIOUS
  <2>1. PICK u \in Nat : \A i \in 1..k : f[i] <= u
    BY <1>2
  <2> DEFINE v == IF f[k + 1] <= u THEN u ELSE f[k + 1]
  <2>2. \A i \in 1..(k + 1) : f[i] \in Nat
    OBVIOUS
  <2>3. v \in Nat /\ \A i \in 1..(k + 1) : f[i] <= v
    BY <2>1, <2>2
  <2> QED BY <2>3, Zenon
<1> HIDE DEF D
<1>3. n \in D
  BY <1>1, <1>2, NatInSet, Zenon
<1> QED BY <1>3 DEF D

LEMMA HasGreatest ==
  ASSUME NEW S, S \subseteq Nat, S # {}, NEW b \in Nat, \A x \in S : x <= b
  PROVE  \E x \in S : \A y \in S : x >= y
<1> DEFINE U == {u \in Nat : \A x \in S : x <= u}
<1>1. U # {}
  OBVIOUS
<1>2. PICK u \in U : \A v \in U : u <= v
  BY <1>1, LeastNat, Zenon
<1>3. u \in S
  <2> SUFFICES ASSUME u \notin S
               PROVE  FALSE
    OBVIOUS
  <2>1. \A x \in S : x \in Nat /\ x <= u /\ x # u
    OBVIOUS
  <2>2. u # 0
    <3>1. PICK x : x \in S
      OBVIOUS
    <3> QED BY <2>1, <3>1
  <2>3. u - 1 \in U
    BY <2>1, <2>2
  <2> QED BY <1>2, <2>3
<1> QED BY <1>3

-----------------------------------------------------------------------------
(* Sequences.                                                              *)
LEMMA SeqNil == \A S : <<>> \in Seq(S) /\ Len(<<>>) = 0
OBVIOUS

LEMMA SeqLen ==
  ASSUME NEW S, NEW s \in Seq(S)
  PROVE  Len(s) \in Nat /\ DOMAIN s = 1..Len(s) /\ s \in [1..Len(s) -> S]
OBVIOUS

LEMMA SeqElem ==
  ASSUME NEW S, NEW s \in Seq(S), NEW i \in 1..Len(s)
  PROVE  s[i] \in S
OBVIOUS

LEMMA SeqPut ==
  ASSUME NEW S, NEW s \in Seq(S), NEW i \in 1..Len(s), NEW x \in S
  PROVE  /\ [s EXCEPT ![i] = x] \in Seq(S) /\ Len([s EXCEPT ![i] = x]) = Len(s)
         /\ \A j \in 1..Len(s) : [s EXCEPT ![i] = x][j] = IF j = i THEN x ELSE s[j]
OBVIOUS

LEMMA SeqJoin ==
  ASSUME NEW S, NEW s \in Seq(S), NEW z \in Seq(S)
  PROVE  /\ s \o z \in Seq(S) /\ Len(s \o z) = Len(s) + Len(z)
         /\ \A i \in 1..(Len(s) + Len(z)) :
              (s \o z)[i] = IF i <= Len(s) THEN s[i] ELSE z[i - Len(s)]
OBVIOUS

LEMMA SeqPart ==
  ASSUME NEW S, NEW s, NEW m \in Int, NEW n \in Int, \A i \in m..n : s[i] \in S
  PROVE  /\ SubSeq(s, m, n) \in Seq(S)
         /\ Len(SubSeq(s, m, n)) = IF m <= n THEN n - m + 1 ELSE 0
         /\ \A i \in 1..(n - m + 1) : SubSeq(s, m, n)[i] = s[m + i - 1]
OBVIOUS

(* Without(s, S) picks the positions m of s, in order, whose elements are  *)
(* not in S.                                                               *)
Picks(r, s, S, n, m) ==
  /\ m \in [1..Len(r) -> 1..n]
  /\ \A j \in 1..Len(r) : r[j] = s[m[j]] /\ r[j] \notin S
  /\ \A i, j \in 1..Len(r) : i < j => m[i] < m[j]
  /\ \A i \in 1..n : s[i] \notin S => \E j \in 1..Len(r) : m[j] = i

LEMMA WithoutLoop ==
  ASSUME NEW T, NEW s \in Seq(T), NEW S
  PROVE  \E f : /\ f[0] = <<>> /\ Without(s, S) = f[Len(s)]
                /\ \A i \in 1..Len(s) :
                     f[i] = IF s[i] \in S THEN f[i - 1] ELSE Append(f[i - 1], s[i])
<1> DEFINE n == Len(s)
           Def(f) == f = [i \in 0..n |->
                           IF i = 0 THEN <<>>
                           ELSE IF s[i] \in S THEN f[i - 1] ELSE Append(f[i - 1], s[i])]
           G == [i \in 1..n |-> [r \in Seq(T) |-> IF s[i] \in S THEN r ELSE Append(r, s[i])]]
<1>1. n \in Nat
  BY SeqLen
<1>2. G \in [1..n -> [Seq(T) -> Seq(T)]] /\ <<>> \in Seq(T)
  BY SeqElem
<1>3. PICK f : Loops(f, n, Seq(T), <<>>, G)
  <2> HIDE DEF n, G
  <2> QED BY <1>1, <1>2, LoopExists, Zenon
<1>4. \A i \in 0..n : f[i] = IF i = 0 THEN <<>>
                             ELSE IF s[i] \in S THEN f[i - 1] ELSE Append(f[i - 1], s[i])
  <2> TAKE i \in 0..n
  <2>1. CASE i = 0
    BY <2>1, <1>3 DEF Loops
  <2>2. CASE i # 0
    <3>1. i \in 1..n /\ i - 1 \in 0..n
      BY <2>2, <1>1
    <3> QED BY <3>1, <2>2, <1>3, Zenon DEF Loops
  <2> QED BY <2>1, <2>2
<1>5. Def(f)
  <2>1. f \in [0..n -> Seq(T)]
    BY <1>3 DEF Loops
  <2> QED BY <2>1, <1>4
<1>6. Def(CHOOSE g : Def(g))
  BY <1>5, Zenon
<1> DEFINE h == CHOOSE g : Def(g)
<1>7. Without(s, S) = h[n]
  BY DEF Without
<1>8. \A i \in 0..n : h[i] = IF i = 0 THEN <<>>
                             ELSE IF s[i] \in S THEN h[i - 1] ELSE Append(h[i - 1], s[i])
  BY <1>6, Zenon
<1> HIDE DEF h
<1>9. h[0] = <<>> /\ \A i \in 1..n : h[i] = IF s[i] \in S THEN h[i - 1] ELSE Append(h[i - 1], s[i])
  BY <1>1, <1>8
<1> QED BY <1>7, <1>9

LEMMA WithoutPicks ==
  ASSUME NEW T, NEW s \in Seq(T), NEW S
  PROVE  /\ Without(s, S) \in Seq(T)
         /\ \E m : Picks(Without(s, S), s, S, Len(s), m)
<1>1. PICK f : /\ f[0] = <<>> /\ Without(s, S) = f[Len(s)]
               /\ \A i \in 1..Len(s) :
                    f[i] = IF s[i] \in S THEN f[i - 1] ELSE Append(f[i - 1], s[i])
  BY WithoutLoop
<1> DEFINE D == {n \in Nat : n <= Len(s) =>
                   f[n] \in Seq(T) /\ \E m : Picks(f[n], s, S, n, m)}
<1>2. 0 \in D
  <2>1. Picks(<<>>, s, S, 0, <<>>) /\ <<>> \in Seq(T)
    BY DEF Picks
  <2>2. f[0] \in Seq(T) /\ Picks(f[0], s, S, 0, <<>>)
    BY <2>1, <1>1
  <2> QED BY <2>2
<1>3. ASSUME NEW k \in Nat, k \in D
      PROVE  k + 1 \in D
  <2> SUFFICES ASSUME k + 1 <= Len(s)
               PROVE  f[k + 1] \in Seq(T) /\ \E m : Picks(f[k + 1], s, S, k + 1, m)
    OBVIOUS
  <2>1. f[k] \in Seq(T) /\ s[k + 1] \in T
    BY <1>3
  <2>2. f[k + 1] = IF s[k + 1] \in S THEN f[k] ELSE Append(f[k], s[k + 1])
    BY <1>1, k + 1 \in 1..Len(s), k + 1 - 1 = k
  <2>3. PICK m : Picks(f[k], s, S, k, m)
    BY <1>3
  <2>4. CASE s[k + 1] \in S
    <3>1. Picks(f[k], s, S, k + 1, m)
      BY <2>1, <2>3, <2>4 DEF Picks
    <3> QED BY <3>1, <2>1, <2>2, <2>4
  <2>5. CASE s[k + 1] \notin S
    <3> DEFINE l == Len(f[k])
               q == Append(f[k], s[k + 1])
               w == [j \in 1..(l + 1) |-> IF j = l + 1 THEN k + 1 ELSE m[j]]
    <3>1. /\ l \in Nat /\ q \in Seq(T) /\ Len(q) = l + 1
          /\ q[l + 1] = s[k + 1] /\ \A j \in 1..l : q[j] = f[k][j]
      BY <2>1
    <3>2. /\ m \in [1..l -> 1..k] /\ \A j \in 1..l : f[k][j] = s[m[j]] /\ f[k][j] \notin S
          /\ \A i, j \in 1..l : i < j => m[i] < m[j]
          /\ \A i \in 1..k : s[i] \notin S => \E j \in 1..l : m[j] = i
      BY <2>3 DEF Picks
    <3>3. /\ w \in [1..(l + 1) -> 1..(k + 1)]
          /\ \A j \in 1..(l + 1) : q[j] = s[w[j]] /\ q[j] \notin S
      BY <3>1, <3>2, <2>5
    <3>4. ASSUME NEW i \in 1..(l + 1), NEW j \in 1..(l + 1), i < j
          PROVE  w[i] < w[j]
      <4>1. i \in 1..l /\ w[i] = m[i] /\ m[i] \in 1..k
        BY <3>1, <3>2, <3>4
      <4>2. CASE j = l + 1
        BY <4>1, <4>2
      <4>3. CASE j # l + 1
        <5>1. j \in 1..l
          BY <3>1, <4>3
        <5>2. w[j] = m[j] /\ m[j] \in 1..k
          BY <5>1, <3>2, <4>3, Zenon
        <5> QED BY <5>1, <5>2, <4>1, <3>2, <3>4, Zenon
      <4> QED BY <4>2, <4>3
    <3>5. ASSUME NEW i \in 1..(k + 1), s[i] \notin S
          PROVE  \E j \in 1..(l + 1) : w[j] = i
      <4>1. CASE i = k + 1
        <5>1. l + 1 \in 1..(l + 1) /\ w[l + 1] = i
          BY <4>1, <3>1
        <5> QED BY <5>1, Zenon
      <4>2. CASE i # k + 1
        <5>1. PICK j \in 1..l : m[j] = i
          BY <4>2, <3>2, <3>5
        <5>2. j \in 1..(l + 1) /\ w[j] = i
          BY <5>1, <3>1
        <5> QED BY <5>2
      <4> QED BY <4>1, <4>2, Zenon
    <3> HIDE DEF w, q, l
    <3>6. Picks(q, s, S, k + 1, w)
      BY <3>1, <3>3, <3>4, <3>5 DEF Picks
    <3>7. f[k + 1] = q
      BY <2>2, <2>5 DEF q
    <3> QED BY <3>1, <3>6, <3>7
  <2> QED BY <2>4, <2>5
<1> HIDE DEF D
<1>4. Len(s) \in D /\ Len(s) \in Nat
  BY <1>2, <1>3, NatInSet, SeqLen
<1> QED BY <1>1, <1>4 DEF D

-----------------------------------------------------------------------------
(* Targets: n selections in a row go once around the n targets.            *)
Cursors(f, live, cursor) ==
  /\ f[0] = cursor
  /\ \A k \in 1..Len(live) : f[k] = select_target(live, f[k - 1]).next

LEMMA Remainders ==
  ASSUME NEW n \in Nat, n > 0
  PROVE  /\ \A x \in Nat : x % n \in 0..(n - 1)
         /\ \A x \in 0..(n - 1) : x % n = x
         /\ n % n = 0
OBVIOUS

LEMMA CursorAt ==
  ASSUME NEW live \in Seq(STRING), NEW cursor \in Nat, NEW f, Cursors(f, live, cursor),
         Len(live) > 0
  PROVE  LET n == Len(live)
             c == cursor % n
         IN \A k \in 0..n :
              f[k] \in Nat /\ f[k] % n = IF c + k < n THEN c + k ELSE c + k - n
<1> DEFINE n == Len(live)
           c == cursor % n
           D == {k \in Nat : k <= n =>
                   f[k] \in Nat /\ f[k] % n = IF c + k < n THEN c + k ELSE c + k - n}
<1>1. n \in Nat /\ n > 0
  BY SeqLen
<1>2. c \in 0..(n - 1)
  BY <1>1, Remainders
<1>3. f[0] = cursor /\ \A k \in 1..n : f[k] = (f[k - 1] % n) + 1
  BY DEF Cursors, select_target
<1>4. 0 \in D
  BY <1>1, <1>2, <1>3
<1> HIDE DEF n, c
<1>5. ASSUME NEW k \in Nat, k \in D
      PROVE  k + 1 \in D
  <2> SUFFICES ASSUME k + 1 <= n
               PROVE  /\ f[k + 1] \in Nat
                      /\ f[k + 1] % n =
                           IF c + (k + 1) < n THEN c + (k + 1) ELSE c + (k + 1) - n
    OBVIOUS
  <2> DEFINE v == IF c + k < n THEN c + k ELSE c + k - n
  <2>1. f[k] \in Nat /\ f[k] % n = v
    BY <1>1, <1>5
  <2>2. v \in 0..(n - 1)
    BY <1>1, <1>2
  <2>3. f[k + 1] = v + 1
    BY <1>3, <2>1
  <2>4. CASE v + 1 = n
    <3>1. f[k + 1] % n = 0
      BY <1>1, <2>3, <2>4, Remainders
    <3> QED BY <1>1, <1>2, <2>2, <2>3, <2>4, <3>1
  <2>5. CASE v + 1 # n
    <3>1. v + 1 \in 0..(n - 1)
      BY <1>1, <2>2, <2>5
    <3>2. f[k + 1] % n = v + 1
      BY <1>1, <2>3, <3>1, Remainders
    <3> QED BY <1>1, <1>2, <2>2, <2>3, <2>5, <3>2
  <2> QED BY <2>4, <2>5, Zenon
<1> HIDE DEF D
<1>6. \A k \in Nat : k \in D
  BY <1>4, <1>5, NatInSet
<1>7. ASSUME NEW k \in 0..n
      PROVE  f[k] \in Nat /\ f[k] % n = IF c + k < n THEN c + k ELSE c + k - n
  BY <1>1, <1>6 DEF D
<1> QED BY <1>7 DEF n, c

LEMMA CursorsReachAll ==
  ASSUME NEW live \in Seq(STRING), NEW cursor \in Nat, NEW f, Cursors(f, live, cursor)
  PROVE  {select_target(live, f[k]).target : k \in 0..(Len(live) - 1)} = Range(live)
<1> DEFINE n == Len(live)
           c == cursor % n
           V == {select_target(live, f[k]).target : k \in 0..(n - 1)}
<1>1. n \in Nat /\ DOMAIN live = 1..n
  BY SeqLen
<1>2. CASE n = 0
  BY <1>1, <1>2 DEF Range
<1>3. CASE n # 0
  <2>1. n > 0 /\ c \in 0..(n - 1)
    BY <1>1, <1>3, Remainders
  <2>2. \A k \in 0..n : f[k] \in Nat /\ f[k] % n = IF c + k < n THEN c + k ELSE c + k - n
    BY <2>1, CursorAt
  <2>3. \A k \in 0..(n - 1) : select_target(live, f[k]).target = live[(f[k] % n) + 1]
    BY DEF select_target
  <2> HIDE DEF n, c
  <2>4. ASSUME NEW k \in 0..(n - 1)
        PROVE  live[(f[k] % n) + 1] \in Range(live)
    <3>1. (f[k] % n) + 1 \in 1..n
      BY <1>1, <2>1, <2>2
    <3> QED BY <1>1, <3>1, Zenon DEF Range
  <2>5. ASSUME NEW t \in Range(live)
        PROVE  \E k \in 0..(n - 1) : live[(f[k] % n) + 1] = t
    <3>1. PICK p \in 1..n : live[p] = t
      BY <1>1, Zenon DEF Range
    <3> DEFINE k == IF p - 1 >= c THEN p - 1 - c ELSE p - 1 - c + n
    <3>2. k \in 0..(n - 1) /\ p - 1 = IF c + k < n THEN c + k ELSE c + k - n
      BY <1>1, <2>1
    <3> HIDE DEF k
    <3>3. (f[k] % n) + 1 = p
      BY <1>1, <2>1, <2>2, <3>2
    <3> QED BY <3>1, <3>2, <3>3
  <2> QED BY <2>3, <2>4, <2>5 DEF n
<1> QED BY <1>2, <1>3, Zenon


LEMMA CursorsOf ==
  ASSUME NEW live \in Seq(STRING), NEW cursor \in Nat
  PROVE  LET at[k \in 0..Len(live)] ==
               IF k = 0 THEN cursor ELSE select_target(live, at[k - 1]).next
         IN Cursors(at, live, cursor)
<1> DEFINE n == Len(live)
           Def(f) == f = [k \in 0..n |->
                            IF k = 0 THEN cursor ELSE select_target(live, f[k - 1]).next]
           G == [k \in 1..n |-> [x \in Nat |-> (x % n) + 1]]
           at == CHOOSE g : Def(g)
<1>1. n \in Nat
  BY SeqLen
<1>2. ASSUME NEW k \in 1..n, NEW x \in Nat
      PROVE  (x % n) + 1 \in Nat
  BY <1>1, Remainders
<1>3. G \in [1..n -> [Nat -> Nat]]
  BY <1>2
<1>4. PICK f : Loops(f, n, Nat, cursor, G)
  <2> HIDE DEF n, G
  <2> QED BY <1>1, <1>3, LoopExists, Zenon
<1>5. f \in [0..n -> Nat] /\ f[0] = cursor
  BY <1>4 DEF Loops
<1>6. ASSUME NEW k \in 1..n
      PROVE  f[k] = select_target(live, f[k - 1]).next
  <2>1. f[k - 1] \in Nat
    BY <1>1, <1>5
  <2>2. f[k] = G[k][f[k - 1]]
    <3> HIDE DEF G
    <3> QED BY <1>4 DEF Loops
  <2>3. G[k][f[k - 1]] = (f[k - 1] % n) + 1
    BY <2>1
  <2> QED BY <2>2, <2>3, Zenon DEF select_target
<1>7. Def(f)
  <2>1. \A k \in 0..n : f[k] = IF k = 0 THEN cursor ELSE select_target(live, f[k - 1]).next
    BY <1>1, <1>5, <1>6
  <2> QED BY <1>5, <2>1
<1>8. Def(at)
  BY <1>7, Zenon
<1> HIDE DEF at
<1>9. \A k \in 0..n : at[k] = IF k = 0 THEN cursor ELSE select_target(live, at[k - 1]).next
  BY <1>8, Zenon
<1>10. Cursors(at, live, cursor)
  BY <1>1, <1>9 DEF Cursors
<1> QED BY <1>10 DEF at

-----------------------------------------------------------------------------
(* find_host_route.                                                        *)
MaybeRoutes == Routes \union {None}
Location(x) == Len(x.host.form.location)

(* A route that is at least as specific as n characters.                   *)
Reaches(x, n) == x # None /\ Location(x) >= n

LEMMA RouteToType ==
  ASSUME TypeOK, NEW cl \in Clients, NEW h \in HostRecords, NEW r, Candidate(cl, h, r)
  PROVE  RouteTo(cl, h) \in Routes /\ RouteTo(cl, h).host = h /\ RouteTo(cl, h) # None
<1> DEFINE l == Live(cl, h.form.targets)
<1>1. l # <<>> /\ l = Without(h.form.targets, masked[cl])
  BY DEF Candidate, Live
<1>2. h.form.targets \in Seq(STRING)
  BY DEF HostRecords, HostForms
<1>3. l \in Seq(STRING)
  BY <1>1, <1>2, WithoutPicks, Zenon
<1>4. Head(l) \in STRING
  BY <1>1, <1>3
<1>5. RouteTo(cl, h) = [cl |-> cl, host |-> h, target |-> Head(l)]
  BY DEF RouteTo
<1> HIDE DEF l
<1>6. RouteTo(cl, h) \in Routes
  BY <1>4, <1>5 DEF Routes
<1> QED BY <1>5, <1>6, HostAssumption

LEMMA LocationNat ==
  ASSUME NEW x \in Routes
  PROVE  Location(x) \in Nat
BY SeqLen DEF Routes, HostRecords, HostForms, Location

LEMMA BetterReaches ==
  ASSUME NEW x \in MaybeRoutes, NEW y \in Routes, y # None
  PROVE  /\ Better(x, y) \in MaybeRoutes /\ Better(x, y) \in {x, y}
         /\ Reaches(Better(x, y), Location(y))
         /\ x # None => Reaches(Better(x, y), Location(x))
<1>1. Location(y) \in Nat /\ (x # None => x \in Routes /\ Location(x) \in Nat)
  BY LocationNat DEF MaybeRoutes
<1>2. Better(x, y) = IF x = None \/ Location(y) > Location(x) THEN y ELSE x
  BY DEF Better, Location
<1>3. CASE x = None
  BY <1>1, <1>2, <1>3 DEF Reaches, MaybeRoutes
<1>4. CASE x # None
  BY <1>1, <1>2, <1>4 DEF Reaches, MaybeRoutes
<1> QED BY <1>3, <1>4, Zenon

LEMMA ReachesMore ==
  ASSUME NEW x \in MaybeRoutes, NEW n \in Nat, NEW m \in Nat, Reaches(x, m), n <= m
  PROVE  Reaches(x, n)
<1>1. x \in Routes /\ Location(x) \in Nat
  BY LocationNat DEF MaybeRoutes, Reaches
<1> QED BY <1>1 DEF Reaches

(* The loop over the hosts of a client: it returns what it was given or a  *)
(* route to one of the candidates, and one as specific as each of these.   *)
BestLoop(f, cl, r, old) ==
  /\ f \in [0..Len(hosts[cl]) -> MaybeRoutes] /\ f[0] = old
  /\ \A i \in 1..Len(hosts[cl]) :
       f[i] = IF Candidate(cl, hosts[cl][i], r)
              THEN Better(f[i - 1], RouteTo(cl, hosts[cl][i])) ELSE f[i - 1]

LEMMA BestOfLoops ==
  ASSUME TypeOK, NEW cl \in Clients, NEW r, NEW old \in MaybeRoutes
  PROVE  \E f : BestLoop(f, cl, r, old) /\ BestOf(cl, r, old) = f[Len(hosts[cl])]
<1> DEFINE n == Len(hosts[cl])
           Step(x, i) == IF Candidate(cl, hosts[cl][i], r)
                         THEN Better(x, RouteTo(cl, hosts[cl][i])) ELSE x
           Def(f) == f = [i \in 0..n |-> IF i = 0 THEN old ELSE Step(f[i - 1], i)]
           G == [i \in 1..n |-> [x \in MaybeRoutes |-> Step(x, i)]]
           h == CHOOSE g : Def(g)
<1>1. hosts[cl] \in Seq(HostRecords) /\ n \in Nat
  BY SeqLen DEF TypeOK
<1>2. ASSUME NEW i \in 1..n, NEW x \in MaybeRoutes
      PROVE  Step(x, i) \in MaybeRoutes
  <2>1. hosts[cl][i] \in HostRecords
    BY <1>1, SeqElem
  <2>2. CASE Candidate(cl, hosts[cl][i], r)
    <3>1. RouteTo(cl, hosts[cl][i]) \in Routes /\ RouteTo(cl, hosts[cl][i]) # None
      BY <2>1, <2>2, RouteToType, Zenon
    <3> QED BY <3>1, <2>2, BetterReaches, Zenon
  <2> QED BY <2>2, Zenon
<1>3. BestOf(cl, r, old) = h[n]
  BY DEF BestOf
<1> HIDE DEF Step
<1>4. G \in [1..n -> [MaybeRoutes -> MaybeRoutes]]
  BY <1>2
<1>5. PICK f : Loops(f, n, MaybeRoutes, old, G)
  <2> HIDE DEF n, G
  <2> QED BY <1>1, <1>4, LoopExists
<1>6. f \in [0..n -> MaybeRoutes] /\ f[0] = old
  BY <1>5 DEF Loops
<1>7. ASSUME NEW i \in 1..n
      PROVE  f[i] = Step(f[i - 1], i)
  <2>1. f[i - 1] \in MaybeRoutes
    BY <1>6, <1>1
  <2>2. f[i] = G[i][f[i - 1]]
    <3> HIDE DEF G
    <3> QED BY <1>5 DEF Loops
  <2>3. G[i][f[i - 1]] = Step(f[i - 1], i)
    BY <2>1
  <2> QED BY <2>2, <2>3
<1>8. Def(f)
  <2>1. \A i \in 0..n : f[i] = IF i = 0 THEN old ELSE Step(f[i - 1], i)
    BY <1>1, <1>6, <1>7
  <2> QED BY <2>1, <1>6
<1>9. Def(h)
  BY <1>8, Zenon
<1> HIDE DEF h
<1>10. \A i \in 0..n : h[i] = IF i = 0 THEN old ELSE Step(h[i - 1], i)
  BY <1>9, Zenon
<1>11. h = [i \in 0..n |-> h[i]] /\ f = [i \in 0..n |-> f[i]]
  BY <1>9, <1>6
<1>12. h = f
  <2> DEFINE D == {k \in Nat : k <= n => h[k] = f[k]}
  <2>1. 0 \in D
    BY <1>1, <1>6, <1>10
  <2>2. ASSUME NEW k \in Nat, k \in D
        PROVE  k + 1 \in D
    BY <2>2, <1>1, <1>7, <1>10
  <2> HIDE DEF D
  <2>3. \A k \in Nat : k \in D
    BY <2>1, <2>2, NatInSet
  <2>4. \A k \in 0..n : h[k] = f[k]
    BY <2>3, <1>1 DEF D
  <2> QED BY <2>4, <1>11
<1>13. \A i \in 1..n : f[i] = IF Candidate(cl, hosts[cl][i], r)
                              THEN Better(f[i - 1], RouteTo(cl, hosts[cl][i])) ELSE f[i - 1]
  BY <1>7, Zenon DEF Step
<1>14. BestLoop(f, cl, r, old)
  BY <1>6, <1>13, Zenon DEF BestLoop
<1> QED BY <1>3, <1>12, <1>14

CandidateAt(cl, i, r) == i \in 1..Len(hosts[cl]) /\ Candidate(cl, hosts[cl][i], r)
LocationAt(cl, i) == Len(hosts[cl][i].form.location)

LEMMA BestOfIsBest ==
  ASSUME TypeOK, NEW cl \in Clients, NEW r, NEW old \in MaybeRoutes
  PROVE  /\ BestOf(cl, r, old) \in MaybeRoutes
         /\ \/ BestOf(cl, r, old) = old
            \/ \E i : /\ CandidateAt(cl, i, r)
                      /\ BestOf(cl, r, old) = RouteTo(cl, hosts[cl][i])
         /\ old # None => Reaches(BestOf(cl, r, old), Location(old))
         /\ \A i : CandidateAt(cl, i, r) => Reaches(BestOf(cl, r, old), LocationAt(cl, i))
<1> DEFINE hs == hosts[cl]
           n == Len(hs)
           Cand(i) == Candidate(cl, hs[i], r)
           To(i) == RouteTo(cl, hs[i])
<1>1. hs \in Seq(HostRecords) /\ n \in Nat
  BY SeqLen DEF TypeOK
<1>2. PICK f : /\ f \in [0..n -> MaybeRoutes]
               /\ f[0] = old /\ BestOf(cl, r, old) = f[n]
               /\ \A i \in 1..n : f[i] = IF Cand(i) THEN Better(f[i - 1], To(i)) ELSE f[i - 1]
  <2>1. PICK f : BestLoop(f, cl, r, old) /\ BestOf(cl, r, old) = f[n]
    BY BestOfLoops
  <2> WITNESS f
  <2> QED BY <2>1, Zenon DEF BestLoop
<1>3. ASSUME NEW i \in 1..n, Cand(i)
      PROVE  To(i) \in Routes /\ To(i) # None /\ Location(To(i)) = Len(hs[i].form.location)
  <2>1. hs[i] \in HostRecords
    BY <1>1, SeqElem
  <2>2. To(i) \in Routes /\ To(i).host = hs[i] /\ To(i) # None
    BY <2>1, <1>3, RouteToType, Zenon
  <2> QED BY <2>2, Zenon DEF Location
<1>4. ASSUME NEW i \in 1..n
      PROVE  Len(hs[i].form.location) \in Nat
  <2>1. hs[i] \in HostRecords
    BY <1>1, SeqElem
  <2>2. hs[i].form.location \in Seq(STRING)
    BY <2>1, Zenon DEF HostRecords, HostForms
  <2> QED BY <2>2, SeqLen, Zenon
<1> HIDE DEF Cand, To
<1> DEFINE P(k) == /\ f[k] = old \/ \E i \in 1..k : Cand(i) /\ f[k] = To(i)
                   /\ old # None => Reaches(f[k], Location(old))
                   /\ \A i \in 1..k : Cand(i) => Reaches(f[k], Len(hs[i].form.location))
           D == {k \in Nat : k <= n => P(k)}
<1>5. old # None => old \in Routes /\ Location(old) \in Nat
  BY LocationNat DEF MaybeRoutes
<1>6. 0 \in D
  BY <1>2, <1>5 DEF Reaches
<1>7. ASSUME NEW k \in Nat, k \in D
      PROVE  k + 1 \in D
  <2> SUFFICES ASSUME k + 1 <= n
               PROVE  P(k + 1)
    OBVIOUS
  <2>0. k <= n /\ k + 1 \in 1..n /\ k \in 0..n
    BY <1>1
  <2>1. P(k) /\ k + 1 \in 1..n /\ f[k] \in MaybeRoutes
    BY <1>2, <1>7, <2>0, Zenon
  <2>2. f[k + 1] = IF Cand(k + 1) THEN Better(f[k], To(k + 1)) ELSE f[k]
    BY <1>2, <2>1, k + 1 - 1 = k
  <2>3. CASE ~Cand(k + 1)
    BY <2>1, <2>2, <2>3
  <2>4. CASE Cand(k + 1)
    <3> DEFINE b == Better(f[k], To(k + 1))
    <3>1. /\ f[k + 1] = b /\ b \in MaybeRoutes /\ b \in {f[k], To(k + 1)}
          /\ Reaches(b, Len(hs[k + 1].form.location))
          /\ f[k] # None => Reaches(b, Location(f[k]))
      BY <1>3, <2>1, <2>2, <2>4, BetterReaches, Zenon
    <3> HIDE DEF b
    <3>2. ASSUME NEW m \in Nat, Reaches(f[k], m)
          PROVE  Reaches(b, m)
      <4>1. f[k] # None /\ f[k] \in Routes /\ Location(f[k]) \in Nat /\ m <= Location(f[k])
        BY <2>1, <3>2, LocationNat, Zenon DEF Reaches, MaybeRoutes
      <4> QED BY <3>1, <4>1, ReachesMore, Zenon
    <3>3. f[k + 1] = old \/ \E i \in 1..(k + 1) : Cand(i) /\ f[k + 1] = To(i)
      BY <2>1, <2>4, <3>1
    <3>4. old # None => Reaches(f[k + 1], Location(old))
      BY <1>5, <2>1, <3>1, <3>2, Zenon
    <3>5. ASSUME NEW i \in 1..(k + 1), Cand(i)
          PROVE  Reaches(f[k + 1], Len(hs[i].form.location))
      <4>1. CASE i = k + 1
        BY <3>1, <4>1, Zenon
      <4>2. CASE i # k + 1
        <5>1. i \in 1..k /\ i \in 1..n
          BY <4>2, <1>1, <2>1
        <5> QED BY <5>1, <1>4, <2>1, <3>1, <3>2, <3>5, Zenon
      <4> QED BY <4>1, <4>2, Zenon
    <3> QED BY <3>3, <3>4, <3>5, Zenon
  <2> QED BY <2>3, <2>4, Zenon
<1> HIDE DEF D
<1>8. n \in D
  BY <1>1, <1>6, <1>7, NatInSet
<1>9. P(n) /\ f[n] \in MaybeRoutes
  BY <1>1, <1>2, <1>8 DEF D
<1> QED BY <1>2, <1>9, Zenon DEF Cand, To, CandidateAt, LocationAt

(* The loop over the clients.                                              *)
FindLoop(f, cls, r) ==
  /\ f \in [0..Len(cls) -> MaybeRoutes] /\ f[0] = None
  /\ \A k \in 1..Len(cls) : f[k] = BestOf(cls[k], r, f[k - 1])

LEMMA FoundLoops ==
  ASSUME TypeOK, NEW cls \in Seq(Clients), NEW r
  PROVE  \E f : FindLoop(f, cls, r) /\ Found(cls, r) = f[Len(cls)]
<1> DEFINE n == Len(cls)
           Step(x, k) == BestOf(cls[k], r, x)
           Def(f) == f = [k \in 0..n |-> IF k = 0 THEN None ELSE Step(f[k - 1], k)]
           G == [k \in 1..n |-> [x \in MaybeRoutes |-> Step(x, k)]]
           h == CHOOSE g : Def(g)
<1>1. n \in Nat /\ None \in MaybeRoutes
  BY SeqLen DEF MaybeRoutes
<1>2. ASSUME NEW k \in 1..n, NEW x \in MaybeRoutes
      PROVE  Step(x, k) \in MaybeRoutes
  <2>1. cls[k] \in Clients
    BY SeqElem
  <2> QED BY <2>1, BestOfIsBest, Zenon
<1>3. Found(cls, r) = h[n]
  BY Zenon DEF Found
<1> HIDE DEF Step
<1>4. G \in [1..n -> [MaybeRoutes -> MaybeRoutes]]
  BY <1>2
<1>5. PICK f : Loops(f, n, MaybeRoutes, None, G)
  <2> HIDE DEF n, G
  <2> QED BY <1>1, <1>4, LoopExists
<1>6. f \in [0..n -> MaybeRoutes] /\ f[0] = None
  BY <1>5 DEF Loops
<1>7. ASSUME NEW k \in 1..n
      PROVE  f[k] = Step(f[k - 1], k)
  <2>1. f[k - 1] \in MaybeRoutes
    BY <1>6, <1>1
  <2>2. f[k] = G[k][f[k - 1]]
    <3> HIDE DEF G
    <3> QED BY <1>5 DEF Loops
  <2>3. G[k][f[k - 1]] = Step(f[k - 1], k)
    BY <2>1
  <2> QED BY <2>2, <2>3, Zenon
<1>8. Def(f)
  <2>1. \A k \in 0..n : f[k] = IF k = 0 THEN None ELSE Step(f[k - 1], k)
    BY <1>1, <1>6, <1>7
  <2> QED BY <2>1, <1>6
<1>9. Def(h)
  BY <1>8, Zenon
<1> HIDE DEF h
<1>10. \A k \in 0..n : h[k] = IF k = 0 THEN None ELSE Step(h[k - 1], k)
  BY <1>9
<1>11. h = [k \in 0..n |-> h[k]] /\ f = [k \in 0..n |-> f[k]]
  BY <1>9, <1>6
<1>12. h = f
  <2> DEFINE D == {k \in Nat : k <= n => h[k] = f[k]}
  <2>1. 0 \in D
    BY <1>1, <1>6, <1>10
  <2>2. ASSUME NEW k \in Nat, k \in D
        PROVE  k + 1 \in D
    BY <2>2, <1>1, <1>7, <1>10
  <2> HIDE DEF D
  <2>3. \A k \in Nat : k \in D
    BY <2>1, <2>2, NatInSet
  <2>4. \A k \in 0..n : h[k] = f[k]
    BY <2>3, <1>1 DEF D
  <2> QED BY <2>4, <1>11
<1>13. FindLoop(f, cls, r)
  BY <1>6, <1>7 DEF Step, FindLoop
<1> QED BY <1>3, <1>12, <1>13

(* find_host_route returns a route to a candidate, and one whose location  *)
(* is as long as that of any candidate of any enabled client.              *)
LEMMA FindsLongest ==
  ASSUME TypeOK, NEW r, NEW x \in find_host_route(r), x # None
  PROVE  /\ x \in Routes
         /\ \E cl \in enabled : \E i : CandidateAt(cl, i, r) /\ x = RouteTo(cl, hosts[cl][i])
         /\ \A cl \in enabled : \A i : CandidateAt(cl, i, r) => Reaches(x, LocationAt(cl, i))
<1> DEFINE n == Cardinality(enabled)
<1>1. enabled \subseteq Clients /\ IsFiniteSet(enabled) /\ n \in Nat
  BY HostAssumption, FS_Subset, FS_CardinalityType, Zenon DEF TypeOK
<1>2. PICK cls \in Bijection(1..n, enabled) : x = Found(cls, r)
  BY DEF find_host_route, Orders
<1>3. cls \in [1..n -> enabled] /\ \A cl \in enabled : \E k \in 1..n : cls[k] = cl
  BY <1>2 DEF Bijection, Injection, Surjection
<1>4. cls \in Seq(Clients) /\ Len(cls) = n
  BY <1>1, <1>3, SeqLen
<1>5. PICK f : FindLoop(f, cls, r) /\ x = f[n]
  BY <1>2, <1>4, FoundLoops
<1>6. /\ f \in [0..n -> MaybeRoutes] /\ f[0] = None
      /\ \A k \in 1..n : f[k] = BestOf(cls[k], r, f[k - 1])
  BY <1>4, <1>5, Zenon DEF FindLoop
<1> DEFINE P(k) == /\ \/ f[k] = None
                      \/ \E cl \in enabled : \E i :
                           CandidateAt(cl, i, r) /\ f[k] = RouteTo(cl, hosts[cl][i])
                   /\ \A j \in 1..k : \A i :
                        CandidateAt(cls[j], i, r) => Reaches(f[k], LocationAt(cls[j], i))
           D == {k \in Nat : k <= n => P(k)}
<1>7. 0 \in D
  BY <1>6
<1>8. ASSUME NEW cl \in Clients, NEW i, CandidateAt(cl, i, r)
      PROVE  LocationAt(cl, i) \in Nat
  <2>1. hosts[cl] \in Seq(HostRecords)
    BY DEF TypeOK
  <2>2. hosts[cl][i] \in HostRecords
    BY <1>8, <2>1, SeqElem, Zenon DEF CandidateAt
  <2>3. hosts[cl][i].form.location \in Seq(STRING)
    BY <2>2, Zenon DEF HostRecords, HostForms
  <2> QED BY <2>3, SeqLen DEF LocationAt
<1>9. ASSUME NEW k \in Nat, k \in D
      PROVE  k + 1 \in D
  <2> SUFFICES ASSUME k + 1 <= n
               PROVE  P(k + 1)
    OBVIOUS
  <2>1. k <= n /\ k + 1 \in 1..n /\ k \in 0..n
    BY <1>1
  <2>2. P(k) /\ f[k] \in MaybeRoutes
    BY <1>6, <1>9, <2>1, Zenon
  <2> DEFINE cl == cls[k + 1]
             b == BestOf(cl, r, f[k])
  <2>3. cl \in enabled /\ cl \in Clients /\ f[k + 1] = b
    BY <1>1, <1>3, <1>6, <2>1, k + 1 - 1 = k
  <2>4. /\ b \in MaybeRoutes
        /\ b = f[k] \/ \E i : CandidateAt(cl, i, r) /\ b = RouteTo(cl, hosts[cl][i])
        /\ f[k] # None => Reaches(b, Location(f[k]))
        /\ \A i : CandidateAt(cl, i, r) => Reaches(b, LocationAt(cl, i))
    BY <2>2, <2>3, BestOfIsBest, Zenon
  <2> HIDE DEF b
  <2>5. ASSUME NEW m \in Nat, Reaches(f[k], m)
        PROVE  Reaches(b, m)
    <3>1. f[k] # None /\ f[k] \in Routes /\ Location(f[k]) \in Nat /\ m <= Location(f[k])
      BY <2>2, <2>5, LocationNat, Zenon DEF Reaches, MaybeRoutes
    <3> QED BY <2>4, <3>1, ReachesMore, Zenon
  <2>6. ASSUME NEW j \in 1..(k + 1), NEW i, CandidateAt(cls[j], i, r)
        PROVE  Reaches(b, LocationAt(cls[j], i))
    <3>1. CASE j = k + 1
      BY <2>4, <2>6, <3>1, Zenon
    <3>2. CASE j # k + 1
      <4>1. j \in 1..k /\ cls[j] \in Clients
        BY <1>1, <1>3, <2>1, <3>2
      <4> QED BY <4>1, <1>8, <2>2, <2>5, <2>6, Zenon
    <3> QED BY <3>1, <3>2, Zenon
  <2> QED BY <2>2, <2>3, <2>4, <2>6, Zenon
<1> HIDE DEF D
<1>10. n \in D
  BY <1>1, <1>7, <1>9, NatInSet
<1>11. P(n) /\ f[n] \in MaybeRoutes
  <2>1. n <= n /\ n \in 0..n
    BY <1>1
  <2>2. P(n)
    BY <1>10, <2>1, Zenon DEF D
  <2> QED BY <2>1, <2>2, <1>6, Zenon
<1> HIDE DEF n
<1>12. x \in Routes
  BY <1>5, <1>11, Zenon DEF MaybeRoutes
<1>13. \E cl \in enabled : \E i : CandidateAt(cl, i, r) /\ x = RouteTo(cl, hosts[cl][i])
  BY <1>5, <1>11, Zenon
<1>14. ASSUME NEW cl \in enabled, NEW i, CandidateAt(cl, i, r)
       PROVE  Reaches(x, LocationAt(cl, i))
  <2>1. PICK k \in 1..n : cls[k] = cl
    BY <1>3
  <2> QED BY <1>5, <1>11, <1>14, <2>1, Zenon
<1> QED BY <1>12, <1>13, <1>14, Zenon

-----------------------------------------------------------------------------
(* The threads.  A response is cached under the key that is made of what   *)
(* it is for, and a thread only has a response that fits its request.      *)
KeyIn(a) == <<a.scheme, a.wild, a.name, a.path>>

KeyFor(r) == cache_key_for_request(r.asked, r.route.host.form)

Good(r) ==
  r # Idle =>
    /\ r.pc # "route" => r.route # None /\ host_matches(r.route.host, r.asked.name)
    /\ r.pc \in {"fetch", "store"} => KeyFor(r) # None
    /\ r.pc = "store" => r.answer \in Responses /\ KeyFor(r) = KeyIn(r.answer)
    /\ r.answer # None => Fits(r.answer, r.asked)

ThreadInv == \A q \in Threads : Good(request[q])

CacheInv == \A k \in DOMAIN entries : k = KeyIn(entries[k])

KeyWanted(r) == <<r.asked.scheme, r.route.host.form.wild, r.route.host.form.name, r.asked.path>>

MadeFor(a, r) ==
  /\ a.scheme = r.asked.scheme /\ a.path = r.asked.path
  /\ a.wild = r.route.host.form.wild /\ a.name = r.route.host.form.name

LEMMA KeyParts ==
  ASSUME NEW a, NEW r, KeyIn(a) = KeyWanted(r)
  PROVE  MadeFor(a, r)
BY DEF KeyIn, KeyWanted, MadeFor

LEMMA KeyType ==
  ASSUME NEW r \in Served, r.route # None, KeyFor(r) # None
  PROVE  /\ KeyFor(r) \in Keys
         /\ KeyFor(r) = <<r.asked.scheme, r.route.host.form.wild, r.route.host.form.name,
                          r.asked.path>>
<1>1. r.asked \in Requests /\ r.route \in Routes
  BY DEF Served
<1>2. r.asked.scheme \in Schemes /\ r.asked.path \in Seq(STRING)
  BY <1>1 DEF Requests
<1>3. r.route.host.form \in HostForms
  BY <1>1 DEF Routes, HostRecords
<1>4. r.route.host.form.wild \in BOOLEAN /\ r.route.host.form.name \in STRING
  BY <1>3, Zenon DEF HostForms
<1> QED BY <1>2, <1>4, Zenon DEF KeyFor, cache_key_for_request, Keys

(* What a step of a thread leaves of it.                                   *)
Serves(q) ==
  \/ \E r \in Asked : Arrive(q, r)
  \/ Route(q) \/ Prepare(q) \/ Lookup(q) \/ Open(q) \/ Fetch(q) \/ Store(q) \/ Close(q)

LEMMA ServeStep ==
  ASSUME NEW q, Serve(q)
  PROVE  Serves(q)
BY DEF Serve, Serves, handle_http_host_conn, proxy_host_request_tcp, handle_https_host_conn,
       proxy_host_request

Kept == UNCHANGED <<config, records>>

MovesTo(q, r) ==
  /\ r \in {Idle} \union Served /\ Good(r)
  /\ request' = [request EXCEPT ![q] = r]
  /\ request[q].pc = "route" /\ r # Idle =>
       r.route # None /\ r.route \in find_host_route(request[q].asked)

Pcs == {"route", "prepare", "lookup", "open", "fetch", "store", "done"}

IsServed(x, pc, route, answer, asked) ==
  /\ x \in Served /\ x.pc = pc
  /\ x.route = route /\ x.answer = answer /\ x.asked = asked

SetPc(s, pc) == [s EXCEPT !.pc = pc]
SetRoute(s, route, pc) == [s EXCEPT !.route = route, !.pc = pc]
SetAnswer(s, pc, a) == [s EXCEPT !.pc = pc, !.answer = a]

LEMMA AtPc ==
  ASSUME NEW s \in Served, NEW pc \in Pcs
  PROVE  IsServed(SetPc(s, pc), pc, s.route, s.answer, s.asked)
BY DEF Served, Pcs, IsServed, SetPc

LEMMA AtRoute ==
  ASSUME NEW s \in Served, NEW pc \in Pcs, NEW route \in Routes
  PROVE  IsServed(SetRoute(s, route, pc), pc, route, s.answer, s.asked)
<1> DEFINE y == [s EXCEPT !.route = route]
<1>1. IsServed(y, s.pc, route, s.answer, s.asked)
  BY DEF Served, IsServed
<1> HIDE DEF y
<1>2. IsServed(SetPc(y, pc), pc, route, s.answer, s.asked)
  BY <1>1, AtPc, Zenon DEF IsServed
<1> QED BY <1>2 DEF y, SetPc, SetRoute

LEMMA AtAnswer ==
  ASSUME NEW s \in Served, NEW pc \in Pcs, NEW a \in Responses
  PROVE  IsServed(SetAnswer(s, pc, a), pc, s.route, a, s.asked)
<1> DEFINE y == SetPc(s, pc)
<1>1. IsServed(y, pc, s.route, s.answer, s.asked)
  BY AtPc
<1> HIDE DEF y
<1>2. IsServed([y EXCEPT !.answer = a], pc, s.route, a, s.asked)
  BY <1>1 DEF Served, IsServed
<1> QED BY <1>2 DEF y, SetPc, SetAnswer

LEMMA GoodAtPc ==
  ASSUME NEW s \in Served, Good(s), s # Idle, s.pc # "route",
         NEW pc \in {"lookup", "open", "fetch", "done"},
         pc = "fetch" => KeyFor(s) # None
  PROVE  SetPc(s, pc) \in Served /\ Good(SetPc(s, pc))
<1> DEFINE x == SetPc(s, pc)
<1>1. IsServed(x, pc, s.route, s.answer, s.asked)
  BY AtPc DEF Pcs
<1> HIDE DEF x
<1>2. x \in Served /\ Good(x)
  BY <1>1, Zenon DEF IsServed, Good, KeyFor
<1> QED BY <1>2 DEF x

LEMMA RouteStep ==
  ASSUME NEW q, Route(q)
  PROVE  /\ request[q].pc = "route" /\ Kept
         /\ \/ End(q)
            \/ \E route \in find_host_route(request[q].asked) \ {None} :
               \E pc \in {"open", "prepare"} : Becomes(q, SetRoute(request[q], route, pc))
<1>1. request[q].pc = "route" /\ Kept
  BY Zenon DEF Route, Kept
<1>2. CASE ~End(q)
  <2>1. PICK route \in find_host_route(request[q].asked) \ {None} :
          Becomes(q, SetRoute(request[q], route,
                              IF Sniffed(request[q].asked) THEN "open" ELSE "prepare"))
    BY <1>2, Zenon DEF Route, SetRoute
  <2> DEFINE pc == IF Sniffed(request[q].asked) THEN "open" ELSE "prepare"
  <2>2. pc \in {"open", "prepare"} /\ Becomes(q, SetRoute(request[q], route, pc))
    BY <2>1
  <2> HIDE DEF pc
  <2> QED BY <1>1, <2>2, Zenon
<1> QED BY <1>1, <1>2, Zenon

LEMMA Moves ==
  ASSUME TypeOK, ThreadInv, CacheInv, NEW q \in Threads, Serves(q)
  PROVE  Kept /\ \E r : MovesTo(q, r)
<1> DEFINE s == request[q]
<1>1. s \in {Idle} \union Served /\ Good(s)
  BY DEF TypeOK, ThreadInv
<1>2. Idle.pc = "idle" /\ Good(Idle)
  BY Zenon DEF Idle, Good
<1>3. ASSUME s.pc # "idle"
      PROVE  s \in Served /\ s # Idle
  BY <1>1, <1>2, <1>3
<1>4. ASSUME End(q)
      PROVE  MovesTo(q, Idle)
  BY <1>2, <1>4 DEF End, Becomes, MovesTo
<1>5. CASE \E r \in Asked : Arrive(q, r)
  <2>1. PICK r \in Asked : Arrive(q, r)
    BY <1>5
  <2> DEFINE a == IF Sniffed(r) THEN [r EXCEPT !.path = <<>>] ELSE r
             x == [pc |-> "route", route |-> None, answer |-> None, asked |-> a]
  <2>2. a \in Requests
    <3>1. r \in Requests
      BY HostAssumption
    <3>2. ASSUME NEW p \in Seq(STRING)
          PROVE  [r EXCEPT !.path = p] \in Requests
      BY <3>1 DEF Requests
    <3>3. [r EXCEPT !.path = <<>>] \in Requests
      BY <3>2, SeqNil, Zenon
    <3> QED BY <3>1, <3>3
  <2>3. x \in Served /\ x.pc = "route" /\ x.answer = None
    BY <2>2 DEF Served
  <2>4. Good(x)
    BY <2>3 DEF Good
  <2>5. s = Idle /\ request' = [request EXCEPT ![q] = x] /\ Kept
    BY <2>1 DEF Arrive, Becomes, Kept
  <2>6. s.pc # "route"
    BY <1>2, <2>5
  <2> HIDE DEF x
  <2>7. MovesTo(q, x)
    BY <2>3, <2>4, <2>5, <2>6, Zenon DEF MovesTo
  <2> QED BY <2>5, <2>7
<1>6. CASE Route(q)
  <2>1. s.pc = "route" /\ s # Idle /\ s \in Served /\ Kept
    BY <1>3, <1>6, RouteStep, Zenon
  <2>2. CASE ~End(q)
    <3>1. PICK route \in find_host_route(s.asked) \ {None}, pc \in {"open", "prepare"} :
            Becomes(q, SetRoute(s, route, pc))
      BY <1>6, <2>2, RouteStep, Zenon
    <3> DEFINE x == SetRoute(s, route, pc)
    <3>2. route \in Routes /\ \E cl \in enabled : \E i :
            CandidateAt(cl, i, s.asked) /\ route = RouteTo(cl, hosts[cl][i])
      BY FindsLongest
    <3>3. pc \in Pcs
      BY DEF Pcs
    <3>4. IsServed(x, pc, route, s.answer, s.asked)
      BY <2>1, <3>2, <3>3, AtRoute, Zenon
    <3>5. host_matches(route.host, s.asked.name)
      <4>1. PICK cl \in enabled : \E i :
              CandidateAt(cl, i, s.asked) /\ route = RouteTo(cl, hosts[cl][i])
        BY <3>2, Zenon
      <4>2. PICK i : CandidateAt(cl, i, s.asked) /\ route = RouteTo(cl, hosts[cl][i])
        BY <4>1, Zenon
      <4> QED BY <4>2, Zenon DEF CandidateAt, Candidate, RouteTo
    <3> HIDE DEF x, s
    <3>6. Good(x)
      BY <1>1, <2>1, <3>4, <3>5, Zenon DEF Good, IsServed
    <3>7. MovesTo(q, x)
      BY <3>1, <3>4, <3>6, Zenon DEF MovesTo, IsServed, Becomes, s, x
    <3> QED BY <2>1, <3>7
  <2> QED BY <1>4, <2>1, <2>2
<1>7. CASE Prepare(q)
  <2>1. s.pc = "prepare" /\ s # Idle /\ s \in Served /\ Kept
    BY <1>3, <1>7, Zenon DEF Prepare, Kept
  <2> DEFINE x == SetPc(s, "lookup")
  <2>2. x \in Served /\ Good(x)
    BY <1>1, <2>1, GoodAtPc, Zenon
  <2>3. ASSUME Goto(q, "lookup")
        PROVE  MovesTo(q, x)
    BY <2>1, <2>2, <2>3 DEF Goto, Becomes, MovesTo, SetPc
  <2> QED BY <1>4, <1>7, <2>1, <2>3, Zenon DEF Prepare
<1>8. CASE Lookup(q)
  <2>1. s.pc = "lookup" /\ s # Idle /\ s \in Served /\ Kept
    BY <1>3, <1>8, Zenon DEF Lookup, Kept
  <2>2. s.route # None /\ host_matches(s.route.host, s.asked.name)
    BY <1>1, <2>1, Zenon DEF Good
  <2>3. CASE Goto(q, "open")
    <3> DEFINE x == SetPc(s, "open")
    <3>1. x \in Served /\ Good(x)
      BY <1>1, <2>1, GoodAtPc, Zenon
    <3>2. MovesTo(q, x)
      BY <2>1, <2>3, <3>1 DEF Goto, Becomes, MovesTo, SetPc
    <3> QED BY <2>1, <3>2, Zenon
  <2>4. CASE KeyFor(s) \in DOMAIN entries /\ Answer(q, entries[KeyFor(s)])
    <3> DEFINE a == entries[KeyFor(s)]
               x == SetAnswer(s, "done", a)
    <3>1. a \in Responses /\ KeyFor(s) = KeyIn(a)
      BY <2>4, Zenon DEF TypeOK, CacheInv
    <3>2. KeyFor(s) # None
      BY <2>4, HostAssumption, Zenon DEF TypeOK
    <3>3. KeyFor(s) = <<s.asked.scheme, s.route.host.form.wild, s.route.host.form.name,
                        s.asked.path>>
      BY <2>1, <2>2, <3>2, KeyType, Zenon
    <3>4. request' = [request EXCEPT ![q] = x]
      BY <2>4 DEF Answer, Becomes, SetAnswer
    <3> HIDE DEF a
    <3>5. Fits(a, s.asked)
      <4>1. /\ a.scheme = s.asked.scheme /\ a.path = s.asked.path
            /\ a.wild = s.route.host.form.wild /\ a.name = s.route.host.form.name
        <5>1. KeyIn(a) = KeyWanted(s)
          BY <3>1, <3>3, Zenon DEF KeyWanted
        <5>2. MadeFor(a, s)
          BY <5>1, KeyParts, Zenon
        <5> QED BY <5>2, Zenon DEF MadeFor
      <4> QED BY <2>2, <4>1, Zenon DEF Fits, host_matches
    <3>6. IsServed(x, "done", s.route, a, s.asked)
      BY <2>1, <3>1, AtAnswer, Zenon DEF Pcs
    <3> HIDE DEF x
    <3>7. Good(x)
      BY <2>2, <3>5, <3>6, Zenon DEF Good, IsServed
    <3>8. MovesTo(q, x)
      BY <2>1, <3>4, <3>6, <3>7, Zenon DEF MovesTo, IsServed
    <3> QED BY <2>1, <3>8, Zenon
  <2> QED BY <1>4, <1>8, <2>1, <2>3, <2>4, Zenon DEF Lookup, KeyOf, KeyFor
<1>9. CASE Open(q)
  <2>1. s.pc = "open" /\ s # Idle /\ s \in Served /\ Kept
    BY <1>3, <1>9, Zenon DEF Open, Kept
  <2>2. CASE KeyFor(s) # None /\ Goto(q, "fetch")
    <3> DEFINE x == SetPc(s, "fetch")
    <3>1. x \in Served /\ Good(x)
      BY <1>1, <2>1, <2>2, GoodAtPc, Zenon
    <3>2. MovesTo(q, x)
      BY <2>1, <2>2, <3>1 DEF Goto, Becomes, MovesTo, SetPc
    <3> QED BY <2>1, <3>2
  <2> QED BY <1>4, <1>9, <2>1, <2>2, Zenon DEF Open, KeyOf, KeyFor
<1>10. CASE Fetch(q)
  <2>1. s.pc = "fetch" /\ s # Idle /\ s \in Served /\ Kept
    BY <1>3, <1>10 DEF Fetch, Kept
  <2>2. s.route # None /\ host_matches(s.route.host, s.asked.name) /\ KeyFor(s) # None
    BY <1>1, <2>1, Zenon DEF Good
  <2> DEFINE a == Response(q)
  <2>3. a \in Responses
    <3>1. s.asked \in Requests /\ s.route \in Routes
      BY <2>1, <2>2, Zenon DEF Served
    <3>2. s.asked.scheme \in Schemes /\ s.asked.path \in Seq(STRING)
      BY <3>1, Zenon DEF Requests
    <3>3. s.route.host.form \in HostForms /\ s.route.target \in STRING
      BY <3>1, Zenon DEF Routes, HostRecords
    <3>4. s.route.host.form.wild \in BOOLEAN /\ s.route.host.form.name \in STRING
      BY <3>3, Zenon DEF HostForms
    <3> QED BY <3>2, <3>3, <3>4, Zenon DEF Response, Responses
  <2>4. /\ a.scheme = s.asked.scheme /\ a.path = s.asked.path
        /\ a.wild = s.route.host.form.wild /\ a.name = s.route.host.form.name
    BY Zenon DEF Response
  <2> HIDE DEF a
  <2>5. Fits(a, s.asked) /\ KeyFor(s) = KeyIn(a)
    <3>1. KeyFor(s) = <<s.asked.scheme, s.route.host.form.wild, s.route.host.form.name,
                        s.asked.path>>
      BY <2>1, <2>2, KeyType, Zenon
    <3> QED BY <2>2, <2>4, <3>1, Zenon DEF Fits, host_matches, KeyIn
  <2>6. ASSUME NEW pc \in {"store", "done"},
               request' = [request EXCEPT ![q] = SetAnswer(s, pc, a)]
        PROVE  \E r : MovesTo(q, r)
    <3> DEFINE x == SetAnswer(s, pc, a)
    <3>1. IsServed(x, pc, s.route, a, s.asked)
      BY <2>1, <2>3, AtAnswer, Zenon DEF Pcs
    <3>2. request' = [request EXCEPT ![q] = x]
      BY <2>6
    <3> HIDE DEF x
    <3>3. Good(x)
      BY <2>2, <2>3, <2>5, <3>1, Zenon DEF Good, KeyFor, IsServed
    <3>4. MovesTo(q, x)
      BY <2>1, <3>1, <3>2, <3>3, Zenon DEF MovesTo, IsServed
    <3> QED BY <3>4
  <2>7. CASE ~End(q)
    BY <1>10, <2>1, <2>6, <2>7 DEF Fetch, Answer, Becomes, SetAnswer, a
  <2> QED BY <1>4, <2>1, <2>7, Zenon
<1>11. CASE Store(q)
  <2>1. s.pc = "store" /\ s # Idle /\ s \in Served /\ Kept
    BY <1>3, <1>11, Zenon DEF Store, Kept
  <2> DEFINE x == SetPc(s, "done")
  <2>2. x \in Served /\ Good(x)
    BY <1>1, <2>1, GoodAtPc, Zenon
  <2>3. MovesTo(q, x)
    BY <1>11, <2>1, <2>2 DEF Store, Goto, Becomes, MovesTo, SetPc
  <2> QED BY <2>1, <2>3, Zenon
<1>12. CASE Close(q)
  <2>1. s.pc = "done" /\ Kept
    BY <1>12, Zenon DEF Close, Kept
  <2> QED BY <1>4, <1>12, <2>1, Zenon DEF Close
<1> QED BY <1>5, <1>6, <1>7, <1>8, <1>9, <1>10, <1>11, <1>12, Zenon DEF Serves


-----------------------------------------------------------------------------
(* The cache: order lists the keys of entries once.                        *)
Enumerates(s, D) ==
  /\ \A i \in 1..Len(s) : s[i] \in D
  /\ \A i, j \in 1..Len(s) : s[i] = s[j] => i = j
  /\ \A x \in D : \E i \in 1..Len(s) : s[i] = x

OrderInv == Enumerates(order, DOMAIN entries) /\ (limit > 0 => Len(order) <= limit)

LEMMA IntervalSize ==
  ASSUME NEW n \in Nat
  PROVE  IsFiniteSet(1..n) /\ Cardinality(1..n) = n
<1>1. /\ IsFiniteSet(1..n)
      /\ Cardinality(1..n) = IF 1 > n THEN 0 ELSE n - 1 + 1
  <2>1. 1 \in Int /\ n \in Int
    OBVIOUS
  <2> QED BY <2>1, FS_Interval, Zenon
<1>2. (IF 1 > n THEN 0 ELSE n - 1 + 1) = n
  OBVIOUS
<1> QED BY <1>1, <1>2

LEMMA EnumeratedSize ==
  ASSUME NEW T, NEW s \in Seq(T), NEW D, Enumerates(s, D)
  PROVE  IsFiniteSet(D) /\ Cardinality(D) = Len(s) /\ Range(s) = D
<1>1. Len(s) \in Nat /\ DOMAIN s = 1..Len(s)
  BY SeqLen
<1>2. s \in [1..Len(s) -> D]
  BY <1>1 DEF Enumerates
<1>3. s \in Bijection(1..Len(s), D)
  <2>1. IsInjective(s)
    BY <1>1, Zenon DEF Enumerates, IsInjective
  <2>2. s \in Injection(1..Len(s), D)
    BY <1>2, <2>1, Zenon DEF Injection
  <2>3. s \in Surjection(1..Len(s), D)
    BY <1>2, Zenon DEF Enumerates, Surjection
  <2> QED BY <2>2, <2>3, Zenon DEF Bijection
<1>4. IsFiniteSet(1..Len(s)) /\ Cardinality(1..Len(s)) = Len(s)
  BY <1>1, IntervalSize, Zenon
<1>5. ExistsBijection(1..Len(s), D)
  BY <1>3 DEF ExistsBijection
<1>6. IsFiniteSet(D) /\ Cardinality(D) = Len(s)
  BY <1>4, <1>5, FS_Bijection
<1>7. Range(s) = D
  BY <1>1 DEF Enumerates, Range
<1> QED BY <1>6, <1>7

LEMMA MovedToBack ==
  ASSUME NEW T, NEW s \in Seq(T), NEW D, Enumerates(s, D), NEW k \in T
  PROVE  LET more == Append(Without(s, {k}), k)
         IN more \in Seq(T) /\ Enumerates(more, D \union {k})
<1> DEFINE w == Without(s, {k})
           more == Append(w, k)
<1>1. w \in Seq(T) /\ \E m : Picks(w, s, {k}, Len(s), m)
  BY WithoutPicks
<1> HIDE DEF w
<1>2. PICK m : Picks(w, s, {k}, Len(s), m)
  BY <1>1
<1>3. Len(w) \in Nat /\ Len(s) \in Nat
  BY <1>1, SeqLen
<1>4. /\ more \in Seq(T) /\ Len(more) = Len(w) + 1 /\ more[Len(w) + 1] = k
      /\ \A i \in 1..Len(w) : more[i] = w[i]
  BY <1>1, <1>3
<1>5. \A i \in 1..Len(w) : m[i] \in 1..Len(s) /\ w[i] = s[m[i]] /\ w[i] # k
  BY <1>2, Zenon DEF Picks
<1>6. \A i, j \in 1..Len(w) : w[i] = w[j] => i = j
  <2> SUFFICES ASSUME NEW i \in 1..Len(w), NEW j \in 1..Len(w), w[i] = w[j], i # j
               PROVE  FALSE
    OBVIOUS
  <2>1. m[i] = m[j]
    <3>1. m[i] \in 1..Len(s) /\ m[j] \in 1..Len(s) /\ s[m[i]] = s[m[j]]
      BY <1>5, Zenon
    <3> QED BY <3>1 DEF Enumerates
  <2>2. i < j \/ j < i
    BY <1>3
  <2>3. m[i] < m[j] \/ m[j] < m[i]
    BY <1>2, <2>2, Zenon DEF Picks
  <2>4. m[i] \in Nat /\ m[j] \in Nat
    BY <1>3, <1>5
  <2> QED BY <2>1, <2>3, <2>4
<1>7. \A x \in D : x # k => \E i \in 1..Len(w) : w[i] = x
  <2> SUFFICES ASSUME NEW x \in D, x # k
               PROVE  \E i \in 1..Len(w) : w[i] = x
    OBVIOUS
  <2>1. PICK p \in 1..Len(s) : s[p] = x
    BY DEF Enumerates
  <2>2. PICK i \in 1..Len(w) : m[i] = p
    BY <1>2, <2>1, Zenon DEF Picks
  <2> QED BY <1>5, <2>1, <2>2, Zenon
<1> HIDE DEF more
<1>8. \A i \in 1..Len(more) : more[i] \in D \union {k}
  <2> SUFFICES ASSUME NEW i \in 1..Len(more), more[i] # k
               PROVE  more[i] \in D
    OBVIOUS
  <2>1. i \in 1..Len(w)
    BY <1>3, <1>4
  <2> QED BY <1>4, <1>5, <2>1 DEF Enumerates
<1>9. \A i, j \in 1..Len(more) : more[i] = more[j] => i = j
  <2> SUFFICES ASSUME NEW i \in 1..Len(more), NEW j \in 1..Len(more), more[i] = more[j]
               PROVE  i = j
    OBVIOUS
  <2>1. (i \in 1..Len(w) \/ i = Len(w) + 1) /\ (j \in 1..Len(w) \/ j = Len(w) + 1)
    BY <1>3, <1>4
  <2> QED BY <1>4, <1>5, <1>6, <2>1
<1>10. \A x \in D \union {k} : \E i \in 1..Len(more) : more[i] = x
  <2>1. 1..Len(w) \subseteq 1..Len(more) /\ Len(w) + 1 \in 1..Len(more)
    BY <1>3, <1>4
  <2> QED BY <1>4, <1>7, <2>1, Zenon
<1>11. more \in Seq(T) /\ Enumerates(more, D \union {k})
  BY <1>4, <1>8, <1>9, <1>10, Zenon DEF Enumerates
<1> QED BY <1>11 DEF more, w

LEMMA FrontDropped ==
  ASSUME NEW T, NEW s \in Seq(T), NEW D, Enumerates(s, D), NEW n \in 0..Len(s)
  PROVE  LET kept == SubSeq(s, n + 1, Len(s))
         IN /\ kept \in Seq(T) /\ Len(kept) = Len(s) - n
            /\ Enumerates(kept, D \ {s[i] : i \in 1..n})
<1> DEFINE kept == SubSeq(s, n + 1, Len(s))
           gone == {s[i] : i \in 1..n}
<1>1. Len(s) \in Nat /\ n \in Nat /\ n <= Len(s) /\ n + 1 \in Int /\ Len(s) \in Int
  BY SeqLen
<1>2. \A i \in (n + 1)..Len(s) : s[i] \in T
  BY <1>1, SeqElem
<1>3. /\ kept \in Seq(T) /\ Len(kept) = IF n + 1 <= Len(s) THEN Len(s) - (n + 1) + 1 ELSE 0
      /\ \A i \in 1..(Len(s) - (n + 1) + 1) : kept[i] = s[n + 1 + i - 1]
  BY <1>1, <1>2, SeqPart
<1> HIDE DEF kept
<1>4. kept \in Seq(T) /\ Len(kept) = Len(s) - n
  BY <1>1, <1>3
<1>5. \A i \in 1..Len(kept) : kept[i] = s[i + n] /\ i + n \in 1..Len(s) /\ i + n \notin 1..n
  <2> TAKE i \in 1..Len(kept)
  <2>1. i \in 1..(Len(s) - (n + 1) + 1) /\ n + 1 + i - 1 = i + n
    BY <1>1, <1>4
  <2>2. kept[i] = s[i + n]
    BY <1>3, <2>1, Zenon
  <2> QED BY <1>1, <1>4, <2>2
<1>6. \A i \in 1..Len(kept) : kept[i] \in D \ gone
  <2> TAKE i \in 1..Len(kept)
  <2>1. kept[i] \in D
    BY <1>5, Zenon DEF Enumerates
  <2>2. ASSUME NEW j \in 1..n, kept[i] = s[j]
        PROVE  FALSE
    <3>1. j \in 1..Len(s)
      BY <1>1
    <3>2. i + n \in 1..Len(s) /\ s[j] = s[i + n]
      BY <1>5, <2>2, Zenon
    <3>3. j = i + n
      BY <3>1, <3>2 DEF Enumerates
    <3> QED BY <1>5, <3>3, Zenon
  <2> QED BY <2>1, <2>2
<1>7. \A i, j \in 1..Len(kept) : kept[i] = kept[j] => i = j
  <2> SUFFICES ASSUME NEW i \in 1..Len(kept), NEW j \in 1..Len(kept), kept[i] = kept[j]
               PROVE  i = j
    OBVIOUS
  <2>1. i + n = j + n
    BY <1>5 DEF Enumerates
  <2> QED BY <1>1, <1>4, <2>1
<1>8. \A x \in D \ gone : \E i \in 1..Len(kept) : kept[i] = x
  <2> TAKE x \in D \ gone
  <2>1. PICK p \in 1..Len(s) : s[p] = x
    BY Zenon DEF Enumerates
  <2>2. p \notin 1..n
    BY <2>1, Zenon
  <2>3. p - n \in 1..Len(kept) /\ p - n + n = p
    BY <1>1, <1>4, <2>2
  <2>4. kept[p - n] = s[p - n + n]
    BY <1>5, <2>3, Zenon
  <2> QED BY <2>1, <2>3, <2>4, Zenon
<1>9. Enumerates(kept, D \ gone)
  BY <1>6, <1>7, <1>8, Zenon DEF Enumerates
<1> QED BY <1>4, <1>9, Zenon DEF kept

LEMMA CacheInsertKeeps ==
  ASSUME TypeOK, OrderInv, CacheInv, NEW k \in Keys, NEW a \in Responses, k = KeyIn(a),
         CacheInsert(k, a), UNCHANGED limit
  PROVE  /\ order' \in Seq(Keys)
         /\ entries' \in [DOMAIN entries' -> Responses] /\ DOMAIN entries' \subseteq Keys
         /\ OrderInv' /\ CacheInv'
<1> DEFINE D == DOMAIN entries
           all == [x \in D \union {k} |-> IF x = k THEN a ELSE entries[x]]
           more == Append(Without(order, {k}), k)
           n == IF limit > 0 /\ k \notin D /\ Len(more) > limit THEN Len(more) - limit ELSE 0
           gone == {more[i] : i \in 1..n}
<1>1. order' = SubSeq(more, n + 1, Len(more))
  BY Zenon DEF CacheInsert
<1>2. entries' = [x \in DOMAIN all \ gone |-> all[x]]
  BY Zenon DEF CacheInsert
<1>3. order \in Seq(Keys) /\ Enumerates(order, D) /\ D \subseteq Keys /\ limit \in Nat
      /\ \A x \in D : entries[x] \in Responses /\ x = KeyIn(entries[x])
  BY Zenon DEF TypeOK, OrderInv, CacheInv
<1>4. more \in Seq(Keys) /\ Enumerates(more, D \union {k})
  BY <1>3, MovedToBack, Zenon
<1>5. DOMAIN all = D \union {k} /\ \A x \in D \union {k} : all[x] \in Responses /\ x = KeyIn(all[x])
  BY <1>3, Zenon
<1> HIDE DEF more, all
<1>6. Len(more) \in Nat
  BY <1>4, SeqLen
<1>7. n \in 0..Len(more)
  BY <1>3, <1>6
<1>8. limit > 0 => Len(more) - n <= limit
  <2>1. CASE k \in D
    <3>1. D \union {k} = D
      BY <2>1
    <3>2. Len(more) = Len(order)
      BY <1>3, <1>4, <3>1, EnumeratedSize, Zenon
    <3> QED BY <1>3, <1>6, <2>1, <3>2 DEF OrderInv
  <2>2. CASE k \notin D
    BY <1>3, <1>6, <2>2
  <2> QED BY <2>1, <2>2, Zenon
<1> HIDE DEF n
<1>9. /\ order' \in Seq(Keys) /\ Len(order') = Len(more) - n
      /\ Enumerates(order', (D \union {k}) \ gone)
  BY <1>1, <1>4, <1>7, FrontDropped, Zenon
<1> HIDE DEF gone, D
<1>10. DOMAIN entries' = (D \union {k}) \ gone
  BY <1>2, <1>5
<1>11. OrderInv'
  BY <1>8, <1>9, <1>10, Zenon DEF OrderInv
<1>12. \A x \in DOMAIN entries' : entries'[x] \in Responses /\ x = KeyIn(entries'[x])
  BY <1>2, <1>5, <1>10, Zenon
<1>13. entries' \in [DOMAIN entries' -> Responses]
  BY <1>2, <1>10, <1>12, Zenon
<1>14. DOMAIN entries' \subseteq Keys
  BY <1>3, <1>10, Zenon
<1>15. CacheInv'
  BY <1>12, Zenon DEF CacheInv
<1> QED BY <1>9, <1>11, <1>13, <1>14, <1>15, Zenon


-----------------------------------------------------------------------------
(* The hosts of a client.                                                  *)
Distinct(s) ==
  \A i, j \in 1..Len(s) :
    s[i].web /\ s[j].web /\ Same(s[i].form, s[j].form) => i = j \/ s[i].id = s[j].id

LEMMA DistinctPicked ==
  ASSUME NEW s, NEW t, NEW p, Distinct(s),
         \A j \in 1..Len(t) : t[j].web => p[j] \in 1..Len(s) /\ t[j] = s[p[j]],
         \A i, j \in 1..Len(t) : p[i] = p[j] /\ t[i].web /\ t[j].web => i = j
  PROVE  Distinct(t)
<1> SUFFICES ASSUME NEW i \in 1..Len(t), NEW j \in 1..Len(t),
                    t[i].web, t[j].web, Same(t[i].form, t[j].form)
             PROVE  i = j \/ t[i].id = t[j].id
  BY Zenon DEF Distinct
<1>1. p[i] \in 1..Len(s) /\ p[j] \in 1..Len(s) /\ t[i] = s[p[i]] /\ t[j] = s[p[j]]
  BY Zenon
<1>2. p[i] = p[j] \/ s[p[i]].id = s[p[j]].id
  BY <1>1, Zenon DEF Distinct
<1> QED BY <1>1, <1>2, Zenon

Listable(s) == s \in Seq(HostRecords) /\ Distinct(s)

LEMMA StatusList ==
  ASSUME NEW s, Listable(s), NEW i \in 1..Len(s), NEW b \in BOOLEAN
  PROVE  Listable([s EXCEPT ![i] = [s[i] EXCEPT !.is_close = b]])
<1> DEFINE h == [s[i] EXCEPT !.is_close = b]
           t == [s EXCEPT ![i] = h]
<1>1. s \in Seq(HostRecords) /\ s[i] \in HostRecords
  BY SeqElem DEF Listable
<1>2. h \in HostRecords /\ h.id = s[i].id /\ h.web = s[i].web /\ h.form = s[i].form
  BY <1>1 DEF HostRecords
<1> HIDE DEF h
<1>3. t \in Seq(HostRecords) /\ Len(t) = Len(s)
      /\ \A j \in 1..Len(s) : t[j] = IF j = i THEN h ELSE s[j]
  BY <1>1, <1>2, SeqPut
<1> HIDE DEF t
<1>4. \A j \in 1..Len(t) : t[j].id = s[j].id /\ t[j].web = s[j].web /\ t[j].form = s[j].form
  BY <1>2, <1>3, Zenon
<1>5. Distinct(t)
  BY <1>3, <1>4 DEF Listable, Distinct
<1> QED BY <1>3, <1>5 DEF Listable, t, h

LEMMA DeleteList ==
  ASSUME NEW s, Listable(s), NEW i \in 1..Len(s)
  PROVE  Listable(SubSeq(s, 1, i - 1) \o SubSeq(s, i + 1, Len(s)))
<1> DEFINE a == SubSeq(s, 1, i - 1)
           c == SubSeq(s, i + 1, Len(s))
           t == a \o c
           p == [j \in 1..Len(t) |-> IF j < i THEN j ELSE j + 1]
<1>1. /\ s \in Seq(HostRecords) /\ Distinct(s) /\ Len(s) \in Nat
      /\ \A j \in 1..Len(s) : s[j] \in HostRecords
  BY SeqElem, SeqLen DEF Listable
<1>2. i \in Nat /\ 1 <= i /\ i <= Len(s)
  BY <1>1
<1>3. /\ a \in Seq(HostRecords) /\ Len(a) = IF 1 <= i - 1 THEN i - 1 - 1 + 1 ELSE 0
      /\ \A j \in 1..(i - 1 - 1 + 1) : a[j] = s[1 + j - 1]
  <2>1. i - 1 \in Int /\ 1 \in Int /\ \A j \in 1..(i - 1) : s[j] \in HostRecords
    BY <1>1, <1>2
  <2> QED BY <2>1, SeqPart
<1>4. /\ c \in Seq(HostRecords)
      /\ Len(c) = IF i + 1 <= Len(s) THEN Len(s) - (i + 1) + 1 ELSE 0
      /\ \A j \in 1..(Len(s) - (i + 1) + 1) : c[j] = s[i + 1 + j - 1]
  <2>1. i + 1 \in Int /\ Len(s) \in Int /\ \A j \in (i + 1)..Len(s) : s[j] \in HostRecords
    BY <1>1, <1>2
  <2> QED BY <2>1, SeqPart
<1> HIDE DEF a, c
<1>5. Len(a) = i - 1 /\ Len(c) = Len(s) - i
  BY <1>1, <1>2, <1>3, <1>4
<1>6. t \in Seq(HostRecords) /\ Len(t) = Len(s) - 1
      /\ \A j \in 1..(Len(a) + Len(c)) : t[j] = IF j <= Len(a) THEN a[j] ELSE c[j - Len(a)]
  <2>1. t \in Seq(HostRecords) /\ Len(t) = Len(a) + Len(c)
        /\ \A j \in 1..(Len(a) + Len(c)) : t[j] = IF j <= Len(a) THEN a[j] ELSE c[j - Len(a)]
    <3>1. a \in Seq(HostRecords) /\ c \in Seq(HostRecords)
      BY <1>3, <1>4, Zenon
    <3> QED BY <3>1, SeqJoin, Zenon
  <2> HIDE DEF t
  <2> QED BY <1>1, <1>2, <1>5, <2>1
<1> HIDE DEF t
<1>7. \A j \in 1..Len(t) : p[j] \in 1..Len(s) /\ t[j] = s[p[j]]
  <2> TAKE j \in 1..Len(t)
  <2>1. CASE j < i
    <3>1. j \in 1..(i - 1 - 1 + 1) /\ 1 + j - 1 = j /\ j \in 1..(Len(a) + Len(c)) /\ j <= Len(a)
          /\ j \in 1..Len(s)
      BY <1>1, <1>2, <1>5, <1>6, <2>1
    <3>2. t[j] = a[j] /\ a[j] = s[1 + j - 1]
      BY <1>3, <1>6, <3>1, Zenon
    <3> QED BY <2>1, <3>1, <3>2, Zenon
  <2>2. CASE ~(j < i)
    <3> DEFINE o == j - Len(a)
    <3>1. /\ o \in 1..(Len(s) - (i + 1) + 1) /\ i + 1 + o - 1 = j + 1
          /\ j \in 1..(Len(a) + Len(c)) /\ ~(j <= Len(a)) /\ j + 1 \in 1..Len(s)
      BY <1>1, <1>2, <1>5, <1>6, <2>2
    <3> HIDE DEF o
    <3>2. t[j] = c[o]
      BY <1>6, <3>1, Zenon DEF o
    <3>3. c[o] = s[j + 1]
      BY <1>4, <3>1, Zenon
    <3> QED BY <2>2, <3>1, <3>2, <3>3, Zenon
  <2> QED BY <2>1, <2>2, Zenon
<1>8. \A j, l \in 1..Len(t) : p[j] = p[l] => j = l
  BY <1>1, <1>2, <1>6
<1> HIDE DEF p
<1>9. Distinct(t)
  <2>1. Distinct(s)
    BY DEF Listable
  <2>2. \A j \in 1..Len(t) : t[j].web => p[j] \in 1..Len(s) /\ t[j] = s[p[j]]
    BY <1>7, Zenon
  <2>3. \A j, l \in 1..Len(t) : p[j] = p[l] /\ t[j].web /\ t[l].web => j = l
    BY <1>8, Zenon
  <2> HIDE DEF Distinct
  <2> QED BY <2>1, <2>2, <2>3, DistinctPicked
<1>10. Listable(t)
  BY <1>6, <1>9, Zenon DEF Listable
<1> QED BY <1>10 DEF t, a, c

LEMMA AddList ==
  ASSUME NEW s, Listable(s), NEW h \in HostRecords,
         \A i \in 1..Len(s) : ~Same(s[i].form, h.form)
  PROVE  Listable(Append(s, h))
<1> DEFINE t == Append(s, h)
<1>1. s \in Seq(HostRecords) /\ Distinct(s) /\ Len(s) \in Nat
  BY SeqLen DEF Listable
<1>2. t \in Seq(HostRecords) /\ Len(t) = Len(s) + 1 /\ t[Len(s) + 1] = h
      /\ \A i \in 1..Len(s) : t[i] = s[i]
  BY <1>1
<1> HIDE DEF t
<1>3. Distinct(t)
  <2> SUFFICES ASSUME NEW i \in 1..Len(t), NEW j \in 1..Len(t),
                      t[i].web, t[j].web, Same(t[i].form, t[j].form)
               PROVE  i = j \/ t[i].id = t[j].id
    BY Zenon DEF Distinct
  <2>1. (i \in 1..Len(s) \/ i = Len(s) + 1) /\ (j \in 1..Len(s) \/ j = Len(s) + 1)
    BY <1>1, <1>2
  <2>2. CASE i \in 1..Len(s) /\ j \in 1..Len(s)
    BY <1>1, <1>2, <2>2 DEF Distinct
  <2>3. CASE i = Len(s) + 1 /\ j \in 1..Len(s)
    BY <1>2, <2>3, Zenon DEF Same
  <2>4. CASE j = Len(s) + 1 /\ i \in 1..Len(s)
    BY <1>2, <2>4, Zenon
  <2> QED BY <2>1, <2>2, <2>3, <2>4, Zenon
<1> QED BY <1>2, <1>3, Zenon DEF Listable, t

LEMMA EditList ==
  ASSUME NEW s, Listable(s), NEW i \in 1..Len(s), NEW h \in HostRecords, h.id = s[i].id,
         \A j \in 1..Len(s) : s[j].id # s[i].id => ~Same(s[j].form, h.form)
  PROVE  Listable([s EXCEPT ![i] = h])
<1> DEFINE t == [s EXCEPT ![i] = h]
<1>1. s \in Seq(HostRecords) /\ Distinct(s) /\ Len(s) \in Nat
  BY SeqLen, Zenon DEF Listable
<1>2. t \in Seq(HostRecords) /\ Len(t) = Len(s)
      /\ \A j \in 1..Len(s) : t[j] = IF j = i THEN h ELSE s[j]
  BY <1>1, SeqPut
<1> HIDE DEF t
<1>3. Distinct(t)
  <2> SUFFICES ASSUME NEW j \in 1..Len(s), NEW l \in 1..Len(s),
                      t[j].web, t[l].web, Same(t[j].form, t[l].form), j # l
               PROVE  t[j].id = t[l].id
    BY <1>2, Zenon DEF Distinct
  <2>1. CASE j = i
    <3>1. t[j] = h /\ t[l] = s[l]
      BY <1>2, <2>1, Zenon
    <3>2. Same(s[l].form, h.form)
      BY <3>1, Zenon DEF Same
    <3> QED BY <2>1, <3>1, <3>2, Zenon
  <2>2. CASE l = i
    BY <1>2, <2>2, Zenon
  <2>3. CASE j # i /\ l # i
    BY <1>1, <1>2, <2>3, Zenon DEF Distinct
  <2> QED BY <2>1, <2>2, <2>3, Zenon
<1> QED BY <1>2, <1>3 DEF Listable, t

LEMMA UploadList ==
  ASSUME NEW s, Listable(s), NEW new \in Seq(HostRecords),
         \A i \in 1..Len(new) : ~new[i].web, NEW S
  PROVE  Listable(new \o Without(s, S))
<1> DEFINE w == Without(s, S)
           t == new \o w
<1>1. s \in Seq(HostRecords) /\ Distinct(s)
  BY DEF Listable
<1>2. w \in Seq(HostRecords) /\ \E m : Picks(w, s, S, Len(s), m)
  BY <1>1, WithoutPicks, Zenon
<1> HIDE DEF w
<1>3. PICK m : Picks(w, s, S, Len(s), m)
  BY <1>2
<1>4. Len(w) \in Nat /\ Len(new) \in Nat
  BY <1>2, SeqLen
<1>5. t \in Seq(HostRecords) /\ Len(t) = Len(new) + Len(w)
      /\ \A j \in 1..(Len(new) + Len(w)) :
           t[j] = IF j <= Len(new) THEN new[j] ELSE w[j - Len(new)]
  BY <1>2, SeqJoin, Zenon
<1> HIDE DEF t
<1> DEFINE p == [j \in 1..Len(t) |-> IF j <= Len(new) THEN 0 ELSE m[j - Len(new)]]
<1>6. \A j \in 1..Len(t) : t[j].web => ~(j <= Len(new)) /\ j - Len(new) \in 1..Len(w)
  BY <1>4, <1>5
<1>7. \A j \in 1..Len(t) : t[j].web => p[j] = m[j - Len(new)] /\ p[j] \in 1..Len(s)
                                       /\ t[j] = s[p[j]]
  <2> SUFFICES ASSUME NEW j \in 1..Len(t), t[j].web
               PROVE  p[j] = m[j - Len(new)] /\ p[j] \in 1..Len(s) /\ t[j] = s[p[j]]
    BY Zenon
  <2>1. ~(j <= Len(new)) /\ j - Len(new) \in 1..Len(w)
    BY <1>6, Zenon
  <2>2. p[j] = m[j - Len(new)] /\ t[j] = w[j - Len(new)]
    BY <1>5, <2>1, Zenon
  <2> HIDE DEF p
  <2> QED BY <1>3, <2>1, <2>2, Zenon DEF Picks
<1>8. \A i, j \in 1..Len(t) : p[i] = p[j] /\ t[i].web /\ t[j].web => i = j
  <2> SUFFICES ASSUME NEW i \in 1..Len(t), NEW j \in 1..Len(t), p[i] = p[j], t[i].web, t[j].web,
                      i # j
               PROVE  FALSE
    BY Zenon
  <2> DEFINE k == i - Len(new)
             l == j - Len(new)
  <2>1. k \in 1..Len(w) /\ l \in 1..Len(w) /\ m[k] = m[l]
    BY <1>6, <1>7, Zenon
  <2>2. k < l \/ l < k
    BY <1>4, <1>5
  <2> HIDE DEF k, l
  <2>3. m[k] < m[l] \/ m[l] < m[k]
    BY <1>3, <2>1, <2>2, Zenon DEF Picks
  <2>4. m[k] \in Nat
    BY <1>3, <2>1 DEF Picks
  <2> QED BY <2>1, <2>3, <2>4
<1> HIDE DEF p
<1>9. \A j \in 1..Len(t) : t[j].web => p[j] \in 1..Len(s) /\ t[j] = s[p[j]]
  BY <1>7, Zenon
<1>10. Distinct(t)
  BY <1>1, <1>8, <1>9, DistinctPicked, Zenon
<1>11. Listable(t)
  BY <1>5, <1>10, Zenon DEF Listable
<1> QED BY <1>11 DEF t, w


HostsOK == \A cl \in Clients : Distinct(hosts[cl])

RecordsOK ==
  /\ hosts \in [Clients -> Seq(HostRecords)]
  /\ enabled \subseteq Clients
  /\ masked \in [Clients -> SUBSET STRING]
  /\ nextId \in Nat /\ edits \in Nat

(* The hosts of one client change, and perhaps the next id.                *)
Lists(cl, s) == Listable(s) /\ hosts' = [hosts EXCEPT ![cl] = s]

LEMMA ListsKeeps ==
  ASSUME TypeOK, HostsOK, NEW cl \in Clients, NEW s, Lists(cl, s)
  PROVE  hosts' \in [Clients -> Seq(HostRecords)] /\ HostsOK'
<1>1. hosts \in [Clients -> Seq(HostRecords)] /\ s \in Seq(HostRecords) /\ Distinct(s)
      /\ hosts' = [hosts EXCEPT ![cl] = s]
  BY DEF TypeOK, Lists, Listable
<1>2. hosts' \in [Clients -> Seq(HostRecords)]
  BY <1>1
<1>3. ASSUME NEW c \in Clients
      PROVE  Distinct(hosts'[c])
  <2>1. hosts'[c] = IF c = cl THEN s ELSE hosts[c]
    BY <1>1
  <2>2. Distinct(hosts[c])
    BY DEF HostsOK
  <2> QED BY <1>1, <2>1, <2>2, Zenon
<1> QED BY <1>2, <1>3 DEF HostsOK

LEMMA UploadedHosts ==
  ASSUME NEW file \in Uploads
  PROVE  LET new == [i \in DOMAIN file |-> [id |-> file[i].id, web |-> FALSE,
                                            is_close |-> FALSE, form |-> file[i].form]]
         IN new \in Seq(HostRecords) /\ \A i \in 1..Len(new) : ~new[i].web
<1> DEFINE new == [i \in DOMAIN file |-> [id |-> file[i].id, web |-> FALSE,
                                          is_close |-> FALSE, form |-> file[i].form]]
           E == [id : Nat, form : HostForms]
<1>1. file \in Seq(E)
  BY HostAssumption, Zenon
<1> HIDE DEF E
<1>2. Len(file) \in Nat /\ DOMAIN file = 1..Len(file) /\ \A i \in 1..Len(file) : file[i] \in E
  BY <1>1, SeqLen, SeqElem
<1> USE DEF E
<1>3. ASSUME NEW i \in 1..Len(file)
      PROVE  new[i] \in HostRecords /\ ~new[i].web
  <2>1. file[i].id \in Nat /\ file[i].form \in HostForms
    BY <1>2, Zenon
  <2>2. new[i] = [id |-> file[i].id, web |-> FALSE, is_close |-> FALSE, form |-> file[i].form]
    BY <1>2, Zenon
  <2> DEFINE x == [id |-> file[i].id, web |-> FALSE, is_close |-> FALSE,
                   form |-> file[i].form]
  <2>3. x \in HostRecords /\ ~x.web
    BY <2>1, Zenon DEF HostRecords
  <2> QED BY <2>2, <2>3, Zenon
<1>4. DOMAIN new = 1..Len(file) /\ new = [i \in 1..Len(file) |-> new[i]]
  BY <1>2, Zenon
<1> HIDE DEF new
<1>5. new \in Seq(HostRecords)
  BY <1>2, <1>3, <1>4
<1>6. Len(new) = Len(file)
  BY <1>2, <1>4, <1>5, SeqLen
<1> QED BY <1>3, <1>5, <1>6, Zenon DEF new

LEMMA UploadedIds ==
  ASSUME NEW file \in Uploads, NEW n \in Nat
  PROVE  Max({n} \union {file[i].id + 1 : i \in DOMAIN file}) \in Nat
<1> DEFINE E == [id : Nat, form : HostForms]
           ids == {file[i].id + 1 : i \in DOMAIN file}
           S == {n} \union ids
<1>1. file \in Seq(E)
  BY HostAssumption, Zenon
<1> HIDE DEF E
<1>2. Len(file) \in Nat /\ DOMAIN file = 1..Len(file) /\ \A i \in 1..Len(file) : file[i] \in E
  BY <1>1, SeqLen, SeqElem
<1> USE DEF E
<1>3. S \subseteq Nat /\ S # {}
  BY <1>2
<1> DEFINE f == [i \in 1..Len(file) |-> file[i].id + 1]
<1>4. f \in [1..Len(file) -> Nat]
  BY <1>2
<1>5. PICK u \in Nat : \A i \in 1..Len(file) : f[i] <= u
  BY <1>2, <1>4, ListBounded, Zenon
<1>6. n + u \in Nat /\ \A x \in S : x <= n + u
  BY <1>2, <1>4, <1>5
<1> HIDE DEF S
<1>7. Max(S) \in Nat
  <2>1. \E x \in S : \A y \in S : x >= y
    BY <1>3, <1>6, HasGreatest, Zenon
  <2>2. Max(S) \in S
    BY <2>1, Zenon DEF Max
  <2> QED BY <1>3, <2>2, Zenon
<1> QED BY <1>7 DEF S, ids

LEMMA ChangeKeeps ==
  ASSUME TypeOK, HostsOK, NEW cl \in Clients, Change(cl)
  PROVE  RecordsOK' /\ HostsOK' /\ UNCHANGED <<config, request, cache>>
<1> DEFINE s == hosts[cl]
<1>1. /\ Listable(s) /\ s \in Seq(HostRecords) /\ Len(s) \in Nat /\ DOMAIN s = 1..Len(s)
      /\ hosts \in [Clients -> Seq(HostRecords)]
  BY SeqLen, Zenon DEF TypeOK, HostsOK, Listable
<1>2. ASSUME Edit
      PROVE  edits' \in Nat /\ UNCHANGED <<config, request, cache>>
  BY <1>2 DEF Edit, TypeOK
<1>3. ASSUME Edit, UNCHANGED <<enabled, masked, nextId>>, NEW t, Lists(cl, t)
      PROVE  RecordsOK' /\ HostsOK' /\ UNCHANGED <<config, request, cache>>
  BY <1>2, <1>3, ListsKeeps, Zenon DEF RecordsOK, TypeOK
<1>4. /\ \A id \in 1..nextId : Position(cl, id) \subseteq 1..Len(s)
      /\ \A i \in 1..Len(s) : s[i] \in HostRecords
  BY <1>1, SeqElem, Zenon DEF Position
<1>5. \A f \in Forms : f \in HostForms
  BY HostAssumption
<1>6. CASE \E i \in 1..Len(s) : \E b \in BOOLEAN : HostStatus(cl, i, b)
  <2>1. PICK i \in 1..Len(s), b \in BOOLEAN : HostStatus(cl, i, b)
    BY <1>6
  <2>2. hosts' = [hosts EXCEPT ![cl] = [s EXCEPT ![i] = [s[i] EXCEPT !.is_close = b]]]
    BY <2>1 DEF HostStatus
  <2>3. Lists(cl, [s EXCEPT ![i] = [s[i] EXCEPT !.is_close = b]])
    BY <1>1, <1>4, <2>2, StatusList, Zenon DEF Lists
  <2> QED BY <1>3, <2>1, <2>3 DEF HostStatus
<1>7. CASE \E i \in 1..Len(s) : HostDelete(cl, i)
  <2>1. PICK i \in 1..Len(s) : HostDelete(cl, i)
    BY <1>7
  <2>2. hosts' = [hosts EXCEPT ![cl] = SubSeq(s, 1, i - 1) \o SubSeq(s, i + 1, Len(s))]
    BY <2>1, Zenon DEF HostDelete
  <2>3. Lists(cl, SubSeq(s, 1, i - 1) \o SubSeq(s, i + 1, Len(s)))
    BY <1>1, <1>4, <2>2, DeleteList, Zenon DEF Lists
  <2> QED BY <1>3, <2>1, <2>3, Zenon DEF HostDelete
<1>8. CASE \E i \in 1..Len(s) : \E f \in Forms : HostEdit(cl, i, f)
  <2>1. PICK i \in 1..Len(s), f \in Forms : HostEdit(cl, i, f)
    BY <1>8
  <2> DEFINE h == fill_host_from_params(s[i], f)
  <2>2. h \in HostRecords /\ h.id = s[i].id /\ h.form = f
    BY <1>4, <1>5, Zenon DEF fill_host_from_params, HostRecords
  <2>3. hosts' = [hosts EXCEPT ![cl] = [s EXCEPT ![i] = h]]
    BY <2>1, Zenon DEF HostEdit
  <2>4. \A j \in 1..Len(s) : s[j].id # s[i].id => ~Same(s[j].form, h.form)
    BY <1>1, <2>1, <2>2, Zenon DEF HostEdit, Taken
  <2> HIDE DEF h
  <2>5. Lists(cl, [s EXCEPT ![i] = h])
    BY <1>1, <1>4, <2>2, <2>3, <2>4, EditList, Zenon DEF Lists
  <2> QED BY <1>3, <2>1, <2>5, Zenon DEF HostEdit
<1>9. CASE \E f \in Forms : HostAdd(cl, f)
  <2>1. PICK f \in Forms : HostAdd(cl, f)
    BY <1>9
  <2> DEFINE h == fill_host_from_params([id |-> nextId, is_close |-> FALSE], f)
  <2>2. h \in HostRecords /\ h.form = f
    BY <1>5, Zenon DEF fill_host_from_params, HostRecords, TypeOK
  <2>3. hosts' = [hosts EXCEPT ![cl] = Append(s, h)]
    BY <2>1, Zenon DEF HostAdd
  <2>4. \A j \in 1..Len(s) : ~Same(s[j].form, h.form)
    BY <1>1, <2>1, <2>2, Zenon DEF HostAdd, Taken
  <2> HIDE DEF h
  <2>5. Lists(cl, Append(s, h))
    BY <1>1, <2>2, <2>3, <2>4, AddList, Zenon DEF Lists
  <2>6. hosts' \in [Clients -> Seq(HostRecords)] /\ HostsOK'
    BY <2>5, ListsKeeps
  <2> QED BY <1>2, <2>1, <2>6 DEF HostAdd, RecordsOK, TypeOK
<1>10. CASE \E file \in Uploads : Upload(cl, file)
  <2>1. PICK file \in Uploads : Upload(cl, file)
    BY <1>10
  <2> DEFINE new == [i \in DOMAIN file |-> [id |-> file[i].id, web |-> FALSE,
                                            is_close |-> FALSE, form |-> file[i].form]]
             Uploaded == {h \in Range(s) : ~h.web}
  <2>2. new \in Seq(HostRecords) /\ \A i \in 1..Len(new) : ~new[i].web
    BY UploadedHosts, Zenon
  <2>3. hosts' = [hosts EXCEPT ![cl] = new \o Without(s, Uploaded)]
    BY <2>1, Zenon DEF Upload
  <2> HIDE DEF new, Uploaded
  <2>4. Lists(cl, new \o Without(s, Uploaded))
    BY <1>1, <2>2, <2>3, UploadList, Zenon DEF Lists
  <2>5. hosts' \in [Clients -> Seq(HostRecords)] /\ HostsOK'
    BY <2>4, ListsKeeps, Zenon
  <2>6. nextId' \in Nat
    <3>1. nextId' = Max({nextId} \union {file[i].id + 1 : i \in DOMAIN file})
      BY <2>1, Zenon DEF Upload
    <3>2. nextId \in Nat
      BY Zenon DEF TypeOK
    <3> QED BY <3>1, <3>2, UploadedIds, Zenon
  <2> QED BY <1>2, <2>1, <2>5, <2>6, Zenon DEF Upload, RecordsOK, TypeOK
<1>11. CASE ClientStatus(cl)
  BY <1>2, <1>11, Zenon DEF ClientStatus, RecordsOK, HostsOK, TypeOK
<1>12. CASE \E t \in Targets : MaskChanges(cl, t)
  <2>1. PICK t \in Targets : MaskChanges(cl, t)
    BY <1>12
  <2>2. t \in STRING
    <3>1. ASSUME NEW f \in Forms, t \in Range(f.targets)
          PROVE  t \in STRING
      BY <1>5, <3>1, SeqElem, SeqLen DEF HostForms, Range
    <3>2. ASSUME t \in Range(Lines)
          PROVE  t \in STRING
      BY <3>2, HostAssumption, SeqElem, SeqLen DEF Range
    <3>3. t \in Range(Lines) \/ \E f \in Forms : t \in Range(f.targets)
      BY Zenon DEF Targets
    <3> QED BY <3>1, <3>2, <3>3, Zenon
  <2>3. masked' \in [Clients -> SUBSET STRING]
    <3>1. masked \in [Clients -> SUBSET STRING]
      BY Zenon DEF TypeOK
    <3>2. PICK S \in {masked[cl] \union {t}, masked[cl] \ {t}} :
            masked' = [masked EXCEPT ![cl] = S]
      BY <2>1, Zenon DEF MaskChanges
    <3>3. masked[cl] \in SUBSET STRING
      BY <3>1, Zenon
    <3>4. S \in SUBSET STRING
      BY <2>2, <3>3, Zenon
    <3> DEFINE Y == SUBSET STRING
    <3> HIDE DEF Y
    <3>5. masked \in [Clients -> Y] /\ S \in Y
      BY <3>1, <3>4, Zenon DEF Y
    <3>6. masked' \in [Clients -> Y]
      BY <3>2, <3>5, Zenon
    <3> QED BY <3>6, Zenon DEF Y
  <2> QED BY <1>2, <2>1, <2>3, Zenon DEF MaskChanges, RecordsOK, HostsOK, TypeOK
<1> QED BY <1>4, <1>6, <1>7, <1>8, <1>9, <1>10, <1>11, <1>12, Zenon DEF Change


-----------------------------------------------------------------------------
(* The inductive invariant.                                                *)
HostInv == TypeOK /\ ThreadInv /\ CacheInv /\ OrderInv /\ HostsOK

LEMMA HostInvInit == Init => HostInv
<1> SUFFICES ASSUME Init
             PROVE  HostInv
  OBVIOUS
<1>1. /\ entries = <<>> /\ order = <<>> /\ request = [q \in Threads |-> Idle]
      /\ enabled = Clients /\ masked = [c \in Clients |-> {}] /\ nextId = 3 /\ edits = 0
      /\ limit \in CacheLimits /\ https \in Ports /\ just \in JustProxies
  BY Zenon DEF Init
<1>2. DOMAIN entries = {} /\ order \in Seq(Keys) /\ Len(order) = 0
  <2>1. <<>> \in Seq(Keys) /\ Len(<<>>) = 0
    BY SeqNil
  <2>2. DOMAIN <<>> = 1..0
    BY <2>1, SeqLen
  <2> QED BY <1>1, <2>1, <2>2
<1>3. entries \in [DOMAIN entries -> Responses] /\ DOMAIN entries \subseteq Keys
  <2>1. entries = [x \in DOMAIN entries |-> entries[x]]
    BY <1>1
  <2> QED BY <1>2, <2>1
<1>4. hosts \in [Clients -> Seq(HostRecords)] /\ HostsOK
  <2>1. PICK cl \in Clients, f \in Forms :
          hosts = [c \in Clients |->
                     IF c = cl THEN <<[id |-> 2, web |-> TRUE, is_close |-> FALSE, form |-> f]>>
                               ELSE <<>>]
    BY Zenon DEF Init
  <2> DEFINE h == [id |-> 2, web |-> TRUE, is_close |-> FALSE, form |-> f]
  <2>2. h \in HostRecords
    BY HostAssumption, Zenon DEF HostRecords
  <2>3. hosts = [c \in Clients |-> IF c = cl THEN <<h>> ELSE <<>>]
    BY <2>1, Zenon
  <2> HIDE DEF h
  <2>4. DOMAIN hosts = Clients /\ hosts = [c \in Clients |-> hosts[c]]
        /\ \A c \in Clients : hosts[c] = <<h>> \/ hosts[c] = <<>>
    BY <2>3
  <2>5. <<h>> \in Seq(HostRecords) /\ Len(<<h>>) = 1
    BY <2>2
  <2>6. <<>> \in Seq(HostRecords) /\ Len(<<>>) = 0
    BY SeqNil
  <2>7. Distinct(<<h>>) /\ Distinct(<<>>)
    BY <2>5, <2>6 DEF Distinct
  <2>8. \A c \in Clients : hosts[c] \in Seq(HostRecords) /\ Distinct(hosts[c])
    BY <2>4, <2>5, <2>6, <2>7, Zenon
  <2> QED BY <2>4, <2>8 DEF HostsOK
<1>5. limit \in Nat /\ https \in BOOLEAN /\ just \in BOOLEAN
  BY <1>1, HostAssumption, Zenon
<1>6. masked \in [Clients -> SUBSET STRING]
  BY <1>1, Zenon
<1>7. TypeOK
  BY <1>1, <1>2, <1>3, <1>4, <1>5, <1>6, Zenon DEF TypeOK
<1>8. ThreadInv
  BY <1>1, Zenon DEF ThreadInv, Good
<1>9. CacheInv
  BY <1>2 DEF CacheInv
<1>10. OrderInv
  <2>1. \A i \in 1..0 : FALSE
    OBVIOUS
  <2>2. Enumerates(order, DOMAIN entries)
    BY <1>2, <2>1, Zenon DEF Enumerates
  <2>3. limit > 0 => 0 <= limit
    BY <1>5
  <2> QED BY <1>2, <2>2, <2>3, Zenon DEF OrderInv
<1> QED BY <1>4, <1>7, <1>8, <1>9, <1>10 DEF HostInv

LEMMA HostInvServe ==
  ASSUME HostInv, NEW q \in Threads, Serves(q)
  PROVE  HostInv'
<1> USE DEF HostInv
<1>1. PICK r : MovesTo(q, r)
  BY Moves
<1>2. UNCHANGED <<limit, https, just, hosts, enabled, masked, nextId, edits>>
  BY Moves, Zenon DEF Kept, config, records
<1>3. r \in {Idle} \union Served /\ Good(r) /\ request' = [request EXCEPT ![q] = r]
  BY <1>1, Zenon DEF MovesTo
<1>4. request' \in [Threads -> {Idle} \union Served]
  BY <1>3, Zenon DEF TypeOK
<1>5. ThreadInv'
  <2> SUFFICES ASSUME NEW p \in Threads
               PROVE  Good(request[p])'
    BY Zenon DEF ThreadInv
  <2>1. Good(request'[p])
    BY <1>3, Zenon DEF TypeOK, ThreadInv
  <2>2. just' = just
    BY <1>2
  <2> QED BY <2>1, <2>2, Zenon DEF Good, KeyFor, cache_key_for_request, Sniffed
<1>6. HostsOK'
  BY <1>2, Zenon DEF HostsOK
<1>7. /\ order' \in Seq(Keys)
      /\ entries' \in [DOMAIN entries' -> Responses] /\ DOMAIN entries' \subseteq Keys
      /\ OrderInv' /\ CacheInv'
  <2>1. CASE Store(q)
    <3> DEFINE s == request[q]
    <3>1. s.pc = "store" /\ CacheInsert(KeyFor(s), s.answer)
      BY <2>1, Zenon DEF Store, KeyOf, KeyFor
    <3>2. s \in Served /\ s # Idle
      BY <3>1 DEF TypeOK, Idle
    <3>3. /\ s.route # None /\ KeyFor(s) # None
          /\ s.answer \in Responses /\ KeyFor(s) = KeyIn(s.answer)
      BY <3>1, <3>2, Zenon DEF ThreadInv, Good
    <3>4. KeyFor(s) \in Keys
      BY <3>2, <3>3, KeyType, Zenon
    <3> HIDE DEF s
    <3> QED BY <1>2, <3>1, <3>3, <3>4, CacheInsertKeeps, Zenon
  <2>2. CASE ~Store(q)
    <3>1. UNCHANGED <<entries, order>>
      BY <2>2, Zenon DEF Serves, Arrive, Route, Prepare, Lookup, Open, Fetch, Close, cache
    <3> QED BY <1>2, <3>1, Zenon DEF TypeOK, OrderInv, CacheInv
  <2> QED BY <2>1, <2>2, Zenon
<1>8. TypeOK'
  BY <1>2, <1>4, <1>7, Zenon DEF TypeOK
<1> QED BY <1>5, <1>6, <1>7, <1>8

LEMMA HostInvNext == HostInv /\ [Next]_vars => HostInv'
<1> SUFFICES ASSUME HostInv, [Next]_vars
             PROVE  HostInv'
  OBVIOUS
<1>1. CASE \E q \in Threads : Serve(q)
  BY <1>1, ServeStep, HostInvServe
<1>2. CASE \E cl \in Clients : Change(cl)
  <2>1. RecordsOK' /\ HostsOK' /\ UNCHANGED <<config, request, cache>>
    BY <1>2, ChangeKeeps, Zenon DEF HostInv
  <2>2. UNCHANGED <<limit, https, just, request, entries, order>>
    BY <2>1 DEF config, cache
  <2>3. TypeOK'
    BY <2>1, <2>2, Zenon DEF HostInv, TypeOK, RecordsOK
  <2>4. ThreadInv' /\ CacheInv' /\ OrderInv'
    BY <2>2, Zenon DEF HostInv, ThreadInv, CacheInv, OrderInv, Good, KeyFor, cache_key_for_request,
                Sniffed
  <2> QED BY <2>1, <2>3, <2>4, Zenon DEF HostInv
<1>3. CASE UNCHANGED vars
  <2>1. UNCHANGED <<limit, https, just, hosts, enabled, masked, request, entries, order, nextId,
                    edits>>
    BY <1>3, Zenon DEF vars
  <2> QED BY <2>1, Zenon DEF HostInv, TypeOK, ThreadInv, CacheInv, OrderInv, HostsOK, Good, KeyFor,
                      cache_key_for_request, Sniffed
<1> QED BY <1>1, <1>2, <1>3, Zenon DEF Next

LEMMA HostInvariant == Spec => []HostInv
BY HostInvInit, HostInvNext, PTL DEF Spec

(* Whatever a request, an edit on the Web, an upload or a health report    *)
(* does, every variable keeps its type.                                    *)
THEOREM TypeCorrect == Spec => []TypeOK
<1>1. HostInv => TypeOK
  BY DEF HostInv
<1> QED BY <1>1, HostInvariant, PTL

(* A visitor gets a response to the request it made, also from the cache.  *)
THEOREM AnswersAlwaysFit == Spec => []AnswersFit
<1>1. HostInv => AnswersFit
  BY Zenon DEF HostInv, ThreadInv, Good, AnswersFit
<1> QED BY <1>1, HostInvariant, PTL

(* HttpResponseCache: order lists the keys of entries once and the limit   *)
(* holds, however the insertions interleave.                               *)
THEOREM CacheAlwaysConsistent == Spec => []CacheConsistent
<1>1. HostInv => CacheConsistent
  <2> SUFFICES ASSUME HostInv
               PROVE  CacheConsistent
    OBVIOUS
  <2>1. order \in Seq(Keys) /\ Enumerates(order, DOMAIN entries)
        /\ (limit > 0 => Len(order) <= limit)
    BY Zenon DEF HostInv, TypeOK, OrderInv
  <2>2. Cardinality(DOMAIN entries) = Len(order) /\ Range(order) = DOMAIN entries
    BY <2>1, EnumeratedSize, Zenon
  <2> QED BY <2>1, <2>2, Zenon DEF CacheConsistent
<1> QED BY <1>1, HostInvariant, PTL

(* The Web handlers never make two hosts of a client with the same name    *)
(* and location unless they share an id, whatever uploads come between.    *)
THEOREM WebHostsAlwaysDistinct == Spec => []WebHostsDistinct
<1>1. HostInv => WebHostsDistinct
  <2> SUFFICES ASSUME HostInv, NEW cl \in Clients
               PROVE  \A i, j \in DOMAIN hosts[cl] :
                        LET h == hosts[cl][i]
                            g == hosts[cl][j]
                        IN h.web /\ g.web /\ Same(h.form, g.form) => i = j \/ h.id = g.id
    BY Zenon DEF WebHostsDistinct
  <2>1. hosts[cl] \in Seq(HostRecords) /\ Distinct(hosts[cl])
    BY Zenon DEF HostInv, TypeOK, HostsOK
  <2>2. DOMAIN hosts[cl] = 1..Len(hosts[cl])
    BY <2>1, SeqLen, Zenon
  <2> QED BY <2>1, <2>2, Zenon DEF Distinct
<1> QED BY <1>1, HostInvariant, PTL


-----------------------------------------------------------------------------
(* The choice of a route.                                                  *)
LEMMA RouteChosen ==
  ASSUME HostInv, Next, NEW q \in Threads
  PROVE  TakesLongest(q)
<1> SUFFICES ASSUME request[q] # Idle, request[q].pc = "route",
                    request'[q].pc \in {"prepare", "open"},
                    NEW cl \in enabled, NEW i \in DOMAIN hosts[cl],
                    Candidate(cl, hosts[cl][i], request[q].asked)
             PROVE  Len(hosts[cl][i].form.location) <= Len(request'[q].route.host.form.location)
  BY Zenon DEF TakesLongest
<1>1. request'[q] # request[q]
  BY Zenon
<1>2. \E p \in Threads : Serve(p)
  <2>1. ASSUME NEW c \in Clients, Change(c)
        PROVE  FALSE
    <3>1. UNCHANGED <<config, request, cache>>
      BY <2>1, ChangeKeeps, Zenon DEF HostInv
    <3> QED BY <1>1, <3>1, Zenon
  <2> QED BY <2>1, Zenon DEF Next
<1>3. PICK p \in Threads : Serve(p)
  BY <1>2, Zenon
<1>4. PICK r : MovesTo(p, r)
  BY <1>3, ServeStep, Moves, Zenon DEF HostInv
<1>5. p = q /\ request'[q] = r
  BY <1>1, <1>4, Zenon DEF MovesTo, HostInv, TypeOK
<1>6. r # Idle
  BY <1>5 DEF Idle
<1>7. r.route # None /\ r.route \in find_host_route(request[q].asked)
  BY <1>4, <1>5, <1>6, Zenon DEF MovesTo
<1>8. CandidateAt(cl, i, request[q].asked)
  <2>1. cl \in Clients /\ hosts[cl] \in Seq(HostRecords)
    BY Zenon DEF HostInv, TypeOK
  <2>2. DOMAIN hosts[cl] = 1..Len(hosts[cl])
    BY <2>1, SeqLen, Zenon
  <2> QED BY <2>2, Zenon DEF CandidateAt
<1>9. r.route \in Routes /\ Reaches(r.route, LocationAt(cl, i))
  BY <1>7, <1>8, FindsLongest, Zenon DEF HostInv
<1>10. Location(r.route) \in Nat /\ LocationAt(cl, i) \in Nat
  <2>1. hosts[cl][i] \in HostRecords
    BY SeqElem, <1>8, Zenon DEF HostInv, TypeOK, CandidateAt
  <2>2. LocationAt(cl, i) \in Nat
    BY <2>1, SeqLen, Zenon DEF LocationAt, HostRecords, HostForms
  <2> QED BY <1>9, <2>2, LocationNat, Zenon
<1> QED BY <1>5, <1>9, <1>10, Zenon DEF Reaches, Location, LocationAt

(* find_host_route picks a host with the longest location among those that *)
(* could serve the request when it looks, in any order of the clients.     *)
THEOREM RouteAlwaysLongest == Spec => RouteIsLongest
<1>1. HostInv /\ [Next]_vars => [\A q \in Threads : TakesLongest(q)]_vars
  BY RouteChosen
<1> QED BY <1>1, HostInvariant, PTL DEF Spec, RouteIsLongest

-----------------------------------------------------------------------------
(* As long as the mask stays the same, n connections reach each of the n   *)
(* targets that are left, wherever the cursor of select_target stood.      *)
THEOREM RotationAlways == Spec => []Rotation
<1>1. HostInv => Rotation
  <2> SUFFICES ASSUME HostInv, NEW cl \in Clients, NEW cursor \in 0..Len(Lines)
               PROVE  LET live == Live(cl, Lines)
                          at[k \in 0..Len(live)] ==
                            IF k = 0 THEN cursor ELSE select_target(live, at[k - 1]).next
                      IN {select_target(live, at[k]).target : k \in 0..(Len(live) - 1)}
                           = Range(live)
    BY Zenon DEF Rotation
  <2> DEFINE live == Live(cl, Lines)
             at == CHOOSE g : g = [k \in 0..Len(live) |->
                                     IF k = 0 THEN cursor ELSE select_target(live, g[k - 1]).next]
  <2>1. Lines \in Seq(STRING)
    BY HostAssumption
  <2>2. cursor \in Nat
    BY <2>1, SeqLen
  <2>3. live \in Seq(STRING)
    BY <2>1, WithoutPicks, Zenon DEF Live
  <2> HIDE DEF live
  <2>4. Cursors(at, live, cursor)
    BY <2>2, <2>3, CursorsOf
  <2> HIDE DEF at
  <2>5. {select_target(live, at[k]).target : k \in 0..(Len(live) - 1)} = Range(live)
    BY <2>2, <2>3, <2>4, CursorsReachAll, Zenon
  <2> QED BY <2>5, Zenon DEF live, at
<1> QED BY <1>1, HostInvariant, PTL


=============================================================================
