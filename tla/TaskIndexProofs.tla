-------------------------- MODULE TaskIndexProofs --------------------------
(***************************************************************************)
(* Divisions, walks and nested loops mean the same items by the same       *)
(* linear indices, for every size of size_t, all ranges and tiles, each    *)
(* function of the interface and every number of threads.                  *)
(***************************************************************************)
EXTENDS TaskIndex, FiniteSetTheorems, TLAPS

-----------------------------------------------------------------------------
(* Division. *)

(* Quotient and remainder. *)
LEMMA Division ==
  ASSUME NEW x \in Nat, NEW b \in Nat \ {0}
  PROVE  /\ x \div b \in Nat /\ x % b \in 0 .. b - 1
         /\ x = b * (x \div b) + (x % b)
  BY SMT

(* Multiples of b lie at least b apart. *)
LEMMA Mono ==
  ASSUME NEW p \in Int, NEW q \in Int, p < q, NEW b \in Nat \ {0}
  PROVE  b * p + b <= b * q
  BY SMT

(* Whatever has the form of a division is one. *)
LEMMA DivisionIsUnique ==
  ASSUME NEW b \in Nat \ {0}, NEW q \in Nat, NEW r \in 0 .. b - 1
  PROVE  (b * q + r) \div b = q /\ (b * q + r) % b = r
  <1> DEFINE x == b * q + r
  <1>1. x \in Nat
    BY SMT
  <1>2. /\ x \div b \in Nat /\ x % b \in 0 .. b - 1
        /\ x = b * (x \div b) + (x % b)
    BY <1>1, Division
  <1>3. ~(x \div b < q)
    <2>1. x \div b < q => b * (x \div b) + b <= b * q
      BY <1>2, Mono
    <2> QED BY <1>2, <2>1, SMT
  <1>4. ~(q < x \div b)
    <2>1. q < x \div b => b * q + b <= b * (x \div b)
      BY <1>2, Mono
    <2> QED BY <1>2, <2>1, SMT
  <1> QED BY <1>2, <1>3, <1>4, SMT

(* A product and the results of a division, named so that facts about them find their *)
(* instances: the provers do not look for those below \div and %.       *)
Quotient(x, b) == x \div b
Remainder(x, b) == x % b
IsProduct(c, a, b) == c = a * b

(* Division, with names for its parts. *)
LEMMA QuotientAndRemainder ==
  \A x \in Nat, b \in Nat \ {0} :
    /\ Quotient(x, b) \in Nat /\ Remainder(x, b) \in 0 .. b - 1
    /\ x = b * Quotient(x, b) + Remainder(x, b)
  BY Division DEF Quotient, Remainder

(* Divisions by two numbers and by their product. *)
LEMMA DivDiv ==
  ASSUME NEW x \in Nat, NEW a \in Nat \ {0}, NEW b \in Nat \ {0}, NEW c \in Nat \ {0},
         IsProduct(c, a, b)
  PROVE  /\ Quotient(Quotient(x, b), a) = Quotient(x, c)
         /\ Remainder(Quotient(x, b), a) = Quotient(Remainder(x, c), b)
         /\ Remainder(Remainder(x, c), b) = Remainder(x, b)
  <1> DEFINE q == x \div b
             r == x % b
             p == q \div a
             s == q % a
  <1>1. a * b \in Nat \ {0} /\ c = a * b
    BY SMT DEF IsProduct
  <1>2. q \in Nat /\ r \in 0 .. b - 1 /\ x = b * q + r
    BY Division
  <1>3. p \in Nat /\ s \in 0 .. a - 1 /\ q = a * p + s
    BY <1>2, Division
  <1> HIDE DEF q, r, p, s
  <1> DEFINE t == b * s + r
  <1>4. t \in 0 .. (a * b) - 1
    <2>1. b * s + b <= b * a
      BY <1>3, Mono
    <2> QED BY <1>2, <1>3, <2>1, SMT
  <1>5. x = (a * b) * p + t
    BY <1>2, <1>3, SMT
  <1>6. x \div (a * b) = p /\ x % (a * b) = t
    <2> HIDE DEF t
    <2> QED BY <1>1, <1>3, <1>4, <1>5, DivisionIsUnique
  <1>7. t \div b = s /\ t % b = r
    BY <1>2, <1>3, DivisionIsUnique
  <1> QED BY <1>1, <1>6, <1>7 DEF q, r, p, s, Quotient, Remainder

-----------------------------------------------------------------------------
(* The number of items. *)

(* What the lemmas about a call need to know of it. *)
CallOK ==
  /\ function.dims \in 1 .. 6
  /\ range \in [Dims -> 0 .. M - 1] /\ tile \in [Dims -> 1 .. M - 1]
  /\ \A d \in Dims : ~Tiled(d) => tile[d] = 1

(* A product of up to six factors, from each of them on. *)
LEMMA ProductExists ==
  ASSUME NEW n \in 1 .. 6, NEW L \in [1 .. n -> Nat]
  PROVE  \E f \in [1 .. n + 1 -> Nat] :
           f[n + 1] = 1 /\ \A d \in 1 .. n : f[d] = L[d] * f[d + 1]
  <1> DEFINE g1 == L[n] * 1
             g2 == L[n - 1] * g1
             g3 == L[n - 2] * g2
             g4 == L[n - 3] * g3
             g5 == L[n - 4] * g4
             g6 == L[n - 5] * g5
             f == [d \in 1 .. n + 1 |->
                     IF d = n + 1 THEN 1 ELSE IF d = n THEN g1 ELSE IF d = n - 1 THEN g2
                     ELSE IF d = n - 2 THEN g3 ELSE IF d = n - 3 THEN g4
                     ELSE IF d = n - 4 THEN g5 ELSE g6]
  <1>1. \A a, b \in Nat : a * b \in Nat
    BY SMT
  <1>2. /\ g1 \in Nat
        /\ n - 1 \in 1 .. n => g2 \in Nat
        /\ n - 2 \in 1 .. n => g3 \in Nat
        /\ n - 3 \in 1 .. n => g4 \in Nat
        /\ n - 4 \in 1 .. n => g5 \in Nat
        /\ n - 5 \in 1 .. n => g6 \in Nat
    <2>1. \A d \in 1 .. n : L[d] \in Nat
      OBVIOUS
    <2>2. g1 \in Nat
      BY <2>1, SMT
    <2> HIDE DEF g1
    <2>3. n - 1 \in 1 .. n => g2 \in Nat
      BY <1>1, <2>1, <2>2, Zenon
    <2> HIDE DEF g2
    <2>4. n - 2 \in 1 .. n => n - 1 \in 1 .. n /\ g3 \in Nat
      <3>1. n - 2 \in 1 .. n => n - 1 \in 1 .. n
        OBVIOUS
      <3> QED BY <1>1, <2>1, <2>3, <3>1, Zenon
    <2> HIDE DEF g3
    <2>5. n - 3 \in 1 .. n => n - 2 \in 1 .. n /\ g4 \in Nat
      <3>1. n - 3 \in 1 .. n => n - 2 \in 1 .. n
        OBVIOUS
      <3> QED BY <1>1, <2>1, <2>4, <3>1, Zenon
    <2> HIDE DEF g4
    <2>6. n - 4 \in 1 .. n => n - 3 \in 1 .. n /\ g5 \in Nat
      <3>1. n - 4 \in 1 .. n => n - 3 \in 1 .. n
        OBVIOUS
      <3> QED BY <1>1, <2>1, <2>5, <3>1, Zenon
    <2> HIDE DEF g5
    <2>7. n - 5 \in 1 .. n => n - 4 \in 1 .. n /\ g6 \in Nat
      <3>1. n - 5 \in 1 .. n => n - 4 \in 1 .. n
        OBVIOUS
      <3> QED BY <1>1, <2>1, <2>6, <3>1, Zenon
    <2> QED BY <2>2, <2>3, <2>4, <2>5, <2>6, <2>7
  <1>3. /\ g1 = L[n] * 1 /\ g2 = L[n - 1] * g1 /\ g3 = L[n - 2] * g2
        /\ g4 = L[n - 3] * g3 /\ g5 = L[n - 4] * g4 /\ g6 = L[n - 5] * g5
    OBVIOUS
  <1> HIDE DEF g1, g2, g3, g4, g5, g6
  <1>4. f \in [1 .. n + 1 -> Nat]
    BY <1>2
  <1>5. f[n + 1] = 1 /\ f[n] = g1 /\ f[n] = L[n] * f[n + 1]
    BY <1>3
  <1>6. \A d \in 1 .. n : f[d] = L[d] * f[d + 1]
    <2>1. n - 1 \in 1 .. n => f[n - 1] = L[n - 1] * f[n]
      BY <1>3, <1>5
    <2>2. n - 2 \in 1 .. n => f[n - 2] = L[n - 2] * f[n - 1]
      BY <1>3
    <2>3. n - 3 \in 1 .. n => f[n - 3] = L[n - 3] * f[n - 2]
      BY <1>3
    <2>4. n - 4 \in 1 .. n => f[n - 4] = L[n - 4] * f[n - 3]
      BY <1>3
    <2>5. n - 5 \in 1 .. n => f[n - 5] = L[n - 5] * f[n - 4]
      BY <1>3
    <2> HIDE DEF f
    <2> QED
      <3> TAKE d \in 1 .. n
      <3>1. d \in {n, n - 1, n - 2, n - 3, n - 4, n - 5}
        OBVIOUS
      <3>2. d - 1 + 1 = d /\ n - 1 + 1 = n /\ n - 2 + 1 = n - 1 /\ n - 3 + 1 = n - 2
            /\ n - 4 + 1 = n - 3 /\ n - 5 + 1 = n - 4
        OBVIOUS
      <3> QED BY <1>5, <2>1, <2>2, <2>3, <2>4, <2>5, <3>1, <3>2
  <1> QED BY <1>4, <1>5, <1>6

(* The product of the rest of the loops, as a recursive function has it. *)
LEMMA ItemsFromIs ==
  ASSUME CallOK, NEW f \in [1 .. function.dims + 1 -> Nat],
         f[function.dims + 1] = 1,
         \A e \in Dims : f[e] = LoopValues(e) * f[e + 1],
         NEW d \in 1 .. function.dims + 1
  PROVE  ItemsFrom(d) = f[d]
  <1> DEFINE n == function.dims
             L(e) == LoopValues(e)
             D == d .. n + 1
             F(g) == [e \in D |-> IF e > n THEN 1 ELSE L(e) * g[e + 1]]
             h == [e \in D |-> f[e]]
  <1>1. ItemsFrom(d) = (CHOOSE g : g = F(g))[d]
    BY DEF ItemsFrom
  <1>2. n \in 1 .. 6 /\ d \in 1 .. n + 1 /\ f[n + 1] = 1 /\ \A e \in 1 .. n : f[e] = L(e) * f[e + 1]
    BY DEF CallOK, Dims
  <1> HIDE DEF n, L
  <1>3. h = F(h)
    <2>1. \A e \in D : h[e] = IF e > n THEN 1 ELSE L(e) * h[e + 1]
      BY <1>2
    <2> QED BY <2>1
  <1>4. ASSUME NEW g, g = F(g)
        PROVE  g[d] = f[d]
    <2>1. \A e \in D : g[e] = IF e > n THEN 1 ELSE L(e) * g[e + 1]
      BY <1>4
    <2>2. \A e \in D : e < n + 1 /\ g[e + 1] = f[e + 1] => g[e] = f[e]
      BY <2>1, <1>2
    <2>3. g[n + 1] = f[n + 1]
      BY <2>1, <1>2
    <2> HIDE DEF F
    <2>4. n \in D => g[n] = f[n]
      BY <2>2, <2>3, <1>2
    <2>5. n - 1 \in D => g[n - 1] = f[n - 1]
      BY <2>2, <2>4, <1>2
    <2>6. n - 2 \in D => g[n - 2] = f[n - 2]
      BY <2>2, <2>5, <1>2
    <2>7. n - 3 \in D => g[n - 3] = f[n - 3]
      BY <2>2, <2>6, <1>2
    <2>8. n - 4 \in D => g[n - 4] = f[n - 4]
      BY <2>2, <2>7, <1>2
    <2>9. n - 5 \in D => g[n - 5] = f[n - 5]
      BY <2>2, <2>8, <1>2
    <2> QED BY <2>3, <2>4, <2>5, <2>6, <2>7, <2>8, <2>9, <1>2
  <1> DEFINE choice == CHOOSE g : g = F(g)
  <1>5. choice = F(choice)
    BY <1>3
  <1> QED BY <1>1, <1>4, <1>5

(* divide_round_up is the least number of tiles that cover the dividend. *)
LEMMA RoundUp ==
  ASSUME NEW r \in Nat, NEW t \in Nat \ {0}
  PROVE  /\ divide_round_up(r, t) \in Nat
         /\ r <= t * divide_round_up(r, t)
         /\ t * divide_round_up(r, t) < r + t
         /\ divide_round_up(r, t) = 0 <=> r = 0
         /\ t = 1 => divide_round_up(r, t) = r
  <1>1. r \div t \in Nat /\ r % t \in 0 .. t - 1 /\ r = t * (r \div t) + (r % t)
    BY Division
  <1> DEFINE q == r \div t
             m == r % t
  <1>2. divide_round_up(r, t) = IF m = 0 THEN q ELSE q + 1
    BY DEF divide_round_up
  <1>3. q \in Nat /\ m \in 0 .. t - 1 /\ r = t * q + m
    BY <1>1
  <1> HIDE DEF q, m
  <1>4. t * (q + 1) = t * q + t /\ t * q \in Nat
    BY <1>3, SMT
  <1>5. q = 0 => t * q = 0
    BY SMT
  <1>6. q # 0 => t * q >= t
    BY <1>3, SMT
  <1>7. t = 1 => t * q = q
    BY <1>3, SMT
  <1> QED BY <1>2, <1>3, <1>4, <1>5, <1>6, <1>7

(* A loop in steps of a tile takes as many values as there are tiles. *)
LEMMA StepsOfALoop ==
  ASSUME NEW r \in Nat, NEW t \in Nat \ {0}
  PROVE  Cardinality({v \in 0 .. r - 1 : v % t = 0}) = divide_round_up(r, t)
  <1> DEFINE k == divide_round_up(r, t)
             V == {v \in 0 .. r - 1 : v % t = 0}
             f == [i \in 0 .. k - 1 |-> t * i]
  <1>1. k \in Nat /\ r <= t * k /\ t * k < r + t
    BY RoundUp
  <1> HIDE DEF k
  <1>2. ASSUME NEW i \in 0 .. k - 1
        PROVE  t * i \in 0 .. r - 1 /\ (t * i) % t = 0 /\ (t * i) \div t = i
    <2>1. t * i + t <= t * k /\ t * i \in Nat
      <3>1. t * i + t <= t * k
        BY <1>1, Mono
      <3>2. t * i \in Nat
        BY SMT
      <3> QED BY <3>1, <3>2
    <2>2. (t * i + 0) \div t = i /\ (t * i + 0) % t = 0
      BY DivisionIsUnique
    <2> QED BY <1>1, <2>1, <2>2
  <1>3. ASSUME NEW v \in V
        PROVE  v \div t \in 0 .. k - 1 /\ v = t * (v \div t)
    <2>1. v \div t \in Nat /\ v = t * (v \div t)
      BY Division
    <2>2. k <= v \div t => t * k <= v
      BY <2>1, <1>1, SMT
    <2> QED BY <1>1, <2>1, <2>2
  <1>4. f \in Bijection(0 .. k - 1, V)
    <2>1. f \in [0 .. k - 1 -> V]
      BY <1>2
    <2>2. \A i, j \in 0 .. k - 1 : f[i] = f[j] => i = j
      BY <1>2
    <2>3. \A v \in V : \E i \in 0 .. k - 1 : f[i] = v
      BY <1>3
    <2> HIDE DEF f, V
    <2> QED BY <2>1, <2>2, <2>3 DEF Bijection, Injection, IsInjective, Surjection
  <1>5. IsFiniteSet(0 .. k - 1) /\ Cardinality(0 .. k - 1) = k
    BY <1>1, FS_Interval
  <1> HIDE DEF V
  <1>6. ExistsBijection(0 .. k - 1, V)
    BY <1>4 DEF ExistsBijection
  <1>7. Cardinality(V) = k
    BY <1>5, <1>6, FS_Bijection
  <1> QED BY <1>7 DEF V, k

(* The number of items is a product of the ranges in tiles. *)
LEMMA ItemsFromSteps ==
  ASSUME CallOK
  PROVE  /\ ItemsFrom(function.dims + 1) = 1
         /\ \A d \in 1 .. function.dims + 1 : ItemsFrom(d) \in Nat
         /\ \A d \in Dims : /\ TileRange(d) \in Nat
                            /\ ItemsFrom(d) = TileRange(d) * ItemsFrom(d + 1)
  <1> DEFINE n == function.dims
             L == [d \in 1 .. n |-> LoopValues(d)]
  <1>1. n \in 1 .. 6 /\ Dims = 1 .. n /\ n + 1 \in 1 .. n + 1
    BY DEF CallOK, Dims
  <1>2. \A d \in Dims : range[d] \in Nat /\ tile[d] \in Nat \ {0}
    BY SizeAssumption DEF CallOK
  <1>3. \A d \in Dims : LoopValues(d) = TileRange(d) /\ TileRange(d) \in Nat
    BY <1>2, StepsOfALoop, RoundUp DEF LoopValues, TileRange
  <1>4. L \in [1 .. n -> Nat]
    BY <1>1, <1>3
  <1>5. \A d \in Dims : L[d] = LoopValues(d)
    BY <1>1
  <1> HIDE DEF L
  <1>6. PICK f \in [1 .. n + 1 -> Nat] : f[n + 1] = 1 /\ \A d \in 1 .. n : f[d] = L[d] * f[d + 1]
    BY <1>1, <1>4, ProductExists
  <1>7. \A d \in 1 .. n + 1 : ItemsFrom(d) = f[d]
    BY <1>1, <1>5, <1>6, ItemsFromIs
  <1>8. \A d \in Dims : d + 1 \in 1 .. n + 1 /\ d \in 1 .. n + 1
    BY <1>1
  <1>9. ItemsFrom(n + 1) = 1
    BY <1>1, <1>6, <1>7
  <1>10. \A d \in 1 .. n + 1 : ItemsFrom(d) \in Nat
    BY <1>6, <1>7
  <1>11. ASSUME NEW d \in Dims
         PROVE  ItemsFrom(d) = TileRange(d) * ItemsFrom(d + 1)
    <2>1. f[d] = L[d] * f[d + 1] /\ L[d] = TileRange(d)
      BY <1>1, <1>3, <1>5, <1>6
    <2>2. ItemsFrom(d) = f[d] /\ ItemsFrom(d + 1) = f[d + 1]
      BY <1>7, <1>8
    <2> QED BY <2>1, <2>2
  <1> QED BY <1>3, <1>9, <1>10, <1>11

(* Arithmetic modulo M. *)
LEMMA Modulo ==
  ASSUME NEW a \in Nat, NEW b \in Nat
  PROVE  /\ a * b \in Nat /\ a % M \in 0 .. M - 1
         /\ a < M => a % M = a
         /\ Times(a, b) \in 0 .. M - 1
         /\ Times(a, b) = (a * b) % M
         /\ Times(a % M, b) = (a * b) % M
         /\ a % M = 0 => (a * b) % M = 0
  <1>0. M \in Nat \ {0}
    BY SizeAssumption
  <1>1. a * b \in Nat
    BY SMT
  <1>2. /\ a \div M \in Nat /\ a % M \in 0 .. M - 1 /\ a = M * (a \div M) + (a % M)
    BY <1>0, Division
  <1>3. ASSUME NEW c \in Nat
        PROVE  c % M \in 0 .. M - 1
    BY <1>0, Division
  <1>4. a < M => a % M = a
    <2>1. a < M => a \in 0 .. M - 1
      BY <1>0
    <2>2. a < M => (M * 0 + a) % M = a
      BY <1>0, <2>1, DivisionIsUnique
    <2> QED BY <1>0, <2>2
  <1> DEFINE q == a \div M
             r == a % M
  <1>5. q \in Nat /\ r \in Nat /\ a = M * q + r
    BY <1>0, <1>2
  <1> HIDE DEF q, r
  <1>6. (r * b) % M = (a * b) % M
    <2>1. r * b \in Nat /\ q * b \in Nat
      BY <1>5, SMT
    <2> DEFINE u == (r * b) \div M
               w == (r * b) % M
    <2>2. u \in Nat /\ w \in 0 .. M - 1 /\ r * b = M * u + w
      BY <1>0, <2>1, Division
    <2> HIDE DEF u, w
    <2>3. a * b = M * (q * b + u) + w
      <3>1. a * b = M * (q * b) + r * b
        BY <1>5, <1>0, SMT
      <3>2. M * (q * b + u) = M * (q * b) + M * u
        BY <2>1, <2>2, <1>0, SMT
      <3> QED BY <2>1, <2>2, <3>1, <3>2, <1>0, SMT
    <2>4. q * b + u \in Nat
      BY <2>1, <2>2
    <2>5. (M * (q * b + u) + w) % M = w
      BY <1>0, <2>2, <2>4, DivisionIsUnique
    <2> QED BY <2>3, <2>5 DEF w
  <1>7. r = 0 => (a * b) % M = 0
    <2>1. r = 0 => r * b = 0
      BY SMT
    <2>2. 0 % M = 0
      BY <1>0
    <2> QED BY <1>6, <2>1, <2>2
  <1> QED BY <1>1, <1>2, <1>3, <1>4, <1>6, <1>7 DEF Times, r

(* What fits into size_t does not wrap. *)
LEMMA SmallModulo ==
  ASSUME NEW a \in Nat, a < M
  PROVE  a % M = a
  <1>1. 1 \in Nat
    OBVIOUS
  <1> QED BY <1>1, Modulo

(* The products of the first ranges, as LinearRange forms them. *)
LEMMA PrefixProducts ==
  ASSUME NEW n \in 1 .. 6, NEW L \in [1 .. n -> Nat]
  PROVE  \E q \in [0 .. n -> Nat] :
           q[0] = 1 /\ \A d \in 1 .. n : q[d] = q[d - 1] * L[d]
  <1> DEFINE R == [d \in 1 .. n |-> L[n + 1 - d]]
  <1>1. R \in [1 .. n -> Nat]
    OBVIOUS
  <1>2. \A d \in 1 .. n : R[n + 1 - d] = L[d] /\ n + 1 - d \in 1 .. n
    OBVIOUS
  <1> HIDE DEF R
  <1>3. PICK f \in [1 .. n + 1 -> Nat] : f[n + 1] = 1 /\ \A d \in 1 .. n : f[d] = R[d] * f[d + 1]
    BY <1>1, ProductExists
  <1> DEFINE q == [d \in 0 .. n |-> f[n + 1 - d]]
  <1>4. q \in [0 .. n -> Nat]
    BY <1>3
  <1>5. q[0] = 1
    BY <1>3
  <1>6. ASSUME NEW d \in 1 .. n
        PROVE  q[d] = q[d - 1] * L[d]
    <2>1. q[d] = f[n + 1 - d] /\ q[d - 1] = f[n + 1 - d + 1]
      <3>1. d \in 0 .. n /\ d - 1 \in 0 .. n /\ n + 1 - (d - 1) = n + 1 - d + 1
        OBVIOUS
      <3> QED BY <3>1
    <2>2. f[n + 1 - d] = L[d] * f[n + 1 - d + 1]
      BY <1>2, <1>3
    <2>3. q[d - 1] \in Nat /\ L[d] \in Nat
      BY <1>4
    <2> HIDE DEF q
    <2>4. \A a, b \in Nat : a * b = b * a
      BY SMT
    <2> QED BY <2>1, <2>2, <2>3, <2>4, Zenon
  <1> HIDE DEF q
  <1> QED BY <1>4, <1>5, <1>6

(* The linear range is the number of items, as far as size_t holds it. *)
LEMMA LinearRangeCounts ==
  ASSUME CallOK
  PROVE  LinearRange = ItemsFrom(1) % M
  <1> DEFINE n == function.dims
             L == [d \in 1 .. n |-> TileRange(d)]
             I(d) == ItemsFrom(d)
  <1>1. n \in 1 .. 6 /\ Dims = 1 .. n
    BY DEF CallOK, Dims
  <1>2. /\ I(n + 1) = 1
        /\ \A d \in 1 .. n + 1 : I(d) \in Nat
        /\ \A d \in 1 .. n : TileRange(d) \in Nat /\ I(d) = TileRange(d) * I(d + 1)
    BY <1>1, ItemsFromSteps
  <1>3. L \in [1 .. n -> Nat] /\ \A d \in 1 .. n : L[d] = TileRange(d)
    BY <1>2
  <1> HIDE DEF L
  <1>4. PICK q \in [0 .. n -> Nat] : q[0] = 1 /\ \A d \in 1 .. n : q[d] = q[d - 1] * L[d]
    BY <1>1, <1>3, PrefixProducts
  <1>0. 1 % M = 1
    <2>1. 1 \in Nat /\ 1 < M
      BY SizeAssumption
    <2> QED BY <2>1, Modulo
  <1> DEFINE F(g) == [d \in 0 .. n |-> IF d = 0 THEN 1 ELSE Times(g[d - 1], TileRange(d))]
             h == [d \in 0 .. n |-> q[d] % M]
             choice == CHOOSE g : g = F(g)
  <1>5. LinearRange = choice[n]
    BY DEF LinearRange
  <1> HIDE DEF n, I
  <1>6. h = F(h)
    <2>1. h[0] = 1
      BY <1>0, <1>1, <1>4
    <2>2. ASSUME NEW d \in 1 .. n
          PROVE  h[d] = Times(h[d - 1], TileRange(d))
      <3>1. d - 1 \in 0 .. n /\ d \in 0 .. n /\ q[d - 1] \in Nat
        BY <1>1, <1>4
      <3>2. h[d] = q[d] % M /\ h[d - 1] = q[d - 1] % M
        BY <3>1
      <3> QED BY <1>2, <1>3, <1>4, <3>1, <3>2, Modulo
    <2>3. h = [d \in 0 .. n |-> h[d]]
      OBVIOUS
    <2> HIDE DEF h
    <2>4. \A d \in 0 .. n : h[d] = IF d = 0 THEN 1 ELSE Times(h[d - 1], TileRange(d))
      BY <1>1, <2>1, <2>2
    <2> QED BY <2>3, <2>4
  <1>7. choice = F(choice)
    BY <1>6
  <1> HIDE DEF choice
  <1>8. \A d \in 0 .. n : choice[d] = IF d = 0 THEN 1 ELSE Times(choice[d - 1], TileRange(d))
    BY <1>7
  <1> HIDE DEF F, h
  <1>9. \A d \in 1 .. n : choice[d - 1] = q[d - 1] % M => choice[d] = q[d] % M
    <2> TAKE d \in 1 .. n
    <2>1. d \in 0 .. n /\ d # 0 /\ d - 1 \in 0 .. n
      BY <1>1
    <2>2. q[d - 1] \in Nat /\ TileRange(d) \in Nat
      BY <1>2, <1>4, <2>1
    <2>3. q[d] = q[d - 1] * TileRange(d)
      BY <1>3, <1>4
    <2>4. choice[d] = Times(choice[d - 1], TileRange(d))
      BY <1>8, <2>1
    <2>5. Times(q[d - 1] % M, TileRange(d)) = (q[d - 1] * TileRange(d)) % M
      BY <2>2, Modulo
    <2> QED BY <2>3, <2>4, <2>5
  <1>10. choice[n] = q[n] % M
    <2> DEFINE P(d) == choice[d] = q[d] % M
    <2>0. P(0)
      <3>1. 0 \in 0 .. n
        BY <1>1
      <3> QED BY <1>0, <1>4, <1>8, <3>1
    <2>1. \A d \in 1 .. n : P(d - 1) => P(d)
      BY <1>9
    <2> HIDE DEF P
    <2>2. 1 <= n => P(1)
      BY <2>0, <2>1, <1>1
    <2>3. 2 <= n => P(2)
      BY <2>2, <2>1, <1>1
    <2>4. 3 <= n => P(3)
      BY <2>3, <2>1, <1>1
    <2>5. 4 <= n => P(4)
      BY <2>4, <2>1, <1>1
    <2>6. 5 <= n => P(5)
      BY <2>5, <2>1, <1>1
    <2>7. 6 <= n => P(6)
      BY <2>6, <2>1, <1>1
    <2>8. P(n)
      BY <2>2, <2>3, <2>4, <2>5, <2>6, <2>7, <1>1
    <2> QED BY <2>8 DEF P
  <1>11. q[n] = I(1)
    <2> DEFINE P(d) == q[d] * I(d + 1) = I(1)
    <2>0. P(0)
      BY <1>1, <1>2, <1>4, SMT
    <2>1. ASSUME NEW d \in 1 .. n, P(d - 1)
          PROVE  P(d)
      <3>0. d - 1 \in 0 .. n /\ d - 1 + 1 = d /\ d + 1 \in 1 .. n + 1
        BY <1>1
      <3>1. q[d - 1] \in Nat /\ TileRange(d) \in Nat /\ I(d + 1) \in Nat
        BY <1>2, <1>4, <3>0
      <3>2. q[d] = q[d - 1] * TileRange(d) /\ I(d) = TileRange(d) * I(d + 1)
        BY <1>2, <1>3, <1>4
      <3>3. \A a, b, c \in Nat : (a * b) * c = a * (b * c)
        BY SMT
      <3>4. q[d - 1] * I(d) = I(1)
        BY <2>1, <3>0
      <3>5. (q[d - 1] * TileRange(d)) * I(d + 1) = q[d - 1] * (TileRange(d) * I(d + 1))
        BY <3>1, <3>3
      <3> QED BY <3>2, <3>4, <3>5
    <2> HIDE DEF P
    <2>2. 1 <= n => P(1)
      BY <2>0, <2>1, <1>1
    <2>3. 2 <= n => P(2)
      BY <2>2, <2>1, <1>1
    <2>4. 3 <= n => P(3)
      BY <2>3, <2>1, <1>1
    <2>5. 4 <= n => P(4)
      BY <2>4, <2>1, <1>1
    <2>6. 5 <= n => P(5)
      BY <2>5, <2>1, <1>1
    <2>7. 6 <= n => P(6)
      BY <2>6, <2>1, <1>1
    <2>8. P(n)
      BY <2>2, <2>3, <2>4, <2>5, <2>6, <2>7, <1>1
    <2>9. q[n] \in Nat /\ \A a \in Nat : a * 1 = a
      BY <1>1, <1>4, SMT
    <2> QED BY <1>2, <2>8, <2>9 DEF P
  <1> QED BY <1>5, <1>10, <1>11 DEF I

(* A call with items has items in each of its loops. *)
LEMMA PositiveItems ==
  ASSUME CallOK, ItemsFrom(1) # 0
  PROVE  \A d \in Dims :
           /\ TileRange(d) \in Nat \ {0} /\ TileRange(d) <= ItemsFrom(1)
           /\ ItemsFrom(d) \in Nat \ {0} /\ ItemsFrom(d) <= ItemsFrom(1)
           /\ ItemsFrom(d + 1) \in Nat \ {0} /\ ItemsFrom(d + 1) <= ItemsFrom(d)
           /\ ItemsFrom(d) = TileRange(d) * ItemsFrom(d + 1)
  <1> DEFINE n == function.dims
             I(d) == ItemsFrom(d)
             T(d) == TileRange(d)
             P(d) == I(d) \in Nat \ {0} /\ I(d) <= I(1)
  <1>1. n \in 1 .. 6 /\ Dims = 1 .. n /\ I(1) # 0
    BY DEF CallOK, Dims
  <1>2. /\ \A d \in 1 .. n + 1 : I(d) \in Nat
        /\ \A d \in 1 .. n : T(d) \in Nat /\ I(d) = T(d) * I(d + 1)
    BY <1>1, ItemsFromSteps
  <1> HIDE DEF n, I, T
  <1>3. ASSUME NEW d \in 1 .. n, P(d)
        PROVE  P(d + 1) /\ I(d + 1) <= I(d) /\ T(d) \in Nat \ {0} /\ T(d) <= I(1)
    <2>1. d + 1 \in 1 .. n + 1
      BY <1>1
    <2>2. I(d + 1) \in Nat /\ T(d) \in Nat /\ I(d) = T(d) * I(d + 1) /\ I(d) # 0
      BY <1>2, <1>3, <2>1
    <2>3. \A a, b \in Nat : a * b # 0 => a # 0 /\ b # 0 /\ a <= a * b /\ b <= a * b
      BY SMT
    <2>4. I(d + 1) # 0 /\ T(d) # 0 /\ I(d + 1) <= I(d) /\ T(d) <= I(d)
      BY <2>2, <2>3
    <2>5. I(1) \in Nat
      BY <1>1, <1>2
    <2> QED BY <1>3, <2>2, <2>4, <2>5
  <1>4. P(1)
    BY <1>1, <1>2
  <1>5. \A d \in 1 .. n : P(d)
    <2> HIDE DEF P
    <2>1. 2 \in 1 .. n => P(2)
      BY <1>1, <1>3, <1>4
    <2>2. 3 \in 1 .. n => P(3)
      BY <1>1, <1>3, <2>1
    <2>3. 4 \in 1 .. n => P(4)
      BY <1>1, <1>3, <2>2
    <2>4. 5 \in 1 .. n => P(5)
      BY <1>1, <1>3, <2>3
    <2>5. 6 \in 1 .. n => P(6)
      BY <1>1, <1>3, <2>4
    <2> QED BY <1>1, <1>4, <2>1, <2>2, <2>3, <2>4, <2>5
  <1>6. \A d \in Dims : /\ T(d) \in Nat \ {0} /\ T(d) <= I(1)
                        /\ I(d) \in Nat \ {0} /\ I(d) <= I(1)
                        /\ I(d + 1) \in Nat \ {0} /\ I(d + 1) <= I(d)
                        /\ I(d) = T(d) * I(d + 1)
    BY <1>1, <1>2, <1>3, <1>5
  <1> QED BY <1>6 DEF I, T

(* The number of the tile in dimension d of the x-th item. *)
Digit(x, d) == (x % ItemsFrom(d)) \div ItemsFrom(d + 1)

(* What the divisions by the ranges give, in whatever order. *)
LEMMA Digits ==
  ASSUME CallOK, ItemsFrom(1) # 0, NEW x \in Nat, NEW d \in Dims
  PROVE  /\ Quotient(x, ItemsFrom(d + 1)) \in Nat
         /\ Remainder(x, ItemsFrom(d)) \in 0 .. ItemsFrom(d) - 1
         /\ Quotient(Quotient(x, ItemsFrom(d + 1)), TileRange(d)) = Quotient(x, ItemsFrom(d))
         /\ Remainder(Quotient(x, ItemsFrom(d + 1)), TileRange(d)) = Digit(x, d)
         /\ Quotient(Remainder(x, ItemsFrom(d)), ItemsFrom(d + 1)) = Digit(x, d)
         /\ Remainder(Remainder(x, ItemsFrom(d)), ItemsFrom(d + 1)) = Remainder(x, ItemsFrom(d + 1))
         /\ Digit(x, d) \in 0 .. TileRange(d) - 1
         /\ Remainder(x, ItemsFrom(d))
              = ItemsFrom(d + 1) * Digit(x, d) + Remainder(x, ItemsFrom(d + 1))
  <1> DEFINE a == TileRange(d)
             b == ItemsFrom(d + 1)
             c == ItemsFrom(d)
  <1>1. a \in Nat \ {0} /\ b \in Nat \ {0} /\ c \in Nat \ {0} /\ c = a * b
    BY PositiveItems
  <1>2. Digit(x, d) = Quotient(Remainder(x, c), b)
    BY DEF Digit, Quotient, Remainder
  <1> HIDE DEF a, b, c
  <1>3. /\ Quotient(Quotient(x, b), a) = Quotient(x, c)
        /\ Remainder(Quotient(x, b), a) = Quotient(Remainder(x, c), b)
        /\ Remainder(Remainder(x, c), b) = Remainder(x, b)
    <2>1. IsProduct(c, a, b)
      BY <1>1 DEF IsProduct
    <2> QED BY <1>1, <2>1, DivDiv
  <1>4. Quotient(x, b) \in Nat /\ Remainder(x, c) \in 0 .. c - 1
    BY <1>1, QuotientAndRemainder
  <1>5. Remainder(Quotient(x, b), a) \in 0 .. a - 1
    BY <1>1, <1>4, QuotientAndRemainder
  <1>6. Remainder(x, c) = b * Quotient(Remainder(x, c), b) + Remainder(Remainder(x, c), b)
    BY <1>1, <1>4, QuotientAndRemainder
  <1> QED BY <1>1, <1>2, <1>3, <1>4, <1>5, <1>6 DEF a, b, c

(* Two ranges taken together. *)
LEMMA TwoDigits ==
  ASSUME CallOK, ItemsFrom(1) # 0, NEW x \in Nat, NEW d \in Dims, NEW e \in Dims, e = d + 1,
         NEW f, f = e + 1, NEW ab, IsProduct(ab, TileRange(d), TileRange(e))
  PROVE  LET y == Remainder(Quotient(x, ItemsFrom(f)), ab)
         IN /\ Quotient(Quotient(x, ItemsFrom(f)), ab) = Quotient(x, ItemsFrom(d))
            /\ y = Quotient(Remainder(x, ItemsFrom(d)), ItemsFrom(f))
            /\ Quotient(y, TileRange(e)) = Digit(x, d)
            /\ Remainder(y, TileRange(e)) = Digit(x, e)
  <1> DEFINE a == TileRange(d)
             b == TileRange(e)
             c == ItemsFrom(f)
             q == Quotient(x, c)
  <1>1. /\ a \in Nat \ {0} /\ b \in Nat \ {0} /\ c \in Nat \ {0}
        /\ ItemsFrom(e) = b * c /\ ItemsFrom(d) = a * ItemsFrom(e) /\ ab = a * b
    BY PositiveItems DEF IsProduct
  <1>2. /\ q \in Nat
        /\ Quotient(q, b) = Quotient(x, ItemsFrom(e)) /\ Remainder(q, b) = Digit(x, e)
        /\ Quotient(Quotient(x, ItemsFrom(e)), a) = Quotient(x, ItemsFrom(d))
        /\ Remainder(Quotient(x, ItemsFrom(e)), a) = Digit(x, d)
    BY Digits
  <1> HIDE DEF a, b, c, q
  <1>3. ab \in Nat \ {0}
    BY <1>1, SMT
  <1>5. /\ Quotient(Quotient(q, b), a) = Quotient(q, ab)
        /\ Remainder(Quotient(q, b), a) = Quotient(Remainder(q, ab), b)
        /\ Remainder(Remainder(q, ab), b) = Remainder(q, b)
    <2>1. IsProduct(ab, a, b)
      BY <1>1 DEF IsProduct
    <2> QED BY <1>1, <1>2, <1>3, <2>1, DivDiv
  <1>4. Remainder(q, ab) = Quotient(Remainder(x, ItemsFrom(d)), c)
    <2>1. ItemsFrom(d) \in Nat \ {0} /\ x \in Nat
      BY PositiveItems
    <2>2. IsProduct(ItemsFrom(d), ab, c)
      BY <1>1, SMT DEF IsProduct
    <2>3. Remainder(Quotient(x, c), ab) = Quotient(Remainder(x, ItemsFrom(d)), c)
      BY <1>1, <1>3, <2>1, <2>2, DivDiv
    <2> QED BY <2>3 DEF q
  <1> QED BY <1>2, <1>3, <1>4, <1>5 DEF a, b, c, q

-----------------------------------------------------------------------------
(* From an item to the next. *)

(* The index of dimension d has reached its last value. *)
AtLast(x, d) == Digit(x, d) = TileRange(d) - 1

IsDivision(x, b, q, r) == x = b * q + r

(* The same, with names for the parts. *)
LEMMA UniqueDivision ==
  ASSUME NEW x, NEW b \in Nat \ {0}, NEW q \in Nat, NEW r \in 0 .. b - 1,
         IsDivision(x, b, q, r)
  PROVE  Quotient(x, b) = q /\ Remainder(x, b) = r
  BY DivisionIsUnique DEF Quotient, Remainder, IsDivision

(* The next item: a dimension moves on when those inside of it are through. *)
LEMMA NextDigit ==
  ASSUME CallOK, ItemsFrom(1) # 0, NEW x \in Nat, NEW d \in Dims
  PROVE  /\ Digit(x + 1, d) =
              IF Remainder(x, ItemsFrom(d + 1)) # ItemsFrom(d + 1) - 1 THEN Digit(x, d)
              ELSE IF AtLast(x, d) THEN 0 ELSE Digit(x, d) + 1
         /\ Remainder(x, ItemsFrom(d)) = ItemsFrom(d) - 1 <=>
              AtLast(x, d) /\ Remainder(x, ItemsFrom(d + 1)) = ItemsFrom(d + 1) - 1
  <1> DEFINE a == TileRange(d)
             b == ItemsFrom(d + 1)
             c == ItemsFrom(d)
             D == Digit(x, d)
             S == Remainder(x, b)
             Q == Quotient(x, c)
             R == Remainder(x, c)
  <1>1. a \in Nat \ {0} /\ b \in Nat \ {0} /\ c \in Nat \ {0} /\ c = a * b
    BY PositiveItems
  <1>2. /\ R \in 0 .. c - 1 /\ D \in 0 .. a - 1 /\ R = b * D + S
        /\ Quotient(R, b) = D /\ Remainder(R, b) = S
    BY Digits
  <1>3. S \in 0 .. b - 1 /\ Q \in Nat /\ x = c * Q + R
    BY <1>1, QuotientAndRemainder
  <1>4. Digit(x + 1, d) = Quotient(Remainder(x + 1, c), b)
    BY DEF Digit, Quotient, Remainder
  <1>5. AtLast(x, d) <=> D = a - 1
    BY DEF AtLast
  <1> HIDE DEF a, b, c, D, S, Q, R
  <1>6. b * (a - 1) + b = c /\ b * (D + 1) = b * D + b
    BY <1>1, <1>2, SMT
  <1>7. D < a - 1 => b * (D + 1) + b <= c
    <2>1. D < a - 1 => b * (D + 1) + b <= b * a
      BY <1>1, <1>2, Mono
    <2> QED BY <1>1, <2>1, SMT
  <1>8. b * D + b <= c
    <2>1. b * D + b <= b * a
      BY <1>1, <1>2, Mono
    <2> QED BY <1>1, <2>1, SMT
  <1>9. b * D \in Nat
    BY <1>1, <1>2, SMT
  <1>10. R + 1 < c => Remainder(x + 1, c) = R + 1
    <2>1. R + 1 < c => R + 1 \in 0 .. c - 1
      BY <1>1, <1>2
    <2>2. IsDivision(x + 1, c, Q, R + 1)
      BY <1>1, <1>2, <1>3, SMT DEF IsDivision
    <2> QED BY <1>1, <1>3, <2>1, <2>2, UniqueDivision
  <1>11. CASE S # b - 1
    <2>1. S + 1 \in 0 .. b - 1 /\ R + 1 < c /\ R + 1 = b * D + (S + 1)
      BY <1>1, <1>2, <1>3, <1>8, <1>9, <1>11
    <2>2. Quotient(R + 1, b) = D
      <3>1. IsDivision(R + 1, b, D, S + 1)
        BY <2>1 DEF IsDivision
      <3> QED BY <1>1, <1>2, <2>1, <3>1, UniqueDivision
    <2>3. R # c - 1
      BY <1>1, <1>2, <2>1
    <2> QED BY <1>4, <1>10, <1>11, <2>1, <2>2, <2>3 DEF S, D, b, c, R
  <1>12. CASE S = b - 1 /\ D # a - 1
    <2>1. D < a - 1 /\ D + 1 \in Nat
      BY <1>1, <1>2, <1>12
    <2>2. R + 1 = b * (D + 1) + 0 /\ R + 1 < c /\ R + 1 \in Nat
      BY <1>1, <1>2, <1>6, <1>7, <1>9, <1>12, <2>1
    <2>3. Quotient(R + 1, b) = D + 1
      <3>1. IsDivision(R + 1, b, D + 1, 0)
        BY <2>2 DEF IsDivision
      <3>2. 0 \in 0 .. b - 1
        BY <1>1
      <3> QED BY <1>1, <2>1, <3>1, <3>2, UniqueDivision
    <2>4. R # c - 1
      BY <1>1, <1>2, <2>2
    <2> QED BY <1>4, <1>5, <1>10, <1>12, <2>2, <2>3, <2>4 DEF S, D, b, c, R
  <1>13. CASE S = b - 1 /\ D = a - 1
    <2>1. R + 1 = c
      BY <1>1, <1>2, <1>6, <1>9, <1>13
    <2>2. IsDivision(x + 1, c, Q + 1, 0) /\ Q + 1 \in Nat /\ 0 \in 0 .. c - 1
      <3>1. c * (Q + 1) = c * Q + c
        BY <1>1, <1>3, SMT
      <3> QED BY <1>1, <1>2, <1>3, <2>1, <3>1, SMT DEF IsDivision
    <2>3. Remainder(x + 1, c) = 0
      BY <1>1, <2>2, UniqueDivision
    <2>4. IsDivision(0, b, 0, 0) /\ 0 \in 0 .. b - 1
      BY <1>1, SMT DEF IsDivision
    <2>5. Quotient(0, b) = 0
      BY <1>1, <2>4, UniqueDivision
    <2>6. R = c - 1
      BY <1>1, <1>2, <2>1
    <2> QED BY <1>4, <1>5, <1>13, <2>3, <2>5, <2>6 DEF S, D, b, c, R
  <1> QED BY <1>11, <1>12, <1>13

(* The dimensions inside of d are all through with the last item of a row. *)
LEMMA InnerAtLast ==
  ASSUME CallOK, ItemsFrom(1) # 0, NEW x \in Nat, NEW d \in 0 .. function.dims
  PROVE  (\A e \in Dims : e > d => AtLast(x, e)) <=>
           Remainder(x, ItemsFrom(d + 1)) = ItemsFrom(d + 1) - 1
  <1> DEFINE n == function.dims
             Inner(k) == \A e \in Dims : e > k => AtLast(x, e)
             Row(k) == Remainder(x, ItemsFrom(k)) = ItemsFrom(k) - 1
             P(k) == Inner(k) <=> Row(k + 1)
  <1>1. n \in 1 .. 6 /\ Dims = 1 .. n /\ d \in 0 .. n
    BY DEF CallOK, Dims
  <1>2. \A k \in Dims : Row(k) <=> AtLast(x, k) /\ Row(k + 1)
    BY NextDigit
  <1>3. \A k \in Dims : Inner(k - 1) <=> AtLast(x, k) /\ Inner(k)
    BY <1>1
  <1>4. \A k \in Dims : P(k) => P(k - 1)
    <2> TAKE k \in Dims
    <2>1. k - 1 + 1 = k
      BY <1>1
    <2> HIDE DEF Inner, Row
    <2> QED BY <1>2, <1>3, <2>1
  <1>5. P(n)
    <2>1. Inner(n)
      BY <1>1
    <2>2. ItemsFrom(n + 1) = 1
      BY ItemsFromSteps
    <2>3. Remainder(x, 1) \in 0 .. 1 - 1
      BY QuotientAndRemainder
    <2> QED BY <2>1, <2>2, <2>3
  <1> HIDE DEF P, n
  <1>6. n - 1 \in 0 .. n => P(n - 1)
    BY <1>1, <1>4, <1>5
  <1>7. n - 2 \in 0 .. n => P(n - 2)
    BY <1>1, <1>4, <1>6
  <1>8. n - 3 \in 0 .. n => P(n - 3)
    BY <1>1, <1>4, <1>7
  <1>9. n - 4 \in 0 .. n => P(n - 4)
    BY <1>1, <1>4, <1>8
  <1>10. n - 5 \in 0 .. n => P(n - 5)
    BY <1>1, <1>4, <1>9
  <1>11. n - 6 \in 0 .. n => P(n - 6)
    BY <1>1, <1>4, <1>10
  <1>12. d \in {n, n - 1, n - 2, n - 3, n - 4, n - 5, n - 6}
    BY <1>1
  <1>13. P(d)
    BY <1>1, <1>5, <1>6, <1>7, <1>8, <1>9, <1>10, <1>11, <1>12
  <1> QED BY <1>13 DEF P

(* The tiles of dimension d and the tests for its end. *)
LEMMA EndsOfTiles ==
  ASSUME NEW r \in 0 .. M - 1, NEW t \in 1 .. M - 1, t * divide_round_up(r, t) < M,
         NEW i \in 0 .. divide_round_up(r, t) - 1
  PROVE  /\ i * t \in 0 .. r - 1 /\ Times(i, t) = i * t
         /\ Plus(i * t, t) = i * t + t
         /\ i * t + t >= r <=> i = divide_round_up(r, t) - 1
         /\ t = 1 => (i * t + t = r <=> i = divide_round_up(r, t) - 1)
  <1> DEFINE k == divide_round_up(r, t)
             p == i * t
             s == t * k
  <1>0. M \in Nat \ {0} /\ r \in Nat /\ t \in Nat \ {0}
    BY SizeAssumption
  <1>1. k \in Nat /\ r <= s /\ s < r + t /\ s < M /\ (t = 1 => k = r) /\ s \in Nat
    <2>1. k \in Nat /\ r <= s /\ s < r + t /\ s < M /\ (t = 1 => k = r)
      BY <1>0, RoundUp
    <2> QED BY <1>0, <2>1, SMT
  <1> HIDE DEF k
  <1>2. /\ p \in Nat /\ p + t <= s
        /\ i # k - 1 => p + t + t <= s
        /\ i = k - 1 => p + t = s
    <2>1. i \in Nat /\ i < k /\ i + 1 \in Int
      BY <1>1 DEF k
    <2>2. p \in Nat /\ p = t * i /\ t * (i + 1) = p + t
      BY <1>0, <2>1, SMT
    <2>3. t * i + t <= t * k
      BY <1>0, <1>1, <2>1, Mono
    <2>4. i # k - 1 => i + 1 < k
      BY <1>1, <2>1
    <2>5. i + 1 < k => t * (i + 1) + t <= t * k
      BY <1>0, <1>1, <2>1, Mono
    <2>6. i = k - 1 => t * (i + 1) = t * k
      BY <1>1
    <2> HIDE DEF p, s
    <2> QED BY <2>2, <2>3, <2>4, <2>5, <2>6 DEF s
  <1>3. t = 1 => p = i
    BY <1>0, <1>1, SMT DEF k
  <1>4. i \in Nat
    BY <1>1 DEF k
  <1> HIDE DEF p, s
  <1>5. p \in 0 .. r - 1
    BY <1>0, <1>1, <1>2
  <1>6. p % M = p /\ (p + t) % M = p + t
    <2>1. p < M /\ p + t \in Nat /\ p + t < M
      BY <1>0, <1>1, <1>2
    <2>2. p % M = p
      BY <1>2, <2>1, Modulo
    <2> DEFINE u == p + t
    <2>3. u \in Nat /\ u < M
      BY <2>1
    <2> HIDE DEF u
    <2>4. u % M = u
      BY <2>3, Modulo
    <2> QED BY <2>2, <2>4 DEF u
  <1>7. Times(i, t) = p /\ Plus(p, t) = p + t
    BY <1>6 DEF Times, Plus, p
  <1>8. p + t >= r <=> i = k - 1
    BY <1>0, <1>1, <1>2
  <1>9. t = 1 => (p + t = r <=> i = k - 1)
    BY <1>0, <1>1, <1>3, <1>4
  <1> QED BY <1>5, <1>7, <1>8, <1>9 DEF p, k

(* Nothing wraps in a call whose items and rounded up ranges are size_t's. *)
LEMMA ItemFits ==
  ASSUME CallOK, Representable, ItemsFrom(1) # 0, NEW x \in Nat, NEW d \in Dims
  PROVE  LET p == Digit(x, d) * tile[d]
         IN /\ p \in 0 .. range[d] - 1 /\ Times(Digit(x, d), tile[d]) = p
            /\ Plus(p, tile[d]) = p + tile[d]
            /\ p + tile[d] >= range[d] <=> AtLast(x, d)
            /\ ~Tiled(d) => (tile[d] = 1 /\ (p + tile[d] = range[d] <=> AtLast(x, d)))
            /\ tile[d] \in Nat /\ range[d] \in Nat
  <1> DEFINE i == Digit(x, d)
             r == range[d]
             t == tile[d]
             k == divide_round_up(r, t)
  <1>1. /\ r \in 0 .. M - 1 /\ t \in 1 .. M - 1 /\ M \in Nat
        /\ k = TileRange(d) /\ k \in Nat /\ k * t < M
        /\ ~Tiled(d) => t = 1
    <2>1. r \in 0 .. M - 1 /\ t \in 1 .. M - 1 /\ M \in Nat /\ (~Tiled(d) => t = 1)
      BY SizeAssumption DEF CallOK
    <2>2. k = TileRange(d)
      BY DEF TileRange
    <2>3. TileRange(d) \in Nat
      BY PositiveItems
    <2>4. TileRange(d) * tile[d] < M
      BY DEF Representable
    <2> HIDE DEF k
    <2> QED BY <2>1, <2>2, <2>3, <2>4
  <1>2. i \in 0 .. k - 1
    BY <1>1, Digits
  <1>4. AtLast(x, d) <=> i = k - 1
    BY <1>1 DEF AtLast
  <1> HIDE DEF i, r, t
  <1>5. t * k < M
    <2> HIDE DEF k
    <2> QED BY <1>1, SMT
  <1>6. /\ i * t \in 0 .. r - 1 /\ Times(i, t) = i * t
        /\ Plus(i * t, t) = i * t + t
        /\ i * t + t >= r <=> i = k - 1
        /\ t = 1 => (i * t + t = r <=> i = k - 1)
    BY <1>1, <1>2, <1>5, EndsOfTiles
  <1>7. t \in Nat /\ r \in Nat
    BY <1>1
  <1> HIDE DEF k
  <1>8. LET p == i * t
        IN /\ p \in 0 .. r - 1 /\ Times(i, t) = p
           /\ Plus(p, t) = p + t
           /\ p + t >= r <=> AtLast(x, d)
           /\ ~Tiled(d) => (t = 1 /\ (p + t = r <=> AtLast(x, d)))
    BY <1>1, <1>4, <1>6
  <1> QED BY <1>7, <1>8 DEF i, r, t

(* Where the x-th item lies, and whether it is the last of a dimension. *)
LEMMA PositionOfItem ==
  ASSUME CallOK, Representable, ItemsFrom(1) # 0, NEW x \in Nat, position = LoopItem(x),
         NEW d \in Dims
  PROVE  /\ position[d] = Digit(x, d) * tile[d]
         /\ Plus(position[d], tile[d]) = position[d] + tile[d]
         /\ position[d] \in 0 .. range[d] - 1
         /\ WalkAtEnd(d) <=> AtLast(x, d)
         /\ LoopAtEnd(d) <=> AtLast(x, d)
  <1> DEFINE p == position[d]
             t == tile[d]
             r == range[d]
  <1>1. p = Digit(x, d) * t
    BY DEF LoopItem, Digit
  <1>2. /\ p \in 0 .. r - 1 /\ Plus(p, t) = p + t
        /\ p + t >= r <=> AtLast(x, d)
        /\ ~Tiled(d) => (t = 1 /\ (p + t = r <=> AtLast(x, d)))
        /\ t \in Nat /\ r \in Nat
    BY <1>1, ItemFits
  <1>3. WalkAtEnd(d) <=> IF Tiled(d) THEN Plus(p, t) >= r ELSE Plus(p, 1) = r
    BY DEF WalkAtEnd
  <1>4. LoopAtEnd(d) <=> ~(Plus(p, t) < r)
    BY DEF LoopAtEnd
  <1> HIDE DEF p, t, r
  <1>5. WalkAtEnd(d) <=> AtLast(x, d)
    BY <1>2, <1>3
  <1>6. LoopAtEnd(d) <=> AtLast(x, d)
    BY <1>2, <1>4
  <1> QED BY <1>1, <1>2, <1>5, <1>6 DEF p, t, r

(* The task gets the tile of the item, as far as it lies in the range. *)
LEMMA TileOfItem ==
  ASSUME CallOK, Representable, ItemsFrom(1) # 0, NEW x \in Nat, position = LoopItem(x),
         NEW d \in Dims
  PROVE  {v \in 0 .. range[d] - 1 : v \div tile[d] = position[d] \div tile[d]}
           = position[d] .. position[d] + TileLength(d) - 1
  <1> DEFINE i == Digit(x, d)
             r == range[d]
             t == tile[d]
             p == position[d]
             len == TileLength(d)
  <1>1. r \in 0 .. M - 1 /\ t \in 1 .. M - 1 /\ M \in Nat /\ t \in Nat \ {0} /\ r \in Nat
    BY SizeAssumption DEF CallOK
  <1>2. p \in 0 .. r - 1 /\ p = i * t
    BY PositionOfItem
  <1>3. i \in Nat
    <2>1. i \in 0 .. TileRange(d) - 1 /\ TileRange(d) \in Nat \ {0}
      BY Digits, PositiveItems
    <2> QED BY <2>1
  <1>4. len = IF (r - p) % M < t THEN (r - p) % M ELSE t
    BY DEF TileLength, Minus
  <1> HIDE DEF i, r, t, p, len
  <1>5. (r - p) % M = r - p
    <2> DEFINE u == r - p
    <2>1. u \in Nat /\ u < M
      BY <1>1, <1>2
    <2> HIDE DEF u
    <2>2. u % M = u
      BY <2>1, Modulo
    <2> QED BY <2>2 DEF u
  <1>6. p = t * i
    BY <1>1, <1>2, <1>3, SMT
  <1>7. Quotient(p, t) = i
    <2>1. IsDivision(p, t, i, 0) /\ 0 \in 0 .. t - 1
      BY <1>1, <1>2, <1>6 DEF IsDivision
    <2> QED BY <1>1, <1>3, <2>1, UniqueDivision
  <1>8. ASSUME NEW v \in 0 .. r - 1
        PROVE  Quotient(v, t) = i <=> p <= v /\ v < p + t
    <2>1. ASSUME p <= v, v < p + t
          PROVE  Quotient(v, t) = i
      <3>1. v - p \in 0 .. t - 1 /\ IsDivision(v, t, i, v - p)
        <4>1. v = p + (v - p) /\ v - p \in 0 .. t - 1
          BY <1>1, <1>2, <2>1
        <4> QED BY <1>6, <4>1 DEF IsDivision
      <3> QED BY <1>1, <1>3, <3>1, UniqueDivision
    <2>2. ASSUME Quotient(v, t) = i
          PROVE  p <= v /\ v < p + t
      <3>1. v \in Nat
        BY <1>1
      <3>2. v = t * Quotient(v, t) + Remainder(v, t) /\ Remainder(v, t) \in 0 .. t - 1
        BY <1>1, <3>1, QuotientAndRemainder
      <3>3. v = p + Remainder(v, t)
        BY <1>6, <2>2, <3>2
      <3> QED BY <1>1, <1>2, <3>2, <3>3
    <2> QED BY <2>1, <2>2
  <1>9. \A v \in 0 .. r - 1 : v \div t = p \div t <=> v \in p .. p + len - 1
    <2> TAKE v \in 0 .. r - 1
    <2>1. v \div t = p \div t <=> p <= v /\ v < p + t
      BY <1>7, <1>8 DEF Quotient
    <2>2. v \in p .. p + len - 1 <=> p <= v /\ v < p + t
      BY <1>1, <1>2, <1>4, <1>5
    <2> QED BY <2>1, <2>2
  <1>10. p .. p + len - 1 \subseteq 0 .. r - 1
    BY <1>1, <1>2, <1>4, <1>5
  <1>11. {v \in 0 .. r - 1 : v \div t = p \div t} = p .. p + len - 1
    <2> DEFINE Same(v) == v \div t = p \div t
    <2>1. \A v \in 0 .. r - 1 : Same(v) <=> v \in p .. p + len - 1
      BY <1>9
    <2> HIDE DEF Same
    <2>2. {v \in 0 .. r - 1 : Same(v)} = p .. p + len - 1
      BY <1>10, <2>1
    <2> QED BY <2>2 DEF Same
  <1> QED BY <1>11 DEF r, t, p, len

(* An item that is not the last one, and the carry into the outermost loop. *)
LEMMA NotTheLast ==
  ASSUME CallOK, ItemsFrom(1) # 0, NEW x \in Nat, x < ItemsFrom(1)
  PROVE  /\ Remainder(x, ItemsFrom(1)) = x
         /\ (\A e \in Dims : AtLast(x, e)) <=> x + 1 = ItemsFrom(1)
  <1>1. 1 \in Dims /\ 0 \in 0 .. function.dims /\ \A e \in Dims : e > 0
    BY DEF CallOK, Dims
  <1>2. ItemsFrom(1) \in Nat \ {0}
    BY <1>1, PositiveItems
  <1>3. Remainder(x, ItemsFrom(1)) = x
    <2>1. x \in 0 .. ItemsFrom(1) - 1 /\ IsDivision(x, ItemsFrom(1), 0, x)
      BY <1>2, SMT DEF IsDivision
    <2> QED BY <1>2, <2>1, UniqueDivision
  <1>4. 0 + 1 = 1
    OBVIOUS
  <1>5. (\A e \in Dims : AtLast(x, e)) <=> Remainder(x, ItemsFrom(1)) = ItemsFrom(1) - 1
    BY <1>1, <1>4, InnerAtLast
  <1> QED BY <1>2, <1>3, <1>5

(* Carries give the position of the next item. *)
LEMMA CarryIsNext ==
  ASSUME CallOK, Representable, ItemsFrom(1) # 0, NEW x \in Nat, x + 1 < ItemsFrom(1),
         position = LoopItem(x), NEW next,
         next = [d \in Dims |->
                   IF \E e \in Dims : e > d /\ ~AtLast(x, e) THEN position[d]
                   ELSE IF d > 1 /\ AtLast(x, d) THEN 0
                   ELSE Plus(position[d], tile[d])]
  PROVE  next = LoopItem(x + 1)
  <1>1. 1 \in Dims /\ ItemsFrom(1) \in Nat \ {0} /\ x < ItemsFrom(1) /\ \A d \in Dims : d \in 1 .. 6
    <2>1. 1 \in Dims /\ \A d \in Dims : d \in 1 .. 6
      BY DEF CallOK, Dims
    <2> QED BY <2>1, PositiveItems
  <1>2. ASSUME NEW d \in Dims
        PROVE  next[d] = Digit(x + 1, d) * tile[d]
    <2> DEFINE i == Digit(x, d)
               t == tile[d]
               inner == \A e \in Dims : e > d => AtLast(x, e)
    <2>1. position[d] = i * t /\ Plus(position[d], t) = i * t + t
      BY PositionOfItem
    <2>2. Digit(x + 1, d) = IF ~inner THEN i ELSE IF AtLast(x, d) THEN 0 ELSE i + 1
      <3>1. d \in 0 .. function.dims
        BY <1>1 DEF Dims
      <3>2. inner <=> Remainder(x, ItemsFrom(d + 1)) = ItemsFrom(d + 1) - 1
        BY <3>1, InnerAtLast
      <3> QED BY <3>2, NextDigit
    <2>3. d = 1 /\ inner => ~AtLast(x, d)
      <3>1. ~\A e \in Dims : AtLast(x, e)
        BY <1>1, NotTheLast
      <3>2. d = 1 => \A e \in Dims : e > d \/ e = d
        BY <1>1
      <3> QED BY <3>1, <3>2
    <2>4. next[d] = IF ~inner THEN i * t ELSE IF d > 1 /\ AtLast(x, d) THEN 0 ELSE i * t + t
      BY <2>1
    <2>5. i \in Nat /\ t \in Nat
      <3>1. i \in 0 .. TileRange(d) - 1 /\ TileRange(d) \in Nat \ {0}
        BY Digits, PositiveItems
      <3>2. t \in Nat
        BY SizeAssumption DEF CallOK
      <3> QED BY <3>1, <3>2
    <2> HIDE DEF i, t, inner
    <2>6. (i + 1) * t = i * t + t /\ 0 * t = 0
      BY <2>5, SMT
    <2>7. d = 1 \/ d > 1
      BY <1>1
    <2>8. next[d] = Digit(x + 1, d) * t
      <3> HIDE DEF LoopItem
      <3>1. CASE ~inner
        BY <2>2, <2>4, <3>1
      <3>2. CASE inner /\ AtLast(x, d)
        BY <2>2, <2>3, <2>4, <2>6, <2>7, <3>2
      <3>3. CASE inner /\ ~AtLast(x, d)
        BY <2>2, <2>4, <2>6, <3>3
      <3> QED BY <3>1, <3>2, <3>3
    <2> QED BY <2>8 DEF t
  <1>3. LoopItem(x + 1) = [d \in Dims |-> Digit(x + 1, d) * tile[d]]
    BY DEF LoopItem, Digit
  <1>4. next = [d \in Dims |-> next[d]]
    OBVIOUS
  <1> QED BY <1>2, <1>3, <1>4

(* The walk of a thread function and the nested loops go to the next item. *)
LEMMA WalkIsNext ==
  ASSUME CallOK, Representable, ItemsFrom(1) # 0, NEW x \in Nat, x + 1 < ItemsFrom(1),
         position = LoopItem(x)
  PROVE  Advance(WalkAtEnd) = LoopItem(x + 1)
  <1>1. \A d \in Dims : WalkAtEnd(d) <=> AtLast(x, d)
    BY PositionOfItem
  <1>2. Advance(WalkAtEnd) =
          [d \in Dims |->
             IF \E e \in Dims : e > d /\ ~AtLast(x, e) THEN position[d]
             ELSE IF d > 1 /\ AtLast(x, d) THEN 0
             ELSE Plus(position[d], tile[d])]
    BY <1>1 DEF Advance
  <1> QED BY <1>2, CarryIsNext

LEMMA LoopIsNext ==
  ASSUME CallOK, Representable, ItemsFrom(1) # 0, NEW x \in Nat, x + 1 < ItemsFrom(1),
         position = LoopItem(x)
  PROVE  Advance(LoopAtEnd) = LoopItem(x + 1)
  <1>1. \A d \in Dims : LoopAtEnd(d) <=> AtLast(x, d)
    BY PositionOfItem
  <1>2. Advance(LoopAtEnd) =
          [d \in Dims |->
             IF \E e \in Dims : e > d /\ ~AtLast(x, e) THEN position[d]
             ELSE IF d > 1 /\ AtLast(x, d) THEN 0
             ELSE Plus(position[d], tile[d])]
    BY <1>1 DEF Advance
  <1> QED BY <1>2, CarryIsNext

-----------------------------------------------------------------------------
(* The divisions of the thread functions. *)

(* Other than zero modulo M, as an operation's linear range is, a product *)
(* has no factor and no product of factors that a thread cannot divide by. *)
LEMMA Divisors ==
  ASSUME CallOK, ItemsFrom(1) % M # 0
  PROVE  /\ ItemsFrom(1) # 0
         /\ \A d \in Dims : TileRange(d) \in Nat \ {0}
         /\ \A d \in Dims : d + 1 \in Dims =>
              LET ab == Times(TileRange(d), TileRange(d + 1))
              IN /\ ab \in Nat \ {0}
                 /\ ItemsFrom(1) < M => ab = TileRange(d) * TileRange(d + 1)
                 /\ ItemsFrom(1) < M /\ d + 1 = function.dims => ab = ItemsFrom(d)
         /\ \A d \in Dims : d + 2 = function.dims =>
              LET abc == Times(Times(TileRange(d), TileRange(d + 1)), TileRange(d + 2))
              IN /\ abc \in Nat \ {0}
                 /\ ItemsFrom(1) < M => abc = ItemsFrom(d)
  <1> DEFINE n == function.dims
             I(d) == ItemsFrom(d)
             T(d) == TileRange(d)
  <1>1. n \in 1 .. 6 /\ Dims = 1 .. n /\ M \in Nat
    BY SizeAssumption DEF CallOK, Dims
  <1>2. I(1) # 0
    BY <1>1, SizeAssumption, 0 % M = 0
  <1>3. /\ I(n + 1) = 1
        /\ \A d \in Dims : /\ T(d) \in Nat \ {0} /\ I(d) \in Nat \ {0} /\ I(d + 1) \in Nat \ {0}
                           /\ I(d) = T(d) * I(d + 1) /\ I(d) <= I(1)
    BY <1>2, PositiveItems, ItemsFromSteps
  <1> HIDE DEF n, I, T
  <1>below. ASSUME NEW d \in Dims, NEW p \in Nat, p <= I(d), I(1) < M
        PROVE  p < M
    <2>1. I(1) \in Nat \ {0} /\ I(d) \in Nat \ {0} /\ I(d) <= I(1)
      <3>1. 1 \in Dims
        BY <1>1
      <3> QED BY <1>3, <3>1
    <2>2. \A a, b, c, e \in Nat : a <= b /\ b <= c /\ c < e => a < e
      OBVIOUS
    <2> QED BY <1>below, <1>1, <2>1, <2>2
  <1>4. ASSUME NEW d \in Dims, I(d) % M # 0
        PROVE  I(d + 1) % M # 0
    <2>1. I(d) = I(d + 1) * T(d)
      BY <1>3, SMT
    <2> QED BY <1>3, <1>4, <2>1, Modulo
  <1>5. \A d \in Dims : I(d) % M # 0
    <2> DEFINE P(d) == I(d) % M # 0
    <2>0. P(1)
      BY DEF I
    <2>1. \A d \in Dims : P(d) => P(d + 1)
      BY <1>4
    <2> HIDE DEF P
    <2>2. 2 \in Dims => P(2)
      BY <1>1, <2>0, <2>1
    <2>3. 3 \in Dims => P(3)
      BY <1>1, <2>2, <2>1
    <2>4. 4 \in Dims => P(4)
      BY <1>1, <2>3, <2>1
    <2>5. 5 \in Dims => P(5)
      BY <1>1, <2>4, <2>1
    <2>6. 6 \in Dims => P(6)
      BY <1>1, <2>5, <2>1
    <2>7. \A d \in Dims : P(d)
      BY <1>1, <2>0, <2>2, <2>3, <2>4, <2>5, <2>6
    <2> QED BY <2>7 DEF P
  <1>6. ASSUME NEW d \in Dims, d + 1 \in Dims
        PROVE  LET ab == Times(T(d), T(d + 1))
               IN /\ ab \in Nat \ {0}
                  /\ I(1) < M => ab = T(d) * T(d + 1)
                  /\ I(1) < M /\ d + 1 = n => ab = I(d)
    <2> DEFINE p == T(d) * T(d + 1)
    <2>1. d + 1 + 1 = d + 2 /\ d \in Int
      BY <1>1
    <2>2. /\ T(d) \in Nat \ {0} /\ T(d + 1) \in Nat \ {0} /\ I(d + 2) \in Nat \ {0}
          /\ I(d) = T(d) * I(d + 1) /\ I(d + 1) = T(d + 1) * I(d + 2)
      BY <1>3, <1>6, <2>1
    <2>3. p \in Nat \ {0} /\ I(d) = p * I(d + 2)
      BY <2>2, SMT
    <2>4. Times(T(d), T(d + 1)) = p % M
      BY DEF Times
    <2> HIDE DEF p
    <2>5. p % M # 0 /\ p % M \in Nat
      <3>1. I(d) % M # 0
        BY <1>5
      <3>2. p % M \in 0 .. M - 1 /\ (p % M = 0 => (p * I(d + 2)) % M = 0)
        BY <2>2, <2>3, Modulo
      <3> QED BY <1>1, <2>3, <3>1, <3>2
    <2>6. I(1) < M => p % M = p
      <3>1. p <= p * I(d + 2)
        <4> DEFINE v == I(d + 2)
        <4>1. p \in Nat \ {0} /\ v \in Nat \ {0}
          BY <2>2, <2>3
        <4> HIDE DEF v
        <4>2. p <= p * v
          BY <4>1, SMT
        <4> QED BY <4>2 DEF v
      <3>2. I(1) < M => p < M
        <4>1. p \in Nat /\ p <= I(d)
          BY <2>3, <3>1
        <4> QED BY <1>below, <4>1
      <3> QED BY <2>3, <3>2, SmallModulo
    <2>7. d + 1 = n => p = I(d)
      <3>1. d + 1 = n => I(d + 2) = 1
        BY <1>3, <2>1
      <3>2. p * 1 = p
        BY <2>3, SMT
      <3> QED BY <2>3, <3>1, <3>2
    <2> QED BY <2>4, <2>5, <2>6, <2>7 DEF p
  <1>7. ASSUME NEW d \in Dims, d + 2 = n
        PROVE  LET abc == Times(Times(T(d), T(d + 1)), T(d + 2))
               IN abc \in Nat \ {0} /\ (I(1) < M => abc = I(d))
    <2>1. d + 1 \in Dims /\ d + 2 \in Dims /\ d + 1 + 1 = d + 2 /\ d + 2 + 1 = n + 1
      BY <1>1, <1>7
    <2>2. /\ T(d) \in Nat /\ T(d + 1) \in Nat /\ T(d + 2) \in Nat /\ I(d + 2) \in Nat
          /\ I(d) = T(d) * I(d + 1) /\ I(d + 1) = T(d + 1) * I(d + 2)
          /\ I(d + 2) = T(d + 2) * 1
      BY <1>3, <2>1
    <2> DEFINE p == T(d) * T(d + 1)
    <2>3. p \in Nat /\ I(d) = p * T(d + 2) /\ I(d) \in Nat
      BY <2>2, SMT
    <2>4. Times(T(d), T(d + 1)) = p % M
      BY DEF Times
    <2> HIDE DEF p
    <2>5. Times(p % M, T(d + 2)) = (p * T(d + 2)) % M
      BY <2>2, <2>3, Modulo
    <2>6. I(d) % M # 0 /\ I(d) % M \in Nat
      <3>1. I(d) % M \in 0 .. M - 1
        BY <2>2, <2>3, Modulo
      <3> QED BY <1>1, <1>5, <3>1
    <2>7. I(1) < M => I(d) % M = I(d)
      <3>1. I(1) < M => I(d) < M
        <4>1. I(d) \in Nat /\ I(d) <= I(d)
          BY <2>3
        <4> QED BY <1>below, <4>1
      <3> DEFINE v == I(d)
      <3>2. v \in Nat
        BY <2>3
      <3> HIDE DEF v
      <3>3. v < M => v % M = v
        BY <3>2, SmallModulo
      <3> QED BY <3>1, <3>3 DEF v
    <2> QED BY <2>3, <2>4, <2>5, <2>6, <2>7
  <1> QED BY <1>2, <1>3, <1>6, <1>7 DEF I, T, n

(* The numbers that the thread functions of each shape compute. *)
Index3(x) ==
  LET ij_k == Split(x, TileRange(3))
  IN Split(ij_k[1], TileRange(2)) \o <<ij_k[2]>>

Index4(x) ==
  LET ij_kl == Split(x, Times(TileRange(3), TileRange(4)))
  IN Split(ij_kl[1], TileRange(2)) \o Split(ij_kl[2], TileRange(4))

Index5(x) ==
  LET ijk_lm == Split(x, Times(TileRange(4), TileRange(5)))
      ij_k == Split(ijk_lm[1], TileRange(3))
  IN Split(ij_k[1], TileRange(2)) \o <<ij_k[2]>> \o Split(ijk_lm[2], TileRange(5))

Index5Tile1(x) ==
  LET ijkl_m == Split(x, TileRange(5))
      ij_kl == Split(ijkl_m[1], Times(TileRange(3), TileRange(4)))
  IN Split(ij_kl[1], TileRange(2)) \o Split(ij_kl[2], TileRange(4)) \o <<ijkl_m[2]>>

Index6(x) ==
  LET ijk_lmn == Split(x, Times(Times(TileRange(4), TileRange(5)), TileRange(6)))
      ij_k == Split(ijk_lmn[1], TileRange(3))
      lm_n == Split(ijk_lmn[2], TileRange(6))
  IN Split(ij_k[1], TileRange(2)) \o <<ij_k[2]>> \o Split(lm_n[1], TileRange(5)) \o <<lm_n[2]>>

Index6Tile2(x) ==
  LET ijkl_mn == Split(x, Times(TileRange(5), TileRange(6)))
      ij_kl == Split(ijkl_mn[1], Times(TileRange(3), TileRange(4)))
  IN Split(ij_kl[1], TileRange(2)) \o Split(ij_kl[2], TileRange(4)) \o Split(ijkl_mn[2], TileRange(6))

(* They are the numbers of the tiles of the x-th item. *)
IsIndexOf(x, index) ==
  \A d \in Dims : /\ index[d] \in Nat
                  /\ ItemsFrom(1) < M /\ x < ItemsFrom(1) => index[d] = Digit(x, d)

(* fxdiv_divide_size_t gives quotient and remainder. *)
LEMMA SplitIs ==
  \A x, b : Split(x, b) = <<Quotient(x, b), Remainder(x, b)>>
  BY DEF Split, Quotient, Remainder

LEMMA QuotientsAreNatural ==
  \A x \in Nat, b \in Nat \ {0} : Quotient(x, b) \in Nat /\ Remainder(x, b) \in Nat
  BY QuotientAndRemainder

(* The outermost and the innermost dimension. *)
LEMMA OuterDigits ==
  ASSUME CallOK, ItemsFrom(1) # 0, NEW x \in Nat, x < ItemsFrom(1)
  PROVE  /\ Quotient(x, ItemsFrom(2)) = Digit(x, 1)
         /\ ItemsFrom(function.dims) = TileRange(function.dims)
         /\ Remainder(x, ItemsFrom(function.dims)) = Digit(x, function.dims)
  <1> DEFINE n == function.dims
  <1>1. 1 \in Dims /\ n \in Dims /\ 1 + 1 = 2
    BY DEF CallOK, Dims
  <1>2. Quotient(x, ItemsFrom(2)) = Digit(x, 1)
    <2>1. Quotient(Remainder(x, ItemsFrom(1)), ItemsFrom(2)) = Digit(x, 1)
      BY <1>1, Digits
    <2> QED BY <2>1, NotTheLast
  <1>3. ItemsFrom(n) = TileRange(n)
    <2>1. ItemsFrom(n) = TileRange(n) * 1 /\ TileRange(n) \in Nat
      BY <1>1, ItemsFromSteps
    <2> QED BY <2>1, SMT
  <1>4. Remainder(x, ItemsFrom(n)) = Digit(x, n)
    <2>1. Quotient(Remainder(x, ItemsFrom(n)), 1) = Digit(x, n) /\ Remainder(x, ItemsFrom(n)) \in Nat
      <3>1. ItemsFrom(n + 1) = 1 /\ ItemsFrom(n) \in Nat \ {0}
        BY <1>1, ItemsFromSteps, PositiveItems
      <3>2. /\ Quotient(Remainder(x, ItemsFrom(n)), ItemsFrom(n + 1)) = Digit(x, n)
            /\ Remainder(x, ItemsFrom(n)) \in 0 .. ItemsFrom(n) - 1
        BY <1>1, Digits
      <3> QED BY <3>1, <3>2
    <2>2. \A y \in Nat : Quotient(y, 1) = y
      BY DEF Quotient
    <2> QED BY <2>1, <2>2
  <1> QED BY <1>2, <1>3, <1>4

(* Each of these tuples has the numbers of the tiles. *)
LEMMA Index12 ==
  ASSUME CallOK, ItemsFrom(1) % M # 0, NEW x \in Nat
  PROVE  /\ function.dims = 1 => IsIndexOf(x, <<x>>)
         /\ function.dims = 2 => IsIndexOf(x, Split(x, TileRange(2)))
  <1>1. ItemsFrom(1) # 0 /\ \A d \in Dims : TileRange(d) \in Nat \ {0}
    BY Divisors
  <1>2. ASSUME function.dims = 1
        PROVE  IsIndexOf(x, <<x>>)
    <2>1. Dims = {1}
      BY <1>2 DEF Dims
    <2>2. x < ItemsFrom(1) => x = Digit(x, 1)
      BY <1>1, <1>2, OuterDigits, NotTheLast
    <2> QED BY <2>1, <2>2 DEF IsIndexOf
  <1>3. ASSUME function.dims = 2
        PROVE  IsIndexOf(x, Split(x, TileRange(2)))
    <2>1. Dims = {1, 2}
      BY <1>3 DEF Dims
    <2>2. /\ Quotient(x, TileRange(2)) \in Nat /\ Remainder(x, TileRange(2)) \in Nat
      BY <1>1, <2>1, QuotientsAreNatural
    <2>3. x < ItemsFrom(1) => /\ Quotient(x, TileRange(2)) = Digit(x, 1)
                              /\ Remainder(x, TileRange(2)) = Digit(x, 2)
      BY <1>1, <1>3, OuterDigits
    <2>4. Split(x, TileRange(2)) = <<Quotient(x, TileRange(2)), Remainder(x, TileRange(2))>>
      BY SplitIs
    <2> QED BY <2>1, <2>2, <2>3, <2>4 DEF IsIndexOf
  <1> QED BY <1>2, <1>3

LEMMA Index3IsRight ==
  ASSUME CallOK, ItemsFrom(1) % M # 0, NEW x \in Nat, function.dims = 3
  PROVE  IsIndexOf(x, Index3(x))
  <1> DEFINE q == Quotient(x, TileRange(3))
             r == Remainder(x, TileRange(3))
             i == Quotient(q, TileRange(2))
             j == Remainder(q, TileRange(2))
  <1>1. Dims = {1, 2, 3} /\ 2 + 1 = 3
    BY DEF Dims
  <1>2. ItemsFrom(1) # 0 /\ \A d \in Dims : TileRange(d) \in Nat \ {0}
    BY Divisors
  <1>3. q \in Nat /\ r \in Nat /\ i \in Nat /\ j \in Nat
    BY <1>1, <1>2, QuotientsAreNatural
  <1>4. Index3(x) = <<i, j>> \o <<r>>
    BY SplitIs DEF Index3
  <1>5. x < ItemsFrom(1) => i = Digit(x, 1) /\ j = Digit(x, 2) /\ r = Digit(x, 3)
    <2>1. /\ Quotient(Quotient(x, ItemsFrom(3)), TileRange(2)) = Quotient(x, ItemsFrom(2))
          /\ Remainder(Quotient(x, ItemsFrom(3)), TileRange(2)) = Digit(x, 2)
      BY <1>1, <1>2, Digits
    <2> QED BY <1>2, <2>1, OuterDigits
  <1> HIDE DEF q, r, i, j
  <1>6. LET s == <<i, j>> \o <<r>> IN s[1] = i /\ s[2] = j /\ s[3] = r
    OBVIOUS
  <1> QED BY <1>1, <1>3, <1>4, <1>5, <1>6 DEF IsIndexOf

LEMMA Index4IsRight ==
  ASSUME CallOK, ItemsFrom(1) % M # 0, NEW x \in Nat, function.dims = 4
  PROVE  IsIndexOf(x, Index4(x))
  <1> DEFINE c == Times(TileRange(3), TileRange(4))
             q == Quotient(x, c)
             r == Remainder(x, c)
             i == Quotient(q, TileRange(2))
             j == Remainder(q, TileRange(2))
             k == Quotient(r, TileRange(4))
             l == Remainder(r, TileRange(4))
  <1>1. Dims = {1, 2, 3, 4} /\ 2 + 1 = 3 /\ 3 + 1 = 4
    BY DEF Dims
  <1>2. ItemsFrom(1) # 0 /\ \A d \in Dims : TileRange(d) \in Nat \ {0}
    BY Divisors
  <1>3. c \in Nat \ {0} /\ (ItemsFrom(1) < M => c = ItemsFrom(3))
    BY <1>1, Divisors
  <1>4. q \in Nat /\ r \in Nat /\ i \in Nat /\ j \in Nat /\ k \in Nat /\ l \in Nat
    <2>1. q \in Nat /\ r \in Nat
      BY <1>3, QuotientsAreNatural
    <2> QED BY <1>1, <1>2, <2>1, QuotientsAreNatural
  <1>5. Index4(x) = <<i, j>> \o <<k, l>>
    BY SplitIs DEF Index4
  <1>6. ItemsFrom(1) < M /\ x < ItemsFrom(1) =>
          i = Digit(x, 1) /\ j = Digit(x, 2) /\ k = Digit(x, 3) /\ l = Digit(x, 4)
    <2>1. /\ Quotient(Quotient(x, ItemsFrom(3)), TileRange(2)) = Quotient(x, ItemsFrom(2))
          /\ Remainder(Quotient(x, ItemsFrom(3)), TileRange(2)) = Digit(x, 2)
      BY <1>1, <1>2, Digits
    <2>2. /\ Quotient(Remainder(x, ItemsFrom(3)), ItemsFrom(4)) = Digit(x, 3)
          /\ Remainder(Remainder(x, ItemsFrom(3)), ItemsFrom(4)) = Remainder(x, ItemsFrom(4))
      BY <1>1, <1>2, Digits
    <2> QED BY <1>2, <1>3, <2>1, <2>2, OuterDigits
  <1> HIDE DEF c, q, r, i, j, k, l
  <1>7. LET s == <<i, j>> \o <<k, l>> IN s[1] = i /\ s[2] = j /\ s[3] = k /\ s[4] = l
    OBVIOUS
  <1> QED BY <1>1, <1>4, <1>5, <1>6, <1>7 DEF IsIndexOf

LEMMA Index5IsRight ==
  ASSUME CallOK, ItemsFrom(1) % M # 0, NEW x \in Nat, function.dims = 5
  PROVE  IsIndexOf(x, Index5(x))
  <1> DEFINE c == Times(TileRange(4), TileRange(5))
             q == Quotient(x, c)
             r == Remainder(x, c)
             p == Quotient(q, TileRange(3))
             i == Quotient(p, TileRange(2))
             j == Remainder(p, TileRange(2))
             k == Remainder(q, TileRange(3))
             l == Quotient(r, TileRange(5))
             m == Remainder(r, TileRange(5))
  <1>1. Dims = {1, 2, 3, 4, 5} /\ 2 + 1 = 3 /\ 3 + 1 = 4 /\ 4 + 1 = 5
    BY DEF Dims
  <1>2. ItemsFrom(1) # 0 /\ \A d \in Dims : TileRange(d) \in Nat \ {0}
    BY Divisors
  <1>3. c \in Nat \ {0} /\ (ItemsFrom(1) < M => c = ItemsFrom(4))
    BY <1>1, Divisors
  <1>4. q \in Nat /\ p \in Nat /\ i \in Nat /\ j \in Nat /\ k \in Nat /\ l \in Nat /\ m \in Nat
    <2>1. q \in Nat /\ r \in Nat
      BY <1>3, QuotientsAreNatural
    <2>2. p \in Nat
      BY <1>1, <1>2, <2>1, QuotientsAreNatural
    <2> QED BY <1>1, <1>2, <2>1, <2>2, QuotientsAreNatural
  <1>5. Index5(x) = <<i, j>> \o <<k>> \o <<l, m>>
    BY SplitIs DEF Index5
  <1>6. ItemsFrom(1) < M /\ x < ItemsFrom(1) =>
          /\ i = Digit(x, 1) /\ j = Digit(x, 2) /\ k = Digit(x, 3)
          /\ l = Digit(x, 4) /\ m = Digit(x, 5)
    <2>1. /\ Quotient(Quotient(x, ItemsFrom(4)), TileRange(3)) = Quotient(x, ItemsFrom(3))
          /\ Remainder(Quotient(x, ItemsFrom(4)), TileRange(3)) = Digit(x, 3)
      BY <1>1, <1>2, Digits
    <2>2. /\ Quotient(Quotient(x, ItemsFrom(3)), TileRange(2)) = Quotient(x, ItemsFrom(2))
          /\ Remainder(Quotient(x, ItemsFrom(3)), TileRange(2)) = Digit(x, 2)
      BY <1>1, <1>2, Digits
    <2>3. /\ Quotient(Remainder(x, ItemsFrom(4)), ItemsFrom(5)) = Digit(x, 4)
          /\ Remainder(Remainder(x, ItemsFrom(4)), ItemsFrom(5)) = Remainder(x, ItemsFrom(5))
      BY <1>1, <1>2, Digits
    <2> QED BY <1>2, <1>3, <2>1, <2>2, <2>3, OuterDigits
  <1> HIDE DEF c, q, r, p, i, j, k, l, m
  <1>7. LET s == <<i, j>> \o <<k>> \o <<l, m>>
        IN s[1] = i /\ s[2] = j /\ s[3] = k /\ s[4] = l /\ s[5] = m
    OBVIOUS
  <1> QED BY <1>1, <1>4, <1>5, <1>6, <1>7 DEF IsIndexOf

LEMMA Index5Tile1IsRight ==
  ASSUME CallOK, ItemsFrom(1) % M # 0, NEW x \in Nat, function.dims = 5
  PROVE  IsIndexOf(x, Index5Tile1(x))
  <1> DEFINE c == Times(TileRange(3), TileRange(4))
             q == Quotient(x, TileRange(5))
             m == Remainder(x, TileRange(5))
             p == Quotient(q, c)
             r == Remainder(q, c)
             i == Quotient(p, TileRange(2))
             j == Remainder(p, TileRange(2))
             k == Quotient(r, TileRange(4))
             l == Remainder(r, TileRange(4))
  <1>1. Dims = {1, 2, 3, 4, 5} /\ 2 + 1 = 3 /\ 3 + 1 = 4 /\ 3 + 2 = 5
    BY DEF Dims
  <1>2. ItemsFrom(1) # 0 /\ \A d \in Dims : TileRange(d) \in Nat \ {0}
    BY Divisors
  <1>3. c \in Nat \ {0} /\ (ItemsFrom(1) < M => c = TileRange(3) * TileRange(4))
    BY <1>1, Divisors
  <1>4. q \in Nat /\ p \in Nat /\ i \in Nat /\ j \in Nat /\ k \in Nat /\ l \in Nat /\ m \in Nat
    <2>1. q \in Nat /\ m \in Nat
      BY <1>1, <1>2, QuotientsAreNatural
    <2>2. p \in Nat /\ r \in Nat
      BY <1>3, <2>1, QuotientsAreNatural
    <2> QED BY <1>1, <1>2, <2>1, <2>2, QuotientsAreNatural
  <1>5. Index5Tile1(x) = <<i, j>> \o <<k, l>> \o <<m>>
    BY SplitIs DEF Index5Tile1
  <1>6. ItemsFrom(1) < M /\ x < ItemsFrom(1) =>
          /\ i = Digit(x, 1) /\ j = Digit(x, 2) /\ k = Digit(x, 3)
          /\ l = Digit(x, 4) /\ m = Digit(x, 5)
    <2>1. ASSUME c = TileRange(3) * TileRange(4)
          PROVE  LET y == Remainder(Quotient(x, ItemsFrom(5)), c)
                 IN /\ Quotient(Quotient(x, ItemsFrom(5)), c) = Quotient(x, ItemsFrom(3))
                    /\ Quotient(y, TileRange(4)) = Digit(x, 3)
                    /\ Remainder(y, TileRange(4)) = Digit(x, 4)
      <3>1. IsProduct(c, TileRange(3), TileRange(4))
        BY <2>1 DEF IsProduct
      <3>2. 3 \in Dims /\ 4 \in Dims /\ 4 = 3 + 1 /\ 5 = 4 + 1
        BY <1>1
      <3> HIDE DEF c
      <3> QED BY <1>2, <3>1, <3>2, TwoDigits
    <2>2. /\ Quotient(Quotient(x, ItemsFrom(3)), TileRange(2)) = Quotient(x, ItemsFrom(2))
          /\ Remainder(Quotient(x, ItemsFrom(3)), TileRange(2)) = Digit(x, 2)
      BY <1>1, <1>2, Digits
    <2> HIDE DEF c
    <2> QED BY <1>2, <1>3, <2>1, <2>2, OuterDigits
  <1> HIDE DEF c, q, r, p, i, j, k, l, m
  <1>7. LET s == <<i, j>> \o <<k, l>> \o <<m>>
        IN s[1] = i /\ s[2] = j /\ s[3] = k /\ s[4] = l /\ s[5] = m
    OBVIOUS
  <1> QED BY <1>1, <1>4, <1>5, <1>6, <1>7 DEF IsIndexOf

LEMMA Index6IsRight ==
  ASSUME CallOK, ItemsFrom(1) % M # 0, NEW x \in Nat, function.dims = 6
  PROVE  IsIndexOf(x, Index6(x))
  <1> DEFINE c == Times(Times(TileRange(4), TileRange(5)), TileRange(6))
             q == Quotient(x, c)
             r == Remainder(x, c)
             p == Quotient(q, TileRange(3))
             t == Quotient(r, TileRange(6))
             i == Quotient(p, TileRange(2))
             j == Remainder(p, TileRange(2))
             k == Remainder(q, TileRange(3))
             l == Quotient(t, TileRange(5))
             m == Remainder(t, TileRange(5))
             n == Remainder(r, TileRange(6))
  <1>1. /\ Dims = {1, 2, 3, 4, 5, 6}
        /\ 2 + 1 = 3 /\ 3 + 1 = 4 /\ 4 + 1 = 5 /\ 4 + 2 = 6 /\ 5 + 1 = 6
    BY DEF Dims
  <1>2. ItemsFrom(1) # 0 /\ \A d \in Dims : TileRange(d) \in Nat \ {0}
    BY Divisors
  <1>3. c \in Nat \ {0} /\ (ItemsFrom(1) < M => c = ItemsFrom(4))
    BY <1>1, Divisors
  <1>4. i \in Nat /\ j \in Nat /\ k \in Nat /\ l \in Nat /\ m \in Nat /\ n \in Nat
    <2>1. q \in Nat /\ r \in Nat
      BY <1>3, QuotientsAreNatural
    <2>2. p \in Nat /\ t \in Nat
      BY <1>1, <1>2, <2>1, QuotientsAreNatural
    <2> QED BY <1>1, <1>2, <2>1, <2>2, QuotientsAreNatural
  <1>5. Index6(x) = <<i, j>> \o <<k>> \o <<l, m>> \o <<n>>
    BY SplitIs DEF Index6
  <1>6. ItemsFrom(1) < M /\ x < ItemsFrom(1) =>
          /\ i = Digit(x, 1) /\ j = Digit(x, 2) /\ k = Digit(x, 3)
          /\ l = Digit(x, 4) /\ m = Digit(x, 5) /\ n = Digit(x, 6)
    <2>1. /\ Quotient(Quotient(x, ItemsFrom(4)), TileRange(3)) = Quotient(x, ItemsFrom(3))
          /\ Remainder(Quotient(x, ItemsFrom(4)), TileRange(3)) = Digit(x, 3)
      BY <1>1, <1>2, Digits
    <2>2. /\ Quotient(Quotient(x, ItemsFrom(3)), TileRange(2)) = Quotient(x, ItemsFrom(2))
          /\ Remainder(Quotient(x, ItemsFrom(3)), TileRange(2)) = Digit(x, 2)
      BY <1>1, <1>2, Digits
    <2>3. LET y == Quotient(Remainder(x, ItemsFrom(4)), ItemsFrom(6))
          IN /\ Quotient(y, TileRange(5)) = Digit(x, 4)
             /\ Remainder(y, TileRange(5)) = Digit(x, 5)
      <3> DEFINE ab == TileRange(4) * TileRange(5)
      <3>1. IsProduct(ab, TileRange(4), TileRange(5))
        BY DEF IsProduct
      <3>2. 4 \in Dims /\ 5 \in Dims /\ 5 = 4 + 1 /\ 6 = 5 + 1
        BY <1>1
      <3> HIDE DEF ab
      <3> QED BY <1>2, <3>1, <3>2, TwoDigits
    <2>4. Remainder(Remainder(x, ItemsFrom(4)), ItemsFrom(6)) = Remainder(x, ItemsFrom(6))
      <3>1. /\ Remainder(Remainder(x, ItemsFrom(4)), ItemsFrom(5)) = Remainder(x, ItemsFrom(5))
            /\ Remainder(x, ItemsFrom(4)) \in 0 .. ItemsFrom(4) - 1 /\ ItemsFrom(4) \in Nat \ {0}
        BY <1>1, <1>2, Digits, PositiveItems
      <3>2. Remainder(Remainder(x, ItemsFrom(5)), ItemsFrom(6)) = Remainder(x, ItemsFrom(6))
        BY <1>1, <1>2, Digits
      <3> DEFINE y == Remainder(x, ItemsFrom(4))
      <3>3. y \in Nat
        BY <3>1
      <3> HIDE DEF y
      <3>4. Remainder(Remainder(y, ItemsFrom(5)), ItemsFrom(6)) = Remainder(y, ItemsFrom(6))
        BY <1>1, <1>2, <3>3, Digits
      <3> QED BY <3>1, <3>2, <3>4 DEF y
    <2> QED BY <1>2, <1>3, <2>1, <2>2, <2>3, <2>4, OuterDigits
  <1> HIDE DEF c, q, r, p, t, i, j, k, l, m, n
  <1>7. LET s == <<i, j>> \o <<k>> \o <<l, m>> \o <<n>>
        IN s[1] = i /\ s[2] = j /\ s[3] = k /\ s[4] = l /\ s[5] = m /\ s[6] = n
    OBVIOUS
  <1> QED BY <1>1, <1>4, <1>5, <1>6, <1>7 DEF IsIndexOf

LEMMA Index6Tile2IsRight ==
  ASSUME CallOK, ItemsFrom(1) % M # 0, NEW x \in Nat, function.dims = 6
  PROVE  IsIndexOf(x, Index6Tile2(x))
  <1> DEFINE c == Times(TileRange(5), TileRange(6))
             e == Times(TileRange(3), TileRange(4))
             q == Quotient(x, c)
             r == Remainder(x, c)
             p == Quotient(q, e)
             t == Remainder(q, e)
             i == Quotient(p, TileRange(2))
             j == Remainder(p, TileRange(2))
             k == Quotient(t, TileRange(4))
             l == Remainder(t, TileRange(4))
             m == Quotient(r, TileRange(6))
             n == Remainder(r, TileRange(6))
  <1>1. /\ Dims = {1, 2, 3, 4, 5, 6}
        /\ 2 + 1 = 3 /\ 3 + 1 = 4 /\ 3 + 2 = 5 /\ 5 + 1 = 6
    BY DEF Dims
  <1>2. ItemsFrom(1) # 0 /\ \A d \in Dims : TileRange(d) \in Nat \ {0}
    BY Divisors
  <1>3. c \in Nat \ {0} /\ (ItemsFrom(1) < M => c = ItemsFrom(5))
    BY <1>1, Divisors
  <1>4. e \in Nat \ {0} /\ (ItemsFrom(1) < M => e = TileRange(3) * TileRange(4))
    BY <1>1, Divisors
  <1>5. i \in Nat /\ j \in Nat /\ k \in Nat /\ l \in Nat /\ m \in Nat /\ n \in Nat
    <2>1. q \in Nat /\ r \in Nat
      BY <1>3, QuotientsAreNatural
    <2>2. p \in Nat /\ t \in Nat
      BY <1>4, <2>1, QuotientsAreNatural
    <2> QED BY <1>1, <1>2, <2>1, <2>2, QuotientsAreNatural
  <1>6. Index6Tile2(x) = <<i, j>> \o <<k, l>> \o <<m, n>>
    BY SplitIs DEF Index6Tile2
  <1>7. ItemsFrom(1) < M /\ x < ItemsFrom(1) =>
          /\ i = Digit(x, 1) /\ j = Digit(x, 2) /\ k = Digit(x, 3)
          /\ l = Digit(x, 4) /\ m = Digit(x, 5) /\ n = Digit(x, 6)
    <2>1. ASSUME e = TileRange(3) * TileRange(4)
          PROVE  LET y == Remainder(Quotient(x, ItemsFrom(5)), e)
                 IN /\ Quotient(Quotient(x, ItemsFrom(5)), e) = Quotient(x, ItemsFrom(3))
                    /\ Quotient(y, TileRange(4)) = Digit(x, 3)
                    /\ Remainder(y, TileRange(4)) = Digit(x, 4)
      <3>1. IsProduct(e, TileRange(3), TileRange(4))
        BY <2>1 DEF IsProduct
      <3>2. 3 \in Dims /\ 4 \in Dims /\ 4 = 3 + 1 /\ 5 = 4 + 1
        BY <1>1
      <3> HIDE DEF e
      <3> QED BY <1>2, <3>1, <3>2, TwoDigits
    <2>2. /\ Quotient(Quotient(x, ItemsFrom(3)), TileRange(2)) = Quotient(x, ItemsFrom(2))
          /\ Remainder(Quotient(x, ItemsFrom(3)), TileRange(2)) = Digit(x, 2)
      BY <1>1, <1>2, Digits
    <2>3. /\ Quotient(Remainder(x, ItemsFrom(5)), ItemsFrom(6)) = Digit(x, 5)
          /\ Remainder(Remainder(x, ItemsFrom(5)), ItemsFrom(6)) = Remainder(x, ItemsFrom(6))
      <3>1. 5 \in Dims /\ 5 + 1 = 6
        BY <1>1
      <3> QED BY <1>2, <3>1, Digits
    <2> HIDE DEF e
    <2>4. SUFFICES ASSUME ItemsFrom(1) < M, x < ItemsFrom(1)
                   PROVE  /\ i = Digit(x, 1) /\ j = Digit(x, 2) /\ k = Digit(x, 3)
                          /\ l = Digit(x, 4) /\ m = Digit(x, 5) /\ n = Digit(x, 6)
      OBVIOUS
    <2>5. i = Digit(x, 1) /\ j = Digit(x, 2) /\ k = Digit(x, 3) /\ l = Digit(x, 4)
      BY <1>2, <1>3, <1>4, <2>1, <2>2, <2>4, OuterDigits
    <2>6. m = Digit(x, 5) /\ n = Digit(x, 6)
      <3>1. ItemsFrom(6) = TileRange(6) /\ Remainder(x, ItemsFrom(6)) = Digit(x, 6)
        BY <1>2, <2>4, OuterDigits
      <3> QED BY <1>3, <2>3, <2>4, <3>1
    <2> QED BY <2>5, <2>6
  <1> HIDE DEF c, e, q, r, p, t, i, j, k, l, m, n
  <1>8. LET s == <<i, j>> \o <<k, l>> \o <<m, n>>
        IN s[1] = i /\ s[2] = j /\ s[3] = k /\ s[4] = l /\ s[5] = m /\ s[6] = n
    OBVIOUS
  <1> QED BY <1>1, <1>5, <1>6, <1>7, <1>8 DEF IsIndexOf

-----------------------------------------------------------------------------
(* The items of a call are the same as long as the call is. *)

SameCall == UNCHANGED <<function, range, tile>>

LEMMA SameDims ==
  ASSUME SameCall
  PROVE  /\ Dims' = Dims /\ \A d : Tiled(d)' = Tiled(d) /\ TileRange(d)' = TileRange(d)
         /\ CallOK' = CallOK /\ LoopsAreEmpty' = LoopsAreEmpty
  BY DEF SameCall, Dims, Tiled, TileRange, CallOK, LoopsAreEmpty

LEMMA SameItems ==
  ASSUME SameCall, NEW d
  PROVE  ItemsFrom(d)' = ItemsFrom(d)
  BY DEF SameCall, ItemsFrom, LoopValues

LEMMA SameLoops ==
  ASSUME SameCall
  PROVE  /\ Representable' = Representable
         /\ \A x : LoopItem(x)' = LoopItem(x)
  BY SameItems, SameDims DEF SameCall, Representable, LoopItem

-----------------------------------------------------------------------------
(* The functions of the interface. *)
LEMMA FunctionKinds ==
  ASSUME NEW f \in Interface \cup Deprecated
  PROVE  /\ f.dims \in 1 .. 6 /\ f.tiles \in 0 .. 4
         /\ f.uarch \in BOOLEAN /\ f.thread \in BOOLEAN /\ f.legacy \in BOOLEAN
  <1> DEFINE K(d, t) == {Plain(d, t), WithThread(d, t), WithUarch(d, t),
                         WithUarchWithThread(d, t), Compute(d, t)}
  <1>1. ASSUME NEW d \in 1 .. 6, NEW t \in 0 .. 4, f \in K(d, t)
        PROVE  /\ f.dims \in 1 .. 6 /\ f.tiles \in 0 .. 4
               /\ f.uarch \in BOOLEAN /\ f.thread \in BOOLEAN /\ f.legacy \in BOOLEAN
    <2> DEFINE Record == [dims : 1 .. 6, tiles : 0 .. 4,
                          uarch : BOOLEAN, thread : BOOLEAN, legacy : BOOLEAN]
    <2>1. Plain(d, t) \in Record
      BY DEF Plain
    <2>2. /\ WithThread(d, t) \in Record /\ WithUarch(d, t) \in Record
          /\ WithUarchWithThread(d, t) \in Record /\ Compute(d, t) \in Record
      BY DEF Plain, WithThread, WithUarch, WithUarchWithThread, Compute
    <2>3. f \in Record
      BY <1>1, <2>1, <2>2
    <2> QED BY <2>3
  <1>2. \A d, t : /\ Plain(d, t) \in K(d, t) /\ WithThread(d, t) \in K(d, t)
                 /\ WithUarch(d, t) \in K(d, t) /\ WithUarchWithThread(d, t) \in K(d, t)
                 /\ Compute(d, t) \in K(d, t)
    OBVIOUS
  <1> HIDE DEF K
  <1>3. \E d \in 1 .. 6, t \in 0 .. 4 : f \in K(d, t)
    BY <1>2 DEF Interface, Deprecated
  <1> QED BY <1>1, <1>3

(* What a name of a function says of its shape. *)
LEMMA KindsOf ==
  ASSUME NEW d, NEW t
  PROVE  /\ Plain(d, t).dims = d /\ Plain(d, t).tiles = t
         /\ WithThread(d, t).dims = d /\ WithThread(d, t).tiles = t
         /\ WithUarch(d, t).dims = d /\ WithUarch(d, t).tiles = t
         /\ WithUarchWithThread(d, t).dims = d /\ WithUarchWithThread(d, t).tiles = t
         /\ Compute(d, t).dims = d /\ Compute(d, t).tiles = t
  BY DEF Plain, WithThread, WithUarch, WithUarchWithThread, Compute

(* A dimension without tiles has as many items as its range. *)
LEMMA PlainRange ==
  ASSUME CallOK, NEW d \in Dims, ~(d > function.dims - function.tiles)
  PROVE  TileRange(d) = range[d]
  BY RoundUp, SizeAssumption DEF CallOK, Tiled, TileRange

(* The thread functions, and the tasks of the deprecated functions, of each *)
(* number of dimensions.                                                    *)
Tasks12(x) ==
  \/ thread_parallelize_1d(x) \/ thread_parallelize_1d_with_thread(x)
  \/ thread_parallelize_1d_with_uarch(x) \/ thread_parallelize_1d_tile_1d(x)
  \/ thread_parallelize_2d(x) \/ thread_parallelize_2d_with_thread(x)
  \/ thread_parallelize_2d_tile_1d(x)
  \/ thread_parallelize_2d_tile_1d_with_uarch(x)
  \/ thread_parallelize_2d_tile_1d_with_uarch_with_thread(x)
  \/ thread_parallelize_2d_tile_2d(x)
  \/ thread_parallelize_2d_tile_2d_with_uarch(x)

Tasks3(x) ==
  \/ thread_parallelize_3d(x) \/ thread_parallelize_3d_tile_1d(x)
  \/ thread_parallelize_3d_tile_1d_with_thread(x)
  \/ thread_parallelize_3d_tile_1d_with_uarch(x)
  \/ thread_parallelize_3d_tile_1d_with_uarch_with_thread(x)
  \/ thread_parallelize_3d_tile_2d(x)
  \/ thread_parallelize_3d_tile_2d_with_uarch(x) \/ compute_3d_tiled(x)

Tasks4(x) ==
  \/ thread_parallelize_4d(x) \/ thread_parallelize_4d_tile_1d(x)
  \/ thread_parallelize_4d_tile_2d(x) \/ thread_parallelize_4d_tile_2d_with_uarch(x)
  \/ compute_4d_tiled(x)

Tasks56(x) ==
  \/ thread_parallelize_5d(x) \/ thread_parallelize_5d_tile_1d(x)
  \/ thread_parallelize_5d_tile_2d(x) \/ thread_parallelize_6d(x)
  \/ thread_parallelize_6d_tile_1d(x) \/ thread_parallelize_6d_tile_2d(x)

LEMMA AllTasks ==
  ASSUME NEW x, ThreadFunction(x) \/ FastPathFunction(x) \/ ComputeTask(x)
  PROVE  Tasks12(x) \/ Tasks3(x) \/ Tasks4(x) \/ Tasks56(x)
  <1>1. FastPathFunction(x) => ThreadFunction(x)
    BY DEF FastPathFunction, ThreadFunction,
           pthreadpool_thread_parallelize_1d_fastpath,
           pthreadpool_thread_parallelize_1d_with_thread_fastpath,
           pthreadpool_thread_parallelize_1d_with_uarch_fastpath,
           pthreadpool_thread_parallelize_1d_tile_1d_fastpath,
           pthreadpool_thread_parallelize_2d_fastpath,
           pthreadpool_thread_parallelize_2d_with_thread_fastpath,
           pthreadpool_thread_parallelize_2d_tile_1d_fastpath,
           pthreadpool_thread_parallelize_2d_tile_1d_with_uarch_fastpath,
           pthreadpool_thread_parallelize_2d_tile_1d_with_uarch_with_thread_fastpath,
           pthreadpool_thread_parallelize_2d_tile_2d_fastpath,
           pthreadpool_thread_parallelize_2d_tile_2d_with_uarch_fastpath,
           pthreadpool_thread_parallelize_3d_fastpath,
           pthreadpool_thread_parallelize_3d_tile_1d_fastpath,
           pthreadpool_thread_parallelize_3d_tile_1d_with_thread_fastpath,
           pthreadpool_thread_parallelize_3d_tile_1d_with_uarch_fastpath,
           pthreadpool_thread_parallelize_3d_tile_1d_with_uarch_with_thread_fastpath,
           pthreadpool_thread_parallelize_3d_tile_2d_fastpath,
           pthreadpool_thread_parallelize_3d_tile_2d_with_uarch_fastpath,
           pthreadpool_thread_parallelize_4d_fastpath,
           pthreadpool_thread_parallelize_4d_tile_1d_fastpath,
           pthreadpool_thread_parallelize_4d_tile_2d_fastpath,
           pthreadpool_thread_parallelize_4d_tile_2d_with_uarch_fastpath,
           pthreadpool_thread_parallelize_5d_fastpath,
           pthreadpool_thread_parallelize_5d_tile_1d_fastpath,
           pthreadpool_thread_parallelize_5d_tile_2d_fastpath,
           pthreadpool_thread_parallelize_6d_fastpath,
           pthreadpool_thread_parallelize_6d_tile_1d_fastpath,
           pthreadpool_thread_parallelize_6d_tile_2d_fastpath
  <1> QED BY <1>1, Zenon DEF ThreadFunction, ComputeTask, Tasks12, Tasks3, Tasks4, Tasks56

(* The divisors of a task are the numbers of tiles of its inner dimensions. *)
LEMMA Tasks12Divide ==
  ASSUME CallOK, ItemsFrom(1) % M # 0, NEW x \in Nat, Tasks12(x)
  PROVE  \E index : IsIndexOf(x, index) /\ TakeItem(x, index)
  <1>1. CASE \/ thread_parallelize_1d(x) \/ thread_parallelize_1d_with_thread(x)
             \/ thread_parallelize_1d_with_uarch(x) \/ thread_parallelize_1d_tile_1d(x)
    <2>1. function.dims = 1 /\ TakeItem(x, <<x>>)
      BY <1>1, KindsOf DEF thread_parallelize_1d, thread_parallelize_1d_with_thread,
         thread_parallelize_1d_with_uarch, thread_parallelize_1d_tile_1d
    <2> QED BY <2>1, Index12
  <1>2. CASE \/ thread_parallelize_2d(x) \/ thread_parallelize_2d_with_thread(x)
    <2>1. function.dims = 2 /\ function.tiles = 0 /\ TakeItem(x, Split(x, range[2]))
      BY <1>2, KindsOf DEF thread_parallelize_2d, thread_parallelize_2d_with_thread
    <2>2. TileRange(2) = range[2]
      BY <2>1, PlainRange DEF Dims
    <2> QED BY <2>1, <2>2, Index12
  <1>3. CASE \/ thread_parallelize_2d_tile_1d(x)
             \/ thread_parallelize_2d_tile_1d_with_uarch(x)
             \/ thread_parallelize_2d_tile_1d_with_uarch_with_thread(x)
             \/ thread_parallelize_2d_tile_2d(x)
             \/ thread_parallelize_2d_tile_2d_with_uarch(x)
    <2>1. function.dims = 2 /\ TakeItem(x, Split(x, TileRange(2)))
      BY <1>3, KindsOf DEF thread_parallelize_2d_tile_1d,
         thread_parallelize_2d_tile_1d_with_uarch,
         thread_parallelize_2d_tile_1d_with_uarch_with_thread,
         thread_parallelize_2d_tile_2d, thread_parallelize_2d_tile_2d_with_uarch
    <2> QED BY <2>1, Index12
  <1> QED BY <1>1, <1>2, <1>3 DEF Tasks12

LEMMA Tasks3Divide ==
  ASSUME CallOK, ItemsFrom(1) % M # 0, NEW x \in Nat, Tasks3(x)
  PROVE  \E index : IsIndexOf(x, index) /\ TakeItem(x, index)
  <1>1. function.dims = 3
    BY KindsOf DEF Tasks3, thread_parallelize_3d, thread_parallelize_3d_tile_1d,
       thread_parallelize_3d_tile_1d_with_thread,
       thread_parallelize_3d_tile_1d_with_uarch,
       thread_parallelize_3d_tile_1d_with_uarch_with_thread,
       thread_parallelize_3d_tile_2d, thread_parallelize_3d_tile_2d_with_uarch,
       compute_3d_tiled
  <1>2. Dims = {1, 2, 3}
    BY <1>1 DEF Dims
  <1>3. /\ function.tiles = 0 => TileRange(2) = range[2] /\ TileRange(3) = range[3]
        /\ function.tiles = 1 => TileRange(2) = range[2]
    BY <1>1, <1>2, PlainRange
  <1>4. TakeItem(x, Index3(x))
    <2>1. CASE thread_parallelize_3d(x)
      BY <1>3, <2>1, KindsOf DEF thread_parallelize_3d, Index3
    <2>2. CASE \/ thread_parallelize_3d_tile_1d(x)
               \/ thread_parallelize_3d_tile_1d_with_thread(x)
               \/ thread_parallelize_3d_tile_1d_with_uarch(x)
               \/ thread_parallelize_3d_tile_1d_with_uarch_with_thread(x)
      BY <1>3, <2>2, KindsOf DEF Index3, thread_parallelize_3d_tile_1d,
         thread_parallelize_3d_tile_1d_with_thread,
         thread_parallelize_3d_tile_1d_with_uarch,
         thread_parallelize_3d_tile_1d_with_uarch_with_thread
    <2>3. CASE \/ thread_parallelize_3d_tile_2d(x)
               \/ thread_parallelize_3d_tile_2d_with_uarch(x)
               \/ compute_3d_tiled(x)
      BY <2>3 DEF Index3, thread_parallelize_3d_tile_2d,
         thread_parallelize_3d_tile_2d_with_uarch, compute_3d_tiled
    <2> QED BY <2>1, <2>2, <2>3 DEF Tasks3
  <1> QED BY <1>1, <1>4, Index3IsRight

LEMMA Tasks4Divide ==
  ASSUME CallOK, ItemsFrom(1) % M # 0, NEW x \in Nat, Tasks4(x)
  PROVE  \E index : IsIndexOf(x, index) /\ TakeItem(x, index)
  <1>1. function.dims = 4
    BY KindsOf DEF Tasks4, thread_parallelize_4d, thread_parallelize_4d_tile_1d,
       thread_parallelize_4d_tile_2d, thread_parallelize_4d_tile_2d_with_uarch,
       compute_4d_tiled
  <1>2. Dims = {1, 2, 3, 4}
    BY <1>1 DEF Dims
  <1>3. /\ function.tiles = 0 => /\ TileRange(2) = range[2] /\ TileRange(3) = range[3]
                                 /\ TileRange(4) = range[4]
        /\ function.tiles = 1 => TileRange(2) = range[2] /\ TileRange(3) = range[3]
        /\ function.tiles = 2 => TileRange(2) = range[2]
    BY <1>1, <1>2, PlainRange
  <1>4. TakeItem(x, Index4(x))
    <2>1. CASE thread_parallelize_4d(x)
      BY <1>3, <2>1, KindsOf DEF thread_parallelize_4d, Index4
    <2>2. CASE thread_parallelize_4d_tile_1d(x)
      BY <1>3, <2>2, KindsOf DEF thread_parallelize_4d_tile_1d, Index4
    <2>3. CASE thread_parallelize_4d_tile_2d(x) \/ thread_parallelize_4d_tile_2d_with_uarch(x)
      BY <1>3, <2>3, KindsOf DEF thread_parallelize_4d_tile_2d,
         thread_parallelize_4d_tile_2d_with_uarch, Index4
    <2>4. CASE compute_4d_tiled(x)
      BY <2>4 DEF compute_4d_tiled, Index4
    <2> QED BY <2>1, <2>2, <2>3, <2>4 DEF Tasks4
  <1> QED BY <1>1, <1>4, Index4IsRight

LEMMA Tasks56Divide ==
  ASSUME CallOK, ItemsFrom(1) % M # 0, NEW x \in Nat, Tasks56(x)
  PROVE  \E index : IsIndexOf(x, index) /\ TakeItem(x, index)
  <1>1. ASSUME NEW d \in Dims, d <= function.dims - function.tiles, function.tiles \in Nat
        PROVE  TileRange(d) = range[d]
    BY <1>1, PlainRange DEF CallOK, Dims
  <1>2. CASE thread_parallelize_5d(x)
    <2>1. function.dims = 5 /\ function.tiles = 0
      BY <1>2, KindsOf DEF thread_parallelize_5d
    <2>2. /\ TileRange(2) = range[2] /\ TileRange(3) = range[3]
          /\ TileRange(4) = range[4] /\ TileRange(5) = range[5]
      BY <1>1, <2>1 DEF Dims
    <2>3. TakeItem(x, Index5(x))
      BY <1>2, <2>2 DEF thread_parallelize_5d, Index5
    <2> QED BY <2>1, <2>3, Index5IsRight
  <1>3. CASE thread_parallelize_5d_tile_1d(x)
    <2>1. function.dims = 5 /\ function.tiles = 1
      BY <1>3, KindsOf DEF thread_parallelize_5d_tile_1d
    <2>2. TileRange(2) = range[2] /\ TileRange(3) = range[3] /\ TileRange(4) = range[4]
      BY <1>1, <2>1 DEF Dims
    <2>3. TakeItem(x, Index5Tile1(x))
      BY <1>3, <2>2 DEF thread_parallelize_5d_tile_1d, Index5Tile1
    <2> QED BY <2>1, <2>3, Index5Tile1IsRight
  <1>4. CASE thread_parallelize_5d_tile_2d(x)
    <2>1. function.dims = 5 /\ function.tiles = 2
      BY <1>4, KindsOf DEF thread_parallelize_5d_tile_2d
    <2>2. TileRange(2) = range[2] /\ TileRange(3) = range[3]
      BY <1>1, <2>1 DEF Dims
    <2>3. TakeItem(x, Index5(x))
      BY <1>4, <2>2 DEF thread_parallelize_5d_tile_2d, Index5
    <2> QED BY <2>1, <2>3, Index5IsRight
  <1>5. CASE thread_parallelize_6d(x)
    <2>1. function.dims = 6 /\ function.tiles = 0
      BY <1>5, KindsOf DEF thread_parallelize_6d
    <2>2. /\ TileRange(2) = range[2] /\ TileRange(3) = range[3] /\ TileRange(4) = range[4]
          /\ TileRange(5) = range[5] /\ TileRange(6) = range[6]
      BY <1>1, <2>1 DEF Dims
    <2>3. TakeItem(x, Index6(x))
      BY <1>5, <2>2 DEF thread_parallelize_6d, Index6
    <2> QED BY <2>1, <2>3, Index6IsRight
  <1>6. CASE thread_parallelize_6d_tile_1d(x)
    <2>1. function.dims = 6 /\ function.tiles = 1
      BY <1>6, KindsOf DEF thread_parallelize_6d_tile_1d
    <2>2. /\ TileRange(2) = range[2] /\ TileRange(3) = range[3] /\ TileRange(4) = range[4]
          /\ TileRange(5) = range[5]
      BY <1>1, <2>1 DEF Dims
    <2>3. TakeItem(x, Index6(x))
      BY <1>6, <2>2 DEF thread_parallelize_6d_tile_1d, Index6
    <2> QED BY <2>1, <2>3, Index6IsRight
  <1>7. CASE thread_parallelize_6d_tile_2d(x)
    <2>1. function.dims = 6 /\ function.tiles = 2
      BY <1>7, KindsOf DEF thread_parallelize_6d_tile_2d
    <2>2. TileRange(2) = range[2] /\ TileRange(3) = range[3] /\ TileRange(4) = range[4]
      BY <1>1, <2>1 DEF Dims
    <2>3. TakeItem(x, Index6Tile2(x))
      BY <1>7, <2>2 DEF thread_parallelize_6d_tile_2d, Index6Tile2
    <2> QED BY <2>1, <2>3, Index6Tile2IsRight
  <1> QED BY <1>2, <1>3, <1>4, <1>5, <1>6, <1>7 DEF Tasks56

(* Whoever divides a linear index finds the item of that number. *)
LEMMA TasksDivide ==
  ASSUME CallOK, ItemsFrom(1) % M # 0, NEW x \in Nat,
         ThreadFunction(x) \/ FastPathFunction(x) \/ ComputeTask(x)
  PROVE  \E index : IsIndexOf(x, index) /\ TakeItem(x, index)
  BY AllTasks, Tasks12Divide, Tasks3Divide, Tasks4Divide, Tasks56Divide

-----------------------------------------------------------------------------
(* The inductive invariant.                                                *)
(*                                                                         *)
(* What the properties say of the item holds because the linear range is   *)
(* the product of the numbers of tiles, wrapped around; because the linear *)
(* index of whoever processes an item stays below it; and because of what  *)
(* the caller cannot have done: a deprecated function has no flags.  What  *)
(* they say of the FPU holds because the state that a call saved is its    *)
(* caller's for as long as the state in effect is not.                     *)

CallInv ==
  /\ CallOK
  /\ function.legacy => ~disable_denormals
  /\ pc = "call" => thread = 0 /\ uarch_index = 0

RangeInv ==
  /\ pc \in {"parallel", "linear", "walk"} => linear_range = ItemsFrom(1) % M
  /\ pc = "walk" => linear < linear_range
  /\ pc = "sequential" /\ Representable /\ ~LoopsAreEmpty => linear < ItemsFrom(1)

ItemInv ==
  pc \in {"sequential", "walk"} /\ Representable /\ ~LoopsAreEmpty
    => position = LoopItem(linear)

FlushingForCaller == pc = "sequential" /\ disable_denormals /\ build # "shim"

FpuInv ==
  /\ FlushingForCaller => denormals = FALSE /\ saved_denormals = caller_denormals
  /\ ~FlushingForCaller => denormals = caller_denormals

IInv == TypeOK /\ CallInv /\ RangeInv /\ ItemInv /\ FpuInv /\ IdsAreExpected

(* Loops none of which is empty have an item. *)
LEMMA EmptyLoops ==
  ASSUME CallOK, ~LoopsAreEmpty
  PROVE  ItemsFrom(1) # 0
  <1> DEFINE n == function.dims
             P(d) == ItemsFrom(d) # 0
  <1>1. n \in 1 .. 6 /\ Dims = 1 .. n
    BY DEF CallOK, Dims
  <1>2. P(n + 1)
    BY ItemsFromSteps
  <1>3. ASSUME NEW d \in Dims, P(d + 1)
        PROVE  P(d)
    <2>1. TileRange(d) # 0
      BY RoundUp DEF CallOK, LoopsAreEmpty, TileRange
    <2>2. TileRange(d) \in Nat /\ ItemsFrom(d + 1) \in Nat
          /\ ItemsFrom(d) = TileRange(d) * ItemsFrom(d + 1)
      BY <1>1, ItemsFromSteps
    <2> DEFINE a == TileRange(d)
               b == ItemsFrom(d + 1)
    <2>3. a \in Nat \ {0} /\ b \in Nat \ {0}
      BY <1>3, <2>1, <2>2
    <2> HIDE DEF a, b
    <2>4. a * b # 0
      BY <2>3, SMT
    <2> QED BY <2>2, <2>4 DEF a, b
  <1> HIDE DEF P
  <1>4. 6 \in Dims => P(6)
    BY <1>1, <1>2, <1>3
  <1>5. 5 \in Dims => P(5)
    BY <1>1, <1>2, <1>3, <1>4
  <1>6. 4 \in Dims => P(4)
    BY <1>1, <1>2, <1>3, <1>5
  <1>7. 3 \in Dims => P(3)
    BY <1>1, <1>2, <1>3, <1>6
  <1>8. 2 \in Dims => P(2)
    BY <1>1, <1>2, <1>3, <1>7
  <1>9. P(1)
    BY <1>1, <1>2, <1>3, <1>8
  <1> QED BY <1>9 DEF P

-----------------------------------------------------------------------------
(* What the steps of a call come to. *)

(* The calling thread begins the loops. *)
Sequentially ==
  /\ pc = "call" /\ BeginLoops
  /\ thread' = 0 /\ uarch_index' \in Nat
  /\ uarch_index' <= max_uarch_index \/ uarch_index' = default_uarch_index
  /\ IF build # "shim" THEN DisableDenormals ELSE UNCHANGED fpu
  /\ UNCHANGED call

(* The thread pool gets an operation. *)
InParallel ==
  /\ pc = "call" /\ pc' \in {"parallel", "linear"}
  /\ linear_range' = LinearRange
  /\ UNCHANGED <<call, item, fpu>>

(* A deprecated function calls one of the interface that has its shape. *)
Forwarded ==
  /\ pc = "call"
  /\ function' \in Interface
  /\ function'.dims = function.dims /\ function'.tiles = function.tiles
  /\ disable_denormals' = FALSE
  /\ UNCHANGED <<pc, build, arguments, linear_range, item, fpu>>

(* A linear index of the operation is divided. *)
Divided(x) ==
  /\ pc \in {"parallel", "linear", "walk"}
  /\ x \in 0 .. linear_range - 1
  /\ \E index : IsIndexOf(x, index) /\ TakeItem(x, index)

(* What the thread that runs an item tells the task. *)
LEMMA RunsOnExpected ==
  ASSUME TypeOK, NEW t \in Nat, RunsOn(t)
  PROVE  /\ thread' \in {0, t} /\ uarch_index' \in Nat
         /\ uarch_index' <= max_uarch_index \/ uarch_index' = default_uarch_index
  BY ValuesAssumption DEF TypeOK, RunsOn, Uarch

(* Every function of the interface decides between the two. *)
LEMMA CallSteps ==
  ASSUME IInv, ParallelizeCall
  PROVE  Sequentially \/ InParallel
  <1> DEFINE Loops == BeginLoops /\ RunsOn(0) /\ DisableDenormals
             Pool == /\ pc' = "parallel" /\ linear_range' = LinearRange
                     /\ UNCHANGED <<item, fpu>>
  <1>1. pc = "call" /\ build # "shim" /\ UNCHANGED call /\ (Loops \/ Pool)
    BY Zenon DEF ParallelizeCall, Call,
       pthreadpool_parallelize_1d, pthreadpool_parallelize_1d_with_thread,
       pthreadpool_parallelize_1d_with_uarch, pthreadpool_parallelize_1d_tile_1d,
       pthreadpool_parallelize_2d, pthreadpool_parallelize_2d_with_thread,
       pthreadpool_parallelize_2d_tile_1d, pthreadpool_parallelize_2d_tile_1d_with_uarch,
       pthreadpool_parallelize_2d_tile_1d_with_uarch_with_thread,
       pthreadpool_parallelize_2d_tile_2d, pthreadpool_parallelize_2d_tile_2d_with_uarch,
       pthreadpool_parallelize_3d, pthreadpool_parallelize_3d_tile_1d,
       pthreadpool_parallelize_3d_tile_1d_with_thread,
       pthreadpool_parallelize_3d_tile_1d_with_uarch,
       pthreadpool_parallelize_3d_tile_1d_with_uarch_with_thread,
       pthreadpool_parallelize_3d_tile_2d, pthreadpool_parallelize_3d_tile_2d_with_uarch,
       pthreadpool_parallelize_4d, pthreadpool_parallelize_4d_tile_1d,
       pthreadpool_parallelize_4d_tile_2d, pthreadpool_parallelize_4d_tile_2d_with_uarch,
       pthreadpool_parallelize_5d, pthreadpool_parallelize_5d_tile_1d,
       pthreadpool_parallelize_5d_tile_2d, pthreadpool_parallelize_6d,
       pthreadpool_parallelize_6d_tile_1d, pthreadpool_parallelize_6d_tile_2d
  <1>2. CASE Loops
    <2>1. TypeOK /\ 0 \in Nat
      BY DEF IInv
    <2>2. /\ thread' = 0 /\ uarch_index' \in Nat
          /\ uarch_index' <= max_uarch_index \/ uarch_index' = default_uarch_index
      BY <1>2, <2>1, RunsOnExpected
    <2> QED BY <1>1, <1>2, <2>1, <2>2 DEF Sequentially, TypeOK
  <1>3. CASE Pool
    BY <1>1, <1>3 DEF InParallel
  <1> QED BY <1>1, <1>2, <1>3

(* The shim always runs the loops. *)
LEMMA ShimSteps ==
  ASSUME IInv, ShimFunction
  PROVE  Sequentially
  <1>1. /\ pc = "call" /\ build = "shim" /\ BeginLoops
        /\ thread' = 0 /\ uarch_index' = default_uarch_index
        /\ UNCHANGED <<call, fpu>>
    BY DEF ShimFunction, ShimCall, shim_parallelize_1d, shim_parallelize_2d,
       shim_parallelize_3d, shim_parallelize_4d, shim_parallelize_5d, shim_parallelize_6d
  <1>2. default_uarch_index \in Nat
    BY DEF IInv, TypeOK
  <1> QED BY <1>1, <1>2 DEF Sequentially

(* The deprecated functions forward, linearize or run the loops. *)
LEMMA ForwardIs ==
  ASSUME NEW d, NEW t, Forward(Plain(d, t)), Plain(d, t) \in Interface
  PROVE  Forwarded
  <1>1. function = Compute(d, t) /\ function' = Plain(d, t)
    BY DEF Forward, Compute
  <1>2. /\ pc = "call" /\ disable_denormals' = FALSE
        /\ UNCHANGED <<pc, build, arguments, linear_range, item, fpu>>
    BY DEF Forward
  <1>3. function'.dims = function.dims /\ function'.tiles = function.tiles
    BY <1>1, KindsOf
  <1> QED BY <1>1, <1>2, <1>3 DEF Forwarded

LEMMA LinearizeIs ==
  ASSUME IInv, NEW d, Linearize(d)
  PROVE  Sequentially \/ InParallel
  <1>1. pc = "call" /\ function = Compute(d, d) /\ UNCHANGED <<call, fpu>>
    BY DEF Linearize
  <1>2. ~disable_denormals /\ thread = 0 /\ uarch_index = 0
        /\ max_uarch_index \in Nat
    <2>1. Compute(d, d).legacy
      BY DEF Compute, Plain
    <2> QED BY <1>1, <2>1 DEF IInv, CallInv, TypeOK
  <1>3. CASE threads_count = 1
    <2>1. BeginLoops /\ UNCHANGED <<thread, uarch_index>>
      BY <1>3 DEF Linearize
    <2>2. IF build # "shim" THEN DisableDenormals ELSE UNCHANGED fpu
      BY <1>1, <1>2 DEF DisableDenormals
    <2>3. thread' = 0 /\ uarch_index' = 0
      BY <1>2, <2>1
    <2>4. UNCHANGED call
      BY <1>1
    <2> QED BY <1>1, <1>2, <2>1, <2>2, <2>3, <2>4 DEF Sequentially
  <1>4. CASE threads_count # 1
    BY <1>1, <1>4 DEF Linearize, InParallel
  <1> QED BY <1>3, <1>4

LEMMA ComputeSteps ==
  ASSUME IInv, ComputeCall
  PROVE  Sequentially \/ InParallel \/ Forwarded
  <1>1. /\ Plain(1, 0) \in Interface /\ Plain(1, 1) \in Interface
        /\ Plain(2, 0) \in Interface /\ Plain(2, 2) \in Interface
    <2>1. \A d, t : d # 1 \/ t # 2 => Plain(d, t) # Plain(1, 2)
      BY DEF Plain
    <2> HIDE DEF Plain
    <2> QED BY <2>1 DEF Interface
  <1>2. CASE pthreadpool_compute_1d
    BY <1>1, <1>2, ForwardIs DEF pthreadpool_compute_1d
  <1>3. CASE pthreadpool_compute_1d_tiled
    BY <1>1, <1>3, ForwardIs DEF pthreadpool_compute_1d_tiled
  <1>4. CASE pthreadpool_compute_2d
    BY <1>1, <1>4, ForwardIs DEF pthreadpool_compute_2d
  <1>5. CASE pthreadpool_compute_2d_tiled
    BY <1>1, <1>5, ForwardIs DEF pthreadpool_compute_2d_tiled
  <1>6. CASE pthreadpool_compute_3d_tiled \/ pthreadpool_compute_4d_tiled
    BY <1>6, LinearizeIs DEF pthreadpool_compute_3d_tiled, pthreadpool_compute_4d_tiled
  <1> QED BY <1>2, <1>3, <1>4, <1>5, <1>6 DEF ComputeCall

(* Every linear index below the range of the operation can be divided. *)
LEMMA DivideSteps ==
  ASSUME IInv, NEW x \in Int, x >= 0, x < linear_range,
         pc \in {"parallel", "linear", "walk"},
         ThreadFunction(x) \/ FastPathFunction(x) \/ ComputeTask(x)
  PROVE  Divided(x)
  <1>1. CallOK /\ linear_range \in Nat /\ linear_range = ItemsFrom(1) % M
    BY DEF IInv, TypeOK, CallInv, RangeInv
  <1>2. x \in Nat /\ x \in 0 .. linear_range - 1
    BY <1>1
  <1> DEFINE m == ItemsFrom(1) % M
  <1>3. m # 0
    <2>1. linear_range = m
      BY <1>1
    <2> HIDE DEF m
    <2> QED BY <1>1, <1>2, <2>1
  <1> QED BY <1>1, <1>2, <1>3, TasksDivide DEF Divided

(* So a step of the call is one of these. *)
LEMMA Steps ==
  ASSUME IInv, Next
  PROVE  \/ Sequentially \/ InParallel \/ Forwarded
         \/ \E x \in 0 .. linear_range - 1 : Divided(x)
         \/ WalkOn \/ LoopOn \/ Return
  <1>1. linear_range \in Nat /\ linear \in Nat
    BY SizeAssumption DEF IInv, TypeOK
  <1>2. CASE ParallelizeCall \/ ShimFunction \/ ComputeCall
    BY <1>2, CallSteps, ShimSteps, ComputeSteps
  <1>3. ASSUME NEW x \in 0 .. linear_range - 1, pc \in {"parallel", "linear"},
               ThreadFunction(x) \/ FastPathFunction(x) \/ ComputeTask(x)
        PROVE  Divided(x)
    BY <1>1, <1>3, DivideSteps
  <1>4. CASE pc = "walk" /\ linear + 1 < linear_range /\ ComputeTask(linear + 1)
    <2>1. linear + 1 \in 0 .. linear_range - 1 /\ Divided(linear + 1)
      BY <1>1, <1>4, DivideSteps
    <2> QED BY <2>1
  <1> QED BY <1>2, <1>3, <1>4 DEF Next

-----------------------------------------------------------------------------
(* The invariant holds when a function is called. *)
LEMMA InitInv ==
  ASSUME Init
  PROVE  IInv
  <1>1. function \in Interface \cup Deprecated
    BY FunctionsAssumption DEF Init
  <1>2. /\ function.dims \in 1 .. 6 /\ function.tiles \in 0 .. 4
        /\ function.uarch \in BOOLEAN /\ function.legacy \in BOOLEAN
    BY <1>1, FunctionKinds
  <1>3. range \in [Dims -> 0 .. M - 1]
    BY ValuesAssumption DEF Init, Dims
  <1>4. /\ tile \in [Dims -> 1 .. M - 1]
        /\ \A d \in Dims : ~Tiled(d) => tile[d] = 1
    <2>1. /\ tile \in [Dims -> Tiles \cup {1}]
          /\ \A d \in Dims : IF Tiled(d) THEN tile[d] \in Tiles ELSE tile[d] = 1
      BY DEF Init, Dims
    <2>2. Tiles \cup {1} \subseteq 1 .. M - 1
      BY SizeAssumption, ValuesAssumption
    <2> QED BY <2>1, <2>2
  <1>5. threads_count \in Nat \ {0}
    BY ThreadsAssumption DEF Init, AvailableThreadsCounts
  <1>6. /\ disable_denormals \in BOOLEAN
        /\ function.legacy => ~disable_denormals
    BY <1>2 DEF Init
  <1>7. default_uarch_index \in Nat /\ max_uarch_index \in Nat
    BY ValuesAssumption DEF Init
  <1>8. pc = "call" /\ linear_range = 0 /\ thread = 0 /\ uarch_index = 0 /\ linear = 0
        /\ denormals \in BOOLEAN /\ saved_denormals \in BOOLEAN
        /\ caller_denormals = denormals /\ build \in {"portable", "fastpath", "shim"}
    BY BuildsAssumption, FpuAssumption DEF Init
  <1>9. TypeOK
    BY <1>1, <1>3, <1>4, <1>5, <1>6, <1>7, <1>8, SizeAssumption DEF TypeOK
  <1>10. CallInv
    BY <1>2, <1>3, <1>4, <1>6, <1>8 DEF CallInv, CallOK
  <1>11. RangeInv /\ ItemInv /\ IdsAreExpected
    BY <1>8 DEF RangeInv, ItemInv, IdsAreExpected
  <1>12. FpuInv
    <2>1. ~FlushingForCaller
      BY <1>8 DEF FlushingForCaller
    <2> QED BY <1>8, <2>1 DEF FpuInv
  <1> QED BY <1>9, <1>10, <1>11, <1>12 DEF IInv

(* The first item of the loops. *)
LEMMA FirstItem ==
  ASSUME CallOK, Representable, ItemsFrom(1) # 0
  PROVE  LoopItem(0) = [d \in Dims |-> 0]
  <1>1. ASSUME NEW d \in Dims
        PROVE  ((0 % ItemsFrom(d)) \div ItemsFrom(d + 1)) * tile[d] = 0
    <2> DEFINE a == ItemsFrom(d)
               b == ItemsFrom(d + 1)
               t == tile[d]
    <2>1. a \in Nat \ {0} /\ b \in Nat \ {0} /\ t \in Nat
      BY PositiveItems DEF CallOK
    <2> HIDE DEF a, b, t
    <2>2. 0 % a = 0 /\ 0 \div b = 0
      BY <2>1, SMT
    <2>3. ((0 % a) \div b) * t = 0
      BY <2>1, <2>2, SMT
    <2> QED BY <2>3 DEF a, b, t
  <1> QED BY <1>1 DEF LoopItem

(* A step that leaves the FPU alone, and begins and ends no loops. *)
SameFpu ==
  /\ UNCHANGED <<denormals, saved_denormals, caller_denormals>>
  /\ pc' = "sequential" <=> pc = "sequential"
  /\ pc = "sequential" => UNCHANGED <<disable_denormals, build>>

LEMMA FpuKept ==
  ASSUME FpuInv, SameFpu
  PROVE  FpuInv'
  <1>1. FlushingForCaller' <=> FlushingForCaller
    BY DEF SameFpu, FlushingForCaller
  <1> QED BY <1>1 DEF SameFpu, FpuInv

(* The loops begin with the caller's state in effect, and save it if they *)
(* change it.                                                             *)
LEMMA FpuSaved ==
  ASSUME FpuInv, pc = "call", pc' = "sequential",
         UNCHANGED <<disable_denormals, build, caller_denormals>>,
         IF build # "shim" THEN DisableDenormals ELSE UNCHANGED fpu
  PROVE  FpuInv'
  <1>1. denormals = caller_denormals
    BY DEF FpuInv, FlushingForCaller
  <1>2. FlushingForCaller' <=> disable_denormals /\ build # "shim"
    BY DEF FlushingForCaller
  <1>3. CASE FlushingForCaller'
    BY <1>1, <1>2, <1>3 DEF DisableDenormals, FpuInv
  <1>4. CASE ~FlushingForCaller'
    BY <1>1, <1>2, <1>4 DEF DisableDenormals, FpuInv, fpu
  <1> QED BY <1>3, <1>4

(* They end with it in effect again. *)
LEMMA FpuRestored ==
  ASSUME FpuInv, Return
  PROVE  FpuInv'
  <1>1. ~FlushingForCaller' /\ UNCHANGED caller_denormals
    BY DEF Return, FlushingForCaller, call, arguments
  <1>2. CASE FlushingForCaller
    BY <1>1, <1>2 DEF Return, RestoreDenormals, FlushingForCaller, FpuInv
  <1>3. CASE ~FlushingForCaller
    BY <1>1, <1>3 DEF Return, RestoreDenormals, FlushingForCaller, FpuInv, fpu
  <1> QED BY <1>2, <1>3

(* Each of the steps keeps the invariant. *)
LEMMA SequentiallyInv ==
  ASSUME IInv, Sequentially
  PROVE  IInv'
  <1> USE DEF IInv
  <1>1. /\ pc' = "sequential" /\ linear' = 0 /\ position' = [d \in Dims |-> 0]
        /\ UNCHANGED linear_range /\ thread' = 0 /\ uarch_index' \in Nat
    BY DEF Sequentially, BeginLoops
  <1>2. /\ UNCHANGED <<build, function, disable_denormals>>
        /\ UNCHANGED <<range, tile, threads_count>>
        /\ UNCHANGED <<default_uarch_index, max_uarch_index, caller_denormals>>
    BY DEF Sequentially, call, arguments
  <1>3. SameCall /\ CallOK
    BY <1>2 DEF SameCall, CallInv
  <1>4. TypeOK'
    <2>1. position' \in [Dims -> 0 .. M - 1]
      BY <1>1, SizeAssumption
    <2>2. linear' \in 0 .. M
      BY <1>1, SizeAssumption
    <2>3. denormals' \in BOOLEAN /\ saved_denormals' \in BOOLEAN
      BY DEF Sequentially, DisableDenormals, fpu, TypeOK
    <2> QED BY <1>1, <1>2, <1>3, <2>1, <2>2, <2>3, SameDims DEF TypeOK
  <1>5. CallInv'
    BY <1>1, <1>2, <1>3, SameDims DEF CallInv
  <1>6. Representable /\ ~LoopsAreEmpty => 0 < ItemsFrom(1) /\ position' = LoopItem(0)
    <2>1. ItemsFrom(1) \in Nat
      BY <1>3, ItemsFromSteps DEF CallOK
    <2> QED BY <1>1, <1>3, <2>1, EmptyLoops, FirstItem
  <1>7. RangeInv'
    <2>1. Representable' /\ ~LoopsAreEmpty' => 0 < ItemsFrom(1)'
      BY <1>3, <1>6, SameDims, SameItems, SameLoops
    <2> QED BY <1>1, <2>1 DEF RangeInv
  <1>8. ItemInv'
    <2>1. Representable' /\ ~LoopsAreEmpty' => position' = LoopItem(0)'
      BY <1>3, <1>6, SameDims, SameLoops
    <2> HIDE DEF LoopItem
    <2>2. LoopItem(0)' = LoopItem(linear)'
      BY <1>1 DEF LoopItem
    <2> QED BY <2>1, <2>2 DEF ItemInv
  <1>9. IdsAreExpected'
    <2>1. 0 < threads_count
      BY DEF TypeOK
    <2> QED BY <1>1, <1>2, <2>1 DEF IdsAreExpected, Sequentially
  <1>10. FpuInv'
    BY <1>1, <1>2, FpuSaved DEF Sequentially
  <1> QED BY <1>4, <1>5, <1>7, <1>8, <1>9, <1>10

LEMMA InParallelInv ==
  ASSUME IInv, InParallel
  PROVE  IInv'
  <1> USE DEF IInv
  <1>1. /\ pc = "call" /\ pc' \in {"parallel", "linear"} /\ linear_range' = LinearRange
        /\ UNCHANGED <<thread, uarch_index, position, linear, denormals, saved_denormals>>
    BY DEF InParallel, item, fpu
  <1>2. /\ UNCHANGED <<build, function, disable_denormals>>
        /\ UNCHANGED <<range, tile, threads_count>>
        /\ UNCHANGED <<default_uarch_index, max_uarch_index, caller_denormals>>
    BY DEF InParallel, call, arguments
  <1>3. SameCall /\ CallOK
    BY <1>2 DEF SameCall, CallInv
  <1>4. linear_range' = ItemsFrom(1) % M /\ linear_range' \in 0 .. M - 1
    <2>1. ItemsFrom(1) \in Nat
      BY <1>3, ItemsFromSteps DEF CallOK
    <2> DEFINE n == ItemsFrom(1)
    <2>2. linear_range' = n % M
      BY <1>1, <1>3, LinearRangeCounts
    <2> HIDE DEF n
    <2>3. n \in Nat
      BY <2>1 DEF n
    <2>4. n % M \in 0 .. M - 1
      BY <2>3, Modulo
    <2> QED BY <2>2, <2>4 DEF n
  <1>5. TypeOK'
    BY <1>1, <1>2, <1>3, <1>4, SameDims DEF TypeOK
  <1>6. CallInv'
    BY <1>1, <1>2, <1>3, SameDims DEF CallInv
  <1>7. RangeInv'
    <2>1. linear_range' = ItemsFrom(1)' % M
      BY <1>3, <1>4, SameItems
    <2> QED BY <1>1, <2>1 DEF RangeInv
  <1>8. ItemInv' /\ IdsAreExpected'
    BY <1>1 DEF ItemInv, IdsAreExpected
  <1>9. FpuInv'
    BY <1>1, <1>2, FpuKept DEF SameFpu
  <1> QED BY <1>5, <1>6, <1>7, <1>8, <1>9

LEMMA ForwardedInv ==
  ASSUME IInv, Forwarded
  PROVE  IInv'
  <1> USE DEF IInv
  <1>1. /\ pc = "call" /\ function' \in Interface
        /\ function'.dims = function.dims /\ function'.tiles = function.tiles
        /\ disable_denormals' = FALSE
        /\ UNCHANGED <<pc, build, linear_range, denormals, saved_denormals>>
    BY DEF Forwarded, fpu
  <1>2. /\ UNCHANGED <<range, tile, threads_count>>
        /\ UNCHANGED <<default_uarch_index, max_uarch_index, caller_denormals>>
        /\ UNCHANGED <<thread, uarch_index, position, linear>>
    BY DEF Forwarded, arguments, item
  <1>3. Dims' = Dims /\ \A d : Tiled(d)' = Tiled(d)
    BY <1>1 DEF Dims, Tiled
  <1>4. TypeOK'
    BY <1>1, <1>2, <1>3 DEF TypeOK
  <1>5. CallInv'
    BY <1>1, <1>2, <1>3 DEF CallInv, CallOK
  <1>6. RangeInv' /\ ItemInv' /\ IdsAreExpected'
    BY <1>1 DEF RangeInv, ItemInv, IdsAreExpected
  <1>7. FpuInv'
    BY <1>1, <1>2, FpuKept DEF SameFpu
  <1> QED BY <1>4, <1>5, <1>6, <1>7

(* A representable operation has as many linear indices as items. *)
LEMMA OperationCounts ==
  ASSUME IInv, pc \in {"parallel", "linear", "walk"}, Representable
  PROVE  linear_range = ItemsFrom(1)
  <1> DEFINE n == ItemsFrom(1)
  <1>1. n \in Nat /\ n < M
    BY ItemsFromSteps DEF IInv, CallInv, CallOK, Representable
  <1>2. linear_range = n % M
    BY DEF IInv, RangeInv
  <1> HIDE DEF n
  <1>3. n % M = n
    BY <1>1, Modulo
  <1> QED BY <1>2, <1>3 DEF n

LEMMA DividedInv ==
  ASSUME IInv, NEW x, Divided(x)
  PROVE  IInv'
  <1> USE DEF IInv
  <1> PICK index : IsIndexOf(x, index) /\ TakeItem(x, index)
    BY DEF Divided
  <1>1. /\ pc \in {"parallel", "linear", "walk"} /\ pc' = "walk"
        /\ linear_range \in 0 .. M - 1 /\ x \in 0 .. linear_range - 1
        /\ linear' = x /\ UNCHANGED <<linear_range, denormals, saved_denormals>>
        /\ position' = [d \in Dims |-> Times(index[d], tile[d])]
    BY DEF Divided, TakeItem, TypeOK, fpu
  <1>2. /\ UNCHANGED <<build, function, disable_denormals>>
        /\ UNCHANGED <<range, tile, threads_count>>
        /\ UNCHANGED <<default_uarch_index, max_uarch_index, caller_denormals>>
    BY DEF TakeItem, call, arguments
  <1>3. SameCall /\ CallOK /\ M \in Nat
    BY <1>2, SizeAssumption DEF SameCall, CallInv
  <1>4. /\ thread' \in Nat /\ thread' < threads_count /\ uarch_index' \in Nat
        /\ uarch_index' <= max_uarch_index \/ uarch_index' = default_uarch_index
    <2>1. PICK t \in 0 .. threads_count - 1 : RunsOn(t)
      BY DEF TakeItem
    <2>2. TypeOK /\ t \in Nat /\ threads_count \in Nat \ {0}
      BY <2>1 DEF TypeOK
    <2>3. /\ thread' \in {0, t} /\ uarch_index' \in Nat
          /\ uarch_index' <= max_uarch_index \/ uarch_index' = default_uarch_index
      BY <2>1, <2>2, RunsOnExpected
    <2> QED BY <2>1, <2>2, <2>3
  <1>5. TypeOK'
    <2>1. ASSUME NEW d \in Dims
          PROVE  Times(index[d], tile[d]) \in 0 .. M - 1
      <3>1. index[d] \in Nat /\ tile[d] \in Nat
        BY <1>3 DEF IsIndexOf, CallOK
      <3> QED BY <3>1, Modulo
    <2>2. position' \in [Dims -> 0 .. M - 1]
      BY <1>1, <2>1
    <2>3. linear' \in 0 .. M
      BY <1>1, <1>3
    <2> QED BY <1>1, <1>2, <1>3, <1>4, <2>2, <2>3, SameDims DEF TypeOK
  <1>6. CallInv'
    BY <1>1, <1>2, <1>3, SameDims DEF CallInv
  <1>7. RangeInv'
    <2>1. linear_range' = ItemsFrom(1)' % M
      BY <1>1, <1>3, SameItems DEF RangeInv
    <2>2. linear' < linear_range'
      BY <1>1, <1>3
    <2> QED BY <1>1, <2>1, <2>2 DEF RangeInv
  <1>8. ItemInv'
    <2>1. ASSUME Representable, ~LoopsAreEmpty
          PROVE  position' = LoopItem(x)
      <3>1. ItemsFrom(1) # 0 /\ ItemsFrom(1) < M /\ linear_range = ItemsFrom(1)
        BY <1>1, <1>3, <2>1, EmptyLoops, OperationCounts DEF Representable
      <3>2. x \in Nat /\ x < ItemsFrom(1)
        BY <1>1, <1>3, <3>1
      <3>3. ASSUME NEW d \in Dims
            PROVE  Times(index[d], tile[d]) = Digit(x, d) * tile[d]
        <4>1. index[d] = Digit(x, d)
          BY <3>1, <3>2 DEF IsIndexOf
        <4> QED BY <1>3, <2>1, <3>1, <3>2, <4>1, ItemFits
      <3> QED BY <1>1, <3>3 DEF LoopItem, Digit
    <2>2. Representable' /\ ~LoopsAreEmpty' => position' = LoopItem(x)'
      BY <1>3, <2>1, SameDims, SameLoops
    <2>3. LoopItem(x)' = LoopItem(linear)'
      BY <1>1 DEF LoopItem
    <2> QED BY <2>2, <2>3 DEF ItemInv
  <1>9. IdsAreExpected'
    BY <1>2, <1>4 DEF IdsAreExpected
  <1>10. FpuInv'
    BY <1>1, <1>2, FpuKept DEF SameFpu
  <1> QED BY <1>5, <1>6, <1>7, <1>8, <1>9, <1>10

(* Wherever an item is, the next one has its place in size_t too. *)
LEMMA AdvanceType ==
  ASSUME CallOK, position \in [Dims -> 0 .. M - 1]
  PROVE  /\ Advance(WalkAtEnd) \in [Dims -> 0 .. M - 1]
         /\ Advance(LoopAtEnd) \in [Dims -> 0 .. M - 1]
  <1>1. ASSUME NEW d \in Dims
        PROVE  Plus(position[d], tile[d]) \in 0 .. M - 1
    <2>1. position[d] + tile[d] \in Nat
      BY SizeAssumption DEF CallOK
    <2> QED BY <2>1, Modulo DEF Plus
  <1>2. 0 \in 0 .. M - 1
    BY SizeAssumption
  <1>3. Advance(WalkAtEnd) \in [Dims -> 0 .. M - 1]
    <2>1. Advance(WalkAtEnd) =
            [d \in Dims |->
               IF \E e \in Dims : e > d /\ ~WalkAtEnd(e) THEN position[d]
               ELSE IF d > 1 /\ WalkAtEnd(d) THEN 0
               ELSE Plus(position[d], tile[d])]
      BY DEF Advance
    <2> QED BY <1>1, <1>2, <2>1
  <1>4. Advance(LoopAtEnd) \in [Dims -> 0 .. M - 1]
    <2>1. Advance(LoopAtEnd) =
            [d \in Dims |->
               IF \E e \in Dims : e > d /\ ~LoopAtEnd(e) THEN position[d]
               ELSE IF d > 1 /\ LoopAtEnd(d) THEN 0
               ELSE Plus(position[d], tile[d])]
      BY DEF Advance
    <2> QED BY <1>1, <1>2, <2>1
  <1> QED BY <1>3, <1>4

LEMMA WalkOnInv ==
  ASSUME IInv, WalkOn
  PROVE  IInv'
  <1> USE DEF IInv
  <1>1. /\ pc = "walk" /\ pc' = "walk" /\ linear + 1 < linear_range
        /\ position' = Advance(WalkAtEnd) /\ linear' = linear + 1
        /\ UNCHANGED <<linear_range, thread, uarch_index, denormals, saved_denormals>>
    BY DEF WalkOn, fpu
  <1>2. /\ UNCHANGED <<build, function, disable_denormals>>
        /\ UNCHANGED <<range, tile, threads_count>>
        /\ UNCHANGED <<default_uarch_index, max_uarch_index, caller_denormals>>
    BY DEF WalkOn, call, arguments
  <1>3. SameCall /\ CallOK /\ M \in Nat
    BY <1>2, SizeAssumption DEF SameCall, CallInv
  <1>4. linear \in 0 .. M /\ linear_range \in 0 .. M - 1 /\ position \in [Dims -> 0 .. M - 1]
    BY <1>1 DEF TypeOK
  <1>5. TypeOK'
    <2>1. position' \in [Dims -> 0 .. M - 1] /\ linear' \in 0 .. M
      BY <1>1, <1>3, <1>4, AdvanceType
    <2> QED BY <1>1, <1>2, <1>3, <2>1, SameDims DEF TypeOK
  <1>6. CallInv'
    BY <1>1, <1>2, <1>3, SameDims DEF CallInv
  <1>7. RangeInv'
    <2>1. linear_range' = ItemsFrom(1)' % M
      BY <1>1, <1>3, SameItems DEF RangeInv
    <2> QED BY <1>1, <2>1 DEF RangeInv
  <1>8. ItemInv'
    <2>1. ASSUME Representable, ~LoopsAreEmpty
          PROVE  position' = LoopItem(linear + 1)
      <3>1. ItemsFrom(1) # 0 /\ linear_range = ItemsFrom(1)
        BY <1>1, <1>3, <2>1, EmptyLoops, OperationCounts
      <3>2. linear \in Nat /\ linear + 1 < ItemsFrom(1) /\ position = LoopItem(linear)
        BY <1>1, <1>4, <2>1, <3>1 DEF ItemInv
      <3> QED BY <1>1, <1>3, <2>1, <3>1, <3>2, WalkIsNext
    <2>2. Representable' /\ ~LoopsAreEmpty' => position' = LoopItem(linear + 1)
      BY <1>3, <2>1, SameDims, SameLoops
    <2>3. LoopItem(linear)' = LoopItem(linear + 1)
      BY <1>1, <1>3, SameDims, SameItems DEF LoopItem, SameCall
    <2> QED BY <2>2, <2>3 DEF ItemInv
  <1>9. IdsAreExpected'
    BY <1>1, <1>2 DEF IdsAreExpected
  <1>10. FpuInv'
    BY <1>1, <1>2, FpuKept DEF SameFpu
  <1> QED BY <1>5, <1>6, <1>7, <1>8, <1>9, <1>10

(* While the loops are not over there is a next item. *)
LEMMA LoopsGoOn ==
  ASSUME CallOK, Representable, ~LoopsAreEmpty, NEW x \in Nat, x < ItemsFrom(1),
         position = LoopItem(x)
  PROVE  LoopsAreOver <=> x + 1 = ItemsFrom(1)
  <1>1. ItemsFrom(1) # 0
    BY EmptyLoops
  <1>2. \A d \in Dims : LoopAtEnd(d) <=> AtLast(x, d)
    BY <1>1, PositionOfItem
  <1> QED BY <1>1, <1>2, NotTheLast DEF LoopsAreOver

LEMMA LoopOnInv ==
  ASSUME IInv, LoopOn
  PROVE  IInv'
  <1> USE DEF IInv
  <1>1. /\ pc = "sequential" /\ pc' = "sequential" /\ ~LoopsAreOver
        /\ position' = Advance(LoopAtEnd)
        /\ linear' = IF linear < M THEN linear + 1 ELSE M
        /\ UNCHANGED <<linear_range, thread, uarch_index, denormals, saved_denormals>>
    BY DEF LoopOn, fpu
  <1>2. /\ UNCHANGED <<build, function, disable_denormals>>
        /\ UNCHANGED <<range, tile, threads_count>>
        /\ UNCHANGED <<default_uarch_index, max_uarch_index, caller_denormals>>
    BY DEF LoopOn, call, arguments
  <1>3. SameCall /\ CallOK /\ M \in Nat
    BY <1>2, SizeAssumption DEF SameCall, CallInv
  <1>4. linear \in 0 .. M /\ position \in [Dims -> 0 .. M - 1]
    BY <1>1 DEF TypeOK
  <1>5. TypeOK'
    <2>1. position' \in [Dims -> 0 .. M - 1] /\ linear' \in 0 .. M
      BY <1>1, <1>3, <1>4, AdvanceType
    <2> QED BY <1>1, <1>2, <1>3, <2>1, SameDims DEF TypeOK
  <1>6. CallInv'
    BY <1>1, <1>2, <1>3, SameDims DEF CallInv
  <1>7. ASSUME Representable, ~LoopsAreEmpty
        PROVE  /\ linear' = linear + 1 /\ linear + 1 < ItemsFrom(1)
               /\ position' = LoopItem(linear + 1)
    <2>1. ItemsFrom(1) # 0 /\ ItemsFrom(1) < M /\ ItemsFrom(1) \in Nat
      BY <1>3, <1>7, EmptyLoops, ItemsFromSteps DEF Representable, CallOK
    <2>2. linear \in Nat /\ linear < ItemsFrom(1) /\ position = LoopItem(linear)
      BY <1>1, <1>4, <1>7 DEF ItemInv, RangeInv
    <2>3. linear + 1 < ItemsFrom(1)
      BY <1>1, <1>3, <1>7, <2>1, <2>2, LoopsGoOn
    <2>4. linear' = linear + 1
      BY <1>1, <1>3, <2>1, <2>2
    <2>5. Advance(LoopAtEnd) = LoopItem(linear + 1)
      BY <1>3, <1>7, <2>1, <2>2, <2>3, LoopIsNext
    <2> QED BY <1>1, <2>3, <2>4, <2>5
  <1>8. RangeInv'
    <2>1. Representable' /\ ~LoopsAreEmpty' => linear' < ItemsFrom(1)'
      BY <1>3, <1>7, SameDims, SameItems, SameLoops
    <2> QED BY <1>1, <2>1 DEF RangeInv
  <1>9. ItemInv'
    <2>1. Representable' /\ ~LoopsAreEmpty' => Representable /\ ~LoopsAreEmpty
      BY <1>3, SameDims, SameLoops
    <2>2. linear' = linear + 1 => LoopItem(linear)' = LoopItem(linear + 1)
      BY <1>3, SameDims, SameItems DEF LoopItem, SameCall
    <2> QED BY <1>7, <2>1, <2>2 DEF ItemInv
  <1>10. IdsAreExpected'
    BY <1>1, <1>2 DEF IdsAreExpected
  <1>11. FpuInv'
    BY <1>1, <1>2, FpuKept DEF SameFpu
  <1> QED BY <1>5, <1>6, <1>8, <1>9, <1>10, <1>11

LEMMA ReturnInv ==
  ASSUME IInv, Return
  PROVE  IInv'
  <1> USE DEF IInv
  <1>1. /\ pc' = "returned" /\ denormals' \in BOOLEAN /\ saved_denormals' \in BOOLEAN
        /\ UNCHANGED <<linear_range, thread, uarch_index, position, linear>>
    BY DEF Return, RestoreDenormals, TypeOK, item, fpu
  <1>2. /\ UNCHANGED <<build, function, disable_denormals>>
        /\ UNCHANGED <<range, tile, threads_count>>
        /\ UNCHANGED <<default_uarch_index, max_uarch_index, caller_denormals>>
    BY DEF Return, call, arguments
  <1>3. SameCall
    BY <1>2 DEF SameCall
  <1>4. TypeOK' /\ CallInv'
    BY <1>1, <1>2, <1>3, SameDims DEF TypeOK, CallInv
  <1>5. RangeInv' /\ ItemInv' /\ IdsAreExpected'
    BY <1>1 DEF RangeInv, ItemInv, IdsAreExpected
  <1>6. FpuInv'
    BY FpuRestored
  <1> QED BY <1>4, <1>5, <1>6

LEMMA StutterInv ==
  ASSUME IInv, UNCHANGED vars
  PROVE  IInv'
  <1> USE DEF IInv
  <1>1. /\ UNCHANGED <<pc, linear_range, thread, uarch_index, position, linear>>
        /\ UNCHANGED <<denormals, saved_denormals>>
        /\ UNCHANGED <<build, function, disable_denormals>>
        /\ UNCHANGED <<range, tile, threads_count>>
        /\ UNCHANGED <<default_uarch_index, max_uarch_index, caller_denormals>>
    BY DEF vars, call, item, arguments, fpu
  <1>2. SameCall
    BY <1>1 DEF SameCall
  <1>3. TypeOK' /\ CallInv'
    BY <1>1, <1>2, SameDims DEF TypeOK, CallInv
  <1>4. RangeInv'
    BY <1>1, <1>2, SameDims, SameItems, SameLoops DEF RangeInv
  <1>5. ItemInv'
    <2>1. LoopItem(linear)' = LoopItem(linear)
      BY <1>1, <1>2, SameDims, SameItems DEF LoopItem
    <2> QED BY <1>1, <1>2, <2>1, SameDims, SameLoops DEF ItemInv
  <1>6. IdsAreExpected'
    BY <1>1 DEF IdsAreExpected
  <1>7. FpuInv'
    BY <1>1, FpuKept DEF SameFpu
  <1> QED BY <1>3, <1>4, <1>5, <1>6, <1>7

-----------------------------------------------------------------------------
(* The invariant, and the properties that follow from it. *)
LEMMA NextInv ==
  ASSUME IInv, [Next]_vars
  PROVE  IInv'
  BY Steps, SequentiallyInv, InParallelInv, ForwardedInv, DividedInv,
     WalkOnInv, LoopOnInv, ReturnInv, StutterInv

(* The invariant holds for every size of size_t, call, build and pool. *)
THEOREM Invariance == Spec => []IInv
  <1>1. Init => IInv
    BY InitInv
  <1>2. IInv /\ [Next]_vars => IInv'
    BY NextInv
  <1> QED BY <1>1, <1>2, PTL DEF Spec

(* Every variable keeps its type: every position, sum and product of the *)
(* divisions and walks stays a size_t.                                   *)
THEOREM TypeCorrect == Spec => []TypeOK
  <1>1. IInv => TypeOK
    BY DEF IInv
  <1> QED BY <1>1, Invariance, PTL

(* A task is told a thread of the pool and a microarchitecture its caller *)
(* can expect, in every function, by the thread pool, the calling thread, *)
(* the shim and the deprecated functions.                                 *)
THEOREM IdsRight == Spec => []IdsAreExpected
  <1>1. IInv => IdsAreExpected
    BY DEF IInv
  <1> QED BY <1>1, Invariance, PTL

(* A call whose flags ask for it runs its loops with denormals disabled;  *)
(* every other call, and the caller after each, has the FPU as the caller *)
(* left it, a caller that keeps denormals disabled included.              *)
THEOREM DenormalsRight == Spec => []SequentialDenormals
  <1>1. IInv => SequentialDenormals
    <2> SUFFICES ASSUME IInv
                 PROVE  denormals = (caller_denormals /\ ~FlushingForCaller)
      BY Zenon DEF SequentialDenormals, FlushingForCaller
    <2>1. caller_denormals \in BOOLEAN
      BY DEF IInv, TypeOK
    <2> QED BY <2>1, Zenon DEF IInv, FpuInv
  <1> QED BY <1>1, Invariance, PTL

(* The product of the numbers of tiles is the number of items, and the     *)
(* sequential loops end with the last of them, and not before.             *)
THEOREM NothingLeftOut == Spec => []NothingIsLeftOut
  <1>1. IInv => NothingIsLeftOut
    <2> SUFFICES ASSUME IInv, Representable
                 PROVE  /\ pc \in {"parallel", "linear"} => linear_range = ItemsFrom(1)
                        /\ pc = "sequential" /\ LoopsAreOver /\ ~LoopsAreEmpty
                             => linear + 1 = ItemsFrom(1)
      BY DEF NothingIsLeftOut
    <2>1. pc \in {"parallel", "linear"} => linear_range = ItemsFrom(1)
      BY OperationCounts
    <2>2. ASSUME pc = "sequential", LoopsAreOver, ~LoopsAreEmpty
          PROVE  linear + 1 = ItemsFrom(1)
      <3>1. CallOK /\ linear \in Nat
        BY DEF IInv, CallInv, TypeOK
      <3>2. linear < ItemsFrom(1) /\ position = LoopItem(linear)
        BY <2>2 DEF IInv, RangeInv, ItemInv
      <3> QED BY <2>2, <3>1, <3>2, LoopsGoOn
    <2> QED BY <2>1, <2>2
  <1> QED BY <1>1, Invariance, PTL

(* The divisions of the 28 thread functions and of the two deprecated      *)
(* tasks, the walks that carry from dimension to dimension, and the nested *)
(* loops mean the same item by the same linear index, and cut its tiles    *)
(* off at the same ends, whatever the ranges, the tiles and M are.         *)
THEOREM ItemsRight == Spec => []ItemIsTheLoops
  <1>1. IInv => ItemIsTheLoops
    <2> SUFFICES ASSUME IInv, pc \in {"sequential", "walk"}, Representable, ~LoopsAreEmpty
                 PROVE  /\ position = LoopItem(linear)
                        /\ \A d \in Dims :
                             {v \in 0 .. range[d] - 1 : v \div tile[d] = position[d] \div tile[d]}
                               = position[d] .. position[d] + TileLength(d) - 1
      BY DEF ItemIsTheLoops
    <2>1. position = LoopItem(linear)
      BY DEF IInv, ItemInv
    <2>2. CallOK /\ linear \in Nat /\ ItemsFrom(1) # 0
      BY EmptyLoops DEF IInv, CallInv, TypeOK
    <2> QED BY <2>1, <2>2, TileOfItem
  <1> QED BY <1>1, Invariance, PTL
(* A thread function divides a linear index by the number of tiles of one  *)
(* dimension, or by a product of two or three that may have wrapped: never *)
(* by zero, as long as the operation has a linear index to divide.         *)
DivisorsAreNotZero ==
  pc \in {"parallel", "linear", "walk"} /\ linear_range # 0 =>
    /\ \A d \in Dims : TileRange(d) # 0
    /\ \A d \in Dims : d + 1 \in Dims => Times(TileRange(d), TileRange(d + 1)) # 0
    /\ \A d \in Dims : d + 2 = function.dims =>
         Times(Times(TileRange(d), TileRange(d + 1)), TileRange(d + 2)) # 0

(* No division of a thread function has a divisor that is zero, not even   *)
(* when products of the ranges wrap around.                                *)
THEOREM NoDivisionByZero == Spec => []DivisorsAreNotZero
  <1>1. IInv => DivisorsAreNotZero
    <2> SUFFICES ASSUME IInv, pc \in {"parallel", "linear", "walk"}, linear_range # 0
                 PROVE  /\ \A d \in Dims : TileRange(d) # 0
                        /\ \A d \in Dims : d + 1 \in Dims =>
                             Times(TileRange(d), TileRange(d + 1)) # 0
                        /\ \A d \in Dims : d + 2 = function.dims =>
                             Times(Times(TileRange(d), TileRange(d + 1)), TileRange(d + 2)) # 0
      BY DEF DivisorsAreNotZero
    <2>1. CallOK /\ ItemsFrom(1) % M # 0
      BY DEF IInv, CallInv, RangeInv
    <2>2. /\ \A d \in Dims : TileRange(d) \in Nat \ {0}
          /\ \A d \in Dims : d + 1 \in Dims =>
               Times(TileRange(d), TileRange(d + 1)) \in Nat \ {0}
          /\ \A d \in Dims : d + 2 = function.dims =>
               Times(Times(TileRange(d), TileRange(d + 1)), TileRange(d + 2)) \in Nat \ {0}
      BY <2>1, Divisors
    <2> QED BY <2>2
  <1> QED BY <1>1, Invariance, PTL
=============================================================================
