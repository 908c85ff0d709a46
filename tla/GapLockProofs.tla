--------------------------- MODULE GapLockProofs ---------------------------
(***************************************************************************)
(* Proofs about GapLock for keys of any number of bytes.  That a key is    *)
(* read back from its bytes is arithmetic in base Base; the rest is an     *)
(* invariant over the encoded locks.                                       *)
(***************************************************************************)
EXTENDS GapLock, TLAPS, SequenceTheorems, WellFoundedInduction

-----------------------------------------------------------------------------
(* The least element of a set of numbers stands in for induction. *)

(* A set of natural numbers that is not empty has a least element.         *)
LEMMA LeastNat ==
  ASSUME NEW T \in SUBSET Nat, T # {}
  PROVE  \E x \in T : \A y \in T : x <= y
<1> DEFINE R == OpToRel(<, Nat)
<1>1. IsWellFoundedOn(R, Nat)
  BY NatLessThanWellFounded
<1>2. R = {ss \in Nat \X Nat : ss[1] < ss[2]}
  BY DEF OpToRel
<1>3. \A x, y \in Nat : y < x => <<y, x>> \in R
  BY <1>2
<1> HIDE DEF R
<1>4. PICK x \in T : \A y \in T : <<y, x>> \notin R
  BY <1>1, WFMin
<1>5. ASSUME NEW y \in T
      PROVE  x <= y
  <2>1. x \in Nat /\ y \in Nat
    OBVIOUS
  <2>2. ~(y < x)
    BY <1>3, <1>4, <2>1, Zenon
  <2>3. QED
    BY ONLY <2>1, <2>2
<1>6. QED
  BY <1>5

-----------------------------------------------------------------------------
(* Arithmetic. *)

(* Division with remainder.                                                *)
LEMMA DivMod ==
  ASSUME NEW a \in Int, NEW b \in Nat \ {0}
  PROVE  /\ a \div b \in Int /\ a % b \in Int
         /\ a = b * (a \div b) + (a % b) /\ 0 <= a % b /\ a % b < b
OBVIOUS

(* Products with the same natural number are ordered as the factors.       *)
LEMMA MulMono ==
  ASSUME NEW x \in Int, NEW y \in Int, NEW b \in Nat, x <= y
  PROVE  b * x <= b * y
OBVIOUS

(* Products of sums and of products.                                       *)
LEMMA Distribute ==
  ASSUME NEW x \in Int, NEW y \in Int, NEW z \in Int
  PROVE  x * (y + z) = x * y + x * z /\ x * (y * z) = (y * x) * z /\ x * y = y * x
OBVIOUS

(* Quotient and remainder are the only ones.                               *)
LEMMA DivUnique ==
  ASSUME NEW q \in Int, NEW r \in Int, NEW b \in Nat \ {0}, 0 <= r, r < b
  PROVE  (b * q + r) \div b = q
<1> DEFINE a == b * q + r
<1>1. a \in Int
  OBVIOUS
<1>2. PICK p \in Int, s \in Int : p = a \div b /\ a = b * p + s /\ 0 <= s /\ s < b
  BY <1>1, DivMod
<1>3. p < q + 1
  <2>1. SUFFICES ASSUME q + 1 <= p PROVE FALSE
    OBVIOUS
  <2>2. b * (q + 1) <= b * p
    BY <2>1, MulMono
  <2>3. b * (q + 1) = b * q + b
    OBVIOUS
  <2>4. QED
    BY <1>2, <2>2, <2>3
<1>4. q < p + 1
  <2>1. SUFFICES ASSUME p + 1 <= q PROVE FALSE
    OBVIOUS
  <2>2. b * (p + 1) <= b * q
    BY <2>1, MulMono
  <2>3. b * (p + 1) = b * p + b
    OBVIOUS
  <2>4. QED
    BY <1>2, <2>2, <2>3
<1>5. QED
  BY <1>2, <1>3, <1>4

-----------------------------------------------------------------------------
(* The two recursions. *)

IsWorth(g, m) == g = [n \in 0 .. m |-> IF n = 0 THEN 1 ELSE Base * g[n - 1]]

(* The recursion of Worth defines a function.                              *)
LEMMA WorthExists ==
  ASSUME NEW m \in Nat
  PROVE  \E g : IsWorth(g, m)
<1> DEFINE T == {k \in Nat : ~\E g : IsWorth(g, k)}
<1>1. SUFFICES ASSUME T # {} PROVE FALSE
  OBVIOUS
<1>2. PICK k \in T : \A j \in T : k <= j
  <2>1. T \in SUBSET Nat
    OBVIOUS
  <2> HIDE DEF T
  <2>2. QED
    BY <1>1, <2>1, LeastNat
<1>3. k # 0
  <2>1. IsWorth([n \in 0 .. 0 |-> 1], 0)
    BY DEF IsWorth
  <2>2. QED
    BY <2>1
<1>4. k - 1 \in Nat /\ k - 1 \notin T
  BY <1>2, <1>3
<1>5. PICK g : IsWorth(g, k - 1)
  BY <1>4
<1> DEFINE G == [n \in 0 .. k |-> IF n < k THEN g[n] ELSE Base * g[k - 1]]
<1>6. \A n \in 0 .. k - 1 : g[n] = IF n = 0 THEN 1 ELSE Base * g[n - 1]
  BY <1>4, <1>5 DEF IsWorth
<1>7. \A n \in 0 .. k : n # 0 => G[n - 1] = g[n - 1]
  BY <1>4
<1>8. \A n \in 0 .. k : G[n] = IF n = 0 THEN 1 ELSE Base * G[n - 1]
  <2> TAKE n \in 0 .. k
  <2>1. CASE n = k
    BY <1>3, <1>4, <1>7, <2>1
  <2>2. CASE n < k
    <3>1. n \in 0 .. k - 1 /\ G[n] = g[n]
      BY <1>4, <2>2
    <3> HIDE DEF G
    <3>2. QED
      BY <1>6, <1>7, <3>1
  <2>3. QED
    BY <1>4, <2>1, <2>2
<1>9. IsWorth(G, k)
  <2>1. G = [n \in 0 .. k |-> G[n]]
    OBVIOUS
  <2> HIDE DEF G
  <2>2. G = [n \in 0 .. k |-> IF n = 0 THEN 1 ELSE Base * G[n - 1]]
    BY <1>8, <2>1
  <2>3. QED
    BY <2>2 DEF IsWorth
<1>10. QED
  BY <1>9

(* The values of Worth.                                                    *)
LEMMA WorthValues ==
  /\ Worth[0] = 1
  /\ \A n \in 1 .. Width : Worth[n] = Base * Worth[n - 1]
  /\ \A n \in 0 .. Width : Worth[n] \in Nat \ {0}
<1>1. Width \in Nat \ {0} /\ Base \in Nat \ {0, 1}
  BY GapAssumption
<1>2. IsWorth(Worth, Width)
  <2>1. Worth = CHOOSE g : IsWorth(g, Width)
    BY DEF Worth, IsWorth
  <2>2. QED
    BY <1>1, <2>1, WorthExists
<1>3. \A n \in 0 .. Width : Worth[n] = IF n = 0 THEN 1 ELSE Base * Worth[n - 1]
  BY <1>2 DEF IsWorth
<1> DEFINE T == {n \in 0 .. Width : Worth[n] \notin Nat \ {0}}
<1>4. T = {}
  <2> SUFFICES ASSUME T # {} PROVE FALSE
    OBVIOUS
  <2>1. T \in SUBSET Nat
    BY <1>1
  <2>2. PICK n \in T : \A j \in T : n <= j
    <3> HIDE DEF T
    <3>1. QED
      BY <2>1, LeastNat
  <2>3. n \in 0 .. Width /\ n # 0
    BY <1>1, <1>3, <2>2
  <2>4. n - 1 \in 0 .. Width /\ Worth[n - 1] \in Nat \ {0} /\ Worth[n] = Base * Worth[n - 1]
    BY <1>1, <1>3, <2>2, <2>3
  <2>5. QED
    BY <1>1, <2>2, <2>4
<1>5. QED
  BY <1>1, <1>3, <1>4

IsLow(g, b, m) == g = [i \in 0 .. m |-> IF i = 0 THEN 0 ELSE g[i - 1] + b[i] * Worth[i - 1]]

(* The recursion of Unsigned defines a function.                           *)
LEMMA LowExists ==
  ASSUME NEW b, NEW m \in Nat
  PROVE  \E g : IsLow(g, b, m)
<1> DEFINE T == {k \in Nat : ~\E g : IsLow(g, b, k)}
<1>1. SUFFICES ASSUME T # {} PROVE FALSE
  OBVIOUS
<1>2. PICK k \in T : \A j \in T : k <= j
  <2>1. T \in SUBSET Nat
    OBVIOUS
  <2> HIDE DEF T
  <2>2. QED
    BY <1>1, <2>1, LeastNat
<1>3. k # 0
  <2>1. IsLow([n \in 0 .. 0 |-> 0], b, 0)
    BY DEF IsLow
  <2>2. QED
    BY <2>1
<1>4. k - 1 \in Nat /\ k - 1 \notin T
  BY <1>2, <1>3
<1>5. PICK g : IsLow(g, b, k - 1)
  BY <1>4
<1> DEFINE G == [n \in 0 .. k |-> IF n < k THEN g[n] ELSE g[k - 1] + b[k] * Worth[k - 1]]
<1>6. \A n \in 0 .. k - 1 : g[n] = IF n = 0 THEN 0 ELSE g[n - 1] + b[n] * Worth[n - 1]
  BY <1>4, <1>5 DEF IsLow
<1>7. \A n \in 0 .. k : n # 0 => G[n - 1] = g[n - 1]
  BY <1>4
<1>8. \A n \in 0 .. k : G[n] = IF n = 0 THEN 0 ELSE G[n - 1] + b[n] * Worth[n - 1]
  <2> TAKE n \in 0 .. k
  <2>1. CASE n = k
    BY <1>3, <1>4, <1>7, <2>1
  <2>2. CASE n < k
    <3>1. n \in 0 .. k - 1 /\ G[n] = g[n]
      BY <1>4, <2>2
    <3> HIDE DEF G
    <3>2. QED
      BY <1>6, <1>7, <3>1
  <2>3. QED
    BY <1>4, <2>1, <2>2
<1>9. IsLow(G, b, k)
  <2>1. G = [n \in 0 .. k |-> G[n]]
    OBVIOUS
  <2> HIDE DEF G
  <2>2. G = [n \in 0 .. k |-> IF n = 0 THEN 0 ELSE G[n - 1] + b[n] * Worth[n - 1]]
    BY <1>8, <2>1
  <2>3. QED
    BY <2>2 DEF IsLow
<1>10. QED
  BY <1>9


-----------------------------------------------------------------------------
(* Keys and their bytes. *)

(* One more byte: a quotient by the worth of a byte is split into the next *)
(* byte and the quotient by the worth of the byte after it.                *)
LEMMA NextByte ==
  ASSUME NEW P \in Nat \ {0}, NEW B \in Nat \ {0}, NEW q \in Int, NEW r \in Int, 0 <= r, r < P,
         NEW k \in Int, k = P * q + r, NEW d \in Int, NEW e \in Int, q = B * e + d, 0 <= d, d < B
  PROVE  /\ r + d * P \in Int /\ 0 <= r + d * P /\ r + d * P < B * P
         /\ k = (B * P) * e + (r + d * P)
<1>3. P * q = (B * P) * e + d * P
  <2>1. P * (B * e + d) = P * (B * e) + P * d
    BY Distribute
  <2>2. P * (B * e) = (B * P) * e /\ P * d = d * P
    BY Distribute
  <2>3. QED
    BY <2>1, <2>2
<1>4. P * d <= P * (B - 1) /\ P * 0 <= P * d
  <2>1. d <= B - 1 /\ B - 1 \in Int
    OBVIOUS
  <2>2. QED
    BY ONLY <2>1, 0 <= d, d \in Int, P \in Nat \ {0}, MulMono
<1>5. P * (B - 1) = B * P - P /\ P * d = d * P /\ d * P \in Int /\ B * P \in Int /\ P * 0 = 0
  BY ONLY d \in Int, B \in Nat \ {0}, P \in Nat \ {0}
<1>6. /\ r + d * P \in Int /\ 0 <= r + d * P /\ r + d * P < B * P
  BY ONLY <1>4, <1>5, P \in Nat \ {0}, r \in Int, 0 <= r, r < P
<1>7. k = (B * P) * e + (r + d * P)
  <2>1. (B * P) * e \in Int
    OBVIOUS
  <2>2. QED
    BY ONLY <1>3, <1>5, <2>1, r \in Int, k = P * q + r
<1>8. QED
  BY ONLY <1>6, <1>7

(* Reading the bytes of a key gives the key: the little-endian image in    *)
(* two's complement loses nothing.                                         *)
LEMMA KeyRead ==
  ASSUME NEW k \in Int, 2 * k < Worth[Width], -Worth[Width] <= 2 * k
  PROVE  Bytes(k) \in [1 .. Width -> Byte] /\ IntOf(Bytes(k)) = k
<1> DEFINE b == Bytes(k)
           L == CHOOSE g : IsLow(g, b, Width)
           Good(i) == /\ L[i] \in Int /\ 0 <= L[i] /\ L[i] < Worth[i]
                      /\ \E q \in Int : k = Worth[i] * q + L[i]
           T == {i \in 0 .. Width : ~Good(i)}
<1>1. Width \in Nat \ {0} /\ Base \in Nat \ {0, 1}
  BY GapAssumption
<1>2. IsLow(L, b, Width)
  BY <1>1, LowExists
<1>3. Unsigned(b) = L[Width]
  BY DEF Unsigned, IsLow
<1>4. \A i \in 1 .. Width : b[i] = (k \div Worth[i - 1]) % Base
  BY ONLY DEF Bytes, b
<1> HIDE DEF b, L
<1>5. \A i \in 0 .. Width : L[i] = IF i = 0 THEN 0 ELSE L[i - 1] + b[i] * Worth[i - 1]
  BY <1>2 DEF IsLow
<1>6. Good(0)
  <2>1. L[0] = 0 /\ Worth[0] = 1
    BY <1>1, <1>5, WorthValues
  <2>2. k = 1 * k + 0
    OBVIOUS
  <2>3. QED
    BY <2>1, <2>2
<1>7. ASSUME NEW i \in 1 .. Width, Good(i - 1)
      PROVE  Good(i) /\ b[i] \in 0 .. Base - 1
  <2>1. PICK q \in Int : k = Worth[i - 1] * q + L[i - 1]
    BY <1>7
  <2>2. PICK P \in Nat \ {0} : P = Worth[i - 1]
    BY <1>1, WorthValues
  <2>3. PICK r \in Int : r = L[i - 1] /\ 0 <= r /\ r < P
    BY <1>7, <2>2
  <2>4. k = P * q + r /\ Base \in Nat \ {0}
    BY <1>1, <2>1, <2>2, <2>3
  <2>5. k \div P = q
    BY ONLY <2>3, <2>4, DivUnique, P \in Nat \ {0}, q \in Int, r \in Int
  <2>6. b[i] = q % Base
    BY ONLY <1>4, <2>2, <2>5, i \in 1 .. Width
  <2>7. PICK d \in Int, e \in Int : d = b[i] /\ q = Base * e + d /\ 0 <= d /\ d < Base
    BY ONLY <2>4, <2>6, DivMod, q \in Int
  <2>8. Worth[i] = Base * P
    BY ONLY <2>2, WorthValues, i \in 1 .. Width
  <2>9. L[i] = r + d * P
    BY ONLY <1>1, <1>5, <2>2, <2>3, <2>7, i \in 1 .. Width
  <2>10. /\ r + d * P \in Int /\ 0 <= r + d * P /\ r + d * P < Base * P
         /\ k = (Base * P) * e + (r + d * P)
    BY ONLY <2>3, <2>4, <2>7, NextByte, P \in Nat \ {0}, q \in Int, r \in Int, k \in Int, d \in Int, e \in Int
  <2>11. b[i] \in 0 .. Base - 1
    BY ONLY <2>4, <2>7, d \in Int
  <2>12. QED
    BY ONLY <2>8, <2>9, <2>10, <2>11, e \in Int
<1>8. T = {}
  <2> SUFFICES ASSUME T # {} PROVE FALSE
    OBVIOUS
  <2>1. T \in SUBSET Nat
    BY <1>1
  <2>2. PICK n \in T : \A j \in T : n <= j
    <3> HIDE DEF T
    <3>1. QED
      BY <2>1, LeastNat
  <2> HIDE DEF Good
  <2>3. n \in 1 .. Width
    BY <1>1, <1>6, <2>2
  <2>4. Good(n - 1)
    BY <1>1, <2>2, <2>3
  <2>5. QED
    BY <1>7, <2>2, <2>3, <2>4
<1>9. \A i \in 0 .. Width : Good(i)
  <2> HIDE DEF Good
  <2>1. QED
    BY <1>8
<1>10. b \in [1 .. Width -> Byte]
  <2>1. \A i \in 1 .. Width : i - 1 \in 0 .. Width
    BY <1>1
  <2>2. \A i \in 1 .. Width : b[i] \in 0 .. Base - 1
    <3> HIDE DEF Good
    <3>1. QED
      BY ONLY <1>7, <1>9, <2>1
  <2>3. b = [i \in 1 .. Width |-> b[i]]
    BY ONLY DEF b, Bytes
  <2>4. QED
    BY ONLY <2>2, <2>3 DEF Byte
<1>11. IntOf(b) = k
  <2>1. PICK q \in Int : k = Worth[Width] * q + L[Width]
    BY <1>1, <1>9
  <2>2. PICK P \in Nat \ {0} : P = Worth[Width]
    BY <1>1, WorthValues
  <2>3. PICK u \in Int : u = L[Width] /\ 0 <= u /\ u < P
    BY <1>1, <1>9, <2>2
  <2>4. k = P * q + u /\ 2 * k < P /\ -P <= 2 * k
    BY <2>1, <2>2, <2>3
  <2>5. q < 1
    <3>1. SUFFICES ASSUME 1 <= q PROVE FALSE
      OBVIOUS
    <3>2. P * 1 <= P * q
      BY ONLY <3>1, MulMono, P \in Nat \ {0}, q \in Int
    <3>3. P * q \in Int
      OBVIOUS
    <3>4. QED
      BY ONLY <2>3, <2>4, <3>2, <3>3, P \in Nat \ {0}, u \in Int
  <2>6. -2 < q
    <3>1. SUFFICES ASSUME q <= -2 PROVE FALSE
      OBVIOUS
    <3>2. P * q <= P * (-2)
      BY ONLY <3>1, MulMono, P \in Nat \ {0}, q \in Int
    <3>3. P * q \in Int /\ P * (-2) = -(2 * P)
      OBVIOUS
    <3>4. QED
      BY ONLY <2>3, <2>4, <3>2, <3>3, P \in Nat \ {0}, u \in Int
  <2>7. q = 0 \/ q = -1
    BY ONLY <2>5, <2>6, q \in Int
  <2>8. CASE q = 0
    <3>1. k = u
      BY ONLY <2>4, <2>8, u \in Int, P \in Nat \ {0}
    <3>2. QED
      BY ONLY <1>3, <2>2, <2>3, <2>4, <3>1 DEF IntOf
  <2>9. CASE q = -1
    <3>1. k = u - P
      BY ONLY <2>4, <2>9, u \in Int, P \in Nat \ {0}
    <3>2. ~(2 * u < P)
      BY ONLY <2>4, <3>1, u \in Int, P \in Nat \ {0}
    <3>3. QED
      BY ONLY <1>3, <2>2, <2>3, <3>1, <3>2 DEF IntOf
  <2>10. QED
    BY <2>7, <2>8, <2>9
<1>12. QED
  BY <1>10, <1>11 DEF b


-----------------------------------------------------------------------------
(* The encoded strings. *)

(* Names for what is known of a string, kept opaque so that a lemma about  *)
(* strings can be cited for given ones.                                    *)
StringOf(s, n) == s \in Seq(Nat) /\ n \in Nat /\ Len(s) = n
Joins(c, s, t) == c = s \o t
Joined(c, s, t, m, n) ==
  /\ StringOf(c, m + n)
  /\ \A i \in 1 .. m : c[i] = s[i]
  /\ \A i \in 1 .. n : c[m + i] = t[i]

(* The elements of a concatenation.                                        *)
LEMMA Concat ==
  ASSUME NEW s, NEW t, NEW m, NEW n, NEW c, StringOf(s, m), StringOf(t, n), Joins(c, s, t)
  PROVE  Joined(c, s, t, m, n)
<1>0. s \in Seq(Nat) /\ t \in Seq(Nat) /\ m \in Nat /\ n \in Nat /\ Len(s) = m /\ Len(t) = n
  BY ONLY StringOf(s, m), StringOf(t, n) DEF StringOf
<1>1. /\ c \in Seq(Nat) /\ Len(c) = Len(s) + Len(t)
      /\ \A i \in 1 .. Len(s) + Len(t) : c[i] = IF i <= Len(s) THEN s[i] ELSE t[i - Len(s)]
  <2>1. /\ s \o t \in Seq(Nat) /\ Len(s \o t) = Len(s) + Len(t)
        /\ \A i \in 1 .. Len(s) + Len(t) :
             (s \o t)[i] = IF i <= Len(s) THEN s[i] ELSE t[i - Len(s)]
    BY ONLY <1>0, ConcatProperties, Zenon
  <2>2. QED
    BY ONLY <2>1, Joins(c, s, t), Zenon DEF Joins
<1>2. /\ c \in Seq(Nat) /\ Len(c) = m + n
      /\ \A i \in 1 .. m + n : c[i] = IF i <= m THEN s[i] ELSE t[i - m]
  BY ONLY <1>0, <1>1, Zenon
<1>3. \A i \in 1 .. m : i \in 1 .. m + n /\ i <= m
  BY ONLY <1>0
<1>4. \A i \in 1 .. n : m + i \in 1 .. m + n /\ ~(m + i <= m) /\ (m + i) - m = i
  BY ONLY <1>0
<1>5. \A i \in 1 .. m : c[i] = s[i]
  BY ONLY <1>2, <1>3
<1>6. \A i \in 1 .. n : c[m + i] = t[i]
  BY ONLY <1>2, <1>4
<1>7. StringOf(c, m + n)
  BY ONLY <1>0, <1>2 DEF StringOf
<1>8. QED
  BY ONLY <1>5, <1>6, <1>7, Zenon DEF Joined

(* The layout of a range: lower bound, separator, upper bound, two flags.  *)
LaidOut(a, x, y, f, g) == a = x \o <<0>> \o y \o <<f, g>>
Fields(a, x, y, f, g) ==
  /\ Len(a) = 2 * Width + 3
  /\ a[Width + 1] = 0 /\ a[2 * Width + 2] = f /\ a[2 * Width + 3] = g
  /\ SubSeq(a, 1, Width) = x /\ SubSeq(a, Width + 2, 2 * Width + 1) = y

(* The fields of a string laid out so are the parts it was made of.        *)
LEMMA Layout ==
  ASSUME NEW x \in [1 .. Width -> Byte], NEW y \in [1 .. Width -> Byte],
         NEW f \in {0, 1}, NEW g \in {0, 1}, NEW a, LaidOut(a, x, y, f, g)
  PROVE  Fields(a, x, y, f, g)
<1>1. Width \in Nat \ {0} /\ Base \in Nat \ {0, 1}
  BY GapAssumption
<1>2. StringOf(x, Width) /\ StringOf(y, Width)
  BY ONLY <1>1, x \in [1 .. Width -> Byte], y \in [1 .. Width -> Byte] DEF Byte, StringOf
<1> DEFINE o == <<0>>
           z == <<f, g>>
           x0 == x \o o
           xy == x0 \o y
           b == xy \o z
           m == Width + 1
           n == m + Width
<1>3. StringOf(o, 1) /\ o[1] = 0 /\ StringOf(z, 2) /\ z[1] = f /\ z[2] = g
  BY ONLY f \in {0, 1}, g \in {0, 1} DEF StringOf
<1>4. Joins(x0, x, o) /\ Joins(xy, x0, y) /\ Joins(b, xy, z)
  BY ONLY DEF Joins
<1>5. a = b
  BY ONLY LaidOut(a, x, y, f, g) DEF LaidOut
<1> HIDE DEF o, z, x0, xy, b
<1>6. Joined(x0, x, o, Width, 1)
  BY ONLY <1>2, <1>3, <1>4, Concat
<1>7. Joined(xy, x0, y, m, Width)
  <2>1. StringOf(x0, m)
    BY ONLY <1>6, Zenon DEF Joined
  <2>2. QED
    BY ONLY <1>2, <1>4, <2>1, Concat
<1>8. Joined(b, xy, z, n, 2)
  <2>1. StringOf(xy, n)
    BY ONLY <1>7, Zenon DEF Joined
  <2>2. QED
    BY ONLY <1>3, <1>4, <2>1, Concat
<1>9. /\ \A i \in 1 .. Width : x0[i] = x[i]
      /\ \A i \in 1 .. 1 : x0[Width + i] = o[i]
      /\ \A i \in 1 .. m : xy[i] = x0[i]
      /\ \A i \in 1 .. Width : xy[m + i] = y[i]
      /\ \A i \in 1 .. n : b[i] = xy[i]
      /\ \A i \in 1 .. 2 : b[n + i] = z[i]
  BY ONLY <1>6, <1>7, <1>8, Zenon DEF Joined
<1>10. b \in Seq(Nat) /\ Len(b) = n + 2
  BY ONLY <1>8, Zenon DEF Joined, StringOf
<1>11. /\ m \in 1 .. m /\ m \in 1 .. n /\ Width + 1 = m /\ 1 \in 1 .. 1
       /\ n + 1 = 2 * Width + 2 /\ n + 2 = 2 * Width + 3 /\ 1 \in 1 .. 2 /\ 2 \in 1 .. 2
       /\ \A i \in 1 .. Width : i \in 1 .. m /\ i \in 1 .. n /\ m + i \in 1 .. n
  BY ONLY <1>1
<1> HIDE DEF m, n
<1>12. b[m] = 0
  BY ONLY <1>3, <1>9, <1>11
<1>13. b[n + 1] = f /\ b[n + 2] = g
  BY ONLY <1>3, <1>9, <1>11
<1>14. \A i \in 1 .. Width : b[i] = x[i]
  BY ONLY <1>9, <1>11
<1>15. \A i \in 1 .. Width : b[m + i] = y[i]
  BY ONLY <1>9, <1>11
<1>16. /\ Len(b) = 2 * Width + 3 /\ b[Width + 1] = 0
       /\ b[2 * Width + 2] = f /\ b[2 * Width + 3] = g
  BY ONLY <1>10, <1>11, <1>12, <1>13, Zenon
<1>17. SubSeq(b, 1, Width) = x
  <2>1. SubSeq(b, 1, Width) = [i \in 1 .. Width |-> b[i]]
    BY ONLY <1>1, <1>10, <1>16
  <2>2. x = [i \in 1 .. Width |-> x[i]]
    OBVIOUS
  <2>3. QED
    BY ONLY <1>14, <2>1, <2>2
<1>18. SubSeq(b, Width + 2, 2 * Width + 1) = y
  <2>1. SubSeq(b, Width + 2, 2 * Width + 1) = [i \in 1 .. Width |-> b[m + i]]
    BY ONLY <1>1, <1>10, <1>16 DEF m
  <2>2. y = [i \in 1 .. Width |-> y[i]]
    OBVIOUS
  <2>3. QED
    BY ONLY <1>15, <2>1, <2>2
<1>19. Fields(b, x, y, f, g)
  BY ONLY <1>16, <1>17, <1>18, Zenon DEF Fields
<1>20. QED
  BY ONLY <1>5, <1>19, Zenon


(* What the strings of a range and of a point say.                         *)
LEMMA Encoding ==
  ASSUME NEW k \in Keys
  PROVE  /\ Bytes(k) \in [1 .. Width -> Byte] /\ IntOf(Bytes(k)) = k
         /\ encode_gap_point(k).tag = "P" /\ encode_gap_point(k).bytes = Bytes(k)
<1>1. k \in Int /\ 2 * k < Worth[Width] /\ -Worth[Width] <= 2 * k
  BY GapAssumption
<1>2. Bytes(k) \in [1 .. Width -> Byte] /\ IntOf(Bytes(k)) = k
  BY <1>1, KeyRead
<1>3. QED
  BY <1>2 DEF encode_gap_point

(* A range lock names the bounds and the flags it was asked for.           *)
LEMMA RangeEncoding ==
  ASSUME NEW l \in Keys, NEW u \in Keys, NEW lo \in BOOLEAN, NEW uo \in BOOLEAN,
         NEW g, g = encode_gap_range(l, u, lo, uo)
  PROVE  /\ g.tag = "R" /\ Len(g.bytes) = 2 * Width + 3
         /\ AskedLower(g) = l /\ AskedUpper(g) = u
         /\ SubSeq(g.bytes, 1, Width) = Bytes(l)
         /\ SubSeq(g.bytes, Width + 2, 2 * Width + 1) = Bytes(u)
         /\ g.bytes[Width + 1] = 0
         /\ g.bytes[2 * Width + 2] = Flag(lo) /\ g.bytes[2 * Width + 3] = Flag(uo)
<1>1. /\ Bytes(l) \in [1 .. Width -> Byte] /\ IntOf(Bytes(l)) = l
      /\ Bytes(u) \in [1 .. Width -> Byte] /\ IntOf(Bytes(u)) = u
  BY Encoding
<1>2. Flag(lo) \in {0, 1} /\ Flag(uo) \in {0, 1}
  BY DEF Flag
<1>3. PICK x \in [1 .. Width -> Byte], y \in [1 .. Width -> Byte], d \in {0, 1}, e \in {0, 1} :
        x = Bytes(l) /\ y = Bytes(u) /\ d = Flag(lo) /\ e = Flag(uo)
  BY <1>1, <1>2
<1>4. g.tag = "R" /\ g.bytes = x \o <<0>> \o y \o <<d, e>>
  BY <1>3 DEF encode_gap_range
<1>5. /\ Len(g.bytes) = 2 * Width + 3
      /\ g.bytes[Width + 1] = 0 /\ g.bytes[2 * Width + 2] = d /\ g.bytes[2 * Width + 3] = e
      /\ SubSeq(g.bytes, 1, Width) = x /\ SubSeq(g.bytes, Width + 2, 2 * Width + 1) = y
  <2>1. LaidOut(g.bytes, x, y, d, e)
    BY ONLY <1>4 DEF LaidOut
  <2>2. Fields(g.bytes, x, y, d, e)
    BY ONLY <2>1, Layout, x \in [1 .. Width -> Byte], y \in [1 .. Width -> Byte], d \in {0, 1},
       e \in {0, 1}
  <2>3. QED
    BY ONLY <2>2, Zenon DEF Fields
<1>6. QED
  BY ONLY <1>1, <1>3, <1>4, <1>5 DEF AskedLower, AskedUpper

(* Covers is key_in_gap_range of the bounds and the flags asked for.       *)
LEMMA CoversRange ==
  ASSUME NEW l \in Keys, NEW u \in Keys, NEW lo \in BOOLEAN, NEW uo \in BOOLEAN,
         NEW g, g = encode_gap_range(l, u, lo, uo), NEW k \in Keys
  PROVE  Covers(g, k) <=> key_in_gap_range(k, l, u, lo, uo)
<1>1. /\ g.tag = "R" /\ AskedLower(g) = l /\ AskedUpper(g) = u
      /\ g.bytes[2 * Width + 2] = Flag(lo) /\ g.bytes[2 * Width + 3] = Flag(uo)
  BY RangeEncoding
<1>2. k \in Int /\ l \in Int /\ u \in Int
  BY GapAssumption
<1>3. (Flag(lo) = 0 <=> ~lo) /\ (Flag(uo) = 0 <=> ~uo)
  BY ONLY DEF Flag
<1>4. (l < k \/ (l = k /\ Flag(lo) = 0)) <=> IF lo THEN l < k ELSE l <= k
  BY ONLY <1>2, <1>3
<1>5. (k < u \/ (k = u /\ Flag(uo) = 0)) <=> IF uo THEN k < u ELSE k <= u
  BY ONLY <1>2, <1>3
<1>6. QED
  BY ONLY <1>1, <1>4, <1>5 DEF Covers, key_in_gap_range

(* Reading an int at a string of Width bytes reads that string.            *)
LEMMA ReadIntExact ==
  ASSUME NEW k \in Keys
  PROVE  ReadInt(Bytes(k)) = {k}
<1>1. PICK s \in [1 .. Width -> Byte] : s = Bytes(k) /\ IntOf(s) = k
  BY Encoding
<1>2. Width \in Nat
  BY GapAssumption
<1>3. Len(s) = Width
  BY <1>2
<1> DEFINE C == {c \in [1 .. Width -> Byte] :
                   \A i \in 1 .. Width : /\ i <= Len(s) => c[i] = s[i]
                                         /\ i = Len(s) + 1 => c[i] = 0}
<1>4. \A c \in C : c = s
  <2>1. \A c \in C : c \in [1 .. Width -> Byte] /\ \A i \in 1 .. Width : c[i] = s[i]
    BY ONLY <1>2, <1>3
  <2> HIDE DEF C
  <2>2. s = [i \in 1 .. Width |-> s[i]] /\ \A c \in C : c = [i \in 1 .. Width |-> c[i]]
    BY <2>1
  <2>3. QED
    BY ONLY <2>1, <2>2
<1>5. s \in C
  BY ONLY <1>2, <1>3, s \in [1 .. Width -> Byte]
<1>6. ReadInt(s) = {IntOf(c) : c \in C}
  BY ONLY DEF ReadInt
<1> HIDE DEF C
<1>7. QED
  BY ONLY <1>1, <1>4, <1>5, <1>6



(* A range whose lower bound has no zero byte is read back as it was asked *)
(* for, so a point request gets the one right answer.                      *)
LEMMA ReadsBack ==
  ASSUME NEW l \in Keys, NEW u \in Keys, NEW lo \in BOOLEAN, NEW uo \in BOOLEAN,
         NEW g, g = encode_gap_range(l, u, lo, uo), SplitsWell(g), NEW k \in Keys
  PROVE  PointConflicts(k, g) = {key_in_gap_range(k, l, u, lo, uo)}
<1>1. Width \in Nat \ {0}
  BY GapAssumption
<1>2. PICK b : b = g.bytes
  OBVIOUS
<1>3. /\ g.tag = "R" /\ Len(b) = 2 * Width + 3 /\ b[Width + 1] = 0
      /\ SubSeq(b, 1, Width) = Bytes(l) /\ SubSeq(b, Width + 2, 2 * Width + 1) = Bytes(u)
      /\ b[2 * Width + 2] = Flag(lo) /\ b[2 * Width + 3] = Flag(uo)
  BY <1>2, RangeEncoding
<1>4. \A i \in 1 .. Width : b[i] # 0
  BY ONLY <1>2, SplitsWell(g) DEF SplitsWell
<1>5. FirstZero(b) = Width + 1
  <2> DEFINE P(i) == b[i] = 0 /\ \A j \in 1 .. i - 1 : b[j] # 0
  <2>1. Width + 1 \in 1 .. Len(b) /\ P(Width + 1)
    <3>1. Width + 1 \in 1 .. Len(b) /\ (Width + 1) - 1 = Width
      BY ONLY <1>1, <1>3
    <3>2. QED
      BY ONLY <1>3, <1>4, <3>1
  <2>2. ASSUME NEW i \in 1 .. Len(b), P(i) PROVE i = Width + 1
    <3>1. i \in Int /\ 1 <= i
      BY ONLY i \in 1 .. Len(b), <1>1, <1>3
    <3>2. ~(i < Width + 1)
      BY ONLY <1>1, <1>4, <3>1, P(i)
    <3>3. ~(Width + 1 < i)
      <4>1. Width + 1 < i => Width + 1 \in 1 .. i - 1
        BY ONLY <1>1, <3>1
      <4>2. QED
        BY ONLY <1>3, <4>1, P(i)
    <3>4. QED
      BY ONLY <1>1, <3>1, <3>2, <3>3
  <2> HIDE DEF P
  <2>3. (CHOOSE i \in 1 .. Len(b) : P(i)) = Width + 1
    BY ONLY <2>1, <2>2
  <2>4. QED
    BY ONLY <2>3 DEF FirstZero, P
<1>6. /\ (Width + 1) - 1 = Width /\ (Width + 1) + 1 = Width + 2
      /\ (2 * Width + 3) - 2 = 2 * Width + 1 /\ (2 * Width + 3) - 1 = 2 * Width + 2
  BY ONLY <1>1
<1> DEFINE d == decode_gap_range(b)
<1>7. d = [lower |-> Bytes(l), upper |-> Bytes(u), lopen |-> Flag(lo) # 0, uopen |-> Flag(uo) # 0]
  BY ONLY <1>3, <1>5, <1>6 DEF decode_gap_range
<1>8. (Flag(lo) # 0) = lo /\ (Flag(uo) # 0) = uo
  BY DEF Flag
<1>9. d.lower = Bytes(l) /\ d.upper = Bytes(u) /\ d.lopen = lo /\ d.uopen = uo
  BY ONLY <1>7, <1>8
<1> HIDE DEF d
<1>10. ReadInt(d.lower) = {l} /\ ReadInt(d.upper) = {u}
  BY ONLY <1>9, ReadIntExact, l \in Keys, u \in Keys
<1>11. PointConflicts(k, g)
         = {key_in_gap_range(k, p, q, d.lopen, d.uopen) : p \in ReadInt(d.lower), q \in ReadInt(d.upper)}
  BY ONLY <1>2, <1>3 DEF PointConflicts, d
<1>12. QED
  BY ONLY <1>9, <1>10, <1>11

(* A point lock answers a point request by its key.                        *)
LEMMA PointReadsBack ==
  ASSUME NEW j \in Keys, NEW k \in Keys
  PROVE  PointConflicts(k, encode_gap_point(j)) = {j = k}
BY Encoding DEF PointConflicts


-----------------------------------------------------------------------------
(* The inductive invariant.                                                *)

(* The names a gap lock can have. *)
PointLocks == {encode_gap_point(k) : k \in Keys}
RangeLocks == {encode_gap_range(l, u, lo, uo) : l \in Keys, u \in Keys, lo \in BOOLEAN, uo \in BOOLEAN}

(* What the locks g and h of two transactions must not be to each other:   *)
(* the same point, or a range that splits well around a point.             *)
Apart(g, h) ==
  /\ g = h => g.tag # "P"
  /\ g.tag = "R" /\ h.tag = "P" /\ SplitsWell(g) => ~Covers(g, IntOf(h.bytes))

GapInv ==
  /\ held \in [Txn -> SUBSET (PointLocks \cup RangeLocks)]
  /\ ended \subseteq Txn
  /\ \A t, u \in Txn : t # u => \A g \in held[t], h \in held[u] : Apart(g, h)

(* A lock is a point of a key or a range of two keys.                      *)
LEMMA PointLock ==
  ASSUME NEW h \in PointLocks \cup RangeLocks, h.tag = "P"
  PROVE  \E j \in Keys : h = encode_gap_point(j) /\ IntOf(h.bytes) = j
<1>1. h \notin RangeLocks
  BY h.tag = "P", RangeEncoding DEF RangeLocks
<1>2. PICK j \in Keys : h = encode_gap_point(j)
  BY <1>1 DEF PointLocks
<1>3. QED
  BY <1>2, Encoding

(* A lock whose tag is not P is a range.                                   *)
LEMMA RangeLock ==
  ASSUME NEW h \in PointLocks \cup RangeLocks, h.tag = "R"
  PROVE  \E l, u \in Keys, lo, uo \in BOOLEAN :
           h = encode_gap_range(l, u, lo, uo) /\ AskedLower(h) = l /\ AskedUpper(h) = u
<1>1. h \notin PointLocks
  BY h.tag = "R", Encoding DEF PointLocks
<1>2. PICK l \in Keys, u \in Keys, lo \in BOOLEAN, uo \in BOOLEAN : h = encode_gap_range(l, u, lo, uo)
  BY <1>1 DEF RangeLocks
<1>3. AskedLower(h) = l /\ AskedUpper(h) = u
  BY <1>2, RangeEncoding
<1>4. QED
  BY <1>2, <1>3

(* The invariant says what the two state properties say.                   *)
LEMMA InvImplies ==
  GapInv => PointExclusive /\ FenceWhenSplitsWell
<1> SUFFICES ASSUME GapInv PROVE PointExclusive /\ FenceWhenSplitsWell
  OBVIOUS
<1>1. ASSUME NEW t \in Txn, NEW g \in held[t]
      PROVE  \/ g.tag = "P" /\ IntOf(g.bytes) \in Keys
             \/ g.tag = "R" /\ AskedLower(g) \in Keys /\ AskedUpper(g) \in Keys
  <2>1. g \in PointLocks \cup RangeLocks
    BY DEF GapInv
  <2>2. CASE g \in PointLocks
    <3>1. g.tag = "P"
      BY <2>2, Encoding DEF PointLocks
    <3>2. QED
      BY ONLY <2>1, <3>1, PointLock
  <2>3. CASE g \in RangeLocks
    <3>1. g.tag = "R"
      BY <2>3, RangeEncoding DEF RangeLocks
    <3>2. QED
      BY ONLY <2>1, <3>1, RangeLock
  <2>4. QED
    BY ONLY <2>1, <2>2, <2>3
<1>2. TypeOK
  BY <1>1 DEF TypeOK, GapInv
<1>3. \A t, u \in Txn : t # u => \A g \in held[t] \cap held[u] : g.tag # "P"
  BY DEF GapInv, Apart
<1>4. FenceWhenSplitsWell
  BY DEF GapInv, Apart, FenceWhenSplitsWell, Clash
<1>5. QED
  BY <1>2, <1>3, <1>4 DEF PointExclusive


-----------------------------------------------------------------------------
(* The steps.                                                              *)

(* Granting a lock that is apart, both ways, from every lock of the others *)
(* keeps the invariant.                                                    *)
LEMMA GrantInv ==
  ASSUME GapInv, NEW t \in Txn, NEW n \in PointLocks \cup RangeLocks, Grant(t, n),
         \A v \in Txn \ {t} : \A h \in held[v] : Apart(n, h) /\ Apart(h, n)
  PROVE  GapInv'
<1>1. /\ held' \in [Txn -> SUBSET (PointLocks \cup RangeLocks)]
      /\ held'[t] = held[t] \cup {n}
      /\ \A v \in Txn \ {t} : held'[v] = held[v]
  BY DEF GapInv, Grant
<1>2. ended' \subseteq Txn
  BY DEF GapInv, Grant
<1>3. ASSUME NEW v \in Txn, NEW w \in Txn, v # w, NEW g \in held'[v], NEW h \in held'[w]
      PROVE  Apart(g, h)
  <2>1. CASE v = t /\ g = n
    BY <1>1, <1>3, <2>1
  <2>2. CASE w = t /\ h = n
    BY <1>1, <1>3, <2>2
  <2>3. CASE ~(v = t /\ g = n) /\ ~(w = t /\ h = n)
    <3>1. g \in held[v] /\ h \in held[w]
      BY <1>1, <2>3
    <3>2. QED
      BY ONLY <3>1, <1>3, GapInv, v \in Txn, w \in Txn DEF GapInv
  <2>4. QED
    BY ONLY <2>1, <2>2, <2>3
<1>4. \A v, w \in Txn : v # w => \A g \in held'[v], h \in held'[w] : Apart(g, h)
  BY ONLY <1>3
<1>5. QED
  BY ONLY <1>1, <1>2, <1>4 DEF GapInv, Apart, SplitsWell, Covers, AskedLower, AskedUpper

(* A step that takes no lock keeps the invariant.                          *)
LEMMA ShrinkInv ==
  ASSUME GapInv, held' \in [Txn -> SUBSET (PointLocks \cup RangeLocks)], ended' \subseteq Txn,
         \A v \in Txn : held'[v] \subseteq held[v]
  PROVE  GapInv'
<1>1. \A v, w \in Txn : v # w => \A g \in held'[v], h \in held'[w] : Apart(g, h)
  BY DEF GapInv
<1>2. QED
  BY ONLY <1>1, held' \in [Txn -> SUBSET (PointLocks \cup RangeLocks)], ended' \subseteq Txn
     DEF GapInv, Apart, SplitsWell, Covers, AskedLower, AskedUpper

(* A range is granted only over keys on which no one else has a point.     *)
LEMMA RangeApart ==
  ASSUME GapInv, NEW t \in Txn, NEW l \in Keys, NEW u \in Keys, NEW lo \in BOOLEAN, NEW uo \in BOOLEAN,
         ~ \E h \in HeldByOthers(t) : RangeConflict(l, u, lo, uo, h),
         NEW n, n = encode_gap_range(l, u, lo, uo), NEW v \in Txn \ {t}, NEW h \in held[v]
  PROVE  /\ n.tag = "R" /\ n \in RangeLocks
         /\ h.tag = "P" => ~Covers(n, IntOf(h.bytes))
         /\ Apart(n, h) /\ Apart(h, n)
<1>1. n.tag = "R" /\ n \in RangeLocks
  BY RangeEncoding DEF RangeLocks
<1>2. h \in PointLocks \cup RangeLocks /\ h \in HeldByOthers(t)
  BY DEF GapInv, HeldByOthers
<1>3. ASSUME h.tag = "P" PROVE ~Covers(n, IntOf(h.bytes))
  <2>1. PICK j \in Keys : h = encode_gap_point(j) /\ IntOf(h.bytes) = j
    BY <1>2, <1>3, PointLock
  <2>2. ~key_in_gap_range(j, l, u, lo, uo)
    BY <1>2, <1>3, <2>1 DEF RangeConflict
  <2>3. QED
    BY <2>1, <2>2, CoversRange
<1>4. QED
  BY <1>1, <1>3 DEF Apart

(* A point is granted only where no one else has the point or a range that *)
(* splits well and covers it.                                              *)
LEMMA PointApart ==
  ASSUME GapInv, NEW t \in Txn, NEW k \in Keys,
         \A h \in HeldByOthers(t) : FALSE \in PointConflicts(k, h),
         NEW n, n = encode_gap_point(k), NEW v \in Txn \ {t}, NEW h \in held[v]
  PROVE  /\ n.tag = "P" /\ n \in PointLocks
         /\ Apart(n, h) /\ Apart(h, n)
<1>1. n.tag = "P" /\ n \in PointLocks /\ IntOf(n.bytes) = k
  BY Encoding DEF PointLocks
<1>2. h \in PointLocks \cup RangeLocks /\ FALSE \in PointConflicts(k, h)
  BY DEF GapInv, HeldByOthers
<1>3. h # n
  <2>1. PointConflicts(k, n) = {k = k}
    BY PointReadsBack
  <2>2. FALSE \notin {k = k}
    OBVIOUS
  <2>3. FALSE \notin PointConflicts(k, n)
    BY ONLY <2>1, <2>2, Zenon
  <2>4. QED
    BY ONLY <1>2, <2>3, Zenon
<1>4. ASSUME h.tag = "R", SplitsWell(h) PROVE ~Covers(h, k)
  <2>1. PICK l \in Keys, u \in Keys, lo \in BOOLEAN, uo \in BOOLEAN : h = encode_gap_range(l, u, lo, uo)
    BY ONLY <1>2, <1>4, RangeLock
  <2>2. PointConflicts(k, h) = {key_in_gap_range(k, l, u, lo, uo)}
    BY ONLY <1>4, <2>1, ReadsBack, k \in Keys, l \in Keys, u \in Keys, lo \in BOOLEAN, uo \in BOOLEAN
  <2>3. Covers(h, k) <=> key_in_gap_range(k, l, u, lo, uo)
    BY ONLY <2>1, CoversRange, k \in Keys, l \in Keys, u \in Keys, lo \in BOOLEAN, uo \in BOOLEAN
  <2>4. ~key_in_gap_range(k, l, u, lo, uo)
    BY ONLY <1>2, <2>2
  <2>5. QED
    BY <2>3, <2>4
<1>5. QED
  BY <1>1, <1>3, <1>4 DEF Apart


(* Every step keeps the invariant and takes no range over a foreign point. *)
LEMMA NextInv ==
  GapInv /\ [Next]_vars => GapInv' /\ [RangeSeesWritersStep]_vars
<1> SUFFICES ASSUME GapInv, [Next]_vars PROVE GapInv' /\ [RangeSeesWritersStep]_vars
  OBVIOUS
<1>1. ASSUME held' \in [Txn -> SUBSET (PointLocks \cup RangeLocks)], ended' \subseteq Txn,
             \A v \in Txn : held'[v] \subseteq held[v]
      PROVE  GapInv' /\ RangeSeesWritersStep
  BY <1>1, ShrinkInv DEF RangeSeesWritersStep
<1>2. held \in [Txn -> SUBSET (PointLocks \cup RangeLocks)] /\ ended \subseteq Txn
  BY DEF GapInv
<1>3. ASSUME NEW t \in Txn, Throw(t) PROVE GapInv' /\ RangeSeesWritersStep
  BY <1>1, <1>2, <1>3 DEF Throw
<1>4. CASE UNCHANGED vars
  BY <1>1, <1>2, <1>4 DEF vars
<1>5. ASSUME NEW t \in Txn, NEW l \in Keys, NEW u \in Keys, NEW lo \in BOOLEAN, NEW uo \in BOOLEAN,
             lock_shared_on_gap_range(t, l, u, lo, uo)
      PROVE  GapInv' /\ RangeSeesWritersStep
  <2>1. PICK n : n = encode_gap_range(l, u, lo, uo)
    OBVIOUS
  <2>2. \/ Throw(t)
        \/ Grant(t, n) /\ ~ \E h \in HeldByOthers(t) : RangeConflict(l, u, lo, uo, h)
    BY <1>5, <2>1 DEF lock_shared_on_gap_range
  <2>3. CASE Grant(t, n) /\ ~ \E h \in HeldByOthers(t) : RangeConflict(l, u, lo, uo, h)
    <3>1. n \in RangeLocks
      BY <2>1 DEF RangeLocks
    <3>2. \A v \in Txn \ {t} : \A h \in held[v] :
            /\ h.tag = "P" => ~Covers(n, IntOf(h.bytes))
            /\ Apart(n, h) /\ Apart(h, n)
      BY <2>1, <2>3, RangeApart
    <3>3. GapInv'
      BY ONLY <2>3, <3>1, <3>2, GapInv, t \in Txn, GrantInv
    <3>4. held'[t] = held[t] \cup {n} /\ \A v \in Txn \ {t} : held'[v] = held[v]
      BY <1>2, <2>3 DEF Grant
    <3>5. RangeSeesWritersStep
      BY ONLY <3>2, <3>4 DEF RangeSeesWritersStep
    <3>6. QED
      BY <3>3, <3>5
  <2>4. QED
    BY <1>3, <2>2, <2>3
<1>6. ASSUME NEW t \in Txn, NEW k \in Keys, lock_exclusive_on_gap_point(t, k)
      PROVE  GapInv' /\ RangeSeesWritersStep
  <2>1. PICK n : n = encode_gap_point(k)
    OBVIOUS
  <2>2. \/ Throw(t)
        \/ Grant(t, n) /\ \A h \in HeldByOthers(t) : FALSE \in PointConflicts(k, h)
    BY <1>6, <2>1 DEF lock_exclusive_on_gap_point
  <2>3. CASE Grant(t, n) /\ \A h \in HeldByOthers(t) : FALSE \in PointConflicts(k, h)
    <3>1. n \in PointLocks /\ n.tag = "P"
      BY <2>1, Encoding DEF PointLocks
    <3>2. \A v \in Txn \ {t} : \A h \in held[v] : Apart(n, h) /\ Apart(h, n)
      BY <2>1, <2>3, PointApart
    <3>3. GapInv'
      BY ONLY <2>3, <3>1, <3>2, GapInv, t \in Txn, GrantInv
    <3>4. held'[t] = held[t] \cup {n} /\ \A v \in Txn \ {t} : held'[v] = held[v]
      BY <1>2, <2>3 DEF Grant
    <3>5. RangeSeesWritersStep
      BY ONLY <3>1, <3>4 DEF RangeSeesWritersStep
    <3>6. QED
      BY <3>3, <3>5
  <2>4. QED
    BY <1>3, <2>2, <2>3
<1>7. ASSUME NEW t \in Txn, NEW g \in held[t], unlock(t, g)
      PROVE  GapInv' /\ RangeSeesWritersStep
  BY <1>1, <1>2, <1>7 DEF unlock
<1>8. ASSUME NEW t \in Txn, begin(t)
      PROVE  GapInv' /\ RangeSeesWritersStep
  BY <1>1, <1>2, <1>8 DEF begin
<1>9. CASE Next
  BY <1>3, <1>5, <1>6, <1>7, <1>8, <1>9 DEF Next, End
<1>10. QED
  BY <1>4, <1>9

(* No transaction holds a lock at the start.                               *)
LEMMA InitInv ==
  Init => GapInv
BY DEF Init, GapInv

(* lock_exclusive_on_gap_point: two writers never hold the point lock of   *)
(* the same key, and every lock names what it was asked for, for keys of   *)
(* any width in any base.                                                  *)
THEOREM PointsAreExclusive ==
  Spec => []PointExclusive
<1>1. Spec => []GapInv
  BY InitInv, NextInv, PTL DEF Spec
<1>2. QED
  BY <1>1, InvImplies, PTL

(* gap_lock_conflict of a point with a range: as long as the lower bound   *)
(* has no zero byte, a held range keeps every other writer out of it.      *)
THEOREM RangesFence ==
  Spec => []FenceWhenSplitsWell
<1>1. Spec => []GapInv
  BY InitInv, NextInv, PTL DEF Spec
<1>2. QED
  BY <1>1, InvImplies, PTL

(* gap_lock_conflict of a range with a point: a range is never granted     *)
(* over a key that another transaction has locked for writing, whatever    *)
(* the bytes of its bounds.                                                *)
THEOREM RangesSeeWriters ==
  Spec => RangeSeesWriters
<1>1. Spec => []GapInv
  BY InitInv, NextInv, PTL DEF Spec
<1>2. QED
  BY <1>1, NextInv, PTL DEF Spec, RangeSeesWriters

=============================================================================
