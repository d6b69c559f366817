----------------------- MODULE StreamDecoding_proofs -----------------------
(***************************************************************************)
(* Theorems about the result streams, for any objects, any number of them  *)
(* and any way their bytes are cut into chunks: the page gets what the     *)
(* server has sent, and nothing is held back.                              *)
(*                                                                         *)
(* The inductive invariant SDInv follows an object from one end to the     *)
(* other.  Sending: the nodes are those of the objects, parents before     *)
(* their children, so that every node hangs on the one before it (Linked). *)
(* Receiving: the bytes in the buffer and under way are those of the       *)
(* frames not taken yet (Left), counted by cardinality.  Decoded: the      *)
(* nodes that wait for iterFoldTree are a stretch of the nodes sent, from  *)
(* the first one it has not folded to the last one decoded, though most    *)
(* containers have no record of their own (ParentsRestored).  Turns: who   *)
(* works while they wait.  Folding: the tree is the part of the object     *)
(* that was folded (GrownFirst, GrownNext), and what was given away before *)
(* are the objects before it.                                              *)
(*                                                                         *)
(* A path arrives as it was sent (PathsRoundTrip).  The loops that write   *)
(* and read it are recursive functions; that they exist, and what they     *)
(* are, follows from the least number principle (Induction, Recursion).    *)
(***************************************************************************)
EXTENDS StreamDecoding, FiniteSetTheorems, SequenceTheorems, WellFoundedInduction, TLAPS

-----------------------------------------------------------------------------
(* Induction and recursion *)

(* A set of numbers that is not empty has a least one. *)
LEMMA LeastNumber ==
  ASSUME NEW S, S \subseteq Nat, S # {}
  PROVE  \E n \in S : \A m \in S : n <= m
<1>1. PICK n \in S : \A m \in S : <<m, n>> \notin OpToRel(<, Nat)
  BY WFMin, NatLessThanWellFounded
<1>2. ASSUME NEW m \in S, m < n PROVE FALSE
  <2>1. <<m, n>> \in OpToRel(<, Nat)
    BY <1>2, Zenon DEF OpToRel
  <2> QED
    BY <1>1, <2>1
<1> QED
  BY <1>2

(* Induction, for the numbers a set holds. *)
LEMMA Induction ==
  ASSUME NEW S, 0 \in S, \A n \in Nat : n \in S => n + 1 \in S
  PROVE  Nat \subseteq S
<1> SUFFICES ASSUME ~ (Nat \subseteq S) PROVE FALSE
  OBVIOUS
<1> DEFINE T == Nat \ S
<1>1. PICK n \in T : \A m \in T : n <= m
  <2>1. T \subseteq Nat /\ T # {}
    OBVIOUS
  <2> QED
    BY <2>1, LeastNumber, Zenon
<1>2. n \in Nat /\ n \notin S /\ n # 0
  OBVIOUS
<1>3. n - 1 \in Nat /\ n - 1 \notin T
  BY <1>1, <1>2
<1>4. n - 1 \in S
  BY <1>3
<1>5. (n - 1) + 1 \in S
  BY <1>3, <1>4
<1> QED
  BY <1>2, <1>5

(* The values from 0 to N, each made of the one before it by the function g. *)
Unrolls(f, N, S, s, g) ==
  f \in [0..N -> S] /\ f[0] = s /\ \A i \in 1..N : f[i] = g[<<i, f[i - 1]>>]

(* A recursive definition whose step is a function has a solution. *)
LEMMA Recursion ==
  ASSUME NEW N \in Nat, NEW S, NEW s \in S, NEW g \in [(1..N) \X S -> S]
  PROVE  \E f : Unrolls(f, N, S, s, g)
<1> DEFINE Up(n, h) == h[0] = s /\ \A i \in 1..n : h[i] = g[<<i, h[i - 1]>>]
           T == {n \in Nat : n <= N => \E h \in [0..n -> S] : Up(n, h)}
<1>1. 0 \in T
  <2>1. [i \in 0..0 |-> s] \in [0..0 -> S] /\ Up(0, [i \in 0..0 |-> s])
    OBVIOUS
  <2>2. \E h \in [0..0 -> S] : Up(0, h)
    BY <2>1
  <2> QED
    BY <2>2
<1>2. ASSUME NEW n \in Nat, n \in T PROVE n + 1 \in T
  <2> SUFFICES ASSUME n + 1 <= N PROVE \E h \in [0..(n + 1) -> S] : Up(n + 1, h)
    OBVIOUS
  <2>1. PICK h \in [0..n -> S] : Up(n, h)
    BY <1>2
  <2> DEFINE k == [i \in 0..(n + 1) |-> IF i = n + 1 THEN g[<<n + 1, h[n]>>] ELSE h[i]]
  <2>2. g[<<n + 1, h[n]>>] \in S
    <3>1. h[n] \in S /\ n + 1 \in 1..N
      OBVIOUS
    <3> QED
      BY <3>1
  <2>3. k \in [0..(n + 1) -> S]
    <3> SUFFICES ASSUME NEW i \in 0..(n + 1) PROVE (IF i = n + 1 THEN g[<<n + 1, h[n]>>] ELSE h[i]) \in S
      OBVIOUS
    <3>1. i # n + 1 => i \in 0..n
      OBVIOUS
    <3> QED
      BY <2>2, <3>1
  <2>4. ASSUME NEW i \in 1..(n + 1) PROVE k[i] = g[<<i, k[i - 1]>>]
    <3>1. CASE i = n + 1
      <4>1. i - 1 = n /\ k[n] = h[n] /\ k[n + 1] = g[<<n + 1, h[n]>>]
        BY <3>1
      <4> QED
        BY <3>1, <4>1
    <3>2. CASE i # n + 1
      <4>1. i \in 1..n /\ i - 1 \in 0..n
        BY <3>2
      <4>2. k[i] = h[i] /\ k[i - 1] = h[i - 1]
        BY <4>1
      <4> QED
        BY <2>1, <4>1, <4>2
    <3> QED
      BY <3>1, <3>2
  <2>5. k[0] = s
    BY <2>1
  <2>6. Up(n + 1, k)
    BY <2>4, <2>5
  <2> HIDE DEF k, Up
  <2> QED
    BY <2>3, <2>6
<1>3. N \in T
  <2> HIDE DEF T
  <2> QED
    BY <1>1, <1>2, Induction
<1>4. PICK h \in [0..N -> S] : Up(N, h)
  BY <1>3
<1> QED
  BY <1>4 DEF Unrolls

(* The powers of the number of values of a byte. *)
LEMMA Powers ==
  /\ Power[0] = 1
  /\ \A n \in 1..8 : Power[n] = Base * Power[n - 1]
  /\ \A n \in 0..8 : Power[n] \in Nat
<1> DEFINE g == [x \in (1..8) \X Nat |-> Base * x[2]]
<1>1. \A x \in (1..8) \X Nat : Base * x[2] \in Nat
  BY BytesHaveValues
<1>2. g \in [(1..8) \X Nat -> Nat]
  BY <1>1
<1>3. PICK f : Unrolls(f, 8, Nat, 1, g)
  <2> HIDE DEF g
  <2>1. 1 \in Nat /\ 8 \in Nat
    OBVIOUS
  <2> QED
    BY <1>2, <2>1, Recursion, Zenon
<1>4. \A i \in 1..8 : g[<<i, f[i - 1]>>] = Base * f[i - 1]
  BY <1>3 DEF Unrolls
<1>5. f = [i \in 0..8 |-> IF i = 0 THEN 1 ELSE Base * f[i - 1]]
  <2> HIDE DEF g
  <2>1. \A i \in 0..8 : i = 0 \/ i \in 1..8
    OBVIOUS
  <2>2. \A i \in 0..8 : f[i] = IF i = 0 THEN 1 ELSE Base * f[i - 1]
    BY <1>3, <1>4, <2>1 DEF Unrolls
  <2> QED
    BY <1>3, <2>2 DEF Unrolls
<1>6. Power = [i \in 0..8 |-> IF i = 0 THEN 1 ELSE Base * Power[i - 1]]
  BY <1>5, Zenon DEF Power
<1>7. Power[0] = 1 /\ \A n \in 1..8 : Power[n] = Base * Power[n - 1]
  <2>1. 0 \in 0..8 /\ \A n \in 1..8 : n \in 0..8 /\ n # 0
    OBVIOUS
  <2> QED
    BY <1>6, <2>1
<1>8. 1 \in Nat /\ \A m \in Nat : Base * m \in Nat
  BY BytesHaveValues
<1> HIDE DEF g
<1>9. Power[1] = Base * Power[0] /\ Power[2] = Base * Power[1] /\ Power[3] = Base * Power[2]
      /\ Power[4] = Base * Power[3]
  BY <1>7
<1>10. Power[5] = Base * Power[4] /\ Power[6] = Base * Power[5] /\ Power[7] = Base * Power[6]
       /\ Power[8] = Base * Power[7]
  BY <1>7
<1>11. \A n \in 0..8 : n = 0 \/ n = 1 \/ n = 2 \/ n = 3 \/ n = 4 \/ n = 5 \/ n = 6 \/ n = 7 \/ n = 8
  OBVIOUS
<1>12. \A n \in 0..8 : Power[n] \in Nat
  <2>1. Power[0] \in Nat /\ Power[1] \in Nat /\ Power[2] \in Nat /\ Power[3] \in Nat /\ Power[4] \in Nat
    <3>1. Power[0] \in Nat /\ Power[1] \in Nat
      BY <1>7, <1>8, <1>9
    <3>2. Power[2] \in Nat /\ Power[3] \in Nat
      BY <1>8, <1>9, <3>1
    <3>3. Power[4] \in Nat
      BY <1>8, <1>9, <3>2
    <3> QED
      BY <3>1, <3>2, <3>3
  <2>2. Power[5] \in Nat /\ Power[6] \in Nat /\ Power[7] \in Nat /\ Power[8] \in Nat
    BY <1>8, <1>10, <2>1, Zenon
  <2> QED
    BY <1>11, <2>1, <2>2, Zenon
<1> QED
  BY <1>7, <1>12, Zenon

-----------------------------------------------------------------------------
(* Numbers of bytes *)

(* Dividing with a remainder, in the form the lemmas below use. *)
LEMMA Remainder ==
  ASSUME NEW v \in Nat, NEW m \in Nat, m > 0
  PROVE  /\ v \div m \in Nat /\ v % m \in Nat /\ v % m < m
         /\ v = ((v \div m) * m) + (v % m)
  OBVIOUS

(* A quotient is the only one with its remainder. *)
LEMMA QuotientUnique ==
  ASSUME NEW v \in Nat, NEW m \in Nat, m > 0, NEW q \in Nat, NEW r \in Nat, r < m, v = (q * m) + r
  PROVE  v \div m = q
<1> DEFINE d == v \div m
           e == v % m
<1>1. d \in Nat /\ e \in Nat /\ e < m /\ v = (d * m) + e
  BY Remainder
<1> HIDE DEF d, e
<1>2. CASE d > q
  <2>1. d >= q + 1
    BY <1>1, <1>2
  <2>2. d * m >= (q + 1) * m
    BY <1>1, <2>1
  <2>3. (q + 1) * m = (q * m) + m
    OBVIOUS
  <2> QED
    BY <1>1, <2>2, <2>3
<1>3. CASE d < q
  <2>1. q >= d + 1
    BY <1>1, <1>3
  <2>2. q * m >= (d + 1) * m
    BY <1>1, <2>1
  <2>3. (d + 1) * m = (d * m) + m
    BY <1>1
  <2> QED
    BY <1>1, <2>2, <2>3
<1>4. d = q
  BY <1>1, <1>2, <1>3
<1> QED
  BY <1>4 DEF d

(* A number is its quotient by a power, the next digit and the rest. *)
LEMMA NextDigit ==
  ASSUME NEW v \in Nat, NEW b \in Nat, NEW x \in Nat, b > 0, x > 0
  PROVE  v \div (b * x) = (v \div x) \div b
<1> DEFINE u == v \div x
           r == v % x
           q == u \div b
           t == u % b
<1>1. u \in Nat /\ r \in Nat /\ r < x /\ v = (u * x) + r
  BY Remainder
<1> HIDE DEF u, r
<1>2. q \in Nat /\ t \in Nat /\ t < b /\ u = (q * b) + t
  BY <1>1, Remainder
<1> HIDE DEF q, t
<1>3. b * x \in Nat /\ b * x > 0
  OBVIOUS
<1>4. v = (q * (b * x)) + ((t * x) + r)
  <2>1. u * x = ((q * b) + t) * x
    BY <1>2
  <2>2. ((q * b) + t) * x = ((q * b) * x) + (t * x)
    BY <1>2
  <2>3. (q * b) * x = q * (b * x)
    BY <1>2
  <2>4. (q * b) * x \in Nat /\ t * x \in Nat /\ u * x \in Nat
    BY <1>1, <1>2
  <2> QED
    BY <1>1, <2>1, <2>2, <2>3, <2>4
<1>5. (t * x) + r \in Nat /\ (t * x) + r < b * x
  <2>1. t + 1 <= b
    BY <1>2
  <2>2. (t + 1) * x <= b * x
    BY <1>2, <2>1
  <2>3. (t + 1) * x = (t * x) + x /\ t * x \in Nat
    BY <1>2
  <2> QED
    BY <1>1, <1>3, <2>2, <2>3
<1>6. v \div (b * x) = q
  <2> DEFINE m == b * x
             w == (t * x) + r
  <2>1. m \in Nat /\ m > 0 /\ w \in Nat /\ w < m /\ v = (q * m) + w
    BY <1>3, <1>4, <1>5
  <2> HIDE DEF m, w
  <2>2. v \div m = q
    BY <1>2, <2>1, QuotientUnique
  <2> QED
    BY <2>2 DEF m
<1> QED
  BY <1>6 DEF q, u

(* What is below a power is 0 when divided by it. *)
LEMMA BelowPower ==
  ASSUME NEW v \in Nat, NEW m \in Nat, v < m
  PROVE  v \div m = 0 /\ v % m = v
  OBVIOUS

(* A byte shifts a number up. *)
LEMMA PowersPositive ==
  \A i \in 0..8 : Power[i] \in Nat /\ Power[i] > 0
<1>1. \A x \in Nat : x > 0 => Base * x \in Nat /\ Base * x > 0
  BY BytesHaveValues
<1> DEFINE S == {n \in Nat : n <= 8 => Power[n] \in Nat /\ Power[n] > 0}
<1>2. 0 \in S
  BY Powers
<1>3. \A n \in Nat : n \in S => n + 1 \in S
  <2> SUFFICES ASSUME NEW n \in Nat, n \in S, n + 1 <= 8 PROVE Power[n + 1] \in Nat /\ Power[n + 1] > 0
    OBVIOUS
  <2>1. n + 1 \in 1..8 /\ (n + 1) - 1 = n /\ Power[n] \in Nat /\ Power[n] > 0
    OBVIOUS
  <2>2. Power[n + 1] = Base * Power[n]
    BY <2>1, Powers
  <2> QED
    BY <1>1, <2>1, <2>2
<1>4. Nat \subseteq S
  <2> HIDE DEF S
  <2> QED
    BY <1>2, <1>3, Induction
<1> QED
  BY <1>4

(* The eight bytes of an index below half of what four bytes hold give the index. *)
LEMMA IndexDecodes ==
  ASSUME NEW n \in Nat, 2 * n < Power[4], NEW y, \A i \in 1..8 : y[i] = encode_int64(n)[i]
  PROVE  FromBytes(y) = n
<1> DEFINE b == Base
           q1 == n \div Power[1]
           q2 == n \div Power[2]
           q3 == n \div Power[3]
<1>1. b \in Nat /\ b > 0
  BY BytesHaveValues
<1>2. /\ Power[0] = 1 /\ Power[1] = b * Power[0] /\ Power[2] = b * Power[1]
      /\ Power[3] = b * Power[2] /\ Power[4] = b * Power[3] /\ Power[5] = b * Power[4]
      /\ Power[6] = b * Power[5] /\ Power[7] = b * Power[6]
  BY Powers
<1>3. \A i \in 0..7 : Power[i] \in Nat /\ Power[i] > 0
  BY PowersPositive
<1>4. /\ Power[1] \in Nat /\ Power[2] \in Nat /\ Power[3] \in Nat /\ Power[4] \in Nat
      /\ Power[5] \in Nat /\ Power[6] \in Nat /\ Power[7] \in Nat
      /\ Power[1] > 0 /\ Power[2] > 0 /\ Power[3] > 0 /\ Power[4] > 0
  BY <1>3
<1>5. \A x \in Nat : b * x >= x
  BY <1>1
<1>6. n < Power[4] /\ n < Power[5] /\ n < Power[6] /\ n < Power[7]
  <2>1. n < Power[4]
    BY <1>4
  <2>2. n < Power[5]
    BY <1>2, <1>4, <1>5, <2>1
  <2>3. n < Power[6]
    BY <1>2, <1>4, <1>5, <2>2
  <2>4. n < Power[7]
    BY <1>2, <1>4, <1>5, <2>3
  <2> QED
    BY <2>1, <2>2, <2>3, <2>4
<1>7. \A i \in 1..8 : y[i] = (n \div Power[i - 1]) % b
  BY DEF encode_int64
<1>8. y[5] = 0 /\ y[6] = 0 /\ y[7] = 0 /\ y[8] = 0
  <2>1. 0 % b = 0
    BY <1>1
  <2>2. n \div Power[4] = 0 /\ n \div Power[5] = 0 /\ n \div Power[6] = 0 /\ n \div Power[7] = 0
    BY <1>4, <1>6, BelowPower
  <2>3. /\ y[5] = (n \div Power[4]) % b /\ y[6] = (n \div Power[5]) % b
        /\ y[7] = (n \div Power[6]) % b /\ y[8] = (n \div Power[7]) % b
    BY <1>7
  <2> QED
    BY <2>1, <2>2, <2>3
<1>9. q1 \in Nat /\ q2 \in Nat /\ q3 \in Nat
  BY <1>4, Remainder
<1>10. y[1] = n % b /\ y[2] = q1 % b /\ y[3] = q2 % b /\ y[4] = q3 % b
  <2>1. n \div 1 = n
    OBVIOUS
  <2>2. /\ y[1] = (n \div Power[0]) % b /\ y[2] = (n \div Power[1]) % b
        /\ y[3] = (n \div Power[2]) % b /\ y[4] = (n \div Power[3]) % b
    BY <1>7
  <2> QED
    BY <1>2, <2>1, <2>2
<1>11. q1 = n \div b /\ q2 = q1 \div b /\ q3 = q2 \div b
  <2>1. q1 = n \div b
    BY <1>1, <1>2
  <2>2. n \div (b * Power[1]) = (n \div Power[1]) \div b
    BY <1>1, <1>4, NextDigit
  <2>3. n \div (b * Power[2]) = (n \div Power[2]) \div b
    BY <1>1, <1>4, NextDigit
  <2>4. q2 = q1 \div b /\ q3 = q2 \div b
    BY <1>2, <2>2, <2>3, Zenon
  <2> QED
    BY <2>1, <2>4
<1>12. q3 < b
  <2>1. n \div (b * Power[3]) = q3 \div b
    BY <1>1, <1>4, NextDigit
  <2>2. q3 \div b = 0
    BY <1>2, <1>4, <1>6, <2>1, BelowPower
  <2> HIDE DEF q3
  <2>3. q3 % b \in Nat /\ q3 % b < b /\ q3 = ((q3 \div b) * b) + (q3 % b)
    BY <1>1, <1>9, Remainder
  <2>4. q3 = (0 * b) + (q3 % b)
    BY <2>2, <2>3
  <2>5. 0 * b = 0
    BY <1>1
  <2>6. q3 = q3 % b
    BY <2>3, <2>4, <2>5
  <2> QED
    BY <2>3, <2>6
<1> HIDE DEF q1, q2, q3, b
<1>13. y[4] = q3
  BY <1>1, <1>9, <1>10, <1>12, BelowPower
<1>14. n = (q1 * b) + y[1] /\ q1 = (q2 * b) + y[2] /\ q2 = (q3 * b) + y[3]
  BY <1>1, <1>9, <1>10, <1>11, Remainder
<1>15. y[1] \in Nat /\ y[2] \in Nat /\ y[3] \in Nat
  BY <1>1, <1>9, <1>10, Remainder
<1>16. n = ((q3 * Power[3]) + (y[3] * Power[2])) + ((y[2] * Power[1]) + y[1])
  <2>1. Power[1] = b /\ Power[2] = b * b /\ Power[3] = b * (b * b)
    BY <1>1, <1>2
  <2>2. q1 * b = ((q2 * b) * b) + (y[2] * b)
    BY <1>1, <1>9, <1>14, <1>15
  <2>3. (q2 * b) * b = ((q3 * b) * b) * b + ((y[3] * b) * b)
    BY <1>1, <1>9, <1>14, <1>15
  <2>4. ((q3 * b) * b) * b = q3 * (b * (b * b)) /\ (y[3] * b) * b = y[3] * (b * b)
    BY <1>1, <1>9, <1>15
  <2>5. /\ q3 * (b * (b * b)) \in Nat /\ y[3] * (b * b) \in Nat /\ y[2] * b \in Nat
        /\ q1 * b \in Nat /\ (q2 * b) * b \in Nat
    BY <1>1, <1>9, <1>15
  <2> QED
    BY <1>14, <1>15, <2>1, <2>2, <2>3, <2>4, <2>5
<1>17. /\ q3 * Power[3] \in Nat /\ y[3] * Power[2] \in Nat /\ y[2] * Power[1] \in Nat
  BY <1>4, <1>9, <1>15
<1>18. q3 * Power[3] <= n
  BY <1>15, <1>16, <1>17
<1>19. ShiftLeft3(y[4]) = q3 * Power[3]
  <2> DEFINE s == q3 * Power[3]
             t == Power[4]
  <2>1. s \in Nat /\ t \in Nat /\ 2 * s < t
    BY <1>4, <1>17, <1>18
  <2>2. Signed(s) = s
    <3> HIDE DEF s
    <3>1. s % t = s
      BY <2>1, BelowPower
    <3>2. s % Power[4] = s /\ ~ (2 * s >= Power[4])
      BY <2>1, <3>1
    <3> QED
      BY <3>2 DEF Signed
  <2> QED
    BY <1>13, <2>2 DEF ShiftLeft3
<1>20. FromBytes(y) = 0 + 0 + 0 + 0 + (q3 * Power[3]) + (y[3] * Power[2]) + (y[2] * Power[1]) + y[1]
  BY <1>4, <1>8, <1>15, <1>17, <1>19 DEF FromBytes
<1> QED
  BY <1>15, <1>16, <1>17, <1>20

-----------------------------------------------------------------------------
(* Paths on the wire *)

(* Two sequences in a row. *)
LEMMA Joined ==
  ASSUME NEW S, NEW s \in Seq(S), NEW t \in Seq(S)
  PROVE  /\ s \o t \in Seq(S) /\ Len(s \o t) = Len(s) + Len(t)
         /\ \A i \in 1..Len(s) : (s \o t)[i] = s[i]
         /\ \A i \in 1..Len(t) : (s \o t)[Len(s) + i] = t[i]
<1>1. Len(s) \in Nat /\ Len(t) \in Nat
  BY LenProperties
<1>2. /\ s \o t \in Seq(S) /\ Len(s \o t) = Len(s) + Len(t)
      /\ \A i \in 1..(Len(s) + Len(t)) : (s \o t)[i] = IF i <= Len(s) THEN s[i] ELSE t[i - Len(s)]
  BY ConcatProperties
<1>3. \A i \in 1..Len(s) : (s \o t)[i] = s[i]
  BY <1>1, <1>2
<1>4. ASSUME NEW i \in 1..Len(t) PROVE (s \o t)[Len(s) + i] = t[i]
  <2>1. Len(s) + i \in 1..(Len(s) + Len(t)) /\ ~ (Len(s) + i <= Len(s)) /\ (Len(s) + i) - Len(s) = i
    BY <1>1
  <2> QED
    BY <1>2, <2>1
<1> QED
  BY <1>2, <1>3, <1>4

(* The bytes of a key. *)
LEMMA IndexBytes ==
  ASSUME NEW key \in Index
  PROVE  /\ key[1] = "int" /\ key[2] \in Nat /\ 2 * key[2] < Power[4] /\ key = <<"int", key[2]>>
         /\ encode_key(key) \in Seq(Nat) /\ Len(encode_key(key)) = 9
         /\ encode_key(key)[1] = PATH_SENTINEL
         /\ \A i \in 1..8 : encode_key(key)[i + 1] = encode_int64(key[2])[9 - i]
<1>1. key[1] = "int" /\ key[2] \in Nat /\ 2 * key[2] < Power[4] /\ key = <<"int", key[2]>>
  BY DEF Index
<1> DEFINE v == key[2]
           bytes == encode_int64_big_endian(v)
<1>2. \A i \in 1..8 : encode_int64(v)[i] \in Nat
  <2> SUFFICES ASSUME NEW i \in 1..8 PROVE (v \div Power[i - 1]) % Base \in Nat
    BY DEF encode_int64
  <2>1. Power[i - 1] \in Nat /\ Power[i - 1] > 0
    BY PowersPositive
  <2> QED
    BY <1>1, <2>1, Remainder, BytesHaveValues
<1>3. bytes \in Seq(Nat) /\ Len(bytes) = 8 /\ \A i \in 1..8 : bytes[i] = encode_int64(v)[9 - i]
  <2>1. bytes = [i \in 1..8 |-> encode_int64(v)[9 - i]]
    BY DEF encode_int64_big_endian
  <2>2. \A i \in 1..8 : encode_int64(v)[9 - i] \in Nat
    BY <1>2
  <2> HIDE DEF bytes
  <2> QED
    BY <2>1, <2>2
<1>4. PATH_SENTINEL \in Nat
  BY BytesHaveValues DEF PATH_SENTINEL
<1>5. encode_key(key) = <<PATH_SENTINEL>> \o bytes
  BY <1>1 DEF encode_key
<1> HIDE DEF bytes, v
<1>6. <<PATH_SENTINEL>> \in Seq(Nat) /\ Len(<<PATH_SENTINEL>>) = 1 /\ <<PATH_SENTINEL>>[1] = PATH_SENTINEL
  BY <1>4
<1>7. /\ <<PATH_SENTINEL>> \o bytes \in Seq(Nat) /\ Len(<<PATH_SENTINEL>> \o bytes) = 9
      /\ (<<PATH_SENTINEL>> \o bytes)[1] = PATH_SENTINEL
      /\ \A i \in 1..8 : (<<PATH_SENTINEL>> \o bytes)[i + 1] = bytes[i]
  <2> DEFINE first == <<PATH_SENTINEL>>
  <2>1. first \in Seq(Nat) /\ Len(first) = 1 /\ first[1] = PATH_SENTINEL
    BY <1>6
  <2> HIDE DEF first
  <2>2. /\ first \o bytes \in Seq(Nat) /\ Len(first \o bytes) = Len(first) + Len(bytes)
        /\ \A i \in 1..Len(first) : (first \o bytes)[i] = first[i]
        /\ \A i \in 1..Len(bytes) : (first \o bytes)[Len(first) + i] = bytes[i]
    <3>1. first \in Seq(Nat) /\ bytes \in Seq(Nat)
      BY <1>3, <2>1
    <3> QED
      BY <3>1, SMT
  <2>3. /\ first \o bytes \in Seq(Nat) /\ Len(first \o bytes) = 9
        /\ (first \o bytes)[1] = PATH_SENTINEL
        /\ \A i \in 1..8 : (first \o bytes)[i + 1] = bytes[i]
    <3>1. first \o bytes \in Seq(Nat) /\ Len(first \o bytes) = 9
      BY <1>3, <2>1, <2>2
    <3>2. (first \o bytes)[1] = PATH_SENTINEL
      BY <2>1, <2>2
    <3>3. ASSUME NEW i \in 1..8 PROVE (first \o bytes)[i + 1] = bytes[i]
      <4>1. (first \o bytes)[1 + i] = bytes[i]
        BY <1>3, <2>1, <2>2
      <4>2. 1 + i = i + 1
        OBVIOUS
      <4> QED
        BY <4>1, <4>2, Zenon
    <3> QED
      BY <2>2, <3>1, <3>2, <3>3
  <2> QED
    BY <2>3 DEF first
<1> QED
  BY <1>1, <1>3, <1>5, <1>7 DEF v

(* A name is written as it is. *)
LEMMA NameBytes ==
  ASSUME NEW key \in Name
  PROVE  /\ key[1] = "str" /\ key = <<"str", key[2]>>
         /\ encode_key(key) = key[2] /\ key[2] \in Seq(Nat) /\ Len(key[2]) > 0
         /\ \A i \in 1..Len(key[2]) : key[2][i] # PATH_SENTINEL
<1>1. key[1] = "str" /\ key = <<"str", key[2]>> /\ key[2] \in Seq(0..(Base - 3)) /\ key[2] # <<>>
  BY DEF Name
<1>2. encode_key(key) = key[2]
  BY <1>1 DEF encode_key
<1>3. \A i \in 1..Len(key[2]) : key[2][i] \in 0..(Base - 3)
  BY <1>1, ElementOfSeq
<1>4. \A x \in 0..(Base - 3) : x \in Nat /\ x # PATH_SENTINEL
  BY BytesHaveValues DEF PATH_SENTINEL
<1>5. key[2] \in Seq(Nat) /\ Len(key[2]) > 0
  <2>1. 0..(Base - 3) \subseteq Nat
    BY <1>4
  <2>2. key[2] \in Seq(Nat)
    BY <1>1, <2>1, SeqMonotonic
  <2> QED
    BY <1>1, <2>2, EmptySeq
<1> QED
  BY <1>1, <1>2, <1>3, <1>4, <1>5

(* Every key takes bytes. *)
LEMMA KeyBytes ==
  ASSUME NEW key \in Key
  PROVE  encode_key(key) \in Seq(Nat) /\ Len(encode_key(key)) > 0
<1>1. CASE key \in Index
  BY <1>1, IndexBytes
<1>2. CASE key \in Name
  BY <1>2, NameBytes
<1> QED
  BY <1>1, <1>2 DEF Key

(* encode_path goes from key to key. *)
LEMMA EncodedStepwise ==
  ASSUME NEW p \in Seq(Key)
  PROVE  /\ EncodedUpTo(p)[0] = <<>>
         /\ \A i \in 1..Len(p) :
              EncodedUpTo(p)[i] = EncodedUpTo(p)[i - 1] \o encode_key(p[i]) \o <<PATH_SENTINEL>>
         /\ \A i \in 0..Len(p) : EncodedUpTo(p)[i] \in Seq(Nat)
<1> DEFINE L == Len(p)
           after(i, s) == s \o encode_key(p[i]) \o <<PATH_SENTINEL>>
           g == [x \in (1..L) \X Seq(Nat) |-> after(x[1], x[2])]
<1>1. \A i \in 1..L : \A s \in Seq(Nat) : after(i, s) \in Seq(Nat)
  <2> SUFFICES ASSUME NEW i \in 1..L, NEW s \in Seq(Nat) PROVE after(i, s) \in Seq(Nat)
    OBVIOUS
  <2>1. encode_key(p[i]) \in Seq(Nat)
    BY KeyBytes
  <2>2. <<PATH_SENTINEL>> \in Seq(Nat)
    BY BytesHaveValues DEF PATH_SENTINEL
  <2> QED
    BY <2>1, <2>2
<1> HIDE DEF after
<1>2. g \in [(1..L) \X Seq(Nat) -> Seq(Nat)]
  BY <1>1
<1>3. L \in Nat /\ <<>> \in Seq(Nat)
  OBVIOUS
<1>4. PICK f : Unrolls(f, L, Seq(Nat), <<>>, g)
  <2> HIDE DEF g, L
  <2> QED
    BY <1>2, <1>3, Recursion, Zenon
<1>5. f \in [0..L -> Seq(Nat)] /\ f[0] = <<>> /\ \A i \in 1..L : f[i] = after(i, f[i - 1])
  <2> HIDE DEF L
  <2>1. f \in [0..L -> Seq(Nat)] /\ f[0] = <<>> /\ \A i \in 1..L : f[i] = g[<<i, f[i - 1]>>]
    BY <1>4, Zenon DEF Unrolls
  <2>2. \A i \in 1..L : f[i - 1] \in Seq(Nat)
    BY <1>3, <2>1
  <2>3. \A i \in 1..L : g[<<i, f[i - 1]>>] = after(i, f[i - 1])
    BY <2>2
  <2> QED
    BY <2>1, <2>3
<1>6. f = [i \in 0..L |-> IF i = 0 THEN <<>> ELSE after(i, f[i - 1])]
  <2> HIDE DEF L
  <2>1. \A i \in 0..L : i = 0 \/ i \in 1..L
    BY <1>3
  <2>2. \A i \in 0..L : f[i] = IF i = 0 THEN <<>> ELSE after(i, f[i - 1])
    BY <1>5, <2>1
  <2> QED
    BY <1>5, <2>2
<1> DEFINE e == EncodedUpTo(p)
<1>7. e = [i \in 0..L |-> IF i = 0 THEN <<>> ELSE after(i, e[i - 1])]
  BY <1>6, Zenon DEF EncodedUpTo, after
<1> HIDE DEF e
<1>8. e[0] = <<>> /\ \A i \in 1..L : e[i] = after(i, e[i - 1])
  <2> HIDE DEF L
  <2>1. 0 \in 0..L /\ \A i \in 1..L : i \in 0..L /\ i # 0
    BY <1>3
  <2> QED
    BY <1>7, <2>1
<1>9. \A i \in 0..L : e[i] \in Seq(Nat)
  <2> HIDE DEF L
  <2> DEFINE S == {n \in Nat : n <= L => e[n] \in Seq(Nat)}
  <2>1. 0 \in S
    BY <1>3, <1>8
  <2>2. \A n \in Nat : n \in S => n + 1 \in S
    <3> SUFFICES ASSUME NEW n \in Nat, n \in S, n + 1 <= L PROVE e[n + 1] \in Seq(Nat)
      OBVIOUS
    <3>1. n + 1 \in 1..L /\ (n + 1) - 1 = n /\ e[n] \in Seq(Nat)
      BY <1>3
    <3>2. e[n + 1] = after(n + 1, e[n])
      BY <1>8, <3>1
    <3> QED
      BY <1>1, <3>1, <3>2
  <2>3. Nat \subseteq S
    <3> HIDE DEF S
    <3> QED
      BY <2>1, <2>2, Induction
  <2> QED
    BY <1>3, <2>3
<1> QED
  BY <1>8, <1>9 DEF e, after

(* The bytes of the keys so far stay where they are. *)
LEMMA EncodedGrows ==
  ASSUME NEW p \in Seq(Key), NEW i \in 0..Len(p), NEW j \in 0..Len(p), i <= j
  PROVE  /\ Len(EncodedUpTo(p)[i]) <= Len(EncodedUpTo(p)[j])
         /\ \A k \in 1..Len(EncodedUpTo(p)[i]) : EncodedUpTo(p)[j][k] = EncodedUpTo(p)[i][k]
<1> DEFINE e == EncodedUpTo(p)
           L == Len(p)
           S == {n \in Nat : i <= n /\ n <= L => /\ Len(e[i]) <= Len(e[n])
                                                 /\ \A k \in 1..Len(e[i]) : e[n][k] = e[i][k]}
<1>1. L \in Nat /\ i \in Nat /\ j \in Nat /\ \A n \in 0..L : e[n] \in Seq(Nat)
  <2>1. L \in Nat /\ i \in Nat /\ j \in Nat
    OBVIOUS
  <2>2. \A n \in 0..L : e[n] \in Seq(Nat)
    BY EncodedStepwise
  <2> QED
    BY <2>1, <2>2
<1>2. \A n \in 1..L : e[n] = e[n - 1] \o encode_key(p[n]) \o <<PATH_SENTINEL>>
  BY EncodedStepwise
<1>3. \A n \in 1..L : encode_key(p[n]) \in Seq(Nat)
  BY KeyBytes
<1> HIDE DEF e
<1>4. 0 \in S
  BY <1>1
<1>5. \A n \in Nat : n \in S => n + 1 \in S
  <2> SUFFICES ASSUME NEW n \in Nat, n \in S, i <= n + 1, n + 1 <= L
               PROVE  /\ Len(e[i]) <= Len(e[n + 1])
                      /\ \A k \in 1..Len(e[i]) : e[n + 1][k] = e[i][k]
    OBVIOUS
  <2>1. CASE i = n + 1
    BY <1>1, <2>1
  <2>2. CASE i # n + 1
    <3> DEFINE a == e[n]
               b == encode_key(p[n + 1])
    <3>1. n \in 0..L /\ n + 1 \in 1..L /\ (n + 1) - 1 = n /\ i <= n
      BY <1>1, <2>2
    <3>2. Len(e[i]) <= Len(a) /\ \A k \in 1..Len(e[i]) : a[k] = e[i][k]
      BY <1>1, <3>1
    <3>3. e[n + 1] = a \o b \o <<PATH_SENTINEL>> /\ a \in Seq(Nat) /\ b \in Seq(Nat) /\ e[i] \in Seq(Nat)
      BY <1>1, <1>2, <1>3, <3>1
    <3> HIDE DEF a, b
    <3>4. <<PATH_SENTINEL>> \in Seq(Nat)
      BY BytesHaveValues DEF PATH_SENTINEL
    <3>5. Len(a) <= Len(e[n + 1]) /\ \A k \in 1..Len(a) : e[n + 1][k] = a[k]
      BY <3>3, <3>4
    <3> QED
      BY <3>2, <3>3, <3>5
  <2> QED
    BY <2>1, <2>2
<1>6. j \in S
  <2> HIDE DEF S
  <2> QED
    BY <1>1, <1>4, <1>5, Induction
<1> QED
  BY <1>1, <1>6 DEF e

(* Where the bytes of a key are in an encoded path. *)
LEMMA KeyInBuffer ==
  ASSUME NEW p \in Seq(Key), NEW i \in 1..Len(p)
  PROVE  LET e == EncodedUpTo(p)
             bytes == encode_key(p[i])
             buffer == encode_path(p)
         IN /\ buffer \in Seq(Nat) /\ Len(e[i - 1]) \in Nat /\ bytes \in Seq(Nat)
            /\ Len(e[i]) = Len(e[i - 1]) + Len(bytes) + 1 /\ Len(e[i]) <= Len(buffer)
            /\ \A k \in 1..Len(bytes) : buffer[Len(e[i - 1]) + k] = bytes[k]
            /\ buffer[Len(e[i - 1]) + Len(bytes) + 1] = PATH_SENTINEL
<1> DEFINE e == EncodedUpTo(p)
           bytes == encode_key(p[i])
           buffer == encode_path(p)
           L == Len(p)
<1>1. L \in Nat /\ i \in 1..L /\ i \in 0..L /\ i - 1 \in 0..L /\ L \in 0..L /\ i <= L
  OBVIOUS
<1>2. bytes \in Seq(Nat)
  BY KeyBytes
<1>3. /\ \A n \in 0..L : e[n] \in Seq(Nat)
      /\ e[i] = e[i - 1] \o bytes \o <<PATH_SENTINEL>>
  BY EncodedStepwise
<1>4. buffer = e[L]
  BY DEF encode_path
<1>5. Len(e[i]) <= Len(buffer) /\ \A k \in 1..Len(e[i]) : buffer[k] = e[i][k]
  BY <1>1, <1>4, EncodedGrows
<1> HIDE DEF e, bytes, buffer, L
<1> DEFINE before == e[i - 1]
           upTo == e[i]
<1>6. before \in Seq(Nat) /\ upTo \in Seq(Nat) /\ buffer \in Seq(Nat)
  BY <1>1, <1>3, <1>4
<1>7. upTo = before \o bytes \o <<PATH_SENTINEL>> /\ Len(upTo) <= Len(buffer)
      /\ \A k \in 1..Len(upTo) : buffer[k] = upTo[k]
  BY <1>3, <1>5
<1> HIDE DEF before, upTo
<1>8. PATH_SENTINEL \in Nat
  BY BytesHaveValues DEF PATH_SENTINEL
<1> HIDE DEF PATH_SENTINEL
<1>9. Len(upTo) = Len(before) + Len(bytes) + 1
  BY <1>2, <1>6, <1>7, <1>8
<1>10. /\ \A k \in 1..Len(bytes) : upTo[Len(before) + k] = bytes[k]
       /\ upTo[Len(before) + Len(bytes) + 1] = PATH_SENTINEL
  BY <1>2, <1>6, <1>7, <1>8
<1>11. Len(before) \in Nat /\ Len(bytes) \in Nat
  BY <1>2, <1>6
<1>12. \A k \in 1..Len(bytes) : buffer[Len(before) + k] = bytes[k]
  BY <1>7, <1>9, <1>10, <1>11
<1>13. buffer[Len(before) + Len(bytes) + 1] = PATH_SENTINEL
  BY <1>7, <1>9, <1>10, <1>11
<1> QED
  BY <1>2, <1>6, <1>7, <1>9, <1>11, <1>12, <1>13 DEF e, bytes, buffer, before, upTo

(* The cursor is at the start of a key: the round reads that key. *)
LEMMA RoundReadsKey ==
  ASSUME NEW p \in Seq(Key), NEW i \in 1..Len(p), NEW keys
  PROVE  LET c == Len(EncodedUpTo(p)[i - 1]) + 1
         IN /\ c <= Len(encode_path(p))
            /\ SplitRound(encode_path(p), [cursor |-> c, path |-> keys])
                 = [cursor |-> Len(EncodedUpTo(p)[i]) + 1, path |-> Append(keys, p[i])]
<1> DEFINE bytes == encode_key(p[i])
           buffer == encode_path(p)
           before == Len(EncodedUpTo(p)[i - 1])
           upTo == Len(EncodedUpTo(p)[i])
           c == before + 1
           s == [cursor |-> c, path |-> keys]
<1>1. /\ buffer \in Seq(Nat) /\ before \in Nat /\ bytes \in Seq(Nat)
      /\ upTo = before + Len(bytes) + 1 /\ upTo <= Len(buffer)
      /\ \A k \in 1..Len(bytes) : buffer[before + k] = bytes[k]
      /\ buffer[before + Len(bytes) + 1] = PATH_SENTINEL
  BY KeyInBuffer
<1>2. p[i] \in Key /\ bytes \in Seq(Nat) /\ Len(bytes) > 0 /\ Len(bytes) \in Nat
  <2>1. p[i] \in Key
    BY ElementOfSeq
  <2> QED
    BY <2>1, KeyBytes, LenProperties
<1>3. s.cursor = c /\ s.path = keys
  OBVIOUS
<1> HIDE DEF buffer, before, upTo, s
<1>4. CASE p[i] \in Index
  <2> DEFINE v == p[i][2]
             x == [k \in 1..8 |-> buffer[c + k]]
             y == [k \in 1..8 |-> x[9 - k]]
  <2>1. /\ v \in Nat /\ 2 * v < Power[4] /\ p[i] = <<"int", v>> /\ Len(bytes) = 9
        /\ bytes[1] = PATH_SENTINEL /\ \A k \in 1..8 : bytes[k + 1] = encode_int64(v)[9 - k]
    BY <1>4, IndexBytes
  <2> HIDE DEF v, bytes
  <2>2. buffer[c] = PATH_SENTINEL
    BY <1>1, <2>1
  <2>3. \A k \in 1..8 : x[k] = encode_int64(v)[9 - k]
    <3> SUFFICES ASSUME NEW k \in 1..8 PROVE buffer[c + k] = encode_int64(v)[9 - k]
      OBVIOUS
    <3>1. k + 1 \in 1..Len(bytes)
      BY <2>1
    <3>2. buffer[before + (k + 1)] = bytes[k + 1]
      BY <1>1, <3>1
    <3>3. c + k = before + (k + 1)
      BY <1>1
    <3> QED
      BY <2>1, <3>2, <3>3
  <2>4. \A k \in 1..8 : y[k] = encode_int64(v)[k]
    <3> SUFFICES ASSUME NEW k \in 1..8 PROVE x[9 - k] = encode_int64(v)[k]
      OBVIOUS
    <3>1. 9 - k \in 1..8 /\ 9 - (9 - k) = k
      OBVIOUS
    <3> HIDE DEF x
    <3> QED
      BY <2>3, <3>1
  <2>5. decode_q_be(x) = v
    <3> HIDE DEF x
    <3>1. FromBytes(y) = v
      <4> HIDE DEF y
      <4> QED
        BY <2>1, <2>4, IndexDecodes
    <3> QED
      BY <3>1 DEF decode_q_be
  <2>6. SplitRound(buffer, s) = [cursor |-> c + 10, path |-> Append(keys, <<"int", v>>)]
    <3>1. SplitRound(buffer, s) = [cursor |-> s.cursor + 10,
                                   path |-> Append(s.path, <<"int", decode_q_be([k \in 1..8 |-> buffer[s.cursor + k]])>>)]
      BY <1>3, <2>2 DEF SplitRound
    <3> QED
      BY <1>3, <2>5, <3>1
  <2>7. c + 10 = upTo + 1 /\ c <= Len(buffer)
    BY <1>1, <2>1
  <2> QED
    BY <2>1, <2>6, <2>7 DEF s, buffer, before, upTo
<1>5. CASE p[i] \in Name
  <2>1. p[i] = <<"str", bytes>> /\ \A k \in 1..Len(bytes) : bytes[k] # PATH_SENTINEL
    BY <1>5, NameBytes
  <2> HIDE DEF bytes
  <2> DEFINE end == before + Len(bytes) + 1
  <2>2. \A k \in c..(end - 1) : buffer[k] # PATH_SENTINEL
    <3> SUFFICES ASSUME NEW k \in c..(end - 1) PROVE buffer[k] # PATH_SENTINEL
      OBVIOUS
    <3>1. k - before \in 1..Len(bytes) /\ before + (k - before) = k
      BY <1>1, <1>2
    <3>2. buffer[k] = bytes[k - before]
      BY <1>1, <3>1
    <3> QED
      BY <2>1, <3>1, <3>2
  <2>3. buffer[end] = PATH_SENTINEL /\ c \in Nat /\ end \in Nat /\ c < end /\ end <= Len(buffer) /\ Len(buffer) \in Nat
    BY <1>1, <1>2
  <2> DEFINE here == SentinelAfter(buffer, c)
             IsEnd(n) == buffer[n] = PATH_SENTINEL /\ \A k \in c..(n - 1) : buffer[k] # PATH_SENTINEL
  <2>4. here \in c..Len(buffer) /\ IsEnd(here)
    <3>1. end \in c..Len(buffer) /\ IsEnd(end)
      <4> HIDE DEF end
      <4> QED
        BY <2>2, <2>3
    <3>2. \E n \in c..Len(buffer) : IsEnd(n)
      BY <3>1
    <3> QED
      BY <3>2, Zenon DEF SentinelAfter
  <2> HIDE DEF here, end
  <2>5. here = end
    <3>1. ~ (here < end)
      BY <2>2, <2>3, <2>4
    <3>2. ~ (end < here)
      BY <2>3, <2>4
    <3> QED
      BY <2>3, <2>4, <3>1, <3>2
  <2>6. SubSeq(buffer, c, end - 1) = bytes
    <3> DEFINE name == SubSeq(buffer, c, end - 1)
    <3>1. \A k \in c..(end - 1) : buffer[k] \in Nat
      BY <1>1, <2>3
    <3>2. c \in Int /\ end - 1 \in Int /\ c <= end - 1
      BY <2>3
    <3>3. /\ name \in Seq(Nat) /\ Len(name) = (end - 1) - c + 1
          /\ \A k \in 1..((end - 1) - c + 1) : name[k] = buffer[c + k - 1]
      BY <3>1, <3>2, SubSeqProperties
    <3> HIDE DEF name
    <3>4. (end - 1) - c + 1 = Len(bytes)
      BY <1>1, <1>2 DEF end
    <3>5. \A k \in 1..Len(bytes) : name[k] = bytes[k]
      <4> SUFFICES ASSUME NEW k \in 1..Len(bytes) PROVE name[k] = bytes[k]
        OBVIOUS
      <4>1. c + k - 1 = before + k
        BY <1>1
      <4>2. name[k] = buffer[c + k - 1] /\ buffer[before + k] = bytes[k]
        BY <1>1, <3>3, <3>4
      <4> QED
        BY <4>1, <4>2
    <3>6. name = bytes
      BY <1>2, <3>3, <3>4, <3>5, SeqEqual
    <3> QED
      BY <3>6 DEF name
  <2>7. buffer[c] # PATH_SENTINEL
    BY <2>2, <2>3
  <2>8. SplitRound(buffer, s) = [cursor |-> end + 1, path |-> Append(keys, <<"str", bytes>>)]
    <3>1. SplitRound(buffer, s) = [cursor |-> SentinelAfter(buffer, s.cursor) + 1,
                                   path |-> Append(s.path, <<"str", SubSeq(buffer, s.cursor, SentinelAfter(buffer, s.cursor) - 1)>>)]
      BY <1>3, <2>7 DEF SplitRound
    <3> QED
      BY <1>3, <2>5, <2>6, <3>1 DEF here
  <2>9. end = upTo /\ c <= Len(buffer)
    BY <1>1, <2>3 DEF end
  <2> QED
    BY <2>1, <2>8, <2>9 DEF s, buffer, before, upTo
<1> QED
  BY <1>2, <1>4, <1>5 DEF Key

(* A path of n keys has at least n bytes. *)
LEMMA KeysTakeBytes ==
  ASSUME NEW p \in Seq(Key)
  PROVE  \A i \in 0..Len(p) : Len(EncodedUpTo(p)[i]) \in Nat /\ Len(EncodedUpTo(p)[i]) >= i
<1> DEFINE e == EncodedUpTo(p)
           L == Len(p)
           S == {n \in Nat : n <= L => Len(e[n]) \in Nat /\ Len(e[n]) >= n}
<1>1. L \in Nat
  OBVIOUS
<1>2. 0 \in S
  <2>1. e[0] = <<>>
    BY EncodedStepwise
  <2> QED
    BY <2>1
<1>3. \A n \in Nat : n \in S => n + 1 \in S
  <2> SUFFICES ASSUME NEW n \in Nat, n \in S, n + 1 <= L
               PROVE  Len(e[n + 1]) \in Nat /\ Len(e[n + 1]) >= n + 1
    OBVIOUS
  <2> DEFINE i == n + 1
  <2>1. i \in 1..L /\ i - 1 = n
    BY <1>1
  <2> HIDE DEF i
  <2>2. /\ Len(e[i - 1]) \in Nat /\ encode_key(p[i]) \in Seq(Nat)
        /\ Len(e[i]) = Len(e[i - 1]) + Len(encode_key(p[i])) + 1
    BY <2>1, KeyInBuffer
  <2>3. Len(e[n]) >= n
    BY <1>1, <2>1
  <2>4. Len(encode_key(p[i])) \in Nat
    BY <2>2, LenProperties
  <2>5. Len(e[i - 1]) >= n
    BY <2>1, <2>3, Zenon
  <2> DEFINE a == Len(e[i])
             b == Len(e[i - 1])
             k == Len(encode_key(p[i]))
  <2>6. a \in Nat /\ a >= n + 1
    <3>1. b \in Nat /\ k \in Nat /\ a = b + k + 1 /\ b >= n
      BY <2>2, <2>4, <2>5
    <3> HIDE DEF a, b, k
    <3> QED
      BY <3>1
  <2>7. Len(e[n + 1]) = a
    BY DEF i
  <2> HIDE DEF a, b, k, e
  <2> QED
    BY <2>6, <2>7
<1>4. Nat \subseteq S
  <2> HIDE DEF S
  <2> QED
    BY <1>2, <1>3, Induction
<1> QED
  BY <1>1, <1>4

(* Where the loop of splitPath is after n rounds: n keys on, until the path ends. *)
Reads(p, f) ==
  f = [n \in 0..Len(encode_path(p)) |->
         LET i == IF n <= Len(p) THEN n ELSE Len(p)
         IN [cursor |-> Len(EncodedUpTo(p)[i]) + 1, path |-> SubSeq(p, 1, i)]]

(* A round, or nothing behind the end. *)
SplitStep(buffer, s) == IF s.cursor > Len(buffer) THEN s ELSE SplitRound(buffer, s)

(* What is read after n rounds is the loop's value. *)
LEMMA ReadsRound ==
  ASSUME NEW p \in Seq(Key), NEW f, Reads(p, f)
  PROVE  /\ f[0] = [cursor |-> 1, path |-> <<>>]
         /\ \A n \in 1..Len(encode_path(p)) : f[n] = SplitStep(encode_path(p), f[n - 1])
<1> DEFINE buffer == encode_path(p)
           e == EncodedUpTo(p)
           L == Len(p)
           M == Len(buffer)
           at(i) == [cursor |-> Len(e[i]) + 1, path |-> SubSeq(p, 1, i)]
<1>1. L \in Nat /\ buffer = e[L]
  BY DEF encode_path
<1>2. M \in Nat /\ L <= M
  <2>1. L \in 0..L
    BY <1>1
  <2>2. Len(e[L]) \in Nat /\ Len(e[L]) >= L
    BY <2>1, KeysTakeBytes
  <2> QED
    BY <1>1, <2>2
<1>3. f = [n \in 0..M |-> at(IF n <= L THEN n ELSE L)]
  BY DEF Reads
<1> HIDE DEF M, buffer
<1>4. ASSUME NEW i \in 1..L PROVE SplitStep(buffer, at(i - 1)) = at(i)
  <2>1. /\ Len(e[i - 1]) + 1 <= Len(buffer)
        /\ SplitRound(buffer, at(i - 1))
             = [cursor |-> Len(e[i]) + 1, path |-> Append(SubSeq(p, 1, i - 1), p[i])]
    BY RoundReadsKey DEF buffer
  <2>2. Append(SubSeq(p, 1, i - 1), p[i]) = SubSeq(p, 1, i)
    BY <1>1
  <2>3. at(i - 1).cursor = Len(e[i - 1]) + 1
    OBVIOUS
  <2>4. Len(buffer) \in Nat /\ Len(e[i - 1]) \in Nat
    <3>1. i - 1 \in 0..L
      BY <1>1
    <3> QED
      BY <1>2, <3>1, KeysTakeBytes DEF M
  <2>5. ~ (at(i - 1).cursor > Len(buffer))
    <3> HIDE DEF at
    <3> QED
      BY <2>1, <2>3, <2>4
  <2> QED
    BY <2>1, <2>2, <2>5 DEF SplitStep
<1>5. SplitStep(buffer, at(L)) = at(L)
  <2>1. at(L).cursor = Len(buffer) + 1
    BY <1>1
  <2>2. Len(buffer) + 1 > Len(buffer)
    BY <1>2 DEF M
  <2> HIDE DEF at
  <2> QED
    BY <2>1, <2>2 DEF SplitStep
<1>6. f[0] = [cursor |-> 1, path |-> <<>>]
  <2>1. 0 \in 0..M /\ 0 <= L
    BY <1>1, <1>2
  <2>2. f[0] = at(0)
    BY <1>3, <2>1
  <2>3. e[0] = <<>>
    BY EncodedStepwise
  <2>4. SubSeq(p, 1, 0) = <<>>
    BY SubSeqEmpty
  <2>5. Len(e[0]) + 1 = 1
    BY <2>3
  <2> QED
    BY <2>2, <2>4, <2>5
<1> HIDE DEF at
<1>7. ASSUME NEW n \in 1..M PROVE f[n] = SplitStep(buffer, f[n - 1])
  <2>1. n - 1 \in 0..M /\ n \in 0..M
    BY <1>2
  <2>2. CASE n <= L
    <3>1. f[n] = at(n) /\ f[n - 1] = at(n - 1) /\ n \in 1..L
      BY <1>1, <1>2, <1>3, <2>1, <2>2
    <3> QED
      BY <1>4, <3>1
  <2>3. CASE ~ (n <= L)
    <3>1. f[n] = at(L)
      BY <1>3, <2>1, <2>3
    <3>2. f[n - 1] = at(L)
      <4>1. CASE n - 1 = L
        <5>1. n - 1 <= L
          BY <1>1, <4>1
        <5> QED
          BY <1>3, <2>1, <4>1, <5>1
      <4>2. CASE n - 1 # L
        <5>1. ~ (n - 1 <= L)
          BY <1>1, <1>2, <2>3, <4>2
        <5> QED
          BY <1>3, <2>1, <5>1
      <4> QED
        BY <4>1, <4>2
    <3> QED
      BY <1>5, <3>1, <3>2
  <2> QED
    BY <2>2, <2>3
<1> QED
  BY <1>6, <1>7 DEF M, buffer

(* The loop of splitPath, round by round. *)
LEMMA SplitStepwise ==
  ASSUME NEW p \in Seq(Key)
  PROVE  LET u == SplitUpTo(encode_path(p))
         IN /\ u[0] = [cursor |-> 1, path |-> <<>>]
            /\ \A n \in 1..Len(encode_path(p)) : u[n] = SplitStep(encode_path(p), u[n - 1])
<1> DEFINE buffer == encode_path(p)
           M == Len(buffer)
           first == [cursor |-> 1, path |-> <<>>]
           f == CHOOSE f : Reads(p, f)
<1>1. Reads(p, f)
  <2>1. \E g : Reads(p, g)
    BY DEF Reads
  <2> QED
    BY <2>1, Zenon
<1> HIDE DEF f
<1>2. M \in Nat
  <2>1. Len(p) \in 0..Len(p)
    OBVIOUS
  <2> QED
    BY <2>1, KeysTakeBytes DEF encode_path
<1>3. f[0] = first /\ \A n \in 1..M : f[n] = SplitStep(buffer, f[n - 1])
  BY <1>1, ReadsRound
<1>4. f = [n \in 0..M |-> f[n]]
  BY <1>1 DEF Reads
<1> HIDE DEF M, first, buffer
<1>5. f = [n \in 0..M |-> IF n = 0 THEN first ELSE SplitStep(buffer, f[n - 1])]
  <2>1. \A n \in 0..M : n = 0 \/ n \in 1..M
    BY <1>2
  <2>2. \A n \in 0..M : f[n] = IF n = 0 THEN first ELSE SplitStep(buffer, f[n - 1])
    BY <1>3, <2>1
  <2> QED
    BY <1>4, <2>2
<1> DEFINE u == SplitUpTo(buffer)
<1>6. u = [n \in 0..M |-> IF n = 0 THEN first ELSE SplitStep(buffer, u[n - 1])]
  BY <1>5, Zenon DEF SplitUpTo, SplitStep, M, first
<1> HIDE DEF u
<1>7. 0 \in 0..M /\ \A n \in 1..M : n \in 0..M /\ n # 0
  BY <1>2
<1>8. u[0] = first /\ \A n \in 1..M : u[n] = SplitStep(buffer, u[n - 1])
  BY <1>6, <1>7
<1> QED
  BY <1>8 DEF u, M, first, buffer

(* Every path comes back from its bytes. *)
THEOREM PathsRoundTrip ==
  ASSUME NEW p \in Seq(Key)
  PROVE  splitPath(encode_path(p)) = p
<1> DEFINE buffer == encode_path(p)
           L == Len(p)
           M == Len(buffer)
           u == SplitUpTo(buffer)
           f == CHOOSE f : Reads(p, f)
<1>1. Reads(p, f)
  <2>1. \E g : Reads(p, g)
    BY DEF Reads
  <2> QED
    BY <2>1, Zenon
<1> HIDE DEF f
<1>2. L \in Nat /\ M \in Nat /\ L <= M
  <2>1. L \in 0..L /\ L \in Nat
    OBVIOUS
  <2>2. Len(EncodedUpTo(p)[L]) \in Nat /\ Len(EncodedUpTo(p)[L]) >= L
    BY <2>1, KeysTakeBytes
  <2> QED
    BY <2>1, <2>2 DEF encode_path
<1>3. f[0] = u[0] /\ \A n \in 1..M : f[n] = SplitStep(buffer, f[n - 1]) /\ u[n] = SplitStep(buffer, u[n - 1])
  BY <1>1, ReadsRound, SplitStepwise
<1> HIDE DEF u
<1>4. f[M].path = SubSeq(p, 1, L)
  <2>1. M \in 0..M /\ (IF M <= L THEN M ELSE L) = L
    BY <1>2
  <2>2. f[M] = [cursor |-> Len(EncodedUpTo(p)[L]) + 1, path |-> SubSeq(p, 1, L)]
    BY <1>1, <2>1, Zenon DEF Reads
  <2> QED
    BY <2>2
<1> HIDE DEF M, buffer
<1> DEFINE S == {n \in Nat : n <= M => u[n] = f[n]}
<1>5. 0 \in S
  BY <1>3
<1>6. \A n \in Nat : n \in S => n + 1 \in S
  <2> SUFFICES ASSUME NEW n \in Nat, n \in S PROVE n + 1 \in S
    OBVIOUS
  <2>1. ASSUME n + 1 <= M PROVE u[n + 1] = f[n + 1]
    <3>1. n + 1 \in 1..M /\ (n + 1) - 1 = n /\ u[n] = f[n]
      BY <1>2, <2>1
    <3> QED
      BY <1>3, <3>1
  <2>2. n + 1 \in Nat
    OBVIOUS
  <2> QED
    BY <2>1, <2>2, Zenon
<1>7. u[M] = f[M]
  <2>1. Nat \subseteq S
    <3> HIDE DEF S
    <3> QED
      BY <1>5, <1>6, Induction
  <2> QED
    BY <1>2, <2>1
<1>8. SubSeq(p, 1, L) = p
  BY SubSeqFull
<1> QED
  BY <1>4, <1>7, <1>8 DEF splitPath, u, M, buffer

-----------------------------------------------------------------------------
(* Paths and objects *)

(* Prefixes, element by element. *)
LEMMA PrefixElements ==
  ASSUME NEW S, NEW s \in Seq(S), NEW t \in Seq(S)
  PROVE  IsPrefix(s, t) <=> Len(s) <= Len(t) /\ \A k \in 1..Len(s) : s[k] = t[k]
<1>1. Len(s) \in Nat /\ Len(t) \in Nat /\ SubSeq(s, 1, Len(s)) = s
  BY LenProperties, SubSeqFull
<1>2. CASE ~ (Len(s) <= Len(t))
  BY <1>2 DEF IsPrefix
<1>3. CASE Len(s) <= Len(t)
  <2> DEFINE u == SubSeq(t, 1, Len(s))
  <2>1. 1 \in Int /\ Len(s) \in Int /\ \A k \in 1..Len(s) : t[k] \in S
    BY <1>1, <1>3
  <2>2. u \in Seq(S) /\ Len(u) = Len(s) /\ \A k \in 1..Len(s) : u[k] = t[k]
    <3>1. u \in Seq(S) /\ Len(u) = (IF 1 <= Len(s) THEN Len(s) - 1 + 1 ELSE 0)
          /\ \A k \in 1..(Len(s) - 1 + 1) : u[k] = t[1 + k - 1]
      BY <2>1, SubSeqProperties
    <3>2. (IF 1 <= Len(s) THEN Len(s) - 1 + 1 ELSE 0) = Len(s) /\ Len(s) - 1 + 1 = Len(s)
      BY <1>1
    <3>3. \A k \in 1..Len(s) : 1 + k - 1 = k
      BY <1>1
    <3> QED
      BY <3>1, <3>2, <3>3
  <2> HIDE DEF u
  <2>3. s = u <=> \A k \in 1..Len(s) : s[k] = u[k]
    BY <2>2, SeqEqual
  <2>4. IsPrefix(s, t) <=> s = u
    BY <1>1, <1>3 DEF IsPrefix, u
  <2> QED
    BY <1>3, <2>2, <2>3, <2>4
<1> QED
  BY <1>2, <1>3

(* A sequence without its last element. *)
LEMMA FrontElements ==
  ASSUME NEW S, NEW s \in Seq(S), s # <<>>
  PROVE  /\ Front(s) \in Seq(S) /\ Len(Front(s)) = Len(s) - 1 /\ Len(s) \in Nat /\ Len(s) > 0
         /\ \A k \in 1..(Len(s) - 1) : Front(s)[k] = s[k]
<1>1. Len(s) \in Nat /\ Len(s) > 0
  BY EmptySeq
<1>2. 1 \in Int /\ Len(s) - 1 \in Int /\ \A k \in 1..(Len(s) - 1) : s[k] \in S
  BY <1>1
<1>3. /\ Front(s) \in Seq(S) /\ Len(Front(s)) = IF 1 <= Len(s) - 1 THEN (Len(s) - 1) - 1 + 1 ELSE 0
      /\ \A k \in 1..((Len(s) - 1) - 1 + 1) : Front(s)[k] = s[1 + k - 1]
  BY <1>2, SubSeqProperties DEF Front
<1>4. (IF 1 <= Len(s) - 1 THEN (Len(s) - 1) - 1 + 1 ELSE 0) = Len(s) - 1 /\ (Len(s) - 1) - 1 + 1 = Len(s) - 1
  <2> DEFINE l == Len(s)
  <2>1. l \in Nat /\ l > 0
    BY <1>1
  <2> HIDE DEF l
  <2>2. (l - 1) - 1 + 1 = l - 1 /\ (IF 1 <= l - 1 THEN (l - 1) - 1 + 1 ELSE 0) = l - 1
    BY <2>1
  <2> QED
    BY <2>2 DEF l
<1>5. \A k \in 1..(Len(s) - 1) : 1 + k - 1 = k
  BY <1>1
<1> QED
  BY <1>1, <1>3, <1>4, <1>5

(* A prefix of a path that is not the path is one of its front. *)
LEMMA PrefixOfFront ==
  ASSUME NEW S, NEW s \in Seq(S), NEW t \in Seq(S), IsPrefix(s, t), s # t
  PROVE  t # <<>> /\ IsPrefix(s, Front(t))
<1>1. Len(s) \in Nat /\ Len(t) \in Nat /\ Len(s) <= Len(t) /\ \A k \in 1..Len(s) : s[k] = t[k]
  BY PrefixElements
<1>2. Len(s) # Len(t)
  BY <1>1, SeqEqual
<1>3. t # <<>>
  BY <1>1, <1>2
<1>4. Front(t) \in Seq(S) /\ Len(Front(t)) = Len(t) - 1 /\ \A k \in 1..(Len(t) - 1) : Front(t)[k] = t[k]
  BY <1>3, FrontElements
<1>5. Len(s) <= Len(Front(t)) /\ \A k \in 1..Len(s) : s[k] = Front(t)[k]
  BY <1>1, <1>2, <1>4
<1> QED
  BY <1>3, <1>4, <1>5, PrefixElements

(* A prefix of a prefix is one. *)
LEMMA PrefixTransitive ==
  ASSUME NEW S, NEW s \in Seq(S), NEW t \in Seq(S), NEW u \in Seq(S), IsPrefix(s, t), IsPrefix(t, u)
  PROVE  IsPrefix(s, u)
<1>1. Len(s) <= Len(t) /\ \A k \in 1..Len(s) : s[k] = t[k]
  BY PrefixElements
<1>2. Len(t) <= Len(u) /\ \A k \in 1..Len(t) : t[k] = u[k]
  BY PrefixElements
<1>3. Len(s) \in Nat /\ Len(t) \in Nat /\ Len(u) \in Nat
  BY LenProperties
<1>4. Len(s) <= Len(u) /\ \A k \in 1..Len(s) : s[k] = u[k]
  BY <1>1, <1>2, <1>3
<1> QED
  BY <1>4, PrefixElements

(* How far two paths agree is settled by where they differ first. *)
LEMMA CommonIs ==
  ASSUME NEW S, NEW p \in Seq(S), NEW q \in Seq(S), NEW c \in Nat, c <= Len(p), c <= Len(q),
         \A k \in 1..c : p[k] = q[k],
         c = Len(p) \/ c = Len(q) \/ p[c + 1] # q[c + 1]
  PROVE  Common(p, q) = c
<1> DEFINE agree == {n \in 0..Len(p) : n <= Len(q) /\ \A k \in 1..n : p[k] = q[k]}
           Top(n) == n \in agree /\ \A m \in agree : m <= n
<1>1. Len(p) \in Nat /\ Len(q) \in Nat
  BY LenProperties
<1>2. c \in agree
  BY <1>1
<1>3. \A m \in agree : m <= c
  <2> SUFFICES ASSUME NEW m \in agree, m > c PROVE FALSE
    BY <1>1
  <2>1. c + 1 \in 1..m /\ m <= Len(p) /\ m <= Len(q)
    BY <1>1
  <2>2. p[c + 1] = q[c + 1]
    BY <2>1
  <2> QED
    BY <1>1, <2>1, <2>2
<1>4. \A n : Top(n) => n = c
  <2> SUFFICES ASSUME NEW n, Top(n) PROVE n = c
    OBVIOUS
  <2>1. n \in agree /\ c <= n
    BY <1>2
  <2>2. n \in Int /\ n <= c
    BY <1>1, <1>3, <2>1
  <2> QED
    BY <2>1, <2>2
<1>5. Common(p, q) = CHOOSE n \in agree : \A m \in agree : m <= n
  BY DEF Common
<1>6. \E n \in agree : \A m \in agree : m <= n
  BY <1>2, <1>3
<1> HIDE DEF agree
<1>7. Top(Common(p, q))
  BY <1>5, <1>6, Zenon
<1> QED
  BY <1>4, <1>7

(* A path hangs on a node of the one before it, but is not on the way to that. *)
Hangs(q, p) == q # <<>> /\ IsPrefix(Front(q), p) /\ ~ IsPrefix(q, p)

(* Where two keys differ that hang on each other. *)
LEMMA HangsElements ==
  ASSUME NEW S, NEW q \in Seq(S), NEW p \in Seq(S), Hangs(q, p)
  PROVE  /\ Len(q) \in Nat /\ Len(q) > 0 /\ Len(p) \in Nat /\ Len(q) - 1 <= Len(p)
         /\ \A k \in 1..(Len(q) - 1) : q[k] = p[k]
         /\ Len(q) - 1 = Len(p) \/ q[Len(q)] # p[Len(q)]
<1>1. q # <<>> /\ IsPrefix(Front(q), p) /\ ~ IsPrefix(q, p)
  BY DEF Hangs
<1>2. /\ Front(q) \in Seq(S) /\ Len(Front(q)) = Len(q) - 1 /\ Len(q) \in Nat /\ Len(q) > 0
      /\ \A k \in 1..(Len(q) - 1) : Front(q)[k] = q[k]
  BY <1>1, FrontElements
<1>3. Len(Front(q)) <= Len(p) /\ \A k \in 1..Len(Front(q)) : Front(q)[k] = p[k]
  BY <1>1, <1>2, PrefixElements
<1>4. Len(p) \in Nat
  BY LenProperties
<1>5. Len(q) - 1 <= Len(p) /\ \A k \in 1..(Len(q) - 1) : q[k] = p[k]
  BY <1>2, <1>3
<1>6. ASSUME Len(q) - 1 # Len(p), q[Len(q)] = p[Len(q)] PROVE FALSE
  <2>1. Len(q) <= Len(p)
    BY <1>2, <1>4, <1>5, <1>6
  <2>2. \A k \in 1..Len(q) : q[k] = p[k]
    <3> SUFFICES ASSUME NEW k \in 1..Len(q) PROVE q[k] = p[k]
      OBVIOUS
    <3>1. k = Len(q) \/ k \in 1..(Len(q) - 1)
      BY <1>2
    <3> QED
      BY <1>5, <1>6, <3>1
  <2> QED
    BY <1>1, <2>1, <2>2, PrefixElements
<1> QED
  BY <1>2, <1>4, <1>5, <1>6

(* A node that hangs on a path leaves it at its parent. *)
LEMMA HangsCommon ==
  ASSUME NEW S, NEW q \in Seq(S), NEW p \in Seq(S), Hangs(q, p)
  PROVE  Common(p, q) = Len(q) - 1
<1> DEFINE c == Len(q) - 1
<1>1. /\ Len(q) \in Nat /\ Len(q) > 0 /\ Len(p) \in Nat /\ Len(q) - 1 <= Len(p)
      /\ \A k \in 1..(Len(q) - 1) : q[k] = p[k]
      /\ Len(q) - 1 = Len(p) \/ q[Len(q)] # p[Len(q)]
  BY HangsElements
<1>2. c \in Nat /\ c <= Len(p) /\ c <= Len(q) /\ c + 1 = Len(q)
  BY <1>1
<1>3. \A k \in 1..c : p[k] = q[k]
  BY <1>1
<1>4. c = Len(p) \/ c = Len(q) \/ p[c + 1] # q[c + 1]
  BY <1>1, <1>2
<1> HIDE DEF c
<1>5. Common(p, q) = c
  BY <1>2, <1>3, <1>4, CommonIs
<1> QED
  BY <1>5 DEF c

(* What IsObject says, fact by fact. *)
LEMMA ObjectFacts ==
  ASSUME NEW o, IsObject(o)
  PROVE  /\ o.key \in Name /\ o.key \in Key
         /\ o.paths \in Seq(Seq(Key)) /\ Len(o.paths) \in Nat /\ Len(o.paths) > 0 /\ o.paths[1] = <<>>
         /\ \A i \in 1..Len(o.paths) : o.paths[i] \in Seq(Key) /\ o.paths[i] \in DOMAIN o.tree
         /\ \A i, j \in 1..Len(o.paths) : o.paths[i] = o.paths[j] => i = j
         /\ \A i \in 1..Len(o.paths) : o.tree[o.paths[i]] \in {"object", "array", "leaf"}
         /\ \A i \in 2..Len(o.paths) : o.paths[i] # <<>> /\ IsPrefix(Front(o.paths[i]), o.paths[i - 1])
         /\ DOMAIN o.tree = {o.paths[i] : i \in 1..Len(o.paths)}
         /\ o.tree \in [{o.paths[i] : i \in 1..Len(o.paths)} -> {"object", "array", "leaf"}]
<1>1. /\ o.key \in Name /\ o.paths \in Seq(Seq(Key)) /\ o.paths # <<>> /\ o.paths[1] = <<>>
      /\ o.tree \in [{o.paths[i] : i \in DOMAIN o.paths} -> {"object", "array", "leaf"}]
      /\ \A i, j \in DOMAIN o.paths : o.paths[i] = o.paths[j] => i = j
  BY DEF IsObject
<1>2. \A i \in 2..Len(o.paths) : o.paths[i] # <<>> /\ IsPrefix(Front(o.paths[i]), o.paths[i - 1])
  BY DEF IsObject
<1>3. Len(o.paths) \in Nat /\ Len(o.paths) > 0 /\ DOMAIN o.paths = 1..Len(o.paths)
  BY <1>1, EmptySeq, LenProperties
<1>4. \A i \in 1..Len(o.paths) : o.paths[i] \in Seq(Key)
  BY <1>1, <1>3, ElementOfSeq
<1>5. o.tree \in [{o.paths[i] : i \in 1..Len(o.paths)} -> {"object", "array", "leaf"}]
  BY <1>1, <1>3
<1>6. DOMAIN o.tree = {o.paths[i] : i \in 1..Len(o.paths)}
  BY <1>5
<1>7. \A i \in 1..Len(o.paths) : o.paths[i] \in DOMAIN o.tree /\ o.tree[o.paths[i]] \in {"object", "array", "leaf"}
  BY <1>5, <1>6
<1> QED
  BY <1>1, <1>2, <1>3, <1>4, <1>5, <1>6, <1>7 DEF Key

(* Every node on the way to one comes before it. *)
LEMMA ObjectPrefixes ==
  ASSUME NEW o, IsObject(o), NEW i \in 1..Len(o.paths), NEW q \in Seq(Key), IsPrefix(q, o.paths[i])
  PROVE  \E j \in 1..i : o.paths[j] = q
<1> DEFINE P == o.paths
           L == Len(o.paths)
           S == {n \in Nat : n \in 1..L => \A r \in Seq(Key) : IsPrefix(r, P[n]) => \E j \in 1..n : P[j] = r}
<1>1. /\ L \in Nat /\ P[1] = <<>>
      /\ \A n \in 1..L : P[n] \in Seq(Key)
      /\ \A n \in 2..L : P[n] # <<>> /\ IsPrefix(Front(P[n]), P[n - 1])
  BY ObjectFacts
<1> HIDE DEF P, L
<1>2. 0 \in S
  OBVIOUS
<1>3. \A n \in Nat : n \in S => n + 1 \in S
  <2> SUFFICES ASSUME NEW n \in Nat, n \in S, n + 1 \in 1..L, NEW r \in Seq(Key), IsPrefix(r, P[n + 1])
               PROVE  \E j \in 1..(n + 1) : P[j] = r
    OBVIOUS
  <2> DEFINE m == n + 1
  <2>1. m \in 1..L /\ m - 1 = n /\ P[m] \in Seq(Key) /\ IsPrefix(r, P[m])
    BY <1>1
  <2> HIDE DEF m
  <2>2. CASE r = P[m]
    BY <2>2 DEF m
  <2>3. CASE r # P[m]
    <3>1. P[m] # <<>> /\ IsPrefix(r, Front(P[m]))
      BY <2>1, <2>3, PrefixOfFront
    <3>2. m # 1
      BY <1>1, <3>1
    <3>3. n \in 1..L /\ m \in 2..L /\ m - 1 \in 1..L
      BY <1>1, <2>1, <3>2
    <3>4. IsPrefix(Front(P[m]), P[m - 1]) /\ P[m - 1] \in Seq(Key)
      BY <1>1, <3>3
    <3>5. Front(P[m]) \in Seq(Key)
      BY <2>1, <3>1, FrontElements
    <3>6. IsPrefix(r, P[m - 1])
      BY <3>1, <3>4, <3>5, PrefixTransitive
    <3>7. IsPrefix(r, P[n])
      BY <2>1, <3>6
    <3>8. PICK j \in 1..n : P[j] = r
      BY <3>3, <3>7
    <3> QED
      BY <3>8
  <2> QED
    BY <2>2, <2>3
<1>4. i \in S
  <2>1. i \in Nat
    BY <1>1 DEF L
  <2> HIDE DEF S
  <2> QED
    BY <1>2, <1>3, <2>1, Induction
<1>5. i \in 1..L /\ IsPrefix(q, P[i])
  BY DEF L, P
<1>6. \E j \in 1..i : P[j] = q
  BY <1>4, <1>5
<1> QED
  BY <1>6 DEF P

(* The nodes hang one on the way to the one before it, and their parents are there. *)
LEMMA ObjectLinked ==
  ASSUME NEW o, IsObject(o), NEW i \in 2..Len(o.paths)
  PROVE  /\ Hangs(o.paths[i], o.paths[i - 1])
         /\ \E j \in 1..(i - 1) : o.paths[j] = Front(o.paths[i])
<1> DEFINE P == o.paths
           L == Len(o.paths)
<1>1. /\ L \in Nat /\ \A n \in 1..L : P[n] \in Seq(Key)
      /\ \A n, j \in 1..L : P[n] = P[j] => n = j
      /\ \A n \in 2..L : P[n] # <<>> /\ IsPrefix(Front(P[n]), P[n - 1])
  BY ObjectFacts
<1>2. i \in 1..L /\ i - 1 \in 1..L /\ i \in 2..L /\ i \in Nat
  BY <1>1
<1>3. \A q \in Seq(Key) : IsPrefix(q, P[i - 1]) => \E j \in 1..(i - 1) : P[j] = q
  BY <1>2, ObjectPrefixes
<1> HIDE DEF P, L
<1>4. P[i] \in Seq(Key) /\ P[i] # <<>> /\ IsPrefix(Front(P[i]), P[i - 1])
  BY <1>1, <1>2
<1>5. Front(P[i]) \in Seq(Key)
  BY <1>4, FrontElements
<1>6. ~ IsPrefix(P[i], P[i - 1])
  <2> SUFFICES ASSUME IsPrefix(P[i], P[i - 1]) PROVE FALSE
    OBVIOUS
  <2>1. PICK j \in 1..(i - 1) : P[j] = P[i]
    BY <1>3, <1>4
  <2>2. j \in 1..L /\ j # i
    BY <1>1, <1>2
  <2> QED
    BY <1>1, <1>2, <2>1, <2>2
<1>7. \E j \in 1..(i - 1) : P[j] = Front(P[i])
  BY <1>3, <1>4, <1>5
<1> QED
  BY <1>4, <1>6, <1>7 DEF Hangs, P

-----------------------------------------------------------------------------
(* Nodes and records *)

(* What the nodes are. *)
Node == [keys : Seq(Key), val : {"object", "array", "leaf"}]

(* Nodes one after the other, as they are numbered. *)
Linked(ns) ==
  \A i \in 1..Len(ns) : /\ ns[i].keys # <<>>
                        /\ i = 1 => Len(ns[i].keys) = 1
                        /\ i > 1 => Hangs(ns[i].keys, ns[i - 1].keys)

(* The fields of a node. *)
LEMMA NodeFields ==
  ASSUME NEW ns \in Seq(Node), NEW i \in 1..Len(ns)
  PROVE  /\ ns[i] \in Node /\ ns[i].keys \in Seq(Key) /\ ns[i].val \in {"object", "array", "leaf"}
         /\ ns[i] = [keys |-> ns[i].keys, val |-> ns[i].val]
<1>1. ns[i] \in Node
  BY ElementOfSeq
<1> QED
  BY <1>1 DEF Node

(* A path below a key. *)
LEMMA UnderKey ==
  ASSUME NEW k \in Key, NEW q \in Seq(Key)
  PROVE  LET x == <<k>> \o q
         IN /\ x \in Seq(Key) /\ x # <<>> /\ Len(x) = Len(q) + 1 /\ x[1] = k /\ Tail(x) = q
            /\ \A i \in 1..Len(q) : x[i + 1] = q[i]
  OBVIOUS

(* What hangs on a path does so below a key, too. *)
LEMMA HangsUnderKey ==
  ASSUME NEW k \in Key, NEW q \in Seq(Key), NEW p \in Seq(Key), Hangs(q, p)
  PROVE  Hangs(<<k>> \o q, <<k>> \o p)
<1> DEFINE x == <<k>> \o q
           y == <<k>> \o p
<1>1. /\ x \in Seq(Key) /\ x # <<>> /\ Len(x) = Len(q) + 1 /\ x[1] = k
      /\ \A i \in 1..Len(q) : x[i + 1] = q[i]
  BY UnderKey
<1>2. y \in Seq(Key) /\ Len(y) = Len(p) + 1 /\ y[1] = k /\ \A i \in 1..Len(p) : y[i + 1] = p[i]
  BY UnderKey
<1> HIDE DEF x, y
<1>3. /\ Len(q) \in Nat /\ Len(q) > 0 /\ Len(p) \in Nat /\ Len(q) - 1 <= Len(p)
      /\ \A i \in 1..(Len(q) - 1) : q[i] = p[i]
      /\ Len(q) - 1 = Len(p) \/ q[Len(q)] # p[Len(q)]
  BY HangsElements
<1>4. /\ Front(x) \in Seq(Key) /\ Len(Front(x)) = Len(x) - 1
      /\ \A i \in 1..(Len(x) - 1) : Front(x)[i] = x[i]
  BY <1>1, FrontElements
<1>5. IsPrefix(Front(x), y)
  <2>1. Len(Front(x)) = Len(q) /\ Len(Front(x)) <= Len(y)
    BY <1>1, <1>2, <1>3, <1>4
  <2>2. ASSUME NEW i \in 1..Len(Front(x)) PROVE Front(x)[i] = y[i]
    <3>1. i \in 1..Len(q) /\ Front(x)[i] = x[i]
      BY <1>1, <1>3, <1>4, <2>1
    <3>2. CASE i = 1
      BY <1>1, <1>2, <3>1, <3>2
    <3>3. CASE i # 1
      <4>1. i - 1 \in 1..Len(q) /\ i - 1 \in 1..Len(p) /\ (i - 1) + 1 = i /\ i - 1 \in 1..(Len(q) - 1)
        BY <1>3, <3>1, <3>3
      <4>2. x[i] = q[i - 1] /\ y[i] = p[i - 1] /\ q[i - 1] = p[i - 1]
        BY <1>1, <1>2, <1>3, <4>1
      <4> QED
        BY <3>1, <4>2
    <3> QED
      BY <3>2, <3>3
  <2> QED
    BY <1>2, <1>4, <2>1, <2>2, PrefixElements
<1>6. ~ IsPrefix(x, y)
  <2> SUFFICES ASSUME IsPrefix(x, y) PROVE FALSE
    OBVIOUS
  <2>1. Len(x) <= Len(y) /\ \A i \in 1..Len(x) : x[i] = y[i]
    BY <1>1, <1>2, PrefixElements
  <2>2. Len(q) <= Len(p) /\ Len(q) + 1 \in 1..Len(x) /\ Len(q) \in 1..Len(q) /\ Len(q) \in 1..Len(p)
    BY <1>1, <1>2, <1>3, <2>1
  <2>3. x[Len(q) + 1] = q[Len(q)] /\ y[Len(q) + 1] = p[Len(q)]
    BY <1>1, <1>2, <2>2
  <2> QED
    BY <1>3, <2>1, <2>2, <2>3
<1> QED
  BY <1>1, <1>5, <1>6 DEF Hangs, x, y

(* The nodes of an object, as the server numbers them. *)
LEMMA NodesOfObject ==
  ASSUME NEW o, IsObject(o)
  PROVE  LET ns == NodesOf(o)
         IN /\ ns \in Seq(Node) /\ Len(ns) = Len(o.paths) /\ Len(ns) \in Nat /\ Len(ns) > 0
            /\ \A i \in 1..Len(ns) : /\ ns[i] = [keys |-> <<o.key>> \o o.paths[i], val |-> o.tree[o.paths[i]]]
                                     /\ ns[i].keys[1] = o.key
            /\ Linked(ns) /\ ns[1].keys = <<o.key>>
<1> DEFINE ns == NodesOf(o)
           L == Len(o.paths)
           at(i) == [keys |-> <<o.key>> \o o.paths[i], val |-> o.tree[o.paths[i]]]
<1>1. /\ o.key \in Key /\ L \in Nat /\ L > 0 /\ o.paths[1] = <<>> /\ o.paths \in Seq(Seq(Key))
      /\ \A i \in 1..L : o.paths[i] \in Seq(Key)
      /\ \A i \in 1..L : o.tree[o.paths[i]] \in {"object", "array", "leaf"}
  BY ObjectFacts
<1>2. ns = [i \in 1..L |-> at(i)]
  BY <1>1, LenProperties DEF NodesOf
<1> HIDE DEF ns, L
<1>3. \A i \in 1..L : <<o.key>> \o o.paths[i] \in Seq(Key) /\ <<o.key>> \o o.paths[i] # <<>>
                      /\ (<<o.key>> \o o.paths[i])[1] = o.key
  BY <1>1, UnderKey
<1>4. \A i \in 1..L : at(i) \in Node
  BY <1>1, <1>3 DEF Node
<1> HIDE DEF at
<1>5. ns \in Seq(Node) /\ Len(ns) = L
  BY <1>1, <1>2, <1>4
<1>6. \A i \in 1..L : ns[i] = at(i)
  BY <1>2
<1>7. \A i \in 1..L : ns[i].keys = <<o.key>> \o o.paths[i]
  <2>1. \A i : at(i).keys = <<o.key>> \o o.paths[i]
    BY DEF at
  <2> QED
    BY <1>6, <2>1
<1>8. ns[1].keys = <<o.key>>
  <2>1. 1 \in 1..L
    BY <1>1
  <2>2. <<o.key>> \o <<>> = <<o.key>>
    BY <1>1
  <2> QED
    BY <1>1, <1>7, <2>1, <2>2
<1>9. Linked(ns)
  <2> SUFFICES ASSUME NEW i \in 1..L
               PROVE  /\ ns[i].keys # <<>>
                      /\ i = 1 => Len(ns[i].keys) = 1
                      /\ i > 1 => Hangs(ns[i].keys, ns[i - 1].keys)
    BY <1>5, Zenon DEF Linked
  <2>1. ns[i].keys # <<>>
    BY <1>3, <1>7
  <2>2. i = 1 => Len(ns[i].keys) = 1
    BY <1>8
  <2>3. ASSUME i > 1 PROVE Hangs(ns[i].keys, ns[i - 1].keys)
    <3>1. i \in 2..L /\ i - 1 \in 1..L
      BY <1>1, <2>3
    <3>2. Hangs(o.paths[i], o.paths[i - 1])
      BY <3>1, ObjectLinked DEF L
    <3>3. Hangs(<<o.key>> \o o.paths[i], <<o.key>> \o o.paths[i - 1])
      BY <1>1, <3>1, <3>2, HangsUnderKey
    <3> QED
      BY <1>7, <3>1, <3>3
  <2> QED
    BY <2>1, <2>2, <2>3
<1>10. \A i \in 1..L : ns[i].keys[1] = o.key
  BY <1>3, <1>7
<1> QED
  BY <1>1, <1>5, <1>6, <1>8, <1>9, <1>10 DEF ns, L, at

(* Every node but a container whose child follows has a record, the last one always. *)
LEMMA RecordsAre ==
  ASSUME NEW ns \in Seq(Node)
  PROVE  /\ Records(ns) \subseteq 1..Len(ns) /\ Len(ns) \in Nat
         /\ \A i \in 1..Len(ns) : i \notin Records(ns) =>
              ns[i].val = "object" /\ i < Len(ns) /\ IsStrictPrefix(ns[i].keys, ns[i + 1].keys)
         /\ Len(ns) > 0 => Len(ns) \in Records(ns)
<1>1. Len(ns) \in Nat /\ DOMAIN ns = 1..Len(ns)
  BY LenProperties
<1> QED
  BY <1>1 DEF Records

(* A node without a record is what the next one hangs on. *)
LEMMA SilentParent ==
  ASSUME NEW ns \in Seq(Node), Linked(ns), NEW i \in 1..Len(ns), i \notin Records(ns)
  PROVE  /\ i + 1 \in 1..Len(ns) /\ ns[i].val = "object"
         /\ Len(ns[i].keys) \in Nat /\ Len(ns[i + 1].keys) = Len(ns[i].keys) + 1
         /\ \A k \in 1..Len(ns[i].keys) : ns[i].keys[k] = ns[i + 1].keys[k]
<1> DEFINE q == ns[i + 1].keys
           p == ns[i].keys
<1>1. Len(ns) \in Nat /\ ns[i].val = "object" /\ i < Len(ns) /\ IsStrictPrefix(p, q)
  BY RecordsAre
<1>2. i + 1 \in 1..Len(ns) /\ i + 1 > 1 /\ (i + 1) - 1 = i
  BY <1>1
<1>3. q \in Seq(Key) /\ p \in Seq(Key)
  BY <1>2, NodeFields
<1>4. Hangs(q, p)
  BY <1>2 DEF Linked
<1> HIDE DEF q, p
<1>5. Len(q) \in Nat /\ Len(q) > 0 /\ Len(p) \in Nat /\ Len(q) - 1 <= Len(p)
  BY <1>3, <1>4, HangsElements
<1>6. IsPrefix(p, q) /\ p # q
  BY <1>1 DEF IsStrictPrefix
<1>7. Len(p) <= Len(q) /\ \A k \in 1..Len(p) : p[k] = q[k]
  BY <1>3, <1>6, PrefixElements
<1>8. Len(p) # Len(q)
  BY <1>3, <1>6, <1>7, SeqEqual
<1>9. Len(q) = Len(p) + 1
  BY <1>5, <1>7, <1>8
<1> QED
  BY <1>1, <1>2, <1>5, <1>7, <1>9 DEF q, p

(* Between two records there are only the objects on the way to the second. *)
LEMMA WayToRecord ==
  ASSUME NEW ns \in Seq(Node), Linked(ns), NEW d \in Nat, NEW i \in 1..Len(ns), d < i,
         \A k \in 1..Len(ns) : d < k /\ k < i => k \notin Records(ns)
  PROVE  LET L == Len(ns[i].keys)
         IN \A m \in 0..(i - d - 1) :
              /\ i - m \in 1..Len(ns) /\ Len(ns[i - m].keys) = L - m
              /\ L \in Nat /\ L - m >= 1
              /\ \A k \in 1..(L - m) : ns[i - m].keys[k] = ns[i].keys[k]
              /\ m > 0 => ns[i - m].val = "object"
<1> DEFINE L == Len(ns[i].keys)
           K(n) == ns[n].keys
           Way(m) == /\ Len(K(i - m)) = L - m /\ L - m >= 1
                     /\ \A k \in 1..(L - m) : K(i - m)[k] = K(i)[k]
                     /\ m > 0 => ns[i - m].val = "object"
           S == {m \in Nat : m <= i - d - 1 => Way(m)}
<1>1. Len(ns) \in Nat /\ i \in Nat /\ i <= Len(ns) /\ i > 0
  BY LenProperties
<1>2. \A n \in 1..Len(ns) : K(n) \in Seq(Key) /\ K(n) # <<>> /\ Len(K(n)) \in Nat /\ Len(K(n)) > 0
  <2>1. \A n \in 1..Len(ns) : K(n) \in Seq(Key) /\ K(n) # <<>>
    BY NodeFields DEF Linked
  <2> HIDE DEF K
  <2> QED
    BY <2>1, EmptySeq
<1>3. L \in Nat /\ L >= 1
  BY <1>2
<1>4. \A m \in 0..(i - d - 1) : i - m \in 1..Len(ns)
  BY <1>1
<1>5. \A n \in 1..Len(ns) : d < n /\ n < i =>
        /\ n + 1 \in 1..Len(ns) /\ ns[n].val = "object"
        /\ Len(K(n)) \in Nat /\ Len(K(n + 1)) = Len(K(n)) + 1
        /\ \A k \in 1..Len(K(n)) : K(n)[k] = K(n + 1)[k]
  BY SilentParent
<1>6. L = Len(K(i))
  OBVIOUS
<1> HIDE DEF L, K
<1>7. 0 \in S
  <2>1. i - 0 = i /\ L - 0 = L
    BY <1>1, <1>3
  <2>2. Way(0)
    BY <1>3, <1>6, <2>1
  <2> QED
    BY <2>2
<1>8. \A m \in Nat : m \in S => m + 1 \in S
  <2> SUFFICES ASSUME NEW m \in Nat, m \in S, m + 1 <= i - d - 1 PROVE Way(m + 1)
    OBVIOUS
  <2> DEFINE n == i - (m + 1)
  <2>1. n \in 1..Len(ns) /\ d < n /\ n < i /\ n + 1 = i - m /\ m <= i - d - 1 /\ m + 1 > 0
    BY <1>1
  <2>2. Way(m)
    BY <2>1
  <2>3. /\ n + 1 \in 1..Len(ns) /\ ns[n].val = "object"
        /\ Len(K(n)) \in Nat /\ Len(K(n + 1)) = Len(K(n)) + 1
        /\ \A k \in 1..Len(K(n)) : K(n)[k] = K(n + 1)[k]
    BY <1>5, <2>1
  <2>4. Len(K(n)) > 0
    BY <1>2, <2>1
  <2>5. Len(K(n + 1)) = L - m /\ \A k \in 1..(L - m) : K(n + 1)[k] = K(i)[k]
    BY <2>1, <2>2
  <2>6. Len(K(n)) = L - (m + 1) /\ L - (m + 1) >= 1
    BY <1>3, <2>3, <2>4, <2>5
  <2>7. \A k \in 1..(L - (m + 1)) : K(n)[k] = K(i)[k]
    <3> SUFFICES ASSUME NEW k \in 1..(L - (m + 1)) PROVE K(n)[k] = K(i)[k]
      OBVIOUS
    <3>1. k \in 1..Len(K(n)) /\ k \in 1..(L - m)
      BY <1>3, <2>6
    <3> QED
      BY <2>3, <2>5, <3>1
  <2> QED
    BY <2>3, <2>6, <2>7
<1>9. Nat \subseteq S
  <2> HIDE DEF S
  <2> QED
    BY <1>7, <1>8, Induction
<1>10. \A m \in 0..(i - d - 1) : Way(m)
  BY <1>1, <1>9
<1> QED
  BY <1>3, <1>4, <1>10 DEF K, L

(* The node that goes before the first one. *)
Root == [keys |-> <<>>, val |-> "object"]

(* decodePathsVals gives back the nodes the records stand for. *)
LEMMA ParentsRestored ==
  ASSUME nodes \in Seq(Node), Linked(nodes),
         decoded \in Nat, decoded <= Len(nodes),
         pieces = IF decoded = 0 THEN <<>> ELSE nodes[decoded].keys,
         NEW i \in 1..Len(nodes), decoded < i,
         \A k \in 1..Len(nodes) : decoded < k /\ k < i => k \notin Records(nodes)
  PROVE  WithParents(nodes[i].keys, nodes[i].val)
           = (IF decoded = 0 THEN <<Root>> ELSE <<>>) \o SubSeq(nodes, decoded + 1, i)
<1> DEFINE d == decoded
           keys == nodes[i].keys
           L == Len(keys)
           c == L - (i - d)
           K(n) == nodes[n].keys
<1>1. Len(nodes) \in Nat /\ i \in Nat /\ d \in Nat /\ d < i /\ i <= Len(nodes)
  BY LenProperties
<1>2. \A n \in 1..Len(nodes) : /\ K(n) \in Seq(Key) /\ K(n) # <<>> /\ nodes[n] \in Node
                               /\ nodes[n] = [keys |-> K(n), val |-> nodes[n].val]
  BY NodeFields DEF Linked
<1>3. L \in Nat /\ L > 0 /\ keys \in Seq(Key) /\ keys # <<>>
  <2>1. keys \in Seq(Key) /\ keys # <<>>
    BY <1>2
  <2> HIDE DEF keys
  <2> QED
    BY <2>1, EmptySeq
<1>4. \A m \in 0..(i - d - 1) :
        /\ i - m \in 1..Len(nodes) /\ Len(K(i - m)) = L - m /\ L - m >= 1
        /\ \A k \in 1..(L - m) : K(i - m)[k] = keys[k]
        /\ m > 0 => nodes[i - m].val = "object"
  <2>1. LET len == Len(nodes[i].keys)
        IN \A m \in 0..(i - decoded - 1) :
             /\ i - m \in 1..Len(nodes) /\ Len(nodes[i - m].keys) = len - m
             /\ len \in Nat /\ len - m >= 1
             /\ \A k \in 1..(len - m) : nodes[i - m].keys[k] = nodes[i].keys[k]
             /\ m > 0 => nodes[i - m].val = "object"
    BY WayToRecord, Zenon
  <2> QED
    BY <2>1
<1>5. d + 1 \in 1..Len(nodes) /\ i - (i - d - 1) = d + 1 /\ i - d - 1 \in 0..(i - d - 1) /\ L - (i - d - 1) = c + 1
  BY <1>1, <1>3
<1>6. Len(K(d + 1)) = c + 1 /\ c + 1 >= 1 /\ \A k \in 1..(c + 1) : K(d + 1)[k] = keys[k]
  BY <1>4, <1>5
<1>7. c \in Nat /\ c < L
  BY <1>1, <1>3, <1>6
<1>8. Common(keys, pieces) = c
  <2>1. CASE d = 0
    <3>1. Len(K(1)) = 1
      BY <1>5, <2>1 DEF Linked
    <3>2. c = 0
      <4>1. d + 1 = 1
        BY <2>1
      <4>2. Len(K(1)) = c + 1
        BY <1>6, <4>1
      <4> HIDE DEF K, c
      <4>3. c + 1 = 1
        BY <3>1, <4>2
      <4> QED
        BY <1>7, <4>3
    <3>3. pieces = <<>> /\ Len(pieces) = 0 /\ pieces \in Seq(Key)
      BY <2>1
    <3> HIDE DEF c, keys, L
    <3>4. 0 <= Len(keys) /\ 0 <= Len(pieces) /\ (0 = Len(keys) \/ 0 = Len(pieces)) /\ \A k \in 1..0 : keys[k] = pieces[k]
      BY <1>3, <3>3 DEF L
    <3> QED
      BY <1>3, <3>2, <3>3, <3>4, CommonIs
  <2>2. CASE d # 0
    <3> DEFINE p == K(d)
               q == K(d + 1)
    <3>1. pieces = p /\ d \in 1..Len(nodes)
      BY <1>1, <2>2
    <3>2. Hangs(q, p)
      BY <1>5, <2>2, <1>1 DEF Linked
    <3>3. q \in Seq(Key) /\ p \in Seq(Key)
      BY <1>2, <1>5, <3>1
    <3>4. Len(q) = c + 1 /\ \A k \in 1..(c + 1) : q[k] = keys[k]
      BY <1>6
    <3> HIDE DEF q, p, keys, c, L
    <3>5. /\ Len(q) \in Nat /\ Len(p) \in Nat /\ Len(q) - 1 <= Len(p)
          /\ \A k \in 1..(Len(q) - 1) : q[k] = p[k]
          /\ Len(q) - 1 = Len(p) \/ q[Len(q)] # p[Len(q)]
      BY <3>2, <3>3, HangsElements
    <3>6. c <= Len(keys) /\ c <= Len(p) /\ \A k \in 1..c : keys[k] = p[k]
      BY <1>3, <1>7, <3>4, <3>5 DEF L
    <3>7. c = Len(p) \/ keys[c + 1] # p[c + 1]
      BY <1>7, <3>4, <3>5
    <3>8. Common(keys, p) = c
      BY <1>3, <1>7, <3>3, <3>6, <3>7, CommonIs
    <3> QED
      BY <3>1, <3>8
  <2> QED
    BY <2>1, <2>2
<1> DEFINE n == i - d - 1
           between == [l \in 1..(L - 1 - c) |-> [keys |-> SubSeq(keys, 1, c + l), val |-> "object"]]
           itself == << [keys |-> keys, val |-> nodes[i].val] >>
           new == SubSeq(nodes, d + 1, i)
           root == IF d = 0 THEN <<Root>> ELSE <<>>
<1>9. WithParents(keys, nodes[i].val) = root \o between \o itself
  <2> HIDE DEF L, c, keys
  <2> QED
    BY <1>3, <1>8 DEF WithParents, Root, L
<1>10. L - 1 - c = n /\ n \in Nat
  BY <1>1, <1>3
<1>11. \A l \in 1..n : [keys |-> SubSeq(keys, 1, c + l), val |-> "object"] = nodes[d + l] /\ nodes[d + l] \in Node
  <2> SUFFICES ASSUME NEW l \in 1..n
               PROVE  /\ SubSeq(keys, 1, c + l) = K(d + l) /\ nodes[d + l].val = "object"
                      /\ nodes[d + l] = [keys |-> K(d + l), val |-> nodes[d + l].val]
                      /\ nodes[d + l] \in Node
    OBVIOUS
  <2> DEFINE m == i - (d + l)
  <2>1. m \in 0..(i - d - 1) /\ m > 0 /\ i - m = d + l /\ L - m = c + l /\ d + l \in 1..Len(nodes)
        /\ c + l \in Nat /\ c + l <= L /\ c + l > 0
    BY <1>1, <1>3, <1>7
  <2>2. /\ Len(K(d + l)) = c + l /\ nodes[d + l].val = "object"
        /\ \A k \in 1..(c + l) : K(d + l)[k] = keys[k]
    BY <1>4, <2>1
  <2>3. K(d + l) \in Seq(Key)
    BY <1>2, <2>1
  <2> DEFINE a == K(d + l)
             e == c + l
  <2> HIDE DEF a, m, keys, L, e
  <2>4. a \in Seq(Key) /\ Len(a) = e /\ (\A k \in 1..e : a[k] = keys[k]) /\ e \in Nat /\ e <= Len(keys)
    BY <2>1, <2>2, <2>3 DEF a, e, L
  <2>5. SubSeq(keys, 1, e) = a
    <3> DEFINE s == SubSeq(keys, 1, e)
    <3>1. 1 \in Int /\ e \in Int /\ \A k \in 1..e : keys[k] \in Key
      BY <1>3, <2>4
    <3>2. s \in Seq(Key) /\ Len(s) = (IF 1 <= e THEN e - 1 + 1 ELSE 0) /\ \A k \in 1..(e - 1 + 1) : s[k] = keys[1 + k - 1]
      BY <3>1, SubSeqProperties
    <3> HIDE DEF s
    <3>3. Len(s) = Len(a) /\ \A k \in 1..Len(s) : s[k] = a[k]
      BY <2>4, <3>2
    <3>4. s = a
      BY <2>4, <3>2, <3>3, SeqEqual
    <3> QED
      BY <3>4 DEF s
  <2> QED
    BY <1>2, <2>1, <2>2, <2>5 DEF a, e
<1>12. between = [l \in 1..n |-> nodes[d + l]]
  BY <1>10, <1>11
<1>13. between \in Seq(Node) /\ Len(between) = n /\ \A l \in 1..n : between[l] = nodes[d + l]
  <2> HIDE DEF between
  <2>1. \A l \in 1..n : nodes[d + l] \in Node
    BY <1>11
  <2> HIDE DEF n
  <2> QED
    BY <1>10, <1>12, <2>1
<1>14. itself \in Seq(Node) /\ Len(itself) = 1 /\ itself[1] = nodes[i]
  <2>1. nodes[i] \in Node /\ nodes[i] = [keys |-> keys, val |-> nodes[i].val]
    BY <1>2
  <2> HIDE DEF keys
  <2>2. itself = <<nodes[i]>>
    BY <2>1
  <2> HIDE DEF itself
  <2> QED
    BY <2>1, <2>2
<1>15. new \in Seq(Node) /\ Len(new) = n + 1 /\ \A l \in 1..(n + 1) : new[l] = nodes[d + l]
  <2>1. d + 1 \in Int /\ i \in Int /\ d + 1 <= i /\ \A k \in (d + 1)..i : nodes[k] \in Node
    BY <1>1, <1>2
  <2>2. new \in Seq(Node) /\ Len(new) = i - (d + 1) + 1 /\ \A l \in 1..(i - (d + 1) + 1) : new[l] = nodes[(d + 1) + l - 1]
    BY <2>1, SubSeqProperties
  <2>3. i - (d + 1) + 1 = n + 1 /\ \A l \in 1..(n + 1) : (d + 1) + l - 1 = d + l
    BY <1>1
  <2> HIDE DEF new, n
  <2> QED
    BY <2>2, <2>3
<1> HIDE DEF between, itself, new, n, root, c, L, keys, K
<1>16. between \o itself = new
  <2> DEFINE u == between \o itself
  <2>1. u \in Seq(Node) /\ Len(u) = n + 1 /\ (\A l \in 1..n : u[l] = between[l]) /\ u[n + 1] = itself[1]
    <3>1. between \in Seq(Node) /\ itself \in Seq(Node)
      BY <1>13, <1>14
    <3>2. Len(between) = n /\ Len(itself) = 1 /\ n \in Nat
      BY <1>10, <1>13, <1>14
    <3>3. /\ u \in Seq(Node) /\ Len(u) = Len(between) + Len(itself)
          /\ \A l \in 1..Len(between) : u[l] = between[l]
          /\ \A l \in 1..Len(itself) : u[Len(between) + l] = itself[l]
      BY <3>1, Joined
    <3> HIDE DEF u
    <3> QED
      BY <3>2, <3>3
  <2> HIDE DEF u
  <2>2. \A l \in 1..(n + 1) : u[l] = new[l]
    <3> SUFFICES ASSUME NEW l \in 1..(n + 1) PROVE u[l] = new[l]
      OBVIOUS
    <3>1. CASE l = n + 1
      <4>1. new[n + 1] = nodes[d + (n + 1)] /\ d + (n + 1) = i
        BY <1>1, <1>10, <1>15 DEF n
      <4> QED
        BY <1>14, <2>1, <3>1, <4>1
    <3>2. CASE l # n + 1
      <4>1. l \in 1..n
        BY <1>10, <3>2
      <4> QED
        BY <1>13, <1>15, <2>1, <4>1
    <3> QED
      BY <3>1, <3>2
  <2>3. u = new
    BY <1>15, <2>1, <2>2, SeqEqual
  <2> QED
    BY <2>3 DEF u
<1>17. root \in Seq(Node)
  <2>1. Root \in Node
    BY DEF Root, Node
  <2> QED
    BY <2>1 DEF root
<1>18. root \o between \o itself = root \o (between \o itself)
  <2>1. between \in Seq(Node) /\ itself \in Seq(Node)
    BY <1>13, <1>14
  <2> QED
    BY <1>17, <2>1, ConcatAssociative, SMTT(60)
<1> QED
  BY <1>9, <1>16, <1>18 DEF keys, root, new

-----------------------------------------------------------------------------
(* The server *)

(* The nodes of an object after those of the objects before it. *)
LEMMA NodesJoined ==
  ASSUME NEW ns \in Seq(Node), NEW more \in Seq(Node), Linked(ns), Linked(more), Len(more) > 0,
         Len(ns) > 0 => Hangs(more[1].keys, ns[Len(ns)].keys)
  PROVE  LET all == ns \o more
         IN /\ all \in Seq(Node) /\ Len(all) = Len(ns) + Len(more) /\ Len(ns) \in Nat /\ Len(more) \in Nat
            /\ \A i \in 1..Len(ns) : all[i] = ns[i]
            /\ \A i \in 1..Len(more) : all[Len(ns) + i] = more[i]
            /\ Linked(all)
            /\ \A i \in 1..Len(ns) : i \in Records(all) <=> i \in Records(ns)
            /\ \A i \in 1..Len(more) : Len(ns) + i \in Records(all) <=> i \in Records(more)
<1> DEFINE all == ns \o more
           N == Len(ns)
           M == Len(more)
<1>1. N \in Nat /\ M \in Nat /\ M > 0
  BY LenProperties
<1>2. /\ all \in Seq(Node) /\ Len(all) = N + M
      /\ \A i \in 1..N : all[i] = ns[i]
      /\ \A i \in 1..M : all[N + i] = more[i]
  BY Joined
<1>3. /\ DOMAIN all = 1..(N + M) /\ DOMAIN ns = 1..N /\ DOMAIN more = 1..M
  BY <1>2, LenProperties
<1>4. \A i \in 1..(N + M) : i \in 1..N \/ \E j \in 1..M : i = N + j
  <2> SUFFICES ASSUME NEW i \in 1..(N + M), i \notin 1..N PROVE \E j \in 1..M : i = N + j
    OBVIOUS
  <2>1. i - N \in 1..M /\ i = N + (i - N)
    BY <1>1
  <2> QED
    BY <2>1
<1>5. more[1].keys \in Seq(Key) /\ Len(more[1].keys) = 1
  <2>1. 1 \in 1..M
    BY <1>1
  <2> QED
    BY <2>1, NodeFields DEF Linked
<1> HIDE DEF all, N, M
<1>6. Linked(all)
  <2> SUFFICES ASSUME NEW i \in 1..(N + M)
               PROVE  /\ all[i].keys # <<>>
                      /\ i = 1 => Len(all[i].keys) = 1
                      /\ i > 1 => Hangs(all[i].keys, all[i - 1].keys)
    BY <1>2 DEF Linked
  <2>1. CASE i \in 1..N
    <3>1. all[i] = ns[i] /\ (i > 1 => i - 1 \in 1..N /\ all[i - 1] = ns[i - 1])
      BY <1>1, <1>2, <2>1
    <3> QED
      BY <2>1, <3>1 DEF Linked, N
  <2>2. CASE i \notin 1..N
    <3>1. PICK j \in 1..M : i = N + j
      BY <1>4, <2>2
    <3>2. /\ more[j].keys # <<>> /\ (j = 1 => Len(more[j].keys) = 1)
          /\ (j > 1 => Hangs(more[j].keys, more[j - 1].keys))
      BY DEF Linked, M
    <3>3. all[i] = more[j]
      BY <1>2, <3>1
    <3>4. CASE j > 1
      <4>1. j - 1 \in 1..M /\ i - 1 = N + (j - 1) /\ i > 1 /\ i # 1
        BY <1>1, <3>1, <3>4
      <4>2. all[i - 1] = more[j - 1]
        BY <1>2, <4>1
      <4> QED
        BY <3>2, <3>3, <3>4, <4>1, <4>2
    <3>5. CASE j = 1
      <4>1. i > 1 => N > 0 /\ i - 1 = N /\ N \in 1..N
        BY <1>1, <3>1, <3>5
      <4>2. i > 1 => all[i - 1] = ns[N]
        BY <1>2, <4>1
      <4>3. N > 0 => Hangs(more[1].keys, ns[N].keys)
        BY DEF N
      <4> QED
        BY <3>2, <3>3, <3>5, <4>1, <4>2, <4>3
    <3> QED
      BY <3>4, <3>5
  <2> QED
    BY <2>1, <2>2
<1> DEFINE way(s, i) == s[i].val = "object" /\ i < Len(s) /\ IsStrictPrefix(s[i].keys, s[i + 1].keys)
<1>7. /\ \A i \in 1..(N + M) : i \in Records(all) <=> ~ way(all, i)
      /\ \A i \in 1..N : i \in Records(ns) <=> ~ way(ns, i)
      /\ \A i \in 1..M : i \in Records(more) <=> ~ way(more, i)
  BY <1>3 DEF Records
<1>8. ASSUME NEW i \in 1..N PROVE way(all, i) <=> way(ns, i)
  <2>1. CASE i < N
    <3>1. i + 1 \in 1..N /\ i < N + M /\ i < N
      BY <1>1, <2>1
    <3>2. all[i] = ns[i] /\ all[i + 1] = ns[i + 1]
      BY <1>2, <3>1
    <3> QED
      BY <1>2, <3>1, <3>2 DEF N
  <2>2. CASE ~ (i < N)
    <3>1. i = N /\ N > 0
      BY <1>1, <2>2
    <3>2. ~ way(ns, i)
      BY <2>2 DEF N
    <3>3. all[i] = ns[i] /\ all[i + 1] = more[1]
      BY <1>1, <1>2, <3>1
    <3>4. ns[i].keys \in Seq(Key) /\ ns[i].keys # <<>>
      BY NodeFields DEF N, Linked
    <3> DEFINE p == ns[i].keys
               q == more[1].keys
    <3>5. ~ IsStrictPrefix(p, q)
      <4>1. p \in Seq(Key) /\ p # <<>> /\ q \in Seq(Key) /\ Len(q) = 1
        BY <1>5, <3>4
      <4> HIDE DEF p, q
      <4> SUFFICES ASSUME IsPrefix(p, q), p # q PROVE FALSE
        BY DEF IsStrictPrefix
      <4>2. Len(p) <= Len(q) /\ \A k \in 1..Len(p) : p[k] = q[k]
        BY <4>1, PrefixElements
      <4>3. Len(p) \in Nat /\ Len(p) > 0
        BY <4>1, EmptySeq
      <4>4. Len(p) = Len(q)
        BY <4>1, <4>2, <4>3
      <4> QED
        BY <4>1, <4>2, <4>4, SeqEqual
    <3>6. ~ way(all, i)
      BY <3>3, <3>5
    <3> QED
      BY <3>2, <3>6
  <2> QED
    BY <2>1, <2>2
<1>9. ASSUME NEW i \in 1..M PROVE way(all, N + i) <=> way(more, i)
  <2>1. all[N + i] = more[i] /\ (N + i < N + M <=> i < M) /\ (i < M => i + 1 \in 1..M) /\ (N + i) + 1 = N + (i + 1)
    BY <1>1, <1>2
  <2>2. i < M => all[(N + i) + 1] = more[i + 1]
    BY <1>2, <2>1
  <2> QED
    BY <1>2, <2>1, <2>2 DEF M
<1> HIDE DEF way
<1>10. \A i \in 1..N : i \in Records(all) <=> i \in Records(ns)
  <2>1. \A i \in 1..N : i \in 1..(N + M)
    BY <1>1
  <2> QED
    BY <1>7, <1>8, <2>1
<1>11. \A i \in 1..M : N + i \in Records(all) <=> i \in Records(more)
  <2>1. \A i \in 1..M : N + i \in 1..(N + M)
    BY <1>1
  <2> QED
    BY <1>7, <1>9, <2>1
<1> QED
  BY <1>1, <1>2, <1>6, <1>10, <1>11 DEF all, N, M

(* A key on its own hangs on whatever starts with another one. *)
LEMMA OtherKeyHangs ==
  ASSUME NEW k \in Key, NEW p \in Seq(Key), p # <<>>, p[1] # k
  PROVE  Hangs(<<k>>, p)
<1> DEFINE q == <<k>>
<1>1. q \in Seq(Key) /\ q # <<>> /\ Len(q) = 1 /\ q[1] = k
  OBVIOUS
<1> HIDE DEF q
<1>2. Len(p) \in Nat /\ Len(p) > 0
  BY EmptySeq
<1>3. Front(q) \in Seq(Key) /\ Len(Front(q)) = 0
  BY <1>1, FrontElements
<1>4. Len(Front(q)) <= Len(p) /\ \A i \in 1..Len(Front(q)) : Front(q)[i] = p[i]
  BY <1>2, <1>3
<1>5. IsPrefix(Front(q), p)
  BY <1>3, <1>4, PrefixElements
<1>6. ~ IsPrefix(q, p)
  <2> SUFFICES ASSUME IsPrefix(q, p) PROVE FALSE
    OBVIOUS
  <2>1. \A i \in 1..Len(q) : q[i] = p[i]
    BY <1>1, PrefixElements
  <2> QED
    BY <1>1, <2>1
<1> QED
  BY <1>1, <1>5, <1>6 DEF Hangs, q

(* What is at a node, and the objects that can be built. *)
Kinds == {"object", "array", "leaf"}
Trees == UNION {[D -> Kinds] : D \in SUBSET Seq(Key)}

(* The node after which the next object begins, or will. *)
End(j) == IF j = Len(given) THEN Len(nodes) ELSE given[j + 1].from

(* The j-th object sent is o, and its nodes are there. *)
Carries(j, o) ==
  /\ o \in Objects /\ given[j].key = o.key /\ given[j].tree = o.tree
  /\ End(j) = given[j].from + Len(o.paths) /\ End(j) <= Len(nodes)
  /\ \A i \in 1..Len(o.paths) :
       nodes[given[j].from + i] = [keys |-> <<o.key>> \o o.paths[i], val |-> o.tree[o.paths[i]]]

(* The invariant of the server: the nodes are those of the objects, in their order. *)
Sending ==
  /\ nodes \in Seq(Node) /\ Linked(nodes)
  /\ given \in Seq([key : Name, tree : Trees, from : Nat])
  /\ \A j \in 1..Len(given) : \E o \in Objects : Carries(j, o)
  /\ \A j, k \in 1..Len(given) : given[j].key = given[k].key => j = k
  /\ given = <<>> => nodes = <<>>
  /\ given # <<>> => given[1].from = 0

(* An object as it is recorded when it is sent. *)
Entry == [key : Name, tree : Trees, from : Nat]

(* An object the server sends is a tree. *)
LEMMA TreeOfObject ==
  ASSUME NEW o, IsObject(o)
  PROVE  o.tree \in Trees
<1>1. {o.paths[i] : i \in 1..Len(o.paths)} \in SUBSET Seq(Key)
  BY ObjectFacts
<1>2. o.tree \in [{o.paths[i] : i \in 1..Len(o.paths)} -> Kinds]
  BY ObjectFacts DEF Kinds
<1> QED
  BY <1>1, <1>2 DEF Trees

(* The fields of an object sent. *)
LEMMA GivenEntry ==
  ASSUME Sending, NEW j \in 1..Len(given)
  PROVE  /\ given[j] \in Entry /\ given[j].key \in Name /\ given[j].tree \in Trees /\ given[j].from \in Nat
         /\ given \in Seq(Entry) /\ Len(given) \in Nat
<1>1. given \in Seq(Entry)
  BY DEF Sending, Entry
<1>2. given[j] \in Entry /\ Len(given) \in Nat
  BY <1>1, ElementOfSeq
<1> QED
  BY <1>1, <1>2 DEF Entry

(* What the server has sent so far, before and after the next object. *)
LEMMA SendGives ==
  ASSUME Sending, Send
  PROVE  \E o \in Objects :
           /\ IsObject(o)
           /\ NodesOf(o) \in Seq(Node) /\ Linked(NodesOf(o)) /\ Len(NodesOf(o)) > 0
           /\ nodes' = nodes \o NodesOf(o)
           /\ coming' = coming + Cardinality(BytesOf(NodesOf(o)))
           /\ Len(nodes) > 0 => Hangs(NodesOf(o)[1].keys, nodes[Len(nodes)].keys)
           /\ Len(given) \in Nat /\ Len(given') = Len(given) + 1 /\ given' \in Seq(Entry)
           /\ \A j \in 1..Len(given) : given'[j] = given[j] /\ given[j].key # o.key
           /\ given'[Len(given) + 1] = [key |-> o.key, tree |-> o.tree, from |-> Len(nodes)]
<1>1. PICK o \in Objects :
        /\ \A i \in DOMAIN given : given[i].key # o.key
        /\ given' = Append(given, [key |-> o.key, tree |-> o.tree, from |-> Len(nodes)])
        /\ nodes' = nodes \o NodesOf(o)
        /\ coming' = coming + Cardinality(BytesOf(NodesOf(o)))
  BY DEF Send
<1>2. IsObject(o)
  BY StreamConstants
<1> DEFINE ns == NodesOf(o)
           N == Len(nodes)
           G == Len(given)
           e == [key |-> o.key, tree |-> o.tree, from |-> N]
<1>3. /\ ns \in Seq(Node) /\ Len(ns) > 0 /\ Linked(ns) /\ ns[1].keys = <<o.key>>
  BY <1>2, NodesOfObject
<1>4. /\ nodes \in Seq(Node) /\ N \in Nat /\ Linked(nodes)
      /\ given \in Seq(Entry) /\ G \in Nat /\ DOMAIN given = 1..G
  BY LenProperties DEF Sending, Entry
<1>5. e \in Entry
  <2>1. o.key \in Name /\ o.tree \in Trees
    BY <1>2, ObjectFacts, TreeOfObject
  <2> QED
    BY <1>4, <2>1 DEF Entry
<1> HIDE DEF ns, e
<1>6. /\ given' \in Seq(Entry) /\ Len(given') = G + 1 /\ given'[G + 1] = e
      /\ \A j \in 1..G : given'[j] = given[j]
  <2>1. given' = Append(given, e)
    BY <1>1 DEF e
  <2> QED
    BY <1>4, <1>5, <2>1, AppendProperties
<1>7. ASSUME N > 0 PROVE Hangs(ns[1].keys, nodes[N].keys)
  <2>1. G \in 1..G
    <3>1. given # <<>>
      BY <1>4, <1>7 DEF Sending
    <3>2. G > 0
      BY <1>4, <3>1, EmptySeq
    <3> QED
      BY <1>4, <3>2
  <2>2. PICK u \in Objects : Carries(G, u)
    BY <2>1 DEF Sending
  <2>3. IsObject(u)
    BY StreamConstants
  <2>4. /\ Len(u.paths) \in Nat /\ Len(u.paths) > 0 /\ u.key \in Key
        /\ u.paths[Len(u.paths)] \in Seq(Key)
    <3>1. /\ Len(u.paths) \in Nat /\ Len(u.paths) > 0 /\ u.key \in Key
          /\ \A i \in 1..Len(u.paths) : u.paths[i] \in Seq(Key)
      BY <2>3, ObjectFacts
    <3> QED
      BY <3>1
  <2>5. /\ N = given[G].from + Len(u.paths) /\ given[G].key = u.key
        /\ nodes[N].keys = <<u.key>> \o u.paths[Len(u.paths)]
    <3> DEFINE l == Len(u.paths)
               at(i) == [keys |-> <<u.key>> \o u.paths[i], val |-> u.tree[u.paths[i]]]
    <3>1. End(G) = N
      BY DEF End
    <3>2. /\ End(G) = given[G].from + l /\ given[G].key = u.key
          /\ \A i \in 1..l : nodes[given[G].from + i] = at(i)
      BY <2>2 DEF Carries
    <3>3. \A i : at(i).keys = <<u.key>> \o u.paths[i]
      OBVIOUS
    <3>4. l \in 1..l
      BY <2>4
    <3> HIDE DEF at
    <3>5. nodes[given[G].from + l] = at(l) /\ given[G].from + l = N
      BY <3>1, <3>2, <3>4
    <3> QED
      BY <3>2, <3>3, <3>5
  <2>6. /\ nodes[N].keys \in Seq(Key) /\ nodes[N].keys # <<>> /\ nodes[N].keys[1] = u.key
    BY <2>4, <2>5, UnderKey
  <2>7. u.key # o.key
    BY <1>1, <1>4, <2>1, <2>5
  <2>8. o.key \in Key
    BY <1>2, ObjectFacts
  <2> QED
    BY <1>3, <2>6, <2>7, <2>8, OtherKeyHangs
<1>8. \A j \in 1..G : given[j].key # o.key
  BY <1>1, <1>4
<1> QED
  BY <1>1, <1>2, <1>3, <1>4, <1>6, <1>7, <1>8 DEF ns, e

(* What was sent stays where it is. *)
LEMMA CarriesStays ==
  ASSUME Sending, Send, NEW j \in 1..Len(given), NEW u, Carries(j, u)
  PROVE  /\ Carries(j, u)' /\ given'[j] = given[j] /\ End(j)' = End(j)
         /\ Len(nodes) <= Len(nodes') /\ \A i \in 1..Len(nodes) : nodes'[i] = nodes[i]
<1>1. PICK o \in Objects :
         /\ IsObject(o)
         /\ NodesOf(o) \in Seq(Node) /\ Linked(NodesOf(o)) /\ Len(NodesOf(o)) > 0
         /\ nodes' = nodes \o NodesOf(o)
         /\ Len(nodes) > 0 => Hangs(NodesOf(o)[1].keys, nodes[Len(nodes)].keys)
         /\ Len(given) \in Nat /\ Len(given') = Len(given) + 1 /\ given' \in Seq(Entry)
         /\ \A k \in 1..Len(given) : given'[k] = given[k] /\ given[k].key # o.key
         /\ given'[Len(given) + 1] = [key |-> o.key, tree |-> o.tree, from |-> Len(nodes)]
  BY SendGives
<1> DEFINE N == Len(nodes)
           G == Len(given)
<1>2. nodes \in Seq(Node) /\ Linked(nodes)
  BY DEF Sending
<1>3. /\ Len(nodes') = N + Len(NodesOf(o)) /\ N \in Nat /\ Len(NodesOf(o)) \in Nat
      /\ \A i \in 1..N : nodes'[i] = nodes[i]
  BY <1>1, <1>2, NodesJoined
<1>4. given'[G + 1].from = N
  BY <1>1
<1>5. End(j)' = End(j)
  <2>1. End(j)' = given'[j + 1].from
    BY <1>1 DEF End
  <2>2. CASE j = G
    BY <1>4, <2>1, <2>2 DEF End
  <2>3. CASE j # G
    <3>1. j + 1 \in 1..G
      BY <1>1, <2>3
    <3> QED
      BY <1>1, <2>1, <2>3, <3>1 DEF End
  <2> QED
    BY <2>2, <2>3
<1>6. IsObject(u)
  BY StreamConstants DEF Carries
<1>7. Len(u.paths) \in Nat
  BY <1>6, ObjectFacts
<1>8. given[j].from \in Nat /\ given'[j] = given[j]
  BY <1>1, GivenEntry
<1>9. End(j)' <= Len(nodes') /\ End(j) = given[j].from + Len(u.paths) /\ End(j) <= N
  BY <1>3, <1>5, <1>7, <1>8 DEF Carries
<1>10. ASSUME NEW i \in 1..Len(u.paths)
       PROVE  nodes'[given'[j].from + i] = [keys |-> <<u.key>> \o u.paths[i], val |-> u.tree[u.paths[i]]]
  <2>1. given[j].from + i \in 1..N
    BY <1>3, <1>7, <1>8, <1>9
  <2> QED
    BY <1>3, <1>8, <2>1 DEF Carries
<1>11. Carries(j, u)'
  BY <1>5, <1>8, <1>9, <1>10 DEF Carries
<1> QED
  BY <1>3, <1>5, <1>8, <1>11

(* The invariant of the server is kept by every step. *)
LEMMA SendingKept ==
  ASSUME Sending, SDNext
  PROVE  Sending'
<1>1. CASE Send
  <2>1. PICK o \in Objects :
           /\ IsObject(o)
           /\ NodesOf(o) \in Seq(Node) /\ Linked(NodesOf(o)) /\ Len(NodesOf(o)) > 0
           /\ nodes' = nodes \o NodesOf(o)
           /\ Len(nodes) > 0 => Hangs(NodesOf(o)[1].keys, nodes[Len(nodes)].keys)
           /\ Len(given) \in Nat /\ Len(given') = Len(given) + 1 /\ given' \in Seq(Entry)
           /\ \A j \in 1..Len(given) : given'[j] = given[j] /\ given[j].key # o.key
           /\ given'[Len(given) + 1] = [key |-> o.key, tree |-> o.tree, from |-> Len(nodes)]
    BY <1>1, SendGives
  <2> DEFINE ns == NodesOf(o)
             N == Len(nodes)
             G == Len(given)
  <2>2. nodes \in Seq(Node) /\ Linked(nodes)
    BY DEF Sending
  <2>3. /\ nodes' \in Seq(Node) /\ Len(nodes') = N + Len(ns) /\ N \in Nat /\ Len(ns) \in Nat
        /\ \A i \in 1..N : nodes'[i] = nodes[i]
        /\ \A i \in 1..Len(ns) : nodes'[N + i] = ns[i]
        /\ Linked(nodes')
    BY <2>1, <2>2, NodesJoined
  <2>4. /\ Len(ns) = Len(o.paths)
        /\ \A i \in 1..Len(ns) : ns[i] = [keys |-> <<o.key>> \o o.paths[i], val |-> o.tree[o.paths[i]]]
    BY <2>1, NodesOfObject
  <2> HIDE DEF ns
  <2>5. given'[G + 1].from = N /\ given'[G + 1].key = o.key /\ given'[G + 1].tree = o.tree
    BY <2>1
  <2>6. \A j \in 1..(G + 1) : End(j)' = IF j = G + 1 THEN N + Len(ns) ELSE End(j)
    <3> SUFFICES ASSUME NEW j \in 1..(G + 1)
                 PROVE  End(j)' = IF j = G + 1 THEN N + Len(ns) ELSE End(j)
      OBVIOUS
    <3>0. End(j)' = IF j = G + 1 THEN N + Len(ns) ELSE given'[j + 1].from
      BY <2>1, <2>3 DEF End
    <3>1. CASE j = G + 1
      BY <3>0, <3>1
    <3>2. CASE j = G
      BY <3>0, <3>2, <2>1, <2>5 DEF End
    <3>3. CASE j # G /\ j # G + 1
      <4>1. j + 1 \in 1..G
        BY <2>1, <3>3
      <4> QED
        BY <3>0, <3>3, <4>1, <2>1 DEF End
    <3> QED
      BY <3>1, <3>2, <3>3
  <2>7. ASSUME NEW j \in 1..(G + 1) PROVE \E u \in Objects : Carries(j, u)'
    <3>1. CASE j = G + 1
      <4>1. \A i \in 1..Len(o.paths) : nodes'[N + i] = [keys |-> <<o.key>> \o o.paths[i], val |-> o.tree[o.paths[i]]]
        BY <2>3, <2>4
      <4>2. End(j)' = N + Len(o.paths) /\ End(j)' <= Len(nodes')
        BY <2>3, <2>4, <2>6, <3>1
      <4>3. Carries(j, o)'
        BY <2>5, <3>1, <4>1, <4>2 DEF Carries
      <4> QED
        BY <4>3
    <3>2. CASE j # G + 1
      <4>1. j \in 1..G
        BY <2>1, <3>2
      <4>2. PICK u \in Objects : Carries(j, u)
        BY <4>1 DEF Sending
      <4>3. Carries(j, u)'
        BY <1>1, <4>1, <4>2, CarriesStays
      <4> QED
        BY <4>3
    <3> QED
      BY <3>1, <3>2
  <2>8. ASSUME NEW j \in 1..(G + 1), NEW k \in 1..(G + 1), given'[j].key = given'[k].key PROVE j = k
    <3>1. \A i \in 1..(G + 1) : i = G + 1 \/ i \in 1..G
      BY <2>1
    <3>2. \A i, l \in 1..G : given[i].key = given[l].key => i = l
      BY DEF Sending
    <3> QED
      BY <2>1, <2>5, <2>8, <3>1, <3>2
  <2>9. given' # <<>> /\ given'[1].from = 0
    <3>1. given' # <<>>
      BY <2>1
    <3>2. CASE G = 0
      <4>1. given = <<>>
        BY <3>2 DEF Sending
      <4>2. N = 0
        BY <4>1 DEF Sending
      <4>3. G + 1 = 1
        BY <3>2
      <4> QED
        BY <3>1, <2>5, <4>2, <4>3
    <3>3. CASE G # 0
      <4>1. 1 \in 1..G /\ given # <<>>
        BY <2>1, <3>3
      <4> QED
        BY <3>1, <2>1, <4>1 DEF Sending
    <3> QED
      BY <3>2, <3>3
  <2>10. \A j \in 1..Len(given') : \E u \in Objects : Carries(j, u)'
    BY <2>1, <2>7
  <2>11. \A j, k \in 1..Len(given') : given'[j].key = given'[k].key => j = k
    BY <2>1, <2>8
  <2> QED
    BY <2>1, <2>3, <2>9, <2>10, <2>11 DEF Sending, Entry
<1>2. CASE UNCHANGED <<given, nodes>>
  BY <1>2 DEF Sending, Carries, End
<1>3. Send \/ UNCHANGED <<given, nodes>>
  BY DEF SDNext, Chunk, StreamEnds, ReaderFails, TakeHeader, TakePayload, Await, DecodeRecord, YieldNodes,
         FoldNode, FoldMore, serverVars
<1> QED
  BY <1>1, <1>2, <1>3

-----------------------------------------------------------------------------
(* Bytes *)

(* The same number of elements, one for one. *)
LEMMA SameSize ==
  ASSUME NEW S, IsFiniteSet(S), NEW T, NEW g \in [S -> T],
         \A t \in T : \E s \in S : g[s] = t,
         \A r, s \in S : g[r] = g[s] => r = s
  PROVE  IsFiniteSet(T) /\ Cardinality(T) = Cardinality(S)
<1>1. g \in Bijection(S, T)
  BY DEF Bijection, Injection, Surjection, IsInjective
<1>2. ExistsBijection(S, T)
  BY <1>1, Zenon DEF ExistsBijection
<1> QED
  BY <1>2, FS_Bijection

(* A byte of a frame: which frame it belongs to, and its place there. *)
LEMMA BytesAre ==
  ASSUME NEW ns
  PROVE  \A b : b \in BytesOf(ns) <=>
                  \E i \in Records(ns), h \in {"path", "value"} :
                    \E k \in 1..(HeaderSize + FrameSize(ns[i], h)) : b = <<<<i, h>>, k>>
<1> DEFINE F == Records(ns) \X {"path", "value"}
           of(f) == {f} \X (1..(HeaderSize + FrameSize(ns[f[1]], f[2])))
<1>1. BytesOf(ns) = UNION {of(f) : f \in F}
  BY DEF BytesOf
<1>2. ASSUME NEW i, NEW h PROVE of(<<i, h>>) = {<<i, h>>} \X (1..(HeaderSize + FrameSize(ns[i], h)))
  OBVIOUS
<1>3. ASSUME NEW b, b \in BytesOf(ns)
      PROVE  \E i \in Records(ns), h \in {"path", "value"} :
               \E k \in 1..(HeaderSize + FrameSize(ns[i], h)) : b = <<<<i, h>>, k>>
  <2>1. PICK f \in F : b \in of(f)
    BY <1>1, <1>3
  <2>2. PICK i \in Records(ns), h \in {"path", "value"} : f = <<i, h>>
    OBVIOUS
  <2>3. b \in {<<i, h>>} \X (1..(HeaderSize + FrameSize(ns[i], h)))
    BY <1>2, <2>1, <2>2
  <2>4. PICK k \in 1..(HeaderSize + FrameSize(ns[i], h)) : b = <<<<i, h>>, k>>
    BY <2>3
  <2> QED
    BY <2>4
<1>4. ASSUME NEW i \in Records(ns), NEW h \in {"path", "value"},
             NEW k \in 1..(HeaderSize + FrameSize(ns[i], h))
      PROVE  <<<<i, h>>, k>> \in BytesOf(ns)
  <2>1. <<i, h>> \in F /\ <<<<i, h>>, k>> \in of(<<i, h>>)
    BY <1>2
  <2> HIDE DEF F, of
  <2> QED
    BY <1>1, <2>1
<1> QED
  BY <1>3, <1>4

(* There are finitely many bytes. *)
LEMMA BytesFinite ==
  ASSUME NEW ns \in Seq(Node)
  PROVE  IsFiniteSet(BytesOf(ns))
<1> DEFINE F == Records(ns) \X {"path", "value"}
           of(f) == {f} \X (1..(HeaderSize + FrameSize(ns[f[1]], f[2])))
           g == [f \in F |-> of(f)]
           T == {of(f) : f \in F}
<1>1. IsFiniteSet(F)
  <2>1. Records(ns) \subseteq 1..Len(ns) /\ Len(ns) \in Nat
    BY RecordsAre
  <2>2. IsFiniteSet(Records(ns))
    <3>1. 1 \in Int /\ Len(ns) \in Int
      BY <2>1
    <3>2. IsFiniteSet(1..Len(ns)) /\ Records(ns) \in SUBSET (1..Len(ns))
      BY <2>1, <3>1, FS_Interval
    <3> QED
      BY <3>2, FS_Subset
  <2>3. IsFiniteSet({"path", "value"})
    <3>1. IsFiniteSet({"path"}) /\ {"path", "value"} = {"path"} \cup {"value"}
      BY FS_Singleton
    <3> QED
      BY <3>1, FS_AddElement
  <2> QED
    BY <2>2, <2>3, FS_Product
<1>2. ASSUME NEW f \in F PROVE IsFiniteSet(of(f))
  <2>1. f[1] \in 1..Len(ns) /\ f[2] \in {"path", "value"}
    BY RecordsAre
  <2>2. ns[f[1]].keys \in Seq(Key)
    BY <2>1, NodeFields
  <2>3. HeaderSize + FrameSize(ns[f[1]], f[2]) \in Int
    BY <2>2, StreamConstants DEF FrameSize
  <2>4. IsFiniteSet(1..(HeaderSize + FrameSize(ns[f[1]], f[2])))
    BY <2>3, FS_Interval
  <2>5. IsFiniteSet({f})
    BY FS_Singleton
  <2> QED
    BY <2>4, <2>5, FS_Product
<1> HIDE DEF of, F
<1>3. IsFiniteSet(T)
  <2>1. g \in Surjection(F, T)
    BY DEF Surjection
  <2> QED
    BY <1>1, <2>1, FS_Surjection
<1>4. \A t \in T : IsFiniteSet(t)
  BY <1>2
<1>5. BytesOf(ns) = UNION T
  BY DEF BytesOf, of, F
<1> HIDE DEF T
<1> QED
  BY <1>3, <1>4, <1>5, FS_UNION

(* No frame is empty. *)
LEMMA FrameSizes ==
  ASSUME NEW ns \in Seq(Node), Linked(ns), NEW i \in 1..Len(ns), NEW h
  PROVE  FrameSize(ns[i], h) \in Nat /\ FrameSize(ns[i], h) > 0
<1>1. ns[i].keys \in Seq(Key) /\ ns[i].keys # <<>>
  BY NodeFields DEF Linked
<1>2. Len(ns[i].keys) \in Nat /\ Len(ns[i].keys) > 0
  BY <1>1, EmptySeq
<1> QED
  BY <1>2 DEF FrameSize

(* The bytes of the objects sent, and of one more. *)
LEMMA BytesJoined ==
  ASSUME NEW ns \in Seq(Node), NEW more \in Seq(Node), Linked(ns), Linked(more), Len(more) > 0,
         Len(ns) > 0 => Hangs(more[1].keys, ns[Len(ns)].keys)
  PROVE  \E new : /\ BytesOf(ns \o more) = BytesOf(ns) \cup new
                  /\ \A b \in new : b[1][1] > Len(ns) /\ b[1][1] \in Nat
                  /\ \A b \in BytesOf(ns) : b[1][1] \in 1..Len(ns)
                  /\ IsFiniteSet(new) /\ Cardinality(new) = Cardinality(BytesOf(more))
<1> DEFINE all == ns \o more
           N == Len(ns)
           M == Len(more)
           shift(b) == <<<<N + b[1][1], b[1][2]>>, b[2]>>
           new == {shift(b) : b \in BytesOf(more)}
<1>1. /\ all \in Seq(Node) /\ Len(all) = N + M /\ N \in Nat /\ M \in Nat
      /\ \A i \in 1..N : all[i] = ns[i]
      /\ \A i \in 1..M : all[N + i] = more[i]
      /\ \A i \in 1..N : i \in Records(all) <=> i \in Records(ns)
      /\ \A i \in 1..M : N + i \in Records(all) <=> i \in Records(more)
  BY NodesJoined
<1>2. /\ Records(ns) \subseteq 1..N /\ Records(more) \subseteq 1..M /\ Records(all) \subseteq 1..(N + M)
  BY <1>1, RecordsAre
<1> HIDE DEF all, N, M
<1> DEFINE H == {"path", "value"}
<1>3. /\ \A b : b \in BytesOf(all) <=> \E i \in Records(all), h \in H :
                  \E k \in 1..(HeaderSize + FrameSize(all[i], h)) : b = <<<<i, h>>, k>>
      /\ \A b : b \in BytesOf(ns) <=> \E i \in Records(ns), h \in H :
                  \E k \in 1..(HeaderSize + FrameSize(ns[i], h)) : b = <<<<i, h>>, k>>
      /\ \A b : b \in BytesOf(more) <=> \E i \in Records(more), h \in H :
                  \E k \in 1..(HeaderSize + FrameSize(more[i], h)) : b = <<<<i, h>>, k>>
  BY BytesAre
<1> HIDE DEF H
<1>4. \A i, h, k : shift(<<<<i, h>>, k>>) = <<<<N + i, h>>, k>>
  OBVIOUS
<1>5. ASSUME NEW b \in BytesOf(all) PROVE b \in BytesOf(ns) \/ b \in new
  <2>1. PICK i \in Records(all), h \in H : \E k \in 1..(HeaderSize + FrameSize(all[i], h)) : b = <<<<i, h>>, k>>
    BY <1>3
  <2>2. PICK k \in 1..(HeaderSize + FrameSize(all[i], h)) : b = <<<<i, h>>, k>>
    BY <2>1
  <2>3. CASE i \in 1..N
    <3>1. i \in Records(ns) /\ all[i] = ns[i]
      BY <1>1, <2>3
    <3> QED
      BY <1>3, <2>2, <3>1
  <2>4. CASE i \notin 1..N
    <3>1. i - N \in 1..M /\ i = N + (i - N)
      BY <1>1, <1>2, <2>4
    <3> DEFINE j == i - N
    <3>2. j \in 1..M /\ i = N + j
      BY <3>1
    <3> HIDE DEF j
    <3>3. j \in Records(more) /\ all[i] = more[j]
      BY <1>1, <3>2
    <3>4. <<<<j, h>>, k>> \in BytesOf(more)
      BY <1>3, <2>2, <3>3
    <3>5. shift(<<<<j, h>>, k>>) = b
      BY <1>4, <2>2, <3>2
    <3> QED
      BY <3>4, <3>5
  <2> QED
    BY <2>3, <2>4
<1>6. ASSUME NEW b \in BytesOf(ns) PROVE b \in BytesOf(all) /\ b[1][1] \in 1..N
  <2>1. PICK i \in Records(ns), h \in H : \E k \in 1..(HeaderSize + FrameSize(ns[i], h)) : b = <<<<i, h>>, k>>
    BY <1>3
  <2>2. PICK k \in 1..(HeaderSize + FrameSize(ns[i], h)) : b = <<<<i, h>>, k>>
    BY <2>1
  <2>3. i \in 1..N /\ i \in Records(all) /\ all[i] = ns[i]
    BY <1>1, <1>2
  <2> QED
    BY <1>3, <2>2, <2>3
<1>7. ASSUME NEW c \in BytesOf(more)
      PROVE  /\ shift(c) \in BytesOf(all) /\ shift(c)[1][1] > N /\ shift(c)[1][1] \in Nat
             /\ c = <<<<shift(c)[1][1] - N, shift(c)[1][2]>>, shift(c)[2]>>
  <2>1. PICK i \in Records(more), h \in H : \E k \in 1..(HeaderSize + FrameSize(more[i], h)) : c = <<<<i, h>>, k>>
    BY <1>3
  <2>2. PICK k \in 1..(HeaderSize + FrameSize(more[i], h)) : c = <<<<i, h>>, k>>
    BY <2>1
  <2>3. i \in 1..M /\ N + i \in Records(all) /\ all[N + i] = more[i] /\ N + i > N /\ N + i \in Nat /\ (N + i) - N = i
    <3>1. i \in 1..M
      BY <1>2
    <3>2. N + i \in Records(all) /\ all[N + i] = more[i]
      BY <1>1, <3>1
    <3>3. N + i > N /\ N + i \in Nat /\ (N + i) - N = i
      BY <1>1, <3>1
    <3> QED
      BY <3>1, <3>2, <3>3
  <2>4. shift(c) = <<<<N + i, h>>, k>>
    BY <1>4, <2>2
  <2> HIDE DEF shift
  <2>5. shift(c) \in BytesOf(all)
    BY <1>3, <2>2, <2>3, <2>4
  <2>6. shift(c)[1][1] = N + i /\ shift(c)[1][2] = h /\ shift(c)[2] = k
    BY <2>4
  <2> QED
    BY <2>2, <2>3, <2>5, <2>6
<1>8. IsFiniteSet(new) /\ Cardinality(new) = Cardinality(BytesOf(more))
  <2> DEFINE g == [c \in BytesOf(more) |-> shift(c)]
  <2> HIDE DEF shift
  <2>1. ASSUME NEW r \in BytesOf(more), NEW s \in BytesOf(more), shift(r) = shift(s) PROVE r = s
    <3>1. r = <<<<shift(r)[1][1] - N, shift(r)[1][2]>>, shift(r)[2]>>
      BY <1>7
    <3>2. s = <<<<shift(s)[1][1] - N, shift(s)[1][2]>>, shift(s)[2]>>
      BY <1>7
    <3> QED
      BY <2>1, <3>1, <3>2
  <2>2. g \in [BytesOf(more) -> new] /\ \A t \in new : \E s \in BytesOf(more) : g[s] = t
    OBVIOUS
  <2>3. \A r, s \in BytesOf(more) : g[r] = g[s] => r = s
    BY <2>1
  <2> HIDE DEF g, new
  <2> QED
    BY <2>2, <2>3, BytesFinite, SameSize
<1> HIDE DEF shift
<1>9. BytesOf(all) = BytesOf(ns) \cup new
  BY <1>5, <1>6, <1>7
<1>10. \A b \in new : b[1][1] > N /\ b[1][1] \in Nat
  BY <1>7
<1>11. \A b \in BytesOf(ns) : b[1][1] \in 1..N
  BY <1>6
<1> HIDE DEF new
<1> QED
  BY <1>8, <1>9, <1>10, <1>11 DEF all, N

(* The record that follows a node. *)
Following(ns, d) == CHOOSE j \in Records(ns) : j > d /\ \A k \in Records(ns) : k > d => j <= k

(* While nodes are left there is a next record. *)
LEMMA FollowingIs ==
  ASSUME NEW ns \in Seq(Node), NEW d \in Nat, d < Len(ns)
  PROVE  LET r == Following(ns, d)
         IN /\ r \in Records(ns) /\ r \in 1..Len(ns) /\ r > d
            /\ \A k \in Records(ns) : k > d => r <= k
<1> DEFINE R == Records(ns)
           Least(j) == j \in R /\ j > d /\ \A k \in R : k > d => j <= k
           S == {k \in R : k > d}
<1>1. R \subseteq 1..Len(ns) /\ Len(ns) \in Nat /\ Len(ns) \in R
  BY RecordsAre
<1> HIDE DEF R
<1>2. S \subseteq Nat /\ S # {}
  <2>1. Len(ns) \in S /\ 1..Len(ns) \subseteq Nat
    BY <1>1
  <2> QED
    BY <1>1, <2>1
<1>3. PICK j \in S : \A k \in S : j <= k
  <2> HIDE DEF S
  <2> QED
    BY <1>2, LeastNumber
<1>4. Least(j)
  BY <1>3
<1>5. Following(ns, d) = CHOOSE i \in R : i > d /\ \A k \in R : k > d => i <= k
  BY DEF Following, R
<1>6. Least(Following(ns, d))
  BY <1>4, <1>5, Zenon
<1> QED
  BY <1>1, <1>6 DEF R

(* It stays the one when more nodes are sent. *)
LEMMA FollowingStays ==
  ASSUME NEW ns \in Seq(Node), NEW all \in Seq(Node), NEW d \in Nat, d < Len(ns), Len(ns) <= Len(all),
         \A i \in 1..Len(ns) : i \in Records(all) <=> i \in Records(ns)
  PROVE  Following(all, d) = Following(ns, d)
<1>1. Len(ns) \in Nat /\ Len(all) \in Nat /\ d < Len(all) /\ Records(all) \subseteq 1..Len(all)
  BY LenProperties, RecordsAre
<1> DEFINE r == Following(ns, d)
           s == Following(all, d)
<1>2. r \in Records(ns) /\ r \in 1..Len(ns) /\ r > d /\ \A k \in Records(ns) : k > d => r <= k
  BY FollowingIs
<1>3. s \in Records(all) /\ s \in 1..Len(all) /\ s > d /\ \A k \in Records(all) : k > d => s <= k
  BY <1>1, FollowingIs
<1> HIDE DEF r, s
<1>4. s <= r
  BY <1>2, <1>3
<1>5. s \in Records(ns)
  BY <1>1, <1>2, <1>3, <1>4
<1>6. r <= s
  BY <1>2, <1>3, <1>5
<1>7. r = s
  BY <1>2, <1>3, <1>4, <1>6
<1> QED
  BY <1>7 DEF r, s

(* The bytes that are still to come of the nodes ns, when both frames up to node t  *)
(* were taken and the part p of the frame h is next.                                *)
IsHad(i, f, k, t, r, h, p) ==
  \/ i <= t
  \/ /\ i = r
     /\ \/ f = "path" /\ h = "value"
        \/ f = h /\ p = "payload" /\ k <= HeaderSize

(* The bytes of the nodes that were not taken yet. *)
Left(ns, t, h, p) == {b \in BytesOf(ns) : ~ IsHad(b[1][1], b[1][2], b[2], t, Following(ns, t), h, p)}

(* They are finitely many, too. *)
LEMMA LeftFinite ==
  ASSUME NEW ns \in Seq(Node), NEW t, NEW h, NEW p
  PROVE  IsFiniteSet(Left(ns, t, h, p)) /\ Cardinality(Left(ns, t, h, p)) \in Nat
<1>1. IsFiniteSet(BytesOf(ns)) /\ Left(ns, t, h, p) \in SUBSET BytesOf(ns)
  BY BytesFinite DEF Left
<1>2. IsFiniteSet(Left(ns, t, h, p))
  BY <1>1, FS_Subset
<1> QED
  BY <1>2, FS_CardinalityType

(* Bytes of one frame, one after the other. *)
Piece(i, h, lo, hi) == {<<<<i, h>>, k>> : k \in lo..hi}

(* A piece taken from a set of bytes is that much less. *)
LEMMA PieceTaken ==
  ASSUME NEW A, IsFiniteSet(A), NEW B, NEW i, NEW h, NEW lo \in Nat, NEW hi \in Nat, lo <= hi,
         Piece(i, h, lo, hi) \subseteq A, B = A \ Piece(i, h, lo, hi)
  PROVE  /\ Cardinality(B) = Cardinality(A) - (hi - lo + 1)
         /\ Cardinality(B) \in Nat /\ Cardinality(A) \in Nat
<1> DEFINE P == Piece(i, h, lo, hi)
           g == [k \in lo..hi |-> <<<<i, h>>, k>>]
<1>1. IsFiniteSet(lo..hi) /\ Cardinality(lo..hi) = hi - lo + 1
  <2>1. IsFiniteSet(lo..hi) /\ Cardinality(lo..hi) = IF lo > hi THEN 0 ELSE hi - lo + 1
    BY FS_Interval
  <2> QED
    BY <2>1
<1>2. /\ g \in [lo..hi -> P] /\ \A t \in P : \E s \in lo..hi : g[s] = t
      /\ \A r, s \in lo..hi : g[r] = g[s] => r = s
  BY DEF Piece
<1> HIDE DEF g, P
<1>3. Cardinality(P) = hi - lo + 1
  <2> DEFINE I == lo..hi
  <2> HIDE DEF I
  <2>1. IsFiniteSet(I) /\ g \in [I -> P] /\ (\A t \in P : \E s \in I : g[s] = t)
        /\ \A r, s \in I : g[r] = g[s] => r = s
    BY <1>1, <1>2 DEF I
  <2>2. Cardinality(P) = Cardinality(I)
    BY <2>1, SameSize
  <2> QED
    BY <1>1, <2>2 DEF I
<1>4. A \cap P = P /\ B = A \ P
  BY DEF P
<1>5. IsFiniteSet(B) /\ Cardinality(B) = Cardinality(A) - Cardinality(P)
  BY <1>4, FS_Difference
<1>6. Cardinality(B) \in Nat /\ Cardinality(A) \in Nat
  BY <1>5, FS_CardinalityType
<1> QED
  BY <1>3, <1>5, <1>6

(* A record has two frames. *)
Halves == {"path", "value"}

(* Every byte that is left is one of the record that follows, or a later one. *)
LEMMA LeftAre ==
  ASSUME NEW ns \in Seq(Node), Linked(ns), NEW t \in Nat, t < Len(ns), NEW h \in Halves, NEW p \in {"header", "payload"}
  PROVE  LET r == Following(ns, t)
         IN \A b : b \in Left(ns, t, h, p) <=>
                     \E i \in Records(ns), f \in Halves :
                       \E k \in 1..(HeaderSize + FrameSize(ns[i], f)) :
                         /\ b = <<<<i, f>>, k>>
                         /\ \/ i > r
                            \/ i = r /\ (f = "path" => h # "value")
                                     /\ (f = h /\ p = "payload" => k > HeaderSize)
<1> DEFINE r == Following(ns, t)
           ok(i, f, k) == \/ i > r
                          \/ i = r /\ (f = "path" => h # "value")
                                   /\ (f = h /\ p = "payload" => k > HeaderSize)
<1>1. r \in Records(ns) /\ r \in 1..Len(ns) /\ r > t /\ \A k \in Records(ns) : k > t => r <= k
  BY FollowingIs
<1>2. Records(ns) \subseteq 1..Len(ns) /\ Len(ns) \in Nat
  BY RecordsAre
<1>3. HeaderSize \in Nat /\ \A i \in 1..Len(ns), f \in Halves : HeaderSize + FrameSize(ns[i], f) \in Nat
  BY FrameSizes, StreamConstants
<1>4. \A b : b \in BytesOf(ns) <=>
               \E i \in Records(ns), f \in Halves :
                 \E k \in 1..(HeaderSize + FrameSize(ns[i], f)) : b = <<<<i, f>>, k>>
  BY BytesAre DEF Halves
<1> HIDE DEF r
<1>5. ASSUME NEW i \in Records(ns), NEW f \in Halves, NEW k \in 1..(HeaderSize + FrameSize(ns[i], f))
      PROVE  ~ IsHad(i, f, k, t, r, h, p) <=> ok(i, f, k)
  <2>1. i \in 1..Len(ns) /\ i \in Nat /\ k \in Nat /\ r \in Nat /\ HeaderSize \in Nat /\ (i > t => r <= i)
    BY <1>1, <1>2, <1>3
  <2>2. CASE i <= t
    <3>1. ~ (i > r) /\ i # r
      BY <1>1, <2>1, <2>2
    <3> QED
      BY <2>2, <3>1 DEF IsHad
  <2>3. CASE i = r
    <3>1. ~ (i <= t) /\ ~ (i > r) /\ (~ (k <= HeaderSize) <=> k > HeaderSize)
      BY <1>1, <2>1, <2>3
    <3> QED
      BY <2>3, <3>1 DEF IsHad
  <2>4. CASE i > t /\ i # r
    <3>1. ~ (i <= t) /\ i > r
      BY <1>1, <2>1, <2>4
    <3> QED
      BY <2>4, <3>1 DEF IsHad
  <2> QED
    BY <2>1, <2>2, <2>3, <2>4
<1>6. ASSUME NEW i, NEW f, NEW k
      PROVE  <<<<i, f>>, k>> \in Left(ns, t, h, p)
               <=> <<<<i, f>>, k>> \in BytesOf(ns) /\ ~ IsHad(i, f, k, t, r, h, p)
  <2> DEFINE b == <<<<i, f>>, k>>
  <2>1. b[1][1] = i /\ b[1][2] = f /\ b[2] = k
    OBVIOUS
  <2> HIDE DEF b
  <2>2. b \in Left(ns, t, h, p) <=> b \in BytesOf(ns) /\ ~ IsHad(b[1][1], b[1][2], b[2], t, r, h, p)
    BY DEF Left, r
  <2> QED
    BY <2>1, <2>2 DEF b
<1> HIDE DEF ok
<1>7. \A b : b \in Left(ns, t, h, p) <=>
              \E i \in Records(ns), f \in Halves :
                \E k \in 1..(HeaderSize + FrameSize(ns[i], f)) : b = <<<<i, f>>, k>> /\ ok(i, f, k)
  <2>1. Left(ns, t, h, p) \subseteq BytesOf(ns)
    BY DEF Left
  <2> QED
    BY <1>4, <1>5, <1>6, <2>1
<1> QED
  BY <1>7 DEF ok, r

(* The four things that happen to the bytes that are left. *)
LEMMA HeaderLeaves ==
  ASSUME NEW ns \in Seq(Node), Linked(ns), NEW t \in Nat, t < Len(ns), NEW h \in Halves
  PROVE  /\ Cardinality(Left(ns, t, h, "payload")) = Cardinality(Left(ns, t, h, "header")) - HeaderSize
         /\ Cardinality(Left(ns, t, h, "header")) >= HeaderSize
<1> DEFINE r == Following(ns, t)
           A == Left(ns, t, h, "header")
           B == Left(ns, t, h, "payload")
<1>1. r \in Records(ns) /\ r \in 1..Len(ns)
  BY FollowingIs
<1>2. HeaderSize \in Nat /\ HeaderSize > 0 /\ FrameSize(ns[r], h) \in Nat
  BY <1>1, FrameSizes, StreamConstants
<1>3. "header" \in {"header", "payload"} /\ "payload" \in {"header", "payload"} /\ "header" # "payload"
  OBVIOUS
<1>4. /\ \A b : b \in A <=> \E i \in Records(ns), f \in Halves :
                   \E k \in 1..(HeaderSize + FrameSize(ns[i], f)) :
                     /\ b = <<<<i, f>>, k>>
                     /\ \/ i > r
                        \/ i = r /\ (f = "path" => h # "value")
                                 /\ (f = h /\ "header" = "payload" => k > HeaderSize)
      /\ \A b : b \in B <=> \E i \in Records(ns), f \in Halves :
                   \E k \in 1..(HeaderSize + FrameSize(ns[i], f)) :
                     /\ b = <<<<i, f>>, k>>
                     /\ \/ i > r
                        \/ i = r /\ (f = "path" => h # "value")
                                 /\ (f = h /\ "payload" = "payload" => k > HeaderSize)
  BY <1>3, LeftAre
<1> DEFINE P == Piece(r, h, 1, HeaderSize)
<1> HIDE DEF A, B, r
<1>5. ASSUME NEW k \in 1..HeaderSize PROVE <<<<r, h>>, k>> \in A
  <2>1. k \in 1..(HeaderSize + FrameSize(ns[r], h))
    BY <1>2
  <2>2. h = "path" => h # "value"
    OBVIOUS
  <2> QED
    BY <1>1, <1>3, <1>4, <2>1, <2>2
<1>6. P \subseteq A
  BY <1>5 DEF Piece
<1>7. B \subseteq A
  BY <1>3, <1>4
<1>8. ASSUME NEW b \in B, b \in P PROVE FALSE
  <2>1. PICK k \in 1..HeaderSize : b = <<<<r, h>>, k>>
    BY <1>8 DEF Piece
  <2>2. PICK i \in Records(ns), f \in Halves :
          \E l \in 1..(HeaderSize + FrameSize(ns[i], f)) :
            /\ b = <<<<i, f>>, l>>
            /\ \/ i > r
               \/ i = r /\ (f = "path" => h # "value")
                        /\ (f = h /\ "payload" = "payload" => l > HeaderSize)
    BY <1>4
  <2>3. PICK l \in 1..(HeaderSize + FrameSize(ns[i], f)) :
            /\ b = <<<<i, f>>, l>>
            /\ \/ i > r
               \/ i = r /\ (f = "path" => h # "value")
                        /\ (f = h /\ "payload" = "payload" => l > HeaderSize)
    BY <2>2
  <2>4. i = r /\ f = h /\ l = k
    BY <2>1, <2>3
  <2> QED
    BY <1>1, <1>2, <2>3, <2>4
<1>9. ASSUME NEW b \in A, b \notin P PROVE b \in B
  <2>2. PICK i \in Records(ns), f \in Halves :
          \E l \in 1..(HeaderSize + FrameSize(ns[i], f)) :
            /\ b = <<<<i, f>>, l>>
            /\ \/ i > r
               \/ i = r /\ (f = "path" => h # "value")
    BY <1>4
  <2>3. PICK l \in 1..(HeaderSize + FrameSize(ns[i], f)) :
            /\ b = <<<<i, f>>, l>>
            /\ \/ i > r
               \/ i = r /\ (f = "path" => h # "value")
    BY <2>2
  <2>4. ASSUME i = r, f = h PROVE l > HeaderSize
    <3>1. l \notin 1..HeaderSize
      BY <1>9, <2>3, <2>4 DEF Piece
    <3>2. l \in Nat /\ l >= 1
      BY <1>2, <2>4
    <3> QED
      BY <1>2, <3>1, <3>2
  <2> QED
    BY <1>4, <2>3, <2>4
<1>10. B = A \ P
  BY <1>7, <1>8, <1>9
<1>11. IsFiniteSet(A)
  BY LeftFinite DEF A
<1>12. /\ Cardinality(B) = Cardinality(A) - (HeaderSize - 1 + 1)
       /\ Cardinality(B) \in Nat /\ Cardinality(A) \in Nat
  <2>1. 1 \in Nat /\ HeaderSize \in Nat /\ 1 <= HeaderSize
    BY <1>2
  <2> QED
    BY <1>6, <1>10, <1>11, <2>1, PieceTaken
<1>13. Cardinality(B) = Cardinality(A) - HeaderSize /\ Cardinality(A) >= HeaderSize
  BY <1>2, <1>12
<1> QED
  BY <1>13 DEF A, B

(* Taking the path of a record leaves its size less. *)
LEMMA PathLeaves ==
  ASSUME NEW ns \in Seq(Node), Linked(ns), NEW t \in Nat, t < Len(ns)
  PROVE  Cardinality(Left(ns, t, "value", "header"))
           = Cardinality(Left(ns, t, "path", "payload")) - FrameSize(ns[Following(ns, t)], "path")
<1> DEFINE r == Following(ns, t)
           A == Left(ns, t, "path", "payload")
           B == Left(ns, t, "value", "header")
           size == FrameSize(ns[r], "path")
           lo == HeaderSize + 1
           hi == HeaderSize + size
           P == Piece(r, "path", lo, hi)
<1>1. r \in Records(ns) /\ r \in 1..Len(ns)
  BY FollowingIs
<1>2. HeaderSize \in Nat /\ size \in Nat /\ size > 0
  BY <1>1, FrameSizes, StreamConstants
<1>3. "path" \in Halves /\ "value" \in Halves /\ "path" # "value" /\ \A f \in Halves : f = "path" \/ f = "value"
  BY DEF Halves
<1>4. \A b : b \in A <=> \E i \in Records(ns), f \in Halves :
                \E k \in 1..(HeaderSize + FrameSize(ns[i], f)) :
                  /\ b = <<<<i, f>>, k>>
                  /\ \/ i > r
                     \/ i = r /\ (f = "path" => k > HeaderSize)
  <2>1. \A b : b \in A <=> \E i \in Records(ns), f \in Halves :
                \E k \in 1..(HeaderSize + FrameSize(ns[i], f)) :
                  /\ b = <<<<i, f>>, k>>
                  /\ \/ i > r
                     \/ i = r /\ (f = "path" => "path" # "value")
                              /\ (f = "path" /\ "payload" = "payload" => k > HeaderSize)
    BY <1>3, LeftAre
  <2> HIDE DEF A, r
  <2> QED
    BY <2>1
<1>5. \A b : b \in B <=> \E i \in Records(ns), f \in Halves :
                \E k \in 1..(HeaderSize + FrameSize(ns[i], f)) :
                  /\ b = <<<<i, f>>, k>>
                  /\ \/ i > r
                     \/ i = r /\ f # "path"
  <2>1. \A b : b \in B <=> \E i \in Records(ns), f \in Halves :
                \E k \in 1..(HeaderSize + FrameSize(ns[i], f)) :
                  /\ b = <<<<i, f>>, k>>
                  /\ \/ i > r
                     \/ i = r /\ (f = "path" => "value" # "value")
                              /\ (f = "value" /\ "header" = "payload" => k > HeaderSize)
    BY <1>3, LeftAre
  <2> HIDE DEF B, r
  <2> QED
    BY <2>1
<1>6. FrameSize(ns[r], "path") = size
  OBVIOUS
<1> HIDE DEF A, B, r, size
<1>7. P \subseteq A
  <2> SUFFICES ASSUME NEW k \in (HeaderSize + 1)..(HeaderSize + size) PROVE <<<<r, "path">>, k>> \in A
    BY DEF Piece
  <2>1. k \in 1..(HeaderSize + FrameSize(ns[r], "path")) /\ k > HeaderSize
    BY <1>2, <1>6
  <2> QED
    BY <1>1, <1>3, <1>4, <2>1
<1>8. ASSUME NEW b \in B PROVE b \in A /\ b \notin P
  <2>1. PICK i \in Records(ns), f \in Halves :
          \E k \in 1..(HeaderSize + FrameSize(ns[i], f)) :
            /\ b = <<<<i, f>>, k>>
            /\ i > r \/ (i = r /\ f # "path")
    BY <1>5
  <2>2. PICK k \in 1..(HeaderSize + FrameSize(ns[i], f)) :
            /\ b = <<<<i, f>>, k>>
            /\ i > r \/ (i = r /\ f # "path")
    BY <2>1
  <2>3. b \in A
    BY <1>4, <2>2
  <2>4. ASSUME b \in P PROVE FALSE
    <3>1. PICK l \in (HeaderSize + 1)..(HeaderSize + size) : b = <<<<r, "path">>, l>>
      BY <2>4 DEF Piece
    <3>2. i = r /\ f = "path"
      BY <2>2, <3>1
    <3>3. ~ (i > r)
      BY <1>1, <3>2
    <3> QED
      BY <2>2, <3>2, <3>3
  <2> QED
    BY <2>3, <2>4
<1>9. ASSUME NEW b \in A, b \notin P PROVE b \in B
  <2>1. PICK i \in Records(ns), f \in Halves :
          \E k \in 1..(HeaderSize + FrameSize(ns[i], f)) :
            /\ b = <<<<i, f>>, k>>
            /\ i > r \/ (i = r /\ (f = "path" => k > HeaderSize))
    BY <1>4
  <2>2. PICK k \in 1..(HeaderSize + FrameSize(ns[i], f)) :
            /\ b = <<<<i, f>>, k>>
            /\ i > r \/ (i = r /\ (f = "path" => k > HeaderSize))
    BY <2>1
  <2>3. ASSUME i = r, f = "path" PROVE FALSE
    <3>1. ~ (i > r)
      BY <1>1, <2>3
    <3>2. k > HeaderSize /\ k <= HeaderSize + size /\ k \in Nat
      BY <1>2, <1>6, <2>2, <2>3, <3>1
    <3>3. k \in (HeaderSize + 1)..(HeaderSize + size)
      BY <1>2, <3>2
    <3> QED
      BY <1>9, <2>2, <2>3, <3>3 DEF Piece
  <2> QED
    BY <1>5, <2>2, <2>3
<1>10. B = A \ P
  BY <1>8, <1>9
<1>11. IsFiniteSet(A)
  BY LeftFinite DEF A
<1>12. Cardinality(B) = Cardinality(A) - (hi - lo + 1) /\ Cardinality(A) \in Nat
  <2>1. lo \in Nat /\ hi \in Nat /\ lo <= hi
    BY <1>2
  <2> HIDE DEF lo, hi
  <2> QED
    BY <1>7, <1>10, <1>11, <2>1, PieceTaken
<1>13. Cardinality(B) = Cardinality(A) - size
  BY <1>2, <1>12
<1> QED
  BY <1>13 DEF A, B, size, r

(* Before the frames of a record, only the bytes of the earlier ones are gone. *)
LEMMA LeftAfter ==
  ASSUME NEW ns, NEW t
  PROVE  \A b : b \in Left(ns, t, "path", "header") <=> b \in BytesOf(ns) /\ ~ (b[1][1] <= t)
  BY DEF Left, IsHad

(* Taking the value of a record leaves its size less. *)
LEMMA ValueLeaves ==
  ASSUME NEW ns \in Seq(Node), Linked(ns), NEW t \in Nat, t < Len(ns)
  PROVE  Cardinality(Left(ns, Following(ns, t), "path", "header"))
           = Cardinality(Left(ns, t, "value", "payload")) - FrameSize(ns[Following(ns, t)], "value")
<1> DEFINE r == Following(ns, t)
           A == Left(ns, t, "value", "payload")
           B == Left(ns, r, "path", "header")
           size == FrameSize(ns[r], "value")
           lo == HeaderSize + 1
           hi == HeaderSize + size
           P == Piece(r, "value", lo, hi)
<1>1. r \in Records(ns) /\ r \in 1..Len(ns) /\ Records(ns) \subseteq 1..Len(ns) /\ Len(ns) \in Nat
  BY FollowingIs, RecordsAre
<1>2. HeaderSize \in Nat /\ size \in Nat /\ size > 0
  BY <1>1, FrameSizes, StreamConstants
<1>3. "path" \in Halves /\ "value" \in Halves /\ "path" # "value" /\ \A f \in Halves : f = "path" \/ f = "value"
  BY DEF Halves
<1>4. \A b : b \in A <=> \E i \in Records(ns), f \in Halves :
                \E k \in 1..(HeaderSize + FrameSize(ns[i], f)) :
                  /\ b = <<<<i, f>>, k>>
                  /\ \/ i > r
                     \/ i = r /\ f = "value" /\ k > HeaderSize
  <2>1. \A b : b \in A <=> \E i \in Records(ns), f \in Halves :
                \E k \in 1..(HeaderSize + FrameSize(ns[i], f)) :
                  /\ b = <<<<i, f>>, k>>
                  /\ \/ i > r
                     \/ i = r /\ (f = "path" => "value" # "value")
                              /\ (f = "value" /\ "payload" = "payload" => k > HeaderSize)
    BY <1>3, LeftAre
  <2> HIDE DEF A, r
  <2> QED
    BY <1>3, <2>1
<1>5. \A b : b \in B <=> \E i \in Records(ns), f \in Halves :
                \E k \in 1..(HeaderSize + FrameSize(ns[i], f)) : b = <<<<i, f>>, k>> /\ i > r
  <2>1. \A b : b \in B <=> b \in BytesOf(ns) /\ ~ (b[1][1] <= r)
    BY LeftAfter
  <2>2. \A b : b \in BytesOf(ns) <=> \E i \in Records(ns), f \in Halves :
                \E k \in 1..(HeaderSize + FrameSize(ns[i], f)) : b = <<<<i, f>>, k>>
    BY BytesAre DEF Halves
  <2> HIDE DEF B, r
  <2>3. \A i \in Records(ns) : ~ (i <= r) <=> i > r
    BY <1>1
  <2>4. \A i, f, k : <<<<i, f>>, k>>[1][1] = i
    OBVIOUS
  <2>5. ASSUME NEW b \in B
        PROVE  \E i \in Records(ns), f \in Halves :
                 \E k \in 1..(HeaderSize + FrameSize(ns[i], f)) : b = <<<<i, f>>, k>> /\ i > r
    <3>1. PICK i \in Records(ns), f \in Halves : \E k \in 1..(HeaderSize + FrameSize(ns[i], f)) : b = <<<<i, f>>, k>>
      BY <2>1, <2>2
    <3>2. PICK k \in 1..(HeaderSize + FrameSize(ns[i], f)) : b = <<<<i, f>>, k>>
      BY <3>1
    <3>3. b[1][1] = i /\ ~ (b[1][1] <= r)
      BY <2>1, <2>4, <3>2
    <3> QED
      BY <2>3, <3>2, <3>3
  <2>6. ASSUME NEW i \in Records(ns), NEW f \in Halves, NEW k \in 1..(HeaderSize + FrameSize(ns[i], f)), i > r
        PROVE  <<<<i, f>>, k>> \in B
    BY <2>1, <2>2, <2>3, <2>4, <2>6
  <2> QED
    BY <2>5, <2>6
<1>6. FrameSize(ns[r], "value") = size
  OBVIOUS
<1> HIDE DEF A, B, r, size
<1>7. P \subseteq A
  <2> SUFFICES ASSUME NEW k \in (HeaderSize + 1)..(HeaderSize + size) PROVE <<<<r, "value">>, k>> \in A
    BY DEF Piece
  <2>1. k \in 1..(HeaderSize + FrameSize(ns[r], "value")) /\ k > HeaderSize
    BY <1>2, <1>6
  <2> QED
    BY <1>1, <1>3, <1>4, <2>1
<1>8. ASSUME NEW b \in B PROVE b \in A /\ b \notin P
  <2>1. PICK i \in Records(ns), f \in Halves :
          \E k \in 1..(HeaderSize + FrameSize(ns[i], f)) : b = <<<<i, f>>, k>> /\ i > r
    BY <1>5
  <2>2. PICK k \in 1..(HeaderSize + FrameSize(ns[i], f)) : b = <<<<i, f>>, k>> /\ i > r
    BY <2>1
  <2>3. b \in A
    BY <1>4, <2>2
  <2>4. ASSUME b \in P PROVE FALSE
    <3>1. PICK l \in (HeaderSize + 1)..(HeaderSize + size) : b = <<<<r, "value">>, l>>
      BY <2>4 DEF Piece
    <3>2. i = r
      BY <2>2, <3>1
    <3> QED
      BY <1>1, <2>2, <3>2
  <2> QED
    BY <2>3, <2>4
<1>9. ASSUME NEW b \in A, b \notin P PROVE b \in B
  <2>1. PICK i \in Records(ns), f \in Halves :
          \E k \in 1..(HeaderSize + FrameSize(ns[i], f)) :
            b = <<<<i, f>>, k>> /\ (i > r \/ (i = r /\ f = "value" /\ k > HeaderSize))
    BY <1>4
  <2>2. PICK k \in 1..(HeaderSize + FrameSize(ns[i], f)) :
            b = <<<<i, f>>, k>> /\ (i > r \/ (i = r /\ f = "value" /\ k > HeaderSize))
    BY <2>1
  <2>3. ASSUME i = r, f = "value", k > HeaderSize PROVE FALSE
    <3>1. k <= HeaderSize + size /\ k \in Nat
      BY <1>2, <1>6, <2>3
    <3>2. k \in (HeaderSize + 1)..(HeaderSize + size)
      BY <1>2, <2>3, <3>1
    <3> QED
      BY <1>9, <2>2, <2>3, <3>2 DEF Piece
  <2>4. i > r
    BY <2>2, <2>3
  <2> QED
    BY <1>5, <2>2, <2>4
<1>10. B = A \ P
  BY <1>8, <1>9
<1>11. IsFiniteSet(A)
  BY LeftFinite DEF A
<1>12. Cardinality(B) = Cardinality(A) - (hi - lo + 1) /\ Cardinality(A) \in Nat
  <2>1. lo \in Nat /\ hi \in Nat /\ lo <= hi
    BY <1>2
  <2> HIDE DEF lo, hi
  <2> QED
    BY <1>7, <1>10, <1>11, <2>1, PieceTaken
<1>13. Cardinality(B) = Cardinality(A) - size
  BY <1>2, <1>12
<1> QED
  BY <1>13 DEF A, B, size, r

(* Behind the last node nothing is left. *)
LEMMA NothingLeft ==
  ASSUME NEW ns \in Seq(Node)
  PROVE  Cardinality(Left(ns, Len(ns), "path", "header")) = 0
<1>1. ASSUME NEW b \in Left(ns, Len(ns), "path", "header") PROVE FALSE
  <2>1. b \in BytesOf(ns) /\ ~ (b[1][1] <= Len(ns))
    BY LeftAfter
  <2>2. PICK i \in Records(ns), h \in {"path", "value"} :
          \E k \in 1..(HeaderSize + FrameSize(ns[i], h)) : b = <<<<i, h>>, k>>
    BY <2>1, BytesAre
  <2>3. b[1][1] = i
    BY <2>2
  <2>4. i \in 1..Len(ns) /\ Len(ns) \in Nat
    BY RecordsAre
  <2> QED
    BY <2>1, <2>3, <2>4
<1>2. Left(ns, Len(ns), "path", "header") = {}
  BY <1>1
<1> QED
  BY <1>2, FS_EmptySet

(* What is sent is left. *)
LEMMA SentIsLeft ==
  ASSUME NEW ns \in Seq(Node), NEW more \in Seq(Node), Linked(ns), Linked(more), Len(more) > 0,
         Len(ns) > 0 => Hangs(more[1].keys, ns[Len(ns)].keys),
         NEW t \in 0..Len(ns), NEW h \in Halves, NEW p \in {"header", "payload"},
         h = "value" \/ p = "payload" => t < Len(ns)
  PROVE  Cardinality(Left(ns \o more, t, h, p)) = Cardinality(Left(ns, t, h, p)) + Cardinality(BytesOf(more))
<1> DEFINE all == ns \o more
           N == Len(ns)
           A == Left(ns, t, h, p)
           B == Left(all, t, h, p)
<1>1. PICK new : /\ BytesOf(all) = BytesOf(ns) \cup new
                 /\ \A b \in new : b[1][1] > N /\ b[1][1] \in Nat
                 /\ \A b \in BytesOf(ns) : b[1][1] \in 1..N
                 /\ IsFiniteSet(new) /\ Cardinality(new) = Cardinality(BytesOf(more))
  BY BytesJoined
<1>2. /\ all \in Seq(Node) /\ N \in Nat /\ N <= Len(all)
      /\ \A i \in 1..N : i \in Records(all) <=> i \in Records(ns)
  <2>1. /\ all \in Seq(Node) /\ Len(all) = N + Len(more) /\ N \in Nat /\ Len(more) \in Nat
        /\ \A i \in 1..N : i \in Records(all) <=> i \in Records(ns)
    BY NodesJoined
  <2> QED
    BY <2>1
<1>3. t \in Nat /\ t <= N
  BY <1>2
<1> DEFINE r == Following(ns, t)
           s == Following(all, t)
<1>4. ASSUME h = "value" \/ p = "payload" PROVE s = r /\ r \in 1..N
  <2>1. t < N
    BY <1>4
  <2>2. s = r
    BY <1>2, <1>3, <2>1, FollowingStays
  <2>3. r \in 1..N
    BY <1>3, <2>1, FollowingIs
  <2> QED
    BY <2>2, <2>3
<1>5. /\ \A b : b \in A <=> b \in BytesOf(ns) /\ ~ IsHad(b[1][1], b[1][2], b[2], t, r, h, p)
      /\ \A b : b \in B <=> b \in BytesOf(all) /\ ~ IsHad(b[1][1], b[1][2], b[2], t, s, h, p)
  BY DEF Left
<1>6. IsFiniteSet(A)
  BY LeftFinite
<1> HIDE DEF A, B, all, r, s, N
<1>7. ASSUME NEW i, NEW f, NEW k PROVE IsHad(i, f, k, t, r, h, p) <=> IsHad(i, f, k, t, s, h, p)
  BY <1>4 DEF IsHad, Halves
<1>8. ASSUME NEW i \in Nat, i > N, NEW f, NEW k PROVE ~ IsHad(i, f, k, t, s, h, p)
  <2>1. ~ (i <= t)
    BY <1>2, <1>3, <1>8
  <2>2. h = "value" \/ p = "payload" => i # s
    BY <1>2, <1>4, <1>8
  <2> QED
    BY <2>1, <2>2 DEF IsHad
<1>9. B = A \cup new
  <2>1. \A b \in BytesOf(ns) : b \in B <=> b \in A
    BY <1>1, <1>5, <1>7
  <2>2. \A b \in new : b \in B
    BY <1>1, <1>5, <1>8
  <2>3. A \subseteq BytesOf(ns) /\ B \subseteq BytesOf(ns) \cup new
    BY <1>1, <1>5
  <2> QED
    BY <2>1, <2>2, <2>3
<1>10. A \cap new = {}
  <2> SUFFICES ASSUME NEW b \in A, b \in new PROVE FALSE
    OBVIOUS
  <2>1. b[1][1] \in 1..N /\ b[1][1] > N
    BY <1>1, <1>5
  <2> QED
    BY <1>2, <2>1
<1>11. Cardinality(B) = Cardinality(A) + Cardinality(new)
  <2>1. Cardinality(B) = Cardinality(A) + Cardinality(new) - Cardinality(A \cap new)
    BY <1>1, <1>6, <1>9, FS_Union
  <2>2. Cardinality(A) \in Nat /\ Cardinality(new) \in Nat /\ Cardinality(A \cap new) = 0
    BY <1>1, <1>6, <1>10, FS_CardinalityType, FS_EmptySet
  <2> QED
    BY <2>1, <2>2
<1> QED
  BY <1>1, <1>11 DEF A, B, all

-----------------------------------------------------------------------------
(* decodeBufferPairs *)

(* The bytes had and those to come are those of the frames that were not taken. *)
Receiving ==
  /\ pc \in {"read", "decode", "fold", "wait"} \cup Over
  /\ part \in {"header", "payload"} /\ half \in Halves
  /\ have \in Nat /\ coming \in Nat
  /\ taken \in {0} \cup Records(nodes)
  /\ half = "value" \/ part = "payload" => taken < Len(nodes)
  /\ have + coming = Cardinality(Left(nodes, taken, half, part))
  /\ pc # "read" /\ part = "header" => have < HeaderSize

(* How far the buffer is. *)
LEMMA TakenNumber ==
  ASSUME Sending, Receiving
  PROVE  /\ nodes \in Seq(Node) /\ Linked(nodes) /\ Len(nodes) \in Nat
         /\ taken \in Nat /\ taken <= Len(nodes)
<1>1. nodes \in Seq(Node) /\ Linked(nodes)
  BY DEF Sending
<1>2. Records(nodes) \subseteq 1..Len(nodes) /\ Len(nodes) \in Nat
  BY <1>1, RecordsAre
<1> QED
  BY <1>1, <1>2 DEF Receiving

(* Before a header that may have come there is a record. *)
LEMMA RecordAhead ==
  ASSUME Sending, Receiving, have + coming >= HeaderSize \/ half = "value" \/ part = "payload"
  PROVE  taken < Len(nodes)
<1>1. /\ nodes \in Seq(Node) /\ Linked(nodes) /\ Len(nodes) \in Nat /\ taken \in Nat /\ taken <= Len(nodes)
  BY TakenNumber
<1>2. CASE half = "value" \/ part = "payload"
  BY <1>2 DEF Receiving
<1>3. CASE half = "path" /\ part = "header" /\ have + coming >= HeaderSize
  <2> SUFFICES ASSUME taken = Len(nodes) PROVE FALSE
    BY <1>1
  <2>1. have + coming = Cardinality(Left(nodes, Len(nodes), "path", "header"))
    BY <1>3 DEF Receiving
  <2>2. have + coming = 0
    BY <1>1, <2>1, NothingLeft
  <2> QED
    BY <1>3, <2>2, StreamConstants
<1> QED
  BY <1>2, <1>3 DEF Receiving, Halves

(* What is sent is on its way. *)
LEMMA ReceivingSend ==
  ASSUME Sending, Receiving, Send
  PROVE  Receiving'
<1>1. PICK o \in Objects :
         /\ NodesOf(o) \in Seq(Node) /\ Linked(NodesOf(o)) /\ Len(NodesOf(o)) > 0
         /\ nodes' = nodes \o NodesOf(o)
         /\ coming' = coming + Cardinality(BytesOf(NodesOf(o)))
         /\ Len(nodes) > 0 => Hangs(NodesOf(o)[1].keys, nodes[Len(nodes)].keys)
  BY SendGives
<1> DEFINE more == NodesOf(o)
<1>2. UNCHANGED <<pc, part, half, have, taken>>
  BY DEF Send, bufferVars
<1>3. /\ nodes \in Seq(Node) /\ Linked(nodes) /\ Len(nodes) \in Nat /\ taken \in Nat /\ taken <= Len(nodes)
  BY TakenNumber
<1>4. taken \in 0..Len(nodes) /\ half \in Halves /\ part \in {"header", "payload"}
      /\ (half = "value" \/ part = "payload" => taken < Len(nodes))
  BY <1>3 DEF Receiving
<1> HIDE DEF more
<1>5. Cardinality(Left(nodes \o more, taken, half, part))
        = Cardinality(Left(nodes, taken, half, part)) + Cardinality(BytesOf(more))
  BY <1>1, <1>3, <1>4, SentIsLeft DEF more
<1>6. Cardinality(Left(nodes, taken, half, part)) \in Nat /\ Cardinality(BytesOf(more)) \in Nat
  <2>1. IsFiniteSet(BytesOf(more))
    BY <1>1, BytesFinite DEF more
  <2> QED
    BY <1>3, <2>1, LeftFinite, FS_CardinalityType
<1>7. coming' \in Nat /\ have' + coming' = Cardinality(Left(nodes', taken', half', part'))
  <2>1. have \in Nat /\ coming \in Nat /\ have + coming = Cardinality(Left(nodes, taken, half, part))
    BY DEF Receiving
  <2>2. coming' = coming + Cardinality(BytesOf(more)) /\ nodes' = nodes \o more
    BY <1>1 DEF more
  <2>3. have' + coming' = Cardinality(Left(nodes, taken, half, part)) + Cardinality(BytesOf(more)) /\ coming' \in Nat
    BY <1>2, <1>6, <2>1, <2>2
  <2>4. Cardinality(Left(nodes', taken', half', part')) = Cardinality(Left(nodes \o more, taken, half, part))
    BY <1>2, <2>2
  <2> QED
    BY <1>5, <2>3, <2>4
<1>8. Len(nodes') > Len(nodes) /\ taken' \in {0} \cup Records(nodes')
  <2>1. /\ Len(nodes') = Len(nodes) + Len(more) /\ Len(more) \in Nat
        /\ \A i \in 1..Len(nodes) : i \in Records(nodes') <=> i \in Records(nodes)
    BY <1>1, <1>3, NodesJoined DEF more
  <2>2. Len(nodes') > Len(nodes)
    BY <1>1, <1>3, <2>1 DEF more
  <2>3. taken = 0 \/ (taken \in 1..Len(nodes) /\ taken \in Records(nodes))
    BY <1>3 DEF Receiving
  <2> QED
    BY <1>2, <2>1, <2>2, <2>3
<1>9. half' = "value" \/ part' = "payload" => taken' < Len(nodes')
  <2>1. Len(nodes') \in Nat
    BY <1>1, <1>3, NodesJoined
  <2> QED
    BY <1>2, <1>3, <1>4, <1>8, <2>1
<1> QED
  BY <1>2, <1>7, <1>8, <1>9 DEF Receiving

(* A header taken from the buffer is one less to take. *)
LEMMA ReceivingTakeHeader ==
  ASSUME Sending, Receiving, TakeHeader
  PROVE  Receiving'
<1>1. /\ pc = "read" /\ part = "header" /\ have >= HeaderSize
      /\ have' = have - HeaderSize /\ part' = "payload"
      /\ UNCHANGED <<nodes, coming, pc, half, taken>>
  BY DEF TakeHeader, Needed, serverVars
<1>2. have \in Nat /\ coming \in Nat /\ half \in Halves /\ HeaderSize \in Nat
      /\ have + coming = Cardinality(Left(nodes, taken, half, "header"))
  BY <1>1, StreamConstants DEF Receiving
<1>3. taken < Len(nodes)
  BY <1>1, <1>2, RecordAhead
<1>4. Cardinality(Left(nodes, taken, half, "payload")) = Cardinality(Left(nodes, taken, half, "header")) - HeaderSize
  BY <1>2, <1>3, TakenNumber, HeaderLeaves
<1>5. have' + coming' = Cardinality(Left(nodes, taken, half, "payload")) /\ have' \in Nat
  BY <1>1, <1>2, <1>4
<1>6. Left(nodes', taken', half', part') = Left(nodes, taken, half, "payload")
  BY <1>1
<1> QED
  BY <1>1, <1>3, <1>5, <1>6 DEF Receiving

(* And so is a frame. *)
LEMMA ReceivingTakePayload ==
  ASSUME Sending, Receiving, TakePayload
  PROVE  Receiving'
<1> DEFINE r == Following(nodes, taken)
<1>1. /\ pc = "read" /\ part = "payload" /\ have >= FrameSize(nodes[r], half)
      /\ have' = have - FrameSize(nodes[r], half) /\ part' = "header"
      /\ UNCHANGED <<nodes, coming, pc>>
      /\ \/ half = "path" /\ half' = "value" /\ taken' = taken
         \/ half = "value" /\ half' = "path" /\ taken' = r
  BY DEF TakePayload, Needed, serverVars, NextRecord, Following
<1>2. /\ nodes \in Seq(Node) /\ Linked(nodes) /\ Len(nodes) \in Nat /\ taken \in Nat /\ taken <= Len(nodes)
  BY TakenNumber
<1>3. taken < Len(nodes)
  BY <1>1, RecordAhead
<1>4. r \in Records(nodes) /\ r \in 1..Len(nodes)
  BY <1>2, <1>3, FollowingIs
<1>5. FrameSize(nodes[r], half) \in Nat
  BY <1>2, <1>4, FrameSizes
<1>6. have \in Nat /\ coming \in Nat /\ have + coming = Cardinality(Left(nodes, taken, half, "payload"))
  BY <1>1 DEF Receiving
<1>7. have' \in Nat /\ coming' \in Nat
      /\ have' + coming' = Cardinality(Left(nodes, taken, half, "payload")) - FrameSize(nodes[r], half)
  BY <1>1, <1>5, <1>6
<1> HIDE DEF r
<1>8. CASE half = "path" /\ half' = "value" /\ taken' = taken
  <2>1. Cardinality(Left(nodes, taken, "value", "header"))
          = Cardinality(Left(nodes, taken, "path", "payload")) - FrameSize(nodes[r], "path")
    BY <1>2, <1>3, PathLeaves DEF r
  <2>2. Left(nodes', taken', half', part') = Left(nodes, taken, "value", "header")
    BY <1>1, <1>8
  <2>3. have' + coming' = Cardinality(Left(nodes', taken', half', part'))
    BY <1>7, <1>8, <2>1, <2>2
  <2> QED
    BY <1>1, <1>3, <1>7, <1>8, <2>3 DEF Receiving, Halves
<1>9. CASE half = "value" /\ half' = "path" /\ taken' = r
  <2>1. Cardinality(Left(nodes, r, "path", "header"))
          = Cardinality(Left(nodes, taken, "value", "payload")) - FrameSize(nodes[r], "value")
    BY <1>2, <1>3, ValueLeaves DEF r
  <2>2. Left(nodes', taken', half', part') = Left(nodes, r, "path", "header")
    BY <1>1, <1>9
  <2>3. have' + coming' = Cardinality(Left(nodes', taken', half', part'))
    BY <1>7, <1>9, <2>1, <2>2
  <2>4. ~ (half' = "value" \/ part' = "payload")
    BY <1>1, <1>9
  <2> QED
    BY <1>1, <1>4, <1>7, <1>9, <2>3, <2>4 DEF Receiving, Halves
<1> QED
  BY <1>1, <1>8, <1>9

(* The invariant of the buffer is kept by every step. *)
LEMMA ReceivingKept ==
  ASSUME Sending, Receiving, SDNext
  PROVE  Receiving'
<1>1. CASE Send
  BY <1>1, ReceivingSend
<1>2. CASE TakeHeader
  BY <1>2, ReceivingTakeHeader
<1>3. CASE TakePayload
  BY <1>3, ReceivingTakePayload
<1>4. CASE Await
  <2>1. /\ UNCHANGED <<nodes, coming, part, half, have, taken>> /\ pc' = "decode"
        /\ part = "header" => have < HeaderSize
    BY <1>4 DEF Await, Needed, serverVars, bufferVars
  <2>2. Left(nodes', taken', half', part') = Left(nodes, taken, half, part)
    BY <2>1
  <2> QED
    BY <2>1, <2>2 DEF Receiving
<1>5. CASE Chunk
  <2>1. PICK n \in 1..coming : have' = have + n /\ coming' = coming - n
    BY <1>5 DEF Chunk
  <2>2. UNCHANGED <<nodes, part, half, taken>> /\ pc' = "read"
    BY <1>5 DEF Chunk, serverVars
  <2>3. Left(nodes', taken', half', part') = Left(nodes, taken, half, part)
    BY <2>2
  <2>4. have' \in Nat /\ coming' \in Nat /\ have' + coming' = have + coming
    BY <2>1 DEF Receiving
  <2> QED
    BY <2>2, <2>3, <2>4 DEF Receiving
<1>6. CASE StreamEnds \/ ReaderFails \/ DecodeRecord \/ YieldNodes \/ FoldNode \/ FoldMore
  <2>1. /\ UNCHANGED <<nodes, coming, part, half, have, taken>>
        /\ pc # "read" /\ pc' \in {"read", "decode", "fold", "wait"} \cup Over
    BY <1>6 DEF Receiving, StreamEnds, ReaderFails, DecodeRecord, YieldNodes, FoldNode, FoldMore,
                serverVars, bufferVars, Over
  <2>2. Left(nodes', taken', half', part') = Left(nodes, taken, half, part)
    BY <2>1
  <2> QED
    BY <2>1, <2>2 DEF Receiving
<1> QED
  BY <1>1, <1>2, <1>3, <1>4, <1>5, <1>6 DEF SDNext

-----------------------------------------------------------------------------
(* decodePathsVals *)

(* The elements of a stretch of the nodes. *)
LEMMA Segment ==
  ASSUME NEW ns \in Seq(Node), NEW m \in Nat, NEW n \in Nat, m <= n, n <= Len(ns)
  PROVE  /\ SubSeq(ns, m + 1, n) \in Seq(Node) /\ Len(SubSeq(ns, m + 1, n)) = n - m
         /\ \A i \in 1..(n - m) : SubSeq(ns, m + 1, n)[i] = ns[m + i]
<1> DEFINE a == m + 1
           s == SubSeq(ns, a, n)
<1>1. a \in Int /\ n \in Int /\ \A i \in a..n : ns[i] \in Node
  <2>1. Len(ns) \in Nat /\ \A i \in 1..Len(ns) : ns[i] \in Node
    BY LenProperties, ElementOfSeq
  <2> QED
    BY <2>1
<1>2. (IF a <= n THEN n - a + 1 ELSE 0) = n - m /\ n - a + 1 = n - m /\ \A i \in 1..(n - m) : a + i - 1 = m + i
  OBVIOUS
<1> HIDE DEF a
<1>3. /\ s \in Seq(Node) /\ Len(s) = IF a <= n THEN n - a + 1 ELSE 0
      /\ \A i \in 1..(n - a + 1) : s[i] = ns[a + i - 1]
  BY <1>1, SubSeqProperties
<1> HIDE DEF s
<1>4. s \in Seq(Node) /\ Len(s) = n - m /\ \A i \in 1..(n - m) : s[i] = ns[m + i]
  BY <1>2, <1>3
<1> QED
  BY <1>4 DEF s, a

(* A stretch of the nodes does not change when more are sent. *)
LEMMA SegmentStays ==
  ASSUME NEW ns \in Seq(Node), NEW all \in Seq(Node), Len(ns) <= Len(all), \A i \in 1..Len(ns) : all[i] = ns[i],
         NEW m \in Nat, NEW n \in Nat, m <= n, n <= Len(ns)
  PROVE  SubSeq(all, m + 1, n) = SubSeq(ns, m + 1, n)
<1> DEFINE s == SubSeq(ns, m + 1, n)
           t == SubSeq(all, m + 1, n)
<1>1. Len(ns) \in Nat /\ Len(all) \in Nat /\ n <= Len(all)
  BY LenProperties
<1>2. s \in Seq(Node) /\ Len(s) = n - m /\ \A i \in 1..(n - m) : s[i] = ns[m + i]
  BY Segment
<1>3. t \in Seq(Node) /\ Len(t) = n - m /\ \A i \in 1..(n - m) : t[i] = all[m + i]
  BY <1>1, Segment
<1> HIDE DEF s, t
<1>4. \A i \in 1..(n - m) : m + i \in 1..Len(ns)
  BY <1>1
<1>5. \A i \in 1..Len(t) : t[i] = s[i]
  BY <1>2, <1>3, <1>4
<1>6. t = s
  BY <1>2, <1>3, <1>5, SeqEqual
<1> QED
  BY <1>6 DEF s, t

(* Two stretches next to each other are one. *)
LEMMA SegmentsJoin ==
  ASSUME NEW ns \in Seq(Node), NEW m \in Nat, NEW d \in Nat, NEW n \in Nat, m <= d, d <= n, n <= Len(ns)
  PROVE  SubSeq(ns, m + 1, d) \o SubSeq(ns, d + 1, n) = SubSeq(ns, m + 1, n)
<1> DEFINE a == m + 1
<1>1. Len(ns) \in Nat
  BY LenProperties
<1>2. a \in 1..(Len(ns) + 1) /\ d \in (a - 1)..Len(ns) /\ n \in d..Len(ns)
  BY <1>1
<1> HIDE DEF a
<1>3. SubSeq(ns, a, d) \o SubSeq(ns, d + 1, n) = SubSeq(ns, a, n)
  BY <1>2, ConcatAdjacentSubSeq
<1> QED
  BY <1>3 DEF a

(* How many of the nodes decoded iterFoldTree has folded. *)
Folded == IF started THEN decoded - Len(firsts) - Len(todo) ELSE 0

(* What is decoded, and where the nodes it stands for are. *)
Decoded ==
  /\ last \in BOOLEAN /\ started \in BOOLEAN
  /\ decoded \in {0} \cup Records(nodes)
  /\ pieces = IF decoded = 0 THEN <<>> ELSE nodes[decoded].keys
  /\ ~started => /\ firsts = <<>>
                 /\ todo = IF decoded = 0 THEN <<>> ELSE <<Root>> \o SubSeq(nodes, 1, decoded)
  /\ started => /\ decoded > 0 /\ firsts \in Seq(Node) /\ todo \in Seq(Node)
                /\ Folded \in Nat /\ Folded <= decoded
                /\ firsts \o todo = SubSeq(nodes, Folded + 1, decoded)

(* Which generator works while nodes wait for another one. *)
Turns ==
  /\ decoded <= taken
  /\ pc \notin {"read", "decode"} => decoded = taken
  /\ pc \notin {"decode", "fold", "refused"} => todo = <<>>
  /\ pc = "fold" => todo = <<>> \/ (started /\ firsts = <<>>)
  /\ last => /\ part = "header"
             /\ \/ pc = "decode" /\ decoded = taken /\ todo = <<>>
                \/ pc \in {"fold", "over", "refused"} /\ firsts = <<>>
  /\ pc = "over" => last

(* How far the decoder and the fold are. *)
LEMMA DecodedNumber ==
  ASSUME Sending, Receiving, Decoded, Turns
  PROVE  /\ nodes \in Seq(Node) /\ Linked(nodes) /\ Len(nodes) \in Nat
         /\ taken \in Nat /\ taken <= Len(nodes)
         /\ decoded \in Nat /\ decoded <= taken /\ decoded <= Len(nodes)
         /\ Folded \in Nat /\ Folded <= decoded
         /\ \A i \in 1..Len(nodes) : nodes[i] \in Node /\ nodes[i].keys \in Seq(Key) /\ nodes[i].keys # <<>>
<1>1. /\ nodes \in Seq(Node) /\ Linked(nodes) /\ Len(nodes) \in Nat
      /\ taken \in Nat /\ taken <= Len(nodes)
  BY TakenNumber
<1>2. Records(nodes) \subseteq 1..Len(nodes)
  BY <1>1, RecordsAre
<1>3. decoded \in Nat /\ decoded <= taken
  BY <1>2 DEF Decoded, Turns
<1>4. Folded \in Nat /\ Folded <= decoded
  <2>1. CASE started
    BY <2>1 DEF Decoded
  <2>2. CASE ~started
    BY <1>3, <2>2 DEF Folded
  <2> QED
    BY <2>1, <2>2
<1>5. \A i \in 1..Len(nodes) : nodes[i] \in Node /\ nodes[i].keys \in Seq(Key) /\ nodes[i].keys # <<>>
  BY <1>1, NodeFields DEF Linked
<1> QED
  BY <1>1, <1>3, <1>4, <1>5

(* Sending changes nothing that was decoded. *)
LEMMA DecodingSend ==
  ASSUME Sending, Receiving, Decoded, Turns, Send
  PROVE  Decoded' /\ Turns' /\ Folded' = Folded
<1>1. PICK o \in Objects :
         /\ NodesOf(o) \in Seq(Node) /\ Linked(NodesOf(o)) /\ Len(NodesOf(o)) > 0
         /\ nodes' = nodes \o NodesOf(o)
         /\ Len(nodes) > 0 => Hangs(NodesOf(o)[1].keys, nodes[Len(nodes)].keys)
  BY SendGives
<1>2. UNCHANGED <<pc, last, part, taken, decoded, pieces, todo, started, firsts>>
  BY DEF Send, bufferVars, pathVars
<1>3. /\ nodes \in Seq(Node) /\ Linked(nodes) /\ Len(nodes) \in Nat
      /\ decoded \in Nat /\ decoded <= taken /\ decoded <= Len(nodes)
      /\ Folded \in Nat /\ Folded <= decoded
  BY DecodedNumber
<1>4. /\ nodes' \in Seq(Node) /\ Len(nodes') = Len(nodes) + Len(NodesOf(o)) /\ Len(NodesOf(o)) \in Nat
      /\ \A i \in 1..Len(nodes) : nodes'[i] = nodes[i]
      /\ \A i \in 1..Len(nodes) : i \in Records(nodes') <=> i \in Records(nodes)
  BY <1>1, <1>3, NodesJoined
<1>5. Len(nodes) <= Len(nodes')
  BY <1>3, <1>4
<1>6. Folded' = Folded
  BY <1>2 DEF Folded
<1>7. SubSeq(nodes', Folded + 1, decoded) = SubSeq(nodes, Folded + 1, decoded)
  BY <1>3, <1>4, <1>5, SegmentStays
<1>8. SubSeq(nodes', 1, decoded) = SubSeq(nodes, 1, decoded)
  <2> DEFINE z == 0
             a == z + 1
  <2>1. z \in Nat /\ z <= decoded /\ a = 1
    BY <1>3
  <2> HIDE DEF z
  <2>2. SubSeq(nodes', z + 1, decoded) = SubSeq(nodes, z + 1, decoded)
    BY <1>3, <1>4, <1>5, <2>1, SegmentStays
  <2> QED
    BY <2>1, <2>2
<1>9. decoded' \in {0} \cup Records(nodes') /\ (decoded # 0 => nodes'[decoded] = nodes[decoded])
  <2>1. decoded = 0 \/ (decoded \in 1..Len(nodes) /\ decoded \in Records(nodes))
    BY <1>3 DEF Decoded
  <2> QED
    BY <1>2, <1>4, <2>1
<1>10. pieces' = IF decoded' = 0 THEN <<>> ELSE nodes'[decoded'].keys
  BY <1>2, <1>9 DEF Decoded
<1>11. ~started' => /\ firsts' = <<>>
                    /\ todo' = IF decoded' = 0 THEN <<>> ELSE <<Root>> \o SubSeq(nodes', 1, decoded')
  BY <1>2, <1>8 DEF Decoded
<1>12. started' => /\ decoded' > 0 /\ firsts' \in Seq(Node) /\ todo' \in Seq(Node)
                   /\ Folded' \in Nat /\ Folded' <= decoded'
                   /\ firsts' \o todo' = SubSeq(nodes', Folded' + 1, decoded')
  BY <1>2, <1>6, <1>7 DEF Decoded
<1>13. Decoded'
  BY <1>2, <1>6, <1>9, <1>10, <1>11, <1>12 DEF Decoded
<1>14. Turns'
  BY <1>2 DEF Turns
<1> QED
  BY <1>6, <1>13, <1>14

(* Neither does reading bytes. *)
LEMMA DecodingBytes ==
  ASSUME Sending, Receiving, Decoded, Turns, TakeHeader \/ TakePayload \/ Await \/ Chunk \/ StreamEnds \/ ReaderFails
  PROVE  Decoded' /\ Turns' /\ Folded' = Folded
<1>1. UNCHANGED <<nodes, decoded, pieces, todo, started, firsts>>
  BY DEF TakeHeader, TakePayload, Await, Chunk, StreamEnds, ReaderFails, serverVars, pathVars
<1>2. Folded' = Folded
  BY <1>1 DEF Folded
<1>3. last' \in BOOLEAN
  BY DEF Decoded, TakeHeader, TakePayload, Await, Chunk, StreamEnds, ReaderFails
<1>9. Decoded'
  BY <1>1, <1>2, <1>3 DEF Decoded
<1>4. decoded' <= taken'
  <2>1. decoded \in Nat /\ taken \in Nat /\ decoded <= taken
    BY DecodedNumber
  <2>2. CASE TakePayload
    <3>1. taken < Len(nodes)
      <4>1. part = "payload"
        BY <2>2 DEF TakePayload
      <4> QED
        BY <4>1, RecordAhead
    <3>2. Following(nodes, taken) > taken /\ Following(nodes, taken) \in 1..Len(nodes)
      BY <3>1, DecodedNumber, FollowingIs
    <3>3. taken' = taken \/ taken' = Following(nodes, taken)
      BY <2>2 DEF TakePayload, NextRecord, Following
    <3> QED
      BY <1>1, <2>1, <3>2, <3>3
  <2>3. CASE ~ TakePayload
    <3>1. taken' = taken
      BY <2>3 DEF TakeHeader, Await, Chunk, StreamEnds, ReaderFails, bufferVars
    <3> QED
      BY <1>1, <2>1, <3>1
  <2> QED
    BY <2>2, <2>3
<1>5. CASE TakeHeader \/ TakePayload \/ Await
  <2>1. pc = "read" /\ last' = last /\ (pc' = "read" \/ pc' = "decode")
    BY <1>5 DEF TakeHeader, TakePayload, Await
  <2>2. ~last /\ todo = <<>>
    BY <2>1 DEF Turns
  <2>3. ~last'
    BY <2>1, <2>2, Zenon
  <2> QED
    BY <1>1, <1>2, <1>4, <1>9, <2>1, <2>2, <2>3 DEF Turns
<1>6. CASE Chunk \/ ReaderFails
  <2>1. pc = "wait" /\ last' = last /\ (pc' = "read" \/ pc' = "failed") /\ taken' = taken
    BY <1>6 DEF Chunk, ReaderFails, bufferVars
  <2>2. ~last /\ todo = <<>> /\ decoded = taken
    BY <2>1 DEF Turns
  <2>3. ~last'
    BY <2>1, <2>2, Zenon
  <2> QED
    BY <1>1, <1>2, <1>4, <1>9, <2>1, <2>2, <2>3 DEF Turns
<1>7. CASE StreamEnds
  <2>1. pc = "wait" /\ taken' = taken /\ part' = part
    BY <1>7 DEF StreamEnds, bufferVars
  <2>2. ~last /\ todo = <<>> /\ decoded = taken
    BY <2>1 DEF Turns
  <2>3. CASE part = "header" /\ pc' = "decode" /\ last' = TRUE
    BY <1>1, <1>2, <1>4, <1>9, <2>1, <2>2, <2>3 DEF Turns
  <2>4. CASE part = "payload" /\ pc' = "corrupted" /\ last' = last
    <3>1. ~last'
      BY <2>2, <2>4, Zenon
    <3> QED
      BY <1>1, <1>2, <1>4, <1>9, <2>1, <2>2, <2>4, <3>1 DEF Turns
  <2> QED
    BY <1>7, <2>3, <2>4 DEF StreamEnds
<1> QED
  BY <1>2, <1>5, <1>6, <1>7, <1>9

(* A record decoded stands for the nodes from the last one to its own. *)
LEMMA DecodingRecord ==
  ASSUME Sending, Receiving, Decoded, Turns, DecodeRecord
  PROVE  Decoded' /\ Turns' /\ Folded' = Folded
<1> DEFINE d == decoded
           i == Following(nodes, d)
<1>1. /\ nodes \in Seq(Node) /\ Linked(nodes) /\ Len(nodes) \in Nat
      /\ taken \in Nat /\ taken <= Len(nodes)
      /\ d \in Nat /\ d <= taken /\ d <= Len(nodes)
      /\ Folded \in Nat /\ Folded <= d
  BY DecodedNumber
<1>2. /\ pc = "decode" /\ d < taken /\ UNCHANGED <<nodes, pc, last, part, taken, started, firsts>>
      /\ todo' = todo \o WithParents(splitPath(encode_path(nodes[i].keys)), nodes[i].val)
      /\ pieces' = splitPath(encode_path(nodes[i].keys)) /\ decoded' = i
  BY DEF DecodeRecord, NextRecord, Following, serverVars, bufferVars
<1>3. /\ i \in Records(nodes) /\ i \in 1..Len(nodes) /\ i > d /\ \A k \in Records(nodes) : k > d => i <= k
  BY <1>1, <1>2, FollowingIs
<1>4. i <= taken
  <2>1. taken \in Records(nodes) /\ taken > d
    BY <1>1, <1>2 DEF Receiving
  <2> QED
    BY <1>3, <2>1
<1>5. splitPath(encode_path(nodes[i].keys)) = nodes[i].keys
  BY <1>1, <1>3, NodeFields, PathsRoundTrip
<1>6. WithParents(nodes[i].keys, nodes[i].val) = (IF d = 0 THEN <<Root>> ELSE <<>>) \o SubSeq(nodes, d + 1, i)
  <2>1. \A k \in 1..Len(nodes) : d < k /\ k < i => k \notin Records(nodes)
    BY <1>1, <1>3
  <2>2. pieces = IF d = 0 THEN <<>> ELSE nodes[d].keys
    BY DEF Decoded
  <2> HIDE DEF i
  <2> QED
    BY <1>1, <1>3, <2>1, <2>2, ParentsRestored
<1>7. ~last
  BY <1>1, <1>2 DEF Turns
<1>8. last' \in BOOLEAN /\ started' \in BOOLEAN /\ ~last'
  <2>1. last' = last /\ started' = started
    BY <1>2
  <2>2. last \in BOOLEAN /\ started \in BOOLEAN
    BY DEF Decoded
  <2> QED
    BY <1>7, <2>1, <2>2, Zenon
<1> DEFINE new == SubSeq(nodes, d + 1, i)
           root == <<Root>>
<1>9. new \in Seq(Node) /\ Len(new) = i - d
  BY <1>1, <1>3, Segment
<1>10. todo' = todo \o ((IF d = 0 THEN root ELSE <<>>) \o new)
  BY <1>2, <1>5, <1>6
<1>11. root \in Seq(Node)
  <2>1. Root \in Node
    BY DEF Root, Node
  <2> QED
    BY <2>1
<1> HIDE DEF new, root, i, d
<1>12. i # 0 /\ i \in Nat
  BY <1>1, <1>3
<1>13. CASE ~started
  <2>1. firsts = <<>> /\ todo = IF d = 0 THEN <<>> ELSE root \o SubSeq(nodes, 1, d)
    BY <1>13 DEF Decoded, d, root
  <2>2. todo' = root \o SubSeq(nodes, 1, i)
    <3>1. CASE d = 0
      <4>1. todo' = <<>> \o (root \o new) /\ root \o new \in Seq(Node)
        BY <1>9, <1>10, <1>11, <2>1, <3>1, ConcatProperties
      <4>2. todo' = root \o new
        BY <4>1, ConcatEmptySeq
      <4>3. d + 1 = 1
        BY <3>1
      <4>4. new = SubSeq(nodes, 1, i)
        BY <4>3 DEF new
      <4> QED
        BY <4>2, <4>4
    <3>2. CASE d # 0
      <4> DEFINE old == SubSeq(nodes, 1, d)
                 z == 0
      <4>1. z \in Nat /\ z + 1 = 1 /\ z <= d
        BY <1>1
      <4> HIDE DEF z
      <4>2. old \in Seq(Node)
        <5>1. SubSeq(nodes, z + 1, d) \in Seq(Node)
          BY <1>1, <4>1, Segment
        <5> QED
          BY <4>1, <5>1
      <4>3. old \o new = SubSeq(nodes, 1, i)
        <5>1. SubSeq(nodes, z + 1, d) \o SubSeq(nodes, d + 1, i) = SubSeq(nodes, z + 1, i)
          BY <1>1, <1>3, <1>12, <4>1, SegmentsJoin
        <5> QED
          BY <4>1, <5>1 DEF new
      <4>4. todo' = (root \o old) \o (<<>> \o new)
        BY <1>10, <2>1, <3>2
      <4> HIDE DEF old
      <4>5. <<>> \o new = new
        BY <1>9, ConcatEmptySeq
      <4>6. (root \o old) \o new = root \o (old \o new)
        BY <1>9, <1>11, <4>2, ConcatAssociative
      <4> QED
        BY <4>3, <4>4, <4>5, <4>6
    <3> QED
      BY <3>1, <3>2
  <2>3. ~started'
    BY <1>2, <1>13, Zenon
  <2>4. Folded' = Folded
    BY <1>13, <2>3 DEF Folded
  <2>5. firsts' = <<>> /\ decoded' = i /\ todo' = <<Root>> \o SubSeq(nodes', 1, decoded')
    BY <1>2, <2>1, <2>2 DEF root, i
  <2>6. Decoded'
    <3>1. decoded' \in Records(nodes') /\ pieces' = nodes'[decoded'].keys /\ decoded' # 0
      BY <1>2, <1>3, <1>5, <1>12 DEF i
    <3> QED
      BY <1>8, <2>3, <2>5, <3>1 DEF Decoded
  <2>7. Turns'
    BY <1>2, <1>4, <1>8 DEF Turns, i
  <2> QED
    BY <2>4, <2>6, <2>7
<1>14. CASE started
  <2>1. /\ d > 0 /\ firsts \in Seq(Node) /\ todo \in Seq(Node)
        /\ firsts \o todo = SubSeq(nodes, Folded + 1, d)
        /\ Folded = d - Len(firsts) - Len(todo)
    BY <1>14 DEF Decoded, Folded, d
  <2>2. todo' = todo \o new
    <3>0. d # 0
      BY <1>1, <2>1
    <3>1. todo' = todo \o (<<>> \o new)
      BY <1>10, <3>0, Zenon
    <3>2. <<>> \o new = new
      BY <1>9, ConcatEmptySeq
    <3> QED
      BY <3>1, <3>2
  <2>3. todo' \in Seq(Node) /\ Len(todo') = Len(todo) + (i - d)
    BY <1>9, <2>1, <2>2, ConcatProperties
  <2>4. started'
    BY <1>2, <1>14, Zenon
  <2>5. Len(firsts) \in Nat /\ Len(todo) \in Nat
    BY <2>1, LenProperties
  <2>6. Folded' = Folded
    <3>1. Folded' = i - Len(firsts) - Len(todo')
      BY <1>2, <2>4 DEF Folded, i
    <3> QED
      BY <1>1, <1>12, <2>1, <2>3, <2>5, <3>1
  <2>7. firsts \o todo' = SubSeq(nodes, Folded + 1, i)
    <3>0. firsts \in Seq(Node) /\ todo \in Seq(Node) /\ new \in Seq(Node)
      BY <1>9, <2>1
    <3>1. firsts \o (todo \o new) = (firsts \o todo) \o new
      BY <3>0, ConcatAssociative
    <3>2. SubSeq(nodes, Folded + 1, d) \o SubSeq(nodes, d + 1, i) = SubSeq(nodes, Folded + 1, i)
      BY <1>1, <1>3, <1>12, SegmentsJoin
    <3> QED
      BY <2>1, <2>2, <3>1, <3>2 DEF new
  <2>8. /\ decoded' > 0 /\ firsts' \in Seq(Node) /\ todo' \in Seq(Node)
        /\ Folded' \in Nat /\ Folded' <= decoded'
        /\ firsts' \o todo' = SubSeq(nodes', Folded' + 1, decoded')
    <3>1. decoded' = i /\ firsts' = firsts /\ nodes' = nodes
      BY <1>2 DEF i
    <3>2. i > 0 /\ Folded <= i
      BY <1>1, <1>3, <1>12
    <3> QED
      BY <1>1, <2>1, <2>3, <2>6, <2>7, <3>1, <3>2
  <2>9. Decoded'
    <3>1. decoded' \in Records(nodes') /\ pieces' = nodes'[decoded'].keys /\ decoded' # 0
      BY <1>2, <1>3, <1>5, <1>12 DEF i
    <3> QED
      BY <1>8, <2>4, <2>8, <3>1 DEF Decoded
  <2>10. Turns'
    BY <1>2, <1>4, <1>8 DEF Turns, i
  <2> QED
    BY <2>6, <2>9, <2>10
<1> QED
  BY <1>13, <1>14

(* Yielding moves nodes on and loses none. *)
LEMMA DecodingYield ==
  ASSUME Sending, Receiving, Decoded, Turns, YieldNodes
  PROVE  Decoded' /\ Turns' /\ Folded' = Folded
<1>1. /\ nodes \in Seq(Node) /\ Len(nodes) \in Nat
      /\ decoded \in Nat /\ decoded <= Len(nodes) /\ Folded \in Nat /\ Folded <= decoded
  BY DecodedNumber
<1>2. /\ pc = "decode" /\ decoded = taken /\ pc' = "fold"
      /\ UNCHANGED <<nodes, last, part, taken, decoded, pieces>>
  BY DEF YieldNodes, serverVars, bufferVars, pathVars
<1>3. last \in BOOLEAN /\ last' \in BOOLEAN /\ started \in BOOLEAN
  BY <1>2 DEF Decoded
<1>4. CASE ~started /\ todo # <<>> /\ started' = TRUE /\ firsts' = Tail(todo) /\ todo' = <<>>
  <2> DEFINE z == 0
             s == SubSeq(nodes, 1, decoded)
  <2>1. decoded # 0 /\ todo = <<Root>> \o s /\ firsts = <<>>
    BY <1>4 DEF Decoded
  <2>2. z \in Nat /\ z + 1 = 1 /\ z <= decoded /\ decoded - z = decoded
    BY <1>1
  <2> HIDE DEF z
  <2>3. s \in Seq(Node) /\ Len(s) = decoded
    <3>1. SubSeq(nodes, z + 1, decoded) \in Seq(Node) /\ Len(SubSeq(nodes, z + 1, decoded)) = decoded - z
      BY <1>1, <2>2, Segment
    <3> QED
      BY <2>2, <3>1
  <2>4. Folded = 0
    BY <1>4 DEF Folded
  <2> HIDE DEF s
  <2>5. Tail(todo) = s
    <3>1. Root \in Node
      BY DEF Root, Node
    <3> HIDE DEF Root
    <3>2. Tail(<<Root>> \o s) = s
      BY <2>3, <3>1
    <3> QED
      BY <2>1, <3>2
  <2>6. Len(todo') = 0 /\ Len(firsts') = decoded
    BY <1>4, <2>3, <2>5
  <2>7. Folded' = 0
    <3>1. Folded' = decoded - Len(firsts') - Len(todo')
      BY <1>2, <1>4 DEF Folded
    <3> QED
      BY <1>1, <2>6, <3>1
  <2>8. firsts' \o todo' = SubSeq(nodes', Folded' + 1, decoded')
    <3>1. s \o <<>> = s
      BY <2>3, ConcatEmptySeq
    <3>2. Folded' + 1 = 1
      BY <2>7
    <3> QED
      BY <1>2, <1>4, <2>5, <3>1, <3>2 DEF s
  <2>9. decoded' > 0 /\ firsts' \in Seq(Node) /\ todo' \in Seq(Node) /\ Folded' \in Nat /\ Folded' <= decoded'
    <3>1. firsts' \in Seq(Node)
      BY <1>4, <2>3, <2>5
    <3>2. todo' \in Seq(Node)
      BY <1>4, EmptySeq
    <3>3. decoded' > 0 /\ Folded' \in Nat /\ Folded' <= decoded'
      BY <1>1, <1>2, <2>1, <2>7
    <3> QED
      BY <3>1, <3>2, <3>3
  <2>10. Decoded'
    <3>1. decoded' \in {0} \cup Records(nodes') /\ pieces' = IF decoded' = 0 THEN <<>> ELSE nodes'[decoded'].keys
      BY <1>2 DEF Decoded
    <3> QED
      BY <1>3, <1>4, <2>8, <2>9, <3>1 DEF Decoded
  <2>11. ~last
    BY <1>2, <1>4 DEF Turns
  <2>12. ~last'
    BY <1>2, <2>11, Zenon
  <2>13. Turns'
    BY <1>2, <1>4, <2>12 DEF Turns
  <2> QED
    BY <2>4, <2>7, <2>10, <2>13
<1>5. CASE started /\ todo' = firsts \o todo /\ firsts' = <<>> /\ started' = started
  <2>1. started'
    BY <1>5, Zenon
  <2>2. /\ decoded > 0 /\ firsts \in Seq(Node) /\ todo \in Seq(Node)
        /\ firsts \o todo = SubSeq(nodes, Folded + 1, decoded)
        /\ Folded = decoded - Len(firsts) - Len(todo)
    BY <1>5 DEF Decoded, Folded
  <2>3. todo' \in Seq(Node) /\ Len(todo') = Len(firsts) + Len(todo) /\ firsts' \in Seq(Node) /\ Len(firsts') = 0
    <3>1. firsts \o todo \in Seq(Node) /\ Len(firsts \o todo) = Len(firsts) + Len(todo)
      BY <2>2, ConcatProperties
    <3>2. <<>> \in Seq(Node) /\ Len(<<>>) = 0
      BY EmptySeq
    <3> QED
      BY <1>5, <3>1, <3>2
  <2>4. Folded' = Folded
    <3>1. Folded' = decoded - Len(firsts') - Len(todo')
      BY <1>2, <2>1 DEF Folded
    <3>2. Len(firsts) \in Nat /\ Len(todo) \in Nat
      BY <2>2, LenProperties
    <3> QED
      BY <1>1, <2>2, <2>3, <3>1, <3>2
  <2>5. firsts' \o todo' = SubSeq(nodes', Folded' + 1, decoded')
    <3>1. <<>> \o todo' = todo'
      BY <2>3, ConcatEmptySeq
    <3> QED
      BY <1>2, <1>5, <2>2, <2>4, <3>1
  <2>6. decoded' > 0 /\ Folded' \in Nat /\ Folded' <= decoded'
    BY <1>1, <1>2, <2>2, <2>4
  <2>7. Decoded'
    <3>1. decoded' \in {0} \cup Records(nodes') /\ pieces' = IF decoded' = 0 THEN <<>> ELSE nodes'[decoded'].keys
      BY <1>2 DEF Decoded
    <3>2. started' \in BOOLEAN
      BY <1>3, <1>5, Zenon
    <3> QED
      BY <1>3, <2>1, <2>3, <2>5, <2>6, <3>1, <3>2 DEF Decoded
  <2>8. Turns'
    <3>1. last' => part' = "header"
      <4>1. last => part = "header"
        BY DEF Turns
      <4>2. last' = last /\ part' = part
        BY <1>2
      <4> QED
        BY <4>1, <4>2, Zenon
    <3> QED
      BY <1>2, <1>5, <2>1, <3>1 DEF Turns
  <2> QED
    BY <2>4, <2>7, <2>8
<1>6. CASE todo = <<>> /\ ~(started /\ last) /\ UNCHANGED <<todo, started, firsts>>
  <2>1. Folded' = Folded
    BY <1>2, <1>6 DEF Folded
  <2>2. Decoded'
    BY <1>2, <1>3, <1>6, <2>1 DEF Decoded
  <2>3. Turns'
    <3>1. last' => part' = "header" /\ firsts' = <<>>
      <4>1. last => part = "header" /\ firsts = <<>>
        BY <1>6 DEF Turns, Decoded
      <4>2. last' = last /\ part' = part /\ firsts' = firsts
        BY <1>2, <1>6
      <4> QED
        BY <4>1, <4>2, Zenon
    <3> QED
      BY <1>2, <1>6, <3>1 DEF Turns
  <2> QED
    BY <2>1, <2>2, <2>3
<1> QED
  BY <1>4, <1>5, <1>6 DEF YieldNodes

(* The next node iterFoldTree takes. *)
LEMMA NextFolded ==
  ASSUME Sending, Receiving, Decoded, Turns, pc = "fold", todo # <<>>
  PROVE  /\ started /\ firsts = <<>> /\ decoded = taken /\ Folded < decoded /\ Folded + 1 \in 1..Len(nodes)
         /\ todo \in Seq(Node) /\ Head(todo) = nodes[Folded + 1]
         /\ Tail(todo) \in Seq(Node) /\ Len(Tail(todo)) = Len(todo) - 1 /\ Len(todo) \in Nat
         /\ Folded = decoded - Len(todo)
         /\ Tail(todo) = SubSeq(nodes, (Folded + 1) + 1, decoded)
<1>1. /\ nodes \in Seq(Node) /\ Len(nodes) \in Nat
      /\ decoded \in Nat /\ decoded <= Len(nodes) /\ Folded \in Nat /\ Folded <= decoded
  BY DecodedNumber
<1>2. started /\ firsts = <<>> /\ decoded = taken
  BY DEF Turns
<1>3. /\ todo \in Seq(Node) /\ firsts \o todo = SubSeq(nodes, Folded + 1, decoded)
      /\ Folded = decoded - Len(firsts) - Len(todo)
  BY <1>2 DEF Decoded, Folded
<1>4. Len(todo) \in Nat /\ Len(todo) > 0
  BY <1>3, EmptySeq
<1>5. todo = SubSeq(nodes, Folded + 1, decoded) /\ Folded = decoded - Len(todo)
  <2>1. <<>> \o todo = todo /\ Len(<<>>) = 0
    BY <1>3, ConcatEmptySeq, EmptySeq
  <2>2. Folded = decoded - 0 - Len(todo)
    BY <1>2, <1>3, <2>1
  <2> QED
    BY <1>1, <1>2, <1>3, <1>4, <2>1, <2>2
<1>6. Folded < decoded /\ Folded + 1 \in 1..Len(nodes) /\ decoded \in (Folded + 1)..Len(nodes)
  BY <1>1, <1>4, <1>5
<1> DEFINE m == Folded + 1
<1> HIDE DEF m
<1>7. Head(SubSeq(nodes, m, decoded)) = nodes[m] /\ Tail(SubSeq(nodes, m, decoded)) = SubSeq(nodes, m + 1, decoded)
  <2>1. m \in 1..Len(nodes) /\ decoded \in m..Len(nodes)
    BY <1>6 DEF m
  <2> QED
    BY <1>1, <2>1, HeadTailOfSubSeq
<1>8. Tail(todo) \in Seq(Node) /\ Len(Tail(todo)) = Len(todo) - 1
  BY <1>3, HeadTailProperties
<1> QED
  BY <1>2, <1>3, <1>4, <1>5, <1>6, <1>7, <1>8 DEF m

(* A node folded is the first of those that wait. *)
LEMMA DecodingFold ==
  ASSUME Sending, Receiving, Decoded, Turns, FoldNode
  PROVE  Decoded' /\ Turns' /\ Folded' = Folded + 1
<1>1. /\ pc = "fold" /\ todo # <<>> /\ (pc' = pc \/ pc' = "refused")
      /\ todo' = Tail(todo) /\ UNCHANGED <<nodes, last, part, taken, decoded, pieces, started, firsts>>
  BY DEF FoldNode, serverVars, bufferVars, pathVars
<1>2. /\ started /\ firsts = <<>> /\ decoded = taken /\ Folded < decoded
      /\ Tail(todo) \in Seq(Node) /\ Len(Tail(todo)) = Len(todo) - 1 /\ Len(todo) \in Nat
      /\ Folded = decoded - Len(todo)
      /\ Tail(todo) = SubSeq(nodes, (Folded + 1) + 1, decoded)
  BY <1>1, NextFolded
<1>3. decoded \in Nat /\ Folded \in Nat
  BY DecodedNumber
<1>4. started' /\ started' \in BOOLEAN /\ last' \in BOOLEAN
  <2>1. started' = started /\ last' = last /\ started \in BOOLEAN /\ last \in BOOLEAN
    BY <1>1 DEF Decoded
  <2> QED
    BY <1>2, <2>1, Zenon
<1>5. firsts' = <<>> /\ Len(firsts') = 0 /\ firsts' \in Seq(Node)
  <2>1. <<>> \in Seq(Node) /\ Len(<<>>) = 0
    BY EmptySeq
  <2> QED
    BY <1>1, <1>2, <2>1
<1>6. Folded' = Folded + 1
  <2>1. Folded' = decoded - Len(firsts') - Len(todo')
    BY <1>1, <1>4 DEF Folded
  <2>2. Len(todo') = Len(todo) - 1
    BY <1>1, <1>2
  <2> QED
    BY <1>2, <1>3, <1>5, <2>1, <2>2
<1>7. firsts' \o todo' = SubSeq(nodes', Folded' + 1, decoded')
  <2>1. <<>> \o Tail(todo) = Tail(todo)
    BY <1>2, ConcatEmptySeq
  <2> QED
    BY <1>1, <1>2, <1>5, <1>6, <2>1
<1>8. decoded' > 0 /\ Folded' \in Nat /\ Folded' <= decoded' /\ todo' \in Seq(Node)
  BY <1>1, <1>2, <1>3, <1>6
<1>9. Decoded'
  <2>1. decoded' \in {0} \cup Records(nodes') /\ pieces' = IF decoded' = 0 THEN <<>> ELSE nodes'[decoded'].keys
    BY <1>1 DEF Decoded
  <2> QED
    BY <1>4, <1>5, <1>7, <1>8, <2>1 DEF Decoded
<1>10. Turns'
  <2>1. last' => part' = "header"
    <3>1. last => part = "header"
      BY DEF Turns
    <3>2. last' = last /\ part' = part
      BY <1>1
    <3> QED
      BY <3>1, <3>2, Zenon
  <2>2. pc' = "fold" \/ pc' = "refused"
    BY <1>1
  <2> QED
    BY <1>1, <1>2, <1>4, <1>5, <2>1, <2>2 DEF Turns
<1> QED
  BY <1>6, <1>9, <1>10

(* When none wait, the fold asks for more. *)
LEMMA DecodingMore ==
  ASSUME Sending, Receiving, Decoded, Turns, FoldMore
  PROVE  Decoded' /\ Turns' /\ Folded' = Folded
<1>1. /\ pc = "fold" /\ todo = <<>>
      /\ UNCHANGED <<nodes, last, part, taken, decoded, pieces, todo, started, firsts>>
  BY DEF FoldMore, serverVars, bufferVars, pathVars
<1>2. Folded' = Folded
  BY <1>1 DEF Folded
<1>3. Decoded'
  BY <1>1, <1>2 DEF Decoded
<1>4. decoded' = taken' /\ decoded' <= taken' /\ todo' = <<>>
  BY <1>1, DecodedNumber DEF Turns
<1>5. CASE last /\ pc' = "over"
  <2>1. last' /\ part' = "header" /\ firsts' = <<>>
    <3>1. part = "header" /\ firsts = <<>>
      BY <1>1, <1>5 DEF Turns
    <3>2. last' = last /\ part' = part /\ firsts' = firsts
      BY <1>1
    <3> QED
      BY <1>5, <3>1, <3>2, Zenon
  <2>2. Turns'
    BY <1>4, <1>5, <2>1 DEF Turns
  <2> QED
    BY <1>2, <1>3, <2>2
<1>6. CASE ~last /\ pc' = "wait"
  <2>1. ~last'
    <3>1. last' = last
      BY <1>1
    <3> QED
      BY <1>6, <3>1, Zenon
  <2>2. Turns'
    BY <1>4, <1>6, <2>1 DEF Turns
  <2> QED
    BY <1>2, <1>3, <2>2
<1> QED
  BY <1>5, <1>6 DEF FoldMore

(* The invariant of the decoder is kept by every step. *)
LEMMA DecodingKept ==
  ASSUME Sending, Receiving, Decoded, Turns, SDNext
  PROVE  Decoded' /\ Turns'
<1> QED
  BY DecodingSend, DecodingBytes, DecodingRecord, DecodingYield, DecodingFold, DecodingMore DEF SDNext

-----------------------------------------------------------------------------
(* The tree that is built *)

(* A sequence is its front and its last element. *)
LEMMA FrontLast ==
  ASSUME NEW S, NEW s \in Seq(S), s # <<>>
  PROVE  s = Append(Front(s), Last(s)) /\ Last(s) \in S /\ Last(s) = s[Len(s)]
<1>1. /\ Front(s) \in Seq(S) /\ Len(Front(s)) = Len(s) - 1 /\ Len(s) \in Nat /\ Len(s) > 0
      /\ \A k \in 1..(Len(s) - 1) : Front(s)[k] = s[k]
  BY FrontElements
<1>2. Last(s) = s[Len(s)]
  BY DEF Last
<1>3. Last(s) \in S
  <2>1. Len(s) \in 1..Len(s)
    BY <1>1
  <2> QED
    BY <1>2, <2>1, ElementOfSeq
<1> DEFINE f == Front(s)
           l == Last(s)
           t == Append(f, l)
<1> HIDE DEF f, l
<1>4. f \in Seq(S) /\ l \in S
  BY <1>1, <1>3 DEF f, l
<1>5. t \in Seq(S) /\ Len(t) = Len(f) + 1 /\ (\A k \in 1..Len(f) : t[k] = f[k]) /\ t[Len(f) + 1] = l
  BY <1>4, AppendProperties
<1> HIDE DEF t
<1>6. Len(f) = Len(s) - 1 /\ \A k \in 1..(Len(s) - 1) : f[k] = s[k]
  BY <1>1 DEF f
<1>7. Len(t) = Len(s)
  BY <1>1, <1>5, <1>6
<1>8. ASSUME NEW k \in 1..Len(t) PROVE t[k] = s[k]
  <2>1. CASE k = Len(s)
    <3>1. k = Len(f) + 1
      BY <1>1, <1>6, <2>1
    <3> QED
      BY <1>2, <1>5, <2>1, <3>1 DEF l
  <2>2. CASE k # Len(s)
    <3>1. k \in 1..(Len(s) - 1)
      BY <1>1, <1>7, <2>2
    <3> QED
      BY <1>5, <1>6, <3>1
  <2> QED
    BY <2>1, <2>2
<1>9. t = s
  BY <1>5, <1>7, <1>8, SeqEqual
<1> QED
  BY <1>2, <1>3, <1>9 DEF t, f, l

(* A child of a path has it as its front. *)
LEMMA ChildIs ==
  ASSUME NEW p \in Seq(Key), NEW q \in Seq(Key)
  PROVE  Len(q) = Len(p) + 1 /\ IsPrefix(p, q) <=> q # <<>> /\ Front(q) = p
<1>1. Len(p) \in Nat /\ Len(q) \in Nat
  BY LenProperties
<1>2. ASSUME Len(q) = Len(p) + 1, IsPrefix(p, q) PROVE q # <<>> /\ Front(q) = p
  <2>1. q # <<>>
    BY <1>1, <1>2
  <2>2. /\ Front(q) \in Seq(Key) /\ Len(Front(q)) = Len(q) - 1 /\ \A k \in 1..(Len(q) - 1) : Front(q)[k] = q[k]
    BY <2>1, FrontElements
  <2>3. \A k \in 1..Len(p) : p[k] = q[k]
    BY <1>2, PrefixElements
  <2>4. Len(Front(q)) = Len(p) /\ \A k \in 1..Len(Front(q)) : Front(q)[k] = p[k]
    BY <1>1, <1>2, <2>2, <2>3
  <2>5. Front(q) = p
    BY <2>2, <2>4, SeqEqual
  <2> QED
    BY <2>1, <2>5
<1>3. ASSUME q # <<>>, Front(q) = p PROVE Len(q) = Len(p) + 1 /\ IsPrefix(p, q)
  <2>1. /\ Len(p) = Len(q) - 1 /\ \A k \in 1..(Len(q) - 1) : p[k] = q[k]
    BY <1>3, FrontElements
  <2>2. Len(q) = Len(p) + 1 /\ Len(p) <= Len(q) /\ \A k \in 1..Len(p) : p[k] = q[k]
    BY <1>1, <2>1
  <2> QED
    BY <2>2, PrefixElements
<1> QED
  BY <1>2, <1>3

(* The first m nodes of an object. *)
Part(o, m) == [p \in {o.paths[k] : k \in 1..m} |-> o.tree[p]]

(* The first node is the root of the object. *)
LEMMA PartFirst ==
  ASSUME NEW o, IsObject(o)
  PROVE  Part(o, 1) = [q \in {<<>>} |-> o.tree[<<>>]]
<1>1. o.paths[1] = <<>>
  BY ObjectFacts
<1>2. {o.paths[k] : k \in 1..1} = {<<>>}
  <2>1. \A k \in 1..1 : k = 1
    OBVIOUS
  <2>2. 1 \in 1..1
    OBVIOUS
  <2> QED
    BY <1>1, <2>1, <2>2
<1> QED
  BY <1>2 DEF Part

(* All of its nodes are the object. *)
LEMMA PartWhole ==
  ASSUME NEW o, IsObject(o)
  PROVE  Part(o, Len(o.paths)) = o.tree
<1>1. o.tree \in [{o.paths[i] : i \in 1..Len(o.paths)} -> {"object", "array", "leaf"}]
  BY ObjectFacts
<1> DEFINE D == {o.paths[i] : i \in 1..Len(o.paths)}
<1> HIDE DEF D
<1>2. o.tree \in [D -> {"object", "array", "leaf"}]
  BY <1>1 DEF D
<1>3. o.tree = [p \in D |-> o.tree[p]]
  BY <1>2
<1>4. Part(o, Len(o.paths)) = [p \in D |-> o.tree[p]]
  BY DEF Part, D
<1> QED
  BY <1>3, <1>4

(* An array has as many children as the index of the next one. *)
LEMMA ChildrenCounted ==
  ASSUME NEW o, IsObject(o), NEW m \in 1..(Len(o.paths) - 1),
         o.tree[Front(o.paths[m + 1])] = "array"
  PROVE  Cardinality(Children(Part(o, m), Front(o.paths[m + 1]))) = Last(o.paths[m + 1])[2]
         /\ Last(o.paths[m + 1])[2] \in Nat
<1> DEFINE L == Len(o.paths)
           P == o.paths
           j == m + 1
           p == Front(P[j])
           C == Children(Part(o, m), p)
<1>1. /\ L \in Nat /\ P[1] = <<>> /\ \A k \in 1..L : P[k] \in Seq(Key)
      /\ \A k \in 2..L : P[k] # <<>>
  BY ObjectFacts
<1>2. j \in 2..L /\ m \in Nat /\ j - 1 = m /\ j \in 1..L
  BY <1>1
<1>3. p \in Seq(Key)
  BY <1>1, <1>2, FrontElements
<1>4. PICK n \in 0..j : /\ Last(P[j]) = <<"int", n>>
                        /\ {Last(P[k]) : k \in {i \in 2..(j - 1) : Front(P[i]) = p}} = {"int"} \X (0..(n - 1))
  BY <1>2 DEF IsObject
<1>5. \A q : q \in C <=> \E k \in 1..m : q = P[k] /\ Len(P[k]) = Len(p) + 1 /\ IsPrefix(p, P[k])
  BY DEF Children, Part
<1> HIDE DEF C, p, P, L, j
<1>6. n \in Nat /\ Last(P[j])[2] = n
  BY <1>2, <1>4
<1>7. ASSUME NEW k \in 1..m PROVE Len(P[k]) = Len(p) + 1 /\ IsPrefix(p, P[k]) <=> k \in 2..m /\ Front(P[k]) = p
  <2>1. k \in 1..L /\ (k = 1 \/ k \in 2..m)
    BY <1>1, <1>2
  <2>2. P[k] \in Seq(Key)
    BY <1>1, <2>1
  <2>3. Len(P[k]) = Len(p) + 1 /\ IsPrefix(p, P[k]) <=> P[k] # <<>> /\ Front(P[k]) = p
    BY <1>3, <2>2, ChildIs
  <2>4. P[k] # <<>> <=> k \in 2..m
    <3>1. k \in 2..m => k \in 2..L
      BY <1>1, <1>2
    <3>2. k = 1 => k \notin 2..m
      OBVIOUS
    <3> QED
      BY <1>1, <2>1, <3>1, <3>2
  <2> QED
    BY <2>3, <2>4
<1>8. ASSUME NEW k \in 2..m, Front(P[k]) = p
      PROVE  P[k] = Append(p, Last(P[k])) /\ Last(P[k]) \in Key
  <2>1. P[k] \in Seq(Key) /\ P[k] # <<>>
    <3>1. k \in 1..L /\ k \in 2..L
      BY <1>1, <1>2
    <3> QED
      BY <1>1, <3>1
  <2> QED
    BY <1>8, <2>1, FrontLast
<1> DEFINE I == 0..(n - 1)
           g == [v \in I |-> Append(p, <<"int", v>>)]
<1>9. ASSUME NEW v \in I PROVE Append(p, <<"int", v>>) \in C /\ <<"int", v>> \in Key
  <2>1. <<"int", v>> \in {"int"} \X I
    OBVIOUS
  <2>2. PICK k \in 2..m : Front(P[k]) = p /\ Last(P[k]) = <<"int", v>>
    BY <1>2, <1>4, <2>1
  <2>3. P[k] = Append(p, <<"int", v>>) /\ <<"int", v>> \in Key
    BY <1>8, <2>2
  <2>4. k \in 1..m
    OBVIOUS
  <2> QED
    BY <1>5, <1>7, <2>2, <2>3, <2>4
<1>10. ASSUME NEW q \in C PROVE \E v \in I : q = Append(p, <<"int", v>>)
  <2>1. PICK k \in 1..m : q = P[k] /\ Len(P[k]) = Len(p) + 1 /\ IsPrefix(p, P[k])
    BY <1>5
  <2>2. k \in 2..m /\ Front(P[k]) = p
    BY <1>7, <2>1
  <2>3. Last(P[k]) \in {"int"} \X I
    BY <1>2, <1>4, <2>2
  <2>4. PICK v \in I : Last(P[k]) = <<"int", v>>
    BY <2>3
  <2> QED
    BY <1>8, <2>1, <2>2, <2>4
<1> HIDE DEF I
<1>11. ASSUME NEW v \in I, NEW w \in I, Append(p, <<"int", v>>) = Append(p, <<"int", w>>) PROVE v = w
  <2>1. <<"int", v>> \in Key /\ <<"int", w>> \in Key
    BY <1>9
  <2>2. <<"int", v>> = <<"int", w>>
    BY <1>3, <1>11, <2>1, AppendInjective
  <2> QED
    BY <2>2
<1>12. g \in [I -> C] /\ (\A t \in C : \E v \in I : g[v] = t) /\ \A v, w \in I : g[v] = g[w] => v = w
  BY <1>9, <1>10, <1>11
<1>13. IsFiniteSet(I) /\ Cardinality(I) = n
  <2>1. n - 1 \in Int /\ 0 \in Int /\ (IF 0 > n - 1 THEN 0 ELSE (n - 1) - 0 + 1) = n
    BY <1>6
  <2> DEFINE h == n - 1
  <2>2. h \in Int /\ 0 \in Int /\ (IF 0 > h THEN 0 ELSE h - 0 + 1) = n
    BY <2>1
  <2> HIDE DEF h
  <2>3. IsFiniteSet(0..h) /\ Cardinality(0..h) = IF 0 > h THEN 0 ELSE h - 0 + 1
    BY <2>2, FS_Interval
  <2> QED
    BY <2>2, <2>3 DEF I, h
<1> HIDE DEF g
<1>14. Cardinality(C) = n
  BY <1>12, <1>13, SameSize
<1> QED
  BY <1>6, <1>14 DEF C, p, P, j

(* The first node of an object, whatever was there before. *)
LEMMA GrownFirst ==
  ASSUME NEW o, IsObject(o), NEW t
  PROVE  Grown(t, <<o.key>> \o o.paths[1], o.tree[o.paths[1]]) = Part(o, 1)
<1>1. o.paths[1] = <<>> /\ o.key \in Key /\ o.paths[1] \in Seq(Key)
  <2>1. o.paths[1] = <<>> /\ o.key \in Key
    BY ObjectFacts
  <2> QED
    BY <2>1
<1> DEFINE keys == <<o.key>> \o o.paths[1]
<1>2. Tail(keys) = <<>>
  BY <1>1, UnderKey
<1> HIDE DEF keys
<1>3. Grown(t, keys, o.tree[o.paths[1]]) = [q \in {<<>>} |-> o.tree[o.paths[1]]]
  BY <1>2 DEF Grown
<1> QED
  BY <1>1, <1>3, PartFirst DEF keys

(* The next node of an object, on those before it. *)
LEMMA GrownNext ==
  ASSUME NEW o, IsObject(o), NEW m \in 1..(Len(o.paths) - 1)
  PROVE  Grown(Part(o, m), <<o.key>> \o o.paths[m + 1], o.tree[o.paths[m + 1]]) = Part(o, m + 1)
<1> DEFINE L == Len(o.paths)
           P == o.paths
           j == m + 1
           new == P[j]
           p == Front(new)
           keys == <<o.key>> \o new
           t == Part(o, m)
           D == {P[k] : k \in 1..m}
           nulls == IF t[p] = "array" THEN Nulls(t, p, Last(new)[2]) ELSE {}
<1>1. /\ L \in Nat /\ o.key \in Key /\ \A k \in 1..L : P[k] \in Seq(Key)
      /\ \A k \in 2..L : P[k] # <<>>
  BY ObjectFacts
<1>2. j \in 2..L /\ m \in Nat /\ j - 1 = m /\ j \in 1..L
  BY <1>1
<1>3. new # <<>> /\ new \in Seq(Key)
  BY <1>1, <1>2
<1>4. p \in D
  <2>1. \E k \in 1..(j - 1) : P[k] = p
    BY <1>2, ObjectLinked
  <2> QED
    BY <1>2, <2>1
<1>5. t = [q \in D |-> o.tree[q]]
  BY DEF Part
<1>6. t[p] = o.tree[p]
  BY <1>4, <1>5
<1>7. nulls = {}
  <2>1. CASE o.tree[p] = "array"
    <3>1. Cardinality(Children(t, p)) = Last(new)[2] /\ Last(new)[2] \in Nat
      BY <2>1, ChildrenCounted
    <3> HIDE DEF t, p, new
    <3> DEFINE n == Last(new)[2]
    <3>2. Cardinality(Children(t, p)) = n /\ n \in Nat
      BY <3>1
    <3> HIDE DEF n
    <3>3. Cardinality(Children(t, p))..(n - 1) = {}
      BY <3>2
    <3>4. Nulls(t, p, n) = {}
      BY <3>3 DEF Nulls
    <3> QED
      BY <3>4 DEF n
  <2>2. CASE o.tree[p] # "array"
    BY <1>6, <2>2
  <2> QED
    BY <2>1, <2>2
<1>8. Tail(keys) = new
  BY <1>1, <1>3, UnderKey
<1> HIDE DEF keys, new, t, D, p, nulls
<1>9. Grown(t, keys, o.tree[new])
        = [q \in (DOMAIN t) \cup nulls \cup {new} |->
             IF q = new THEN o.tree[new] ELSE IF q \in nulls THEN "null" ELSE t[q]]
  BY <1>3, <1>8 DEF Grown, nulls, p
<1>10. Grown(t, keys, o.tree[new]) = [q \in D \cup {new} |-> o.tree[q]]
  <2>1. (DOMAIN t) \cup nulls \cup {new} = D \cup {new}
    BY <1>5, <1>7
  <2>2. \A q \in D \cup {new} :
          (IF q = new THEN o.tree[new] ELSE IF q \in nulls THEN "null" ELSE t[q]) = o.tree[q]
    BY <1>5, <1>7
  <2> QED
    BY <1>9, <2>1, <2>2
<1>11. {P[k] : k \in 1..j} = D \cup {new}
  <2>1. \A k \in 1..j : k = j \/ k \in 1..m
    BY <1>2
  <2>2. j \in 1..j /\ \A k \in 1..m : k \in 1..j
    BY <1>2
  <2> HIDE DEF j
  <2> QED
    BY <2>1, <2>2 DEF D, new
<1>12. Part(o, j) = [q \in D \cup {new} |-> o.tree[q]]
  BY <1>11 DEF Part
<1> QED
  BY <1>10, <1>12 DEF t, keys, new

(* What the page receives. *)
Item == [key : Name, tree : Trees]

(* A part of an object is a tree that agrees with it. *)
LEMMA PartTree ==
  ASSUME NEW o, IsObject(o), NEW m \in 0..Len(o.paths)
  PROVE  /\ Part(o, m) \in Trees
         /\ [key |-> o.key, tree |-> Part(o, m)] \in Item
         /\ DOMAIN Part(o, m) \subseteq DOMAIN o.tree
         /\ \A p \in DOMAIN Part(o, m) : Part(o, m)[p] = o.tree[p]
<1> DEFINE D == {o.paths[k] : k \in 1..m}
<1>1. /\ Len(o.paths) \in Nat /\ o.key \in Name
      /\ \A i \in 1..Len(o.paths) : o.paths[i] \in Seq(Key) /\ o.paths[i] \in DOMAIN o.tree
      /\ \A i \in 1..Len(o.paths) : o.tree[o.paths[i]] \in Kinds
  BY ObjectFacts DEF Kinds
<1>2. \A k \in 1..m : k \in 1..Len(o.paths)
  BY <1>1
<1>3. D \in SUBSET Seq(Key) /\ D \subseteq DOMAIN o.tree /\ \A p \in D : o.tree[p] \in Kinds
  BY <1>1, <1>2
<1> HIDE DEF D
<1>4. Part(o, m) = [p \in D |-> o.tree[p]]
  BY DEF Part, D
<1>5. Part(o, m) \in [D -> Kinds]
  BY <1>3, <1>4
<1>6. Part(o, m) \in Trees
  BY <1>3, <1>5 DEF Trees
<1>7. [key |-> o.key, tree |-> Part(o, m)] \in Item
  BY <1>1, <1>6 DEF Item
<1> QED
  BY <1>3, <1>4, <1>6, <1>7

-----------------------------------------------------------------------------
(* iterFoldTree *)

(* iterFoldTree is within the j-th object sent, which is o, or at its end; those
   before it were given away as they were sent. *)
FoldingAt(j, o) ==
  /\ Carries(j, o)
  /\ given[j].from < Folded /\ Folded <= End(j)
  /\ path = nodes[Folded].keys
  /\ tree = Part(o, Folded - given[j].from)
  /\ objects \in Seq(Item)
  /\ Len(objects) = IF pc = "over" THEN j ELSE j - 1
  /\ \A i \in 1..(j - 1) : objects[i] = [key |-> given[i].key, tree |-> given[i].tree]
  /\ pc = "over" => objects[j] = [key |-> given[j].key, tree |-> tree]

(* The invariant of iterFoldTree. *)
Folding ==
  /\ pc # "refused"
  /\ Folded = 0 => path = <<>> /\ tree = <<>> /\ objects = <<>>
  /\ Folded > 0 => \E j \in 1..Len(given) : \E o \in Objects : FoldingAt(j, o)

(* It is kept by all that leaves the fold alone. *)
LEMMA FoldingStays ==
  ASSUME Sending, Receiving, Decoded, Turns, Folding, Folded' = Folded,
         Send \/ UNCHANGED <<given, nodes>>,
         UNCHANGED <<path, tree, objects>>, pc # "over", pc' \notin {"over", "refused"}
  PROVE  Folding'
<1>1. Folded \in Nat /\ Folded <= Len(nodes) /\ Len(nodes) \in Nat
  BY DecodedNumber
<1>2. CASE Folded = 0
  BY <1>2 DEF Folding
<1>3. CASE Folded > 0
  <2>1. PICK j \in 1..Len(given) : \E o \in Objects : FoldingAt(j, o)
    BY <1>3 DEF Folding
  <2>2. PICK o \in Objects : FoldingAt(j, o)
    BY <2>1
  <2>3. /\ Carries(j, o)' /\ given'[j] = given[j] /\ End(j)' = End(j) /\ j \in 1..Len(given')
        /\ nodes'[Folded] = nodes[Folded] /\ \A i \in 1..j : given'[i] = given[i]
    <3>1. CASE Send
      <4>1. Len(given) \in Nat /\ Len(given') = Len(given) + 1 /\ \A i \in 1..Len(given) : given'[i] = given[i]
        BY <3>1, SendGives
      <4>2. Carries(j, o)
        BY <2>2 DEF FoldingAt
      <4>3. /\ Carries(j, o)' /\ End(j)' = End(j) /\ \A i \in 1..Len(nodes) : nodes'[i] = nodes[i]
        BY <3>1, <4>2, CarriesStays
      <4>4. Folded \in 1..Len(nodes) /\ j \in 1..Len(given') /\ \A i \in 1..j : i \in 1..Len(given)
        BY <1>1, <1>3, <4>1
      <4> QED
        BY <4>1, <4>3, <4>4
    <3>2. CASE UNCHANGED <<given, nodes>>
      BY <2>2, <3>2 DEF FoldingAt, Carries, End
    <3> QED
      BY <3>1, <3>2
  <2>4. \A i \in 1..(j - 1) : i \in 1..j
    OBVIOUS
  <2>5. FoldingAt(j, o)'
    BY <2>2, <2>3, <2>4 DEF FoldingAt
  <2>6. \E i \in 1..Len(given') : \E u \in Objects : FoldingAt(i, u)'
    BY <2>3, <2>5
  <2> QED
    BY <1>3, <2>6 DEF Folding
<1> QED
  BY <1>1, <1>2, <1>3

(* The i-th node of an object sent. *)
LEMMA NodeSent ==
  ASSUME Sending, NEW j \in 1..Len(given), NEW o \in Objects, Carries(j, o), NEW i \in 1..Len(o.paths)
  PROVE  /\ IsObject(o) /\ Len(o.paths) \in Nat /\ given[j].from \in Nat
         /\ nodes[given[j].from + i].keys = <<o.key>> \o o.paths[i]
         /\ nodes[given[j].from + i].val = o.tree[o.paths[i]]
         /\ nodes[given[j].from + i].keys \in Seq(Key)
         /\ nodes[given[j].from + i].keys # <<>>
         /\ nodes[given[j].from + i].keys[1] = o.key
         /\ Len(nodes[given[j].from + i].keys) = Len(o.paths[i]) + 1
<1>1. IsObject(o)
  BY StreamConstants DEF Carries
<1>2. Len(o.paths) \in Nat /\ o.key \in Key /\ o.paths[i] \in Seq(Key)
  BY <1>1, ObjectFacts
<1>3. given[j].from \in Nat
  BY GivenEntry
<1> DEFINE x == <<o.key>> \o o.paths[i]
<1>4. x \in Seq(Key) /\ x # <<>> /\ x[1] = o.key /\ Len(x) = Len(o.paths[i]) + 1
  BY <1>2, UnderKey
<1>5. nodes[given[j].from + i] = [keys |-> x, val |-> o.tree[o.paths[i]]]
  BY DEF Carries
<1> HIDE DEF x
<1>6. nodes[given[j].from + i].keys = x /\ nodes[given[j].from + i].val = o.tree[o.paths[i]]
  BY <1>5
<1> QED
  BY <1>1, <1>2, <1>3, <1>4, <1>6 DEF x

(* The first node of an object sent. *)
LEMMA FirstNodeSent ==
  ASSUME Sending, NEW j \in 1..Len(given), NEW o \in Objects, Carries(j, o)
  PROVE  /\ nodes[given[j].from + 1].keys = <<o.key>> \o o.paths[1]
         /\ nodes[given[j].from + 1].val = o.tree[o.paths[1]]
         /\ Len(nodes[given[j].from + 1].keys) = Len(o.paths[1]) + 1
<1> DEFINE k == 1
<1>1. IsObject(o)
  BY StreamConstants DEF Carries
<1>2. k \in 1..Len(o.paths)
  <2>1. Len(o.paths) \in Nat /\ Len(o.paths) > 0
    BY <1>1, ObjectFacts
  <2> QED
    BY <2>1
<1> HIDE DEF k
<1>4. \A i \in 1..Len(o.paths) : /\ nodes[given[j].from + i].keys = <<o.key>> \o o.paths[i]
      /\ nodes[given[j].from + i].val = o.tree[o.paths[i]]
      /\ Len(nodes[given[j].from + i].keys) = Len(o.paths[i]) + 1
  BY NodeSent
<1>3. /\ nodes[given[j].from + k].keys = <<o.key>> \o o.paths[k]
      /\ nodes[given[j].from + k].val = o.tree[o.paths[k]]
      /\ Len(nodes[given[j].from + k].keys) = Len(o.paths[k]) + 1
  BY <1>2, <1>4
<1> QED
  BY <1>3 DEF k

(* What FoldNode does with a node that hangs on the path. *)
LEMMA NodeFolds ==
  ASSUME Sending, Receiving, Decoded, Turns, FoldNode,
         Len(nodes[Folded + 1].keys) = Common(path, nodes[Folded + 1].keys) + 1
  PROVE  /\ pc = "fold" /\ pc' = "fold" /\ UNCHANGED <<given, nodes>>
         /\ path' = nodes[Folded + 1].keys
         /\ tree' = Grown(tree, nodes[Folded + 1].keys, nodes[Folded + 1].val)
         /\ GiveAway(Common(path, nodes[Folded + 1].keys))
         /\ Folded' = Folded + 1
<1>1. pc = "fold" /\ todo # <<>>
  BY DEF FoldNode
<1>2. Head(todo) = nodes[Folded + 1]
  BY <1>1, NextFolded
<1>3. Folded' = Folded + 1
  BY DecodingFold
<1> QED
  BY <1>1, <1>2, <1>3 DEF FoldNode, serverVars

(* The first node of the next object: what was built of the one before, if any, has
   been given away. *)
LEMMA FoldingStart ==
  ASSUME Sending, Receiving, Decoded, Turns, FoldNode,
         NEW j \in 1..Len(given), NEW o \in Objects, Carries(j, o), given[j].from = Folded,
         Common(path, nodes[Folded + 1].keys) = 0,
         objects' \in Seq(Item), Len(objects') = j - 1,
         \A i \in 1..(j - 1) : objects'[i] = [key |-> given[i].key, tree |-> given[i].tree]
  PROVE  Folding'
<1>1. IsObject(o)
  BY StreamConstants
<1>2. Len(o.paths) \in Nat /\ Len(o.paths) > 0 /\ o.paths[1] = <<>> /\ Len(o.paths[1]) = 0
  <2>1. Len(o.paths) \in Nat /\ Len(o.paths) > 0 /\ o.paths[1] = <<>>
    BY <1>1, ObjectFacts
  <2> QED
    BY <2>1, EmptySeq
<1> DEFINE F == Folded
           keys == nodes[F + 1].keys
           val == nodes[F + 1].val
<1>3. F \in Nat /\ given[j].from = F
  BY DecodedNumber
<1>4. keys = <<o.key>> \o o.paths[1] /\ val = o.tree[o.paths[1]] /\ Len(keys) = 0 + 1
  <2>1. /\ nodes[given[j].from + 1].keys = <<o.key>> \o o.paths[1]
        /\ nodes[given[j].from + 1].val = o.tree[o.paths[1]]
        /\ Len(nodes[given[j].from + 1].keys) = Len(o.paths[1]) + 1
    BY FirstNodeSent
  <2>2. given[j].from + 1 = F + 1
    BY <1>3
  <2> HIDE DEF F
  <2> QED
    BY <1>2, <2>1, <2>2
<1>5. Len(keys) = Common(path, keys) + 1
  BY <1>4
<1>6. /\ pc' = "fold" /\ UNCHANGED <<given, nodes>> /\ Folded' = F + 1
      /\ path' = keys /\ tree' = Grown(tree, keys, val)
  BY <1>5, NodeFolds
<1>7. tree' = Part(o, 1)
  BY <1>1, <1>4, <1>6, GrownFirst
<1> HIDE DEF keys, val
<1>8. Carries(j, o)' /\ End(j)' = End(j) /\ End(j) = F + Len(o.paths)
  BY <1>3, <1>6 DEF Carries, End
<1>9. /\ Folded' - given'[j].from = 1 /\ given'[j].from < Folded' /\ Folded' <= End(j)'
      /\ path' = nodes'[Folded'].keys
  BY <1>2, <1>3, <1>6, <1>8 DEF keys
<1>10. FoldingAt(j, o)'
  BY <1>6, <1>7, <1>8, <1>9 DEF FoldingAt
<1>11. pc' # "refused" /\ Folded' # 0
  BY <1>3, <1>6
<1>12. \E k \in 1..Len(given') : \E u \in Objects : FoldingAt(k, u)'
  BY <1>6, <1>10
<1> QED
  BY <1>11, <1>12 DEF Folding

(* The next node of the object being built. *)
LEMMA FoldingNext ==
  ASSUME Sending, Receiving, Decoded, Turns, FoldNode,
         NEW j \in 1..Len(given), NEW o \in Objects, FoldingAt(j, o), Folded < End(j)
  PROVE  Folding'
<1> DEFINE F == Folded
           keys == nodes[F + 1].keys
           val == nodes[F + 1].val
           m == F - given[j].from
<1>0. IsObject(o) /\ Carries(j, o)
  BY StreamConstants DEF FoldingAt
<1>1. /\ nodes \in Seq(Node) /\ Linked(nodes) /\ Len(nodes) \in Nat /\ F \in Nat
      /\ \A i \in 1..Len(nodes) : nodes[i].keys \in Seq(Key) /\ nodes[i].keys # <<>>
  BY DecodedNumber
<1>2. given[j].from \in Nat /\ Len(o.paths) \in Nat /\ End(j) = given[j].from + Len(o.paths) /\ End(j) <= Len(nodes)
  BY <1>0, GivenEntry, ObjectFacts DEF Carries
<1>3. given[j].from < F /\ F < End(j) /\ path = nodes[F].keys /\ tree = Part(o, m)
  BY DEF FoldingAt
<1>4. /\ F \in 1..Len(nodes) /\ F + 1 \in 1..Len(nodes) /\ F + 1 > 1 /\ (F + 1) - 1 = F
      /\ m \in 1..(Len(o.paths) - 1) /\ m + 1 \in 1..Len(o.paths) /\ m \in 1..Len(o.paths) /\ m + 1 > 1
      /\ given[j].from + (m + 1) = F + 1 /\ given[j].from + m = F
  <2> DEFINE f == given[j].from
             L == Len(o.paths)
             N == Len(nodes)
             e == End(j)
  <2>1. f \in Nat /\ L \in Nat /\ N \in Nat /\ F \in Nat /\ e = f + L /\ e <= N /\ f < F /\ F < e /\ m = F - f
    BY <1>1, <1>2, <1>3
  <2> HIDE DEF f, L, N, e, F, m
  <2>2. /\ F \in 1..N /\ F + 1 \in 1..N /\ F + 1 > 1 /\ (F + 1) - 1 = F
        /\ m \in 1..(L - 1) /\ m + 1 \in 1..L /\ m \in 1..L /\ m + 1 > 1
        /\ f + (m + 1) = F + 1 /\ f + m = F
    BY <2>1
  <2> QED
    BY <2>2 DEF f, L, N
<1>5. keys \in Seq(Key) /\ path \in Seq(Key) /\ Hangs(keys, path)
  BY <1>1, <1>3, <1>4 DEF Linked
<1>6. Common(path, keys) = Len(keys) - 1
  BY <1>5, HangsCommon
<1>7. keys = <<o.key>> \o o.paths[m + 1] /\ val = o.tree[o.paths[m + 1]] /\ Len(keys) = Len(o.paths[m + 1]) + 1
  <2> DEFINE k == m + 1
  <2>1. k \in 1..Len(o.paths) /\ given[j].from + k = F + 1
    BY <1>4
  <2> HIDE DEF k
  <2>2. /\ nodes[given[j].from + k].keys = <<o.key>> \o o.paths[k]
        /\ nodes[given[j].from + k].val = o.tree[o.paths[k]]
        /\ Len(nodes[given[j].from + k].keys) = Len(o.paths[k]) + 1
    BY <1>0, <2>1, NodeSent
  <2> QED
    BY <2>1, <2>2 DEF k
<1>8. Len(o.paths[m + 1]) \in Nat /\ Len(o.paths[m + 1]) > 0
  <2> DEFINE k == m + 1
  <2>1. k \in 1..Len(o.paths) /\ k \in 2..Len(o.paths)
    BY <1>4
  <2> HIDE DEF k
  <2>2. o.paths[k] \in Seq(Key) /\ o.paths[k] # <<>>
    BY <1>0, <2>1, ObjectFacts
  <2>3. Len(o.paths[k]) \in Nat /\ Len(o.paths[k]) > 0
    BY <2>2, EmptySeq
  <2> QED
    BY <2>3 DEF k
<1>9. Len(keys) = Common(path, keys) + 1 /\ Common(path, keys) # 0
  BY <1>6, <1>7, <1>8
<1>10. /\ pc = "fold" /\ pc' = "fold" /\ UNCHANGED <<given, nodes>> /\ Folded' = F + 1
       /\ path' = keys /\ tree' = Grown(tree, keys, val) /\ GiveAway(Common(path, keys))
  BY <1>9, NodeFolds
<1>11. objects' = objects
  BY <1>9, <1>10 DEF GiveAway
<1>12. tree' = Part(o, m + 1)
  BY <1>0, <1>3, <1>4, <1>7, <1>10, GrownNext
<1> HIDE DEF keys, val
<1>13. Carries(j, o)' /\ End(j)' = End(j)
  BY <1>0, <1>10 DEF Carries, End
<1>14. /\ Folded' - given'[j].from = m + 1 /\ given'[j].from < Folded' /\ Folded' <= End(j)'
       /\ path' = nodes'[Folded'].keys
  <2> DEFINE f == given[j].from
             e == End(j)
  <2>1. /\ f \in Nat /\ F \in Nat /\ e \in Nat /\ f < F /\ F < e /\ m = F - f /\ Folded' = F + 1
        /\ given'[j].from = f /\ End(j)' = e
    BY <1>1, <1>2, <1>3, <1>10, <1>13
  <2>2. path' = nodes'[Folded'].keys
    BY <1>10 DEF keys
  <2> HIDE DEF f, e, F, m
  <2>3. /\ Folded' - given'[j].from = m + 1 /\ given'[j].from < Folded' /\ Folded' <= End(j)'
    BY <2>1
  <2> QED
    BY <2>2, <2>3
<1> HIDE DEF m
<1>15. FoldingAt(j, o)'
  BY <1>10, <1>11, <1>12, <1>13, <1>14 DEF FoldingAt
<1>16. pc' # "refused" /\ Folded' # 0
  BY <1>1, <1>10
<1>17. \E k \in 1..Len(given') : \E u \in Objects : FoldingAt(k, u)'
  BY <1>10, <1>15
<1> QED
  BY <1>16, <1>17 DEF Folding

(* At the end of an object what was built is the object. *)
LEMMA WholeAtEnd ==
  ASSUME Sending, Receiving, Decoded, Turns,
         NEW j \in 1..Len(given), NEW o \in Objects, FoldingAt(j, o), Folded = End(j)
  PROVE  tree = given[j].tree
<1>1. IsObject(o) /\ Carries(j, o)
  BY StreamConstants DEF FoldingAt
<1>2. given[j].from \in Nat /\ Len(o.paths) \in Nat /\ Folded \in Nat
  BY <1>1, GivenEntry, ObjectFacts, DecodedNumber
<1>3. Folded - given[j].from = Len(o.paths)
  BY <1>1, <1>2 DEF Carries
<1>4. tree = Part(o, Len(o.paths))
  BY <1>3 DEF FoldingAt
<1> QED
  BY <1>1, <1>4, PartWhole DEF Carries

(* The path within an object starts with its key. *)
LEMMA PathWithin ==
  ASSUME Sending, Receiving, Decoded, Turns,
         NEW j \in 1..Len(given), NEW o \in Objects, FoldingAt(j, o)
  PROVE  path \in Seq(Key) /\ path # <<>> /\ path[1] = given[j].key /\ given[j].key = o.key
<1> DEFINE m == Folded - given[j].from
<1>1. Carries(j, o) /\ IsObject(o)
  BY StreamConstants DEF FoldingAt
<1>2. given[j].from \in Nat /\ Len(o.paths) \in Nat /\ Folded \in Nat
  BY <1>1, GivenEntry, ObjectFacts, DecodedNumber
<1>3. given[j].from < Folded /\ Folded <= given[j].from + Len(o.paths)
  BY <1>1 DEF FoldingAt, Carries
<1>4. m \in 1..Len(o.paths) /\ given[j].from + m = Folded
  BY <1>2, <1>3
<1> HIDE DEF m
<1>5. /\ nodes[given[j].from + m].keys \in Seq(Key)
      /\ nodes[given[j].from + m].keys # <<>>
      /\ nodes[given[j].from + m].keys[1] = o.key
  BY <1>1, <1>4, NodeSent
<1>6. path = nodes[given[j].from + m].keys
  BY <1>4 DEF FoldingAt
<1> QED
  BY <1>1, <1>5, <1>6 DEF Carries

(* What has been given away when the object being built is, too. *)
LEMMA GivenAway ==
  ASSUME Sending, Receiving, Decoded, Turns,
         NEW j \in 1..Len(given), NEW o \in Objects, FoldingAt(j, o), pc # "over",
         GiveAway(0)
  PROVE  /\ objects' \in Seq(Item) /\ Len(objects') = j
         /\ \A i \in 1..(j - 1) : objects'[i] = [key |-> given[i].key, tree |-> given[i].tree]
         /\ objects'[j] = [key |-> given[j].key, tree |-> tree]
<1> DEFINE e == [key |-> given[j].key, tree |-> tree]
<1>1. path # <<>> /\ path[1] = given[j].key /\ given[j].key = o.key
  BY PathWithin
<1>2. objects' = Append(objects, e)
  BY <1>1 DEF GiveAway
<1>3. e \in Item
  <2>1. Carries(j, o) /\ IsObject(o)
    BY StreamConstants DEF FoldingAt
  <2>2. given[j].from \in Nat /\ Len(o.paths) \in Nat /\ Folded \in Nat
    BY <2>1, GivenEntry, ObjectFacts, DecodedNumber
  <2>3. given[j].from < Folded /\ Folded <= given[j].from + Len(o.paths)
    BY <2>1 DEF FoldingAt, Carries
  <2>4. Folded - given[j].from \in 0..Len(o.paths)
    BY <2>2, <2>3
  <2>5. [key |-> o.key, tree |-> Part(o, Folded - given[j].from)] \in Item
    BY <2>1, <2>4, PartTree
  <2> QED
    BY <1>1, <2>5 DEF FoldingAt
<1> HIDE DEF e
<1>4. /\ objects \in Seq(Item) /\ Len(objects) = j - 1
      /\ \A i \in 1..(j - 1) : objects[i] = [key |-> given[i].key, tree |-> given[i].tree]
  BY DEF FoldingAt
<1>5. /\ objects' \in Seq(Item) /\ Len(objects') = (j - 1) + 1
      /\ \A i \in 1..(j - 1) : objects'[i] = objects[i]
      /\ objects'[(j - 1) + 1] = e
  BY <1>2, <1>3, <1>4, AppendProperties
<1>6. (j - 1) + 1 = j
  OBVIOUS
<1> QED
  BY <1>4, <1>5, <1>6 DEF e

(* The next node is the first one of the next object. *)
LEMMA FoldingEnd ==
  ASSUME Sending, Receiving, Decoded, Turns, FoldNode,
         NEW j \in 1..Len(given), NEW o \in Objects, FoldingAt(j, o), Folded = End(j)
  PROVE  Folding'
<1> DEFINE F == Folded
           keys == nodes[F + 1].keys
           h == j + 1
<1>1. pc = "fold" /\ todo # <<>>
  BY DEF FoldNode
<1>2. F \in Nat /\ F > 0 /\ F + 1 \in 1..Len(nodes) /\ F \in 1..Len(nodes) /\ Len(nodes) \in Nat
  <2>1. F + 1 \in 1..Len(nodes)
    BY <1>1, NextFolded
  <2>2. F \in Nat /\ Len(nodes) \in Nat
    BY DecodedNumber
  <2>3. given[j].from \in Nat /\ given[j].from < F
    BY GivenEntry DEF FoldingAt
  <2> QED
    BY <2>1, <2>2, <2>3
<1>3. h \in 1..Len(given) /\ given[h].from = F /\ h - 1 = j /\ j \in Nat
  <2>1. F # Len(nodes) /\ Len(given) \in Nat
    BY <1>2, GivenEntry
  <2>2. j # Len(given)
    BY <2>1 DEF End
  <2> QED
    BY <2>1, <2>2 DEF End
<1> HIDE DEF h
<1>4. PICK u \in Objects : Carries(h, u)
  BY <1>3 DEF Sending
<1>5. Common(path, keys) = 0
  <2>1. /\ nodes \in Seq(Node) /\ Linked(nodes)
        /\ \A i \in 1..Len(nodes) : nodes[i].keys \in Seq(Key)
    BY DecodedNumber
  <2>2. path = nodes[F].keys /\ path \in Seq(Key)
    BY <1>2, <2>1 DEF FoldingAt
  <2>3. keys \in Seq(Key) /\ Hangs(keys, path)
    <3>1. F + 1 > 1 /\ (F + 1) - 1 = F
      BY <1>2
    <3> QED
      BY <1>2, <2>1, <2>2, <3>1 DEF Linked
  <2>4. Common(path, keys) = Len(keys) - 1
    BY <2>2, <2>3, HangsCommon
  <2>5. IsObject(u)
    BY StreamConstants
  <2>6. u.paths[1] = <<>> /\ Len(u.paths[1]) = 0
    <3>1. u.paths[1] = <<>>
      BY <2>5, ObjectFacts
    <3> QED
      BY <3>1, EmptySeq
  <2>7. Len(nodes[given[h].from + 1].keys) = Len(u.paths[1]) + 1
    BY <1>3, <1>4, FirstNodeSent
  <2>8. Len(keys) = 1
    BY <1>3, <2>6, <2>7
  <2> QED
    BY <2>4, <2>8
<1>6. GiveAway(0)
  <2>1. Head(todo) = nodes[F + 1]
    BY <1>1, NextFolded
  <2>2. GiveAway(Common(path, Head(todo).keys))
    BY DEF FoldNode
  <2> HIDE DEF F
  <2> QED
    BY <1>5, <2>1, <2>2
<1>7. /\ objects' \in Seq(Item) /\ Len(objects') = j
      /\ \A i \in 1..(j - 1) : objects'[i] = [key |-> given[i].key, tree |-> given[i].tree]
      /\ objects'[j] = [key |-> given[j].key, tree |-> tree]
  BY <1>1, <1>6, GivenAway
<1>8. tree = given[j].tree
  BY WholeAtEnd
<1>9. \A i \in 1..(h - 1) : objects'[i] = [key |-> given[i].key, tree |-> given[i].tree]
  <2>1. \A i \in 1..(h - 1) : i = j \/ i \in 1..(j - 1)
    BY <1>3
  <2> QED
    BY <1>7, <1>8, <2>1
<1> HIDE DEF keys
<1>10. Len(objects') = h - 1 /\ given[h].from = Folded /\ Common(path, nodes[Folded + 1].keys) = 0
  BY <1>3, <1>5, <1>7 DEF keys
<1> QED
  BY <1>3, <1>4, <1>7, <1>9, <1>10, FoldingStart

(* The very first node. *)
LEMMA FoldingFirst ==
  ASSUME Sending, Receiving, Decoded, Turns, Folding, FoldNode, Folded = 0
  PROVE  Folding'
<1> DEFINE z == 0
           j == z + 1
<1>1. pc = "fold" /\ todo # <<>>
  BY DEF FoldNode
<1>2. z + 1 \in 1..Len(nodes) /\ Head(todo) = nodes[z + 1] /\ Folded = z /\ Len(nodes) \in Nat
  BY <1>1, NextFolded, DecodedNumber
<1>3. path = <<>> /\ objects = <<>>
  BY DEF Folding
<1>4. given # <<>>
  <2>1. nodes # <<>>
    <3>1. Len(nodes) > 0
      BY <1>2
    <3>2. nodes \in Seq(Node)
      BY DecodedNumber
    <3> QED
      BY <3>1, <3>2, EmptySeq
  <2> QED
    BY <2>1 DEF Sending
<1>5. j \in 1..Len(given) /\ given[j].from = z
  <2>1. given \in Seq(Entry)
    BY DEF Sending, Entry
  <2>2. Len(given) \in Nat /\ Len(given) > 0
    BY <1>4, <2>1, EmptySeq
  <2> QED
    BY <1>4, <2>2 DEF Sending
<1>6. z \in Nat /\ j - 1 = 0
  OBVIOUS
<1> HIDE DEF z, j
<1>7. PICK u \in Objects : Carries(j, u)
  BY <1>5 DEF Sending
<1>8. /\ nodes \in Seq(Node) /\ \A i \in 1..Len(nodes) : nodes[i].keys \in Seq(Key)
  BY DecodedNumber
<1>9. Common(path, nodes[Folded + 1].keys) = 0
  <2> DEFINE q == nodes[z + 1].keys
             p == path
             c == 0
  <2>1. q \in Seq(Key)
    BY <1>2, <1>8
  <2>2. p \in Seq(Key) /\ Len(p) = 0
    BY <1>3, EmptySeq
  <2>3. Len(q) \in Nat
    BY <2>1, LenProperties
  <2> HIDE DEF q, p
  <2>4. c \in Nat /\ c <= Len(p) /\ c <= Len(q) /\ c = Len(p) /\ \A k \in 1..c : p[k] = q[k]
    BY <2>2, <2>3
  <2> HIDE DEF c
  <2>5. Common(p, q) = c
    BY <2>1, <2>2, <2>4, CommonIs
  <2> QED
    BY <1>2, <2>5 DEF p, q, c
<1>10. objects' = <<>>
  BY <1>3 DEF FoldNode, GiveAway
<1>11. objects' \in Seq(Item) /\ Len(objects') = j - 1
  BY <1>6, <1>10, EmptySeq
<1>12. \A i \in 1..(j - 1) : objects'[i] = [key |-> given[i].key, tree |-> given[i].tree]
  BY <1>6
<1>13. given[j].from = Folded
  BY <1>2, <1>5
<1> QED
  BY <1>5, <1>7, <1>9, <1>11, <1>12, <1>13, FoldingStart

(* A node folded keeps it. *)
LEMMA FoldingNode ==
  ASSUME Sending, Receiving, Decoded, Turns, Folding, FoldNode
  PROVE  Folding'
<1>1. CASE Folded = 0
  BY <1>1, FoldingFirst
<1>2. CASE Folded # 0
  <2>1. Folded \in Nat
    BY DecodedNumber
  <2>2. Folded > 0
    BY <1>2, <2>1
  <2>3. PICK j \in 1..Len(given) : \E o \in Objects : FoldingAt(j, o)
    BY <2>2 DEF Folding
  <2>4. PICK o \in Objects : FoldingAt(j, o)
    BY <2>3
  <2>5. Folded <= End(j) /\ End(j) \in Nat
    <3>1. Carries(j, o) /\ IsObject(o)
      BY <2>4, StreamConstants DEF FoldingAt
    <3>2. given[j].from \in Nat /\ Len(o.paths) \in Nat
      BY <3>1, GivenEntry, ObjectFacts
    <3> QED
      BY <2>4, <3>1, <3>2 DEF FoldingAt, Carries
  <2>6. CASE Folded < End(j)
    BY <2>4, <2>6, FoldingNext
  <2>7. CASE Folded = End(j)
    BY <2>4, <2>7, FoldingEnd
  <2> QED
    BY <2>1, <2>5, <2>6, <2>7
<1> QED
  BY <1>1, <1>2

(* The end of the nodes keeps it, and the end of the stream. *)
LEMMA FoldingMore ==
  ASSUME Sending, Receiving, Decoded, Turns, Folding, FoldMore
  PROVE  Folding'
<1>1. pc = "fold" /\ UNCHANGED <<given, nodes, path, tree>>
  BY DEF FoldMore, serverVars
<1>2. Folded' = Folded /\ Folded \in Nat
  BY DecodingMore, DecodedNumber
<1>3. CASE ~last /\ pc' = "wait" /\ objects' = objects
  BY <1>1, <1>2, <1>3, FoldingStays
<1>4. CASE last /\ pc' = "over" /\ GiveAway(0)
  <2>1. CASE Folded = 0
    <3>1. path = <<>> /\ tree = <<>> /\ objects = <<>>
      BY <2>1 DEF Folding
    <3>2. objects' = <<>>
      BY <1>4, <3>1 DEF GiveAway
    <3> QED
      BY <1>1, <1>2, <1>4, <2>1, <3>1, <3>2 DEF Folding
  <2>2. CASE Folded # 0
    <3>1. PICK j \in 1..Len(given) : \E o \in Objects : FoldingAt(j, o)
      BY <1>2, <2>2 DEF Folding
    <3>2. PICK o \in Objects : FoldingAt(j, o)
      BY <3>1
    <3>3. /\ objects' \in Seq(Item) /\ Len(objects') = j
          /\ \A i \in 1..(j - 1) : objects'[i] = [key |-> given[i].key, tree |-> given[i].tree]
          /\ objects'[j] = [key |-> given[j].key, tree |-> tree]
      BY <1>1, <1>4, <3>2, GivenAway
    <3>4. Carries(j, o)' /\ End(j)' = End(j)
      BY <1>1, <3>2 DEF FoldingAt, Carries, End
    <3>5. FoldingAt(j, o)'
      BY <1>1, <1>2, <1>4, <3>2, <3>3, <3>4 DEF FoldingAt
    <3>6. \E k \in 1..Len(given') : \E u \in Objects : FoldingAt(k, u)'
      BY <1>1, <3>5
    <3> QED
      BY <1>2, <1>4, <2>2, <3>6 DEF Folding
  <2> QED
    BY <2>1, <2>2
<1> QED
  BY <1>3, <1>4 DEF FoldMore

(* The invariant of the fold is kept by every step. *)
LEMMA FoldingKept ==
  ASSUME Sending, Receiving, Decoded, Turns, Folding, SDNext
  PROVE  Folding'
<1>1. CASE Send
  <2>1. Folded' = Folded
    BY <1>1, DecodingSend
  <2>2. UNCHANGED <<path, tree, objects>> /\ pc' = pc /\ pc \notin {"over", "refused"}
    BY <1>1 DEF Send, foldVars, Over
  <2> QED
    BY <1>1, <2>1, <2>2, FoldingStays
<1>2. CASE TakeHeader \/ TakePayload \/ Await \/ Chunk \/ StreamEnds \/ ReaderFails
  <2>1. Folded' = Folded
    BY <1>2, DecodingBytes
  <2>2. UNCHANGED <<path, tree, objects>> /\ pc \in {"read", "wait"} /\ UNCHANGED <<given, nodes>>
    BY <1>2 DEF TakeHeader, TakePayload, Await, Chunk, StreamEnds, ReaderFails, foldVars, serverVars
  <2>3. pc' \in {"read", "decode", "corrupted", "failed"}
    BY <1>2 DEF TakeHeader, TakePayload, Await, Chunk, StreamEnds, ReaderFails
  <2> QED
    BY <2>1, <2>2, <2>3, FoldingStays
<1>3. CASE DecodeRecord
  <2>1. Folded' = Folded
    BY <1>3, DecodingRecord
  <2>2. UNCHANGED <<path, tree, objects>> /\ pc = "decode" /\ pc' = pc /\ UNCHANGED <<given, nodes>>
    BY <1>3 DEF DecodeRecord, foldVars, serverVars
  <2> QED
    BY <2>1, <2>2, FoldingStays
<1>4. CASE YieldNodes
  <2>1. Folded' = Folded
    BY <1>4, DecodingYield
  <2>2. UNCHANGED <<path, tree, objects>> /\ pc = "decode" /\ pc' = "fold" /\ UNCHANGED <<given, nodes>>
    BY <1>4 DEF YieldNodes, foldVars, serverVars
  <2> QED
    BY <2>1, <2>2, FoldingStays
<1>5. CASE FoldNode
  BY <1>5, FoldingNode
<1>6. CASE FoldMore
  BY <1>6, FoldingMore
<1> QED
  BY <1>1, <1>2, <1>3, <1>4, <1>5, <1>6 DEF SDNext

(* The inductive invariant. *)
SDInv == Sending /\ Receiving /\ Decoded /\ Turns /\ Folding

(* It holds at the start. *)
LEMMA SDInvInit ==
  ASSUME SDInit
  PROVE  SDInv
<1>1. nodes = <<>> /\ nodes \in Seq(Node) /\ Len(nodes) = 0 /\ given = <<>> /\ Len(given) = 0
  <2>1. \A S : <<>> \in Seq(S) /\ Len(<<>>) = 0
    BY EmptySeq
  <2> QED
    BY <2>1 DEF SDInit
<1>2. Sending
  <2>1. Linked(nodes)
    BY <1>1 DEF Linked
  <2>2. given \in Seq([key : Name, tree : Trees, from : Nat])
    BY <1>1, EmptySeq
  <2> QED
    BY <1>1, <2>1, <2>2 DEF Sending
<1>3. Receiving
  <2>1. Cardinality(Left(nodes, Len(nodes), "path", "header")) = 0
    BY <1>1, NothingLeft
  <2>2. HeaderSize > 0
    BY StreamConstants
  <2> QED
    BY <1>1, <2>1, <2>2 DEF Receiving, SDInit, Halves
<1>4. Folded = 0
  BY DEF Folded, SDInit
<1>5. Decoded
  BY <1>1 DEF Decoded, SDInit
<1>6. Turns
  BY DEF Turns, SDInit
<1>7. Folding
  BY <1>4 DEF Folding, SDInit
<1> QED
  BY <1>2, <1>3, <1>5, <1>6, <1>7 DEF SDInv

(* Every step keeps it. *)
LEMMA SDInvNext ==
  ASSUME SDInv, SDNext
  PROVE  SDInv'
<1>1. Sending /\ Receiving /\ Decoded /\ Turns /\ Folding
  BY DEF SDInv
<1>2. Sending'
  BY <1>1, SendingKept
<1>3. Receiving'
  BY <1>1, ReceivingKept
<1>4. Decoded' /\ Turns'
  BY <1>1, DecodingKept
<1>5. Folding'
  BY <1>1, FoldingKept
<1> QED
  BY <1>2, <1>3, <1>4, <1>5 DEF SDInv

(* It depends on the variables only. *)
LEMMA SDInvStutter ==
  ASSUME SDInv, UNCHANGED sdVars
  PROVE  SDInv'
<1>1. /\ UNCHANGED <<given, nodes, coming, pc, last, part, half, have, taken, decoded, pieces>>
      /\ UNCHANGED <<todo, started, firsts, path, tree, objects>>
  BY DEF sdVars, serverVars, bufferVars, pathVars, foldVars
<1>2. Folded' = Folded
  BY <1>1 DEF Folded
<1>3. Sending'
  BY <1>1 DEF SDInv, Sending, Carries, End
<1>4. Receiving'
  BY <1>1 DEF SDInv, Receiving
<1>5. Decoded' /\ Turns'
  BY <1>1, <1>2 DEF SDInv, Decoded, Turns
<1>6. Folding'
  <2>1. ASSUME NEW j, NEW o, FoldingAt(j, o) PROVE FoldingAt(j, o)'
    <3>1. Carries(j, o)' /\ End(j)' = End(j)
      BY <1>1, <2>1 DEF FoldingAt, Carries, End
    <3> QED
      BY <1>1, <1>2, <2>1, <3>1 DEF FoldingAt
  <2>2. Folding
    BY DEF SDInv
  <2>3. (\E j \in 1..Len(given) : \E o \in Objects : FoldingAt(j, o))
          => (\E j \in 1..Len(given) : \E o \in Objects : FoldingAt(j, o)')
    BY <2>1
  <2> QED
    BY <1>1, <1>2, <2>2, <2>3 DEF Folding
<1> QED
  BY <1>3, <1>4, <1>5, <1>6 DEF SDInv

(* What the server has sent, where it is in the bytes, the nodes and the objects, is
   inductive. *)
THEOREM StreamInvariant == SDSpec => []SDInv
<1>1. SDInit => SDInv
  BY SDInvInit
<1>2. SDInv /\ [SDNext]_sdVars => SDInv'
  BY SDInvNext, SDInvStutter
<1> QED
  BY <1>1, <1>2, PTL DEF SDSpec

-----------------------------------------------------------------------------
(* The end of a stream *)

(* When the stream is over and nothing is on its way, everything was taken. *)
LEMMA AllTaken ==
  ASSUME SDInv, pc = "over", coming = 0
  PROVE  taken = Len(nodes) /\ taken \in Nat
<1>1. Sending /\ Receiving /\ Turns
  BY DEF SDInv
<1>2. nodes \in Seq(Node) /\ Linked(nodes) /\ Len(nodes) \in Nat /\ taken \in Nat /\ taken <= Len(nodes)
  BY <1>1, TakenNumber
<1>3. part = "header"
  BY <1>1 DEF Turns
<1>4. have \in Nat /\ have < HeaderSize /\ half \in Halves /\ HeaderSize \in Nat
      /\ have + coming = Cardinality(Left(nodes, taken, half, "header"))
  BY <1>1, <1>3, StreamConstants DEF Receiving
<1>5. ASSUME taken < Len(nodes) PROVE FALSE
  <2>1. Cardinality(Left(nodes, taken, half, "header")) >= HeaderSize
    BY <1>2, <1>4, <1>5, HeaderLeaves
  <2> QED
    BY <1>4, <2>1
<1> QED
  BY <1>2, <1>5

(* Where no nodes wait for a generator, all that was decoded is folded. *)
LEMMA NothingWaits ==
  ASSUME SDInv, firsts = <<>>, todo = <<>>
  PROVE  Folded = decoded /\ (decoded > 0 => started)
<1>1. Sending /\ Receiving /\ Decoded /\ Turns
  BY DEF SDInv
<1>2. nodes \in Seq(Node) /\ decoded \in Nat /\ decoded <= Len(nodes) /\ Len(nodes) \in Nat
  BY <1>1, DecodedNumber
<1>3. CASE started
  <2>1. Folded = decoded - Len(firsts) - Len(todo)
    BY <1>3 DEF Folded
  <2>2. Len(firsts) = 0 /\ Len(todo) = 0
    BY EmptySeq
  <2> QED
    BY <1>2, <1>3, <2>1, <2>2
<1>4. CASE ~started
  <2>1. Folded = 0
    BY <1>4 DEF Folded
  <2>2. decoded = 0
    <3> SUFFICES ASSUME decoded # 0 PROVE FALSE
      OBVIOUS
    <3>1. todo = <<Root>> \o SubSeq(nodes, 1, decoded)
      BY <1>1, <1>4 DEF Decoded
    <3> DEFINE z == 0
    <3>2. z \in Nat /\ z <= decoded /\ z + 1 = 1
      BY <1>2
    <3> HIDE DEF z
    <3> DEFINE s == SubSeq(nodes, z + 1, decoded)
    <3>3. s \in Seq(Node)
      BY <1>2, <3>2, Segment
    <3> HIDE DEF s
    <3>4. Root \in Node
      BY DEF Root, Node
    <3> HIDE DEF Root
    <3>5. <<Root>> \o s # <<>>
      BY <3>3, <3>4
    <3> QED
      BY <3>1, <3>2, <3>5 DEF s
  <2> QED
    BY <2>1, <2>2
<1> QED
  BY <1>3, <1>4

(* The last object has nodes of its own. *)
LEMMA LastObject ==
  ASSUME Sending, NEW j \in 1..Len(given), End(j) = Len(nodes), Len(nodes) \in Nat
  PROVE  j = Len(given)
<1> SUFFICES ASSUME j # Len(given) PROVE FALSE
  OBVIOUS
<1> DEFINE h == j + 1
<1>1. h \in 1..Len(given) /\ End(j) = given[h].from
  <2>1. Len(given) \in Nat
    BY GivenEntry
  <2> QED
    BY <2>1 DEF End
<1> HIDE DEF h
<1>2. PICK u \in Objects : Carries(h, u)
  BY <1>1 DEF Sending
<1>3. Len(u.paths) \in Nat /\ Len(u.paths) > 0
  BY StreamConstants, ObjectFacts
<1>4. End(h) = given[h].from + Len(u.paths) /\ End(h) <= Len(nodes)
  BY <1>2 DEF Carries
<1> QED
  BY <1>1, <1>3, <1>4

(* Sequences that agree so far have the same head. *)
LEMMA HeadsEqual ==
  ASSUME NEW S, NEW s \in Seq(S), NEW t \in Seq(S), NEW m \in Nat, m <= Len(s), m <= Len(t),
         \A i \in 1..m : s[i] = t[i]
  PROVE  SubSeq(s, 1, m) = SubSeq(t, 1, m)
<1> DEFINE a == 1
           u == SubSeq(s, a, m)
           v == SubSeq(t, a, m)
<1>1. a \in Int /\ m \in Int /\ (\A i \in a..m : s[i] \in S) /\ (\A i \in a..m : t[i] \in S)
  <2>1. Len(s) \in Nat /\ Len(t) \in Nat /\ (\A i \in 1..Len(s) : s[i] \in S) /\ (\A i \in 1..Len(t) : t[i] \in S)
    BY LenProperties, ElementOfSeq
  <2> QED
    BY <2>1
<1>2. (IF a <= m THEN m - a + 1 ELSE 0) = m /\ \A i \in 1..m : a + i - 1 = i
  OBVIOUS
<1> HIDE DEF a
<1>3. u \in Seq(S) /\ Len(u) = m /\ \A i \in 1..m : u[i] = s[i]
  BY <1>1, <1>2, SubSeqProperties
<1>4. v \in Seq(S) /\ Len(v) = m /\ \A i \in 1..m : v[i] = t[i]
  BY <1>1, <1>2, SubSeqProperties
<1> HIDE DEF u, v
<1>5. u = v
  BY <1>3, <1>4, SeqEqual
<1> QED
  BY <1>5 DEF u, v, a

(* What the page should make of the objects sent. *)
LEMMA SentAre ==
  ASSUME Sending
  PROVE  /\ Len(given) \in Nat /\ Sent \in Seq(Item) /\ Len(Sent) = Len(given)
         /\ \A i \in 1..Len(given) : Sent[i] = [key |-> given[i].key, tree |-> given[i].tree]
<1>1. given \in Seq(Entry)
  BY DEF Sending, Entry
<1>2. Len(given) \in Nat /\ DOMAIN given = 1..Len(given)
  BY <1>1, LenProperties
<1> DEFINE at(i) == [key |-> given[i].key, tree |-> given[i].tree]
           G == Len(given)
<1>3. \A i \in 1..G : at(i) \in Item
  BY GivenEntry DEF Item
<1> HIDE DEF at
<1>4. Sent = [i \in 1..G |-> at(i)]
  BY <1>2 DEF Sent, at
<1>5. [i \in 1..G |-> at(i)] \in [1..G -> Item]
  BY <1>3
<1> HIDE DEF G
<1>6. Sent \in Seq(Item) /\ Len(Sent) = G
  <2>1. G \in Nat
    BY <1>2 DEF G
  <2> QED
    BY <1>4, <1>5, <2>1
<1> QED
  BY <1>2, <1>4, <1>6 DEF at, G

(* The invariant leaves one object pending at most. *)
LEMMA HeldBackNothing ==
  ASSUME SDInv
  PROVE  NothingHeldBack
<1>1. Sending /\ Receiving /\ Decoded /\ Turns /\ Folding
  BY DEF SDInv
<1>2. SDTypeOK
  <2>1. taken \in 0..Len(nodes) /\ decoded \in 0..taken
    BY <1>1, DecodedNumber
  <2>2. last \in BOOLEAN /\ started \in BOOLEAN
    BY <1>1 DEF Decoded
  <2> QED
    BY <1>1, <2>1, <2>2 DEF SDTypeOK, Receiving, Halves
<1>3. ASSUME pc = "wait", firsts = <<>>, taken > 0
      PROVE  Len(objects) < Len(given) /\ given[Len(objects) + 1].key = nodes[taken].keys[1]
  <2>1. todo = <<>> /\ decoded = taken
    BY <1>1, <1>3 DEF Turns
  <2>2. Folded = taken
    BY <1>3, <2>1, NothingWaits
  <2>3. PICK j \in 1..Len(given) : \E o \in Objects : FoldingAt(j, o)
    BY <1>1, <1>3, <2>2 DEF Folding
  <2>4. PICK o \in Objects : FoldingAt(j, o)
    BY <2>3
  <2>5. Len(objects) = j - 1 /\ path = nodes[taken].keys
    BY <1>3, <2>2, <2>4 DEF FoldingAt
  <2>6. path[1] = given[j].key
    BY <1>1, <2>4, PathWithin
  <2>7. Len(given) \in Nat
    BY <1>1, GivenEntry
  <2>8. Len(objects) + 1 = j /\ Len(objects) < Len(given)
    BY <2>5, <2>7
  <2> QED
    BY <2>5, <2>6, <2>8
<1> QED
  BY <1>2, <1>3 DEF NothingHeldBack, OneObjectPending

(* A stream that is over with nothing on its way has delivered everything. *)
LEMMA AllDelivered ==
  ASSUME SDInv, pc = "over", coming = 0
  PROVE  objects = Sent
<1>1. Sending /\ Receiving /\ Decoded /\ Turns /\ Folding
  BY DEF SDInv
<1>2. firsts = <<>> /\ todo = <<>> /\ decoded = taken
  BY <1>1 DEF Turns
<1>3. Folded = Len(nodes) /\ Len(nodes) \in Nat
  BY <1>1, <1>2, AllTaken, NothingWaits, DecodedNumber
<1>4. /\ Len(given) \in Nat /\ Sent \in Seq(Item) /\ Len(Sent) = Len(given)
      /\ \A i \in 1..Len(given) : Sent[i] = [key |-> given[i].key, tree |-> given[i].tree]
  BY <1>1, SentAre
<1>5. CASE Folded = 0
  <2>1. objects = <<>>
    BY <1>1, <1>5 DEF Folding
  <2>2. Len(given) = 0
    <3> SUFFICES ASSUME Len(given) # 0 PROVE FALSE
      OBVIOUS
    <3> DEFINE h == 1
    <3>1. h \in 1..Len(given)
      BY <1>4
    <3> HIDE DEF h
    <3>2. PICK u \in Objects : Carries(h, u)
      BY <1>1, <3>1 DEF Sending
    <3>3. Len(u.paths) \in Nat /\ Len(u.paths) > 0
      BY StreamConstants, ObjectFacts
    <3>4. given[h].from \in Nat
      BY <1>1, <3>1, GivenEntry
    <3>5. given[h].from + Len(u.paths) <= Len(nodes)
      BY <3>2 DEF Carries
    <3> QED
      BY <1>3, <1>5, <3>3, <3>4, <3>5
  <2>3. Sent = <<>>
    BY <1>4, <2>2, EmptySeq
  <2> QED
    BY <2>1, <2>3
<1>6. CASE Folded # 0
  <2>1. PICK j \in 1..Len(given) : \E o \in Objects : FoldingAt(j, o)
    BY <1>1, <1>3, <1>6 DEF Folding
  <2>2. PICK o \in Objects : FoldingAt(j, o)
    BY <2>1
  <2>3. Folded = End(j)
    <3>1. Carries(j, o) /\ IsObject(o)
      BY <2>2, StreamConstants DEF FoldingAt
    <3>2. given[j].from \in Nat /\ Len(o.paths) \in Nat
      BY <1>1, <3>1, GivenEntry, ObjectFacts
    <3> QED
      BY <1>3, <2>2, <3>1, <3>2 DEF FoldingAt, Carries
  <2>4. j = Len(given)
    BY <1>1, <1>3, <2>3, LastObject
  <2>5. tree = given[j].tree
    BY <1>1, <2>2, <2>3, WholeAtEnd
  <2>6. /\ objects \in Seq(Item) /\ Len(objects) = j
        /\ \A i \in 1..(j - 1) : objects[i] = [key |-> given[i].key, tree |-> given[i].tree]
        /\ objects[j] = [key |-> given[j].key, tree |-> tree]
    BY <2>2 DEF FoldingAt
  <2>7. ASSUME NEW i \in 1..Len(objects) PROVE objects[i] = Sent[i]
    <3>1. i = j \/ i \in 1..(j - 1)
      BY <2>6
    <3> QED
      BY <1>4, <2>4, <2>5, <2>6, <3>1
  <2>8. Len(objects) = Len(Sent)
    BY <1>4, <2>4, <2>6
  <2> QED
    BY <1>4, <2>6, <2>7, <2>8, SeqEqual
<1> QED
  BY <1>5, <1>6

(* What was delivered so far is what was sent, and the last one a part of it at least. *)
LEMMA SoFarDelivered ==
  ASSUME SDInv
  PROVE  /\ objects \in Seq(Item) /\ Len(objects) \in Nat /\ Len(objects) <= Len(Sent)
         /\ \A i \in 1..(Len(objects) - 1) : objects[i] = Sent[i]
         /\ pc # "over" => \A i \in 1..Len(objects) : objects[i] = Sent[i]
         /\ Len(objects) > 0 =>
              /\ objects[Len(objects)].key = Sent[Len(objects)].key
              /\ \A p \in DOMAIN objects[Len(objects)].tree :
                   /\ p \in DOMAIN Sent[Len(objects)].tree
                   /\ objects[Len(objects)].tree[p] = Sent[Len(objects)].tree[p]
<1> DEFINE Same(a, b) == /\ a.key = b.key
                         /\ \A p \in DOMAIN a.tree : p \in DOMAIN b.tree /\ a.tree[p] = b.tree[p]
           n == Len(objects)
<1>1. Sending /\ Receiving /\ Decoded /\ Turns /\ Folding
  BY DEF SDInv
<1>2. /\ Len(given) \in Nat /\ Sent \in Seq(Item) /\ Len(Sent) = Len(given)
      /\ \A i \in 1..Len(given) : Sent[i] = [key |-> given[i].key, tree |-> given[i].tree]
  BY <1>1, SentAre
<1>3. Folded \in Nat
  BY <1>1, DecodedNumber
<1>4. CASE Folded = 0
  <2>1. objects = <<>>
    BY <1>1, <1>4 DEF Folding
  <2>2. objects \in Seq(Item) /\ Len(objects) = 0
    BY <2>1, EmptySeq
  <2> QED
    BY <1>2, <2>2
<1>5. CASE Folded # 0
  <2>1. PICK j \in 1..Len(given) : \E o \in Objects : FoldingAt(j, o)
    BY <1>1, <1>3, <1>5 DEF Folding
  <2>2. PICK o \in Objects : FoldingAt(j, o)
    BY <2>1
  <2>3. /\ objects \in Seq(Item)
        /\ n = IF pc = "over" THEN j ELSE j - 1
        /\ \A i \in 1..(j - 1) : objects[i] = [key |-> given[i].key, tree |-> given[i].tree]
        /\ pc = "over" => objects[j] = [key |-> given[j].key, tree |-> tree]
    BY <2>2 DEF FoldingAt
  <2>4. n \in Nat /\ n <= Len(given) /\ \A i \in 1..(j - 1) : i \in 1..Len(given) /\ i \in 1..n
    BY <1>2, <2>3
  <2>5. \A i \in 1..(j - 1) : objects[i] = Sent[i]
    BY <1>2, <2>3, <2>4
  <2>6. CASE pc # "over"
    <3>1. n = j - 1 /\ \A i \in 1..n : objects[i] = Sent[i]
      BY <2>3, <2>5, <2>6
    <3>2. n > 0 => n \in 1..n
      BY <2>4
    <3>3. n > 0 => objects[n] = Sent[n]
      BY <3>1, <3>2
    <3>4. n > 0 => Same(objects[n], Sent[n])
      BY <3>3
    <3>5. \A i \in 1..(n - 1) : i \in 1..n
      BY <2>4
    <3> QED
      BY <1>2, <2>3, <2>4, <3>1, <3>4, <3>5
  <2>7. CASE pc = "over"
    <3>1. n = j /\ objects[j] = [key |-> given[j].key, tree |-> tree]
      BY <2>3, <2>7
    <3>2. Sent[j] = [key |-> given[j].key, tree |-> given[j].tree]
      BY <1>2
    <3>3. \A p \in DOMAIN tree : p \in DOMAIN given[j].tree /\ tree[p] = given[j].tree[p]
      <4>1. Carries(j, o) /\ IsObject(o)
        BY <2>2, StreamConstants DEF FoldingAt
      <4>2. given[j].from \in Nat /\ Len(o.paths) \in Nat
        BY <1>1, <4>1, GivenEntry, ObjectFacts
      <4> DEFINE m == Folded - given[j].from
      <4>3. m \in 0..Len(o.paths)
        BY <1>3, <2>2, <4>1, <4>2 DEF FoldingAt, Carries
      <4>4. tree = Part(o, m) /\ given[j].tree = o.tree
        BY <2>2, <4>1 DEF FoldingAt, Carries
      <4> HIDE DEF m
      <4>5. DOMAIN Part(o, m) \subseteq DOMAIN o.tree /\ \A p \in DOMAIN Part(o, m) : Part(o, m)[p] = o.tree[p]
        BY <4>1, <4>3, PartTree
      <4> QED
        BY <4>4, <4>5
    <3>4. Same(objects[j], Sent[j])
      BY <3>1, <3>2, <3>3
    <3> HIDE DEF Same
    <3>5. Same(objects[n], Sent[n]) /\ \A i \in 1..(n - 1) : objects[i] = Sent[i]
      BY <2>5, <3>1, <3>4
    <3> QED
      BY <1>2, <2>3, <2>4, <2>7, <3>5 DEF Same
  <2> QED
    BY <2>6, <2>7
<1> QED
  BY <1>4, <1>5

(* The invariant implies the delivery. *)
LEMMA DeliveredInOrder ==
  ASSUME SDInv
  PROVE  DeliveredAsSent
<1> DEFINE n == Len(objects)
           whole == IF pc = "over" /\ coming + have > 0 /\ n > 0 THEN n - 1 ELSE n
<1>1. Sending /\ Receiving /\ Decoded /\ Turns /\ Folding
  BY DEF SDInv
<1>2. /\ objects \in Seq(Item) /\ n \in Nat /\ n <= Len(Sent)
      /\ \A i \in 1..(n - 1) : objects[i] = Sent[i]
      /\ pc # "over" => \A i \in 1..n : objects[i] = Sent[i]
  BY SoFarDelivered
<1>3. Sent \in Seq(Item) /\ Len(Sent) \in Nat
  BY <1>1, SentAre
<1>4. coming \in Nat /\ have \in Nat
  BY <1>1 DEF Receiving
<1>5. pc = "over" /\ coming = 0 => objects = Sent
  BY AllDelivered
<1>6. whole \in Nat /\ whole <= n /\ \A i \in 1..whole : objects[i] = Sent[i]
  <2>1. CASE pc = "over" /\ coming + have > 0 /\ n > 0
    BY <1>2, <2>1
  <2>2. CASE pc # "over"
    BY <1>2, <2>2
  <2>3. CASE n = 0
    BY <2>3
  <2>4. CASE pc = "over" /\ ~ (coming + have > 0)
    <3>1. coming = 0
      BY <1>4, <2>4
    <3> QED
      BY <1>2, <1>5, <2>4, <3>1
  <2> QED
    BY <1>2, <2>1, <2>2, <2>3, <2>4
<1>7. n > whole => n > 0
  BY <1>2, <1>6
<1>8. SubSeq(objects, 1, whole) = SubSeq(Sent, 1, whole)
  <2> HIDE DEF whole
  <2>1. whole <= Len(objects) /\ whole <= Len(Sent)
    BY <1>2, <1>3, <1>6
  <2> QED
    BY <1>2, <1>3, <1>6, <2>1, HeadsEqual
<1>9. pc # "refused"
  BY <1>1 DEF Folding
<1>10. n > whole => /\ objects[n].key = Sent[n].key
                    /\ \A p \in DOMAIN objects[n].tree :
                         /\ p \in DOMAIN Sent[n].tree
                         /\ objects[n].tree[p] = Sent[n].tree[p]
  <2> HIDE DEF whole
  <2> QED
    BY <1>7, SoFarDelivered
<1> QED
  BY <1>2, <1>5, <1>8, <1>9, <1>10 DEF DeliveredAsSent

(* However the bytes of a result are cut into chunks, the page gets the objects
   the server has sent, whole and in their order, for any objects of any size; only the
   last one may lack nodes, when the stream ends early, and no stream is refused. *)
THEOREM ObjectsDelivered == SDSpec => []DeliveredAsSent
<1>1. SDInv => DeliveredAsSent
  BY DeliveredInOrder
<1> QED
  BY <1>1, StreamInvariant, PTL

(* While the page waits for bytes it has every object but the one whose records
   are still coming: none of the three generators holds anything back. *)
THEOREM ObjectsNotHeldBack == SDSpec => []NothingHeldBack
<1>1. SDInv => NothingHeldBack
  BY HeldBackNothing
<1> QED
  BY <1>1, StreamInvariant, PTL
=============================================================================
