---------------------------- MODULE PacketProofs ----------------------------
(***************************************************************************)
(* Proofs about AccessUnit and Packet: the parsers of the gateway and of   *)
(* the page agree, on data of any length and any contents; a decoder reads *)
(* from the description what the access unit says; and the page reads from *)
(* a packet what the gateway wrote.                                        *)
(***************************************************************************)
EXTENDS Packet, SequenceTheorems, NaturalsInduction, WellFoundedInduction, TLAPS

-----------------------------------------------------------------------------
(* Induction over numbers, upwards and downwards, for sets of them. *)

Less == {x \in Nat \X Nat : x[1] < x[2]}

LEMMA LessWellFounded == IsWellFoundedOn(Less, Nat)
  BY NatLessThanWellFounded, Zenon DEF OpToRel, Less

LEMMA LeastNumber ==
  ASSUME NEW S \in SUBSET Nat, S # {}
  PROVE  \E x \in S : \A y \in S : x <= y
<1>1. PICK x \in S : \A y \in S : <<y, x>> \notin Less
  BY LessWellFounded, WFMin
<1>2. ASSUME NEW y \in S PROVE x <= y
  <2>1. ~(y < x)
    BY <1>1 DEF Less
  <2> QED
    BY <2>1
<1> QED
  BY <1>2

LEMMA Upwards ==
  ASSUME NEW n \in Nat, NEW S, 0 \in S, \A k \in 0 .. n - 1 : k \in S => k + 1 \in S
  PROVE  0 .. n \subseteq S
<1> SUFFICES ASSUME (0 .. n) \ S # {} PROVE FALSE
  OBVIOUS
<1>0. (0 .. n) \ S \in SUBSET Nat
  OBVIOUS
<1>1. PICK x \in (0 .. n) \ S : \A y \in (0 .. n) \ S : x <= y
  BY <1>0, LeastNumber
<1>2. x - 1 \in 0 .. n - 1 /\ x - 1 \in S /\ (x - 1) + 1 = x
  BY <1>1
<1> QED
  BY <1>1, <1>2

LEMMA Downwards ==
  ASSUME NEW n \in Nat, NEW S, n \in S, \A k \in 0 .. n - 1 : k + 1 .. n \subseteq S => k \in S
  PROVE  0 .. n \subseteq S
<1> DEFINE T == {j \in 0 .. n : n - j .. n \subseteq S}
<1>1. 0 \in T
  OBVIOUS
<1>2. ASSUME NEW k \in 0 .. n - 1, k \in T PROVE k + 1 \in T
  <2>1. PICK l \in 0 .. n - 1 : l = n - (k + 1) /\ l + 1 = n - k
    OBVIOUS
  <2>2. l + 1 .. n \subseteq S
    BY <1>2, <2>1
  <2>3. l \in S
    BY <2>2
  <2>4. \A x \in l .. n : x = l \/ x \in l + 1 .. n
    OBVIOUS
  <2>5. l .. n \subseteq S
    BY <2>2, <2>3, <2>4
  <2> QED
    BY <2>1, <2>5
<1> HIDE DEF T
<1>3. 0 .. n \subseteq T
  BY <1>1, <1>2, Upwards
<1>4. n \in T
  BY <1>3
<1> QED
  BY <1>4 DEF T

-----------------------------------------------------------------------------
(* Functions of numbers that are defined by recursion. *)

\* f starts with a, and h takes it from each number to the next, up to n.
Recursion(n, S, a, h, f) ==
  /\ f \in [0 .. n -> S]
  /\ f[0] = a
  /\ \A i \in 1 .. n : f[i] = h[<<i, f[i - 1]>>]

LEMMA RecursionGrows ==
  ASSUME NEW n \in Nat, NEW S, NEW a \in S, NEW h \in [(1 .. n) \X S -> S],
         NEW k \in 0 .. n - 1, NEW f, Recursion(k, S, a, h, f)
  PROVE  \E g : Recursion(k + 1, S, a, h, g)
<1>1. k + 1 \in 1 .. n /\ k \in 0 .. k
  OBVIOUS
<1>2. f[k] \in S
  BY <1>1 DEF Recursion
<1>3. <<k + 1, f[k]>> \in (1 .. n) \X S
  BY <1>1, <1>2
<1>4. PICK v \in S : v = h[<<k + 1, f[k]>>]
  BY <1>3
<1>5. PICK g : g = [i \in 0 .. k + 1 |-> IF i <= k THEN f[i] ELSE v]
  OBVIOUS
<1>6. g \in [0 .. k + 1 -> S] /\ (\A i \in 0 .. k : g[i] = f[i]) /\ g[k + 1] = v
  BY <1>4, <1>5 DEF Recursion
<1>7. ASSUME NEW i \in 1 .. k + 1 PROVE g[i] = h[<<i, g[i - 1]>>]
  <2>1. CASE i <= k
    <3>1. i \in 1 .. k /\ i \in 0 .. k /\ i - 1 \in 0 .. k
      BY <2>1
    <3>2. g[i] = f[i] /\ g[i - 1] = f[i - 1]
      BY <1>6, <3>1
    <3>3. f[i] = h[<<i, f[i - 1]>>]
      BY <3>1 DEF Recursion
    <3> QED
      BY <3>2, <3>3
  <2>2. CASE i = k + 1
    <3>1. i - 1 = k
      BY <2>2
    <3>2. g[i - 1] = f[k]
      BY <1>1, <1>6, <3>1
    <3> QED
      BY <1>4, <1>6, <2>2, <3>2
  <2> QED
    BY <2>1, <2>2
<1>8. g[0] = a
  <2>1. 0 \in 0 .. k
    OBVIOUS
  <2> QED
    BY <1>6, <2>1 DEF Recursion
<1>9. Recursion(k + 1, S, a, h, g)
  BY <1>6, <1>7, <1>8 DEF Recursion
<1> QED
  BY <1>9

LEMMA RecursionExists ==
  ASSUME NEW n \in Nat, NEW S, NEW a \in S, NEW h \in [(1 .. n) \X S -> S]
  PROVE  \E f : Recursion(n, S, a, h, f)
<1> DEFINE T == {k \in 0 .. n : \E f : Recursion(k, S, a, h, f)}
<1>1. 0 \in T
  <2>1. PICK f : f = [i \in 0 .. 0 |-> a]
    OBVIOUS
  <2>2. f \in [0 .. 0 -> S] /\ f[0] = a
    BY <2>1
  <2>3. Recursion(0, S, a, h, f)
    BY <2>2 DEF Recursion
  <2> QED
    BY <2>3
<1>2. ASSUME NEW k \in 0 .. n - 1, k \in T PROVE k + 1 \in T
  <2>1. PICK f : Recursion(k, S, a, h, f)
    BY <1>2
  <2>2. \E g : Recursion(k + 1, S, a, h, g)
    BY <2>1, RecursionGrows
  <2> QED
    BY <2>2
<1> HIDE DEF T
<1>3. 0 .. n \subseteq T
  BY <1>1, <1>2, Upwards
<1>4. n \in T
  BY <1>3
<1> QED
  BY <1>4 DEF T

\* A function that satisfies the equations takes its values where h does.
LEMMA RecursionType ==
  ASSUME NEW n \in Nat, NEW S, NEW a \in S, NEW h \in [(1 .. n) \X S -> S],
         NEW f, DOMAIN f = 0 .. n, f = [i \in DOMAIN f |-> f[i]],
         f[0] = a, \A i \in 1 .. n : f[i - 1] \in S => f[i] = h[<<i, f[i - 1]>>]
  PROVE  Recursion(n, S, a, h, f)
<1> DEFINE T == {k \in 0 .. n : f[k] \in S}
<1>1. 0 \in T
  OBVIOUS
<1>2. ASSUME NEW k \in 0 .. n - 1, k \in T PROVE k + 1 \in T
  <2>1. k + 1 \in 1 .. n /\ k + 1 \in 0 .. n /\ (k + 1) - 1 = k
    OBVIOUS
  <2>2. f[k] \in S
    BY <1>2
  <2>3. f[k + 1] = h[<<k + 1, f[k]>>]
    BY <2>1, <2>2
  <2>4. <<k + 1, f[k]>> \in (1 .. n) \X S
    BY <2>1, <2>2
  <2> QED
    BY <2>1, <2>3, <2>4
<1>3. 0 .. n \subseteq T
  <2> HIDE DEF T
  <2> QED
    BY <1>1, <1>2, Upwards
<1>4. f \in [0 .. n -> S]
  BY <1>3
<1>5. ASSUME NEW i \in 1 .. n PROVE f[i] = h[<<i, f[i - 1]>>]
  <2>1. i - 1 \in 0 .. n
    OBVIOUS
  <2> QED
    BY <1>4, <2>1
<1> QED
  BY <1>4, <1>5 DEF Recursion

\* There is one such function only.
LEMMA RecursionUnique ==
  ASSUME NEW n \in Nat, NEW S, NEW a, NEW h, NEW f, NEW g,
         Recursion(n, S, a, h, f), Recursion(n, S, a, h, g)
  PROVE  \A k \in 0 .. n : f[k] = g[k]
<1> DEFINE T == {k \in 0 .. n : f[k] = g[k]}
<1>1. 0 \in T
  BY DEF Recursion
<1>2. ASSUME NEW k \in 0 .. n - 1, k \in T PROVE k + 1 \in T
  <2>1. k + 1 \in 1 .. n /\ k + 1 \in 0 .. n /\ (k + 1) - 1 = k
    OBVIOUS
  <2>2. f[k + 1] = h[<<k + 1, f[k]>>] /\ g[k + 1] = h[<<k + 1, g[k]>>]
    BY <2>1 DEF Recursion
  <2> QED
    BY <1>2, <2>1, <2>2
<1>3. 0 .. n \subseteq T
  <2> HIDE DEF T
  <2> QED
    BY <1>1, <1>2, Upwards
<1> QED
  BY <1>3

-----------------------------------------------------------------------------
(* Integers and their bytes. *)

\* f holds the values of the first bytes.
Values(bytes, f) ==
  /\ f \in [0 .. Len(bytes) -> Nat]
  /\ f[0] = 0
  /\ \A i \in 1 .. Len(bytes) : f[i] = f[i - 1] * Base + bytes[i]

LEMMA BigEndianIs ==
  ASSUME NEW bytes \in Seq(Nat)
  PROVE  \E f : Values(bytes, f) /\ BigEndian(bytes) = f[Len(bytes)]
<1> DEFINE body(f) == [n \in 0 .. Len(bytes) |->
                         IF n = 0 THEN 0 ELSE f[n - 1] * Base + bytes[n]]
           value == CHOOSE f : f = body(f)
<1>1. PICK m \in Nat : m = Len(bytes)
  BY LenProperties
<1>2. PICK h : h = [x \in (1 .. m) \X Nat |-> x[2] * Base + bytes[x[1]]]
  OBVIOUS
<1>3. ASSUME NEW i \in 1 .. m, NEW v \in Nat
      PROVE  h[<<i, v>>] = v * Base + bytes[i] /\ h[<<i, v>>] \in Nat
  <2>1. bytes[i] \in Nat
    BY <1>1, ElementOfSeq
  <2>2. v * Base \in Nat
    BY BytesAssumption
  <2>3. h[<<i, v>>] = v * Base + bytes[i]
    BY <1>2
  <2> QED
    BY <2>1, <2>2, <2>3
<1>4. h \in [(1 .. m) \X Nat -> Nat]
  <2>1. ASSUME NEW x \in (1 .. m) \X Nat PROVE h[x] \in Nat
    BY <1>3
  <2> QED
    BY <1>2, <2>1
<1>5. PICK g : Recursion(m, Nat, 0, h, g)
  BY <1>4, RecursionExists
<1>6. g = body(g)
  <2>1. g = [n \in 0 .. m |-> g[n]] /\ g[0] = 0
    BY <1>5 DEF Recursion
  <2>2. ASSUME NEW n \in 0 .. m, n # 0 PROVE g[n] = g[n - 1] * Base + bytes[n]
    <3>1. n \in 1 .. m /\ n - 1 \in 0 .. m
      BY <2>2
    <3>2. g[n - 1] \in Nat /\ g[n] = h[<<n, g[n - 1]>>]
      BY <1>5, <3>1 DEF Recursion
    <3> QED
      BY <1>3, <3>1, <3>2
  <2> QED
    BY <1>1, <2>1, <2>2
<1>7. value = body(value)
  <2> HIDE DEF body
  <2> QED
    BY <1>6
<1>8. BigEndian(bytes) = value[Len(bytes)]
  BY DEF BigEndian
<1>9. PICK v : v = value
  OBVIOUS
<1> HIDE DEF value
<1>10. v = [n \in 0 .. m |-> IF n = 0 THEN 0 ELSE v[n - 1] * Base + bytes[n]]
  BY <1>1, <1>7, <1>9
<1>11. /\ DOMAIN v = 0 .. m /\ v = [i \in DOMAIN v |-> v[i]]
       /\ v[0] = 0
       /\ \A i \in 1 .. m : v[i] = v[i - 1] * Base + bytes[i]
  <2>1. \A n \in 0 .. m : v[n] = IF n = 0 THEN 0 ELSE v[n - 1] * Base + bytes[n]
    BY <1>10, Zenon
  <2>2. DOMAIN v = 0 .. m /\ v = [i \in DOMAIN v |-> v[i]]
    BY <1>10
  <2> QED
    BY <2>1, <2>2
<1>12. Recursion(m, Nat, 0, h, v)
  BY <1>3, <1>4, <1>11, RecursionType
<1>13. v \in [0 .. m -> Nat]
  BY <1>12 DEF Recursion
<1>14. Values(bytes, v)
  BY <1>1, <1>11, <1>13 DEF Values
<1> QED
  BY <1>8, <1>9, <1>14

LEMMA BigEndianType ==
  ASSUME NEW bytes \in Seq(Nat)
  PROVE  BigEndian(bytes) \in Nat
<1>1. PICK f : Values(bytes, f) /\ BigEndian(bytes) = f[Len(bytes)]
  BY BigEndianIs
<1>2. Len(bytes) \in Nat
  BY LenProperties
<1> QED
  BY <1>1, <1>2 DEF Values

\* f holds what is left of a value, byte after byte.
Shifts(value, n, f) ==
  /\ f \in [0 .. n -> Nat]
  /\ f[0] = value
  /\ \A i \in 1 .. n : f[i] = f[i - 1] \div Base

LEMMA DivBase ==
  ASSUME NEW v \in Nat
  PROVE  /\ v \div Base \in Nat
         /\ v % Base \in 0 .. Base - 1
         /\ (v \div Base) * Base \in Nat
         /\ v = (v \div Base) * Base + (v % Base)
BY BytesAssumption

LEMMA ShiftedIs ==
  ASSUME NEW value \in Nat, NEW n \in Nat
  PROVE  \E f : Shifts(value, n, f) /\ Shifted(value, n) = f[n]
<1> DEFINE body(f) == [i \in 0 .. n |-> IF i = 0 THEN value ELSE f[i - 1] \div Base]
           rest == CHOOSE f : f = body(f)
<1>2. PICK h : h = [x \in (1 .. n) \X Nat |-> x[2] \div Base]
  OBVIOUS
<1>3. ASSUME NEW i \in 1 .. n, NEW v \in Nat
      PROVE  h[<<i, v>>] = v \div Base /\ h[<<i, v>>] \in Nat
  <2>1. h[<<i, v>>] = v \div Base
    BY <1>2
  <2> QED
    BY <2>1, DivBase
<1>4. h \in [(1 .. n) \X Nat -> Nat]
  <2>1. ASSUME NEW x \in (1 .. n) \X Nat PROVE h[x] \in Nat
    BY <1>3
  <2> QED
    BY <1>2, <2>1
<1>5. PICK g : Recursion(n, Nat, value, h, g)
  BY <1>4, RecursionExists
<1>6. g = body(g)
  <2>1. g = [i \in 0 .. n |-> g[i]] /\ g[0] = value
    BY <1>5 DEF Recursion
  <2>2. ASSUME NEW i \in 0 .. n, i # 0 PROVE g[i] = g[i - 1] \div Base
    <3>1. i \in 1 .. n /\ i - 1 \in 0 .. n
      BY <2>2
    <3>2. g[i - 1] \in Nat /\ g[i] = h[<<i, g[i - 1]>>]
      BY <1>5, <3>1 DEF Recursion
    <3> QED
      BY <1>3, <3>1, <3>2
  <2> QED
    BY <2>1, <2>2
<1>7. rest = body(rest)
  <2> HIDE DEF body
  <2> QED
    BY <1>6
<1>8. Shifted(value, n) = rest[n]
  BY DEF Shifted
<1>9. PICK v : v = rest
  OBVIOUS
<1> HIDE DEF rest
<1>10. v = [i \in 0 .. n |-> IF i = 0 THEN value ELSE v[i - 1] \div Base]
  BY <1>7, <1>9
<1>11. /\ DOMAIN v = 0 .. n /\ v = [i \in DOMAIN v |-> v[i]]
       /\ v[0] = value
       /\ \A i \in 1 .. n : v[i] = v[i - 1] \div Base
  <2>1. \A i \in 0 .. n : v[i] = IF i = 0 THEN value ELSE v[i - 1] \div Base
    BY <1>10, Zenon
  <2>2. DOMAIN v = 0 .. n /\ v = [i \in DOMAIN v |-> v[i]]
    BY <1>10
  <2>3. 0 \in 0 .. n /\ 1 .. n \subseteq 0 .. n /\ 0 \notin 1 .. n
    OBVIOUS
  <2> HIDE DEF body
  <2>4. v[0] = value
    BY <2>1, <2>3
  <2>5. \A i \in 1 .. n : v[i] = v[i - 1] \div Base
    BY <2>1, <2>3, Zenon
  <2> QED
    BY <2>2, <2>4, <2>5
<1>12. Recursion(n, Nat, value, h, v)
  BY <1>3, <1>4, <1>11, RecursionType
<1>13. v \in [0 .. n -> Nat]
  BY <1>12 DEF Recursion
<1>14. Shifts(value, n, v)
  BY <1>11, <1>13 DEF Shifts
<1> QED
  BY <1>8, <1>9, <1>14

\* A longer walk begins with the shorter one.
LEMMA ShiftsUnique ==
  ASSUME NEW value \in Nat, NEW n \in Nat, NEW k \in 0 .. n,
         NEW f, Shifts(value, n, f), NEW g, Shifts(value, k, g)
  PROVE  \A i \in 0 .. k : f[i] = g[i]
<1> DEFINE S == {i \in 0 .. k : f[i] = g[i]}
<1>1. 0 \in S
  BY DEF Shifts
<1>2. ASSUME NEW i \in 0 .. k - 1, i \in S PROVE i + 1 \in S
  <2>1. i + 1 \in 1 .. k /\ i + 1 \in 1 .. n /\ i + 1 \in 0 .. k /\ (i + 1) - 1 = i
    OBVIOUS
  <2>2. f[i + 1] = f[i] \div Base /\ g[i + 1] = g[i] \div Base
    BY <2>1 DEF Shifts
  <2> QED
    BY <1>2, <2>1, <2>2
<1>3. 0 .. k \subseteq S
  <2> HIDE DEF S
  <2> QED
    BY <1>1, <1>2, Upwards
<1> QED
  BY <1>3

LEMMA ShiftedBy ==
  ASSUME NEW value \in Nat, NEW n \in Nat
  PROVE  \E f : Shifts(value, n, f) /\ \A k \in 0 .. n : f[k] = Shifted(value, k)
<1>1. PICK f : Shifts(value, n, f) /\ Shifted(value, n) = f[n]
  BY ShiftedIs
<1>2. ASSUME NEW k \in 0 .. n PROVE f[k] = Shifted(value, k)
  <2>1. k \in Nat /\ k \in 0 .. k
    OBVIOUS
  <2>2. PICK g : Shifts(value, k, g) /\ Shifted(value, k) = g[k]
    BY <2>1, ShiftedIs
  <2>3. \A i \in 0 .. k : f[i] = g[i]
    BY <1>1, <2>2, ShiftsUnique
  <2> QED
    BY <2>1, <2>2, <2>3
<1> QED
  BY <1>1, <1>2

LEMMA ToBytesType ==
  ASSUME NEW n \in Nat, NEW value \in Nat
  PROVE  /\ ToBytes(n, value) \in [1 .. n -> 0 .. Base - 1]
         /\ ToBytes(n, value) \in Seq(Nat)
         /\ Len(ToBytes(n, value)) = n
<1>1. PICK f : Shifts(value, n, f) /\ \A k \in 0 .. n : f[k] = Shifted(value, k)
  BY ShiftedBy
<1>2. ASSUME NEW i \in 1 .. n PROVE Shifted(value, n - i) % Base \in 0 .. Base - 1
  <2>1. n - i \in 0 .. n
    OBVIOUS
  <2>2. Shifted(value, n - i) \in Nat
    BY <1>1, <2>1 DEF Shifts
  <2> QED
    BY <2>2, DivBase
<1>3. PICK s : s = ToBytes(n, value)
  OBVIOUS
<1>4. s \in [1 .. n -> 0 .. Base - 1]
  BY <1>2, <1>3 DEF ToBytes
<1>5. 0 .. Base - 1 \subseteq Nat
  BY BytesAssumption
<1>6. s \in [1 .. n -> Nat]
  BY <1>4, <1>5
<1>7. s \in Seq(Nat)
  BY <1>6, SeqDef
<1>8. Len(s) = n
  BY <1>6, <1>7, LenProperties
<1> QED
  BY <1>3, <1>4, <1>7, <1>8

\* An integer that fits is read from its bytes as it was written.
LEMMA ReadWrite ==
  ASSUME NEW n \in Nat, NEW value \in Unsigned(n)
  PROVE  BigEndian(ToBytes(n, value)) = value
<1>0. value \in Nat /\ Shifted(value, n) = 0
  BY DEF Unsigned
<1>1. PICK f : Shifts(value, n, f) /\ \A k \in 0 .. n : f[k] = Shifted(value, k)
  BY <1>0, ShiftedBy
<1>2. PICK s : s = ToBytes(n, value)
  OBVIOUS
<1>3. s \in Seq(Nat) /\ Len(s) = n
  BY <1>0, <1>2, ToBytesType
<1>4. PICK g : Values(s, g) /\ BigEndian(s) = g[n]
  BY <1>3, BigEndianIs
<1> DEFINE S == {k \in 0 .. n : g[k] = f[n - k]}
<1>5. 0 \in S
  <2>1. n - 0 = n /\ n \in 0 .. n /\ 0 \in 0 .. n
    OBVIOUS
  <2>2. f[n] = 0
    BY <1>0, <1>1, <2>1
  <2> QED
    BY <1>4, <2>1, <2>2 DEF Values
<1>6. ASSUME NEW k \in 0 .. n - 1, k \in S PROVE k + 1 \in S
  <2>1. /\ k + 1 \in 1 .. n /\ k + 1 \in 0 .. n /\ (k + 1) - 1 = k
        /\ n - k \in 1 .. n /\ n - (k + 1) = (n - k) - 1 /\ n - (k + 1) \in 0 .. n
    OBVIOUS
  <2>2. g[k + 1] = g[k] * Base + s[k + 1]
    BY <1>3, <1>4, <2>1 DEF Values
  <2>3. PICK r \in Nat : r = f[n - (k + 1)]
    BY <1>1, <2>1 DEF Shifts
  <2>4. f[n - k] = r \div Base
    BY <1>1, <2>1, <2>3 DEF Shifts
  <2>5. s[k + 1] = r % Base
    BY <1>1, <1>2, <2>1, <2>3 DEF ToBytes
  <2>6. g[k] = r \div Base
    BY <1>6, <2>4
  <2>7. g[k + 1] = r
    BY <2>2, <2>5, <2>6, DivBase
  <2> QED
    BY <2>1, <2>3, <2>7
<1>7. 0 .. n \subseteq S
  <2> HIDE DEF S
  <2> QED
    BY <1>5, <1>6, Upwards
<1>8. n \in S /\ 0 \in 0 .. n /\ n - n = 0
  <2>1. n \in 0 .. n
    OBVIOUS
  <2> QED
    BY <1>7, <2>1
<1>9. g[n] = f[0]
  BY <1>8
<1> QED
  BY <1>1, <1>2, <1>4, <1>9 DEF Shifts

LEMMA DivOfSum ==
  ASSUME NEW q \in Nat, NEW r \in 0 .. Base - 1
  PROVE  q * Base \in Nat /\ (q * Base + r) \div Base = q
<1>1. \A b \in Nat : b > 0 =>
        \A v \in Nat : \A s \in 0 .. b - 1 : v = q * b + s => v \div b = q
  OBVIOUS
<1>2. PICK b \in Nat : b = Base /\ b > 0
  BY BytesAssumption
<1>3. q * b \in Nat
  BY <1>2
<1>4. PICK v \in Nat : v = q * b + r
  BY <1>2, <1>3
<1> QED
  BY <1>1, <1>2, <1>3, <1>4

\* What n bytes hold is an integer of n bytes.
LEMMA BytesFit ==
  ASSUME NEW n \in Nat, NEW bytes \in Seq(0 .. Base - 1), Len(bytes) = n
  PROVE  BigEndian(bytes) \in Unsigned(n)
<1>1. 0 .. Base - 1 \subseteq Nat
  BY BytesAssumption
<1>2. bytes \in Seq(Nat)
  BY <1>1, SeqMonotonic
<1>3. PICK g : Values(bytes, g) /\ BigEndian(bytes) = g[n]
  BY <1>2, BigEndianIs
<1>4. PICK v \in Nat : v = BigEndian(bytes)
  BY <1>2, BigEndianType
<1>5. PICK f : Shifts(v, n, f) /\ Shifted(v, n) = f[n]
  BY ShiftedIs
<1> DEFINE S == {k \in 0 .. n : f[k] = g[n - k]}
<1>6. 0 \in S
  BY <1>3, <1>4, <1>5 DEF Shifts
<1>7. ASSUME NEW k \in 0 .. n - 1, k \in S PROVE k + 1 \in S
  <2>1. /\ k + 1 \in 1 .. n /\ k + 1 \in 0 .. n /\ (k + 1) - 1 = k
        /\ n - k \in 1 .. n /\ n - (k + 1) = (n - k) - 1 /\ n - (k + 1) \in 0 .. n
    OBVIOUS
  <2>2. PICK q \in Nat, r \in 0 .. Base - 1 : q = g[n - (k + 1)] /\ r = bytes[n - k]
    <3>1. bytes[n - k] \in 0 .. Base - 1
      BY <2>1, ElementOfSeq
    <3>2. g[n - (k + 1)] \in Nat
      BY <1>3, <2>1 DEF Values
    <3> QED
      BY <3>1, <3>2
  <2>3. g[n - k] = q * Base + r
    BY <1>3, <2>1, <2>2 DEF Values
  <2>4. f[k + 1] = f[k] \div Base
    BY <1>5, <2>1 DEF Shifts
  <2>5. f[k + 1] = q
    BY <1>7, <2>3, <2>4, DivOfSum
  <2> QED
    BY <2>1, <2>2, <2>5
<1>8. 0 .. n \subseteq S
  <2> HIDE DEF S
  <2> QED
    BY <1>6, <1>7, Upwards
<1>9. n \in S /\ n - n = 0
  <2>1. n \in 0 .. n
    OBVIOUS
  <2> QED
    BY <1>8, <2>1
<1>10. f[n] = 0
  BY <1>3, <1>9 DEF Values
<1> QED
  BY <1>4, <1>5, <1>10 DEF Unsigned

LEMMA U32MaxFits == U32Max \in Unsigned(4)
<1>1. Base - 1 \in 0 .. Base - 1
  BY BytesAssumption
<1>2. PICK s : s = [i \in 1 .. 4 |-> Base - 1]
  OBVIOUS
<1>3. s \in [1 .. 4 -> 0 .. Base - 1] /\ 4 \in Nat
  BY <1>1, <1>2
<1>4. s \in Seq(0 .. Base - 1)
  BY <1>3, SeqDef
<1>5. Len(s) = 4
  BY <1>3, <1>4, LenProperties
<1> QED
  BY <1>2, <1>4, <1>5, BytesFit DEF U32Max

-----------------------------------------------------------------------------
(* The reverse of a sequence. *)

LEMMA ReverseType ==
  ASSUME NEW S, NEW s \in Seq(S)
  PROVE  /\ Reverse(s) \in Seq(S)
         /\ Len(Reverse(s)) = Len(s)
         /\ \A i \in 1 .. Len(s) : Reverse(s)[i] = s[(Len(s) - i) + 1]
<1>1. PICK n \in Nat : n = Len(s)
  BY LenProperties
<1>2. PICK r : r = Reverse(s)
  OBVIOUS
<1>3. r = [i \in 1 .. n |-> s[(n - i) + 1]]
  BY <1>1, <1>2 DEF Reverse
<1>4. ASSUME NEW i \in 1 .. n PROVE s[(n - i) + 1] \in S
  <2>1. (n - i) + 1 \in 1 .. n
    OBVIOUS
  <2> QED
    BY <1>1, <2>1, ElementOfSeq
<1>5. r \in [1 .. n -> S]
  BY <1>3, <1>4
<1>6. r \in Seq(S)
  BY <1>5, SeqDef
<1>7. Len(r) = n
  BY <1>5, <1>6, LenProperties
<1> QED
  BY <1>1, <1>2, <1>3, <1>6, <1>7

LEMMA ReverseReverse ==
  ASSUME NEW S, NEW s \in Seq(S)
  PROVE  Reverse(Reverse(s)) = s
<1>1. Len(s) \in Nat
  BY LenProperties
<1>2. PICK n, r : n = Len(s) /\ r = Reverse(s)
  OBVIOUS
<1>3. r \in Seq(S) /\ Len(r) = n /\ \A i \in 1 .. n : r[i] = s[(n - i) + 1]
  BY <1>2, ReverseType
<1>4. PICK t : t = Reverse(r)
  OBVIOUS
<1>5. t \in Seq(S) /\ Len(t) = n /\ \A i \in 1 .. n : t[i] = r[(n - i) + 1]
  BY <1>1, <1>2, <1>3, <1>4, ReverseType
<1>6. ASSUME NEW i \in 1 .. n PROVE t[i] = s[i]
  <2>1. (n - i) + 1 \in 1 .. n /\ (n - ((n - i) + 1)) + 1 = i
    BY <1>1, <1>2
  <2>2. t[i] = r[(n - i) + 1]
    BY <1>5
  <2>3. r[(n - i) + 1] = s[(n - ((n - i) + 1)) + 1]
    BY <1>3, <2>1
  <2> QED
    BY <2>1, <2>2, <2>3
<1>7. t = s
  BY <1>2, <1>5, <1>6, SeqEqual
<1> QED
  BY <1>2, <1>4, <1>7

LEMMA ConcatNumbers ==
  ASSUME NEW s \in Seq(Nat), NEW t \in Seq(Nat), NEW r \in Seq(Nat)
  PROVE  (s \o t) \o r = s \o (t \o r)
<1>1. PICK S : S = Nat
  OBVIOUS
<1>2. s \in Seq(S) /\ t \in Seq(S) /\ r \in Seq(S)
  BY <1>1
<1> QED
  BY <1>2, ConcatAssociative

LEMMA UnitType ==
  ASSUME NEW nal \in Units
  PROVE  nal \in Seq(Nat) /\ Len(nal) \in Nat /\ Len(nal) > 0
<1>1. 0 .. Base - 1 \subseteq Nat
  BY BytesAssumption
<1>2. nal \in Seq(0 .. Base - 1) /\ nal # <<>>
  BY UnitsAssumption
<1>3. nal \in [1 .. Len(nal) -> 0 .. Base - 1] /\ Len(nal) \in Nat
  BY <1>2, LenProperties
<1>4. nal \in [1 .. Len(nal) -> Nat]
  BY <1>1, <1>3
<1>5. Len(nal) # 0
  BY <1>2, EmptySeq
<1> QED
  BY <1>3, <1>4, <1>5, SeqDef

\* The length in front of a unit is read as it was written.
LEMMA PrefixReads ==
  ASSUME NEW nal \in Units
  PROVE  /\ Prefix(nal) \in Seq(Nat) /\ Len(Prefix(nal)) = PrefixLength
         /\ BigEndian(Prefix(nal)) = Len(nal)
<1>1. PrefixLength \in Nat
  BY NumbersAssumption
<1>2. Len(nal) \in Unsigned(PrefixLength) /\ Len(nal) \in Nat
  BY UnitsAssumption, UnitType
<1> QED
  BY <1>1, <1>2, ToBytesType, ReadWrite DEF Prefix

-----------------------------------------------------------------------------
(* A walk from unit to unit. *)

NextOffset(d, o) == o + PrefixLength + LengthAt(d, o)

\* No unit follows at offset o.
Ends(d, o) ==
  \/ o + PrefixLength > Len(d)
  \/ LengthAt(d, o) = 0
  \/ NextOffset(d, o) > Len(d)

NalAt(d, o) == SubSeq(d, o + PrefixLength + 1, NextOffset(d, o))

LEMMA LengthType ==
  ASSUME NEW d \in Seq(Nat), NEW o \in Nat, o + PrefixLength <= Len(d)
  PROVE  LengthAt(d, o) \in Nat
<1>1. PICK n \in Nat : n = Len(d)
  BY LenProperties
<1>2. \A i \in o + 1 .. o + PrefixLength : d[i] \in Nat
  BY <1>1, ElementOfSeq, NumbersAssumption
<1>3. SubSeq(d, o + 1, o + PrefixLength) \in Seq(Nat)
  BY <1>2, SubSeqProperties, NumbersAssumption
<1> QED
  BY <1>3, BigEndianType DEF LengthAt

LEMMA Follows ==
  ASSUME NEW d \in Seq(Nat), NEW o \in Nat, ~Ends(d, o)
  PROVE  /\ o + PrefixLength <= Len(d)
         /\ LengthAt(d, o) \in Nat \ {0}
         /\ NextOffset(d, o) \in o + 1 .. Len(d)
         /\ NalAt(d, o) \in Seq(Nat)
         /\ Len(NalAt(d, o)) = LengthAt(d, o)
         /\ NalAt(d, o)[1] = d[o + PrefixLength + 1]
<1>1. PICK n \in Nat : n = Len(d)
  BY LenProperties
<1>2. PICK p \in Nat : p = PrefixLength /\ p > 0
  BY NumbersAssumption
<1>3. o + p <= n
  BY <1>1, <1>2 DEF Ends
<1>4. PICK l \in Nat : l = LengthAt(d, o)
  BY <1>1, <1>2, <1>3, LengthType
<1>5. l # 0 /\ o + p + l <= n /\ NextOffset(d, o) = o + p + l
  BY <1>1, <1>2, <1>4 DEF Ends, NextOffset
<1>6. \A i \in o + p + 1 .. o + p + l : d[i] \in Nat
  BY <1>1, <1>5, ElementOfSeq
<1>7. PICK s : s = SubSeq(d, o + p + 1, o + p + l)
  OBVIOUS
<1>8. s \in Seq(Nat) /\ Len(s) = l /\ s[1] = d[o + p + 1]
  BY <1>5, <1>6, <1>7, SubSeqProperties
<1>9. NalAt(d, o) = s
  BY <1>2, <1>5, <1>7 DEF NalAt
<1>10. o + PrefixLength <= Len(d)
  BY <1>1, <1>2, <1>3
<1>11. LengthAt(d, o) \in Nat \ {0}
  BY <1>4, <1>5
<1>12. NextOffset(d, o) \in o + 1 .. Len(d)
  BY <1>1, <1>2, <1>5
<1>13. NalAt(d, o) \in Seq(Nat) /\ Len(NalAt(d, o)) = LengthAt(d, o)
  BY <1>4, <1>8, <1>9
<1>14. NalAt(d, o)[1] = d[o + PrefixLength + 1]
  BY <1>2, <1>8, <1>9
<1> QED
  BY <1>10, <1>11, <1>12, <1>13, <1>14

-----------------------------------------------------------------------------
(* The gateway's walk. *)

\* f tells of each offset from k on whether the gateway finds an IDR unit there
\* or behind it.
IdrWalk(d, k, f) ==
  /\ f \in [k .. Len(d) -> BOOLEAN]
  /\ \A o \in k .. Len(d) :
       f[o] = (~Ends(d, o) /\ (d[o + PrefixLength + 1] % 32 = Idr \/ f[NextOffset(d, o)]))

LEMMA EndsAtEnd ==
  ASSUME NEW d \in Seq(Nat)
  PROVE  Ends(d, Len(d))
<1>1. Len(d) \in Nat
  BY LenProperties
<1> QED
  BY <1>1, NumbersAssumption DEF Ends

LEMMA IdrWalkBack ==
  ASSUME NEW d \in Seq(Nat), NEW k \in 0 .. Len(d) - 1, NEW f, IdrWalk(d, k + 1, f)
  PROVE  \E g : IdrWalk(d, k, g)
<1>1. PICK n \in Nat : n = Len(d)
  BY LenProperties
<1>2. PICK v \in BOOLEAN :
        v = (~Ends(d, k) /\ (d[k + PrefixLength + 1] % 32 = Idr \/ f[NextOffset(d, k)]))
  OBVIOUS
<1>3. PICK g : g = [o \in k .. n |-> IF o = k THEN v ELSE f[o]]
  OBVIOUS
<1>4. f \in [k + 1 .. n -> BOOLEAN] /\ k \in k .. n /\ \A o \in k .. n : o = k \/ o \in k + 1 .. n
  BY <1>1 DEF IdrWalk
<1>5. g \in [k .. n -> BOOLEAN] /\ g[k] = v /\ \A o \in k + 1 .. n : g[o] = f[o]
  BY <1>3, <1>4
<1>6. \A o \in k .. n : ~Ends(d, o) => NextOffset(d, o) \in k + 1 .. n
  BY <1>1, Follows
<1>7. ASSUME NEW o \in k .. n
      PROVE  g[o] = (~Ends(d, o) /\ (d[o + PrefixLength + 1] % 32 = Idr
                                     \/ g[NextOffset(d, o)]))
  <2>1. ~Ends(d, o) => g[NextOffset(d, o)] = f[NextOffset(d, o)]
    BY <1>5, <1>6
  <2>2. CASE o = k
    BY <1>2, <1>5, <2>1, <2>2, Zenon
  <2>3. CASE o \in k + 1 .. n
    <3>1. g[o] = f[o]
      BY <1>5, <2>3
    <3>2. f[o] = (~Ends(d, o) /\ (d[o + PrefixLength + 1] % 32 = Idr
                                  \/ f[NextOffset(d, o)]))
      BY <1>1, <2>3, Zenon DEF IdrWalk
    <3> QED
      BY <2>1, <3>1, <3>2, Zenon
  <2> QED
    BY <1>4, <2>2, <2>3
<1>8. IdrWalk(d, k, g)
  BY <1>1, <1>5, <1>7, Zenon DEF IdrWalk
<1> QED
  BY <1>8

LEMMA IdrWalkExists ==
  ASSUME NEW d \in Seq(Nat)
  PROVE  \E f : IdrWalk(d, 0, f)
<1>1. PICK n \in Nat : n = Len(d)
  BY LenProperties
<1> DEFINE S == {k \in 0 .. n : \E f : IdrWalk(d, k, f)}
<1>2. n \in S
  <2>1. PICK f : f = [o \in n .. n |-> FALSE]
    OBVIOUS
  <2>2. \A o \in n .. n : o = n
    OBVIOUS
  <2>3. f \in [n .. n -> BOOLEAN] /\ f[n] = FALSE
    BY <2>1
  <2>4. IdrWalk(d, n, f)
    BY <1>1, <2>2, <2>3, EndsAtEnd DEF IdrWalk
  <2> QED
    BY <2>4
<1>3. ASSUME NEW k \in 0 .. n - 1, k + 1 .. n \subseteq S PROVE k \in S
  <2>1. k + 1 \in S
    BY <1>3
  <2>2. PICK f : IdrWalk(d, k + 1, f)
    BY <2>1
  <2> QED
    BY <1>1, <2>2, IdrWalkBack
<1> HIDE DEF S
<1>4. 0 .. n \subseteq S
  BY <1>2, <1>3, Downwards
<1>5. 0 \in S
  BY <1>4
<1> QED
  BY <1>5 DEF S

\* The value of contains_idr is the walk's at its start.
LEMMA IdrIs ==
  ASSUME NEW d \in Seq(Nat)
  PROVE  /\ \E f : IdrWalk(d, 0, f) /\ (contains_idr(d) <=> f[0])
         /\ contains_idr(d) \in BOOLEAN
<1> DEFINE body(f) ==
             [offset \in 0 .. Len(d) |->
                LET start == offset + PrefixLength
                    end == start + LengthAt(d, offset)
                IN  /\ start <= Len(d) /\ start < end /\ end <= Len(d)
                    /\ d[start + 1] % 32 = Idr \/ f[end]]
           from == CHOOSE f : f = body(f)
<1>1. PICK n \in Nat : n = Len(d)
  BY LenProperties
<1>2. ASSUME NEW o \in 0 .. n
      PROVE  LET start == o + PrefixLength
                 end == start + LengthAt(d, o)
             IN  /\ (start <= Len(d) /\ start < end /\ end <= Len(d)) <=> ~Ends(d, o)
                 /\ end = NextOffset(d, o)
  <2>1. o + PrefixLength <= Len(d) => LengthAt(d, o) \in Nat
    BY LengthType
  <2> QED
    BY <1>1, <2>1, NumbersAssumption DEF Ends, NextOffset
<1>3. ASSUME NEW f
      PROVE  body(f) = [o \in 0 .. n |-> ~Ends(d, o) /\ (d[o + PrefixLength + 1] % 32 = Idr
                                                         \/ f[NextOffset(d, o)])]
  BY <1>1, <1>2, Zenon
<1>4. contains_idr(d) = from[0]
  BY DEF contains_idr
<1>5. PICK f : IdrWalk(d, 0, f)
  BY IdrWalkExists
<1>6. f = [o \in 0 .. n |-> f[o]]
  BY <1>1, <1>5 DEF IdrWalk
<1>7. f = [o \in 0 .. n |-> ~Ends(d, o) /\ (d[o + PrefixLength + 1] % 32 = Idr
                                            \/ f[NextOffset(d, o)])]
  BY <1>1, <1>5, <1>6, Zenon DEF IdrWalk
<1>8. f = body(f)
  <2> HIDE DEF body
  <2> QED
    BY <1>3, <1>7
<1> HIDE DEF body
<1>9. from = body(from)
  BY <1>8
<1> HIDE DEF from
<1>10. from = [o \in 0 .. n |-> ~Ends(d, o) /\ (d[o + PrefixLength + 1] % 32 = Idr
                                               \/ from[NextOffset(d, o)])]
  BY <1>3, <1>9
<1>11. \A o \in 0 .. n : from[o] = (~Ends(d, o) /\ (d[o + PrefixLength + 1] % 32 = Idr
                                                    \/ from[NextOffset(d, o)]))
  BY <1>10, Zenon
<1>12. \A o \in 0 .. n : from[o] \in BOOLEAN
  BY <1>11, Zenon
<1>13. from \in [0 .. n -> BOOLEAN]
  <2>1. from = [o \in 0 .. n |-> from[o]]
    BY <1>10
  <2> QED
    BY <1>12, <2>1
<1>14. IdrWalk(d, 0, from)
  BY <1>1, <1>11, <1>13, Zenon DEF IdrWalk
<1>15. contains_idr(d) \in BOOLEAN
  <2>1. 0 \in 0 .. n
    OBVIOUS
  <2> QED
    BY <1>4, <1>12, <2>1, Zenon
<1> QED
  BY <1>4, <1>14, <1>15

-----------------------------------------------------------------------------
(* The page's walk. *)

\* f lists, for each offset from k on, the units that the page finds from there.
NalWalk(d, k, f) ==
  /\ f \in [k .. Len(d) -> Seq(Seq(Nat))]
  /\ \A o \in k .. Len(d) :
       f[o] = IF Ends(d, o) THEN <<>> ELSE <<NalAt(d, o)>> \o f[NextOffset(d, o)]

LEMMA OneMore ==
  ASSUME NEW S, NEW x \in S, NEW s \in Seq(S)
  PROVE  <<x>> \in Seq(S) /\ <<x>> \o s \in Seq(S)
<1>1. <<x>> \in Seq(S)
  OBVIOUS
<1> QED
  BY <1>1, ConcatProperties

LEMMA NalWalkBack ==
  ASSUME NEW d \in Seq(Nat), NEW k \in 0 .. Len(d) - 1, NEW f, NalWalk(d, k + 1, f)
  PROVE  \E g : NalWalk(d, k, g)
<1>1. PICK n \in Nat : n = Len(d)
  BY LenProperties
<1>2. f \in [k + 1 .. n -> Seq(Seq(Nat))]
  BY <1>1 DEF NalWalk
<1>3. PICK v : v = IF Ends(d, k) THEN <<>> ELSE <<NalAt(d, k)>> \o f[NextOffset(d, k)]
  OBVIOUS
<1>4. \A o \in k .. n : ~Ends(d, o) => NextOffset(d, o) \in k + 1 .. n
  BY <1>1, Follows
<1>5. v \in Seq(Seq(Nat))
  <2>1. CASE Ends(d, k)
    BY <1>3, <2>1, EmptySeq
  <2>2. CASE ~Ends(d, k)
    <3>1. k \in k .. n /\ k \in Nat
      BY <1>1
    <3>2. f[NextOffset(d, k)] \in Seq(Seq(Nat))
      BY <1>2, <1>4, <2>2, <3>1
    <3>3. NalAt(d, k) \in Seq(Nat)
      BY <2>2, <3>1, Follows
    <3> QED
      BY <1>3, <2>2, <3>2, <3>3, OneMore
  <2> QED
    BY <2>1, <2>2
<1>6. PICK g : g = [o \in k .. n |-> IF o = k THEN v ELSE f[o]]
  OBVIOUS
<1>7. k \in k .. n /\ \A o \in k .. n : o = k \/ o \in k + 1 .. n
  BY <1>1
<1>8. g \in [k .. n -> Seq(Seq(Nat))] /\ g[k] = v /\ \A o \in k + 1 .. n : g[o] = f[o]
  BY <1>2, <1>5, <1>6, <1>7
<1>9. ASSUME NEW o \in k .. n
      PROVE  g[o] = IF Ends(d, o) THEN <<>> ELSE <<NalAt(d, o)>> \o g[NextOffset(d, o)]
  <2>1. ~Ends(d, o) => g[NextOffset(d, o)] = f[NextOffset(d, o)]
    BY <1>4, <1>8
  <2>2. CASE o = k
    BY <1>3, <1>8, <2>1, <2>2, Zenon
  <2>3. CASE o \in k + 1 .. n
    <3>1. g[o] = f[o]
      BY <1>8, <2>3
    <3>2. f[o] = IF Ends(d, o) THEN <<>> ELSE <<NalAt(d, o)>> \o f[NextOffset(d, o)]
      BY <1>1, <2>3, Zenon DEF NalWalk
    <3> QED
      BY <2>1, <3>1, <3>2, Zenon
  <2> QED
    BY <1>7, <2>2, <2>3
<1>10. NalWalk(d, k, g)
  BY <1>1, <1>8, <1>9, Zenon DEF NalWalk
<1> QED
  BY <1>10

LEMMA NalWalkExists ==
  ASSUME NEW d \in Seq(Nat)
  PROVE  \E f : NalWalk(d, 0, f)
<1>1. PICK n \in Nat : n = Len(d)
  BY LenProperties
<1> DEFINE S == {k \in 0 .. n : \E f : NalWalk(d, k, f)}
<1>2. n \in S
  <2>1. PICK f : f = [o \in n .. n |-> <<>>]
    OBVIOUS
  <2>2. \A o \in n .. n : o = n
    OBVIOUS
  <2>3. f \in [n .. n -> Seq(Seq(Nat))] /\ f[n] = <<>>
    BY <2>1, EmptySeq
  <2>4. NalWalk(d, n, f)
    BY <1>1, <2>2, <2>3, EndsAtEnd DEF NalWalk
  <2> QED
    BY <2>4
<1>3. ASSUME NEW k \in 0 .. n - 1, k + 1 .. n \subseteq S PROVE k \in S
  <2>1. k + 1 \in S
    BY <1>3
  <2>2. PICK f : NalWalk(d, k + 1, f)
    BY <2>1
  <2> QED
    BY <1>1, <2>2, NalWalkBack
<1> HIDE DEF S
<1>4. 0 .. n \subseteq S
  BY <1>2, <1>3, Downwards
<1>5. 0 \in S
  BY <1>4
<1> QED
  BY <1>5 DEF S

\* The value of avcNals is the walk's at its start.
LEMMA NalsAre ==
  ASSUME NEW d \in Seq(Nat)
  PROVE  \E f : NalWalk(d, 0, f) /\ avcNals(d) = f[0]
<1> DEFINE body(f) ==
             [offset \in 0 .. Len(d) |->
                LET start == offset + PrefixLength
                    length == LengthAt(d, offset)
                IN  IF start > Len(d) \/ length = 0 \/ start + length > Len(d) THEN <<>>
                    ELSE <<SubSeq(d, start + 1, start + length)>> \o f[start + length]]
           from == CHOOSE f : f = body(f)
<1>1. PICK n \in Nat : n = Len(d)
  BY LenProperties
<1>2. ASSUME NEW f
      PROVE  body(f) = [o \in 0 .. n |-> IF Ends(d, o) THEN <<>>
                                         ELSE <<NalAt(d, o)>> \o f[NextOffset(d, o)]]
  BY <1>1, Zenon DEF Ends, NalAt, NextOffset
<1>3. avcNals(d) = from[0]
  BY DEF avcNals
<1>4. PICK f : NalWalk(d, 0, f)
  BY NalWalkExists
<1>5. f = [o \in 0 .. n |-> f[o]]
  BY <1>1, <1>4 DEF NalWalk
<1>6. f = [o \in 0 .. n |-> IF Ends(d, o) THEN <<>>
                            ELSE <<NalAt(d, o)>> \o f[NextOffset(d, o)]]
  BY <1>1, <1>4, <1>5, Zenon DEF NalWalk
<1>7. f = body(f)
  <2> HIDE DEF body
  <2> QED
    BY <1>2, <1>6
<1> HIDE DEF body
<1>8. from = body(from)
  BY <1>7
<1> HIDE DEF from
<1>9. from = [o \in 0 .. n |-> IF Ends(d, o) THEN <<>>
                               ELSE <<NalAt(d, o)>> \o from[NextOffset(d, o)]]
  BY <1>2, <1>8
<1>10. \A o \in 0 .. n : from[o] = IF Ends(d, o) THEN <<>>
                                   ELSE <<NalAt(d, o)>> \o from[NextOffset(d, o)]
  BY <1>9, Zenon
<1> DEFINE S == {o \in 0 .. n : from[o] \in Seq(Seq(Nat))}
<1>11. \A o \in 0 .. n : Ends(d, o) => o \in S
  BY <1>10, EmptySeq
<1>12. ASSUME NEW o \in 0 .. n - 1, o + 1 .. n \subseteq S PROVE o \in S
  <2>1. o \in 0 .. n /\ o \in Nat
    OBVIOUS
  <2>2. CASE ~Ends(d, o)
    <3>1. NextOffset(d, o) \in o + 1 .. n /\ NalAt(d, o) \in Seq(Nat)
      BY <1>1, <2>1, <2>2, Follows
    <3>2. from[NextOffset(d, o)] \in Seq(Seq(Nat))
      BY <1>12, <3>1
    <3>3. <<NalAt(d, o)>> \o from[NextOffset(d, o)] \in Seq(Seq(Nat))
      BY <3>1, <3>2, OneMore
    <3>4. from[o] = <<NalAt(d, o)>> \o from[NextOffset(d, o)]
      BY <1>10, <2>1, <2>2
    <3> QED
      BY <2>1, <3>3, <3>4
  <2> QED
    BY <1>11, <2>1, <2>2
<1>13. n \in S
  <2>1. Ends(d, n)
    BY <1>1, EndsAtEnd
  <2> QED
    BY <1>11, <2>1
<1>14. 0 .. n \subseteq S
  <2> HIDE DEF S
  <2> QED
    BY <1>12, <1>13, Downwards
<1>15. from \in [0 .. n -> Seq(Seq(Nat))]
  <2>1. from = [o \in 0 .. n |-> from[o]]
    BY <1>9
  <2> QED
    BY <1>14, <2>1
<1>16. NalWalk(d, 0, from)
  BY <1>1, <1>10, <1>15, Zenon DEF NalWalk
<1> QED
  BY <1>3, <1>16

-----------------------------------------------------------------------------
(* The two walks agree. *)

HasIdr(nals) == \E nal \in ToSet(nals) : Type(nal) = Idr

LEMMA HasIdrMore ==
  ASSUME NEW S, NEW x \in S, NEW s \in Seq(S)
  PROVE  HasIdr(<<x>> \o s) <=> Type(x) = Idr \/ HasIdr(s)
<1>1. PICK n \in Nat : n = Len(s) /\ DOMAIN s = 1 .. n
  BY LenProperties
<1>2. PICK t : t = <<x>> \o s
  OBVIOUS
<1>3. <<x>> \in Seq(S) /\ Len(<<x>>) = 1 /\ <<x>>[1] = x
  OBVIOUS
<1>4. /\ t \in Seq(S) /\ Len(t) = 1 + n
      /\ \A i \in 1 .. 1 + n : t[i] = IF i <= 1 THEN <<x>>[i] ELSE s[i - 1]
  BY <1>1, <1>2, <1>3, ConcatProperties
<1>5. DOMAIN t = 1 .. 1 + n
  BY <1>4, LenProperties
<1>6. t[1] = x
  BY <1>3, <1>4
<1>7. \A i \in 1 .. n : i + 1 \in 1 .. 1 + n /\ t[i + 1] = s[i]
  BY <1>4
<1>8. \A i \in 1 .. 1 + n : i = 1 \/ (i - 1 \in 1 .. n /\ t[i] = s[i - 1])
  BY <1>4
<1>9. ToSet(t) = {x} \cup ToSet(s)
  BY <1>1, <1>5, <1>6, <1>7, <1>8 DEF ToSet
<1> QED
  BY <1>2, <1>9 DEF HasIdr

LEMMA WalksAgree ==
  ASSUME NEW d \in Seq(Nat)
  PROVE  contains_idr(d) <=> HasIdr(avcNals(d))
<1>1. PICK n \in Nat : n = Len(d)
  BY LenProperties
<1>2. PICK f : IdrWalk(d, 0, f) /\ (contains_idr(d) <=> f[0])
  BY IdrIs
<1>3. PICK g : NalWalk(d, 0, g) /\ avcNals(d) = g[0]
  BY NalsAre
<1> DEFINE S == {o \in 0 .. n : f[o] <=> HasIdr(g[o])}
<1>4. \A o \in 0 .. n : f[o] = (~Ends(d, o) /\ (d[o + PrefixLength + 1] % 32 = Idr
                                                \/ f[NextOffset(d, o)]))
  BY <1>1, <1>2, Zenon DEF IdrWalk
<1>5. \A o \in 0 .. n : g[o] = IF Ends(d, o) THEN <<>>
                               ELSE <<NalAt(d, o)>> \o g[NextOffset(d, o)]
  BY <1>1, <1>3, Zenon DEF NalWalk
<1>6. ~HasIdr(<<>>)
  BY DEF HasIdr, ToSet
<1>7. ASSUME NEW o \in 0 .. n, Ends(d, o) PROVE o \in S
  <2>1. g[o] = <<>> /\ ~f[o]
    BY <1>4, <1>5, <1>7, Zenon
  <2> QED
    BY <1>6, <2>1
<1>8. ASSUME NEW o \in 0 .. n - 1, o + 1 .. n \subseteq S PROVE o \in S
  <2>1. o \in 0 .. n /\ o \in Nat
    OBVIOUS
  <2>2. CASE ~Ends(d, o)
    <3>1. PICK e, nal : e = NextOffset(d, o) /\ nal = NalAt(d, o)
      OBVIOUS
    <3>2. e \in o + 1 .. n /\ e \in 0 .. n /\ nal \in Seq(Nat) /\ nal[1] = d[o + PrefixLength + 1]
      BY <1>1, <2>1, <2>2, <3>1, Follows
    <3>3. f[e] <=> HasIdr(g[e])
      BY <1>8, <3>2
    <3>4. g[e] \in Seq(Seq(Nat))
      BY <1>1, <1>3, <3>2 DEF NalWalk
    <3>5. g[o] = <<nal>> \o g[e]
      BY <1>5, <2>1, <2>2, <3>1
    <3>6. HasIdr(g[o]) <=> Type(nal) = Idr \/ HasIdr(g[e])
      BY <3>2, <3>4, <3>5, HasIdrMore
    <3>7. f[o] <=> (d[o + PrefixLength + 1] % 32 = Idr \/ f[e])
      BY <1>4, <2>1, <2>2, <3>1, Zenon
    <3>8. Type(nal) = Idr <=> d[o + PrefixLength + 1] % 32 = Idr
      BY <3>2 DEF Type
    <3>9. f[o] <=> HasIdr(g[o])
      BY <3>3, <3>6, <3>7, <3>8, Zenon
    <3> QED
      BY <2>1, <3>9
  <2> QED
    BY <1>7, <2>1, <2>2
<1>9. n \in S
  <2>1. Ends(d, n)
    BY <1>1, EndsAtEnd
  <2> QED
    BY <1>7, <2>1
<1>10. 0 .. n \subseteq S
  <2> HIDE DEF S
  <2> QED
    BY <1>8, <1>9, Downwards
<1>11. f[0] <=> HasIdr(g[0])
  BY <1>10
<1> QED
  BY <1>2, <1>3, <1>11, Zenon

-----------------------------------------------------------------------------
(* The page finds the units that were put in. *)

\* The units of s stand in d one behind the other, the i-th one at offset p[i - 1].
Reads(d, s, p) ==
  /\ p \in [0 .. Len(s) -> 0 .. Len(d)]
  /\ p[0] = 0
  /\ \A i \in 1 .. Len(s) : /\ ~Ends(d, p[i - 1])
                            /\ p[i] = NextOffset(d, p[i - 1])
                            /\ s[i] = NalAt(d, p[i - 1])

LEMMA ReadsFirst ==
  ASSUME NEW d \in Seq(Nat), NEW s \in Seq(Seq(Nat)), NEW p, Reads(d, s, p),
         NEW f, NalWalk(d, 0, f)
  PROVE  f[0] = s \o f[p[Len(s)]]
<1>1. PICK n \in Nat, k \in Nat : n = Len(d) /\ k = Len(s)
  BY LenProperties
<1>2. f \in [0 .. n -> Seq(Seq(Nat))] /\ p \in [0 .. k -> 0 .. n] /\ p[0] = 0
  BY <1>1 DEF NalWalk, Reads
<1> DEFINE S == {i \in 0 .. k : f[0] = SubSeq(s, 1, i) \o f[p[i]]}
<1>3. 0 \in S
  <2>1. SubSeq(s, 1, 0) = <<>>
    BY SubSeqEmpty
  <2>2. f[0] \in Seq(Seq(Nat))
    BY <1>2
  <2>3. <<>> \o f[0] = f[0]
    BY <2>2, ConcatEmptySeq
  <2> QED
    BY <1>2, <2>1, <2>3
<1>4. ASSUME NEW i \in 0 .. k - 1, i \in S PROVE i + 1 \in S
  <2>1. i + 1 \in 1 .. k /\ (i + 1) - 1 = i /\ i \in 0 .. k /\ i + 1 \in 0 .. k
    OBVIOUS
  <2>2. ~Ends(d, p[i]) /\ p[i + 1] = NextOffset(d, p[i]) /\ s[i + 1] = NalAt(d, p[i])
    BY <1>1, <2>1 DEF Reads
  <2>3. p[i] \in 0 .. n /\ p[i + 1] \in 0 .. n
    BY <1>2, <2>1
  <2>4. f[p[i]] = <<s[i + 1]>> \o f[p[i + 1]]
    BY <1>1, <2>2, <2>3 DEF NalWalk
  <2>5. PICK a, x, b : a = SubSeq(s, 1, i) /\ x = s[i + 1] /\ b = f[p[i + 1]]
    OBVIOUS
  <2>6. b \in Seq(Seq(Nat)) /\ x \in Seq(Nat) /\ <<x>> \in Seq(Seq(Nat))
    BY <1>1, <1>2, <2>1, <2>3, <2>5, ElementOfSeq
  <2>7. a \in Seq(Seq(Nat))
    <3>1. \A j \in 1 .. i : s[j] \in Seq(Nat)
      BY <1>1, ElementOfSeq
    <3> QED
      BY <2>5, <3>1, SubSeqProperties
  <2>8. SubSeq(s, 1, i + 1) = a \o <<x>>
    <3>1. 1 \in 1 .. Len(s) /\ i + 1 \in 1 .. Len(s)
      BY <1>1, <2>1
    <3> QED
      BY <2>1, <2>5, <3>1, SubSeqRecursiveSecond
  <2>9. f[0] = a \o (<<x>> \o b)
    BY <1>4, <2>4, <2>5
  <2>10. (a \o <<x>>) \o b = a \o (<<x>> \o b)
    BY <2>6, <2>7, ConcatAssociative
  <2> QED
    BY <2>1, <2>5, <2>8, <2>9, <2>10
<1>5. 0 .. k \subseteq S
  <2> HIDE DEF S
  <2> QED
    BY <1>3, <1>4, Upwards
<1>6. k \in 0 .. k
  OBVIOUS
<1>7. k \in S
  BY <1>5, <1>6, Zenon
<1>8. f[0] = SubSeq(s, 1, k) \o f[p[k]]
  BY <1>7
<1> QED
  BY <1>1, <1>8, SubSeqFull

\* What is appended changes nothing for units that are whole.
LEMMA EndsStays ==
  ASSUME NEW d \in Seq(Nat), NEW e \in Seq(Nat), NEW o \in Nat, ~Ends(d, o)
  PROVE  /\ ~Ends(d \o e, o)
         /\ NextOffset(d \o e, o) = NextOffset(d, o)
         /\ NalAt(d \o e, o) = NalAt(d, o)
<1>1. PICK n \in Nat, m \in Nat : n = Len(d) /\ m = Len(e)
  BY LenProperties
<1>2. PICK q \in Nat : q = PrefixLength /\ q > 0
  BY NumbersAssumption
<1>3. PICK u : u = d \o e
  OBVIOUS
<1>4. u \in Seq(Nat) /\ Len(u) = n + m
  BY <1>1, <1>3, ConcatProperties
<1>5. o + q <= n /\ NextOffset(d, o) \in o + 1 .. n /\ LengthAt(d, o) \in Nat \ {0}
      /\ NextOffset(d, o) = o + q + LengthAt(d, o)
  BY <1>1, <1>2, Follows DEF NextOffset
<1>6. LengthAt(u, o) = LengthAt(d, o)
  <2>1. o + 1 \in 1 .. Len(d) /\ o + q \in 1 .. Len(d)
    BY <1>1, <1>2, <1>5
  <2>2. SubSeq(u, o + 1, o + q) = SubSeq(d, o + 1, o + q)
    BY <1>3, <2>1, SubSeqOfConcat1
  <2> QED
    BY <1>2, <2>2 DEF LengthAt
<1>7. NextOffset(u, o) = NextOffset(d, o)
  BY <1>6 DEF NextOffset
<1>8. NalAt(u, o) = NalAt(d, o)
  <2>1. o + q + 1 \in 1 .. Len(d) /\ NextOffset(d, o) \in 1 .. Len(d)
    BY <1>1, <1>2, <1>5
  <2>2. SubSeq(u, o + q + 1, NextOffset(d, o)) = SubSeq(d, o + q + 1, NextOffset(d, o))
    BY <1>3, <2>1, SubSeqOfConcat1
  <2> QED
    BY <1>2, <1>7, <2>2 DEF NalAt
<1>9. ~Ends(u, o)
  BY <1>1, <1>2, <1>4, <1>5, <1>6, <1>7 DEF Ends
<1> QED
  BY <1>3, <1>7, <1>8, <1>9

LEMMA ReadsStay ==
  ASSUME NEW d \in Seq(Nat), NEW e \in Seq(Nat), NEW s \in Seq(Seq(Nat)), NEW p, Reads(d, s, p)
  PROVE  Reads(d \o e, s, p)
<1>1. PICK n \in Nat, m \in Nat, k \in Nat : n = Len(d) /\ m = Len(e) /\ k = Len(s)
  BY LenProperties
<1>2. PICK u : u = d \o e
  OBVIOUS
<1>3. Len(u) = n + m
  BY <1>1, <1>2, ConcatProperties
<1>4. p \in [0 .. k -> 0 .. n] /\ p[0] = 0
  BY <1>1 DEF Reads
<1>5. p \in [0 .. k -> 0 .. n + m]
  <2>1. 0 .. n \subseteq 0 .. n + m
    OBVIOUS
  <2> QED
    BY <1>4, <2>1
<1>6. ASSUME NEW i \in 1 .. k
      PROVE  /\ ~Ends(u, p[i - 1])
             /\ p[i] = NextOffset(u, p[i - 1])
             /\ s[i] = NalAt(u, p[i - 1])
  <2>1. /\ ~Ends(d, p[i - 1])
        /\ p[i] = NextOffset(d, p[i - 1])
        /\ s[i] = NalAt(d, p[i - 1])
    BY <1>1 DEF Reads
  <2>2. i - 1 \in 0 .. k
    OBVIOUS
  <2>3. p[i - 1] \in Nat
    BY <1>4, <2>2
  <2> QED
    BY <1>2, <2>1, <2>3, EndsStays
<1>7. Reads(u, s, p)
  BY <1>1, <1>3, <1>4, <1>5, <1>6 DEF Reads
<1> QED
  BY <1>2, <1>7

\* Where the data end with the units, one more unit is the next to be read.
UnitThere(d, n, nal) ==
  /\ ~Ends(d, n)
  /\ NextOffset(d, n) = Len(d)
  /\ NalAt(d, n) = nal

LEMMA UnitIsThere ==
  ASSUME NEW d \in Seq(Nat), NEW x \in Seq(Nat), NEW nal \in Seq(Nat),
         Len(x) = PrefixLength, BigEndian(x) = Len(nal), Len(nal) > 0
  PROVE  UnitThere((d \o x) \o nal, Len(d), nal)
<1>1. PICK n \in Nat, q \in Nat : n = Len(d) /\ q = PrefixLength /\ q > 0
  BY LenProperties, NumbersAssumption
<1>2. PICK l \in Nat : l = Len(nal) /\ l > 0
  BY LenProperties
<1>3. PICK c, u : c = d \o x /\ u = c \o nal
  OBVIOUS
<1>4. Len(x) = q /\ BigEndian(x) = l
  BY <1>1, <1>2
<1>5. c \in Seq(Nat) /\ Len(c) = n + q
  BY <1>1, <1>3, <1>4, ConcatProperties
<1>6. u \in Seq(Nat) /\ Len(u) = n + q + l
  BY <1>2, <1>3, <1>5, ConcatProperties
<1>7. SubSeq(u, n + 1, n + q) = x
  <2>1. n + 1 \in 1 .. Len(c) /\ n + q \in 1 .. Len(c)
    BY <1>1, <1>5
  <2>2. SubSeq(u, n + 1, n + q) = SubSeq(c, n + 1, n + q)
    BY <1>3, <1>4, <1>5, <2>1, SubSeqOfConcat1
  <2>3. n + 1 \in Len(d) + 1 .. Len(d) + Len(x) /\ n + q \in Len(d) + 1 .. Len(d) + Len(x)
    BY <1>1, <1>4
  <2>4. SubSeq(c, n + 1, n + q) = SubSeq(x, (n + 1) - n, (n + q) - n)
    BY <1>1, <1>3, <1>4, <2>3, SubSeqOfConcat2
  <2>5. (n + 1) - n = 1 /\ (n + q) - n = q
    OBVIOUS
  <2>6. SubSeq(x, 1, q) = x
    BY <1>4, SubSeqFull
  <2> QED
    BY <2>2, <2>4, <2>5, <2>6
<1>8. LengthAt(u, n) = l
  BY <1>1, <1>4, <1>7 DEF LengthAt
<1>9. NextOffset(u, n) = n + q + l
  BY <1>1, <1>8 DEF NextOffset
<1>10. NalAt(u, n) = nal
  <2>1. /\ n + q + 1 \in Len(c) + 1 .. Len(c) + Len(nal)
        /\ n + q + l \in Len(c) + 1 .. Len(c) + Len(nal)
    BY <1>2, <1>5
  <2>2. SubSeq(u, n + q + 1, n + q + l) = SubSeq(nal, (n + q + 1) - (n + q), (n + q + l) - (n + q))
    <3>1. PICK a, b : a = n + q + 1 /\ b = n + q + l
      OBVIOUS
    <3>2. SubSeq(c \o nal, a, b) = SubSeq(nal, a - Len(c), b - Len(c))
      BY <1>5, <2>1, <3>1, SubSeqOfConcat2
    <3> QED
      BY <1>3, <1>5, <3>1, <3>2
  <2>3. (n + q + 1) - (n + q) = 1 /\ (n + q + l) - (n + q) = l
    OBVIOUS
  <2>4. SubSeq(nal, 1, l) = nal
    BY <1>2, <1>4, SubSeqFull
  <2>5. SubSeq(u, n + q + 1, n + q + l) = nal
    BY <2>2, <2>3, <2>4
  <2> QED
    BY <1>1, <1>9, <2>5 DEF NalAt
<1>11. ~Ends(u, n)
  BY <1>1, <1>2, <1>6, <1>8, <1>9 DEF Ends
<1>12. UnitThere(u, n, nal)
  BY <1>6, <1>9, <1>10, <1>11 DEF UnitThere
<1> QED
  BY <1>1, <1>3, <1>12

LEMMA ReadsUnit ==
  ASSUME NEW d \in Seq(Nat), NEW s \in Seq(Seq(Nat)), NEW p, Reads(d, s, p), p[Len(s)] = Len(d),
         NEW nal \in Units, NEW u, u = (d \o Prefix(nal)) \o nal
  PROVE  \E q : Reads(u, Append(s, nal), q) /\ q[Len(Append(s, nal))] = Len(u)
<1>1. PICK n \in Nat, k \in Nat : n = Len(d) /\ k = Len(s)
  BY LenProperties
<1>2. PICK x, e : x = Prefix(nal) /\ e = x \o nal
  OBVIOUS
<1>3. nal \in Seq(Nat) /\ x \in Seq(Nat)
  <2>1. nal \in Seq(Nat)
    BY UnitType
  <2> QED
    BY <1>2, <2>1, PrefixReads
<1>4. e \in Seq(Nat) /\ u = d \o e /\ u \in Seq(Nat)
  <2>1. e \in Seq(Nat)
    BY <1>2, <1>3, ConcatProperties
  <2>2. (d \o x) \o nal = d \o (x \o nal)
    BY <1>3, ConcatNumbers
  <2>3. u = d \o e
    BY <1>2, <2>2
  <2> QED
    BY <2>1, <2>3, ConcatProperties
<1>5. PICK m \in Nat : m = Len(u)
  BY <1>4, LenProperties
<1>6. Reads(u, s, p)
  BY <1>4, ReadsStay
<1>7. ~Ends(u, n) /\ NextOffset(u, n) = m /\ NalAt(u, n) = nal
  <2>1. UnitThere((d \o x) \o nal, n, nal)
    BY <1>1, <1>2, <1>3, UnitType, PrefixReads, UnitIsThere
  <2> QED
    BY <1>2, <1>5, <2>1 DEF UnitThere
<1>8. PICK t : t = Append(s, nal)
  OBVIOUS
<1>9. Len(t) = k + 1 /\ t[k + 1] = nal /\ (\A i \in 1 .. k : t[i] = s[i])
  BY <1>1, <1>3, <1>8, AppendProperties
<1>10. p \in [0 .. k -> 0 .. m] /\ p[0] = 0 /\ p[k] = n
  BY <1>1, <1>5, <1>6 DEF Reads
<1> DEFINE q == [i \in 0 .. k + 1 |-> IF i = k + 1 THEN m ELSE p[i]]
<1>11. q[k + 1] = m /\ (\A i \in 0 .. k : q[i] = p[i])
  OBVIOUS
<1>12. q \in [0 .. k + 1 -> 0 .. m]
  <2>1. ASSUME NEW i \in 0 .. k + 1 PROVE q[i] \in 0 .. m
    <3>1. CASE i = k + 1
      BY <1>11, <3>1
    <3>2. CASE i \in 0 .. k
      BY <1>10, <1>11, <3>2
    <3> QED
      BY <3>1, <3>2
  <2> QED
    BY <2>1
<1> HIDE DEF q
<1>13. ASSUME NEW i \in 1 .. k + 1
       PROVE  /\ ~Ends(u, q[i - 1])
              /\ q[i] = NextOffset(u, q[i - 1])
              /\ t[i] = NalAt(u, q[i - 1])
  <2>1. CASE i = k + 1
    <3>1. i - 1 = k /\ k \in 0 .. k
      BY <2>1
    <3>2. q[i - 1] = n /\ q[i] = m
      BY <1>10, <1>11, <2>1, <3>1
    <3> QED
      BY <1>7, <1>9, <2>1, <3>2
  <2>2. CASE i \in 1 .. k
    <3>1. i - 1 \in 0 .. k /\ i \in 0 .. k
      BY <2>2
    <3>2. q[i - 1] = p[i - 1] /\ q[i] = p[i] /\ t[i] = s[i]
      BY <1>9, <1>11, <2>2, <3>1
    <3>3. /\ ~Ends(u, p[i - 1])
          /\ p[i] = NextOffset(u, p[i - 1])
          /\ s[i] = NalAt(u, p[i - 1])
      BY <1>1, <1>6, <2>2 DEF Reads
    <3> QED
      BY <3>2, <3>3
  <2> QED
    BY <2>1, <2>2
<1>14. q[0] = 0
  BY <1>10, <1>11
<1>15. Reads(u, t, q)
  BY <1>5, <1>9, <1>12, <1>13, <1>14 DEF Reads
<1> QED
  BY <1>5, <1>8, <1>9, <1>11, <1>15

-----------------------------------------------------------------------------
(* The invariant: the units stand at the front of the data, and end with    *)
(* them as long as there are no single bytes.                               *)

InFront(d, s, alone) == \E p : Reads(d, s, p) /\ (alone => p[Len(s)] = Len(d))

Inv ==
  /\ data \in Seq(Nat)
  /\ units \in Seq(Seq(Nat))
  /\ junk \in BOOLEAN
  /\ InFront(data, units, ~junk)

LEMMA InitInv == Init => Inv
<1> SUFFICES ASSUME Init PROVE Inv
  OBVIOUS
<1>1. data = <<>> /\ units = <<>> /\ junk = FALSE
  BY DEF Init
<1>2. <<>> \in Seq(Nat) /\ <<>> \in Seq(Seq(Nat)) /\ Len(<<>>) = 0
  OBVIOUS
<1> DEFINE p == [i \in 0 .. 0 |-> 0]
<1>3. p \in [0 .. 0 -> 0 .. 0] /\ p[0] = 0
  OBVIOUS
<1> HIDE DEF p
<1>4. 1 .. 0 = {}
  OBVIOUS
<1>5. Reads(<<>>, <<>>, p)
  BY <1>2, <1>3, <1>4 DEF Reads
<1>6. InFront(<<>>, <<>>, TRUE)
  BY <1>2, <1>3, <1>5 DEF InFront
<1> QED
  BY <1>1, <1>2, <1>6 DEF Inv

LEMMA InFrontStays ==
  ASSUME NEW d \in Seq(Nat), NEW e \in Seq(Nat), NEW s \in Seq(Seq(Nat)), NEW alone,
         InFront(d, s, alone)
  PROVE  InFront(d \o e, s, FALSE)
<1>1. PICK p : Reads(d, s, p)
  BY DEF InFront
<1>2. Reads(d \o e, s, p)
  BY <1>1, ReadsStay
<1> QED
  BY <1>2 DEF InFront

LEMMA NextInv == Inv /\ [Next]_vars => Inv'
<1> SUFFICES ASSUME Inv, [Next]_vars PROVE Inv'
  OBVIOUS
<1>1. data \in Seq(Nat) /\ units \in Seq(Seq(Nat)) /\ junk \in BOOLEAN
      /\ InFront(data, units, ~junk)
  BY DEF Inv
<1>2. ASSUME NEW nal \in Units, AddUnit(nal) PROVE Inv'
  <2>1. data' = (data \o Prefix(nal)) \o nal /\ junk' = junk
        /\ units' = IF junk THEN units ELSE Append(units, nal)
    BY <1>2 DEF AddUnit
  <2>2. nal \in Seq(Nat) /\ Prefix(nal) \in Seq(Nat)
    <3>1. nal \in Seq(Nat)
      BY UnitType
    <3> QED
      BY <3>1, PrefixReads
  <2>3. data' \in Seq(Nat)
    BY <1>1, <2>1, <2>2, ConcatProperties
  <2>4. CASE junk
    <3>1. PICK x, d : x = Prefix(nal) /\ d = data
      OBVIOUS
    <3>2. x \o nal \in Seq(Nat)
      BY <2>2, <3>1, ConcatProperties
    <3>3. (d \o x) \o nal = d \o (x \o nal)
      <4>1. d \in Seq(Nat) /\ x \in Seq(Nat) /\ nal \in Seq(Nat)
        BY <1>1, <2>2, <3>1
      <4> QED
        BY <4>1, ConcatNumbers
    <3>4. InFront(data', units, FALSE)
      BY <1>1, <2>1, <3>1, <3>2, <3>3, InFrontStays
    <3>5. units' = units /\ (~junk') = FALSE
      BY <2>1, <2>4
    <3> QED
      BY <1>1, <2>1, <2>3, <3>4, <3>5 DEF Inv
  <2>5. CASE ~junk
    <3>1. PICK p : Reads(data, units, p) /\ p[Len(units)] = Len(data)
      BY <1>1, <2>5 DEF InFront
    <3>2. PICK u, t : u = data' /\ t = Append(units, nal)
      OBVIOUS
    <3>3. \E q : Reads(u, t, q) /\ q[Len(t)] = Len(u)
      BY <1>1, <2>1, <3>1, <3>2, ReadsUnit
    <3>4. InFront(u, t, TRUE)
      BY <3>3 DEF InFront
    <3>5. units' = t /\ t \in Seq(Seq(Nat)) /\ (~junk') = TRUE
      BY <1>1, <2>1, <2>2, <2>5, <3>2, AppendProperties
    <3> QED
      BY <1>1, <2>1, <2>3, <3>2, <3>4, <3>5 DEF Inv
  <2> QED
    BY <1>1, <2>4, <2>5
<1>3. ASSUME NEW byte \in Bytes, AddByte(byte) PROVE Inv'
  <2>1. data' = Append(data, byte) /\ junk' = TRUE /\ units' = units
    BY <1>3 DEF AddByte
  <2>2. byte \in Nat
    BY BytesAssumption
  <2>3. <<byte>> \in Seq(Nat)
    BY <2>2
  <2>4. data' = data \o <<byte>>
    BY <1>1, <2>1, <2>2, AppendIsConcat
  <2>5. data' \in Seq(Nat)
    BY <1>1, <2>3, <2>4, ConcatProperties
  <2>6. InFront(data', units, FALSE)
    BY <1>1, <2>3, <2>4, InFrontStays
  <2> QED
    BY <1>1, <2>1, <2>5, <2>6 DEF Inv
<1>4. CASE UNCHANGED vars
  <2>1. data' = data /\ units' = units /\ junk' = junk
    BY <1>4 DEF vars
  <2> QED
    BY <1>1, <2>1 DEF Inv
<1> QED
  BY <1>2, <1>3, <1>4 DEF Next

LEMMA PrefixOfConcat ==
  ASSUME NEW S, NEW s \in Seq(S), NEW t \in Seq(S)
  PROVE  IsPrefix(s, s \o t)
<1>1. PICK k \in Nat, m \in Nat : k = Len(s) /\ m = Len(t)
  BY LenProperties
<1>2. Len(s \o t) = k + m
  BY <1>1, ConcatProperties
<1>3. SubSeq(s \o t, 1, k) = SubSeq(s, 1, k)
  <2>1. CASE k = 0
    BY <2>1, SubSeqEmpty
  <2>2. CASE k > 0
    <3>1. 1 \in 1 .. Len(s) /\ k \in 1 .. Len(s)
      BY <1>1, <2>2
    <3> QED
      BY <3>1, SubSeqOfConcat1
  <2>3. k = 0 \/ k > 0
    BY <1>1
  <2> QED
    BY <2>1, <2>2, <2>3
<1> QED
  BY <1>1, <1>2, <1>3 DEF IsPrefix

LEMMA InvAgree == Inv => ParsersAgree
<1> SUFFICES ASSUME Inv PROVE ParsersAgree
  OBVIOUS
<1>1. data \in Seq(Nat) /\ units \in Seq(Seq(Nat)) /\ junk \in BOOLEAN
  BY DEF Inv
<1>2. PICK p : Reads(data, units, p) /\ (~junk => p[Len(units)] = Len(data))
  BY DEF Inv, InFront
<1>3. PICK f : NalWalk(data, 0, f) /\ avcNals(data) = f[0]
  BY <1>1, NalsAre
<1>4. PICK n \in Nat, k \in Nat : n = Len(data) /\ k = Len(units)
  BY <1>1, LenProperties
<1>5. f[0] = units \o f[p[k]]
  BY <1>1, <1>2, <1>3, <1>4, ReadsFirst
<1>6. p[k] \in 0 .. n
  <2>1. k \in 0 .. k
    OBVIOUS
  <2> QED
    BY <1>2, <1>4, <2>1 DEF Reads
<1>7. f[p[k]] \in Seq(Seq(Nat))
  BY <1>3, <1>4, <1>6 DEF NalWalk
<1>8. IsPrefix(units, f[0])
  BY <1>1, <1>5, <1>7, PrefixOfConcat
<1>9. ASSUME ~junk PROVE f[0] = units
  <2>1. Ends(data, n) /\ p[k] = n
    BY <1>1, <1>2, <1>4, <1>9, EndsAtEnd
  <2>2. f[n] = <<>>
    BY <1>3, <1>4, <1>6, <2>1 DEF NalWalk
  <2> QED
    BY <1>1, <1>5, <2>1, <2>2, ConcatEmptySeq
<1>10. contains_idr(data) <=> \E nal \in ToSet(avcNals(data)) : Type(nal) = Idr
  BY <1>1, WalksAgree DEF HasIdr
<1> QED
  BY <1>1, <1>3, <1>8, <1>9, <1>10 DEF ParsersAgree

\* For any units and any single bytes between and after them, the gateway's walk
\* (contains_idr) finds an IDR unit exactly where the page's (avcNals) does, and
\* the page's finds every unit in front of the first malformed one.
THEOREM ParsersAlwaysAgree == Spec => []ParsersAgree
<1>1. Init => Inv
  BY InitInv
<1>2. Inv /\ [Next]_vars => Inv'
  BY NextInv
<1>3. Inv => ParsersAgree
  BY InvAgree
<1> QED
  BY <1>1, <1>2, <1>3, PTL DEF Spec

-----------------------------------------------------------------------------
(* Where the pieces of a message stand. *)

\* x stands in s behind the first o elements.
At(s, o, x) ==
  /\ o + Len(x) <= Len(s)
  /\ \A i \in 1 .. Len(x) : s[o + i] = x[i]

\* t begins with s.
BeginsWith(s, t) ==
  /\ Len(s) <= Len(t)
  /\ \A i \in 1 .. Len(s) : t[i] = s[i]

\* The last piece of the front of a message, and what is in front of it
LEMMA LastPiece ==
  ASSUME NEW S, NEW s \in Seq(S), NEW x \in Seq(S), NEW o, o = Len(s), NEW t \in Seq(S),
         BeginsWith(s \o x, t)
  PROVE  BeginsWith(s, t) /\ At(t, o, x)
<1>1. PICK m \in Nat, l \in Nat : m = Len(x) /\ l = Len(t)
  BY LenProperties
<1>2. o \in Nat
  BY LenProperties
<1>3. PICK u : u = s \o x
  OBVIOUS
<1>4. Len(u) = o + m /\ \A i \in 1 .. o + m : u[i] = IF i <= o THEN s[i] ELSE x[i - o]
  BY <1>1, <1>3, ConcatProperties
<1>5. o + m <= l /\ \A i \in 1 .. o + m : t[i] = u[i]
  BY <1>1, <1>3, <1>4 DEF BeginsWith
<1>6. ASSUME NEW i \in 1 .. o PROVE t[i] = s[i]
  <2>1. i \in 1 .. o + m /\ i <= o
    BY <1>2
  <2> QED
    BY <1>4, <1>5, <2>1
<1>7. ASSUME NEW i \in 1 .. m PROVE t[o + i] = x[i]
  <2>1. o + i \in 1 .. o + m /\ ~(o + i <= o) /\ (o + i) - o = i
    BY <1>2
  <2>2. u[o + i] = x[(o + i) - o]
    BY <1>4, <2>1
  <2> QED
    BY <1>5, <2>1, <2>2
<1>8. BeginsWith(s, t)
  BY <1>1, <1>2, <1>5, <1>6 DEF BeginsWith
<1>9. At(t, o, x)
  BY <1>1, <1>5, <1>7 DEF At
<1> QED
  BY <1>8, <1>9

LEMMA AtReads ==
  ASSUME NEW S, NEW s \in Seq(S), NEW x \in Seq(S), NEW o \in Nat, At(s, o, x)
  PROVE  SubSeq(s, o + 1, o + Len(x)) = x
<1>1. PICK m \in Nat, l \in Nat : m = Len(x) /\ l = Len(s)
  BY LenProperties
<1>2. o + m <= l /\ \A i \in 1 .. m : s[o + i] = x[i]
  BY <1>1 DEF At
<1>3. ASSUME NEW i \in o + 1 .. o + m PROVE s[i] \in S
  <2>1. i \in 1 .. l
    BY <1>2
  <2> QED
    BY <1>1, <2>1, ElementOfSeq
<1>4. PICK y : y = SubSeq(s, o + 1, o + m)
  OBVIOUS
<1>5. /\ y \in Seq(S)
      /\ Len(y) = m
      /\ \A i \in 1 .. m : y[i] = s[o + i]
  <2>1. o + 1 \in Int /\ o + m \in Int /\ (o + m) - (o + 1) + 1 = m
    OBVIOUS
  <2>2. /\ y \in Seq(S)
        /\ Len(y) = IF o + 1 <= o + m THEN (o + m) - (o + 1) + 1 ELSE 0
        /\ \A i \in 1 .. (o + m) - (o + 1) + 1 : y[i] = s[(o + 1) + i - 1]
    BY <1>3, <1>4, <2>1, SubSeqProperties
  <2>3. Len(y) = m
    BY <2>2
  <2>4. \A i \in 1 .. m : (o + 1) + i - 1 = o + i
    OBVIOUS
  <2> QED
    BY <2>1, <2>2, <2>3, <2>4
<1>6. y = x
  BY <1>1, <1>2, <1>5, SeqEqual
<1> QED
  BY <1>1, <1>4, <1>6

\* A piece that lies in the part that is kept stays where it is.
LEMMA AtCut ==
  ASSUME NEW S, NEW s \in Seq(S), NEW n \in 0 .. Len(s), NEW x \in Seq(S), NEW o \in Nat,
         At(s, o, x), o + Len(x) <= n
  PROVE  /\ SubSeq(s, 1, n) \in Seq(S)
         /\ Len(SubSeq(s, 1, n)) = n
         /\ At(SubSeq(s, 1, n), o, x)
<1>1. PICK m \in Nat, l \in Nat : m = Len(x) /\ l = Len(s)
  BY LenProperties
<1>2. n \in Nat /\ n <= l
  BY <1>1
<1>3. PICK y : y = SubSeq(s, 1, n)
  OBVIOUS
<1>4. ASSUME NEW i \in 1 .. n PROVE s[i] \in S
  BY <1>1, <1>2, ElementOfSeq
<1>5. /\ y \in Seq(S)
      /\ Len(y) = IF 1 <= n THEN n - 1 + 1 ELSE 0
      /\ \A i \in 1 .. n - 1 + 1 : y[i] = s[1 + i - 1]
  <2>1. 1 \in Int /\ n \in Int
    BY <1>2
  <2> QED
    BY <1>3, <1>4, <2>1, SubSeqProperties
<1>6. Len(y) = n /\ \A i \in 1 .. n : y[i] = s[i]
  BY <1>2, <1>5
<1>7. ASSUME NEW i \in 1 .. m PROVE y[o + i] = x[i]
  <2>1. o + i \in 1 .. n
    BY <1>1, <1>2
  <2> QED
    BY <1>1, <1>6, <2>1 DEF At
<1>8. At(y, o, x)
  BY <1>1, <1>6, <1>7 DEF At
<1> QED
  BY <1>3, <1>5, <1>6, <1>8

LEMMA AtStays ==
  ASSUME NEW S, NEW s \in Seq(S), NEW e \in S, NEW x \in Seq(S), NEW o \in Nat, At(s, o, x)
  PROVE  At(Append(s, e), o, x)
<1>1. PICK m \in Nat, l \in Nat : m = Len(x) /\ l = Len(s)
  BY LenProperties
<1>2. PICK y : y = Append(s, e)
  OBVIOUS
<1>3. Len(y) = l + 1 /\ \A i \in 1 .. l : y[i] = s[i]
  BY <1>1, <1>2, AppendProperties
<1>4. ASSUME NEW i \in 1 .. m PROVE y[o + i] = x[i]
  <2>1. o + i \in 1 .. l
    BY <1>1 DEF At
  <2> QED
    BY <1>1, <1>3, <2>1 DEF At
<1>5. At(y, o, x)
  BY <1>1, <1>3, <1>4 DEF At
<1> QED
  BY <1>2, <1>5

\* A sequence of a known length
Sized(s, n) == s \in Seq(Nat) /\ Len(s) = n

LEMMA SizedConcat ==
  ASSUME NEW m, NEW s, Sized(s, m), NEW n, NEW x, Sized(x, n)
  PROVE  Sized(s \o x, m + n)
<1>1. s \in Seq(Nat) /\ x \in Seq(Nat) /\ Len(s) = m /\ Len(x) = n
  BY DEF Sized
<1>2. s \o x \in Seq(Nat) /\ Len(s \o x) = Len(s) + Len(x)
  BY <1>1, ConcatProperties
<1> QED
  BY <1>1, <1>2 DEF Sized

LEMMA SizedAt ==
  ASSUME NEW s \in Seq(Nat), NEW o \in Nat, NEW n, NEW x, Sized(x, n), At(s, o, x)
  PROVE  SubSeq(s, o + 1, o + n) = x
<1>1. x \in Seq(Nat) /\ Len(x) = n
  BY DEF Sized
<1> QED
  BY <1>1, AtReads

\* The pieces of the front of a message, one after the other
LEMMA SizedPiece ==
  ASSUME NEW t \in Seq(Nat), NEW o, NEW s, Sized(s, o), NEW n, NEW x, Sized(x, n),
         BeginsWith(s \o x, t)
  PROVE  BeginsWith(s, t) /\ At(t, o, x)
<1>1. s \in Seq(Nat) /\ x \in Seq(Nat) /\ Len(s) = o
  BY DEF Sized
<1> QED
  BY <1>1, LastPiece

-----------------------------------------------------------------------------
(* The newest parameter set of a type. *)

\* last holds the newest set of the type among the first units.
LastSets(type, nals, last) ==
  /\ last \in [0 .. Len(nals) -> Seq(Nat)]
  /\ last[0] = Absent
  /\ \A i \in 1 .. Len(nals) :
       last[i] = IF Type(nals[i]) = type THEN nals[i] ELSE last[i - 1]

LEMMA LastOfIs ==
  ASSUME NEW type, NEW nals \in Seq(Seq(Nat))
  PROVE  \E last : LastSets(type, nals, last) /\ LastOf(type, nals) = last[Len(nals)]
<1> DEFINE body(f) == [n \in 0 .. Len(nals) |->
                         IF n = 0 THEN Absent
                         ELSE IF Type(nals[n]) = type THEN nals[n] ELSE f[n - 1]]
           last == CHOOSE f : f = body(f)
<1>1. PICK m \in Nat : m = Len(nals)
  BY LenProperties
<1>2. PICK h : h = [x \in (1 .. m) \X Seq(Nat) |->
                      IF Type(nals[x[1]]) = type THEN nals[x[1]] ELSE x[2]]
  OBVIOUS
<1>3. ASSUME NEW i \in 1 .. m, NEW v \in Seq(Nat)
      PROVE  /\ h[<<i, v>>] = IF Type(nals[i]) = type THEN nals[i] ELSE v
             /\ h[<<i, v>>] \in Seq(Nat)
  <2>1. nals[i] \in Seq(Nat)
    BY <1>1, ElementOfSeq
  <2>2. h[<<i, v>>] = IF Type(nals[i]) = type THEN nals[i] ELSE v
    BY <1>2
  <2> QED
    BY <2>1, <2>2
<1>4. h \in [(1 .. m) \X Seq(Nat) -> Seq(Nat)]
  <2>1. ASSUME NEW x \in (1 .. m) \X Seq(Nat) PROVE h[x] \in Seq(Nat)
    <3>1. PICK i \in 1 .. m, v \in Seq(Nat) : x = <<i, v>>
      OBVIOUS
    <3> QED
      BY <1>3, <3>1
  <2> QED
    BY <1>2, <2>1
<1>5. Absent \in Seq(Nat)
  BY EmptySeq DEF Absent
<1>6. PICK g : Recursion(m, Seq(Nat), Absent, h, g)
  BY <1>4, <1>5, RecursionExists
<1>7. g = body(g)
  <2>1. g = [n \in 0 .. m |-> g[n]] /\ g[0] = Absent
    BY <1>6 DEF Recursion
  <2>2. ASSUME NEW n \in 0 .. m, n # 0
        PROVE  g[n] = IF Type(nals[n]) = type THEN nals[n] ELSE g[n - 1]
    <3>1. n \in 1 .. m /\ n - 1 \in 0 .. m
      BY <2>2
    <3>2. g[n - 1] \in Seq(Nat) /\ g[n] = h[<<n, g[n - 1]>>]
      BY <1>6, <3>1 DEF Recursion
    <3> QED
      BY <1>3, <3>1, <3>2
  <2> QED
    BY <1>1, <2>1, <2>2
<1>8. last = body(last)
  <2> HIDE DEF body
  <2> QED
    BY <1>7
<1>9. LastOf(type, nals) = last[Len(nals)]
  BY DEF LastOf
<1>10. PICK v : v = last
  OBVIOUS
<1> HIDE DEF last
<1>11. v = [n \in 0 .. m |-> IF n = 0 THEN Absent
                             ELSE IF Type(nals[n]) = type THEN nals[n] ELSE v[n - 1]]
  BY <1>1, <1>8, <1>10
<1>12. /\ DOMAIN v = 0 .. m /\ v = [i \in DOMAIN v |-> v[i]]
       /\ v[0] = Absent
       /\ \A i \in 1 .. m : v[i] = IF Type(nals[i]) = type THEN nals[i] ELSE v[i - 1]
  <2>1. \A n \in 0 .. m : v[n] = IF n = 0 THEN Absent
                                 ELSE IF Type(nals[n]) = type THEN nals[n] ELSE v[n - 1]
    BY <1>11, Zenon
  <2>2. DOMAIN v = 0 .. m /\ v = [i \in DOMAIN v |-> v[i]]
    BY <1>11
  <2>3. 0 \in 0 .. m /\ 1 .. m \subseteq 0 .. m /\ 0 \notin 1 .. m
    OBVIOUS
  <2> HIDE DEF body
  <2>4. v[0] = Absent
    BY <2>1, <2>3
  <2>5. \A i \in 1 .. m : v[i] = IF Type(nals[i]) = type THEN nals[i] ELSE v[i - 1]
    BY <2>1, <2>3, Zenon
  <2> QED
    BY <2>2, <2>4, <2>5
<1> HIDE DEF body
<1>13. ASSUME NEW i \in 1 .. m, v[i - 1] \in Seq(Nat) PROVE v[i] = h[<<i, v[i - 1]>>]
  <2>1. v[i] = IF Type(nals[i]) = type THEN nals[i] ELSE v[i - 1]
    BY <1>12
  <2> QED
    BY <1>3, <1>13, <2>1
<1>14. Recursion(m, Seq(Nat), Absent, h, v)
  BY <1>4, <1>5, <1>12, <1>13, RecursionType
<1>15. v \in [0 .. m -> Seq(Nat)]
  BY <1>14 DEF Recursion
<1>16. LastSets(type, nals, v)
  BY <1>1, <1>12, <1>15 DEF LastSets
<1> QED
  BY <1>9, <1>10, <1>16

\* x is the newest unit of the type among the first k.
Newest(type, nals, k, x) ==
  \E i \in 1 .. k :
    /\ nals[i] = x
    /\ Type(x) = type
    /\ \A j \in i + 1 .. k : Type(nals[j]) # type

LEMMA LastOfNewest ==
  ASSUME NEW type, NEW nals \in Seq(Seq(Nat)), NEW x, x = LastOf(type, nals)
  PROVE  x \in Seq(Nat) /\ (x # Absent => Newest(type, nals, Len(nals), x))
<1>1. PICK m \in Nat : m = Len(nals)
  BY LenProperties
<1>2. PICK last : LastSets(type, nals, last) /\ LastOf(type, nals) = last[m]
  BY <1>1, LastOfIs
<1> DEFINE S == {k \in 0 .. m : last[k] = Absent \/ Newest(type, nals, k, last[k])}
<1>3. 0 \in S
  BY <1>2 DEF LastSets
<1>4. ASSUME NEW k \in 0 .. m - 1, k \in S PROVE k + 1 \in S
  <2>1. k + 1 \in 1 .. m /\ (k + 1) - 1 = k
    OBVIOUS
  <2>2. last[k + 1] = IF Type(nals[k + 1]) = type THEN nals[k + 1] ELSE last[k]
    BY <1>1, <1>2, <2>1 DEF LastSets
  <2>3. CASE Type(nals[k + 1]) = type
    <3>1. k + 1 \in 1 .. k + 1 /\ (k + 1) + 1 .. k + 1 = {}
      BY <2>1
    <3>2. Newest(type, nals, k + 1, last[k + 1])
      BY <2>2, <2>3, <3>1 DEF Newest
    <3> QED
      BY <2>1, <3>2
  <2>4. CASE Type(nals[k + 1]) # type
    <3>1. last[k + 1] = last[k]
      BY <2>2, <2>4
    <3>2. ASSUME Newest(type, nals, k, last[k]) PROVE Newest(type, nals, k + 1, last[k])
      <4>1. PICK i \in 1 .. k : /\ nals[i] = last[k] /\ Type(last[k]) = type
                                /\ \A j \in i + 1 .. k : Type(nals[j]) # type
        BY <3>2 DEF Newest
      <4>2. i \in 1 .. k + 1 /\ \A j \in i + 1 .. k + 1 : j = k + 1 \/ j \in i + 1 .. k
        OBVIOUS
      <4> QED
        BY <2>4, <4>1, <4>2 DEF Newest
    <3>3. last[k] = Absent \/ Newest(type, nals, k, last[k])
      BY <1>4
    <3> QED
      BY <2>1, <3>1, <3>2, <3>3
  <2> QED
    BY <2>3, <2>4
<1>5. 0 .. m \subseteq S
  <2> HIDE DEF S
  <2> QED
    BY <1>3, <1>4, Upwards
<1>6. m \in S /\ m \in 0 .. m
  <2>1. m \in 0 .. m
    OBVIOUS
  <2> QED
    BY <1>5, <2>1
<1>7. last[m] \in Seq(Nat)
  BY <1>1, <1>2, <1>6 DEF LastSets
<1> QED
  BY <1>1, <1>2, <1>6, <1>7

-----------------------------------------------------------------------------
(* What a decoder reads from the description. *)

\* The fields of the record of an SPS and a PPS are where a decoder looks for them.
DescriptionLayout(sps, pps, record) ==
  /\ record \in Seq(Nat)
  /\ Len(record) = 11 + Len(sps) + Len(pps)
  /\ At(record, 0, <<1, sps[2], sps[3], sps[4], 255, 225>>)
  /\ At(record, 6, ToBytes(2, Len(sps)))
  /\ At(record, 8, sps)
  /\ At(record, 8 + Len(sps), <<1>>)
  /\ At(record, 9 + Len(sps), ToBytes(2, Len(pps)))
  /\ At(record, 11 + Len(sps), pps)

LEMMA DescriptionStands ==
  ASSUME NEW sps \in Seq(Nat), NEW pps \in Seq(Nat), Len(sps) >= 4
  PROVE  DescriptionLayout(sps, pps, makeAvcConfiguration(sps, pps))
<1>1. PICK l \in Nat, m \in Nat : l = Len(sps) /\ m = Len(pps) /\ l >= 4
  BY LenProperties
<1>2. sps[2] \in Nat /\ sps[3] \in Nat /\ sps[4] \in Nat
  <2>1. 2 \in 1 .. l /\ 3 \in 1 .. l /\ 4 \in 1 .. l
    BY <1>1
  <2> QED
    BY <1>1, <2>1, ElementOfSeq
<1>3. PICK a, b, c, d : /\ a = <<1, sps[2], sps[3], sps[4], 255, 225>> /\ b = ToBytes(2, l)
                        /\ c = <<1>> /\ d = ToBytes(2, m)
  OBVIOUS
<1>4. Sized(a, 6) /\ Sized(c, 1) /\ Sized(sps, l) /\ Sized(pps, m)
  BY <1>1, <1>2, <1>3 DEF Sized
<1>5. Sized(b, 2) /\ Sized(d, 2)
  BY <1>1, <1>3, ToBytesType DEF Sized
<1>6. PICK s2 : s2 = a \o b
  OBVIOUS
<1>7. Sized(s2, 8)
  BY <1>4, <1>5, <1>6, SizedConcat, 6 + 2 = 8
<1>8. PICK s3 : s3 = s2 \o sps
  OBVIOUS
<1>9. Sized(s3, 8 + l)
  BY <1>4, <1>7, <1>8, SizedConcat
<1>10. PICK s4 : s4 = s3 \o c
  OBVIOUS
<1>11. Sized(s4, 9 + l)
  BY <1>4, <1>9, <1>10, SizedConcat, (8 + l) + 1 = 9 + l
<1>12. PICK s5 : s5 = s4 \o d
  OBVIOUS
<1>13. Sized(s5, 11 + l)
  BY <1>5, <1>11, <1>12, SizedConcat, (9 + l) + 2 = 11 + l
<1>14. PICK r : r = s5 \o pps
  OBVIOUS
<1>15. Sized(r, 11 + l + m) /\ r \in Seq(Nat)
  <2>1. Sized(r, 11 + l + m)
    BY <1>4, <1>13, <1>14, SizedConcat
  <2> QED
    BY <2>1 DEF Sized
<1>16. r = makeAvcConfiguration(sps, pps)
  BY <1>1, <1>3, <1>6, <1>8, <1>10, <1>12, <1>14 DEF makeAvcConfiguration
<1>17. BeginsWith(r, r)
  BY <1>15 DEF BeginsWith, Sized
<1>18. BeginsWith(s5, r) /\ At(r, 11 + l, pps)
  BY <1>4, <1>13, <1>14, <1>15, <1>17, SizedPiece
<1>19. BeginsWith(s4, r) /\ At(r, 9 + l, d)
  BY <1>5, <1>11, <1>12, <1>15, <1>18, SizedPiece
<1>20. BeginsWith(s3, r) /\ At(r, 8 + l, c)
  BY <1>4, <1>9, <1>10, <1>15, <1>19, SizedPiece
<1>21. BeginsWith(s2, r) /\ At(r, 8, sps)
  BY <1>4, <1>7, <1>8, <1>15, <1>20, SizedPiece
<1>22. BeginsWith(a, r) /\ At(r, 6, b)
  BY <1>4, <1>5, <1>6, <1>15, <1>21, SizedPiece
<1>23. At(r, 0, a)
  BY <1>4, <1>22 DEF BeginsWith, At, Sized
<1>24. DescriptionLayout(sps, pps, r)
  BY <1>1, <1>3, <1>15, <1>18, <1>19, <1>20, <1>21, <1>22, <1>23
     DEF DescriptionLayout, Sized
<1> QED
  BY <1>16, <1>24

LEMMA DescriptionRead ==
  ASSUME NEW sps \in Seq(Nat), NEW pps \in Seq(Nat), Len(sps) >= 4,
         Len(sps) \in Unsigned(2), Len(pps) \in Unsigned(2),
         NEW record, DescriptionLayout(sps, pps, record)
  PROVE  ReadSets(record) =
           [version |-> 1, profile |-> SubSeq(sps, 2, 4), prefixLength |-> 4,
            counts |-> <<1, 1>>, sps |-> sps, pps |-> pps, length |-> Len(record)]
<1>1. PICK l \in Nat, m \in Nat : l = Len(sps) /\ m = Len(pps) /\ l >= 4
  BY LenProperties
<1>2. PICK a, b, c, d : /\ a = <<1, sps[2], sps[3], sps[4], 255, 225>> /\ b = ToBytes(2, l)
                        /\ c = <<1>> /\ d = ToBytes(2, m)
  OBVIOUS
<1>3. /\ record \in Seq(Nat) /\ Len(record) = 11 + l + m
      /\ At(record, 0, a) /\ At(record, 6, b) /\ At(record, 8, sps)
      /\ At(record, 8 + l, c) /\ At(record, 9 + l, d) /\ At(record, 11 + l, pps)
  BY <1>1, <1>2 DEF DescriptionLayout
<1>4. Sized(b, 2) /\ Sized(d, 2) /\ Sized(sps, l) /\ Sized(pps, m)
  BY <1>1, <1>2, ToBytesType DEF Sized
<1>5. BigEndian(b) = l /\ BigEndian(d) = m
  BY <1>1, <1>2, ReadWrite
<1>6. /\ record[1] = 1 /\ record[2] = sps[2] /\ record[3] = sps[3] /\ record[4] = sps[4]
      /\ record[5] = 255 /\ record[6] = 225
  <2>1. Len(a) = 6
    BY <1>2
  <2>2. \A i \in 1 .. 6 : record[0 + i] = a[i]
    BY <1>3, <2>1 DEF At
  <2>3. \A i \in 1 .. 6 : record[i] = a[i]
    BY <2>2
  <2> QED
    BY <1>2, <2>3
<1>7. SubSeq(record, 7, 8) = b
  BY <1>3, <1>4, SizedAt, 6 + 1 = 7, 6 + 2 = 8
<1>8. SubSeq(record, 9, 8 + l) = sps
  BY <1>3, <1>4, SizedAt, 8 + 1 = 9
<1>9. record[9 + l] = 1
  <2>1. Len(c) = 1 /\ c[1] = 1
    BY <1>2
  <2>2. record[(8 + l) + 1] = c[1]
    BY <1>3, <2>1 DEF At
  <2>3. (8 + l) + 1 = 9 + l
    OBVIOUS
  <2> QED
    BY <2>1, <2>2, <2>3
<1>10. SubSeq(record, (9 + l) + 1, (9 + l) + 2) = d
  <2>1. 9 + l \in Nat
    OBVIOUS
  <2> QED
    BY <1>3, <1>4, <2>1, SizedAt
<1>11. SubSeq(record, (9 + l) + 3, (9 + l) + 2 + m) = pps
  <2>1. PICK o \in Nat : o = 11 + l
    OBVIOUS
  <2>2. SubSeq(record, o + 1, o + m) = pps
    BY <1>3, <1>4, <2>1, SizedAt
  <2>3. o + 1 = (9 + l) + 3 /\ o + m = (9 + l) + 2 + m
    BY <2>1
  <2> QED
    BY <2>2, <2>3
<1>12. SubSeq(record, 2, 4) = SubSeq(sps, 2, 4)
  <2>1. sps[2] \in Nat /\ sps[3] \in Nat /\ sps[4] \in Nat
    <3>1. 2 \in 1 .. l /\ 3 \in 1 .. l /\ 4 \in 1 .. l
      BY <1>1
    <3> QED
      BY <1>1, <3>1, ElementOfSeq
  <2>2. \A i \in 2 .. 4 : i = 2 \/ i = 3 \/ i = 4
    OBVIOUS
  <2>3. \A i \in 2 .. 4 : sps[i] \in Nat /\ record[i] = sps[i]
    BY <1>6, <2>1, <2>2
  <2>4. PICK x, y : x = SubSeq(record, 2, 4) /\ y = SubSeq(sps, 2, 4)
    OBVIOUS
  <2>5. y \in Seq(Nat) /\ Len(y) = 3 /\ \A i \in 1 .. 3 : y[i] = sps[2 + i - 1]
    BY <2>3, <2>4, SubSeqProperties
  <2>6. x \in Seq(Nat) /\ Len(x) = 3 /\ \A i \in 1 .. 3 : x[i] = record[2 + i - 1]
    BY <2>3, <2>4, SubSeqProperties
  <2>7. ASSUME NEW i \in 1 .. 3 PROVE x[i] = y[i]
    <3>1. 2 + i - 1 \in 2 .. 4
      OBVIOUS
    <3> QED
      BY <2>3, <2>5, <2>6, <3>1
  <2>8. x = y
    BY <2>5, <2>6, <2>7, SeqEqual
  <2> QED
    BY <2>4, <2>8
<1>13. PICK n \in Nat : n = 9 + l
  OBVIOUS
<1>14. n - 1 = 8 + l /\ n + 2 + m = 11 + l + m
  BY <1>13
<1>15. 1 + (record[5] % 4) = 4 /\ record[6] % 32 = 1
  BY <1>6
<1>16. record[n] = 1 /\ SubSeq(record, n + 1, n + 2) = d
       /\ SubSeq(record, n + 3, n + 2 + m) = pps /\ SubSeq(record, 9, n - 1) = sps
  BY <1>8, <1>9, <1>10, <1>11, <1>13, <1>14
<1>17. ReadSets(record) =
         [version |-> record[1], profile |-> SubSeq(record, 2, 4),
          prefixLength |-> 1 + (record[5] % 4), counts |-> <<record[6] % 32, record[n]>>,
          sps |-> SubSeq(record, 9, n - 1), pps |-> SubSeq(record, n + 3, n + 2 + m),
          length |-> n + 2 + m]
  BY <1>5, <1>7, <1>13, <1>16 DEF ReadSets
<1> QED
  BY <1>3, <1>6, <1>12, <1>14, <1>15, <1>16, <1>17

\* The part of DescriptionReads that is about two sets.
SetsRead(sps, pps) ==
  LET record == makeAvcConfiguration(sps, pps)
  IN  ReadSets(record) =
        [version |-> 1, profile |-> SubSeq(sps, 2, 4), prefixLength |-> 4,
         counts |-> <<1, 1>>, sps |-> sps, pps |-> pps, length |-> Len(record)]

LEMMA DescriptionRight ==
  ASSUME NEW sps \in Seq(Nat), NEW pps \in Seq(Nat), Len(sps) >= 4,
         Len(sps) \in Unsigned(2), Len(pps) \in Unsigned(2)
  PROVE  SetsRead(sps, pps)
<1>1. PICK r : r = makeAvcConfiguration(sps, pps)
  OBVIOUS
<1>2. DescriptionLayout(sps, pps, r)
  BY <1>1, DescriptionStands
<1> QED
  BY <1>1, <1>2, DescriptionRead DEF SetsRead

LEMMA NalsType ==
  ASSUME NEW d \in Seq(Nat)
  PROVE  avcNals(d) \in Seq(Seq(Nat))
<1>1. PICK f : NalWalk(d, 0, f) /\ avcNals(d) = f[0]
  BY NalsAre
<1>2. 0 \in 0 .. Len(d)
  BY LenProperties
<1> QED
  BY <1>1, <1>2 DEF NalWalk

LEMMA InvDescription == Inv => DescriptionReads
<1> SUFFICES ASSUME Inv PROVE DescriptionReads
  OBVIOUS
<1>1. data \in Seq(Nat) /\ units \in Seq(Seq(Nat)) /\ junk \in BOOLEAN
  BY DEF Inv
<1>2. PICK nals : nals = avcNals(data)
  OBVIOUS
<1>3. nals \in Seq(Seq(Nat)) /\ (~junk => nals = units)
  BY <1>1, <1>2, NalsType, InvAgree DEF ParsersAgree
<1>4. PICK sps, pps : sps = LastOf(Sps, nals) /\ pps = LastOf(Pps, nals)
  OBVIOUS
<1>5. sps \in Seq(Nat) /\ (sps # Absent => Newest(Sps, nals, Len(nals), sps))
  BY <1>3, <1>4, LastOfNewest
<1>6. pps \in Seq(Nat) /\ (pps # Absent => Newest(Pps, nals, Len(nals), pps))
  BY <1>3, <1>4, LastOfNewest
<1>7. PICK found : found = findParameterSets(data)
  OBVIOUS
<1>8. found = IF sps = Absent \/ pps = Absent THEN Absent ELSE <<sps, pps>>
  BY <1>2, <1>4, <1>7 DEF findParameterSets
<1>9. ASSUME found # Absent, HasCodecString(found[1]),
             \A k \in 1 .. 2 : Len(found[k]) \in Unsigned(2)
      PROVE  /\ SetsRead(found[1], found[2])
             /\ \A k \in 1 .. 2 : ~junk =>
                  \E i \in DOMAIN units :
                    /\ units[i] = found[k]
                    /\ \A j \in i + 1 .. Len(units) : Type(units[j]) # Type(found[k])
  <2>1. sps # Absent /\ pps # Absent /\ found[1] = sps /\ found[2] = pps
    BY <1>8, <1>9
  <2>2. Len(sps) >= 4 /\ Len(sps) \in Unsigned(2) /\ Len(pps) \in Unsigned(2)
    <3>1. 1 \in 1 .. 2 /\ 2 \in 1 .. 2
      OBVIOUS
    <3> QED
      BY <1>9, <2>1, <3>1 DEF HasCodecString
  <2>3. SetsRead(found[1], found[2])
    BY <1>5, <1>6, <2>1, <2>2, DescriptionRight
  <2>4. ASSUME NEW x, NEW type, Newest(type, nals, Len(nals), x), ~junk
        PROVE  \E i \in DOMAIN units :
                 /\ units[i] = x
                 /\ \A j \in i + 1 .. Len(units) : Type(units[j]) # Type(x)
    <3>1. DOMAIN units = 1 .. Len(units)
      BY <1>1, LenProperties
    <3>2. nals = units
      BY <1>3, <2>4
    <3> QED
      BY <2>4, <3>1, <3>2 DEF Newest
  <2>5. ASSUME NEW k \in 1 .. 2, ~junk
        PROVE  \E i \in DOMAIN units :
                 /\ units[i] = found[k]
                 /\ \A j \in i + 1 .. Len(units) : Type(units[j]) # Type(found[k])
    <3>1. CASE k = 1
      BY <1>5, <2>1, <2>4, <2>5, <3>1
    <3>2. CASE k = 2
      BY <1>6, <2>1, <2>4, <2>5, <3>2
    <3> QED
      BY <3>1, <3>2
  <2> QED
    BY <2>3, <2>5
<1> QED
  BY <1>7, <1>9 DEF DescriptionReads, SetsRead

\* Whatever the stream and the single bytes in it, a decoder that reads the
\* description which makeAvcConfiguration writes finds the SPS and the PPS that
\* findParameterSets picked, the profile of that SPS and prefixes of 4 bytes, if
\* the sets are short enough for their length; and of a stream of whole units,
\* findParameterSets picks the newest of each.
THEOREM DescriptionAlwaysReads == Spec => []DescriptionReads
<1>1. Init => Inv
  BY InitInv
<1>2. Inv /\ [Next]_vars => Inv'
  BY NextInv
<1>3. Inv => DescriptionReads
  BY InvDescription
<1> QED
  BY <1>1, <1>2, <1>3, PTL DEF Spec

-----------------------------------------------------------------------------
(* The packet. *)

Packets ==
  [codec : 1 .. 4, timestamp : Unsigned(8), surfaceId : Unsigned(2),
   x : Unsigned(2), y : Unsigned(2), width : Unsigned(2), height : Unsigned(2),
   outputX : Unsigned(4), outputY : Unsigned(4), keyFrame : BOOLEAN, data : Seq(Nat)]

Flag(keyFrame) == IF keyFrame THEN 1 ELSE 0

\* The fields of a packet are where the page looks for them.
PacketLayout(p, bytes) ==
  /\ bytes \in Seq(Nat)
  /\ Len(bytes) = HeaderLength + Len(p.data)
  /\ At(bytes, 0, Magic)
  /\ At(bytes, 4, <<1, p.codec, Flag(p.keyFrame), 0>>)
  /\ At(bytes, 8, LittleEndian(8, p.timestamp))
  /\ At(bytes, 16, LittleEndian(2, p.surfaceId))
  /\ At(bytes, 18, LittleEndian(2, p.x))
  /\ At(bytes, 20, LittleEndian(2, p.y))
  /\ At(bytes, 22, LittleEndian(2, p.width))
  /\ At(bytes, 24, LittleEndian(2, p.height))
  /\ At(bytes, 26, LittleEndian(4, p.outputX))
  /\ At(bytes, 30, LittleEndian(4, p.outputY))
  /\ At(bytes, 34, LittleEndian(4, DataLength(p)))
  /\ At(bytes, 38, p.data)

LEMMA LittleEndianSized ==
  ASSUME NEW n \in Nat, NEW v \in Unsigned(n)
  PROVE  Sized(LittleEndian(n, v), n)
<1>1. v \in Nat
  BY DEF Unsigned
<1>2. PICK s : s = ToBytes(n, v)
  OBVIOUS
<1>3. s \in Seq(Nat) /\ Len(s) = n
  BY <1>1, <1>2, ToBytesType
<1>4. Reverse(s) \in Seq(Nat) /\ Len(Reverse(s)) = n
  BY <1>3, ReverseType
<1> QED
  BY <1>2, <1>4 DEF LittleEndian, Sized

\* A getter of the page reads what to_le_bytes of the gateway wrote.
LEMMA GetUintReads ==
  ASSUME NEW bytes \in Seq(Nat), NEW o \in Nat, NEW n \in Nat, NEW v \in Unsigned(n),
         At(bytes, o, LittleEndian(n, v))
  PROVE  GetUint(bytes, o, n) = v
<1>1. v \in Nat
  BY DEF Unsigned
<1>2. PICK s : s = ToBytes(n, v)
  OBVIOUS
<1>3. s \in Seq(Nat)
  BY <1>1, <1>2, ToBytesType
<1>4. PICK r : r = LittleEndian(n, v)
  OBVIOUS
<1>5. Sized(r, n) /\ r = Reverse(s)
  BY <1>2, <1>4, LittleEndianSized DEF LittleEndian
<1>6. SubSeq(bytes, o + 1, o + n) = r
  BY <1>4, <1>5, SizedAt
<1>7. Reverse(r) = s
  BY <1>3, <1>5, ReverseReverse
<1>8. BigEndian(s) = v
  BY <1>2, ReadWrite
<1> QED
  BY <1>6, <1>7, <1>8 DEF GetUint

LEMMA DataLengthFits ==
  ASSUME NEW p
  PROVE  DataLength(p) \in Unsigned(4)
BY U32MaxFits DEF DataLength

LEMMA MagicType == Magic \in Seq(Nat) /\ Len(Magic) = 4
<1>1. 0 .. Base - 1 \subseteq Nat
  BY BytesAssumption
<1>2. Magic \in [1 .. 4 -> Nat] /\ 4 \in Nat
  BY <1>1, MagicAssumption
<1>3. Magic \in Seq(Nat)
  BY <1>2, SeqDef
<1> QED
  BY <1>2, <1>3, LenProperties

LEMMA PacketStands ==
  ASSUME NEW p \in Packets
  PROVE  PacketLayout(p, Encode(p))
<1>1. /\ p.codec \in 1 .. 4 /\ p.timestamp \in Unsigned(8) /\ p.surfaceId \in Unsigned(2)
      /\ p.x \in Unsigned(2) /\ p.y \in Unsigned(2)
      /\ p.width \in Unsigned(2) /\ p.height \in Unsigned(2)
      /\ p.outputX \in Unsigned(4) /\ p.outputY \in Unsigned(4)
      /\ p.keyFrame \in BOOLEAN /\ p.data \in Seq(Nat)
  BY DEF Packets
<1>2. PICK d \in Seq(Nat), m \in Nat : d = p.data /\ m = Len(d)
  BY <1>1, LenProperties
<1>3. PICK a : a = <<1, p.codec, Flag(p.keyFrame), 0>>
  OBVIOUS
<1>4. PICK f8, f16, f18, f20, f22, f24, f26, f30, f34 :
        /\ f8 = LittleEndian(8, p.timestamp) /\ f16 = LittleEndian(2, p.surfaceId)
        /\ f18 = LittleEndian(2, p.x) /\ f20 = LittleEndian(2, p.y)
        /\ f22 = LittleEndian(2, p.width) /\ f24 = LittleEndian(2, p.height)
        /\ f26 = LittleEndian(4, p.outputX) /\ f30 = LittleEndian(4, p.outputY)
        /\ f34 = LittleEndian(4, DataLength(p))
  OBVIOUS
<1>5. Sized(Magic, 4) /\ Sized(a, 4) /\ Sized(d, m)
  <2>1. p.codec \in Nat /\ Flag(p.keyFrame) \in Nat
    BY <1>1 DEF Flag
  <2>2. a \in Seq(Nat) /\ Len(a) = 4
    BY <1>3, <2>1
  <2> QED
    BY <1>2, <2>2, MagicType DEF Sized
<1>6. /\ Sized(f8, 8) /\ Sized(f16, 2) /\ Sized(f18, 2) /\ Sized(f20, 2)
      /\ Sized(f22, 2) /\ Sized(f24, 2)
      /\ Sized(f26, 4) /\ Sized(f30, 4) /\ Sized(f34, 4)
  BY <1>1, <1>4, LittleEndianSized, DataLengthFits
<1>7. PICK s8 : s8 = Magic \o a
  OBVIOUS
<1>8. Sized(s8, 8)
  BY <1>5, <1>7, SizedConcat, 4 + 4 = 8
<1>9. PICK s16 : s16 = s8 \o f8
  OBVIOUS
<1>10. Sized(s16, 16)
  BY <1>6, <1>8, <1>9, SizedConcat, 8 + 8 = 16
<1>11. PICK s18 : s18 = s16 \o f16
  OBVIOUS
<1>12. Sized(s18, 18)
  BY <1>6, <1>10, <1>11, SizedConcat, 16 + 2 = 18
<1>13. PICK s20 : s20 = s18 \o f18
  OBVIOUS
<1>14. Sized(s20, 20)
  BY <1>6, <1>12, <1>13, SizedConcat, 18 + 2 = 20
<1>15. PICK s22 : s22 = s20 \o f20
  OBVIOUS
<1>16. Sized(s22, 22)
  BY <1>6, <1>14, <1>15, SizedConcat, 20 + 2 = 22
<1>17. PICK s24 : s24 = s22 \o f22
  OBVIOUS
<1>18. Sized(s24, 24)
  BY <1>6, <1>16, <1>17, SizedConcat, 22 + 2 = 24
<1>19. PICK s26 : s26 = s24 \o f24
  OBVIOUS
<1>20. Sized(s26, 26)
  BY <1>6, <1>18, <1>19, SizedConcat, 24 + 2 = 26
<1>21. PICK s30 : s30 = s26 \o f26
  OBVIOUS
<1>22. Sized(s30, 30)
  BY <1>6, <1>20, <1>21, SizedConcat, 26 + 4 = 30
<1>23. PICK s34 : s34 = s30 \o f30
  OBVIOUS
<1>24. Sized(s34, 34)
  BY <1>6, <1>22, <1>23, SizedConcat, 30 + 4 = 34
<1>25. PICK s38 : s38 = s34 \o f34
  OBVIOUS
<1>26. Sized(s38, 38)
  BY <1>6, <1>24, <1>25, SizedConcat, 34 + 4 = 38
<1>27. PICK b : b = s38 \o d
  OBVIOUS
<1>28. Sized(b, 38 + m)
  BY <1>5, <1>26, <1>27, SizedConcat
<1>29. b \in Seq(Nat) /\ Len(b) = 38 + m
  BY <1>28 DEF Sized
<1>30. b = Encode(p)
  BY <1>2, <1>3, <1>4, <1>7, <1>9, <1>11, <1>13, <1>15, <1>17, <1>19, <1>21, <1>23, <1>25,
     <1>27, Zenon DEF Encode, Flag
<1>31. BeginsWith(b, b)
  BY <1>29 DEF BeginsWith
<1>32. BeginsWith(s38, b) /\ At(b, 38, d)
  BY <1>5, <1>26, <1>27, <1>29, <1>31, SizedPiece
<1>33. BeginsWith(s34, b) /\ At(b, 34, f34)
  BY <1>6, <1>24, <1>25, <1>29, <1>32, SizedPiece
<1>34. BeginsWith(s30, b) /\ At(b, 30, f30)
  BY <1>6, <1>22, <1>23, <1>29, <1>33, SizedPiece
<1>35. BeginsWith(s26, b) /\ At(b, 26, f26)
  BY <1>6, <1>20, <1>21, <1>29, <1>34, SizedPiece
<1>36. BeginsWith(s24, b) /\ At(b, 24, f24)
  BY <1>6, <1>18, <1>19, <1>29, <1>35, SizedPiece
<1>37. BeginsWith(s22, b) /\ At(b, 22, f22)
  BY <1>6, <1>16, <1>17, <1>29, <1>36, SizedPiece
<1>38. BeginsWith(s20, b) /\ At(b, 20, f20)
  BY <1>6, <1>14, <1>15, <1>29, <1>37, SizedPiece
<1>39. BeginsWith(s18, b) /\ At(b, 18, f18)
  BY <1>6, <1>12, <1>13, <1>29, <1>38, SizedPiece
<1>40. BeginsWith(s16, b) /\ At(b, 16, f16)
  BY <1>6, <1>10, <1>11, <1>29, <1>39, SizedPiece
<1>41. BeginsWith(s8, b) /\ At(b, 8, f8)
  BY <1>6, <1>8, <1>9, <1>29, <1>40, SizedPiece
<1>42. BeginsWith(Magic, b) /\ At(b, 4, a)
  BY <1>5, <1>7, <1>29, <1>41, SizedPiece
<1>43. At(b, 0, Magic)
  BY <1>5, <1>42 DEF BeginsWith, At, Sized
<1>44. /\ At(b, 8, LittleEndian(8, p.timestamp)) /\ At(b, 16, LittleEndian(2, p.surfaceId))
       /\ At(b, 18, LittleEndian(2, p.x)) /\ At(b, 20, LittleEndian(2, p.y))
       /\ At(b, 22, LittleEndian(2, p.width)) /\ At(b, 24, LittleEndian(2, p.height))
       /\ At(b, 26, LittleEndian(4, p.outputX)) /\ At(b, 30, LittleEndian(4, p.outputY))
       /\ At(b, 34, LittleEndian(4, DataLength(p)))
  BY <1>4, <1>33, <1>34, <1>35, <1>36, <1>37, <1>38, <1>39, <1>40, <1>41
<1>45. At(b, 4, <<1, p.codec, Flag(p.keyFrame), 0>>) /\ At(b, 38, p.data)
  BY <1>2, <1>3, <1>32, <1>42
<1>46. Len(b) = HeaderLength + Len(p.data)
  BY <1>2, <1>29 DEF HeaderLength
<1>47. PacketLayout(p, b)
  BY <1>29, <1>43, <1>44, <1>45, <1>46 DEF PacketLayout
<1> QED
  BY <1>30, <1>47

LEMMA MagicRead ==
  ASSUME NEW bytes \in Seq(Nat), At(bytes, 0, Magic)
  PROVE  IsPrefix(Magic, bytes)
<1>1. PICK l \in Nat : l = Len(bytes)
  BY LenProperties
<1>2. Sized(Magic, 4) /\ Magic \in Seq(Nat) /\ Len(Magic) = 4
  BY MagicType DEF Sized
<1>3. SubSeq(bytes, 1, 4) = Magic
  BY <1>2, SizedAt, 0 + 1 = 1, 0 + 4 = 4
<1>4. SubSeq(Magic, 1, 4) = Magic
  BY <1>2, SubSeqFull
<1>5. 4 <= l
  BY <1>1, <1>2 DEF At
<1> QED
  BY <1>1, <1>2, <1>3, <1>4, <1>5 DEF IsPrefix

LEMMA PacketRead ==
  ASSUME NEW p \in Packets, NEW bytes, PacketLayout(p, bytes), Len(p.data) \in Unsigned(4)
  PROVE  ParsePacket(bytes) = p
<1>1. /\ p.codec \in 1 .. 4 /\ p.timestamp \in Unsigned(8) /\ p.surfaceId \in Unsigned(2)
      /\ p.x \in Unsigned(2) /\ p.y \in Unsigned(2)
      /\ p.width \in Unsigned(2) /\ p.height \in Unsigned(2)
      /\ p.outputX \in Unsigned(4) /\ p.outputY \in Unsigned(4)
      /\ p.keyFrame \in BOOLEAN /\ p.data \in Seq(Nat)
  BY DEF Packets
<1>2. PICK d \in Seq(Nat), m \in Nat : d = p.data /\ m = Len(d)
  BY <1>1, LenProperties
<1>3. bytes \in Seq(Nat) /\ Len(bytes) = 38 + m
  BY <1>2 DEF PacketLayout, HeaderLength
<1>4. IsPrefix(Magic, bytes)
  BY <1>3, MagicRead DEF PacketLayout
<1>5. bytes[5] = 1 /\ bytes[6] = p.codec /\ bytes[7] = Flag(p.keyFrame)
  <2>1. PICK a : a = <<1, p.codec, Flag(p.keyFrame), 0>>
    OBVIOUS
  <2>2. Len(a) = 4 /\ a[1] = 1 /\ a[2] = p.codec /\ a[3] = Flag(p.keyFrame)
    BY <2>1
  <2>3. At(bytes, 4, a)
    BY <2>1 DEF PacketLayout
  <2>4. \A i \in 1 .. 4 : bytes[4 + i] = a[i]
    BY <2>2, <2>3 DEF At
  <2>5. bytes[4 + 1] = a[1] /\ bytes[4 + 2] = a[2] /\ bytes[4 + 3] = a[3]
    BY <2>4
  <2> QED
    BY <2>2, <2>5, 4 + 1 = 5, 4 + 2 = 6, 4 + 3 = 7
<1>6. GetUint(bytes, 8, 8) = p.timestamp
  BY <1>1, <1>3, GetUintReads DEF PacketLayout
<1>7. GetUint(bytes, 16, 2) = p.surfaceId
  BY <1>1, <1>3, GetUintReads DEF PacketLayout
<1>8. GetUint(bytes, 18, 2) = p.x /\ GetUint(bytes, 20, 2) = p.y
  BY <1>1, <1>3, GetUintReads DEF PacketLayout
<1>9. GetUint(bytes, 22, 2) = p.width /\ GetUint(bytes, 24, 2) = p.height
  BY <1>1, <1>3, GetUintReads DEF PacketLayout
<1>10. GetUint(bytes, 26, 4) = p.outputX /\ GetUint(bytes, 30, 4) = p.outputY
  BY <1>1, <1>3, GetUintReads DEF PacketLayout
<1>11. GetUint(bytes, 34, 4) = m
  <2>1. DataLength(p) = m
    BY <1>2 DEF DataLength
  <2> QED
    BY <1>3, <2>1, DataLengthFits, GetUintReads DEF PacketLayout
<1>12. SubSeq(bytes, 38 + 1, 38 + m) = d
  <2>1. Sized(d, m)
    BY <1>2 DEF Sized
  <2>2. At(bytes, 38, d)
    BY <1>2 DEF PacketLayout
  <2> QED
    BY <1>3, <2>1, <2>2, SizedAt
<1>13. (bytes[7] % 2 # 0) = p.keyFrame
  <2>1. CASE p.keyFrame = TRUE
    <3>1. bytes[7] = 1
      BY <1>5, <2>1 DEF Flag
    <3>2. bytes[7] % 2 # 0
      BY <3>1
    <3> QED
      BY <2>1, <3>2, Zenon
  <2>2. CASE p.keyFrame = FALSE
    <3>1. bytes[7] = 0
      BY <1>5, <2>2 DEF Flag
    <3>2. ~(bytes[7] % 2 # 0)
      BY <3>1
    <3> QED
      BY <2>2, <3>2, Zenon
  <2> QED
    BY <1>1, <2>1, <2>2
<1>14. ~(\/ Len(bytes) < HeaderLength
         \/ ~IsPrefix(Magic, bytes)
         \/ bytes[5] # 1
         \/ HeaderLength + GetUint(bytes, 34, 4) # Len(bytes)
         \/ bytes[6] \notin 1 .. 4)
  BY <1>1, <1>3, <1>4, <1>5, <1>11 DEF HeaderLength
<1>15. ParsePacket(bytes) =
         [codec |-> bytes[6], keyFrame |-> bytes[7] % 2 # 0,
          timestamp |-> GetUint(bytes, 8, 8), surfaceId |-> GetUint(bytes, 16, 2),
          x |-> GetUint(bytes, 18, 2), y |-> GetUint(bytes, 20, 2),
          width |-> GetUint(bytes, 22, 2), height |-> GetUint(bytes, 24, 2),
          outputX |-> GetUint(bytes, 26, 4), outputY |-> GetUint(bytes, 30, 4),
          data |-> SubSeq(bytes, HeaderLength + 1, Len(bytes))]
  BY <1>14, Zenon DEF ParsePacket
<1>16. SubSeq(bytes, HeaderLength + 1, Len(bytes)) = d
  BY <1>3, <1>12 DEF HeaderLength
<1>17. p = [codec |-> p.codec, keyFrame |-> p.keyFrame,
            timestamp |-> p.timestamp, surfaceId |-> p.surfaceId,
            x |-> p.x, y |-> p.y, width |-> p.width, height |-> p.height,
            outputX |-> p.outputX, outputY |-> p.outputY, data |-> d]
  BY <1>2 DEF Packets
<1> QED
  BY <1>5, <1>6, <1>7, <1>8, <1>9, <1>10, <1>15, <1>16, <1>17, <1>13, Zenon

\* The page compares the length that it reads with the one that it sees.
LEMMA WrongLength ==
  ASSUME NEW bytes \in Seq(Nat), NEW v \in Unsigned(4), At(bytes, 34, LittleEndian(4, v)),
         HeaderLength + v # Len(bytes)
  PROVE  ParsePacket(bytes) = Null
<1>1. GetUint(bytes, 34, 4) = v
  BY GetUintReads
<1> QED
  BY <1>1 DEF ParsePacket

LEMMA PacketRefused ==
  ASSUME NEW p \in Packets, NEW bytes, PacketLayout(p, bytes), Len(p.data) \notin Unsigned(4)
  PROVE  ParsePacket(bytes) = Null
<1>1. bytes \in Seq(Nat) /\ Len(bytes) = HeaderLength + Len(p.data)
      /\ At(bytes, 34, LittleEndian(4, DataLength(p)))
  BY DEF PacketLayout
<1>2. Len(p.data) \in Nat
  <2>1. p.data \in Seq(Nat)
    BY DEF Packets
  <2> QED
    BY <2>1, LenProperties
<1>3. PICK v \in Unsigned(4) : v = DataLength(p)
  BY DataLengthFits
<1>4. v # Len(p.data) /\ v \in Nat
  BY <1>3 DEF Unsigned
<1>5. HeaderLength + v # Len(bytes)
  BY <1>1, <1>2, <1>4 DEF HeaderLength
<1> QED
  BY <1>1, <1>3, <1>5, WrongLength

LEMMA LongerRefused ==
  ASSUME NEW p \in Packets, NEW bytes, PacketLayout(p, bytes), Len(p.data) \in Unsigned(4)
  PROVE  ParsePacket(Append(bytes, 0)) = Null
<1>1. PICK v \in Unsigned(4) : v = Len(p.data) /\ v = DataLength(p)
  BY DEF DataLength
<1>2. v \in Nat
  BY DEF Unsigned
<1>3. bytes \in Seq(Nat) /\ Len(bytes) = HeaderLength + v /\ At(bytes, 34, LittleEndian(4, v))
  BY <1>1 DEF PacketLayout
<1>4. PICK b : b = Append(bytes, 0)
  OBVIOUS
<1>5. b \in Seq(Nat) /\ Len(b) = Len(bytes) + 1
  BY <1>3, <1>4, AppendProperties
<1>6. At(b, 34, LittleEndian(4, v))
  <2>1. LittleEndian(4, v) \in Seq(Nat)
    BY LittleEndianSized DEF Sized
  <2> QED
    BY <1>3, <1>4, <2>1, AtStays
<1>7. HeaderLength + v # Len(b)
  BY <1>2, <1>3, <1>5 DEF HeaderLength
<1> QED
  BY <1>4, <1>5, <1>6, <1>7, WrongLength

LEMMA ShorterRefused ==
  ASSUME NEW p \in Packets, NEW bytes, PacketLayout(p, bytes), Len(p.data) \in Unsigned(4),
         NEW n \in 0 .. Len(bytes) - 1
  PROVE  ParsePacket(SubSeq(bytes, 1, n)) = Null
<1>1. PICK v \in Unsigned(4) : v = Len(p.data) /\ v = DataLength(p)
  BY DEF DataLength
<1>2. v \in Nat
  BY DEF Unsigned
<1>3. bytes \in Seq(Nat) /\ Len(bytes) = 38 + v /\ At(bytes, 34, LittleEndian(4, v))
  BY <1>1 DEF PacketLayout, HeaderLength
<1>4. n \in Nat /\ n < 38 + v
  BY <1>2, <1>3
<1>5. PICK b : b = SubSeq(bytes, 1, n)
  OBVIOUS
<1>6. CASE n < 38
  <2>1. Len(b) = n
    <3>1. Sized(<<>>, 0) /\ <<>> \in Seq(Nat) /\ At(bytes, 0, <<>>)
      BY <1>2, <1>3 DEF Sized, At
    <3>2. n \in 0 .. Len(bytes) /\ 0 + Len(<<>>) <= n
      BY <1>2, <1>3, <1>4
    <3> QED
      BY <1>3, <1>5, <3>1, <3>2, AtCut
  <2> QED
    BY <1>5, <1>6, <2>1 DEF ParsePacket, HeaderLength
<1>7. CASE n >= 38
  <2>1. PICK x : x = LittleEndian(4, v)
    OBVIOUS
  <2>2. x \in Seq(Nat) /\ Len(x) = 4
    BY <2>1, LittleEndianSized DEF Sized
  <2>3. n \in 0 .. Len(bytes) /\ 34 + Len(x) <= n
    BY <1>2, <1>3, <1>4, <1>7, <2>2
  <2>4. b \in Seq(Nat) /\ Len(b) = n /\ At(b, 34, x)
    BY <1>3, <1>5, <2>1, <2>2, <2>3, AtCut
  <2>5. HeaderLength + v # Len(b)
    BY <1>2, <1>4, <2>4 DEF HeaderLength
  <2> QED
    BY <1>5, <2>1, <2>4, <2>5, WrongLength
<1> QED
  BY <1>4, <1>6, <1>7

-----------------------------------------------------------------------------
(* The round trip. *)

PInv == Inv /\ header \in Headers

LEMMA PacketType == PInv => packet \in Packets /\ packet.data = data
<1> SUFFICES ASSUME PInv PROVE packet \in Packets /\ packet.data = data
  OBVIOUS
<1>1. data \in Seq(Nat) /\ header \in Headers
  BY DEF PInv, Inv
<1>2. PICK k \in BOOLEAN : k = contains_idr(data)
  BY <1>1, IdrIs
<1>3. header \in [codec : 1 .. 4, timestamp : {t \in Unsigned(8) : t <= SafeInteger},
                  surfaceId : Unsigned(2), x : Unsigned(2), y : Unsigned(2),
                  width : Unsigned(2), height : Unsigned(2), outputX : Unsigned(4), outputY : Unsigned(4)]
  BY <1>1, HeadersAssumption
<1>4. packet = [codec |-> header.codec, keyFrame |-> k, timestamp |-> header.timestamp,
                surfaceId |-> header.surfaceId, x |-> header.x, y |-> header.y,
                width |-> header.width, height |-> header.height,
                outputX |-> header.outputX, outputY |-> header.outputY, data |-> data]
  BY <1>2 DEF packet
<1> QED
  BY <1>1, <1>3, <1>4 DEF Packets

LEMMA PInvRoundTrip == PInv => RoundTrip
<1> SUFFICES ASSUME PInv PROVE RoundTrip
  OBVIOUS
<1>1. PICK p \in Packets : p = packet /\ p.data = data
  BY PacketType
<1>2. PICK b : b = Encode(p)
  OBVIOUS
<1>3. PacketLayout(p, b)
  BY <1>2, PacketStands
<1>4. CASE Len(data) \in Unsigned(4)
  <2>1. ParsePacket(b) = p
    BY <1>1, <1>3, <1>4, PacketRead
  <2>2. ParsePacket(Append(b, 0)) = Null
    BY <1>1, <1>3, <1>4, LongerRefused
  <2>3. \A n \in 0 .. Len(b) - 1 : ParsePacket(SubSeq(b, 1, n)) = Null
    BY <1>1, <1>3, <1>4, ShorterRefused
  <2> QED
    BY <1>1, <1>2, <1>4, <2>1, <2>2, <2>3, Zenon DEF RoundTrip
<1>5. CASE Len(data) \notin Unsigned(4)
  <2>1. ParsePacket(b) = Null
    BY <1>1, <1>3, <1>5, PacketRefused
  <2> QED
    BY <1>1, <1>2, <1>5, <2>1, Zenon DEF RoundTrip
<1> QED
  BY <1>4, <1>5

\* Whatever the fields of a packet and however long its data, parsePacket reads
\* from what encode wrote each field as it was, and refuses it once a byte is
\* missing or too many, or if the data are too long for their length.
THEOREM PacketsAlwaysReturn == PSpec => []RoundTrip
<1>1. PInit => PInv
  BY InitInv DEF PInit, PInv
<1>2. PInv /\ [PNext]_<<vars, header>> => PInv'
  <2>1. ASSUME PInv, [PNext]_<<vars, header>> PROVE PInv'
    <3>1. [Next]_vars /\ header' = header
      BY <2>1 DEF PNext
    <3>2. Inv'
      BY <2>1, <3>1, NextInv DEF PInv
    <3> QED
      BY <2>1, <3>1, <3>2 DEF PInv
  <2> QED
    BY <2>1
<1>3. PInv => RoundTrip
  BY PInvRoundTrip
<1> QED
  BY <1>1, <1>2, <1>3, PTL DEF PSpec

\* What is proved of the access units holds in packets too.
THEOREM PacketsCarryUnits == PSpec => Spec
<1>1. PInit => Init
  BY DEF PInit
<1>2. [PNext]_<<vars, header>> => [Next]_vars
  BY DEF PNext, vars
<1> QED
  BY <1>1, <1>2, PTL DEF PSpec, Spec
=============================================================================
