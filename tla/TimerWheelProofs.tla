-------------------------- MODULE TimerWheelProofs --------------------------
(***************************************************************************)
(* The timer wheel, for any number of levels, slots and events: an event   *)
(* waits in a slot that the hand of its level reaches no later than the    *)
(* event is due, and comes down level by level; so it is executed at its   *)
(* tick, and ticks_to_wakeup() may be trusted.                             *)
(***************************************************************************)
EXTENDS TimerWheel, FiniteSetTheorems, SequenceTheorems, NaturalsInduction,
        WellFoundedInduction, TLAPS

-----------------------------------------------------------------------------
(* Induction and division.                                                 *)

(* A set of natural numbers that is not empty has a least member.          *)
LEMMA NatLeast ==
    ASSUME NEW T \in SUBSET Nat, T # {}
    PROVE  \E m \in T : \A n \in T : m <= n
<1>1. PICK m \in T : \A n \in T : ~(<<n, m>> \in OpToRel(<, Nat))
  BY NatLessThanWellFounded, WFMin
<1>2. \A n \in T : ~(n < m)
  BY <1>1 DEF OpToRel
<1> QED
  BY <1>2

(* Min finds it.                                                           *)
LEMMA MinLeast ==
    ASSUME NEW T \in SUBSET Nat, T # {}
    PROVE  Min(T) \in T /\ \A n \in T : Min(T) <= n
<1>1. \E m \in T : \A n \in T : m <= n
  BY NatLeast
<1> QED
  BY <1>1 DEF Min

(* Induction up to a bound.                                                *)
LEMMA UpTo ==
    ASSUME NEW N \in Nat, NEW S, 0 \in S, \A k \in 0 .. N - 1 : k \in S => k + 1 \in S
    PROVE  \A k \in 0 .. N : k \in S
<1> DEFINE T == {k \in 0 .. N : k \notin S}
<1> SUFFICES ASSUME T # {} PROVE FALSE
  OBVIOUS
<1>0. T \in SUBSET Nat
  OBVIOUS
<1>1. PICK m \in T : \A n \in T : m <= n
  <2> HIDE DEF T
  <2> QED
    BY <1>0, NatLeast
<1>2. m # 0 /\ m - 1 \in 0 .. N - 1 /\ m - 1 \notin T
  BY <1>1
<1> QED
  BY <1>1, <1>2

(* Division with remainder.                                                *)
LEMMA DivMod ==
    ASSUME NEW C \in Nat \ {0}, NEW x \in Int
    PROVE  x \div C \in Int /\ x % C \in 0 .. C - 1 /\ x = C * (x \div C) + (x % C)
  OBVIOUS

(* Products are numbers.                                                   *)
LEMMA Product ==
    ASSUME NEW C \in Int, NEW q \in Int
    PROVE  C * q \in Int /\ (C > 0 /\ q > 0 => C * q > 0) /\ (C >= 0 /\ q >= 0 => C * q >= 0)
  BY Z3

(* Multiples of C are at least C apart.                                    *)
LEMMA MultiplesApart ==
    ASSUME NEW C \in Nat \ {0}, NEW q \in Int, NEW p \in Int, q < p
    PROVE  C * q + C <= C * p
<1>1. PICK d \in Nat : p = q + 1 + d
  <2>1. p - q - 1 \in Nat /\ p = q + 1 + (p - q - 1)
    OBVIOUS
  <2> QED
    BY <2>1
<1>2. C * p = C * q + C + C * d
  BY <1>1, Z3
<1>3. C * d \in Nat /\ C * q \in Int
  BY Z3
<1> QED
  BY <1>2, <1>3

(* Quotient and remainder are unique.                                      *)
LEMMA DivUnique ==
    ASSUME NEW C \in Nat \ {0}, NEW x \in Int, NEW q \in Int, NEW r \in 0 .. C - 1,
           x = C * q + r
    PROVE  x \div C = q /\ x % C = r
<1>1. PICK p \in Int, y \in 0 .. C - 1 : p = x \div C /\ y = x % C /\ x = C * p + y
  BY DivMod
<1>2. C * p \in Int /\ C * q \in Int
  BY Product
<1>4. C * p + y = C * q + r
  BY <1>1
<1>5. ~(q < p)
  BY <1>2, <1>4, MultiplesApart
<1>6. ~(p < q)
  BY <1>2, <1>4, MultiplesApart
<1>7. p = q
  BY <1>5, <1>6
<1>8. y = r
  BY <1>2, <1>4, <1>7
<1> QED
  BY <1>1, <1>7, <1>8

(* A number in range is its own remainder.                                 *)
LEMMA ModSmall ==
    ASSUME NEW C \in Nat \ {0}, NEW r \in 0 .. C - 1
    PROVE  r % C = r /\ r \div C = 0
<1>1. PICK q \in Int : q = 0
  OBVIOUS
<1>2. r \in Int /\ r = C * q + r
  BY <1>1
<1>3. r % C = r /\ r \div C = q
  BY <1>2, DivUnique
<1> QED
  BY <1>1, <1>3

(* Adding multiples.                                                       *)
LEMMA DivShift ==
    ASSUME NEW C \in Nat \ {0}, NEW x \in Int, NEW k \in Int
    PROVE  (x + C * k) \div C = x \div C + k /\ (x + C * k) % C = x % C
<1>1. PICK p \in Int, y \in 0 .. C - 1 : p = x \div C /\ y = x % C /\ x = C * p + y
  BY DivMod
<1>2. C * p \in Int /\ C * k \in Int /\ C * (p + k) = C * p + C * k
  BY Z3
<1>3. x + C * k = C * (p + k) + y
  BY <1>1, <1>2
<1>4. x + C * k \in Int /\ p + k \in Int
  BY <1>2
<1>5. (x + C * k) \div C = p + k /\ (x + C * k) % C = y
  BY <1>3, <1>4, DivUnique
<1> QED
  BY <1>1, <1>5

(* Dividing twice.                                                         *)
LEMMA DivDiv ==
    ASSUME NEW A \in Nat \ {0}, NEW B \in Nat \ {0}, NEW x \in Int
    PROVE  /\ (x \div A) \div B = x \div (A * B)
           /\ x % (A * B) = A * ((x \div A) % B) + (x % A)
<1>1. PICK q \in Int, r \in 0 .. A - 1 : q = x \div A /\ r = x % A /\ x = A * q + r
  BY DivMod
<1>2. PICK p \in Int, s \in 0 .. B - 1 : p = q \div B /\ s = q % B /\ q = B * p + s
  BY DivMod
<1>3. A * B \in Nat \ {0} /\ A * s \in Nat /\ (A * B) * p \in Int
  BY Z3
<1>4. x = (A * B) * p + (A * s + r)
  <2>1. A * (B * p + s) = (A * B) * p + A * s
    BY Z3
  <2>2. A * q = (A * B) * p + A * s
    BY <1>2, <2>1
  <2>3. A * q \in Int /\ x = A * q + r
    BY <1>1, Product
  <2> QED
    BY <1>3, <2>2, <2>3
<1>5. A * s + r \in 0 .. (A * B) - 1
  <2>1. A * s + A <= A * B
    BY MultiplesApart
  <2> QED
    BY <1>3, <2>1
<1>6. x \div (A * B) = p /\ x % (A * B) = A * s + r
  BY <1>3, <1>4, <1>5, DivUnique
<1> QED
  BY <1>1, <1>2, <1>6

(* Division keeps the order.                                               *)
LEMMA DivMono ==
    ASSUME NEW C \in Nat \ {0}, NEW x \in Int, NEW y \in Int, x <= y
    PROVE  x \div C <= y \div C
<1>1. PICK p \in Int, r \in 0 .. C - 1 : p = x \div C /\ x = C * p + r
  BY DivMod
<1>2. PICK q \in Int, s \in 0 .. C - 1 : q = y \div C /\ y = C * q + s
  BY DivMod
<1>3. C * p \in Int /\ C * q \in Int
  BY Product
<1>4. ~(q < p)
  BY <1>1, <1>2, <1>3, MultiplesApart
<1> QED
  BY <1>1, <1>2, <1>4

(* The quotient of a number below C * m.                                   *)
LEMMA DivRange ==
    ASSUME NEW C \in Nat \ {0}, NEW m \in Nat, NEW x \in 0 .. C * m - 1
    PROVE  x \div C \in 0 .. m - 1 /\ x \in Int
<1>1. PICK p \in Int, r \in 0 .. C - 1 : p = x \div C /\ x = C * p + r
  BY DivMod
<1>2. C * p \in Int /\ C * m \in Int
  BY Product
<1>3. ~(p < 0)
  <2>1. p < 0 => C * p + C <= C * 0
    BY MultiplesApart
  <2> QED
    BY <1>1, <1>2, <2>1
<1>4. ~(m <= p)
  <2>1. m < p => C * m + C <= C * p
    BY MultiplesApart
  <2> QED
    BY <1>1, <1>2, <2>1
<1> QED
  BY <1>1, <1>3, <1>4

(* One tick on, the quotient stays or, when the remainder is zero, goes up *)
(* by one.                                                                 *)
LEMMA DivNext ==
    ASSUME NEW C \in Nat \ {0}, NEW x \in Int
    PROVE  (x + 1) \div C = IF (x + 1) % C = 0 THEN x \div C + 1 ELSE x \div C
<1>1. PICK p \in Int, r \in 0 .. C - 1 : p = x \div C /\ x = C * p + r
  BY DivMod
<1>2. C * p \in Int /\ C * (p + 1) = C * p + C
  BY Z3
<1>3. CASE r = C - 1
  <2>1. x + 1 = C * (p + 1) + 0 /\ 0 \in 0 .. C - 1
    BY <1>1, <1>2, <1>3
  <2>2. (x + 1) \div C = p + 1 /\ (x + 1) % C = 0
    BY <2>1, DivUnique
  <2> QED
    BY <1>1, <2>2
<1>4. CASE r # C - 1
  <2>1. x + 1 = C * p + (r + 1) /\ r + 1 \in 0 .. C - 1 /\ r + 1 # 0
    BY <1>1, <1>2, <1>4
  <2>2. (x + 1) \div C = p /\ (x + 1) % C = r + 1
    BY <2>1, DivUnique
  <2> QED
    BY <1>1, <2>1, <2>2
<1> QED
  BY <1>3, <1>4

-----------------------------------------------------------------------------
(* The spans of the levels.                                                *)

(* The spans exist and multiply.                                           *)
LEMMA Spans ==
    \A l \in 0..Levels : /\ Span[l] = IF l = 0 THEN 1 ELSE NumSlots * Span[l - 1]
                         /\ Span[l] \in Nat \ {0}
<1> DEFINE Powers(k, f) == \A l \in 0..k : f[l] = IF l = 0 THEN 1 ELSE NumSlots * f[l - 1]
           S == {k \in Nat : \E f : f \in [0..k -> Nat \ {0}] /\ Powers(k, f)}
<1>0. Levels \in Nat \ {0} /\ NumSlots \in Nat \ {0, 1}
  BY WheelAssumption
<1>1. 0 \in S
  <2>1. PICK f : f = [l \in 0..0 |-> 1]
    OBVIOUS
  <2>2. f \in [0..0 -> Nat \ {0}] /\ Powers(0, f)
    BY <2>1
  <2> QED
    BY <2>2
<1>2. ASSUME NEW k \in 0..(Levels - 1), k \in S
      PROVE  k + 1 \in S
  <2>1. PICK f : f \in [0..k -> Nat \ {0}] /\ Powers(k, f)
    BY <1>2
  <2>2. PICK v \in Nat \ {0} : v = NumSlots * f[k]
    <3>1. f[k] \in Nat \ {0}
      BY <1>0, <2>1
    <3>2. NumSlots * f[k] \in Nat \ {0}
      BY <1>0, <3>1, Product
    <3> QED
      BY <3>2
  <2>3. PICK g : g = [l \in 0..(k + 1) |-> IF l = k + 1 THEN v ELSE f[l]]
    OBVIOUS
  <2>4. g[k + 1] = v /\ \A l \in 0..k : g[l] = f[l]
    BY <1>0, <2>3
  <2>5. \A l \in 0..(k + 1) : l = k + 1 \/ l \in 0..k
    BY <1>0
  <2>6. g \in [0..(k + 1) -> Nat \ {0}]
    <3>1. \A l \in 0..(k + 1) : (IF l = k + 1 THEN v ELSE f[l]) \in Nat \ {0}
      BY <2>1, <2>2, <2>5
    <3> QED
      BY <2>3, <3>1
  <2>7. ASSUME NEW l \in 0..(k + 1)
        PROVE  g[l] = IF l = 0 THEN 1 ELSE NumSlots * g[l - 1]
    <3>1. CASE l = k + 1
      <4>1. l # 0 /\ l - 1 = k /\ k \in 0..k
        BY <1>0, <3>1
      <4> QED
        BY <2>2, <2>4, <3>1, <4>1
    <3>2. CASE l \in 0..k
      <4>1. l # 0 => l - 1 \in 0..k
        BY <1>0, <3>2
      <4> QED
        BY <2>1, <2>4, <3>2, <4>1
    <3> QED
      BY <2>5, <3>1, <3>2
  <2>8. k + 1 \in Nat
    BY <1>0
  <2> QED
    BY <2>6, <2>7, <2>8
<1>3. Levels \in S
  <2> HIDE DEF S
  <2>1. \A k \in 0..Levels : k \in S
    BY <1>0, <1>1, <1>2, UpTo
  <2>2. Levels \in 0..Levels
    BY <1>0
  <2> QED
    BY <2>1, <2>2
<1>4. PICK f : f \in [0..Levels -> Nat \ {0}] /\ Powers(Levels, f)
  BY <1>3
<1>5. f = [l \in 0..Levels |-> IF l = 0 THEN 1 ELSE NumSlots * f[l - 1]]
  BY <1>4
<1>6. Span = [l \in 0..Levels |-> IF l = 0 THEN 1 ELSE NumSlots * Span[l - 1]]
  BY <1>5 DEF Span
<1> DEFINE P == {k \in 0..Levels : Span[k] \in Nat \ {0}}
<1>7. \A l \in 0..Levels : Span[l] = IF l = 0 THEN 1 ELSE NumSlots * Span[l - 1]
  BY <1>6
<1>8. 0 \in P
  BY <1>0, <1>7
<1>9. ASSUME NEW k \in 0..(Levels - 1), k \in P
      PROVE  k + 1 \in P
  <2>1. k + 1 \in 0..Levels /\ k + 1 # 0 /\ (k + 1) - 1 = k
    BY <1>0
  <2>2. Span[k + 1] = NumSlots * Span[k]
    BY <1>7, <2>1
  <2> QED
    BY <1>0, <1>9, <2>1, <2>2, Product
<1>10. \A k \in 0..Levels : k \in P
  <2> HIDE DEF P
  <2> QED
    BY <1>0, <1>8, <1>9, UpTo
<1> QED
  BY <1>7, <1>10

(* The constants, as the proofs use them.                                  *)
LEMMA Constants ==
    /\ Levels \in Nat \ {0} /\ MaxLevel \in 0..Levels /\ MaxLevel = Levels - 1
    /\ NumSlots \in Nat \ {0, 1}
    /\ 0..MaxLevel \subseteq 0..Levels
    /\ Span[0] = 1 /\ Ticks = Span[Levels] /\ Ticks = NumSlots * Span[MaxLevel]
    /\ Ticks \in Nat /\ NumSlots <= Ticks
    /\ \A l \in 0..Levels : Span[l] \in Nat \ {0}
    /\ \A l \in 0..MaxLevel : l + 1 \in 0..Levels /\ Span[l + 1] = NumSlots * Span[l]
<1>1. Levels \in Nat \ {0} /\ NumSlots \in Nat \ {0, 1} /\ MaxLevel = Levels - 1
  BY WheelAssumption DEF MaxLevel
<1>2. \A l \in 0..Levels : Span[l] \in Nat \ {0}
  BY Spans
<1>3. \A l \in 0..MaxLevel : l + 1 \in 0..Levels /\ Span[l + 1] = NumSlots * Span[l]
  <2> TAKE l \in 0..MaxLevel
  <2>1. l + 1 \in 0..Levels /\ l + 1 # 0 /\ (l + 1) - 1 = l
    BY <1>1
  <2> QED
    BY <2>1, Spans
<1>4. Span[0] = 1
  BY <1>1, Spans
<1>5. Ticks = NumSlots * Span[MaxLevel]
  <2>1. MaxLevel \in 0..MaxLevel /\ MaxLevel + 1 = Levels
    BY <1>1
  <2> QED
    BY <1>3, <2>1 DEF Ticks
<1>6. NumSlots <= NumSlots * Span[MaxLevel]
  <2>1. PICK s \in Nat \ {0} : s = Span[MaxLevel]
    BY <1>1, <1>2
  <2>2. NumSlots * 1 <= NumSlots * s
    BY <1>1, <2>1, Z3
  <2> QED
    BY <1>1, <2>1, <2>2
<1> QED
  BY <1>1, <1>2, <1>3, <1>4, <1>5, <1>6 DEF Ticks

(* A round of level l takes HandRange(l) of its slots.                     *)
LEMMA SpanProduct == \A l \in 0..Levels : Ticks = Span[l] * Span[Levels - l]
<1> DEFINE S == {l \in 0..Levels : Ticks = Span[l] * Span[Levels - l]}
<1>1. 0 \in S
  <2>1. Levels - 0 = Levels /\ 0 \in 0..Levels /\ Ticks \in Nat
    BY Constants
  <2>2. 1 * Ticks = Ticks
    BY <2>1
  <2> QED
    BY <2>1, <2>2, Constants
<1>2. ASSUME NEW l \in 0..(Levels - 1), l \in S
      PROVE  l + 1 \in S
  <2>1. l \in 0..MaxLevel /\ Levels - l - 1 \in 0..MaxLevel /\ (Levels - l - 1) + 1 = Levels - l
        /\ Levels - (l + 1) = Levels - l - 1 /\ l \in 0..Levels /\ Levels - l \in 0..Levels
        /\ Levels - l - 1 \in 0..Levels
    BY Constants
  <2>2. PICK a \in Nat, b \in Nat : a = Span[l] /\ b = Span[Levels - l - 1]
    BY <2>1, Constants
  <2>3. Span[l + 1] = NumSlots * a /\ Span[Levels - l] = NumSlots * b /\ l + 1 \in 0..Levels
    BY <2>1, <2>2, Constants
  <2>4. Ticks = a * (NumSlots * b)
    BY <1>2, <2>2, <2>3
  <2>5. a * (NumSlots * b) = (NumSlots * a) * b
    BY Constants, Z3
  <2> QED
    BY <2>1, <2>2, <2>3, <2>4, <2>5
<1> HIDE DEF S
<1>3. \A l \in 0..Levels : l \in S
  BY <1>1, <1>2, UpTo, Constants
<1> QED
  BY <1>3 DEF S

(* The span of a level is a multiple of those below.                       *)
LEMMA SpanMultiple ==
    ASSUME NEW l \in 0..Levels, NEW m \in 0..Levels, l <= m
    PROVE  \E k \in Nat \ {0} : Span[m] = Span[l] * k
<1> DEFINE S == {d \in Nat : l + d \in 0..Levels =>
                               \E k \in Nat \ {0} : Span[l + d] = Span[l] * k}
<1>0. Levels \in Nat /\ Span[l] \in Nat \ {0} /\ NumSlots \in Nat \ {0}
  BY Constants
<1>1. 0 \in S
  <2>1. l + 0 = l /\ Span[l] = Span[l] * 1
    BY <1>0
  <2> QED
    BY <2>1
<1>2. ASSUME NEW d \in 0..(Levels - 1), d \in S
      PROVE  d + 1 \in S
  <2>0. d + 1 \in Nat
    BY <1>0
  <2> SUFFICES ASSUME l + (d + 1) \in 0..Levels
               PROVE  \E k \in Nat \ {0} : Span[l + (d + 1)] = Span[l] * k
    BY <2>0
  <2>1. l + d \in 0..MaxLevel /\ l + d \in 0..Levels /\ (l + d) + 1 = l + (d + 1)
    BY <1>0, Constants
  <2>2. PICK k \in Nat \ {0} : Span[l + d] = Span[l] * k
    BY <1>2, <2>1
  <2>3. Span[l + (d + 1)] = NumSlots * (Span[l] * k)
    BY <2>1, <2>2, Constants
  <2>4. PICK a \in Nat \ {0} : a = Span[l]
    BY <1>0
  <2>5. NumSlots * (a * k) = a * (NumSlots * k) /\ NumSlots * k \in Nat \ {0}
    BY <1>0, Z3
  <2> QED
    BY <2>3, <2>4, <2>5
<1>3. m - l \in 0..Levels /\ l + (m - l) = m
  BY <1>0
<1>4. m - l \in S
  <2> HIDE DEF S
  <2> QED
    BY <1>0, <1>1, <1>2, <1>3, UpTo
<1> QED
  BY <1>3, <1>4

-----------------------------------------------------------------------------
(* The lists of the slots.                                                 *)

(* A list holds no event twice.                                            *)
List(s) == s \in Seq(Events) /\ IsInjective(s)

(* The members of a list, by their positions.                              *)
LEMMA ListMembers ==
    ASSUME NEW s \in Seq(Events)
    PROVE  /\ Len(s) \in Nat /\ DOMAIN s = 1 .. Len(s) /\ Range(s) \subseteq Events
           /\ \A i \in 1 .. Len(s) : s[i] \in Range(s)
           /\ \A x \in Range(s) : \E i \in 1 .. Len(s) : s[i] = x
<1>1. Len(s) \in Nat /\ DOMAIN s = 1 .. Len(s)
  BY LenProperties
<1>2. \A i \in 1 .. Len(s) : s[i] \in Events
  BY ElementOfSeq
<1> QED
  BY <1>1, <1>2 DEF Range

(* A list without its i-th node.                                           *)
LEMMA ListRemoveAt ==
    ASSUME NEW s \in Seq(Events), NEW i \in 1 .. Len(s), NEW r, r = RemoveAt(s, i)
    PROVE  /\ r \in Seq(Events) /\ Len(r) = Len(s) - 1
           /\ \A j \in 1 .. Len(r) : r[j] = IF j < i THEN s[j] ELSE s[j + 1]
<1>n. PICK n \in Nat : n = Len(s) /\ i \in 1 .. n
  BY LenProperties
<1>1. PICK p : p = SubSeq(s, 1, i - 1)
  OBVIOUS
<1>2. PICK q : q = SubSeq(s, i + 1, n)
  OBVIOUS
<1>e. \A j \in 1 .. n : s[j] \in Events
  BY <1>n, ElementOfSeq
<1>3. p \in Seq(Events) /\ Len(p) = i - 1 /\ \A j \in 1 .. i - 1 : p[j] = s[j]
  BY <1>n, <1>1
<1>4. q \in Seq(Events) /\ Len(q) = n - i /\ \A j \in 1 .. n - i : q[j] = s[i + j]
  <2>1. PICK m \in Int : m = i + 1 /\ n - m + 1 = n - i /\ (~(m <= n) => n - i = 0)
    BY <1>n
  <2>2. \A j \in m .. n : s[j] \in Events
    BY <1>n, <1>e, <2>1
  <2>3. n \in Int
    OBVIOUS
  <2>4. /\ SubSeq(s, m, n) \in Seq(Events)
        /\ Len(SubSeq(s, m, n)) = IF m <= n THEN n - m + 1 ELSE 0
        /\ \A j \in 1 .. n - m + 1 : SubSeq(s, m, n)[j] = s[m + j - 1]
    BY <2>2, <2>3, SubSeqProperties
  <2>5. q = SubSeq(s, m, n)
    BY <1>2, <2>1
  <2>6. \A j \in 1 .. n - i : m + j - 1 = i + j
    BY <2>1
  <2>7. \A j \in 1 .. n - i : q[j] = s[i + j]
    BY <2>1, <2>4, <2>5, <2>6
  <2>8. Len(q) = n - i
    BY <2>1, <2>4, <2>5
  <2> QED
    BY <2>4, <2>5, <2>7, <2>8
<1>5. r = p \o q
  BY <1>n, <1>1, <1>2 DEF RemoveAt
<1>6. r \in Seq(Events) /\ Len(r) = n - 1
  <2>1. r \in Seq(Events)
    BY <1>3, <1>4, <1>5
  <2>2. Len(r) = Len(p) + Len(q)
    <3>1. p \in Seq(Events) /\ q \in Seq(Events)
      BY <1>3, <1>4
    <3> QED
      BY <1>5, <3>1, ConcatProperties
  <2> QED
    BY <1>n, <1>3, <1>4, <2>1, <2>2
<1>7. ASSUME NEW j \in 1 .. n - 1
      PROVE  r[j] = IF j < i THEN s[j] ELSE s[j + 1]
  <2>1. CASE j < i
    <3>1. j \in 1 .. i - 1 /\ j \in 1 .. Len(p)
      BY <1>n, <1>3, <2>1
    <3>2. r[j] = p[j]
      BY <1>3, <1>4, <1>5, <3>1
    <3> QED
      BY <1>3, <2>1, <3>1, <3>2
  <2>2. CASE ~(j < i)
    <3>1. j - (i - 1) \in 1 .. n - i /\ i + (j - (i - 1)) = j + 1
      BY <1>n, <2>2
    <3>2. r[j] = q[j - (i - 1)]
      <4>1. p \in Seq(Events) /\ q \in Seq(Events)
        BY <1>3, <1>4
      <4>2. \A k \in 1 .. Len(p) + Len(q) :
               (p \o q)[k] = IF k <= Len(p) THEN p[k] ELSE q[k - Len(p)]
        BY <4>1, ConcatProperties
      <4>0. i - 1 \in Nat /\ n - i \in Nat
        BY <1>n
      <4>3. PICK a \in Nat, b \in Nat : a = i - 1 /\ b = n - i /\ Len(p) = a /\ Len(q) = b
        BY <1>3, <1>4, <4>0
      <4>4. j \in 1 .. a + b /\ ~(j <= a)
        BY <1>n, <2>2, <4>3
      <4>5. (p \o q)[j] = q[j - a]
        BY <4>2, <4>3, <4>4
      <4> QED
        BY <1>5, <4>3, <4>5
    <3> QED
      BY <1>4, <2>2, <3>1, <3>2
  <2> QED
    BY <2>1, <2>2
<1> QED
  BY <1>n, <1>6, <1>7

(* Unlinking an event takes it, and only it, out of the list.              *)
LEMMA ListRemoved ==
    ASSUME NEW s, List(s), NEW e
    PROVE  List(RemoveFirst(s, e)) /\ Range(RemoveFirst(s, e)) = Range(s) \ {e}
<1>0. s \in Seq(Events)
  BY DEF List
<1>n. PICK n \in Nat : n = Len(s) /\ DOMAIN s = 1 .. n
  BY <1>0, ListMembers
<1>1. CASE ~ \E i \in 1 .. Len(s) : s[i] = e
  <2>1. RemoveFirst(s, e) = s
    BY <1>1 DEF RemoveFirst
  <2>2. e \notin Range(s)
    BY <1>0, <1>1, ListMembers
  <2> QED
    BY <2>1, <2>2
<1>2. CASE \E i \in 1 .. Len(s) : s[i] = e
  <2> DEFINE I == {i \in 1 .. Len(s) : s[i] = e}
  <2>1. PICK i : i = Min(I)
    OBVIOUS
  <2>2. i \in 1 .. n /\ s[i] = e
    <3>1. I \in SUBSET Nat /\ I # {}
      BY <1>n, <1>2
    <3>2. Min(I) \in I
      <4> HIDE DEF I
      <4> QED
        BY <3>1, MinLeast
    <3> QED
      BY <1>n, <2>1, <3>2
  <2>3. PICK r : r = RemoveFirst(s, e)
    OBVIOUS
  <2>4. r = RemoveAt(s, i)
    <3>1. SelectInSeq(s, LAMBDA v : v = e) = Min(I)
      BY <1>2 DEF SelectInSeq
    <3> QED
      BY <1>2, <2>1, <2>3, <3>1 DEF RemoveFirst
  <2>5. /\ r \in Seq(Events) /\ Len(r) = n - 1
        /\ \A j \in 1 .. n - 1 : r[j] = IF j < i THEN s[j] ELSE s[j + 1]
    BY <1>0, <1>n, <2>2, <2>4, ListRemoveAt, ZenonT(60)
  <2> DEFINE To(j) == IF j < i THEN j ELSE j + 1
  <2>6. \A j \in 1 .. n - 1 : To(j) \in 1 .. n /\ To(j) # i /\ r[j] = s[To(j)]
    BY <1>n, <2>2, <2>5
  <2>7. \A j, k \in 1 .. n - 1 : To(j) = To(k) => j = k
    BY <2>2
  <2>8. \A a \in 1 .. n : a # i => \E j \in 1 .. n - 1 : To(j) = a
    <3> TAKE a \in 1 .. n
    <3> HAVE a # i
    <3>1. CASE a < i
      <4>1. a \in 1 .. n - 1 /\ To(a) = a
        BY <1>n, <2>2, <3>1
      <4> QED
        BY <4>1
    <3>2. CASE a > i
      <4>1. a - 1 \in 1 .. n - 1 /\ To(a - 1) = a
        BY <1>n, <2>2, <3>2
      <4> QED
        BY <4>1
    <3> QED
      BY <2>2, <3>1, <3>2
  <2>9. \A a, b \in 1 .. n : s[a] = s[b] => a = b
    BY <1>n DEF List, IsInjective
  <2> HIDE DEF To
  <2>10. DOMAIN r = 1 .. n - 1 /\ Len(r) = n - 1
    BY <2>5, ListMembers
  <2>11. IsInjective(r)
    BY <2>6, <2>7, <2>9, <2>10 DEF IsInjective
  <2>12. ASSUME NEW x
         PROVE  x \in Range(r) <=> x \in Range(s) /\ x # e
    <3>1. ASSUME x \in Range(r)
          PROVE  x \in Range(s) /\ x # e
      <4>1. PICK j \in 1 .. n - 1 : r[j] = x
        BY <2>5, <2>10, <3>1, ListMembers
      <4>2. To(j) \in 1 .. n /\ To(j) # i /\ x = s[To(j)]
        BY <2>6, <4>1
      <4> QED
        BY <1>0, <1>n, <2>2, <2>9, <4>2, ListMembers
    <3>2. ASSUME x \in Range(s), x # e
          PROVE  x \in Range(r)
      <4>1. PICK a \in 1 .. n : s[a] = x
        BY <1>0, <1>n, <3>2, ListMembers
      <4>2. PICK j \in 1 .. n - 1 : To(j) = a
        BY <2>2, <2>8, <3>2, <4>1
      <4>3. r[j] = x
        BY <2>6, <4>1, <4>2
      <4> QED
        BY <2>5, <2>10, <4>3, ListMembers
    <3> QED
      BY <3>1, <3>2
  <2>13. Range(r) = Range(s) \ {e}
    BY <2>12
  <2> QED
    BY <2>3, <2>5, <2>11, <2>13 DEF List
<1> QED
  BY <1>1, <1>2

(* Linking an event puts it in front.                                      *)
LEMMA ListPushed ==
    ASSUME NEW s, List(s), NEW e \in Events, e \notin Range(s)
    PROVE  List(<<e>> \o s) /\ Range(<<e>> \o s) = Range(s) \cup {e}
<1>0. s \in Seq(Events)
  BY DEF List
<1>n. PICK n \in Nat : n = Len(s) /\ DOMAIN s = 1 .. n
  BY <1>0, ListMembers
<1>1. PICK r : r = <<e>> \o s
  OBVIOUS
<1>2. r \in Seq(Events) /\ Len(r) = n + 1 /\ DOMAIN r = 1 .. n + 1
  <2>1. <<e>> \in Seq(Events) /\ Len(<<e>>) = 1
    OBVIOUS
  <2>2. r \in Seq(Events) /\ Len(r) = 1 + n
    BY <1>0, <1>n, <1>1, <2>1, ConcatProperties
  <2>3. DOMAIN r = 1 .. Len(r)
    BY <2>2, ListMembers
  <2> QED
    BY <1>n, <2>2, <2>3
<1>3. r[1] = e /\ \A i \in 1 .. n : r[i + 1] = s[i]
  BY <1>0, <1>n, <1>1
<1>4. \A i \in 1 .. n + 1 : i = 1 \/ (i - 1 \in 1 .. n /\ r[i] = s[i - 1])
  <2> TAKE i \in 1 .. n + 1
  <2>1. i = 1 \/ (i - 1 \in 1 .. n /\ (i - 1) + 1 = i)
    BY <1>n
  <2> QED
    BY <1>3, <2>1
<1>5. \A i \in 1 .. n : s[i] # e
  BY <1>0, <1>n, ListMembers
<1>6. \A a, b \in 1 .. n : s[a] = s[b] => a = b
  BY <1>n DEF List, IsInjective
<1>7. IsInjective(r)
  <2> SUFFICES ASSUME NEW a \in 1 .. n + 1, NEW b \in 1 .. n + 1, r[a] = r[b]
               PROVE  a = b
    BY <1>2 DEF IsInjective
  <2>1. CASE a = 1
    BY <1>3, <1>4, <1>5, <2>1
  <2>2. CASE b = 1
    BY <1>3, <1>4, <1>5, <2>2
  <2>3. CASE a # 1 /\ b # 1
    <3>1. a - 1 \in 1 .. n /\ b - 1 \in 1 .. n /\ s[a - 1] = s[b - 1]
      BY <1>4, <2>3
    <3>2. a - 1 = b - 1
      BY <1>6, <3>1
    <3> QED
      BY <3>2
  <2> QED
    BY <2>1, <2>2, <2>3
<1>8. ASSUME NEW x PROVE x \in Range(r) <=> x = e \/ x \in Range(s)
  <2>1. ASSUME x \in Range(r)
        PROVE  x = e \/ x \in Range(s)
    <3>1. PICK i \in 1 .. n + 1 : r[i] = x
      BY <1>2, <2>1, ListMembers
    <3> QED
      BY <1>0, <1>n, <1>3, <1>4, <3>1, ListMembers
  <2>2. e \in Range(r)
    <3>1. 1 \in 1 .. n + 1
      BY <1>n
    <3> QED
      BY <1>2, <1>3, <3>1, ListMembers
  <2>3. ASSUME x \in Range(s)
        PROVE  x \in Range(r)
    <3>1. PICK i \in 1 .. n : s[i] = x
      BY <1>0, <1>n, <2>3, ListMembers
    <3>2. i + 1 \in 1 .. n + 1 /\ r[i + 1] = x
      BY <1>n, <1>3, <3>1
    <3> QED
      BY <1>2, <3>2, ListMembers
  <2> QED
    BY <2>1, <2>2, <2>3
<1> QED
  BY <1>1, <1>2, <1>7, <1>8 DEF List

(* Popping takes the first event.                                          *)
LEMMA ListPopped ==
    ASSUME NEW s, List(s), s # <<>>
    PROVE  /\ List(Tail(s)) /\ Head(s) \in Range(s) /\ Head(s) \in Events
           /\ Range(Tail(s)) = Range(s) \ {Head(s)}
<1>0. s \in Seq(Events)
  BY DEF List
<1>n. PICK n \in Nat : n = Len(s) /\ DOMAIN s = 1 .. n
  BY <1>0, ListMembers
<1>1. n # 0
  BY <1>0, <1>n, EmptySeq
<1>2. PICK r : r = Tail(s)
  OBVIOUS
<1>3. /\ r \in Seq(Events) /\ Len(r) = n - 1 /\ DOMAIN r = 1 .. n - 1
      /\ \A i \in 1 .. n - 1 : r[i] = s[i + 1]
  <2>1. r \in Seq(Events) /\ Len(r) = n - 1 /\ \A i \in 1 .. Len(r) : r[i] = s[i + 1]
    BY <1>0, <1>n, <1>2, HeadTailProperties
  <2>2. DOMAIN r = 1 .. Len(r)
    BY <2>1, ListMembers
  <2> QED
    BY <2>1, <2>2
<1>4. Head(s) = s[1] /\ 1 \in 1 .. n
  BY <1>0, <1>n, <1>1
<1>5. \A a, b \in 1 .. n : s[a] = s[b] => a = b
  BY <1>n DEF List, IsInjective
<1>6. IsInjective(r)
  <2> SUFFICES ASSUME NEW a \in 1 .. n - 1, NEW b \in 1 .. n - 1, r[a] = r[b]
               PROVE  a = b
    BY <1>3 DEF IsInjective
  <2>1. a + 1 \in 1 .. n /\ b + 1 \in 1 .. n /\ s[a + 1] = s[b + 1]
    BY <1>3
  <2>2. a + 1 = b + 1
    BY <1>5, <2>1
  <2> QED
    BY <2>2
<1>7. ASSUME NEW x PROVE x \in Range(r) <=> x \in Range(s) /\ x # s[1]
  <2>1. ASSUME x \in Range(r)
        PROVE  x \in Range(s) /\ x # s[1]
    <3>1. PICK i \in 1 .. n - 1 : r[i] = x
      BY <1>3, <2>1, ListMembers
    <3>2. i + 1 \in 1 .. n /\ i + 1 # 1 /\ s[i + 1] = x
      BY <1>3, <3>1
    <3> QED
      BY <1>0, <1>n, <1>4, <1>5, <3>2, ListMembers
  <2>2. ASSUME x \in Range(s), x # s[1]
        PROVE  x \in Range(r)
    <3>1. PICK i \in 1 .. n : s[i] = x
      BY <1>0, <1>n, <2>2, ListMembers
    <3>2. i - 1 \in 1 .. n - 1 /\ (i - 1) + 1 = i
      BY <2>2, <3>1
    <3>3. r[i - 1] = x
      BY <1>3, <3>1, <3>2
    <3> QED
      BY <1>3, <3>2, <3>3, ListMembers
  <2> QED
    BY <2>1, <2>2
<1>8. s[1] \in Range(s) /\ s[1] \in Events
  BY <1>0, <1>n, <1>4, ListMembers
<1> QED
  BY <1>2, <1>3, <1>4, <1>6, <1>7, <1>8 DEF List

-----------------------------------------------------------------------------
(* The inductive invariant.                                                *)

(* The tick an event is due at, not reduced modulo Ticks, and how many     *)
(* slots of level l the hand has still to go until then.                   *)
Due(e) == now[0] + Delay(e)
Gap(e, l) == Due(e) \div Span[l] - now[0] \div Span[l]

(* The types of the variables, those of the call in progress included.     *)
Types ==
    /\ now \in [0..MaxLevel -> Nat] /\ \A l \in 0..MaxLevel : now[l] \in 0..(HandRange(l) - 1)
    /\ pending \in 0..(Ticks - 1) /\ at \in [Events -> 0..(Ticks - 1)]
    /\ call \in [phase : {"idle", "enter", "drain", "callback"}, level : 0..MaxLevel,
                 delta : 0..(Ticks - 2), resumed : BOOLEAN,
                 budget : [0..MaxLevel -> Int]]

(* Every hand shows the time of level 0, except that a hand above the      *)
(* level which advance() is about to leave may lag behind by one slot.     *)
Lags(l) ==
    /\ call.phase = "enter" /\ ~call.resumed
    /\ l > call.level /\ now[0] % Span[l] = 0
Hands ==
    \A l \in 0..MaxLevel :
       now[0] \div Span[l] = IF Lags(l) THEN (now[l] + 1) % HandRange(l) ELSE now[l]

(* advance() works at a level only when its slot begins, and owes ticks    *)
(* exactly if it takes up an unfinished call.                              *)
CallOK ==
    call.phase # "idle" =>
        now[0] % Span[call.level] = 0 /\ (call.resumed <=> pending # 0)

(* Each event is linked at one position, in S.                             *)
Wheel(S) ==
    /\ S \in [0..MaxLevel -> [0..(NumSlots - 1) -> Seq(Events)]]
    /\ \A l \in 0..MaxLevel, i \in 0..(NumSlots - 1) : List(S[l][i])
    /\ \A l, m \in 0..MaxLevel, i, j \in 0..(NumSlots - 1) :
          <<l, i>> # <<m, j>> => Range(S[l][i]) \cap Range(S[m][j]) = {}

(* The hand of level l is at a slot that begins now and has still to be    *)
(* drained: the advance() in progress, or the one that takes it up, will.  *)
Waits(l) ==
    /\ now[0] % Span[l] = 0
    /\ \/ call.phase = "enter"
       \/ call.phase \in {"drain", "callback"} /\ l <= call.level
       \/ call.phase = "idle" /\ pending # 0

(* An event waits in the slot of the tick it is due at, less than a round  *)
(* ahead of the hand, and under the hand only if the slot is still to be   *)
(* drained.                                                                *)
Placed(e, l, i) ==
    /\ i = Index(Due(e) \div Span[l])
    /\ Gap(e, l) \in 0..(NumSlots - 1)
    /\ Gap(e, l) = 0 => Waits(l)
AllPlaced ==
    \A l \in 0..MaxLevel, i \in 0..(NumSlots - 1) : \A e \in Linked(l, i) : Placed(e, l, i)

WheelInv == Types /\ Hands /\ CallOK /\ Wheel(slots) /\ AllPlaced

-----------------------------------------------------------------------------
(* The wheel as a whole: what linking, unlinking and popping change.       *)

(* A wheel is a wheel if its lists are lists and share no event.           *)
LEMMA WheelIntro ==
    ASSUME NEW S, S \in [0..MaxLevel -> [0..(NumSlots - 1) -> Seq(Events)]],
           \A l \in 0..MaxLevel, i \in 0..(NumSlots - 1) : List(S[l][i]),
           \A l, m \in 0..MaxLevel, i, j \in 0..(NumSlots - 1) :
              \A x \in Range(S[l][i]) : x \in Range(S[m][j]) => l = m /\ i = j
    PROVE  Wheel(S)
  BY DEF Wheel

(* An event is in one slot only.                                           *)
LEMMA WheelOne ==
    ASSUME NEW S, Wheel(S), NEW l \in 0..MaxLevel, NEW m \in 0..MaxLevel,
           NEW i \in 0..(NumSlots - 1), NEW j \in 0..(NumSlots - 1),
           NEW x \in Range(S[l][i]), x \in Range(S[m][j])
    PROVE  l = m /\ i = j
  BY DEF Wheel

(* Unlinking takes the event out of whichever slot it is in.               *)
LEMMA WheelUnlink ==
    ASSUME NEW S, Wheel(S), NEW e, NEW R, R = Unlink(S, e)
    PROVE  /\ Wheel(R)
           /\ \A l \in 0..MaxLevel, i \in 0..(NumSlots - 1) : Range(R[l][i]) = Range(S[l][i]) \ {e}
<1>1. \A l \in 0..MaxLevel, i \in 0..(NumSlots - 1) : R[l][i] = RemoveFirst(S[l][i], e)
  BY DEF Unlink
<1>2. \A l \in 0..MaxLevel, i \in 0..(NumSlots - 1) :
         List(R[l][i]) /\ Range(R[l][i]) = Range(S[l][i]) \ {e}
  BY <1>1, ListRemoved DEF Wheel
<1>3. R \in [0..MaxLevel -> [0..(NumSlots - 1) -> Seq(Events)]]
  <2>1. \A l \in 0..MaxLevel, i \in 0..(NumSlots - 1) : RemoveFirst(S[l][i], e) \in Seq(Events)
    BY <1>1, <1>2 DEF List
  <2> QED
    BY <2>1 DEF Unlink
<1>4. \A l, m \in 0..MaxLevel, i, j \in 0..(NumSlots - 1) :
         \A x \in Range(R[l][i]) : x \in Range(R[m][j]) => l = m /\ i = j
  BY <1>2, WheelOne
<1>5. \A l \in 0..MaxLevel, i \in 0..(NumSlots - 1) : List(R[l][i])
  BY <1>2
<1>6. Wheel(R)
  BY <1>3, <1>4, <1>5, WheelIntro
<1> QED
  BY <1>2, <1>6

(* R is the wheel S with the event e in slot i of level l, and only there. *)
Relinked(R, S, e, l, i) ==
    /\ Wheel(R)
    /\ \A m \in 0..MaxLevel, j \in 0..(NumSlots - 1) :
          Range(R[m][j]) = IF m = l /\ j = i THEN Range(S[l][i]) \cup {e}
                           ELSE Range(S[m][j]) \ {e}

(* Linking an event puts it into one slot and takes it out of any other.   *)
LEMMA WheelRelink ==
    ASSUME NEW S, Wheel(S), NEW e \in Events, NEW l \in 0..MaxLevel,
           NEW i \in 0..(NumSlots - 1), NEW R, R = Relink(S, e, l, i)
    PROVE  Relinked(R, S, e, l, i)
<1>1. CASE e \in Range(S[l][i])
  <2>1. R = S
    BY <1>1 DEF Relink
  <2>2. \A m \in 0..MaxLevel, j \in 0..(NumSlots - 1) : e \in Range(S[m][j]) => m = l /\ j = i
    BY <1>1, WheelOne
  <2> QED
    BY <1>1, <2>1, <2>2 DEF Relinked
<1>2. CASE e \notin Range(S[l][i])
  <2>1. PICK U : U = Unlink(S, e)
    OBVIOUS
  <2>2. /\ Wheel(U)
        /\ \A m \in 0..MaxLevel, j \in 0..(NumSlots - 1) : Range(U[m][j]) = Range(S[m][j]) \ {e}
    BY <2>1, WheelUnlink
  <2>3. U \in [0..MaxLevel -> [0..(NumSlots - 1) -> Seq(Events)]]
        /\ \A m \in 0..MaxLevel, j \in 0..(NumSlots - 1) : List(U[m][j])
    BY <2>2 DEF Wheel
  <2>4. R = [U EXCEPT ![l][i] = <<e>> \o @]
    BY <1>2, <2>1 DEF Relink
  <2>5. \A m \in 0..MaxLevel, j \in 0..(NumSlots - 1) :
           R[m][j] = IF m = l /\ j = i THEN <<e>> \o U[l][i] ELSE U[m][j]
    BY <2>3, <2>4, ZenonT(60)
  <2>6. List(<<e>> \o U[l][i]) /\ Range(<<e>> \o U[l][i]) = Range(U[l][i]) \cup {e}
    BY <2>2, <2>3, ListPushed
  <2>7. \A m \in 0..MaxLevel, j \in 0..(NumSlots - 1) : List(R[m][j])
    BY <2>3, <2>5, <2>6
  <2>8. R \in [0..MaxLevel -> [0..(NumSlots - 1) -> Seq(Events)]]
    <3>1. <<e>> \o U[l][i] \in Seq(Events)
      BY <2>6 DEF List
    <3> QED
      BY <2>3, <2>4, <3>1
  <2>9. \A m \in 0..MaxLevel, j \in 0..(NumSlots - 1) :
           Range(R[m][j]) = IF m = l /\ j = i THEN Range(S[l][i]) \cup {e}
                            ELSE Range(S[m][j]) \ {e}
    <3> TAKE m \in 0..MaxLevel, j \in 0..(NumSlots - 1)
    <3>1. CASE m = l /\ j = i
      <4>1. Range(R[m][j]) = (Range(S[l][i]) \ {e}) \cup {e}
        BY <2>2, <2>5, <2>6, <3>1
      <4> QED
        BY <3>1, <4>1
    <3>2. CASE ~(m = l /\ j = i)
      <4>1. R[m][j] = U[m][j] /\ Range(U[m][j]) = Range(S[m][j]) \ {e}
        BY <2>2, <2>5, <3>2
      <4> QED
        BY <3>2, <4>1
    <3> QED
      BY <3>1, <3>2
  <2>10. ASSUME NEW k \in 0..MaxLevel, NEW m \in 0..MaxLevel, NEW h \in 0..(NumSlots - 1),
                NEW j \in 0..(NumSlots - 1), NEW x \in Range(R[k][h]), x \in Range(R[m][j])
         PROVE  k = m /\ h = j
    <3>0. /\ Range(R[k][h]) = IF k = l /\ h = i THEN Range(S[l][i]) \cup {e} ELSE Range(S[k][h]) \ {e}
          /\ Range(R[m][j]) = IF m = l /\ j = i THEN Range(S[l][i]) \cup {e} ELSE Range(S[m][j]) \ {e}
          /\ x \in Range(R[k][h]) /\ x \in Range(R[m][j])
      BY <2>9, <2>10
    <3>1. CASE x = e
      BY <3>0, <3>1
    <3>2. CASE x # e
      <4>1. x \in Range(S[k][h]) /\ x \in Range(S[m][j])
        BY <3>0, <3>2
      <4> QED
        BY <4>1, WheelOne
    <3> QED
      BY <3>1, <3>2
  <2>11. \A k, m \in 0..MaxLevel, h, j \in 0..(NumSlots - 1) :
            \A x \in Range(R[k][h]) : x \in Range(R[m][j]) => k = m /\ h = j
    BY <2>10
  <2>12. Wheel(R)
    BY <2>7, <2>8, <2>11, WheelIntro, ZenonT(60)
  <2> QED
    BY <2>9, <2>12 DEF Relinked
<1> QED
  BY <1>1, <1>2

(* R is the wheel S without the first event of slot i of level l, h.       *)
Pops(R, S, l, i, h) == R = [S EXCEPT ![l][i] = Tail(@)] /\ h = Head(S[l][i])
Without(R, S, h) ==
    /\ Wheel(R) /\ h \in Events
    /\ \A m \in 0..MaxLevel, j \in 0..(NumSlots - 1) : Range(R[m][j]) = Range(S[m][j]) \ {h}

(* Popping takes the first event out of the wheel.                         *)
LEMMA WheelPop ==
    ASSUME NEW S, Wheel(S), NEW l \in 0..MaxLevel, NEW i \in 0..(NumSlots - 1),
           S[l][i] # <<>>, NEW R, NEW h, Pops(R, S, l, i, h)
    PROVE  Without(R, S, h) /\ h \in Range(S[l][i])
<1>0. R = [S EXCEPT ![l][i] = Tail(@)] /\ h = Head(S[l][i])
  BY DEF Pops
<1>1. S \in [0..MaxLevel -> [0..(NumSlots - 1) -> Seq(Events)]]
      /\ \A m \in 0..MaxLevel, j \in 0..(NumSlots - 1) : List(S[m][j])
  BY DEF Wheel
<1>2. /\ List(Tail(S[l][i])) /\ h \in Range(S[l][i]) /\ h \in Events
      /\ Range(Tail(S[l][i])) = Range(S[l][i]) \ {h}
  BY <1>0, <1>1, ListPopped
<1>3. \A m \in 0..MaxLevel, j \in 0..(NumSlots - 1) :
         R[m][j] = IF m = l /\ j = i THEN Tail(S[l][i]) ELSE S[m][j]
  BY <1>0, <1>1
<1>4. \A m \in 0..MaxLevel, j \in 0..(NumSlots - 1) : List(R[m][j])
  BY <1>1, <1>2, <1>3
<1>5. R \in [0..MaxLevel -> [0..(NumSlots - 1) -> Seq(Events)]]
  <2>1. Tail(S[l][i]) \in Seq(Events)
    BY <1>2 DEF List
  <2> QED
    BY <1>0, <1>1, <2>1
<1>6. \A m \in 0..MaxLevel, j \in 0..(NumSlots - 1) : h \in Range(S[m][j]) => m = l /\ j = i
  BY <1>2, WheelOne
<1>7. \A m \in 0..MaxLevel, j \in 0..(NumSlots - 1) : Range(R[m][j]) = Range(S[m][j]) \ {h}
  BY <1>2, <1>3, <1>6
<1>8. ASSUME NEW k \in 0..MaxLevel, NEW m \in 0..MaxLevel, NEW g \in 0..(NumSlots - 1),
             NEW j \in 0..(NumSlots - 1), NEW x \in Range(R[k][g]), x \in Range(R[m][j])
      PROVE  k = m /\ g = j
  <2>1. x \in Range(S[k][g]) /\ x \in Range(S[m][j])
    BY <1>7, <1>8
  <2>2. PICK z \in Range(S[k][g]) : z = x
    BY <2>1
  <2>3. z \in Range(S[m][j])
    BY <2>1, <2>2
  <2> QED
    BY <2>3, WheelOne
<1>9. \A k, m \in 0..MaxLevel, g, j \in 0..(NumSlots - 1) :
         \A x \in Range(R[k][g]) : x \in Range(R[m][j]) => k = m /\ g = j
  BY <1>8
<1>10. Wheel(R)
  BY <1>4, <1>5, <1>9, WheelIntro
<1> QED
  BY <1>2, <1>7, <1>10 DEF Without

-----------------------------------------------------------------------------
(* Where schedule() puts an event.                                         *)

(* The slots of level l between the ticks x and y.                         *)
Apart(x, y, l) == y \div Span[l] - x \div Span[l]

(* The tick of a level, from that of the level below.                      *)
LEMMA LevelUp ==
    ASSUME NEW l \in 0..MaxLevel, NEW x \in Int
    PROVE  /\ x \div Span[l] \in Int /\ x \div Span[l + 1] \in Int
           /\ x \div Span[l + 1] = (x \div Span[l]) \div NumSlots
           /\ x % Span[l + 1] = Span[l] * ((x \div Span[l]) % NumSlots) + (x % Span[l])
<1>1. PICK s \in Nat \ {0} : s = Span[l] /\ Span[l + 1] = NumSlots * s
  BY Constants
<1>2. NumSlots \in Nat \ {0} /\ NumSlots * s = s * NumSlots
  BY Constants, Z3
<1>3. s * NumSlots \in Nat \ {0}
  BY <1>2, Product
<1>4. (x \div s) \div NumSlots = x \div (s * NumSlots)
      /\ x % (s * NumSlots) = s * ((x \div s) % NumSlots) + (x % s)
  BY <1>2, DivDiv
<1>5. x \div s \in Int /\ x \div (s * NumSlots) \in Int
  BY <1>3, DivMod
<1> QED
  BY <1>1, <1>2, <1>4, <1>5

(* One round of the loop of schedule(), but for the overflow.              *)
LEMMA ApartUp ==
    ASSUME NEW l \in 0..MaxLevel, NEW x \in Int, NEW y \in Int
    PROVE  /\ Apart(x, y, l) \in Int
           /\ Apart(x, y, l + 1) = (Apart(x, y, l) + Index(x \div Span[l])) \div NumSlots
<1>1. PICK u \in Int, v \in Int : u = y \div Span[l] /\ v = x \div Span[l]
  BY LevelUp
<1>2. y \div Span[l + 1] = u \div NumSlots /\ x \div Span[l + 1] = v \div NumSlots
  BY <1>1, LevelUp
<1>3. NumSlots \in Nat \ {0}
  BY Constants
<1>4. PICK p \in Int, r \in 0..(NumSlots - 1) :
         p = v \div NumSlots /\ r = v % NumSlots /\ v = NumSlots * p + r
  BY <1>3, DivMod
<1>5. NumSlots * p \in Int /\ NumSlots * (-p) = -(NumSlots * p) /\ -p \in Int
  BY <1>3, Z3
<1>6. (u - v) + r = u + NumSlots * (-p)
  BY <1>4, <1>5
<1>7. (u + NumSlots * (-p)) \div NumSlots = u \div NumSlots + (-p)
  BY <1>3, <1>5, DivShift
<1>8. u \div NumSlots \in Int
  BY <1>3, DivMod
<1>9. u \div NumSlots + (-p) = u \div NumSlots - p
  BY <1>8
<1>10. Apart(x, y, l) = u - v /\ Index(x \div Span[l]) = r
  BY <1>1, <1>4 DEF Apart, Index
<1> QED
  BY <1>2, <1>4, <1>6, <1>7, <1>9, <1>10 DEF Apart

(* A slot leaves room for a round of the lowest level.                     *)
LEMMA RoomAbove ==
    ASSUME NEW l \in 0..MaxLevel
    PROVE  Span[l] <= Span[MaxLevel] /\ Span[l] - 1 + NumSlots <= Ticks
<1>0. l \in 0..Levels /\ MaxLevel \in 0..Levels /\ l <= MaxLevel /\ NumSlots \in Nat \ {0, 1}
  BY Constants
<1>1. PICK m \in Nat \ {0} : m = Span[MaxLevel] /\ Ticks = NumSlots * m
  BY Constants
<1>2. PICK s \in Nat \ {0} : s = Span[l]
  BY <1>0, Constants
<1>3. PICK k \in Nat \ {0} : m = s * k
  BY <1>0, <1>1, <1>2, SpanMultiple
<1>4. s <= s * k
  BY Z3
<1>5. m - 1 + NumSlots <= NumSlots * m
  <2>1. NumSlots * m = m + (NumSlots - 1) * m
    BY <1>0, Z3
  <2>2. (NumSlots - 1) * m >= NumSlots - 1 /\ (NumSlots - 1) * m \in Int
    BY <1>0, Z3
  <2> QED
    BY <1>0, <2>1, <2>2
<1>6. s <= m
  BY <1>3, <1>4
<1>7. NumSlots * m \in Int
  BY <1>0, Product
<1> QED
  BY <1>0, <1>1, <1>2, <1>5, <1>6, <1>7

(* Without overflow, what is left of the delay is less than Ticks, so that *)
(* the next round does not overflow either.                                *)
LEMMA ApartSmall ==
    ASSUME NEW x \in 0..(Ticks - 1), NEW d \in Nat, d + NumSlots <= Ticks
    PROVE  /\ Apart(x, x + d, 0) = d
           /\ \A l \in 0..Levels : Apart(x, x + d, l) \in Nat
                                   /\ Apart(x, x + d, l) + NumSlots <= Ticks
<1>0. Ticks \in Nat /\ NumSlots \in Nat \ {0, 1} /\ Levels \in Nat /\ Span[0] = 1
      /\ x \in Int /\ x + d \in Int
  BY Constants
<1>1. Apart(x, x + d, 0) = d
  <2>1. \A z \in Int : z \div 1 = z
    OBVIOUS
  <2> QED
    BY <1>0, <2>1 DEF Apart
<1> DEFINE S == {l \in 0..Levels : Apart(x, x + d, l) \in Nat
                                   /\ Apart(x, x + d, l) + NumSlots <= Ticks}
<1>2. 0 \in S
  BY <1>0, <1>1
<1>3. ASSUME NEW l \in 0..(Levels - 1), l \in S
      PROVE  l + 1 \in S
  <2>1. l \in 0..MaxLevel /\ l + 1 \in 0..Levels
    BY Constants
  <2>2. PICK a \in Nat : a = Apart(x, x + d, l) /\ a + NumSlots <= Ticks
    BY <1>3
  <2>3. PICK r \in 0..(NumSlots - 1) : r = Index(x \div Span[l])
    <3>1. x \div Span[l] \in Int
      BY <1>0, <2>1, LevelUp
    <3>2. NumSlots \in Nat \ {0}
      BY <1>0
    <3>3. (x \div Span[l]) % NumSlots \in 0..(NumSlots - 1)
      BY <3>1, <3>2, DivMod
    <3> QED
      BY <3>3 DEF Index
  <2>4. PICK m \in Nat \ {0} : m = Span[MaxLevel] /\ Ticks = NumSlots * m
    BY Constants
  <2>5. Apart(x, x + d, l + 1) = (a + r) \div NumSlots
    BY <1>0, <2>1, <2>2, <2>3, ApartUp
  <2>6. a + r \in 0..(NumSlots * m - 1)
    BY <1>0, <2>2, <2>3, <2>4
  <2>7. (a + r) \div NumSlots \in 0..(m - 1)
    BY <1>0, <2>4, <2>6, DivRange
  <2>8. m - 1 + NumSlots <= NumSlots * m
    <3>1. MaxLevel \in 0..MaxLevel
      BY Constants
    <3> QED
      BY <2>4, <3>1, RoomAbove
  <2>9. PICK b \in 0..(m - 1) : b = (a + r) \div NumSlots
    BY <2>7
  <2>10. b \in Nat /\ b + NumSlots <= Ticks
    BY <1>0, <2>4, <2>8, <2>9
  <2> QED
    BY <2>1, <2>5, <2>9, <2>10
<1> HIDE DEF S
<1>4. \A l \in 0..Levels : l \in S
  BY <1>0, <1>2, <1>3, UpTo
<1> QED
  BY <1>1, <1>4 DEF S

(* Each round of the loop of schedule() leaves the slots between the hand  *)
(* of its level and the tick at which the event is due.                    *)
LEMMA LeftIsApart ==
    ASSUME NEW x \in 0..(Ticks - 1), NEW d \in Nat, d + NumSlots <= Ticks,
           NEW n, \A l \in 0..MaxLevel : n[l] = x \div Span[l]
    PROVE  \A l \in 0..Levels : Left(n, d)[l] = Apart(x, x + d, l)
<1>0. Ticks \in Nat /\ NumSlots \in Nat \ {0, 1} /\ Levels \in Nat /\ x \in Int /\ x + d \in Int
  BY Constants
<1> DEFINE Round(l, a) == ((a + Index(n[l - 1])) % Ticks) \div NumSlots
           Rounds(f) == [l \in 0..Levels |-> IF l = 0 THEN d ELSE Round(l, f[l - 1])]
           A(l) == Apart(x, x + d, l)
<1>1. \A l \in 0..Levels : A(l) \in Nat /\ A(l) + NumSlots <= Ticks
  BY ApartSmall
<1>2. ASSUME NEW l \in 0..Levels, l # 0
      PROVE  l - 1 \in 0..MaxLevel /\ l - 1 \in 0..Levels /\ Round(l, A(l - 1)) = A(l)
  <2>1. l - 1 \in 0..MaxLevel /\ l - 1 \in 0..Levels /\ (l - 1) + 1 = l
    BY <1>2, Constants
  <2>2. PICK a \in Nat : a = A(l - 1) /\ a + NumSlots <= Ticks
    BY <1>1, <2>1
  <2>3. PICK r \in 0..(NumSlots - 1) : r = Index(n[l - 1]) /\ r = Index(x \div Span[l - 1])
    <3>1. x \div Span[l - 1] \in Int
      BY <1>0, <2>1, LevelUp
    <3>2. NumSlots \in Nat \ {0}
      BY <1>0
    <3>3. (x \div Span[l - 1]) % NumSlots \in 0..(NumSlots - 1)
      BY <3>1, <3>2, DivMod
    <3> QED
      BY <2>1, <3>3 DEF Index
  <2>4. A(l) = (a + r) \div NumSlots
    <3>1. Apart(x, x + d, (l - 1) + 1) = (Apart(x, x + d, l - 1) + Index(x \div Span[l - 1])) \div NumSlots
      BY <1>0, <2>1, ApartUp
    <3> QED
      BY <2>1, <2>2, <2>3, <3>1
  <2>5. (a + r) % Ticks = a + r
    <3>1. PICK c \in 0..(Ticks - 1) : c = a + r
      BY <1>0, <2>2
    <3>2. Ticks \in Nat \ {0}
      BY <1>0
    <3>3. c % Ticks = c
      BY <3>2, ModSmall
    <3> QED
      BY <3>1, <3>3
  <2> QED
    BY <2>1, <2>2, <2>3, <2>4, <2>5
<1>3. A(0) = d
  BY ApartSmall
<1>4. PICK g : g = [l \in 0..Levels |-> A(l)]
  OBVIOUS
<1>5. g = Rounds(g)
  <2>1. ASSUME NEW l \in 0..Levels
        PROVE  g[l] = IF l = 0 THEN d ELSE Round(l, g[l - 1])
    <3>1. CASE l = 0
      BY <1>3, <1>4, <3>1
    <3>2. CASE l # 0
      <4>1. l - 1 \in 0..Levels /\ Round(l, A(l - 1)) = A(l)
        BY <1>2, <3>2
      <4>2. g[l] = A(l) /\ g[l - 1] = A(l - 1)
        BY <1>4, <4>1
      <4> QED
        BY <3>2, <4>1, <4>2
    <3> QED
      BY <3>1, <3>2
  <2> HIDE DEF Round, A
  <2> QED
    BY <1>4, <2>1
<1>6. Left(n, d) = Rounds(Left(n, d))
  BY <1>5 DEF Left
<1>7. PICK f : f = Left(n, d) /\ f = Rounds(f)
  BY <1>6
<1>8. \A l \in 0..Levels : f[l] = IF l = 0 THEN d ELSE Round(l, f[l - 1])
  <2> HIDE DEF Round
  <2> QED
    BY <1>7
<1> DEFINE S == {l \in 0..Levels : f[l] = A(l)}
<1>9. 0 \in S
  <2>1. 0 \in 0..Levels
    BY <1>0
  <2> QED
    BY <1>3, <1>8, <2>1
<1>10. ASSUME NEW l \in 0..(Levels - 1), l \in S
       PROVE  l + 1 \in S
  <2>1. l + 1 \in 0..Levels /\ l + 1 # 0 /\ (l + 1) - 1 = l
    BY <1>0
  <2>2. f[l] = A(l)
    BY <1>10
  <2>3. f[l + 1] = Round(l + 1, A(l))
    <3> HIDE DEF Round, A
    <3> QED
      BY <1>8, <2>1, <2>2
  <2>4. Round(l + 1, A(l)) = A(l + 1)
    <3>1. Round(l + 1, A((l + 1) - 1)) = A(l + 1)
      BY <1>2, <2>1
    <3> QED
      BY <2>1, <3>1
  <2> QED
    BY <2>1, <2>3, <2>4
<1> HIDE DEF S
<1>11. \A l \in 0..Levels : l \in S
  BY <1>0, <1>9, <1>10, UpTo
<1> QED
  BY <1>7, <1>11 DEF S

(* schedule() ends its loop at the first level where the event is due less *)
(* than a round ahead.                                                     *)
LEMMA PlaceLow ==
    ASSUME NEW x \in 0..(Ticks - 1), NEW d \in Nat, d + NumSlots <= Ticks,
           NEW n, \A l \in 0..MaxLevel : n[l] = x \div Span[l],
           NEW l \in 0..MaxLevel, Apart(x, x + d, l) < NumSlots
    PROVE  Place(n, d)[1] \in 0..MaxLevel /\ Place(n, d)[1] <= l
<1>0. NumSlots \in Nat /\ Levels \in Nat \ {0} /\ MaxLevel = Levels - 1 /\ l \in 0..Levels
  BY Constants
<1>1. Left(n, d)[l] = Apart(x, x + d, l)
  BY <1>0, LeftIsApart
<1> DEFINE T == {m \in 0..Levels : Left(n, d)[m] < NumSlots \/ m = Levels}
<1>2. T \in SUBSET Nat /\ l \in T
  BY <1>0, <1>1
<1>3. Min(T) \in T /\ Min(T) <= l
  <2> HIDE DEF T
  <2> QED
    BY <1>2, MinLeast
<1>4. Place(n, d)[1] = Min(T)
  BY DEF Place
<1> QED
  BY <1>0, <1>3, <1>4

(* schedule() puts the event on the lowest level where it is due less than *)
(* a round ahead, and not under the hand.                                  *)
LEMMA PlaceRight ==
    ASSUME NEW x \in 0..(Ticks - 1), NEW d \in Nat \ {0}, d + NumSlots <= Ticks,
           NEW n, \A l \in 0..MaxLevel : n[l] = x \div Span[l],
           NEW p, p = Place(n, d), p[1] < Levels
    PROVE  p[1] \in 0..MaxLevel /\ p[2] = Apart(x, x + d, p[1]) /\ p[2] \in 1..(NumSlots - 1)
<1>0. Ticks \in Nat /\ NumSlots \in Nat \ {0, 1} /\ Levels \in Nat \ {0} /\ x \in Int /\ x + d \in Int
      /\ MaxLevel = Levels - 1
  BY Constants
<1>1. \A l \in 0..Levels : Left(n, d)[l] = Apart(x, x + d, l) /\ Apart(x, x + d, l) \in Nat
  BY LeftIsApart, ApartSmall
<1> DEFINE T == {l \in 0..Levels : Left(n, d)[l] < NumSlots \/ l = Levels}
<1>2. T \in SUBSET Nat /\ T # {}
  <2>1. Levels \in T
    BY <1>0
  <2> QED
    BY <2>1
<1>3. Min(T) \in T /\ \A l \in T : Min(T) <= l
  <2> HIDE DEF T
  <2> QED
    BY <1>2, MinLeast
<1>4. p[1] = Min(T) /\ p[2] = Left(n, d)[Min(T)]
  BY DEF Place
<1>5. p[1] \in 0..MaxLevel /\ p[1] \in 0..Levels /\ Left(n, d)[p[1]] < NumSlots
  BY <1>0, <1>3, <1>4
<1>6. p[2] = Apart(x, x + d, p[1]) /\ p[2] \in Nat /\ p[2] < NumSlots
  BY <1>1, <1>4, <1>5
<1>7. p[2] # 0
  <2>1. CASE p[1] = 0
    <3>1. p[2] = d
      BY <1>6, <2>1, ApartSmall
    <3> QED
      BY <3>1
  <2>2. CASE p[1] # 0
    <3>1. PICK l \in 0..MaxLevel : l + 1 = p[1]
      <4>1. p[1] - 1 \in 0..MaxLevel /\ (p[1] - 1) + 1 = p[1]
        BY <1>0, <1>5, <2>2
      <4> QED
        BY <4>1
    <3>2. l \in 0..Levels /\ ~(p[1] <= l)
      BY <1>0, <1>5, <3>1
    <3>3. l \notin T
      BY <1>3, <1>4, <3>2
    <3>4. PICK a \in Nat : a = Apart(x, x + d, l) /\ a >= NumSlots
      BY <1>0, <1>1, <3>2, <3>3
    <3>5. PICK r \in 0..(NumSlots - 1) : r = Index(x \div Span[l])
      <4>1. x \div Span[l] \in Int /\ NumSlots \in Nat \ {0}
        BY <1>0, LevelUp
      <4>2. (x \div Span[l]) % NumSlots \in 0..(NumSlots - 1)
        BY <4>1, DivMod
      <4> QED
        BY <4>2 DEF Index
    <3>6. p[2] = (a + r) \div NumSlots
      <4>1. Apart(x, x + d, l + 1) = (Apart(x, x + d, l) + Index(x \div Span[l])) \div NumSlots
        BY <1>0, ApartUp
      <4> QED
        BY <1>6, <3>1, <3>4, <3>5, <4>1
    <3>7. NumSlots \div NumSlots <= (a + r) \div NumSlots
      <4>1. NumSlots <= a + r /\ a + r \in Int /\ NumSlots \in Int /\ NumSlots \in Nat \ {0}
        BY <1>0, <3>4, <3>5
      <4> QED
        BY <4>1, DivMono
    <3>8. NumSlots \div NumSlots = 1
      <4>1. NumSlots = NumSlots * 1 + 0 /\ 0 \in 0..(NumSlots - 1) /\ NumSlots \in Nat \ {0}
        BY <1>0
      <4> QED
        BY <4>1, DivUnique
    <3> QED
      BY <1>6, <3>6, <3>7, <3>8
  <2> QED
    BY <2>1, <2>2
<1> QED
  BY <1>0, <1>5, <1>6, <1>7

-----------------------------------------------------------------------------
(* The passing of time.                                                    *)

(* A delay, by cases.                                                      *)
LEMMA DelayCases ==
    ASSUME NEW x \in 0..(Ticks - 1), NEW a \in 0..(Ticks - 1)
    PROVE  /\ (a - x) % Ticks = IF a >= x THEN a - x ELSE a - x + Ticks
           /\ (a - x) % Ticks \in 0..(Ticks - 1)
<1>0. Ticks \in Nat \ {0}
  BY Constants
<1>1. CASE a >= x
  <2>1. PICK r \in 0..(Ticks - 1) : r = a - x
    BY <1>0, <1>1
  <2>2. r % Ticks = r
    BY <1>0, ModSmall
  <2> QED
    BY <1>1, <2>1, <2>2
<1>2. CASE ~(a >= x)
  <2>1. PICK r \in 0..(Ticks - 1) : r = a - x + Ticks
    BY <1>0, <1>2
  <2>2. PICK q \in Int : q = -1
    OBVIOUS
  <2>3. a - x \in Int /\ a - x = Ticks * q + r
    BY <1>0, <2>1, <2>2
  <2>4. (a - x) % Ticks = r
    BY <1>0, <2>3, DivUnique
  <2> QED
    BY <1>2, <2>1, <2>4
<1> QED
  BY <1>1, <1>2

(* One tick on.                                                            *)
LEMMA TickCases ==
    ASSUME NEW x \in 0..(Ticks - 1)
    PROVE  /\ (x + 1) % Ticks = IF x = Ticks - 1 THEN 0 ELSE x + 1
           /\ (x + 1) % Ticks \in 0..(Ticks - 1)
<1>0. Ticks \in Nat \ {0}
  BY Constants
<1>1. CASE x = Ticks - 1
  <2>1. PICK q \in Int, r \in 0..(Ticks - 1) : q = 1 /\ r = 0
    BY <1>0
  <2>2. x + 1 \in Int /\ x + 1 = Ticks * q + r
    BY <1>0, <1>1, <2>1
  <2>3. (x + 1) % Ticks = r
    BY <1>0, <2>2, DivUnique
  <2> QED
    BY <1>1, <2>1, <2>3
<1>2. CASE x # Ticks - 1
  <2>1. PICK r \in 0..(Ticks - 1) : r = x + 1
    BY <1>0, <1>2
  <2>2. r % Ticks = r
    BY <1>0, ModSmall
  <2> QED
    BY <1>2, <2>1, <2>2
<1> QED
  BY <1>1, <1>2

(* A delay is one less, one tick on.                                       *)
LEMMA DelayTicks ==
    ASSUME NEW x \in 0..(Ticks - 1), NEW a \in 0..(Ticks - 1), NEW y, y = (x + 1) % Ticks,
           a # x
    PROVE  (a - y) % Ticks = ((a - x) % Ticks) - 1
<1>0. Ticks \in Nat \ {0}
  BY Constants
<1>1. y \in 0..(Ticks - 1) /\ y = IF x = Ticks - 1 THEN 0 ELSE x + 1
  BY TickCases
<1>2. (a - y) % Ticks = IF a >= y THEN a - y ELSE a - y + Ticks
  BY <1>1, DelayCases
<1>3. (a - x) % Ticks = IF a >= x THEN a - x ELSE a - x + Ticks
  BY DelayCases
<1> QED
  BY <1>0, <1>1, <1>2, <1>3

(* The range of the hand of a level.                                       *)
LEMMA HandRanges ==
    ASSUME NEW l \in 0..MaxLevel
    PROVE  /\ HandRange(l) \in Nat \ {0} /\ Ticks = Span[l] * HandRange(l)
           /\ HandRange(0) = Ticks
           /\ \E k \in Nat \ {0} : HandRange(l) = NumSlots * k
<1>1. l \in 0..Levels /\ Levels - l \in 0..Levels /\ Levels - l - 1 \in 0..MaxLevel
      /\ (Levels - l - 1) + 1 = Levels - l /\ Levels - 0 = Levels /\ Levels - l - 1 \in 0..Levels
  BY Constants
<1>2. HandRange(l) = Span[Levels - l]
  BY DEF HandRange
<1>3. Span[Levels - l] = NumSlots * Span[Levels - l - 1] /\ Span[Levels - l - 1] \in Nat \ {0}
  BY <1>1, Constants
<1>4. HandRange(0) = Ticks
  BY <1>1, Constants DEF HandRange
<1> QED
  BY <1>1, <1>2, <1>3, <1>4, SpanProduct, Constants

(* A tick shows on a level what it is modulo its round.                    *)
LEMMA ShowsRange ==
    ASSUME NEW l \in 0..MaxLevel, NEW x \in 0..(Ticks - 1)
    PROVE  x \div Span[l] \in 0..(HandRange(l) - 1)
<1>1. PICK s \in Nat \ {0}, h \in Nat : s = Span[l] /\ h = HandRange(l) /\ Ticks = s * h
  BY HandRanges, Constants
<1>2. x \in 0..(s * h - 1)
  BY <1>1
<1>3. x \div s \in 0..(h - 1)
  BY <1>2, DivRange
<1> QED
  BY <1>1, <1>3

(* When time wraps around, every level has made whole rounds.              *)
LEMMA WrapLevel ==
    ASSUME NEW l \in 0..MaxLevel, NEW z \in Int
    PROVE  /\ (z - Ticks) \div Span[l] = z \div Span[l] - HandRange(l)
           /\ (z - Ticks) % Span[l] = z % Span[l]
           /\ Index((z - Ticks) \div Span[l]) = Index(z \div Span[l])
<1>1. PICK s \in Nat \ {0}, h \in Nat \ {0} : s = Span[l] /\ h = HandRange(l) /\ Ticks = s * h
  BY HandRanges, Constants, ZenonT(60)
<1>2. PICK k \in Nat \ {0} : h = NumSlots * k
  BY <1>1, HandRanges
<1>3. s * (-h) = -(s * h) /\ NumSlots * (-k) = -(NumSlots * k) /\ s * h \in Int /\ -h \in Int
      /\ -k \in Int /\ NumSlots \in Nat \ {0}
  BY Constants, Z3
<1>4. z - Ticks = z + s * (-h)
  BY <1>1, <1>3
<1>5. (z + s * (-h)) \div s = z \div s + (-h) /\ (z + s * (-h)) % s = z % s
  BY <1>3, DivShift
<1>6. PICK u \in Int : u = z \div s
  BY DivMod
<1>7. u + (-h) = u - h /\ u - h = u + NumSlots * (-k)
  BY <1>2, <1>3
<1>8. (u + NumSlots * (-k)) % NumSlots = u % NumSlots
  BY <1>3, DivShift
<1> QED
  BY <1>1, <1>4, <1>5, <1>6, <1>7, <1>8 DEF Index

(* From the tick x to y: the hand of level l moves if its slot begins, and *)
(* comes one slot closer to the tick z ahead.                              *)
Moves(x, y, z, l) ==
    /\ y % Span[l] # 0 => y \div Span[l] = x \div Span[l]
    /\ y % Span[l] = 0 => y \div Span[l] = (x \div Span[l] + 1) % HandRange(l)
    /\ Index((z + (y - x - 1)) \div Span[l]) = Index(z \div Span[l])
    /\ Apart(y, z + (y - x - 1), l)
          = IF y % Span[l] = 0 THEN Apart(x, z, l) - 1 ELSE Apart(x, z, l)

(* A tick moves the hands.                                                 *)
LEMMA TickLevel ==
    ASSUME NEW l \in 0..MaxLevel, NEW x \in 0..(Ticks - 1), NEW y, y = (x + 1) % Ticks,
           NEW z \in Int
    PROVE  Moves(x, y, z, l)
<1>1. PICK s \in Nat \ {0}, h \in Nat \ {0} : s = Span[l] /\ h = HandRange(l) /\ Ticks = s * h
  BY HandRanges, Constants, SMTT(60)
<1>0. Ticks \in Nat \ {0} /\ x \in Int
  BY Constants
<1>2. y \in 0..(Ticks - 1) /\ y = IF x = Ticks - 1 THEN 0 ELSE x + 1
  BY TickCases
<1>3. PICK t \in 0..(h - 1) : t = y \div s
  BY <1>1, <1>2, ShowsRange
<1>4. PICK u \in Int : u = x \div s
  BY <1>0, DivMod
<1>5. (x + 1) \div s = IF (x + 1) % s = 0 THEN u + 1 ELSE u
  BY <1>0, <1>4, DivNext
<1>6. PICK v \in Int : v = z \div s
  BY DivMod
<1>7. PICK r \in Int : r = y % s
  BY <1>2, DivMod
<1>8. CASE x # Ticks - 1
  <2>1. y = x + 1 /\ z + (y - x - 1) = z
    BY <1>2, <1>8
  <2>2. t = IF r = 0 THEN u + 1 ELSE u
    BY <1>3, <1>5, <1>7, <2>1
  <2>3. r = 0 => (u + 1) % h = u + 1
    <3>1. r = 0 => u + 1 \in 0..(h - 1)
      BY <2>2
    <3> QED
      BY <3>1, ModSmall
  <2>4. Apart(y, z + (y - x - 1), l) = v - t /\ Apart(x, z, l) = v - u
    BY <1>1, <1>3, <1>4, <1>6, <2>1 DEF Apart
  <2>5. v - t = IF r = 0 THEN (v - u) - 1 ELSE v - u
    BY <2>2
  <2> QED
    BY <1>1, <1>3, <1>4, <1>7, <2>1, <2>2, <2>3, <2>4, <2>5 DEF Moves
<1>9. CASE x = Ticks - 1
  <2>1. y = 0 /\ z + (y - x - 1) = z - Ticks /\ x + 1 \in Int /\ (x + 1) - Ticks = y
    BY <1>0, <1>2, <1>9
  <2>2. r = 0 /\ t = 0
    <3>1. 0 \in 0..(s - 1)
      OBVIOUS
    <3>2. 0 % s = 0 /\ 0 \div s = 0
      BY <3>1, ModSmall
    <3> QED
      BY <1>3, <1>7, <2>1, <3>2
  <2>3. y \div s = (x + 1) \div s - h /\ y % s = (x + 1) % s
    BY <1>1, <2>1, WrapLevel
  <2>4. u + 1 = h
    <3>1. (x + 1) \div s = u + 1
      BY <1>5, <1>7, <2>2, <2>3
    <3> QED
      BY <1>3, <2>2, <2>3, <3>1
  <2>5. (u + 1) % h = 0
    <3>1. PICK q \in Int, c \in 0..(h - 1) : q = 1 /\ c = 0
      OBVIOUS
    <3>2. u + 1 \in Int /\ u + 1 = h * q + c
      BY <2>4, <3>1
    <3>3. (u + 1) % h = c
      BY <3>2, DivUnique
    <3> QED
      BY <3>1, <3>3
  <2>6. (z - Ticks) \div s = v - h /\ Index((z - Ticks) \div s) = Index(v)
    BY <1>1, <1>6, WrapLevel
  <2>7. Apart(y, z + (y - x - 1), l) = (v - h) - t /\ Apart(x, z, l) = v - u
    BY <1>1, <1>3, <1>4, <1>6, <2>1, <2>6 DEF Apart
  <2>8. (v - h) - t = (v - u) - 1
    BY <2>2, <2>4
  <2>9. t = (u + 1) % h
    BY <2>2, <2>5
  <2> QED
    BY <1>1, <1>3, <1>4, <1>6, <1>7, <2>1, <2>2, <2>6, <2>7, <2>8, <2>9 DEF Moves
<1> QED
  BY <1>8, <1>9

-----------------------------------------------------------------------------
(* What the invariant says of the variables and of an event that waits.    *)

(* The types, as the proofs use them.                                      *)
LEMMA WheelTypes ==
    ASSUME Types
    PROVE  /\ now[0] \in 0..(Ticks - 1) /\ now[0] \in Int /\ now[0] \div Span[0] = now[0]
           /\ now[0] % Span[0] = 0 /\ 0 \in 0..MaxLevel
           /\ \A l \in 0..MaxLevel : now[l] \in 0..(HandRange(l) - 1) /\ now[l] \in Nat
           /\ pending \in 0..(Ticks - 1) /\ at \in [Events -> 0..(Ticks - 1)]
           /\ call.phase \in {"idle", "enter", "drain", "callback"}
           /\ call.level \in 0..MaxLevel /\ call.delta \in 0..(Ticks - 2)
           /\ call.resumed \in BOOLEAN /\ call.budget \in [0..MaxLevel -> Int]
           /\ DOMAIN now = 0..MaxLevel
<1>1. 0 \in 0..MaxLevel /\ Span[0] = 1 /\ Ticks \in Nat
  BY Constants
<1>2. now[0] \in 0..(Ticks - 1)
  BY <1>1, HandRanges DEF Types
<1>3. \A z \in Int : z \div 1 = z /\ z % 1 = 0
  OBVIOUS
<1>4. now[0] \in Int
  BY <1>1, <1>2
<1>5. now[0] \div Span[0] = now[0] /\ now[0] % Span[0] = 0
  BY <1>1, <1>3, <1>4
<1> QED
  BY <1>1, <1>2, <1>4, <1>5 DEF Types

(* Outside the climb of advance() all hands show the time.                 *)
LEMMA HandsShow ==
    ASSUME Hands, call.phase # "enter" \/ call.resumed
    PROVE  \A l \in 0..MaxLevel : now[l] = now[0] \div Span[l]
  BY DEF Hands, Lags

(* Ticks that are less than a round apart and in the same slot are in the  *)
(* same round.                                                             *)
LEMMA SameSlot ==
    ASSUME NEW u \in Int, NEW v \in Int, v - u \in 0..(NumSlots - 1), Index(u) = Index(v)
    PROVE  u = v
<1>0. NumSlots \in Nat \ {0}
  BY Constants
<1>1. PICK p \in Int, r \in 0..(NumSlots - 1) : u = NumSlots * p + r /\ r = u % NumSlots
  BY <1>0, DivMod
<1>2. PICK q \in Int : v = NumSlots * q + r
  <2>1. v \div NumSlots \in Int /\ v = NumSlots * (v \div NumSlots) + (v % NumSlots)
    BY <1>0, DivMod
  <2> QED
    BY <1>1, <2>1 DEF Index
<1>3. NumSlots * p \in Int /\ NumSlots * q \in Int
  BY <1>0, Product
<1>4. ~(p < q)
  BY <1>0, <1>1, <1>2, <1>3, MultiplesApart
<1>5. ~(q < p)
  BY <1>0, <1>1, <1>2, <1>3, MultiplesApart
<1> QED
  BY <1>1, <1>2, <1>4, <1>5

(* An event that waits.                                                    *)
LEMMA Waiting ==
    ASSUME WheelInv, NEW l \in 0..MaxLevel, NEW i \in 0..(NumSlots - 1), NEW e \in Linked(l, i)
    PROVE  /\ e \in Events /\ at[e] \in 0..(Ticks - 1) /\ Delay(e) \in 0..(Ticks - 1)
           /\ Due(e) \in Int /\ Placed(e, l, i) /\ Gap(e, l) = Apart(now[0], Due(e), l)
           /\ Delay(e) = (IF at[e] >= now[0] THEN at[e] - now[0] ELSE at[e] - now[0] + Ticks)
           /\ Delay(e) = 0 => Gap(e, l) = 0
           /\ now[0] \div Span[l] \in Int /\ Due(e) \div Span[l] \in Int
<1>0. now[0] \in 0..(Ticks - 1) /\ now[0] \in Int /\ at \in [Events -> 0..(Ticks - 1)]
  BY WheelTypes DEF WheelInv
<1>1. e \in Events
  <2>1. slots[l][i] \in Seq(Events)
    BY DEF WheelInv, Wheel
  <2> QED
    BY <2>1, ListMembers DEF Linked
<1>2. Placed(e, l, i)
  BY DEF WheelInv, AllPlaced
<1>3. /\ Delay(e) = (IF at[e] >= now[0] THEN at[e] - now[0] ELSE at[e] - now[0] + Ticks)
      /\ Delay(e) \in 0..(Ticks - 1)
  BY <1>0, <1>1, DelayCases DEF Delay
<1>4. Ticks \in Nat
  BY Constants
<1>5. Due(e) \in Int
  BY <1>0, <1>3, <1>4 DEF Due
<1>6. now[0] \div Span[l] \in Int /\ Due(e) \div Span[l] \in Int
  BY <1>0, <1>5, LevelUp
<1>7. Delay(e) = 0 => Due(e) = now[0]
  BY <1>0 DEF Due
<1>8. Delay(e) = 0 => Gap(e, l) = 0
  <2>1. ASSUME Due(e) = now[0] PROVE Gap(e, l) = 0
    BY <1>6, <2>1 DEF Gap
  <2> QED
    BY <1>7, <2>1
<1> QED
  BY <1>0, <1>1, <1>2, <1>3, <1>5, <1>6, <1>8 DEF Gap, Apart

(* The events that the hand of a level has reached are those of Current.   *)
LEMMA UnderHand ==
    ASSUME WheelInv, call.phase \in {"drain", "callback"}, NEW i \in 0..(NumSlots - 1),
           NEW e \in Linked(call.level, i)
    PROVE  Gap(e, call.level) = 0 <=> i = Index(now[call.level])
<1>1. call.level \in 0..MaxLevel
  BY WheelTypes DEF WheelInv
<1>2. now[call.level] = now[0] \div Span[call.level]
  BY <1>1, HandsShow DEF WheelInv
<1>3. PICK u \in Int, v \in Int : u = now[0] \div Span[call.level] /\ v = Due(e) \div Span[call.level]
  BY <1>1, Waiting
<1>4. Gap(e, call.level) = v - u /\ i = Index(v) /\ v - u \in 0..(NumSlots - 1)
  BY <1>1, <1>3, Waiting DEF Gap, Placed
<1>5. v - u = 0 => u = v
  OBVIOUS
<1>6. Index(u) = Index(v) => u = v
  BY <1>4, SameSlot
<1> QED
  BY <1>2, <1>3, <1>4, <1>5, <1>6

(* The current slot is one of the wheel.                                   *)
LEMMA CurrentSlot ==
    ASSUME Types
    PROVE  Index(now[call.level]) \in 0..(NumSlots - 1) /\ call.level \in 0..MaxLevel
<1>1. call.level \in 0..MaxLevel /\ now[call.level] \in Int
  BY WheelTypes
<1>2. NumSlots \in Nat \ {0}
  BY Constants
<1> QED
  BY <1>1, <1>2, DivMod DEF Index

(* An event of the slot that is being drained is due within the slot, and  *)
(* at the lowest level now.                                                *)
LEMMA CurrentDue ==
    ASSUME WheelInv, call.phase = "drain", NEW e \in Range(Current)
    PROVE  /\ e \in Linked(call.level, Index(now[call.level])) /\ e \in Events
           /\ at[e] >= now[0] /\ Delay(e) = at[e] - now[0] /\ Delay(e) < Span[call.level]
           /\ Delay(e) \in Nat /\ at[e] \in Nat /\ now[0] \in Nat
           /\ Apart(now[0], Due(e), call.level) = 0
<1> DEFINE c == call.level
           i == Index(now[c])
<1>1. c \in 0..MaxLevel /\ i \in 0..(NumSlots - 1) /\ e \in Linked(c, i)
  BY CurrentSlot DEF WheelInv, Linked, Current
<1>2. Gap(e, c) = 0
  BY <1>1, UnderHand
<1>3. /\ now[0] \in 0..(Ticks - 1) /\ at[e] \in 0..(Ticks - 1) /\ e \in Events
      /\ Delay(e) = (IF at[e] >= now[0] THEN at[e] - now[0] ELSE at[e] - now[0] + Ticks)
      /\ Due(e) \in Int /\ Gap(e, c) = Apart(now[0], Due(e), c) /\ Delay(e) \in 0..(Ticks - 1)
  BY <1>1, Waiting, WheelTypes DEF WheelInv
<1>4. PICK s \in Nat \ {0}, h \in Nat : s = Span[c] /\ h = HandRange(c) /\ Ticks = s * h
  BY <1>1, HandRanges, Constants, SMTT(60)
<1>5. PICK u \in 0..(h - 1) : u = now[0] \div s
  BY <1>1, <1>3, <1>4, ShowsRange
<1>6. now[0] = s * u
  <2>1. now[0] % s = 0
    BY <1>4 DEF WheelInv, CallOK
  <2>2. now[0] \in Int
    BY <1>3, Constants
  <2>3. now[0] = s * (now[0] \div s) + (now[0] % s)
    BY <2>2, DivMod
  <2> QED
    BY <1>5, <2>1, <2>2, <2>3, Product
<1>7. PICK r \in 0..(s - 1) : Due(e) = s * u + r
  <2>1. PICK v \in Int : v = Due(e) \div s
    BY <1>1, <1>3, <1>4, LevelUp
  <2>2. v - u = 0
    BY <1>2, <1>4, <1>5, <2>1 DEF Gap
  <2>3. Due(e) % s \in 0..(s - 1) /\ Due(e) = s * v + (Due(e) % s)
    BY <1>3, <2>1, DivMod
  <2>4. v = u
    BY <2>2
  <2> QED
    BY <2>3, <2>4
<1>8. s * u \in Int /\ s * u + s <= s * h
  <2>1. u < h /\ u \in Int /\ h \in Int
    OBVIOUS
  <2> QED
    BY <2>1, MultiplesApart, Product
<1>9. Delay(e) = r
  BY <1>3, <1>6, <1>7, <1>8 DEF Due
<1>10. at[e] >= now[0]
  BY <1>3, <1>4, <1>6, <1>8, <1>9
<1> QED
  BY <1>1, <1>2, <1>3, <1>4, <1>9, <1>10

(* When time moves on, no event is due.                                    *)
LEMMA NoneDue ==
    ASSUME WheelInv,
           \/ call.phase = "idle" /\ pending = 0
           \/ call.phase = "drain" /\ call.level = 0 /\ Current = <<>>,
           NEW l \in 0..MaxLevel, NEW i \in 0..(NumSlots - 1), NEW e \in Linked(l, i)
    PROVE  Gap(e, l) # 0 /\ Delay(e) # 0 /\ at[e] # now[0]
<1>1. Gap(e, l) # 0
  <2> SUFFICES ASSUME Gap(e, l) = 0 PROVE FALSE
    OBVIOUS
  <2>1. Waits(l)
    BY Waiting DEF Placed
  <2>2. call.phase = "drain" /\ call.level = 0 /\ Current = <<>> /\ l <= call.level
    BY <2>1 DEF Waits
  <2>3. l = 0
    BY <2>2, Constants
  <2>4. i = Index(now[call.level])
    BY <2>2, <2>3, UnderHand
  <2>5. e \in Range(<<>>)
    BY <2>2, <2>3, <2>4 DEF Linked, Current
  <2> QED
    BY <2>5 DEF Range
<1>2. Delay(e) # 0
  BY <1>1, Waiting
<1>3. at[e] # now[0]
  <2>1. now[0] \in Int /\ Delay(e) = (IF at[e] >= now[0] THEN at[e] - now[0] ELSE at[e] - now[0] + Ticks)
    BY Waiting, WheelTypes DEF WheelInv
  <2> QED
    BY <1>2, <2>1
<1> QED
  BY <1>1, <1>2, <1>3

-----------------------------------------------------------------------------
(* Every step keeps the invariant.                                         *)

(* Time moves on by a tick.                                                *)
LEMMA TickStep ==
    ASSUME WheelInv, now' = [now EXCEPT ![0] = (@ + 1) % Ticks], slots' = slots, at' = at,
           call'.phase = "enter", call'.resumed = FALSE, call'.level = 0,
           \/ call.phase = "idle" /\ pending = 0
           \/ call.phase = "drain" /\ call.level = 0 /\ Current = <<>>
    PROVE  /\ now' \in [0..MaxLevel -> Nat]
           /\ \A l \in 0..MaxLevel : now'[l] \in 0..(HandRange(l) - 1)
           /\ now'[0] % Span[0] = 0 /\ Hands' /\ Wheel(slots)' /\ AllPlaced'
<1>0. /\ now \in [0..MaxLevel -> Nat] /\ now[0] \in 0..(Ticks - 1) /\ 0 \in 0..MaxLevel
      /\ now[0] \in Int /\ Ticks \in Nat \ {0} /\ HandRange(0) = Ticks
      /\ \A l \in 0..MaxLevel : now[l] \in 0..(HandRange(l) - 1)
  BY WheelTypes, Constants, HandRanges, ZenonT(60) DEF WheelInv, Types
<1>1. \A l \in 0..MaxLevel : now[l] = now[0] \div Span[l]
  BY HandsShow DEF WheelInv
<1>y. PICK y : y = now'[0]
  OBVIOUS
<1>x. PICK x \in 0..(Ticks - 1) : x = now[0] /\ y = now'[0] /\ x \in Int
  BY <1>0, <1>y
<1>2. y = (x + 1) % Ticks /\ y \in 0..(Ticks - 1) /\ \A l \in 0..MaxLevel : l # 0 => now'[l] = now[l]
  BY <1>0, <1>x, TickCases
<1>3. y \in Int
  BY <1>0, <1>2
<1>4. now' \in [0..MaxLevel -> Nat] /\ \A l \in 0..MaxLevel : now'[l] \in 0..(HandRange(l) - 1)
  <2>1. y \in Nat
    BY <1>0, <1>2
  <2> QED
    BY <1>0, <1>x, <1>2, <2>1
<1>5. y \div Span[0] = y /\ y % Span[0] = 0
  <2>1. \A z \in Int : z \div 1 = z /\ z % 1 = 0
    OBVIOUS
  <2> QED
    BY <1>3, <2>1, Constants
<1>6. Hands'
  <2> SUFFICES ASSUME NEW l \in 0..MaxLevel
               PROVE  y \div Span[l] = IF Lags(l)' THEN (now'[l] + 1) % HandRange(l) ELSE now'[l]
    BY <1>x DEF Hands, HandRange
  <2>1. CASE l = 0
    BY <1>x, <1>5, <2>1 DEF Lags
  <2>2. CASE l # 0
    <3>1. Lags(l)' <=> y % Span[l] = 0
      <4>1. l > 0
        BY <2>2, Constants
      <4>2. now'[0] % Span[l] = y % Span[l]
        BY <1>x
      <4> QED
        BY <4>1, <4>2 DEF Lags
    <3>2. now'[l] = x \div Span[l]
      BY <1>x, <1>1, <1>2, <2>2
    <3>3. /\ y % Span[l] # 0 => y \div Span[l] = x \div Span[l]
          /\ y % Span[l] = 0 => y \div Span[l] = (x \div Span[l] + 1) % HandRange(l)
      <4>1. 0 \in Int
        OBVIOUS
      <4>2. Moves(x, y, 0, l)
        BY <1>2, <4>1, TickLevel
      <4> QED
        BY <4>2 DEF Moves
    <3> QED
      BY <3>1, <3>2, <3>3
  <2> QED
    BY <2>1, <2>2
<1>7. AllPlaced'
  <2> SUFFICES ASSUME NEW l \in 0..MaxLevel, NEW i \in 0..(NumSlots - 1), NEW e \in Linked(l, i)
               PROVE  Placed(e, l, i)'
    BY DEF AllPlaced, Linked
  <2>1. /\ e \in Events /\ at[e] \in 0..(Ticks - 1) /\ Delay(e) \in 0..(Ticks - 1)
        /\ Due(e) \in Int /\ Placed(e, l, i) /\ Gap(e, l) = Apart(x, Due(e), l)
    BY <1>x, Waiting
  <2>2. Gap(e, l) # 0 /\ at[e] # x
    BY <1>x, NoneDue
  <2>3. Delay(e)' = Delay(e) - 1
    <3>1. (at[e] - y) % Ticks = ((at[e] - x) % Ticks) - 1
      BY <1>2, <2>1, <2>2, DelayTicks
    <3> QED
      BY <1>x, <3>1 DEF Delay
  <2>4. PICK z \in Int : z = Due(e)
    BY <2>1
  <2>5. Due(e)' = z + (y - x - 1)
    <3>1. PICK D \in Int : D = Delay(e)
      BY <1>0, <2>1
    <3>2. z = x + D /\ Due(e)' = y + (D - 1)
      BY <1>x, <2>3, <2>4, <3>1 DEF Due
    <3>3. \A a, b, c \in Int : b + (c - 1) = a + c + (b - a - 1)
      OBVIOUS
    <3>4. x \in Int /\ y \in Int
      BY <1>x, <1>3
    <3>5. y + (D - 1) = x + D + (y - x - 1)
      BY <3>3, <3>4, Zenon
    <3> QED
      BY <3>2, <3>5
  <2>6. /\ Index((z + (y - x - 1)) \div Span[l]) = Index(z \div Span[l])
        /\ Apart(y, z + (y - x - 1), l)
              = IF y % Span[l] = 0 THEN Apart(x, z, l) - 1 ELSE Apart(x, z, l)
    <3>1. Moves(x, y, z, l)
      BY <1>2, TickLevel
    <3> QED
      BY <3>1 DEF Moves
  <2>7. PICK g \in 1..(NumSlots - 1) : g = Gap(e, l)
    BY <2>1, <2>2, Constants DEF Placed
  <2>8. Gap(e, l)' = IF y % Span[l] = 0 THEN g - 1 ELSE g
    BY <1>x, <2>1, <2>4, <2>5, <2>6, <2>7 DEF Gap, Apart
  <2>9. i = Index(Due(e)' \div Span[l])
    BY <2>1, <2>4, <2>5, <2>6 DEF Placed
  <2>10. Gap(e, l)' \in 0..(NumSlots - 1)
    BY <2>8, Constants
  <2>11. Gap(e, l)' = 0 => Waits(l)'
    BY <1>x, <2>8 DEF Waits
  <2> QED
    BY <2>9, <2>10, <2>11 DEF Placed, Index
<1>8. Wheel(slots)'
  BY DEF WheelInv
<1> QED
  BY <1>x, <1>4, <1>5, <1>6, <1>7, <1>8

(* A delay that has just been set.                                         *)
LEMMA DelayNew ==
    ASSUME NEW x \in 0..(Ticks - 1), NEW d \in 0..(Ticks - 1)
    PROVE  (x + d) % Ticks \in 0..(Ticks - 1) /\ (((x + d) % Ticks) - x) % Ticks = d
<1>0. Ticks \in Nat \ {0}
  BY Constants
<1>1. PICK a \in 0..(Ticks - 1) : a = (x + d) % Ticks
  BY <1>0, DivMod
<1>2. a = IF x + d < Ticks THEN x + d ELSE x + d - Ticks
  <2>1. CASE x + d < Ticks
    <3>1. PICK r \in 0..(Ticks - 1) : r = x + d
      BY <1>0, <2>1
    <3>2. r % Ticks = r
      BY <1>0, ModSmall
    <3> QED
      BY <1>1, <2>1, <3>1, <3>2
  <2>2. CASE ~(x + d < Ticks)
    <3>1. PICK q \in Int, r \in 0..(Ticks - 1) : q = 1 /\ r = x + d - Ticks
      BY <1>0, <2>2
    <3>2. x + d \in Int /\ x + d = Ticks * q + r
      BY <1>0, <3>1
    <3>3. (x + d) % Ticks = r
      BY <1>0, <3>2, DivUnique
    <3> QED
      BY <1>1, <2>2, <3>1, <3>3
  <2> QED
    BY <2>1, <2>2
<1>3. (a - x) % Ticks = IF a >= x THEN a - x ELSE a - x + Ticks
  BY DelayCases
<1> QED
  BY <1>0, <1>1, <1>2, <1>3

(* Linking an event that is due in d ticks: it is put into the slot of     *)
(* that tick, ahead of the hand, and taken out of any other.               *)
LEMMA LinkPlaces ==
    ASSUME Types, \A l \in 0..MaxLevel : now[l] = now[0] \div Span[l], NEW S, Wheel(S),
           NEW e \in Events, NEW d \in Nat \ {0}, d + NumSlots <= Ticks,
           Place(now, d)[1] < Levels
    PROVE  \E l \in 0..MaxLevel, i \in 0..(NumSlots - 1) :
              /\ i = Index((now[0] + d) \div Span[l])
              /\ Apart(now[0], now[0] + d, l) \in 1..(NumSlots - 1)
              /\ Relinked(Link(S, e, d), S, e, l, i)
<1>0. now[0] \in 0..(Ticks - 1) /\ now[0] \in Int
  BY WheelTypes
<1>1. PICK p : p = Place(now, d)
  OBVIOUS
<1>2. PICK l \in 0..MaxLevel, g \in 1..(NumSlots - 1) :
         l = p[1] /\ g = p[2] /\ g = Apart(now[0], now[0] + d, l)
  BY <1>0, <1>1, PlaceRight
<1>3. PICK u \in Int, v \in Int : u = now[0] \div Span[l] /\ v = (now[0] + d) \div Span[l]
  <2>1. now[0] + d \in Int
    BY <1>0
  <2> QED
    BY <1>0, <2>1, LevelUp
<1>4. now[l] + g = v
  <2>1. g = v - u /\ now[l] = u
    BY <1>2, <1>3 DEF Apart
  <2> QED
    BY <2>1
<1>5. PICK i \in 0..(NumSlots - 1) : i = Index(v)
  <2>1. NumSlots \in Nat \ {0}
    BY Constants
  <2> QED
    BY <2>1, DivMod DEF Index
<1>6. Link(S, e, d) = Relink(S, e, l, i)
  BY <1>1, <1>2, <1>4, <1>5 DEF Link
<1>7. Relinked(Relink(S, e, l, i), S, e, l, i)
  BY WheelRelink
<1>8. Relinked(Link(S, e, d), S, e, l, i)
  BY <1>6, <1>7
<1>9. i = Index((now[0] + d) \div Span[l]) /\ Apart(now[0], now[0] + d, l) \in 1..(NumSlots - 1)
  BY <1>2, <1>3, <1>5
<1> QED
  BY <1>8, <1>9

(* schedule(): the event is due after the delay that was asked for.        *)
LEMMA ScheduleStep ==
    ASSUME WheelInv, NEW e \in Events, NEW d \in Nat \ {0}, d + NumSlots <= Ticks, Schedule(e, d)
    PROVE  WheelInv' /\ Delay(e)' = d
<1>t. Types /\ Ticks \in Nat \ {0} /\ NumSlots \in Nat \ {0}
  BY Constants DEF WheelInv
<1>0. /\ Types /\ now[0] \in 0..(Ticks - 1) /\ now[0] \in Int /\ at \in [Events -> 0..(Ticks - 1)]
      /\ Ticks \in Nat \ {0} /\ NumSlots \in Nat \ {0}
  BY <1>t, WheelTypes
<1>1. /\ call.phase \in {"idle", "callback"} /\ Place(now, d)[1] < Levels
      /\ at' = [at EXCEPT ![e] = (now[0] + d) % Ticks] /\ slots' = Link(slots, e, d)
      /\ now' = now /\ pending' = pending /\ call' = call
  BY DEF Schedule, Outside
<1>2. \A l \in 0..MaxLevel : now[l] = now[0] \div Span[l]
  BY <1>1, HandsShow DEF WheelInv
<1>3. Wheel(slots)
  BY DEF WheelInv
<1>4. d \in 0..(Ticks - 1)
  BY <1>0
<1>5. (now[0] + d) % Ticks \in 0..(Ticks - 1) /\ (((now[0] + d) % Ticks) - now[0]) % Ticks = d
  BY <1>0, <1>4, DelayNew
<1>6. Types' /\ Delay(e)' = d
  <2>1. at' \in [Events -> 0..(Ticks - 1)] /\ at'[e] = (now[0] + d) % Ticks
    BY <1>0, <1>1, <1>5
  <2>2. Types'
    BY <1>0, <1>1, <2>1 DEF Types, HandRange
  <2>3. Delay(e)' = (at'[e] - now[0]) % Ticks
    BY <1>1 DEF Delay
  <2> QED
    BY <1>5, <2>1, <2>2, <2>3
<1>7. PICK k \in 0..MaxLevel, h \in 0..(NumSlots - 1) :
         /\ h = Index((now[0] + d) \div Span[k])
         /\ Apart(now[0], now[0] + d, k) \in 1..(NumSlots - 1)
         /\ Relinked(Link(slots, e, d), slots, e, k, h)
  BY <1>0, <1>1, <1>2, <1>3, LinkPlaces
<1>8. Wheel(slots')
  BY <1>1, <1>7 DEF Relinked
<1>9. AllPlaced'
  <2> SUFFICES ASSUME NEW l \in 0..MaxLevel, NEW i \in 0..(NumSlots - 1),
                      NEW f \in Range(slots'[l][i])
               PROVE  Placed(f, l, i)'
    BY DEF AllPlaced, Linked
  <2>0. Range(slots'[l][i]) = IF l = k /\ i = h THEN Range(slots[k][h]) \cup {e}
                              ELSE Range(slots[l][i]) \ {e}
    BY <1>1, <1>7 DEF Relinked
  <2>1. CASE f = e
    <3>1. l = k /\ i = h
      BY <2>0, <2>1
    <3>2. Due(e)' = now[0] + d
      BY <1>1, <1>6 DEF Due
    <3>3. Gap(e, k)' = Apart(now[0], now[0] + d, k)
      BY <1>1, <3>2 DEF Gap, Apart
    <3>4. Gap(e, k)' \in 0..(NumSlots - 1) /\ Gap(e, k)' # 0
      BY <1>0, <1>7, <3>3
    <3>5. h = Index(Due(e)' \div Span[k])
      BY <1>7, <3>2
    <3> QED
      BY <2>1, <3>1, <3>4, <3>5 DEF Placed, Index
  <2>2. CASE f # e
    <3>1. f \in Linked(l, i)
      BY <2>0, <2>2 DEF Linked
    <3>2. Placed(f, l, i) /\ f \in Events
      BY <3>1, Waiting
    <3>3. at'[f] = at[f]
      BY <1>0, <1>1, <2>2, <3>2
    <3>4. Delay(f)' = Delay(f)
      BY <1>1, <3>3 DEF Delay
    <3>5. Due(f)' = Due(f)
      BY <1>1, <3>4 DEF Due
    <3> QED
      BY <1>1, <3>2, <3>5 DEF Placed, Gap, Waits, Index
  <2> QED
    BY <2>1, <2>2
<1>10. Hands' /\ CallOK'
  BY <1>1 DEF WheelInv, Hands, Lags, CallOK, HandRange
<1> QED
  BY <1>6, <1>8, <1>9, <1>10 DEF WheelInv

(* A tick at which a slot of level l begins is one at which slots of the   *)
(* levels below begin.                                                     *)
LEMMA Begins ==
    ASSUME NEW m \in 0..MaxLevel, NEW l \in 0..MaxLevel, m <= l, NEW x \in Int, x % Span[l] = 0
    PROVE  x % Span[m] = 0
<1>0. m \in 0..Levels /\ l \in 0..Levels
  BY Constants
<1>1. PICK s \in Nat \ {0}, t \in Nat \ {0} : s = Span[m] /\ t = Span[l]
  BY <1>0, Constants
<1>2. PICK k \in Nat \ {0} : t = s * k
  BY <1>0, <1>1, SpanMultiple
<1>3. PICK q \in Int : x = t * q
  <2>1. x \div t \in Int /\ x = t * (x \div t) + (x % t) /\ x % t = 0
    BY <1>1, DivMod
  <2>2. PICK q \in Int : q = x \div t
    BY <2>1
  <2>3. t * q \in Int
    BY Product
  <2> QED
    BY <2>1, <2>2, <2>3
<1>4. (s * k) * q = s * (k * q) /\ k * q \in Int
  BY Z3
<1>5. PICK p \in Int : p = k * q
  BY <1>4
<1>6. PICK r \in 0..(s - 1) : r = 0
  OBVIOUS
<1>7. x = s * p + r
  <2>1. s * p \in Int
    BY Product
  <2> QED
    BY <1>2, <1>3, <1>4, <1>5, <1>6, <2>1
<1>8. x % s = r
  BY <1>7, DivUnique
<1> QED
  BY <1>1, <1>6, <1>8

(* Above the level at which advance() stops climbing no slot begins.       *)
LEMMA ClimbEnds ==
    ASSUME NEW c \in 0..MaxLevel, NEW x \in Int, x % Span[c] = 0
    PROVE  /\ c < MaxLevel /\ Index(x \div Span[c]) = 0 => x % Span[c + 1] = 0
           /\ Index(x \div Span[c]) # 0 => \A l \in 0..MaxLevel : l > c => x % Span[l] # 0
<1>1. PICK s \in Nat \ {0} : s = Span[c]
  BY Constants
<1>2. PICK r \in Int : r = Index(x \div Span[c]) /\ r >= 0
  <2>1. x \div Span[c] \in Int /\ NumSlots \in Nat \ {0}
    BY LevelUp, Constants
  <2>2. (x \div Span[c]) % NumSlots \in 0..(NumSlots - 1)
    BY <2>1, DivMod
  <2> QED
    BY <2>1, <2>2 DEF Index
<1>3. x % Span[c + 1] = s * r + 0
  BY <1>1, <1>2, LevelUp DEF Index
<1>4. s * r \in Int /\ (r > 0 => s * r > 0) /\ (r = 0 => s * r = 0)
  BY Z3
<1>5. ASSUME r # 0, NEW l \in 0..MaxLevel, l > c
      PROVE  x % Span[l] # 0
  <2>1. c + 1 \in 0..MaxLevel /\ c + 1 <= l
    BY <1>5, Constants
  <2>2. x % Span[c + 1] # 0
    BY <1>2, <1>3, <1>4, <1>5
  <2> QED
    BY <2>1, <2>2, Begins
<1> QED
  BY <1>2, <1>3, <1>4, <1>5

(* Events that stay where they are, while neither they nor time change.    *)
LEMMA PlacedStays ==
    ASSUME WheelInv, now'[0] = now[0], at' = at,
           \A l \in 0..MaxLevel, i \in 0..(NumSlots - 1) : Range(slots'[l][i]) \subseteq Range(slots[l][i]),
           \A l \in 0..MaxLevel, i \in 0..(NumSlots - 1) : \A e \in Range(slots'[l][i]) :
              Gap(e, l) = 0 /\ Waits(l) => Waits(l)'
    PROVE  AllPlaced'
<1> SUFFICES ASSUME NEW l \in 0..MaxLevel, NEW i \in 0..(NumSlots - 1), NEW e \in Range(slots'[l][i])
             PROVE  Placed(e, l, i)'
  BY DEF AllPlaced, Linked
<1>1. e \in Linked(l, i)
  BY DEF Linked
<1>2. Placed(e, l, i)
  BY <1>1, Waiting
<1>3. Due(e)' = Due(e)
  BY DEF Due, Delay
<1>4. Gap(e, l)' = Gap(e, l)
  BY <1>3 DEF Gap
<1>5. Gap(e, l) = 0 => Waits(l)'
  BY <1>2 DEF Placed
<1> QED
  BY <1>2, <1>3, <1>4, <1>5 DEF Placed, Index

(* cancel(): the event leaves its slot.                                    *)
LEMMA CancelStep ==
    ASSUME WheelInv, NEW e \in Events, Cancel(e)
    PROVE  WheelInv'
<1>1. slots' = Unlink(slots, e) /\ now' = now /\ pending' = pending /\ at' = at /\ call' = call
  BY DEF Cancel
<1>2. Wheel(slots)
  BY DEF WheelInv
<1>3. /\ Wheel(slots')
      /\ \A l \in 0..MaxLevel, i \in 0..(NumSlots - 1) : Range(slots'[l][i]) = Range(slots[l][i]) \ {e}
  BY <1>1, <1>2, WheelUnlink
<1>4. \A l \in 0..MaxLevel, i \in 0..(NumSlots - 1) : Range(slots'[l][i]) \subseteq Range(slots[l][i])
  BY <1>3
<1>5. \A l \in 0..MaxLevel : Waits(l) => Waits(l)'
  BY <1>1 DEF Waits
<1>6. AllPlaced'
  BY <1>1, <1>4, <1>5, PlacedStays
<1>7. Types' /\ Hands' /\ CallOK'
  BY <1>1 DEF WheelInv, Types, Hands, Lags, CallOK, HandRange
<1> QED
  BY <1>3, <1>6, <1>7 DEF WheelInv

(* What Popped leaves in the wheel.                                        *)
LEMMA PoppedWheel ==
    ASSUME WheelInv, Current # <<>>
    PROVE  /\ Wheel(Popped) /\ Head(Current) \in Range(Current) /\ Head(Current) \in Events
           /\ \A l \in 0..MaxLevel, i \in 0..(NumSlots - 1) :
                 Range(Popped[l][i]) = Range(slots[l][i]) \ {Head(Current)}
<1>1. Index(now[call.level]) \in 0..(NumSlots - 1) /\ call.level \in 0..MaxLevel
  BY CurrentSlot DEF WheelInv
<1>2. PICK i \in 0..(NumSlots - 1), c \in 0..MaxLevel : i = Index(now[call.level]) /\ c = call.level
  BY <1>1
<1>3. Current = slots[c][i] /\ Popped = [slots EXCEPT ![c][i] = Tail(@)]
  BY <1>2 DEF Current, Popped
<1>4. Wheel(slots)
  BY DEF WheelInv
<1>5. PICK S, R, h : S = slots /\ R = Popped /\ h = Head(Current)
  OBVIOUS
<1>6. Wheel(S) /\ S[c][i] # <<>> /\ Pops(R, S, c, i, h)
  BY <1>3, <1>4, <1>5 DEF Pops
<1>7. Without(R, S, h) /\ h \in Range(S[c][i])
  BY <1>6, WheelPop
<1> QED
  BY <1>3, <1>5, <1>7, ZenonT(60) DEF Without

(* An event that is not due yet moves down.                                *)
LEMMA PromoteStep ==
    ASSUME WheelInv, Promote
    PROVE  WheelInv'
<1>1. PICK e : e = Head(Current)
  OBVIOUS
<1>2. /\ call.phase = "drain" /\ call.level > 0 /\ Current # <<>> /\ now[0] < at[e]
      /\ slots' = Link(Popped, e, Delay(e))
      /\ now' = now /\ pending' = pending /\ at' = at /\ call' = call
  BY <1>1 DEF Promote
<1>3. /\ Wheel(Popped) /\ e \in Range(Current) /\ e \in Events
      /\ \A l \in 0..MaxLevel, i \in 0..(NumSlots - 1) : Range(Popped[l][i]) = Range(slots[l][i]) \ {e}
  BY <1>1, <1>2, PoppedWheel
<1>4. /\ at[e] >= now[0] /\ Delay(e) = at[e] - now[0] /\ Delay(e) < Span[call.level]
      /\ Delay(e) \in Nat /\ at[e] \in Nat /\ now[0] \in Nat
      /\ Apart(now[0], Due(e), call.level) = 0
  BY <1>2, <1>3, CurrentDue
<1>5. PICK d \in Nat \ {0} : d = Delay(e)
  BY <1>2, <1>4
<1>6. Types /\ call.level \in 0..MaxLevel /\ now[0] \in 0..(Ticks - 1)
  BY WheelTypes DEF WheelInv
<1>7. d + NumSlots <= Ticks
  <2>1. PICK s \in Nat : s = Span[call.level]
    BY <1>6, Constants
  <2>2. s - 1 + NumSlots <= Ticks
    BY <1>6, <2>1, RoomAbove
  <2> QED
    BY <1>4, <1>5, <2>1, <2>2, Constants
<1>8. \A l \in 0..MaxLevel : now[l] = now[0] \div Span[l]
  BY <1>2, HandsShow DEF WheelInv
<1>9. Place(now, d)[1] < Levels
  <2>1. Apart(now[0], now[0] + d, call.level) < NumSlots
    BY <1>4, <1>5, Constants DEF Due
  <2>2. Place(now, d)[1] \in 0..MaxLevel
    BY <1>5, <1>6, <1>7, <1>8, <2>1, PlaceLow
  <2> QED
    BY <2>2, Constants
<1>10. PICK k \in 0..MaxLevel, h \in 0..(NumSlots - 1) :
         /\ h = Index((now[0] + d) \div Span[k])
         /\ Apart(now[0], now[0] + d, k) \in 1..(NumSlots - 1)
         /\ Relinked(Link(Popped, e, d), Popped, e, k, h)
  BY <1>3, <1>6, <1>7, <1>8, <1>9, LinkPlaces
<1>11. /\ Wheel(slots')
       /\ \A l \in 0..MaxLevel, i \in 0..(NumSlots - 1) :
             Range(slots'[l][i]) = IF l = k /\ i = h THEN Range(Popped[k][h]) \cup {e}
                                   ELSE Range(Popped[l][i]) \ {e}
  BY <1>2, <1>5, <1>10 DEF Relinked
<1>12. AllPlaced'
  <2> SUFFICES ASSUME NEW l \in 0..MaxLevel, NEW i \in 0..(NumSlots - 1),
                      NEW f \in Range(slots'[l][i])
               PROVE  Placed(f, l, i)'
    BY DEF AllPlaced, Linked
  <2>0. Range(slots'[l][i]) = IF l = k /\ i = h THEN Range(Popped[k][h]) \cup {e}
                              ELSE Range(Popped[l][i]) \ {e}
    BY <1>11
  <2>1. Due(f)' = Due(f)
    BY <1>2 DEF Due, Delay
  <2>2. Gap(f, l)' = Gap(f, l)
    BY <1>2, <2>1 DEF Gap
  <2>3. CASE f = e
    <3>1. l = k /\ i = h
      BY <2>0, <2>3
    <3>2. Due(e) = now[0] + d
      BY <1>5 DEF Due
    <3>3. Gap(e, k) = Apart(now[0], now[0] + d, k)
      BY <3>2 DEF Gap, Apart
    <3>4. Gap(e, k) \in 0..(NumSlots - 1) /\ Gap(e, k) # 0
      BY <1>10, <3>3, Constants
    <3>5. h = Index(Due(e) \div Span[k])
      BY <1>10, <3>2
    <3> QED
      BY <2>1, <2>2, <2>3, <3>1, <3>4, <3>5 DEF Placed, Index
  <2>4. CASE f # e
    <3>1. f \in Range(Popped[l][i])
      BY <2>0, <2>4
    <3>2. f \in Linked(l, i)
      BY <1>3, <3>1 DEF Linked
    <3>3. Placed(f, l, i)
      BY <3>2, Waiting
    <3> QED
      BY <1>2, <2>1, <2>2, <3>3 DEF Placed, Waits, Index
  <2> QED
    BY <2>3, <2>4
<1>13. Types' /\ Hands' /\ CallOK'
  BY <1>2 DEF WheelInv, Types, Hands, Lags, CallOK, HandRange
<1> QED
  BY <1>11, <1>12, <1>13 DEF WheelInv

(* An event whose callback begins is due now.                              *)
LEMMA ExecuteStep ==
    ASSUME WheelInv, Execute
    PROVE  WheelInv' /\ at[Head(Current)] = now[0]
<1>1. PICK e : e = Head(Current)
  OBVIOUS
<1>2. /\ call.phase = "drain" /\ Current # <<>> /\ (call.level = 0 \/ now[0] >= at[e])
      /\ slots' = Popped /\ call' = [call EXCEPT !.phase = "callback"]
      /\ now' = now /\ pending' = pending /\ at' = at
  BY <1>1 DEF Execute
<1>3. /\ Wheel(Popped) /\ e \in Range(Current) /\ e \in Events
      /\ \A l \in 0..MaxLevel, i \in 0..(NumSlots - 1) : Range(Popped[l][i]) = Range(slots[l][i]) \ {e}
  BY <1>1, <1>2, PoppedWheel
<1>4. /\ at[e] >= now[0] /\ Delay(e) = at[e] - now[0] /\ Delay(e) < Span[call.level]
      /\ Delay(e) \in Nat /\ at[e] \in Nat /\ now[0] \in Nat
  BY <1>2, <1>3, CurrentDue
<1>5. at[e] = now[0]
  <2>1. CASE call.level = 0
    <3>1. Span[call.level] = 1
      BY <2>1, Constants
    <3> QED
      BY <1>4, <3>1
  <2>2. CASE call.level # 0
    BY <1>2, <1>4, <2>2
  <2> QED
    BY <2>1, <2>2
<1>6. call \in [phase : {"idle", "enter", "drain", "callback"}, level : 0..MaxLevel,
                delta : 0..(Ticks - 2), resumed : BOOLEAN, budget : [0..MaxLevel -> Int]]
  BY DEF WheelInv, Types
<1>7. /\ call'.phase = "callback" /\ call'.level = call.level /\ call'.resumed = call.resumed
      /\ call' \in [phase : {"idle", "enter", "drain", "callback"}, level : 0..MaxLevel,
                    delta : 0..(Ticks - 2), resumed : BOOLEAN, budget : [0..MaxLevel -> Int]]
  BY <1>2, <1>6
<1>8. AllPlaced'
  <2>1. \A l \in 0..MaxLevel, i \in 0..(NumSlots - 1) : Range(slots'[l][i]) \subseteq Range(slots[l][i])
    BY <1>2, <1>3
  <2>2. \A l \in 0..MaxLevel : Waits(l) => Waits(l)'
    BY <1>2, <1>7 DEF Waits
  <2> QED
    BY <1>2, <2>1, <2>2, PlacedStays
<1>9. Types'
  BY <1>2, <1>7 DEF WheelInv, Types, HandRange
<1>10. Hands' /\ CallOK'
  BY <1>2, <1>7 DEF WheelInv, Hands, Lags, CallOK, HandRange
<1> QED
  BY <1>1, <1>2, <1>3, <1>5, <1>8, <1>9, <1>10 DEF WheelInv

(* The type of the call in progress.                                       *)
CallType ==
    [phase : {"idle", "enter", "drain", "callback"}, level : 0..MaxLevel,
     delta : 0..(Ticks - 2), resumed : BOOLEAN, budget : [0..MaxLevel -> Int]]

(* No advance() is in progress.                                            *)
LEMMA QuietCall ==
    /\ Quiet \in CallType /\ Quiet.phase = "idle" /\ 0 \in 0..MaxLevel /\ 0 \in 0..(Ticks - 2)
    /\ Ticks - 2 \in Nat
<1>1. 0 \in 0..MaxLevel /\ 0 \in 0..(Ticks - 2) /\ Ticks - 2 \in Nat
  BY Constants
<1> QED
  BY <1>1 DEF Quiet, CallType

(* advance() begins.                                                       *)
LEMMA AdvanceStep ==
    ASSUME WheelInv, NEW d \in Advances, NEW max \in Budgets, Advance(d, max)
    PROVE  WheelInv'
<1>t. Types
  BY DEF WheelInv
<1>0. /\ now[0] % Span[0] = 0 /\ pending \in 0..(Ticks - 1) /\ 0 \in 0..MaxLevel
      /\ d \in 0..(Ticks - 1) /\ max \in Int /\ Ticks - 2 \in Nat /\ at \in [Events -> 0..(Ticks - 1)]
      /\ Ticks \in Nat
  BY <1>t, WheelTypes, WheelAssumption, QuietCall, Constants
<1>1. /\ call.phase = "idle" /\ (pending # 0 \/ d > 0)
      /\ pending + d < Ticks /\ slots' = slots /\ at' = at
      /\ now' = IF pending # 0 THEN now ELSE [now EXCEPT ![0] = (@ + 1) % Ticks]
      /\ pending' = IF pending # 0 THEN pending + d ELSE 0
  BY DEF Advance
<1>2. PICK k \in 0..(Ticks - 2) : k = IF pending # 0 THEN 0 ELSE d - 1
  BY <1>0, <1>1
<1>3. call' = [phase |-> "enter", level |-> 0, delta |-> k, resumed |-> (pending # 0),
               budget |-> [[l \in 0..MaxLevel |-> 0] EXCEPT ![0] = max]]
  BY <1>2 DEF Advance, Quiet
<1>4. /\ call' \in CallType /\ call'.phase = "enter" /\ call'.level = 0
      /\ call'.resumed = (pending # 0)
  <2>1. [[l \in 0..MaxLevel |-> 0] EXCEPT ![0] = max] \in [0..MaxLevel -> Int]
    BY <1>0
  <2> QED
    BY <1>0, <1>3, <2>1 DEF CallType
<1>5. pending' \in 0..(Ticks - 1) /\ (pending # 0 <=> pending' # 0)
  BY <1>0, <1>1
<1>6. CASE pending # 0
  <2>1. now' = now
    BY <1>1, <1>6
  <2>2. Types'
    BY <1>1, <1>4, <1>5, <2>1 DEF WheelInv, Types, CallType, HandRange
  <2>3. Hands' /\ CallOK'
    <3>1. Hands'
      <4>1. \A l \in 0..MaxLevel : ~Lags(l) /\ ~Lags(l)'
        BY <1>1, <1>4, <1>6 DEF Lags
      <4>2. Hands
        BY DEF WheelInv
      <4> QED
        BY <2>1, <4>1, <4>2 DEF Hands, HandRange
    <3> QED
      BY <1>0, <1>4, <1>5, <2>1, <3>1 DEF CallOK
  <2>4. AllPlaced'
    <3>1. \A l \in 0..MaxLevel : Waits(l) => Waits(l)'
      BY <1>4, <2>1 DEF Waits
    <3> QED
      BY <1>1, <2>1, <3>1, PlacedStays
  <2> QED
    BY <1>1, <2>2, <2>3, <2>4 DEF WheelInv
<1>7. CASE pending = 0
  <2>1. /\ now' = [now EXCEPT ![0] = (@ + 1) % Ticks] /\ call'.resumed = FALSE
    BY <1>1, <1>4, <1>7
  <2>2. /\ now' \in [0..MaxLevel -> Nat]
        /\ \A l \in 0..MaxLevel : now'[l] \in 0..(HandRange(l) - 1)
        /\ now'[0] % Span[0] = 0 /\ Hands' /\ Wheel(slots)' /\ AllPlaced'
    <3>1. slots' = slots /\ at' = at /\ call.phase = "idle" /\ call'.phase = "enter" /\ call'.level = 0
      BY <1>1, <1>4
    <3> QED
      BY <1>7, <2>1, <3>1, TickStep
  <2>3. Types'
    BY <1>0, <1>1, <1>4, <1>5, <2>2 DEF Types, CallType, HandRange
  <2>4. CallOK'
    BY <1>4, <1>5, <2>2 DEF CallOK
  <2> QED
    BY <2>2, <2>3, <2>4 DEF WheelInv
<1> QED
  BY <1>6, <1>7

(* process_current_slot() goes up a level, or begins to drain its slot.    *)
LEMMA EnterStep ==
    ASSUME WheelInv, Enter
    PROVE  WheelInv'
<1>t. Types /\ Hands
  BY DEF WheelInv
<1>c. PICK c \in 0..MaxLevel : c = call.level
  BY <1>t, WheelTypes
<1>0. /\ now \in [0..MaxLevel -> Nat] /\ now[0] \in Int /\ call \in CallType
      /\ \A l \in 0..MaxLevel : now[l] \in 0..(HandRange(l) - 1)
  BY <1>t, WheelTypes DEF Types, CallType
<1>1. call.phase = "enter" /\ pending' = pending /\ slots' = slots /\ at' = at
  BY DEF Enter
<1>2. now[0] % Span[c] = 0 /\ (call.resumed <=> pending # 0)
  BY <1>c, <1>1 DEF WheelInv, CallOK
<1>3. now[c] = now[0] \div Span[c]
  BY <1>c, <1>t, Constants DEF Hands, Lags
<1>4. /\ c < MaxLevel /\ Index(now[c]) = 0 => now[0] % Span[c + 1] = 0
      /\ Index(now[c]) # 0 => \A l \in 0..MaxLevel : l > c => now[0] % Span[l] # 0
  BY <1>0, <1>2, <1>3, ClimbEnds
<1>5. CASE Index(now[c]) = 0 /\ c < MaxLevel
  <2>1. PICK n \in 0..MaxLevel : n = c + 1 /\ n # 0
    BY <1>5, Constants
  <2>2. /\ call' = [call EXCEPT !.level = @ + 1, !.budget[c + 1] = call.budget[c]]
        /\ now' = IF call.resumed THEN now
                  ELSE [now EXCEPT ![n] = (@ + 1) % HandRange(n)]
    BY <1>c, <1>5, <2>1 DEF Enter
  <2>3. /\ call' \in CallType /\ call'.phase = "enter" /\ call'.level = n
        /\ call'.resumed = call.resumed
    BY <1>0, <1>1, <1>c, <2>1, <2>2 DEF CallType
  <2>4. now[0] % Span[n] = 0
    BY <1>4, <1>5, <2>1
  <2>5. /\ now' \in [0..MaxLevel -> Nat] /\ now'[0] = now[0]
        /\ \A l \in 0..MaxLevel : now'[l] \in 0..(HandRange(l) - 1)
        /\ \A l \in 0..MaxLevel : l # n => now'[l] = now[l]
        /\ ~call.resumed => now'[n] = (now[n] + 1) % HandRange(n)
    <3>1. PICK y : y = (now[n] + 1) % HandRange(n)
      OBVIOUS
    <3>2. y \in 0..(HandRange(n) - 1) /\ y \in Nat
      <4>1. HandRange(n) \in Nat \ {0} /\ now[n] + 1 \in Int
        BY <1>0, HandRanges
      <4> QED
        BY <3>1, <4>1, DivMod
    <3>3. 0 \in 0..MaxLevel
      BY Constants
    <3> QED
      BY <1>0, <2>1, <2>2, <3>1, <3>2, <3>3
  <2>6. Types'
    BY <1>1, <1>t, <2>3, <2>5 DEF Types, CallType, HandRange
  <2>7. Hands'
    <3> SUFFICES ASSUME NEW l \in 0..MaxLevel
                 PROVE  now[0] \div Span[l] = IF Lags(l)' THEN (now'[l] + 1) % HandRange(l) ELSE now'[l]
      BY <2>5 DEF Hands, HandRange
    <3>0. now[0] \div Span[l] = IF Lags(l) THEN (now[l] + 1) % HandRange(l) ELSE now[l]
      BY <1>t DEF Hands
    <3>1. CASE l = n
      <4>1. ~Lags(l)'
        BY <2>3, <3>1 DEF Lags
      <4>2. Lags(l) <=> ~call.resumed
        BY <1>1, <1>c, <2>1, <2>4, <3>1 DEF Lags
      <4>3. call.resumed => now' = now
        BY <2>2
      <4> QED
        BY <2>5, <3>0, <3>1, <4>1, <4>2, <4>3
    <3>2. CASE l # n
      <4>1. l > c <=> l > n
        BY <2>1, <3>2
      <4>2. Lags(l)' <=> Lags(l)
        BY <1>1, <1>c, <2>3, <2>5, <4>1 DEF Lags
      <4> QED
        BY <2>5, <3>0, <3>2, <4>2
    <3> QED
      BY <3>1, <3>2
  <2>8. CallOK'
    BY <1>1, <1>2, <2>3, <2>4, <2>5 DEF CallOK
  <2>9. AllPlaced'
    <3>1. \A l \in 0..MaxLevel : Waits(l) => Waits(l)'
      BY <2>3, <2>5 DEF Waits
    <3> QED
      BY <1>1, <2>5, <3>1, PlacedStays
  <2> QED
    BY <1>1, <2>6, <2>7, <2>8, <2>9 DEF WheelInv
<1>6. CASE ~(Index(now[c]) = 0 /\ c < MaxLevel)
  <2>1. call' = [call EXCEPT !.phase = "drain"] /\ now' = now
    BY <1>c, <1>6 DEF Enter
  <2>2. /\ call' \in CallType /\ call'.phase = "drain" /\ call'.level = c
        /\ call'.resumed = call.resumed
    BY <1>0, <1>c, <2>1 DEF CallType
  <2>3. \A l \in 0..MaxLevel : l > c => now[0] % Span[l] # 0
    <3>1. CASE c = MaxLevel
      BY <3>1, Constants
    <3>2. CASE c # MaxLevel
      <4>1. c < MaxLevel
        BY <3>2, Constants
      <4> QED
        BY <1>4, <1>6, <4>1
    <3> QED
      BY <3>1, <3>2
  <2>4. Types'
    BY <1>1, <1>t, <2>1, <2>2 DEF Types, CallType, HandRange
  <2>5. Hands'
    <3>1. \A l \in 0..MaxLevel : ~Lags(l) /\ ~Lags(l)'
      BY <1>c, <2>2, <2>3 DEF Lags
    <3> QED
      BY <1>t, <2>1, <3>1 DEF Hands, HandRange
  <2>6. CallOK'
    BY <1>1, <1>2, <2>1, <2>2 DEF CallOK
  <2>7. AllPlaced'
    <3>1. \A l \in 0..MaxLevel : Waits(l) => Waits(l)'
      <4> TAKE l \in 0..MaxLevel
      <4>1. now[0] % Span[l] = 0 => l <= c
        BY <2>3, Constants
      <4> QED
        BY <2>1, <2>2, <4>1 DEF Waits
    <3> QED
      BY <1>1, <2>1, <3>1, PlacedStays
  <2> QED
    BY <1>1, <2>4, <2>5, <2>6, <2>7 DEF WheelInv
<1> QED
  BY <1>5, <1>6

(* A callback ends: the next event is taken, or advance() stops and owes   *)
(* the current tick.                                                       *)
LEMMA ExecutedStep ==
    ASSUME WheelInv, Executed
    PROVE  WheelInv'
<1>t. Types /\ Hands /\ Wheel(slots) /\ call \in CallType
  BY DEF WheelInv, Types, CallType
<1>0. /\ call.level \in 0..MaxLevel /\ call.delta \in 0..(Ticks - 2) /\ Ticks \in Nat
      /\ pending \in 0..(Ticks - 1) /\ call.budget \in [0..MaxLevel -> Int]
  BY <1>t, WheelTypes, Constants
<1>1. /\ call.phase = "callback" /\ now' = now /\ slots' = slots /\ at' = at
      /\ pending' = IF call.budget[call.level] = 1 /\ ~call.resumed THEN call.delta + 1 ELSE pending
      /\ call' = IF call.budget[call.level] = 1 THEN Quiet
                 ELSE [call EXCEPT !.phase = "drain", !.budget[call.level] = @ - 1]
  BY DEF Executed
<1>2. now[0] % Span[call.level] = 0 /\ (call.resumed <=> pending # 0)
  BY <1>1 DEF WheelInv, CallOK
<1>3. pending' \in 0..(Ticks - 1) /\ (call.budget[call.level] = 1 => pending' # 0)
  <2>1. PICK k \in 0..(Ticks - 2) : k = call.delta
    BY <1>0
  <2>2. k + 1 \in 0..(Ticks - 1) /\ k + 1 # 0
    BY <1>0
  <2>3. CASE call.budget[call.level] = 1 /\ ~call.resumed
    BY <1>1, <2>1, <2>2, <2>3
  <2>4. CASE ~(call.budget[call.level] = 1 /\ ~call.resumed)
    <3>1. pending' = pending
      BY <1>1, <2>4
    <3> QED
      BY <1>0, <1>2, <2>4, <3>1
  <2> QED
    BY <2>3, <2>4
<1>4. CASE call.budget[call.level] = 1
  <2>1. call' \in CallType /\ call'.phase = "idle"
    BY <1>1, <1>4, QuietCall
  <2>2. Types'
    BY <1>1, <1>3, <1>t, <2>1 DEF Types, CallType, HandRange
  <2>3. Hands' /\ CallOK'
    <3>1. \A l \in 0..MaxLevel : ~Lags(l) /\ ~Lags(l)'
      BY <1>1, <2>1 DEF Lags
    <3>2. Hands'
      BY <1>1, <1>t, <3>1 DEF Hands, HandRange
    <3> QED
      BY <2>1, <3>2 DEF CallOK
  <2>4. AllPlaced'
    <3>1. \A l \in 0..MaxLevel : Waits(l) => Waits(l)'
      BY <1>1, <1>3, <1>4, <2>1 DEF Waits
    <3> QED
      BY <1>1, <3>1, PlacedStays
  <2> QED
    BY <1>1, <1>t, <2>2, <2>3, <2>4 DEF WheelInv
<1>5. CASE call.budget[call.level] # 1
  <2>0. pending' = pending
    BY <1>1, <1>5
  <2>1. /\ call' \in CallType /\ call'.phase = "drain" /\ call'.level = call.level
        /\ call'.resumed = call.resumed
    <3>1. [call.budget EXCEPT ![call.level] = @ - 1] \in [0..MaxLevel -> Int]
      <4>1. PICK b \in Int : b = call.budget[call.level]
        BY <1>0
      <4>2. b - 1 \in Int
        OBVIOUS
      <4> QED
        BY <1>0, <4>1, <4>2
    <3> QED
      BY <1>1, <1>5, <1>t, <3>1 DEF CallType
  <2>2. Types'
    BY <1>1, <1>3, <1>t, <2>1 DEF Types, CallType, HandRange
  <2>3. Hands' /\ CallOK'
    <3>1. \A l \in 0..MaxLevel : ~Lags(l) /\ ~Lags(l)'
      BY <1>1, <2>1 DEF Lags
    <3>2. Hands'
      BY <1>1, <1>t, <3>1 DEF Hands, HandRange
    <3> QED
      BY <1>1, <1>2, <2>0, <2>1, <3>2 DEF CallOK
  <2>4. AllPlaced'
    <3>1. \A l \in 0..MaxLevel : Waits(l) => Waits(l)'
      BY <1>1, <2>1 DEF Waits
    <3> QED
      BY <1>1, <3>1, PlacedStays
  <2> QED
    BY <1>1, <1>t, <2>2, <2>3, <2>4 DEF WheelInv
<1> QED
  BY <1>4, <1>5

(* The slot is empty: down to the level below, on to the next tick, or     *)
(* done.                                                                   *)
LEMMA DrainedStep ==
    ASSUME WheelInv, Drained
    PROVE  WheelInv'
<1>t. Types /\ Hands /\ Wheel(slots) /\ call \in CallType
  BY DEF WheelInv, Types, CallType
<1>0. /\ call.level \in 0..MaxLevel /\ call.delta \in 0..(Ticks - 2) /\ Ticks \in Nat
      /\ pending \in 0..(Ticks - 1) /\ call.budget \in [0..MaxLevel -> Int]
      /\ now[0] \in Int /\ now[0] % Span[0] = 0 /\ 0 \in 0..MaxLevel
  BY <1>t, WheelTypes, Constants
<1>1. call.phase = "drain" /\ Current = <<>> /\ slots' = slots /\ at' = at
  BY DEF Drained
<1>2. now[0] % Span[call.level] = 0 /\ (call.resumed <=> pending # 0)
  BY <1>1 DEF WheelInv, CallOK
<1>3. ASSUME call.level > 0, now' = now, pending' = pending,
             call' = [call EXCEPT !.level = @ - 1, !.budget[call.level] = 0]
      PROVE  WheelInv'
  <2>1. PICK m \in 0..MaxLevel : m = call.level - 1 /\ m <= call.level
    <3>1. PICK c \in 0..MaxLevel : c = call.level
      BY <1>0
    <3>2. c - 1 \in 0..MaxLevel /\ c - 1 <= c
      BY <1>3, <3>1, Constants
    <3> QED
      BY <3>1, <3>2
  <2>2. /\ call' \in CallType /\ call'.phase = "drain" /\ call'.level = m
        /\ call'.resumed = call.resumed
    <3>1. [call.budget EXCEPT ![call.level] = 0] \in [0..MaxLevel -> Int]
      BY <1>0
    <3> QED
      BY <1>1, <1>3, <1>t, <2>1, <3>1 DEF CallType
  <2>3. Types'
    BY <1>1, <1>3, <1>t, <2>2 DEF Types, CallType, HandRange
  <2>4. Hands'
    <3>1. \A l \in 0..MaxLevel : ~Lags(l) /\ ~Lags(l)'
      BY <1>1, <2>2 DEF Lags
    <3> QED
      BY <1>3, <1>t, <3>1 DEF Hands, HandRange
  <2>5. CallOK'
    <3>1. now[0] % Span[m] = 0
      BY <1>0, <1>2, <2>1, Begins
    <3> QED
      BY <1>2, <1>3, <2>2, <3>1 DEF CallOK
  <2>6. AllPlaced'
    <3>1. ASSUME NEW l \in 0..MaxLevel, NEW i \in 0..(NumSlots - 1), NEW e \in Range(slots'[l][i]),
                 Gap(e, l) = 0, Waits(l)
          PROVE  Waits(l)'
      <4>1. e \in Linked(l, i) /\ l <= call.level /\ now[0] % Span[l] = 0
        BY <1>1, <3>1 DEF Linked, Waits
      <4>2. l # call.level
        <5> SUFFICES ASSUME l = call.level PROVE FALSE
          OBVIOUS
        <5>1. i = Index(now[call.level])
          BY <1>1, <3>1, <4>1, UnderHand
        <5>2. e \in Range(<<>>)
          BY <1>1, <4>1, <5>1 DEF Linked, Current
        <5> QED
          BY <5>2 DEF Range
      <4>3. l <= m
        BY <1>0, <2>1, <4>1, <4>2
      <4> QED
        BY <1>3, <2>2, <4>1, <4>3 DEF Waits
    <3>2. now'[0] = now[0]
      BY <1>3
    <3> QED
      BY <1>1, <3>1, <3>2, PlacedStays
  <2> QED
    BY <1>1, <1>t, <2>3, <2>4, <2>5, <2>6 DEF WheelInv
<1>4. CASE call.level = 0
  <2> DEFINE left == IF call.resumed THEN pending - 1 ELSE call.delta
  <2>0. /\ pending' = 0
        /\ call' = IF left = 0 THEN Quiet
                   ELSE [call EXCEPT !.phase = "enter", !.resumed = FALSE, !.delta = left - 1]
        /\ now' = IF left = 0 THEN now ELSE [now EXCEPT ![0] = (@ + 1) % Ticks]
    BY <1>4 DEF Drained
  <2>1. left \in 0..(Ticks - 2) /\ pending' \in 0..(Ticks - 1)
    BY <1>0, <1>2, <2>0
  <2> HIDE DEF left
  <2>2. CASE left = 0
    <3>1. call' \in CallType /\ call'.phase = "idle" /\ now' = now
      BY <2>0, <2>2, QuietCall
    <3>2. Types'
      BY <1>1, <1>t, <2>1, <3>1 DEF Types, CallType, HandRange
    <3>3. Hands' /\ CallOK'
      <4>1. \A l \in 0..MaxLevel : ~Lags(l) /\ ~Lags(l)'
        BY <1>1, <3>1 DEF Lags
      <4>2. Hands'
        BY <1>t, <3>1, <4>1 DEF Hands, HandRange
      <4> QED
        BY <3>1, <4>2 DEF CallOK
    <3>4. AllPlaced'
      <4>1. \A l \in 0..MaxLevel, i \in 0..(NumSlots - 1) : \A e \in Range(slots'[l][i]) : Gap(e, l) # 0
        BY <1>1, <1>4, NoneDue DEF Linked
      <4>2. now'[0] = now[0]
        BY <3>1
      <4> QED
        BY <1>1, <4>1, <4>2, PlacedStays
    <3> QED
      BY <1>1, <1>t, <3>2, <3>3, <3>4 DEF WheelInv
  <2>3. CASE left # 0
    <3>1. /\ call' = [call EXCEPT !.phase = "enter", !.resumed = FALSE, !.delta = left - 1]
          /\ now' = [now EXCEPT ![0] = (@ + 1) % Ticks]
      BY <2>0, <2>3
    <3>2. left - 1 \in 0..(Ticks - 2)
      BY <1>0, <2>1, <2>3
    <3>3. /\ call' \in CallType /\ call'.phase = "enter" /\ call'.level = 0
          /\ call'.resumed = FALSE
      BY <1>4, <1>t, <3>1, <3>2 DEF CallType
    <3>4. /\ now' \in [0..MaxLevel -> Nat]
          /\ \A l \in 0..MaxLevel : now'[l] \in 0..(HandRange(l) - 1)
          /\ now'[0] % Span[0] = 0 /\ Hands' /\ Wheel(slots)' /\ AllPlaced'
      BY <1>1, <1>4, <3>1, <3>3, TickStep
    <3>5. Types'
      BY <1>1, <1>t, <2>1, <3>3, <3>4 DEF Types, CallType, HandRange
    <3>6. CallOK'
      BY <2>0, <3>3, <3>4 DEF CallOK
    <3> QED
      BY <3>4, <3>5, <3>6 DEF WheelInv
  <2> QED
    BY <2>2, <2>3
<1>5. CASE call.level > 0
  BY <1>3, <1>5 DEF Drained
<1> QED
  BY <1>0, <1>4, <1>5

(* schedule_in_range(): the delay it chooses leaves room for every digit,  *)
(* and is in the range if that ends within a slot of the highest level.    *)
LEMMA RangeDeltas ==
    ASSUME NEW start \in 0..(Ticks - 1), NEW end \in 0..(Ticks - 1), start < end
    PROVE  /\ RangeDelta(start, end) \in 0..(Span[MaxLevel] - 1)
           /\ end < Span[MaxLevel] => RangeDelta(start, end) \in (start + 1)..end
<1> DEFINE T == {j \in 0..Levels : start \div Span[j] = end \div Span[j]}
           k == Min(T)
<1>0. /\ Levels \in Nat \ {0} /\ Ticks \in Nat \ {0} /\ start \in Int /\ end \in Int
      /\ MaxLevel \in 0..Levels /\ MaxLevel = Levels - 1
  BY Constants
<1>1. Levels \in T
  <2>1. start \div Ticks = 0 /\ end \div Ticks = 0
    BY <1>0, ModSmall
  <2> QED
    BY <1>0, <2>1, Constants
<1>2. k \in T /\ \A j \in T : k <= j
  <2>1. T \in SUBSET Nat /\ T # {}
    BY <1>1
  <2> HIDE DEF T
  <2> QED
    BY <2>1, MinLeast
<1>3. 0 \notin T
  <2>1. \A z \in Int : z \div 1 = z
    OBVIOUS
  <2>2. start \div Span[0] = start /\ end \div Span[0] = end
    BY <1>0, <2>1, Constants
  <2> QED
    BY <2>2
<1>4. PICK m \in 0..MaxLevel : m = k - 1 /\ m \in 0..Levels /\ m \notin T
  <2>1. k \in 0..Levels /\ k # 0
    BY <1>2, <1>3
  <2> HIDE DEF k
  <2>2. k - 1 \in 0..MaxLevel /\ k - 1 \in 0..Levels /\ ~(k <= k - 1)
    BY <1>0, <2>1
  <2> QED
    BY <1>2, <2>2
<1>5. PICK low \in Nat \ {0}, top \in Nat \ {0} : low = Span[m] /\ top = Span[MaxLevel]
  BY <1>0, <1>4, Constants
<1>6. PICK x \in 0..(top - 1) : x = end % top
  BY <1>0, DivMod
<1>7. PICK q \in Int, r \in 0..(low - 1) : q = x \div low /\ x = low * q + r
  <2>1. x \in Int
    OBVIOUS
  <2> QED
    BY <2>1, DivMod
<1>8. RangeDelta(start, end) = q * low
  <2>1. RangeDelta(start, end) = ((end % Span[MaxLevel]) \div Span[k - 1]) * Span[k - 1]
    BY DEF RangeDelta
  <2> HIDE DEF k
  <2> QED
    BY <1>4, <1>5, <1>6, <1>7, <2>1
<1>9. q * low = low * q /\ low * q \in Int /\ (q >= 0 => low * q >= 0)
  BY Z3
<1>10. q >= 0
  <2>1. x >= 0 /\ 0 \in Int /\ 0 \in 0..(low - 1) /\ x \in Int
    OBVIOUS
  <2>2. 0 \div low <= x \div low
    BY <2>1, DivMono
  <2>3. 0 \div low = 0
    BY <2>1, ModSmall
  <2> QED
    BY <1>7, <2>2, <2>3
<1>11. RangeDelta(start, end) \in 0..(Span[MaxLevel] - 1)
  BY <1>5, <1>7, <1>8, <1>9, <1>10
<1>12. ASSUME end < Span[MaxLevel]
       PROVE  RangeDelta(start, end) \in (start + 1)..end
  <2>1. x = end
    <3>1. end \in 0..(top - 1)
      BY <1>0, <1>5, <1>12
    <3> QED
      BY <1>6, <3>1, ModSmall
  <2>2. PICK p \in Int, s \in 0..(low - 1) : p = start \div low /\ start = low * p + s
    BY <1>0, DivMod
  <2>3. p # q
    <3>1. start \div Span[m] # end \div Span[m]
      BY <1>4
    <3> QED
      BY <1>5, <1>7, <2>1, <2>2, <3>1
  <2>4. p <= q
    BY <1>0, <1>7, <2>1, <2>2, DivMono
  <2>5. low * p + low <= low * q /\ low * p \in Int
    <3>1. p < q
      BY <2>3, <2>4
    <3> QED
      BY <3>1, MultiplesApart, Product
  <2> QED
    BY <1>0, <1>7, <1>8, <1>9, <2>1, <2>2, <2>5
<1> QED
  BY <1>11, <1>12

(* schedule() adds the slot index of the hand to the delay before it       *)
(* divides: with a delay within NumSlots of the range of TickType that sum *)
(* wraps around.  The theorems are about delays for which it does not.     *)
NoOverflow == \A d \in Deltas : d + NumSlots <= Ticks

(* schedule_in_range() leaves the event due at a tick of the range.        *)
LEMMA ScheduleInRangeStep ==
    ASSUME WheelInv, NEW e \in Events, NEW r \in Ranges, ScheduleInRange(e, r[1], r[2])
    PROVE  WheelInv' /\ (r[2] < Span[MaxLevel] => Delay(e)' \in r[1]..r[2])
<1>1. PICK a \in 0..(Ticks - 1), b \in 0..(Ticks - 1) : a = r[1] /\ b = r[2] /\ a < b
  BY WheelAssumption
<1>2. PICK d : d = RangeDelta(a, b)
  OBVIOUS
<1>3. d > 0 /\ Schedule(e, d)
  BY <1>1, <1>2 DEF ScheduleInRange
<1>4. PICK top \in Nat \ {0} : top = Span[MaxLevel] /\ top - 1 + NumSlots <= Ticks
  <2>1. MaxLevel \in 0..MaxLevel /\ MaxLevel \in 0..Levels
    BY Constants
  <2>2. Span[MaxLevel] \in Nat \ {0}
    BY <2>1, Constants
  <2> QED
    BY <2>1, <2>2, RoomAbove
<1>5. d \in 0..(top - 1) /\ (b < top => d \in (a + 1)..b)
  BY <1>1, <1>2, <1>4, RangeDeltas
<1>6. d \in Nat \ {0} /\ d + NumSlots <= Ticks
  BY <1>3, <1>4, <1>5, Constants
<1>7. WheelInv' /\ Delay(e)' = d
  BY <1>3, <1>6, ScheduleStep
<1> QED
  BY <1>1, <1>4, <1>5, <1>7

(* At first every slot is empty.                                           *)
LEMMA InitOK == Init => WheelInv
<1> SUFFICES ASSUME Init PROVE WheelInv
  OBVIOUS
<1>1. /\ pending = 0 /\ slots = [l \in 0..MaxLevel |-> [i \in 0..(NumSlots - 1) |-> <<>>]]
      /\ at = [e \in Events |-> 0] /\ call = Quiet
  BY DEF Init
<1>2. PICK x \in 0..(Ticks - 1) : now = [l \in 0..MaxLevel |-> x \div Span[l]]
  BY DEF Init
<1>3. Ticks \in Nat \ {0} /\ x \in Int /\ 0 \in 0..MaxLevel /\ Span[0] = 1
  BY Constants
<1>4. now[0] = x
  <2>1. \A z \in Int : z \div 1 = z
    OBVIOUS
  <2> QED
    BY <1>2, <1>3, <2>1
<1>5. \A l \in 0..MaxLevel : now[l] \in 0..(HandRange(l) - 1) /\ now[l] \in Nat
  <2> TAKE l \in 0..MaxLevel
  <2>1. now[l] \in 0..(HandRange(l) - 1)
    BY <1>2, ShowsRange
  <2> QED
    BY <2>1, HandRanges
<1>6. Types
  <2>1. now \in [0..MaxLevel -> Nat]
    BY <1>2, <1>5
  <2>2. at \in [Events -> 0..(Ticks - 1)] /\ pending \in 0..(Ticks - 1)
    BY <1>1, <1>3
  <2>3. call \in CallType
    BY <1>1, QuietCall
  <2> QED
    BY <1>5, <2>1, <2>2, <2>3 DEF Types, CallType
<1>7. call.phase = "idle"
  BY <1>1, QuietCall
<1>8. Hands /\ CallOK
  <2>1. \A l \in 0..MaxLevel : ~Lags(l)
    BY <1>7 DEF Lags
  <2>2. \A l \in 0..MaxLevel : now[l] = now[0] \div Span[l]
    BY <1>2, <1>4
  <2> QED
    BY <1>7, <2>1, <2>2 DEF Hands, CallOK
<1>9. Wheel(slots) /\ AllPlaced
  <2>1. \A l \in 0..MaxLevel, i \in 0..(NumSlots - 1) : slots[l][i] = <<>>
    BY <1>1
  <2>2. Range(<<>>) = {} /\ List(<<>>)
    BY DEF Range, List, IsInjective
  <2>3. slots \in [0..MaxLevel -> [0..(NumSlots - 1) -> Seq(Events)]]
    BY <1>1, <2>2 DEF List
  <2> QED
    BY <2>1, <2>2, <2>3 DEF Wheel, AllPlaced, Linked
<1> QED
  BY <1>6, <1>8, <1>9 DEF WheelInv

(* Every step keeps the invariant.                                         *)
LEMMA StepOK ==
    ASSUME NoOverflow, WheelInv, [Next]_vars
    PROVE  WheelInv'
<1>1. ASSUME NEW e \in Events, NEW d \in Deltas, Schedule(e, d) PROVE WheelInv'
  <2>1. d \in Nat \ {0} /\ d + NumSlots <= Ticks
    BY WheelAssumption DEF NoOverflow
  <2> QED
    BY <1>1, <2>1, ScheduleStep
<1>2. ASSUME NEW e \in Events, Cancel(e) PROVE WheelInv'
  BY <1>2, CancelStep
<1>3. ASSUME NEW e \in Events, NEW r \in Ranges, ScheduleInRange(e, r[1], r[2]) PROVE WheelInv'
  BY <1>3, ScheduleInRangeStep
<1>4. ASSUME NEW d \in Advances, NEW max \in Budgets, Advance(d, max) PROVE WheelInv'
  BY <1>4, AdvanceStep
<1>5. CASE Enter
  BY <1>5, EnterStep
<1>6. CASE Promote
  BY <1>6, PromoteStep
<1>7. CASE Execute
  BY <1>7, ExecuteStep
<1>8. CASE Executed
  BY <1>8, ExecutedStep
<1>9. CASE Drained
  BY <1>9, DrainedStep
<1>10. CASE UNCHANGED vars
  <2>1. now' = now /\ pending' = pending /\ slots' = slots /\ at' = at /\ call' = call
    BY <1>10 DEF vars
  <2>2. Types' /\ Hands' /\ CallOK' /\ Wheel(slots)'
    BY <2>1 DEF WheelInv, Types, Hands, Lags, CallOK, HandRange
  <2>3. \A l \in 0..MaxLevel : Waits(l) => Waits(l)'
    BY <2>1 DEF Waits
  <2>4. AllPlaced'
    BY <2>1, <2>3, PlacedStays
  <2> QED
    BY <2>2, <2>4 DEF WheelInv
<1> QED
  BY <1>1, <1>2, <1>3, <1>4, <1>5, <1>6, <1>7, <1>8, <1>9, <1>10 DEF Next, UserNext, WheelNext

(* The invariant holds always.                                             *)
LEMMA WheelInvariant ==
    ASSUME NoOverflow
    PROVE  Spec => []WheelInv
  BY InitOK, StepOK, PTL DEF Spec

(* It says what user code may rely on.                                     *)
LEMMA CoherentFollows == WheelInv => Coherent
<1> SUFFICES ASSUME WheelInv PROVE Coherent
  OBVIOUS
<1>1. Types /\ Wheel(slots) /\ Hands
  BY DEF WheelInv
<1>2. TypeOK
  <2>1. call.delta \in 0..(Ticks - 1)
    <3>1. PICK k \in 0..(Ticks - 2) : k = call.delta
      BY <1>1, WheelTypes
    <3>2. k \in 0..(Ticks - 1)
      BY Constants
    <3> QED
      BY <3>1, <3>2
  <2> QED
    BY <1>1, <2>1, WheelTypes DEF TypeOK, Wheel
<1>3. Outside => \A l \in 0..MaxLevel : now[l] = now[0] \div Span[l]
  BY <1>1, HandsShow DEF Outside
<1>4. /\ \A l, m \in 0..MaxLevel, i, j \in 0..(NumSlots - 1) :
            <<l, i>> # <<m, j>> => Linked(l, i) \cap Linked(m, j) = {}
      /\ \A l \in 0..MaxLevel, i \in 0..(NumSlots - 1) : IsInjective(slots[l][i])
  BY <1>1 DEF Wheel, Linked, List
<1>5. ASSUME NEW l \in 0..MaxLevel, NEW i \in 0..(NumSlots - 1), NEW e \in Linked(l, i)
      PROVE  Index(at[e] \div Span[l]) = i
  <2>1. /\ at[e] \in 0..(Ticks - 1) /\ Due(e) \in Int /\ i = Index(Due(e) \div Span[l])
        /\ Delay(e) = (IF at[e] >= now[0] THEN at[e] - now[0] ELSE at[e] - now[0] + Ticks)
        /\ now[0] \in Int /\ Ticks \in Int
    BY <1>1, Waiting, WheelTypes, Constants, SMTT(60) DEF Placed
  <2>2. Due(e) = at[e] \/ Due(e) - Ticks = at[e]
    BY <2>1 DEF Due
  <2>3. Index((Due(e) - Ticks) \div Span[l]) = Index(Due(e) \div Span[l])
    BY <2>1, WrapLevel
  <2> QED
    BY <2>1, <2>2, <2>3
<1> QED
  BY <1>2, <1>3, <1>4, <1>5 DEF Coherent

(* Outside process_current_slot(), also within a callback and between two  *)
(* calls of advance() of which the first stopped half-way, the hands of    *)
(* all levels agree and every event is in one slot, that of its tick.      *)
THEOREM CoherentAlways ==
    ASSUME NoOverflow
    PROVE  Spec => []Coherent
  BY WheelInvariant, CoherentFollows, PTL

(* Time moves only when no event is due.                                   *)
LEMMA TimeMoves ==
    ASSUME WheelInv, [Next]_vars, now'[0] # now[0], NEW e \in Events, Scheduled(e)
    PROVE  at[e] # now[0]
<1>1. \/ call.phase = "idle" /\ pending = 0
      \/ call.phase = "drain" /\ call.level = 0 /\ Current = <<>>
  <2>1. CASE UserNext
    <3>1. \A f, d : Schedule(f, d) => now' = now
      BY DEF Schedule
    <3>2. \A f : Cancel(f) => now' = now
      BY DEF Cancel
    <3>3. \A f, a, b : ScheduleInRange(f, a, b) => now' = now
      BY <3>1 DEF ScheduleInRange
    <3>4. \A d, max : Advance(d, max) => call.phase = "idle" /\ (pending = 0 \/ now' = now)
      BY DEF Advance
    <3> QED
      BY <2>1, <3>1, <3>2, <3>3, <3>4 DEF UserNext
  <2>2. CASE Enter
    <3>1. call.level \in 0..MaxLevel /\ now \in [0..MaxLevel -> Nat] /\ 0 \in 0..MaxLevel
      BY WheelTypes DEF WheelInv, Types
    <3>2. PICK n : n = call.level + 1
      OBVIOUS
    <3>3. n # 0 /\ (now' = now \/ now' = [now EXCEPT ![n] = (@ + 1) % HandRange(n)])
      BY <2>2, <3>1, <3>2 DEF Enter
    <3>4. now'[0] = now[0]
      BY <3>1, <3>3
    <3> QED
      BY <3>4
  <2>3. CASE Promote \/ Execute \/ Executed \/ UNCHANGED vars
    BY <2>3 DEF Promote, Execute, Executed, vars
  <2>4. CASE Drained
    BY <2>4 DEF Drained
  <2> QED
    BY <2>1, <2>2, <2>3, <2>4 DEF Next, WheelNext
<1>2. PICK l \in 0..MaxLevel, i \in 0..(NumSlots - 1) : e \in Linked(l, i)
  BY DEF Scheduled
<1> QED
  BY <1>1, <1>2, NoneDue

(* An event is executed at the tick it was last scheduled for, and time    *)
(* does not move past it before.                                           *)
THEOREM OnTimeAlways ==
    ASSUME NoOverflow
    PROVE  Spec => OnTime
<1>1. ASSUME WheelInv, [Next]_vars
      PROVE  /\ Execute => at[Head(Current)] = now[0]
             /\ now'[0] # now[0] => \A e \in Events : Scheduled(e) => at[e] # now[0]
  BY <1>1, ExecuteStep, TimeMoves
<1> QED
  BY <1>1, WheelInvariant, PTL DEF Spec, OnTime

(* schedule_in_range() leaves the event due within the range, if the range *)
(* ends below the span of the highest level.                               *)
THEOREM WithinRangeAlways ==
    ASSUME NoOverflow, \A r \in Ranges : r[2] < Span[MaxLevel]
    PROVE  Spec => WithinRange
<1>1. ASSUME WheelInv
      PROVE  \A e \in Events, r \in Ranges :
                ScheduleInRange(e, r[1], r[2]) => Delay(e)' \in r[1]..r[2]
  BY <1>1, ScheduleInRangeStep
<1> QED
  BY <1>1, WheelInvariant, PTL DEF Spec, WithinRange

-----------------------------------------------------------------------------
(* ticks_to_wakeup().                                                      *)

(* What its scan looks at: the slot i + 1 ahead of the hand of level l,    *)
(* the delays of the events of a slot, the slots ahead that hold an event, *)
(* the next slot of the level above, and the level at which it ends.       *)
Ahead(l, i) == Index(now[l] + 1 + i)
Delays(l, i) == {Delay(e) : e \in Linked(l, i)}
Hits(l) == {i \in 0..(NumSlots - 1) : Linked(l, Ahead(l, i)) # {}}
Above(l, first) ==
    IF /\ l < MaxLevel
       /\ \E i \in 0..first : Ahead(l, i) = 0
       /\ l > 0 \/ Linked(0, 0) = {}
    THEN Delays(l + 1, Index(now[l + 1] + 1)) ELSE {}
Ends(max) == {l \in 0..MaxLevel : Hits(l) # {} \/ l = MaxLevel \/ max \div (2 * Span[l]) = 0}
Found(max, l) == {max} \cup Delays(l, Ahead(l, Min(Hits(l)))) \cup Above(l, Min(Hits(l)))

(* The answer of a wheel at rest.                                          *)
LEMMA WakeupIs ==
    ASSUME pending = 0, NEW max
    PROVE  TicksToWakeup(max) = IF Hits(Min(Ends(max))) = {} THEN max
                                ELSE Min(Found(max, Min(Ends(max))))
  BY DEF TicksToWakeup, Found, Ends, Above, Hits, Delays, Ahead

(* The slots ahead are slots of the wheel.                                 *)
LEMMA AheadSlot ==
    ASSUME Types, NEW l \in 0..MaxLevel, NEW i \in Nat
    PROVE  Ahead(l, i) \in 0..(NumSlots - 1) /\ Index(now[l] + 1) \in 0..(NumSlots - 1)
<1>1. PICK n \in Nat : n = now[l]
  BY WheelTypes
<1>2. NumSlots \in Nat \ {0} /\ n + 1 + i \in Int /\ n + 1 \in Int
  BY Constants
<1> QED
  BY <1>1, <1>2, DivMod DEF Ahead, Index

(* In a wheel at rest an event is Gap(e, l) slots ahead of the hand.       *)
LEMMA AheadOf ==
    ASSUME WheelInv, Quiescent, NEW l \in 0..MaxLevel, NEW i \in 0..(NumSlots - 1),
           NEW e \in Linked(l, i)
    PROVE  /\ Gap(e, l) \in 1..(NumSlots - 1) /\ Gap(e, l) - 1 \in Hits(l)
           /\ \A j \in 0..(NumSlots - 1) : Ahead(l, j) = i <=> j = Gap(e, l) - 1
<1>0. call.phase = "idle" /\ pending = 0 /\ Types /\ NumSlots \in Nat \ {0}
  BY Constants DEF Quiescent, WheelInv
<1>1. PICK g \in 1..(NumSlots - 1) : g = Gap(e, l)
  <2>1. Gap(e, l) \in 0..(NumSlots - 1) /\ Gap(e, l) # 0
    BY <1>0, Waiting, NoneDue DEF Placed
  <2> QED
    BY <1>0, <2>1
<1>2. PICK u \in Int, v \in Int : u = now[0] \div Span[l] /\ v = Due(e) \div Span[l]
  BY Waiting
<1>3. now[l] = u /\ g = v - u /\ i = Index(v)
  BY <1>0, <1>1, <1>2, HandsShow, Waiting DEF WheelInv, Gap, Placed
<1>4. ASSUME NEW j \in 0..(NumSlots - 1)
      PROVE  Ahead(l, j) = i <=> j = g - 1
  <2>1. PICK w \in Int : w = u + 1 + j
    OBVIOUS
  <2>2. Ahead(l, j) = Index(w)
    BY <1>3, <2>1 DEF Ahead
  <2>3. w = v <=> j = g - 1
    BY <1>3, <2>1
  <2>4. Index(w) = Index(v) => w = v
    <3>1. CASE v - w \in 0..(NumSlots - 1)
      BY <3>1, SameSlot
    <3>2. CASE w - v \in 0..(NumSlots - 1)
      BY <3>2, SameSlot
    <3>3. v - w \in 0..(NumSlots - 1) \/ w - v \in 0..(NumSlots - 1)
      BY <1>0, <1>3, <2>1
    <3> QED
      BY <3>1, <3>2, <3>3
  <2> QED
    BY <1>3, <2>2, <2>3, <2>4
<1>5. g - 1 \in 0..(NumSlots - 1)
  BY <1>0
<1>6. g - 1 \in Hits(l)
  <2>1. Ahead(l, g - 1) = i
    BY <1>4, <1>5
  <2> QED
    BY <1>5, <2>1 DEF Hits
<1> QED
  BY <1>1, <1>4, <1>6

(* The first slot ahead that holds an event.                               *)
LEMMA FirstHit ==
    ASSUME WheelInv, NEW l \in 0..MaxLevel, Hits(l) # {}
    PROVE  /\ Min(Hits(l)) \in 0..(NumSlots - 1) /\ Min(Hits(l)) \in Hits(l)
           /\ \A j \in Hits(l) : Min(Hits(l)) <= j
           /\ Ahead(l, Min(Hits(l))) \in 0..(NumSlots - 1)
           /\ Linked(l, Ahead(l, Min(Hits(l)))) # {}
<1>1. Hits(l) \in SUBSET Nat
  BY DEF Hits
<1>2. Min(Hits(l)) \in Hits(l) /\ \A j \in Hits(l) : Min(Hits(l)) <= j
  BY <1>1, MinLeast
<1>3. Min(Hits(l)) \in 0..(NumSlots - 1) /\ Linked(l, Ahead(l, Min(Hits(l)))) # {}
  BY <1>2 DEF Hits
<1>4. Ahead(l, Min(Hits(l))) \in 0..(NumSlots - 1)
  BY <1>3, AheadSlot DEF WheelInv
<1> QED
  BY <1>2, <1>3, <1>4

(* The level at which the scan ends.                                       *)
LEMMA EndLevel ==
    ASSUME NEW max
    PROVE  /\ Min(Ends(max)) \in 0..MaxLevel /\ Min(Ends(max)) \in Ends(max)
           /\ \A l \in Ends(max) : Min(Ends(max)) <= l
<1>1. MaxLevel \in 0..MaxLevel
  BY Constants
<1>2. Ends(max) \in SUBSET Nat /\ Ends(max) # {}
  BY <1>1 DEF Ends
<1>3. Min(Ends(max)) \in Ends(max) /\ \A l \in Ends(max) : Min(Ends(max)) <= l
  BY <1>2, MinLeast
<1> QED
  BY <1>3 DEF Ends

(* The delays of the events of the wheel.                                  *)
Candidates(max) == {max} \cup {Delay(e) : e \in {x \in Events : Scheduled(x)}}

(* The next event, or max.                                                 *)
LEMMA EarliestIs ==
    ASSUME WheelInv, Quiescent, NEW max \in 1..(Ticks - 1)
    PROVE  /\ Earliest(max) \in Candidates(max) /\ \A d \in Candidates(max) : Earliest(max) <= d /\ d \in Nat \ {0}
           /\ \A l \in 0..MaxLevel, i \in 0..(NumSlots - 1) : Delays(l, i) \subseteq Candidates(max)
<1>1. ASSUME NEW e \in Events, Scheduled(e) PROVE Delay(e) \in Nat \ {0}
  <2>1. PICK l \in 0..MaxLevel, i \in 0..(NumSlots - 1) : e \in Linked(l, i)
    BY <1>1 DEF Scheduled
  <2>2. Delay(e) \in 0..(Ticks - 1) /\ Delay(e) # 0
    BY <2>1, Waiting, NoneDue DEF Quiescent
  <2> QED
    BY <2>2
<1>2. \A d \in Candidates(max) : d \in Nat \ {0}
  BY <1>1 DEF Candidates
<1>3. Candidates(max) \in SUBSET Nat /\ Candidates(max) # {}
  BY <1>2 DEF Candidates
<1>4. Earliest(max) = Min(Candidates(max))
  BY DEF Earliest, Candidates
<1>5. Earliest(max) \in Candidates(max) /\ \A d \in Candidates(max) : Earliest(max) <= d
  BY <1>3, <1>4, MinLeast
<1>6. ASSUME NEW l \in 0..MaxLevel, NEW i \in 0..(NumSlots - 1), NEW e \in Linked(l, i)
      PROVE  Delay(e) \in Candidates(max)
  <2>1. e \in Events /\ Scheduled(e)
    BY <1>6, Waiting DEF Scheduled
  <2> QED
    BY <2>1 DEF Candidates
<1> QED
  BY <1>2, <1>5, <1>6 DEF Delays

(* The scan finds events that are scheduled.                               *)
LEMMA FoundCandidates ==
    ASSUME WheelInv, Quiescent, NEW max \in 1..(Ticks - 1), NEW l \in 0..MaxLevel, Hits(l) # {}
    PROVE  Found(max, l) \subseteq Candidates(max) /\ Found(max, l) \in SUBSET Nat
<1>1. PICK first \in 0..(NumSlots - 1) : first = Min(Hits(l)) /\ Ahead(l, first) \in 0..(NumSlots - 1)
  BY FirstHit
<1>2. Delays(l, Ahead(l, first)) \subseteq Candidates(max)
  BY <1>1, EarliestIs
<1>3. Above(l, first) \subseteq Candidates(max)
  <2>1. CASE l < MaxLevel
    <3>1. l + 1 \in 0..MaxLevel
      BY <2>1, Constants
    <3>2. Index(now[l + 1] + 1) \in 0..(NumSlots - 1)
      <4>1. 0 \in Nat
        OBVIOUS
      <4> QED
        BY <3>1, <4>1, AheadSlot DEF WheelInv
    <3>3. Delays(l + 1, Index(now[l + 1] + 1)) \subseteq Candidates(max)
      BY <3>1, <3>2, EarliestIs
    <3> QED
      BY <3>3 DEF Above
  <2>2. CASE ~(l < MaxLevel)
    BY <2>2 DEF Above
  <2> QED
    BY <2>1, <2>2
<1>4. max \in Candidates(max)
  BY DEF Candidates
<1>5. Found(max, l) \subseteq Candidates(max)
  BY <1>1, <1>2, <1>3, <1>4 DEF Found
<1> QED
  BY <1>5, EarliestIs

(* Its answer is max or the delay of an event.                             *)
LEMMA WakeupAmong ==
    ASSUME WheelInv, Quiescent, NEW max \in 1..(Ticks - 1)
    PROVE  /\ TicksToWakeup(max) \in Candidates(max) /\ TicksToWakeup(max) <= max
           /\ Hits(Min(Ends(max))) # {} =>
                 \A d \in Found(max, Min(Ends(max))) : TicksToWakeup(max) <= d
<1>1. PICK l \in 0..MaxLevel : l = Min(Ends(max))
  BY EndLevel
<1>2. TicksToWakeup(max) = IF Hits(l) = {} THEN max ELSE Min(Found(max, l))
  BY <1>1, WakeupIs DEF Quiescent
<1>3. CASE Hits(l) = {}
  <2>1. max \in Candidates(max) /\ max <= max
    BY DEF Candidates
  <2> QED
    BY <1>1, <1>2, <1>3, <2>1
<1>4. CASE Hits(l) # {}
  <2>1. Found(max, l) \subseteq Candidates(max) /\ Found(max, l) \in SUBSET Nat
    BY <1>4, FoundCandidates
  <2>2. max \in Found(max, l)
    BY DEF Found
  <2>3. Min(Found(max, l)) \in Found(max, l) /\ \A d \in Found(max, l) : Min(Found(max, l)) <= d
    BY <2>1, <2>2, MinLeast
  <2> QED
    BY <1>1, <1>2, <1>4, <2>1, <2>2, <2>3
<1> QED
  BY <1>3, <1>4

(* The first slot ahead that holds an event holds one that is as far.      *)
LEMMA FirstGap ==
    ASSUME WheelInv, Quiescent, NEW l \in 0..MaxLevel, Hits(l) # {}
    PROVE  \E e \in Linked(l, Ahead(l, Min(Hits(l)))) :
              /\ Gap(e, l) - 1 = Min(Hits(l)) /\ e \in Linked(l, Ahead(l, Min(Hits(l))))
              /\ Delay(e) \in Delays(l, Ahead(l, Min(Hits(l))))
<1>1. PICK first \in 0..(NumSlots - 1), i \in 0..(NumSlots - 1) :
         first = Min(Hits(l)) /\ i = Ahead(l, first) /\ Linked(l, i) # {}
  BY FirstHit
<1>2. PICK e \in Linked(l, i) : TRUE
  BY <1>1
<1>3. first = Gap(e, l) - 1
  BY <1>1, AheadOf
<1>4. Delay(e) \in Delays(l, i)
  BY DEF Delays
<1> QED
  BY <1>1, <1>3, <1>4

(* On the lowest level an event is as many slots ahead as ticks.           *)
LEMMA LowestGap ==
    ASSUME WheelInv, NEW i \in 0..(NumSlots - 1), NEW e \in Linked(0, i)
    PROVE  Gap(e, 0) = Delay(e)
<1>0. 0 \in 0..MaxLevel /\ Span[0] = 1
  BY Constants
<1>1. Due(e) \in Int /\ now[0] \in Int /\ Delay(e) \in 0..(Ticks - 1)
  BY <1>0, Waiting, WheelTypes DEF WheelInv
<1>2. \A z \in Int : z \div 1 = z
  OBVIOUS
<1>3. Gap(e, 0) = Due(e) - now[0]
  BY <1>0, <1>1, <1>2 DEF Gap
<1> QED
  BY <1>1, <1>3 DEF Due

(* A slot further ahead is later.                                          *)
LEMMA LaterSlot ==
    ASSUME WheelInv, NEW l \in 0..MaxLevel, NEW i \in 0..(NumSlots - 1), NEW j \in 0..(NumSlots - 1),
           NEW e \in Linked(l, i), NEW f \in Linked(l, j), Gap(e, l) < Gap(f, l)
    PROVE  Delay(e) <= Delay(f)
<1>1. PICK x \in Int, c \in Nat, d \in Nat : x = now[0] /\ c = Delay(e) /\ d = Delay(f)
  BY Waiting, WheelTypes, SMTT(60) DEF WheelInv
<1>2. Due(e) = x + c /\ Due(f) = x + d
  BY <1>1 DEF Due
<1>3. PICK s \in Nat \ {0} : s = Span[l]
  BY Constants
<1>4. x + c \in Int /\ x + d \in Int
  OBVIOUS
<1>5. PICK p \in Int, q \in Int, u \in Int : p = (x + c) \div s /\ q = (x + d) \div s /\ u = x \div s
  BY <1>4, DivMod
<1>6. p - u < q - u
  BY <1>1, <1>2, <1>3, <1>5 DEF Gap
<1>7. x + d <= x + c => q <= p
  BY <1>4, <1>5, DivMono
<1> QED
  BY <1>1, <1>6, <1>7

(* An event of the second level that is due before the first one of the    *)
(* lowest: the scan has passed slot 0, where the next slot of the second   *)
(* level would come down, and the event is in that slot.                   *)
LEMMA ScanPasses ==
    ASSUME WheelInv, Quiescent, 1 <= MaxLevel, Hits(0) # {}, NEW i \in 0..(NumSlots - 1),
           NEW e \in Linked(1, i), Delay(e) <= Min(Hits(0))
    PROVE  Delay(e) \in Above(0, Min(Hits(0)))
<1>0. 0 \in 0..MaxLevel /\ 1 \in 0..MaxLevel /\ NumSlots \in Nat \ {0} /\ Span[1] = NumSlots
      /\ 0 < MaxLevel /\ 0 + 1 = 1
  <2>1. 0 \in 0..MaxLevel /\ 1 \in 0..MaxLevel /\ NumSlots \in Nat \ {0} /\ 0 + 1 = 1 /\ 0 < MaxLevel
    BY Constants
  <2>2. Span[0 + 1] = NumSlots * Span[0] /\ Span[0] = 1
    BY <2>1, Constants
  <2> QED
    BY <2>1, <2>2
<1>1. PICK first \in 0..(NumSlots - 1) : first = Min(Hits(0)) /\ \A j \in Hits(0) : first <= j
  BY <1>0, FirstHit
<1>2. PICK x \in Nat, D \in Nat : x = now[0] /\ D = Delay(e) /\ Due(e) = x + D /\ D <= first
  <2>1. now[0] \in 0..(Ticks - 1) /\ Delay(e) \in 0..(Ticks - 1)
    BY <1>0, Waiting, WheelTypes DEF WheelInv
  <2> QED
    BY <1>1, <2>1 DEF Due
<1>3. PICK u \in Int, r \in 0..(NumSlots - 1) : u = x \div NumSlots /\ x = NumSlots * u + r
  <2>1. x \in Int
    OBVIOUS
  <2> QED
    BY <1>0, <2>1, DivMod, ZenonT(60)
<1>4. PICK v \in Int, s \in 0..(NumSlots - 1) : v = (x + D) \div NumSlots /\ x + D = NumSlots * v + s
  <2>1. PICK y \in Int : y = x + D
    OBVIOUS
  <2>2. y \div NumSlots \in Int /\ y % NumSlots \in 0..(NumSlots - 1)
        /\ y = NumSlots * (y \div NumSlots) + (y % NumSlots)
    BY <1>0, DivMod
  <2> QED
    BY <2>1, <2>2
<1>5. v - u \in 1..(NumSlots - 1) /\ i = Index(v) /\ now[1] = u
  <2>1. Gap(e, 1) = v - u
    BY <1>0, <1>2, <1>3, <1>4 DEF Gap
  <2>2. Gap(e, 1) \in 1..(NumSlots - 1)
    BY <1>0, AheadOf
  <2>3. i = Index(v)
    BY <1>0, <1>2, <1>4, Waiting DEF Placed
  <2>4. now[1] = u
    BY <1>0, <1>2, <1>3, HandsShow DEF WheelInv, Quiescent
  <2> QED
    BY <2>1, <2>2, <2>3, <2>4
<1>6. PICK b \in Int, w \in Int : w = u + 1 /\ b = NumSlots * w /\ b = NumSlots * u + NumSlots
  <2>1. u + 1 \in Int /\ NumSlots * (u + 1) = NumSlots * u + NumSlots /\ NumSlots * (u + 1) \in Int
    BY <1>0, Z3
  <2> QED
    BY <2>1
<1>7. NumSlots * u \in Int /\ NumSlots * v \in Int
  BY <1>0, Product
<1>8. w = v
  <2>1. ASSUME w < v PROVE FALSE
    <3>1. b + NumSlots <= NumSlots * v
      BY <1>0, <1>6, <2>1, MultiplesApart
    <3> QED
      BY <1>0, <1>2, <1>3, <1>4, <1>6, <1>7, <3>1
  <2>2. ~(v < w)
    BY <1>5, <1>6
  <2> QED
    BY <2>1, <2>2
<1>9. PICK k \in 0..(NumSlots - 1) : k = b - x - 1 /\ k \in 0..first /\ k < first /\ x + 1 + k = b
  <2>1. b <= x + D
    BY <1>0, <1>4, <1>6, <1>7, <1>8
  <2>2. b - x - 1 \in 0..(NumSlots - 1)
    BY <1>0, <1>3, <1>6, <1>7
  <2>3. b - x - 1 < first /\ b - x - 1 \in 0..first /\ x + 1 + (b - x - 1) = b
    BY <1>0, <1>2, <2>1, <2>2
  <2> QED
    BY <2>2, <2>3
<1>10. Ahead(0, k) = 0
  <2>1. PICK z \in 0..(NumSlots - 1) : z = 0
    BY <1>0
  <2>2. b = NumSlots * w + z
    BY <1>6, <2>1
  <2>3. b % NumSlots = z
    BY <1>0, <2>2, DivUnique
  <2> QED
    BY <1>2, <1>9, <2>1, <2>3 DEF Ahead, Index
<1>11. Linked(0, 0) = {}
  <2>1. k \notin Hits(0)
    BY <1>1, <1>9
  <2> QED
    BY <1>9, <1>10, <2>1 DEF Hits
<1>12. Above(0, first) = Delays(1, Index(now[1] + 1))
  BY <1>0, <1>9, <1>10, <1>11 DEF Above
<1>13. Index(now[1] + 1) = i
  BY <1>5, <1>6, <1>8
<1> QED
  BY <1>1, <1>12, <1>13 DEF Delays

(* With nothing above the second level, no event is earlier than the       *)
(* answer.                                                                 *)
LEMMA WakeupInTime ==
    ASSUME WheelInv, Quiescent, NEW max \in 1..(Ticks - 1),
           \A l \in 2..MaxLevel, i \in 0..(NumSlots - 1) : Linked(l, i) = {},
           NEW l \in 0..MaxLevel, NEW i \in 0..(NumSlots - 1), NEW e \in Linked(l, i)
    PROVE  TicksToWakeup(max) <= Delay(e)
<1>0. 0 \in 0..MaxLevel /\ Span[0] = 1 /\ MaxLevel \in Nat /\ NumSlots \in Nat
  BY Constants
<1>1. l = 0 \/ l = 1
  <2>1. l \notin 2..MaxLevel
    OBVIOUS
  <2> QED
    BY <1>0, <2>1
<1>2. PICK a \in Nat, D \in Nat \ {0}, last \in 0..MaxLevel :
         /\ a = TicksToWakeup(max) /\ D = Delay(e) /\ last = Min(Ends(max)) /\ a <= max
         /\ last \in Ends(max) /\ \A k \in Ends(max) : last <= k
         /\ Hits(last) # {} => \A d \in Found(max, last) : a <= d
  <2>1. Delay(e) \in Nat \ {0}
    BY Waiting, NoneDue DEF Quiescent
  <2>2. TicksToWakeup(max) \in Nat
    BY WakeupAmong, EarliestIs
  <2> QED
    BY <2>1, <2>2, WakeupAmong, EndLevel
<1>3. PICK g \in 1..(NumSlots - 1) : g = Gap(e, l) /\ g - 1 \in Hits(l)
  BY AheadOf
<1>4. CASE Hits(0) # {}
  <2>1. last = 0
    <3>1. 0 \in Ends(max)
      BY <1>0, <1>4 DEF Ends
    <3> QED
      BY <1>0, <1>2, <3>1
  <2>2. PICK first \in 0..(NumSlots - 1) :
           first = Min(Hits(0)) /\ (\A j \in Hits(0) : first <= j) /\ Ahead(0, first) \in 0..(NumSlots - 1)
    BY <1>0, <1>4, FirstHit
  <2>3. PICK f \in Linked(0, Ahead(0, first)) :
           Gap(f, 0) - 1 = first /\ Delay(f) \in Delays(0, Ahead(0, first))
    BY <1>0, <1>4, <2>2, FirstGap
  <2>4. PICK c \in Nat : c = Delay(f) /\ Gap(f, 0) = c
    BY <1>0, <2>2, LowestGap, Waiting
  <2>5. a <= first + 1
    <3>1. Delay(f) \in Found(max, 0)
      BY <2>2, <2>3 DEF Found
    <3>2. a <= c
      BY <1>2, <1>4, <2>1, <2>4, <3>1
    <3> QED
      BY <2>3, <2>4, <3>2
  <2>6. CASE l = 0
    <3>1. g = D
      BY <1>2, <1>3, <2>6, LowestGap
    <3>2. first <= g - 1
      BY <1>3, <2>2, <2>6
    <3> QED
      BY <1>2, <2>5, <3>1, <3>2
  <2>7. CASE l = 1
    <3>1. CASE D <= first
      <4>1. Delay(e) \in Above(0, first)
        BY <1>2, <1>4, <2>2, <2>7, <3>1, ScanPasses
      <4>2. Delay(e) \in Found(max, 0)
        BY <2>2, <4>1 DEF Found
      <4> QED
        BY <1>2, <1>4, <2>1, <4>2
    <3>2. CASE ~(D <= first)
      BY <1>2, <2>5, <3>2
    <3> QED
      BY <3>1, <3>2
  <2> QED
    BY <1>1, <2>6, <2>7
<1>5. CASE Hits(0) = {}
  <2>1. l = 1 /\ 1 \in 0..MaxLevel
    BY <1>1, <1>3, <1>5
  <2>2. CASE max = 1
    BY <1>2, <2>2
  <2>3. CASE max # 1
    <3>1. max \div 2 # 0
      <4>1. PICK m \in Int : m = max /\ m >= 2
        BY <2>3, Constants
      <4>2. 2 \in Nat \ {0} /\ 2 \in Int /\ 2 <= m
        BY <4>1
      <4>3. 2 \div 2 <= m \div 2
        BY <4>2, DivMono
      <4>4. 2 \div 2 = 1
        OBVIOUS
      <4> QED
        BY <4>1, <4>3, <4>4
    <3>2. 0 \notin Ends(max)
      <4>1. 2 * Span[0] = 2 /\ 0 # MaxLevel
        BY <1>0, <2>1
      <4> QED
        BY <1>5, <3>1, <4>1 DEF Ends
    <3>3. last = 1
      <4>1. 1 \in Ends(max)
        BY <1>3, <2>1 DEF Ends
      <4>2. last # 0 /\ last <= 1
        BY <1>2, <3>2, <4>1
      <4> QED
        BY <4>2
    <3>4. Hits(1) # {}
      BY <1>3, <2>1
    <3>5. PICK first \in 0..(NumSlots - 1), h \in 0..(NumSlots - 1) :
             first = Min(Hits(1)) /\ (\A j \in Hits(1) : first <= j) /\ h = Ahead(1, first)
      BY <2>1, <3>4, FirstHit
    <3>6. PICK f \in Linked(1, h) : Gap(f, 1) - 1 = first /\ Delay(f) \in Delays(1, h)
      BY <2>1, <3>4, <3>5, FirstGap
    <3>7. a <= Delay(f)
      <4>1. Delay(f) \in Found(max, 1)
        BY <3>5, <3>6 DEF Found
      <4> QED
        BY <1>2, <3>3, <3>4, <4>1
    <3>8. PICK c \in Nat, k \in 1..(NumSlots - 1) : c = Delay(f) /\ k = Gap(f, 1)
      BY <2>1, AheadOf, Waiting
    <3>9. first <= g - 1 /\ k - 1 = first
      BY <1>3, <2>1, <3>5, <3>6, <3>8
    <3>10. CASE k < g
      <4>1. Gap(f, 1) < Gap(e, 1)
        BY <1>3, <2>1, <3>8, <3>10
      <4>2. Delay(f) <= Delay(e)
        BY <2>1, <4>1, LaterSlot
      <4> QED
        BY <1>2, <3>7, <3>8, <4>2
    <3>11. CASE k = g
      <4>1. Ahead(1, first) = i
        BY <1>3, <2>1, <3>9, <3>11, AheadOf
      <4>2. Delay(e) \in Found(max, 1)
        BY <2>1, <3>5, <4>1 DEF Found, Delays
      <4> QED
        BY <1>2, <3>3, <3>4, <4>2
    <3> QED
      BY <3>9, <3>10, <3>11
  <2> QED
    BY <2>2, <2>3
<1> QED
  BY <1>4, <1>5

(* ticks_to_wakeup() of a wheel that satisfies the invariant.              *)
LEMMA WakeupFollows == WheelInv => WakeupNeverEarly
<1> SUFFICES ASSUME WheelInv, Quiescent, NEW max \in 1..(Ticks - 1)
             PROVE  /\ TicksToWakeup(max) >= Earliest(max)
                    /\ (\A l \in 2..MaxLevel, i \in 0..(NumSlots - 1) : Linked(l, i) = {})
                          => TicksToWakeup(max) = Earliest(max)
  BY DEF WakeupNeverEarly
<1>1. PICK a \in Nat, b \in Nat :
         /\ a = TicksToWakeup(max) /\ b = Earliest(max) /\ b <= a /\ b \in Candidates(max) /\ a <= max
  BY WakeupAmong, EarliestIs
<1>2. ASSUME \A l \in 2..MaxLevel, i \in 0..(NumSlots - 1) : Linked(l, i) = {}
      PROVE  a <= b
  <2>1. CASE b = max
    BY <1>1, <2>1
  <2>2. CASE b # max
    <3>1. PICK e \in Events : Scheduled(e) /\ b = Delay(e)
      BY <1>1, <2>2 DEF Candidates
    <3>2. PICK l \in 0..MaxLevel, i \in 0..(NumSlots - 1) : e \in Linked(l, i)
      BY <3>1 DEF Scheduled
    <3> QED
      BY <1>1, <1>2, <3>1, <3>2, WakeupInTime
  <2> QED
    BY <2>1, <2>2
<1> QED
  BY <1>1, <1>2

(* ticks_to_wakeup() never names a tick before the next event, and names   *)
(* the tick of the next event as long as nothing waits above the second    *)
(* level.                                                                  *)
THEOREM WakeupNeverEarlyAlways ==
    ASSUME NoOverflow
    PROVE  Spec => []WakeupNeverEarly
  BY WheelInvariant, WakeupFollows, PTL
=============================================================================
