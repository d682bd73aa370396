---------------------------- MODULE TerminalProofs ----------------------------
(***************************************************************************)
(* The terminal and its screen, for every size of the ring, of char and of *)
(* the screen, any number of keys, and reads of any size.  The lemmas come *)
(* first: what the steps of Terminal do to the ring and to the line being  *)
(* typed, and kputchar to the cursor and the screen.                       *)
(***************************************************************************)
EXTENDS Screen, FiniteSetTheorems, TLAPS

-----------------------------------------------------------------------------
(* Modular arithmetic *)

\* a remainder is the only one
LEMMA Remainder ==
  ASSUME NEW m \in Nat \ {0}, NEW q \in Int, NEW r \in 0..(m - 1), NEW x \in Int, x = m * q + r
  PROVE  x % m = r
<1> DEFINE p == x \div m
           s == x % m
<1>1. p \in Int /\ s \in 0..(m - 1) /\ x = m * p + s
  OBVIOUS
<1> HIDE DEF p, s
<1>2. \A d \in Int : d >= 1 => m * d >= m
  OBVIOUS
<1>3. m * (q - p) = s - r /\ m * (p - q) = r - s
  BY <1>1
<1>4. ~ (q - p >= 1) /\ ~ (p - q >= 1)
  BY <1>1, <1>2, <1>3
<1>5. q = p
  BY <1>1, <1>4
<1>6. s = r
  BY <1>1, <1>5
<1> QED  BY <1>6, Zenon DEF s

\* one step round the ring
LEMMA Around ==
  ASSUME NEW m \in Nat \ {0}, NEW x \in 0..(2 * m - 1)
  PROVE  x % m = IF x < m THEN x ELSE x - m
<1>1. CASE x < m
  <2>1. x = m * 0 + x /\ x \in 0..(m - 1)
    BY <1>1
  <2>2. x % m = x
    BY <2>1, Remainder
  <2> QED  BY <1>1, <2>2, Zenon
<1>2. CASE ~ (x < m)
  <2>1. x = m * 1 + (x - m) /\ x - m \in 0..(m - 1)
    BY <1>2
  <2>2. x % m = x - m
    BY <2>1, Remainder
  <2> QED  BY <1>2, <2>2, Zenon
<1> QED  BY <1>1, <1>2, Zenon

\* count++ on a char
LEMMA Increment ==
  ASSUME NEW m \in Nat \ {0}, NEW e \in Int
  PROVE  ((e % m) + 1) % m = (e + 1) % m
<1> DEFINE q == e \div m
           r == e % m
<1>1. q \in Int /\ r \in 0..(m - 1) /\ e = m * q + r
  OBVIOUS
<1> HIDE DEF q, r
<1>2. CASE r + 1 < m
  <2>1. r + 1 \in 0..(m - 1) /\ e + 1 = m * q + (r + 1) /\ r + 1 = m * 0 + (r + 1)
    BY <1>1, <1>2
  <2>2. (e + 1) % m = r + 1
    BY <1>1, <2>1, Remainder
  <2>3. (r + 1) % m = r + 1
    BY <1>1, <2>1, Remainder
  <2> QED  BY <2>2, <2>3, Zenon DEF r
<1>3. CASE ~ (r + 1 < m)
  <2>1. 0 \in 0..(m - 1) /\ e + 1 = m * (q + 1) + 0 /\ r + 1 = m * 1 + 0 /\ q + 1 \in Int
    BY <1>1, <1>3
  <2>2. (e + 1) % m = 0
    BY <1>1, <2>1, Remainder
  <2>3. (r + 1) % m = 0
    BY <1>1, <2>1, Remainder
  <2> QED  BY <2>2, <2>3, Zenon DEF r
<1> QED  BY <1>2, <1>3, Zenon

\* count-- on a char, as the load and the store have it
LEMMA Decrement ==
  ASSUME NEW m \in Nat \ {0}, NEW e \in Int
  PROVE  ((e % m) + m - 1) % m = (e - 1) % m
<1> DEFINE q == e \div m
           r == e % m
<1>1. q \in Int /\ r \in 0..(m - 1) /\ e = m * q + r
  OBVIOUS
<1> HIDE DEF q, r
<1>2. CASE r = 0
  <2>1. m - 1 \in 0..(m - 1) /\ e - 1 = m * (q - 1) + (m - 1) /\ q - 1 \in Int /\ r + m - 1 = m * 0 + (m - 1)
    BY <1>1, <1>2
  <2>2. (e - 1) % m = m - 1
    BY <1>1, <2>1, Remainder
  <2>3. (r + m - 1) % m = m - 1
    BY <1>1, <2>1, Remainder
  <2> QED  BY <2>2, <2>3, Zenon DEF r
<1>3. CASE r # 0
  <2>1. r - 1 \in 0..(m - 1) /\ e - 1 = m * q + (r - 1) /\ r + m - 1 = m * 1 + (r - 1)
    BY <1>1, <1>3
  <2>2. (e - 1) % m = r - 1
    BY <1>1, <2>1, Remainder
  <2>3. (r + m - 1) % m = r - 1
    BY <1>1, <2>1, Remainder
  <2> QED  BY <2>2, <2>3, Zenon DEF r
<1> QED  BY <1>2, <1>3, Zenon

-----------------------------------------------------------------------------
(* The ring *)

\* from s to e the ring b holds what is in t after r, which is the beginning of t
Ring(s, e, b, t, r) ==
  /\ s \in 0..(Size - 1) /\ e \in 0..(Size - 1)
  /\ b \in [0..(Size - 1) -> Char]
  /\ t \in Seq(Char) /\ r \in Seq(Char)
  /\ Len(t) - Len(r) \in 0..Size
  /\ \A i \in DOMAIN r : r[i] = t[i]
  /\ e = (s + (Len(t) - Len(r))) % Size
  /\ \A k \in 0..(Size - 1) : k < Len(t) - Len(r) => b[(s + k) % Size] = t[Len(r) + k + 1]

\* the index term_push, term_pop and the window compute
LEMMA Slot ==
  ASSUME NEW s \in 0..(Size - 1), NEW k \in 0..Size
  PROVE  (s + k) % Size = IF s + k < Size THEN s + k ELSE s + k - Size
<1>1. Size \in Nat \ {0}
  BY TerminalAssumption, Zenon
<1> DEFINE x == s + k
<1>2. x \in 0..(2 * Size - 1)
  BY <1>1
<1> HIDE DEF x
<1>3. x % Size = IF x < Size THEN x ELSE x - Size
  BY <1>1, <1>2, Around, Zenon
<1> QED  BY <1>1, <1>3 DEF x

\* one more character makes the end meet the start exactly when it is the last that fits
Meets(s, e, t, r) == (s = (e + 1) % Size) = (Len(t) - Len(r) + 1 = Size)

\* term_push keeps the ring, and its end meets the start when the ring is full
LEMMA PushRing ==
  ASSUME NEW s, NEW e, NEW b, NEW t, NEW r, NEW a \in Char,
         Ring(s, e, b, t, r), Len(t) - Len(r) < Size
  PROVE  /\ Ring(s, (e + 1) % Size, [b EXCEPT ![e] = a], Append(t, a), r)
         /\ Meets(s, e, t, r)
<1> DEFINE n == Len(t) - Len(r)
           f == (e + 1) % Size
           b2 == [b EXCEPT ![e] = a]
           t2 == Append(t, a)
<1>1. /\ s \in 0..(Size - 1) /\ e \in 0..(Size - 1) /\ b \in [0..(Size - 1) -> Char]
      /\ t \in Seq(Char) /\ r \in Seq(Char) /\ n \in 0..(Size - 1)
      /\ \A i \in DOMAIN r : r[i] = t[i]
  BY TerminalAssumption DEF Ring
<1>2. \A k \in 0..(Size - 1) : k < n => b[(s + k) % Size] = t[Len(r) + k + 1]
  BY Zenon DEF Ring
<1>3. Size \in Nat \ {0} /\ Len(t) \in Nat /\ Len(r) \in Nat /\ DOMAIN r = 1..Len(r)
  BY <1>1, TerminalAssumption
<1>4. \A k \in 0..Size : (s + k) % Size = IF s + k < Size THEN s + k ELSE s + k - Size
  BY <1>1, Slot, Zenon
<1>5. f = IF e + 1 < Size THEN e + 1 ELSE 0
  <2>1. 1 \in 0..Size
    BY <1>3
  <2>2. (e + 1) % Size = IF e + 1 < Size THEN e + 1 ELSE e + 1 - Size
    BY <1>1, <2>1, Slot, Zenon
  <2> QED  BY <1>1, <1>3, <2>2
<1>6. t2 \in Seq(Char) /\ Len(t2) = Len(t) + 1 /\ t2[Len(t) + 1] = a
  BY <1>1
<1>7. \A i \in 1..Len(t) : t2[i] = t[i]
  BY <1>1
<1>8. b2 \in [0..(Size - 1) -> Char] /\ b2[e] = a /\ \A j \in 0..(Size - 1) : j # e => b2[j] = b[j]
  BY <1>1, Zenon
<1> HIDE DEF b2, t2, f
<1>9. e = IF s + n < Size THEN s + n ELSE s + n - Size
  <2>1. n \in 0..Size
    BY <1>1, <1>3
  <2>2. e = (s + n) % Size
    BY Zenon DEF Ring
  <2> QED  BY <1>4, <2>1, <2>2, Zenon
<1>10. f = (s + (n + 1)) % Size
  <2>1. n + 1 \in 0..Size
    BY <1>1, <1>3
  <2>2. (s + (n + 1)) % Size = IF s + (n + 1) < Size THEN s + (n + 1) ELSE s + (n + 1) - Size
    BY <1>4, <2>1, Zenon
  <2> HIDE DEF n
  <2> QED  BY <1>1, <1>3, <1>5, <1>9, <2>2
<1>11. f \in 0..(Size - 1) /\ (s = f) = (n + 1 = Size)
  <2> HIDE DEF n
  <2>1. f \in 0..(Size - 1)
    BY <1>1, <1>3, <1>5
  <2>2. (s = f) <=> (n + 1 = Size)
    BY <1>1, <1>3, <1>5, <1>9
  <2> QED  BY <2>1, <2>2, Zenon
<1>12. \A i \in DOMAIN r : r[i] = t2[i]
  <2> SUFFICES ASSUME NEW i \in 1..Len(r) PROVE r[i] = t2[i]
    BY <1>3, Zenon
  <2>1. Len(t) \in Nat /\ Len(r) \in Nat /\ Len(t) - Len(r) \in 0..(Size - 1) /\ Size \in Nat
    BY <1>1, <1>3, Zenon
  <2>2. i \in 1..Len(t)
    BY ONLY <2>1, i \in 1..Len(r)
  <2> QED  BY <1>1, <1>3, <1>7, <2>2, Zenon
<1>13. ASSUME NEW k \in 0..(Size - 1), k < n + 1
       PROVE  b2[(s + k) % Size] = t2[Len(r) + k + 1]
  <2>1. k \in 0..Size /\ (s + k) % Size = IF s + k < Size THEN s + k ELSE s + k - Size
    BY <1>3, <1>4
  <2>2. CASE k = n
    <3>1. (s + k) % Size = e
      BY <1>9, <2>1, <2>2, Zenon
    <3>2. Len(r) + k + 1 = Len(t) + 1
      BY <1>3, <2>2
    <3> QED  BY <1>6, <1>8, <3>1, <3>2, Zenon
  <2>3. CASE k < n
    <3>1. (s + k) % Size \in 0..(Size - 1) /\ (s + k) % Size # e
      <4> DEFINE j == (s + k) % Size
      <4> HIDE DEF n, j
      <4>1. j = IF s + k < Size THEN s + k ELSE s + k - Size
        BY <2>1, Zenon DEF j
      <4>2. j \in 0..(Size - 1)
        BY <1>1, <1>3, <4>1
      <4>3. j # e
        BY <1>1, <1>3, <1>9, <2>3, <4>1
      <4> QED  BY <4>2, <4>3, Zenon DEF j
    <3>2. Len(r) + k + 1 \in 1..Len(t)
      BY <1>3, <2>3
    <3> QED  BY <1>2, <1>7, <1>8, <2>3, <3>1, <3>2, Zenon
  <2> QED  BY <1>1, <1>13, <2>2, <2>3
<1>14. Ring(s, f, b2, t2, r)
  <2>1. Len(t2) - Len(r) = n + 1 /\ n + 1 \in 0..Size
    BY <1>1, <1>3, <1>6
  <2> HIDE DEF n
  <2> QED  BY <1>1, <1>6, <1>8, <1>10, <1>11, <1>12, <1>13, <2>1, Zenon DEF Ring
<1>15. Meets(s, e, t, r)
  BY <1>11, Zenon DEF Meets, f
<1> QED  BY <1>14, <1>15, Zenon DEF f, b2, t2

\* term_poplast keeps the ring
LEMMA EraseRing ==
  ASSUME NEW s, NEW e, NEW b, NEW t, NEW r,
         Ring(s, e, b, t, r), Len(t) - Len(r) > 0
  PROVE  Ring(s, (e + Size - 1) % Size, b, SubSeq(t, 1, Len(t) - 1), r)
<1> DEFINE n == Len(t) - Len(r)
           f == (e + Size - 1) % Size
           t2 == SubSeq(t, 1, Len(t) - 1)
<1>1. /\ s \in 0..(Size - 1) /\ e \in 0..(Size - 1) /\ b \in [0..(Size - 1) -> Char]
      /\ t \in Seq(Char) /\ r \in Seq(Char) /\ n \in 1..Size
      /\ \A i \in DOMAIN r : r[i] = t[i]
  BY TerminalAssumption DEF Ring
<1>2. \A k \in 0..(Size - 1) : k < n => b[(s + k) % Size] = t[Len(r) + k + 1]
  BY Zenon DEF Ring
<1>3. Size \in Nat \ {0} /\ Len(t) \in Nat \ {0} /\ Len(r) \in Nat /\ DOMAIN r = 1..Len(r)
  BY <1>1, TerminalAssumption
<1>4. \A k \in 0..Size : (s + k) % Size = IF s + k < Size THEN s + k ELSE s + k - Size
  BY <1>1, Slot, Zenon
<1>5. f = IF e = 0 THEN Size - 1 ELSE e - 1
  <2>1. e + Size - 1 \in 0..(2 * Size - 1)
    BY <1>1, <1>3
  <2> DEFINE x == e + Size - 1
  <2> HIDE DEF x
  <2>2. x % Size = IF x < Size THEN x ELSE x - Size
    BY <1>3, <2>1, Around, Zenon DEF x
  <2>3. f = IF x < Size THEN x ELSE x - Size
    BY <2>2, Zenon DEF x
  <2> HIDE DEF f
  <2> QED  BY <1>1, <1>3, <2>3 DEF x
<1>6. t2 \in Seq(Char) /\ Len(t2) = Len(t) - 1 /\ \A i \in 1..(Len(t) - 1) : t2[i] = t[i]
  <2>1. Len(t) - 1 \in Nat
    BY <1>3
  <2>2. t2 \in Seq(Char)
    BY <1>1, <1>3
  <2>3. Len(t2) = Len(t) - 1
    BY <1>1, <1>3, <2>1
  <2>4. \A i \in 1..(Len(t) - 1) : t2[i] = t[i]
    BY <1>1, <1>3, <2>1
  <2> QED  BY <2>2, <2>3, <2>4, Zenon
<1> HIDE DEF t2, f
<1>7. e = IF s + n < Size THEN s + n ELSE s + n - Size
  <2>1. n \in 0..Size
    BY <1>1, <1>3
  <2>2. e = (s + n) % Size
    BY Zenon DEF Ring
  <2> QED  BY <1>4, <2>1, <2>2, Zenon
<1>8. f = (s + (n - 1)) % Size /\ f \in 0..(Size - 1)
  <2>1. n - 1 \in 0..Size
    BY <1>1, <1>3
  <2>2. (s + (n - 1)) % Size = IF s + (n - 1) < Size THEN s + (n - 1) ELSE s + (n - 1) - Size
    BY <1>4, <2>1, Zenon
  <2> HIDE DEF n
  <2> QED  BY <1>1, <1>3, <1>5, <1>7, <2>2
<1>9. \A i \in DOMAIN r : r[i] = t2[i]
  <2>1. n \in 1..Size
    BY <1>1, Zenon
  <2>2. 1..Len(r) \subseteq 1..(Len(t) - 1)
    BY ONLY <1>3, <2>1
  <2> QED  BY <1>1, <1>3, <1>6, <2>2, Zenon
<1>10. ASSUME NEW k \in 0..(Size - 1), k < n - 1
       PROVE  b[(s + k) % Size] = t2[Len(r) + k + 1]
  <2>1. k < n /\ Len(r) + k + 1 \in 1..(Len(t) - 1)
    BY <1>1, <1>3, <1>10
  <2> QED  BY <1>2, <1>6, <2>1, Zenon
<1>11. Len(t2) - Len(r) = n - 1 /\ n - 1 \in 0..Size
  BY <1>1, <1>3, <1>6
<1>12. Ring(s, f, b, t2, r)
  <2> HIDE DEF n
  <2> QED  BY <1>1, <1>6, <1>8, <1>9, <1>10, <1>11, Zenon DEF Ring
<1> QED  BY <1>12, Zenon DEF f, t2

\* term_pop takes the next character of t, and its increment of start keeps the ring
LEMMA PopRing ==
  ASSUME NEW s, NEW e, NEW b, NEW t, NEW r,
         Ring(s, e, b, t, r), Len(t) - Len(r) > 0
  PROVE  /\ b[s] = t[Len(r) + 1]
         /\ Ring((s + 1) % Size, e, b, t, Append(r, t[Len(r) + 1]))
<1> DEFINE n == Len(t) - Len(r)
           f == (s + 1) % Size
           r2 == Append(r, t[Len(r) + 1])
<1>1. /\ s \in 0..(Size - 1) /\ e \in 0..(Size - 1) /\ b \in [0..(Size - 1) -> Char]
      /\ t \in Seq(Char) /\ r \in Seq(Char) /\ n \in 1..Size
      /\ \A i \in DOMAIN r : r[i] = t[i]
  BY TerminalAssumption DEF Ring
<1>2. \A k \in 0..(Size - 1) : k < n => b[(s + k) % Size] = t[Len(r) + k + 1]
  BY Zenon DEF Ring
<1>3. Size \in Nat \ {0} /\ Len(t) \in Nat \ {0} /\ Len(r) \in Nat /\ DOMAIN r = 1..Len(r)
  BY <1>1, TerminalAssumption
<1>4. \A k \in 0..Size : (s + k) % Size = IF s + k < Size THEN s + k ELSE s + k - Size
  BY <1>1, Slot, Zenon
<1>5. f = IF s + 1 < Size THEN s + 1 ELSE 0
  <2>1. 1 \in 0..Size
    BY <1>3
  <2>2. (s + 1) % Size = IF s + 1 < Size THEN s + 1 ELSE s + 1 - Size
    BY <1>4, <2>1, Zenon
  <2> QED  BY <1>1, <1>3, <2>2
<1>6. /\ t[Len(r) + 1] \in Char
      /\ r2 \in Seq(Char) /\ Len(r2) = Len(r) + 1 /\ DOMAIN r2 = 1..(Len(r) + 1)
      /\ r2[Len(r) + 1] = t[Len(r) + 1] /\ \A i \in 1..Len(r) : r2[i] = r[i]
  <2>1. Len(r) + 1 \in DOMAIN t
    BY <1>1, <1>3
  <2>2. t[Len(r) + 1] \in Char
    BY <1>1, <2>1
  <2> QED  BY <1>1, <1>3, <2>2
<1> HIDE DEF r2, f
<1>7. e = IF s + n < Size THEN s + n ELSE s + n - Size
  <2>1. n \in 0..Size
    BY <1>1, <1>3
  <2>2. e = (s + n) % Size
    BY Zenon DEF Ring
  <2> QED  BY <1>4, <2>1, <2>2, Zenon
<1>8. b[s] = t[Len(r) + 1]
  <2>1. 0 \in 0..(Size - 1) /\ 0 \in 0..Size /\ 0 < n
    BY <1>1, <1>3
  <2>2. (s + 0) % Size = s
    <3>1. s + 0 = s /\ s < Size
      BY <1>1, <1>3
    <3> QED  BY <1>4, <2>1, <3>1, Zenon
  <2>3. b[(s + 0) % Size] = t[Len(r) + 0 + 1]
    BY <1>2, <2>1, Zenon
  <2>4. Len(r) + 0 + 1 = Len(r) + 1
    BY <1>3
  <2> QED  BY <2>2, <2>3, <2>4, Zenon
<1>9. f \in 0..(Size - 1)
  BY <1>1, <1>3, <1>5
<1>10. \A k \in 0..Size : (f + k) % Size = IF f + k < Size THEN f + k ELSE f + k - Size
  BY <1>9, Slot, Zenon
<1>11. \A i \in DOMAIN r2 : r2[i] = t[i]
  <2>1. \A i \in 1..(Len(r) + 1) : i \in 1..Len(r) \/ i = Len(r) + 1
    BY ONLY <1>3
  <2> QED  BY <1>1, <1>3, <1>6, <2>1, Zenon
<1>12. n - 1 \in 0..Size /\ e = (f + (n - 1)) % Size
  <2> HIDE DEF n
  <2>1. n - 1 \in 0..Size
    BY <1>1, <1>3
  <2>2. (f + (n - 1)) % Size = IF f + (n - 1) < Size THEN f + (n - 1) ELSE f + (n - 1) - Size
    BY <1>10, <2>1, Zenon
  <2>3. e = IF f + (n - 1) < Size THEN f + (n - 1) ELSE f + (n - 1) - Size
    BY <1>1, <1>3, <1>5, <1>7
  <2> QED  BY <2>1, <2>2, <2>3, Zenon
<1>13. ASSUME NEW k \in 0..(Size - 1), k < n - 1
       PROVE  b[(f + k) % Size] = t[Len(r2) + k + 1]
  <2>1. k \in 0..Size /\ k + 1 \in 0..Size /\ k + 1 \in 0..(Size - 1) /\ k + 1 < n
    <3> HIDE DEF n
    <3> QED  BY <1>1, <1>3, <1>13
  <2>2. (f + k) % Size = IF f + k < Size THEN f + k ELSE f + k - Size
    BY <1>10, <2>1, Zenon
  <2>3. (s + (k + 1)) % Size = IF s + (k + 1) < Size THEN s + (k + 1) ELSE s + (k + 1) - Size
    BY <1>4, <2>1, Zenon
  <2>4. (IF f + k < Size THEN f + k ELSE f + k - Size)
          = IF s + (k + 1) < Size THEN s + (k + 1) ELSE s + (k + 1) - Size
    BY <1>1, <1>3, <1>5, <2>1
  <2>5. b[(s + (k + 1)) % Size] = t[Len(r) + (k + 1) + 1]
    BY <1>2, <2>1, Zenon
  <2>6. Len(r) + (k + 1) + 1 = Len(r2) + k + 1
    BY <1>3, <1>6
  <2> QED  BY <2>2, <2>3, <2>4, <2>5, <2>6, Zenon
<1>14. Ring(f, e, b, t, r2)
  <2>1. Len(t) - Len(r2) = n - 1
    BY <1>3, <1>6
  <2> HIDE DEF n
  <2> QED  BY <1>1, <1>6, <1>9, <1>11, <1>12, <1>13, <2>1, Zenon DEF Ring
<1> QED  BY <1>8, <1>14, Zenon DEF f, r2

\* the window is what the ring holds, when full says that the ring is full
LEMMA WindowHolds ==
  ASSUME Ring(start, end, buf, typed, read), full = (Len(typed) - Len(read) = Size)
  PROVE  read \o Window = typed /\ Len(Window) = Len(typed) - Len(read)
<1> DEFINE n == Len(typed) - Len(read)
           w == IF full THEN Size ELSE (end + Size - start) % Size
<1>1. /\ start \in 0..(Size - 1) /\ end \in 0..(Size - 1)
      /\ typed \in Seq(Char) /\ read \in Seq(Char) /\ n \in 0..Size
      /\ \A i \in DOMAIN read : read[i] = typed[i]
  BY TerminalAssumption, Zenon DEF Ring
<1>2. \A k \in 0..(Size - 1) : k < n => buf[(start + k) % Size] = typed[Len(read) + k + 1]
  BY Zenon DEF Ring
<1>3. Size \in Nat \ {0} /\ Len(typed) \in Nat /\ Len(read) \in Nat /\ DOMAIN read = 1..Len(read)
  BY <1>1, TerminalAssumption
<1>4. end = IF start + n < Size THEN start + n ELSE start + n - Size
  <2>1. end = (start + n) % Size
    BY Zenon DEF Ring
  <2> QED  BY <1>1, <2>1, Slot, Zenon
<1>5. w = n
  <2>1. CASE full
    BY <2>1, Zenon
  <2>2. CASE ~ full
    <3> DEFINE x == end + Size - start
    <3>1. n # Size
      BY <2>2, Zenon
    <3> HIDE DEF n
    <3>2. x = IF start + n < Size THEN n + Size ELSE n
      BY <1>1, <1>3, <1>4
    <3> HIDE DEF x
    <3>3. x \in 0..(2 * Size - 1) /\ (x < Size => x = n) /\ (~ (x < Size) => x = n + Size)
      BY <1>1, <1>3, <3>1, <3>2
    <3> DEFINE y == x % Size
    <3> HIDE DEF y
    <3>4. y = IF x < Size THEN x ELSE x - Size
      BY <1>3, <3>3, Around, Zenon DEF y
    <3>5. y = n
      BY <1>1, <1>3, <3>3, <3>4
    <3> QED  BY <2>2, <3>5, Zenon DEF x, y
  <2> QED  BY <2>1, <2>2, Zenon
<1>6. Window = [i \in 1..n |-> buf[(start + i - 1) % Size]]
  BY <1>5, Zenon DEF Window
<1>7. ASSUME NEW i \in 1..n
      PROVE  Window[i] = typed[Len(read) + i]
  <2>1. i - 1 \in 0..(Size - 1) /\ i - 1 < n
    <3> HIDE DEF n
    <3> QED  BY <1>1, <1>3
  <2>2. buf[(start + (i - 1)) % Size] = typed[Len(read) + (i - 1) + 1]
    BY <1>2, <2>1, Zenon
  <2>3. start + (i - 1) = start + i - 1 /\ Len(read) + (i - 1) + 1 = Len(read) + i
    BY <1>1, <1>3
  <2> QED  BY <1>6, <2>2, <2>3, Zenon
<1>8. Window \in Seq(Char) /\ Len(Window) = n
  <2>1. \A i \in 1..n : typed[Len(read) + i] \in Char
    BY <1>1, <1>3
  <2>2. Window \in [1..n -> Char]
    <3>1. DOMAIN Window = 1..n
      BY <1>6, Zenon
    <3>2. Window = [i \in 1..n |-> typed[Len(read) + i]]
      BY <1>6, <1>7, <3>1, Zenon
    <3> QED  BY <2>1, <3>2, Zenon
  <2>3. n \in Nat
    BY <1>1, <1>3
  <2> QED  BY <2>2, <2>3
<1>9. read \o Window = typed
  <2>1. Len(read \o Window) = Len(typed) /\ read \o Window \in Seq(Char)
    BY <1>1, <1>3, <1>8
  <2>2. ASSUME NEW i \in 1..Len(typed)
        PROVE  (read \o Window)[i] = typed[i]
    <3>1. CASE i <= Len(read)
      BY <1>1, <1>3, <1>8, <3>1
    <3>2. CASE ~ (i <= Len(read))
      <4>1. i - Len(read) \in 1..n /\ Len(read) + (i - Len(read)) = i
        BY <1>3, <3>2
      <4>2. (read \o Window)[i] = Window[i - Len(read)]
        BY <1>1, <1>3, <1>8, <3>2
      <4> QED  BY <1>7, <4>1, <4>2, Zenon
    <3> QED  BY <3>1, <3>2, Zenon
  <2> DEFINE z == read \o Window
  <2> HIDE DEF z
  <2>3. /\ z \in Seq(Char) /\ typed \in Seq(Char) /\ Len(z) = Len(typed)
        /\ \A i \in 1..Len(z) : z[i] = typed[i]
    BY <1>1, <2>1, <2>2, Zenon DEF z
  <2>4. z = typed
    BY <2>3
  <2> QED  BY <2>4, Zenon DEF z
<1> QED  BY <1>8, <1>9, Zenon

-----------------------------------------------------------------------------
(* Lines *)

\* the last n characters of t are the line being typed, and none of them is popped
InLine(t, r, n) ==
  /\ n \in 0..(Len(t) - Len(r))
  /\ \A i \in 1..Len(t) : i > Len(t) - n => ~ Delim(t[i])
  /\ n < Len(t) => Delim(t[Len(t) - n])

\* the delimiters of t that are not popped
Delims(t, r) == {i \in 1..Len(t) : i > Len(r) /\ Delim(t[i])}

\* The newlines between reader and writer are finitely many
LEMMA DelimsFinite ==
  ASSUME NEW t \in Seq(Char), NEW r \in Seq(Char)
  PROVE  IsFiniteSet(Delims(t, r)) /\ Cardinality(Delims(t, r)) \in Nat
<1>1. Len(t) \in Nat
  OBVIOUS
<1>2. IsFiniteSet(1..Len(t))
  BY <1>1, FS_Interval
<1>3. Delims(t, r) \subseteq 1..Len(t)
  BY Zenon DEF Delims
<1>4. IsFiniteSet(Delims(t, r))
  BY <1>2, <1>3, FS_Subset, Zenon
<1> QED  BY <1>4, FS_CardinalityType, Zenon

\* a key is added to the line, or ends it
LEMMA PushLine ==
  ASSUME NEW t \in Seq(Char), NEW r \in Seq(Char), NEW n, InLine(t, r, n), NEW a \in Char
  PROVE  /\ InLine(Append(t, a), r, IF Delim(a) THEN 0 ELSE n + 1)
         /\ Cardinality(Delims(Append(t, a), r)) = Cardinality(Delims(t, r)) + IF Delim(a) THEN 1 ELSE 0
<1> DEFINE t2 == Append(t, a)
<1>1. /\ t2 \in Seq(Char) /\ Len(t2) = Len(t) + 1 /\ t2[Len(t) + 1] = a
      /\ \A i \in 1..Len(t) : t2[i] = t[i]
  OBVIOUS
<1>2. Len(t) \in Nat /\ Len(r) \in Nat /\ n \in 0..(Len(t) - Len(r))
  BY DEF InLine
<1> HIDE DEF t2
<1>3. CASE Delim(a)
  <2>1. InLine(t2, r, 0)
    BY <1>1, <1>2, <1>3 DEF InLine
  <2>2. Delims(t2, r) = Delims(t, r) \cup {Len(t) + 1} /\ Len(t) + 1 \notin Delims(t, r)
    BY <1>1, <1>2, <1>3 DEF Delims
  <2>3. Cardinality(Delims(t2, r)) = Cardinality(Delims(t, r)) + 1
    BY <2>2, DelimsFinite, FS_AddElement, Zenon
  <2> QED  BY <1>3, <2>1, <2>3, Zenon DEF t2
<1>4. CASE ~ Delim(a)
  <2>1. InLine(t2, r, n + 1)
    <3>1. n + 1 \in 0..(Len(t2) - Len(r))
      BY <1>1, <1>2
    <3>2. ASSUME NEW i \in 1..Len(t2), i > Len(t2) - (n + 1)
          PROVE  ~ Delim(t2[i])
      <4>1. CASE i = Len(t) + 1
        BY <1>1, <1>4, <4>1, Zenon
      <4>2. CASE i # Len(t) + 1
        <5>1. i \in 1..Len(t) /\ i > Len(t) - n
          BY <1>1, <1>2, <3>2, <4>2
        <5> QED  BY <1>1, <5>1, Zenon DEF InLine
      <4> QED  BY <4>1, <4>2, Zenon
    <3>3. n + 1 < Len(t2) => Delim(t2[Len(t2) - (n + 1)])
      <4>1. Len(t2) - (n + 1) = Len(t) - n
        BY <1>1, <1>2
      <4>2. n + 1 < Len(t2) => n < Len(t) /\ Len(t) - n \in 1..Len(t)
        BY <1>1, <1>2
      <4> QED  BY <1>1, <4>1, <4>2, Zenon DEF InLine
    <3> QED  BY <3>1, <3>2, <3>3, Zenon DEF InLine
  <2>2. Delims(t2, r) = Delims(t, r)
    BY <1>1, <1>2, <1>4 DEF Delims
  <2>3. Cardinality(Delims(t, r)) + 0 = Cardinality(Delims(t, r))
    BY DelimsFinite
  <2> QED  BY <1>4, <2>1, <2>2, <2>3, Zenon DEF t2
<1> QED  BY <1>3, <1>4, Zenon

\* a backspace takes a character of the line, and no delimiter
LEMMA EraseLine ==
  ASSUME NEW t \in Seq(Char), NEW r \in Seq(Char), NEW n, InLine(t, r, n), n > 0
  PROVE  /\ InLine(SubSeq(t, 1, Len(t) - 1), r, n - 1)
         /\ Delims(SubSeq(t, 1, Len(t) - 1), r) = Delims(t, r)
<1> DEFINE t2 == SubSeq(t, 1, Len(t) - 1)
<1>1. Len(t) \in Nat /\ Len(r) \in Nat /\ n \in 1..(Len(t) - Len(r)) /\ Len(t) - 1 \in Nat
  BY DEF InLine
<1>2. t2 \in Seq(Char) /\ Len(t2) = Len(t) - 1
  <2>1. t2 \in Seq(Char)
    BY <1>1
  <2> DEFINE l == Len(t) - 1
  <2>2. l \in Nat /\ l <= Len(t)
    BY <1>1
  <2> HIDE DEF l
  <2>3. Len(SubSeq(t, 1, l)) = l
    BY <2>2
  <2> QED  BY <2>1, <2>3, Zenon DEF l
<1>3. \A i \in 1..(Len(t) - 1) : t2[i] = t[i]
  BY <1>1
<1> HIDE DEF t2
<1>4. n - 1 \in 0..(Len(t2) - Len(r))
  BY <1>1, <1>2
<1>5. \A i \in 1..Len(t2) : i > Len(t2) - (n - 1) => ~ Delim(t2[i])
  BY <1>1, <1>2, <1>3 DEF InLine
<1>6. n - 1 < Len(t2) => Delim(t2[Len(t2) - (n - 1)])
  <2>1. Len(t2) - (n - 1) = Len(t) - n
    BY <1>1, <1>2
  <2>2. n - 1 < Len(t2) => n < Len(t) /\ Len(t) - n \in 1..(Len(t) - 1)
    BY <1>1, <1>2
  <2> QED  BY <1>3, <2>1, <2>2, Zenon DEF InLine
<1>7. ~ Delim(t[Len(t)])
  <2>1. Len(t) \in 1..Len(t) /\ Len(t) > Len(t) - n
    BY <1>1
  <2> QED  BY <2>1, Zenon DEF InLine
<1>8. Delims(t2, r) = Delims(t, r)
  <2>1. ASSUME NEW i \in Delims(t, r)
        PROVE  i \in Delims(t2, r)
    <3>1. i \in 1..Len(t) /\ i > Len(r) /\ Delim(t[i]) /\ i # Len(t)
      BY <1>7, Zenon DEF Delims
    <3>2. i \in 1..(Len(t) - 1)
      BY <1>1, <3>1
    <3> QED  BY <1>2, <1>3, <3>1, <3>2, Zenon DEF Delims
  <2>2. ASSUME NEW i \in Delims(t2, r)
        PROVE  i \in Delims(t, r)
    <3>1. i \in 1..(Len(t) - 1) /\ i > Len(r) /\ Delim(t2[i])
      BY <1>2, Zenon DEF Delims
    <3>2. i \in 1..Len(t)
      BY <1>1, <3>1
    <3> QED  BY <1>3, <3>1, <3>2, Zenon DEF Delims
  <2> QED  BY <2>1, <2>2, Zenon
<1> QED  BY <1>4, <1>5, <1>6, <1>8, Zenon DEF InLine, t2

\* with a delimiter ahead, the next character is not of the line being typed
LEMMA DelimAhead ==
  ASSUME NEW t \in Seq(Char), NEW r \in Seq(Char), NEW n, InLine(t, r, n),
         Cardinality(Delims(t, r)) >= 1
  PROVE  Len(r) + 1 <= Len(t) - n
<1>1. Delims(t, r) # {}
  BY FS_EmptySet, DelimsFinite
<1>2. PICK i \in Delims(t, r) : TRUE
  BY <1>1, Zenon
<1>3. i \in 1..Len(t) /\ i > Len(r) /\ Delim(t[i])
  BY Zenon DEF Delims
<1>4. ~ (i > Len(t) - n)
  BY <1>3, Zenon DEF InLine
<1>5. Len(t) \in Nat /\ Len(r) \in Nat /\ n \in Nat /\ i \in Nat
  BY <1>3 DEF InLine
<1> QED  BY <1>3, <1>4, <1>5

\* what term_pop takes is of a line that is complete; a delimiter is one less
LEMMA PopLine ==
  ASSUME NEW t \in Seq(Char), NEW r \in Seq(Char), NEW n, InLine(t, r, n),
         Len(r) + 1 <= Len(t) - n, NEW a \in Char
  PROVE  /\ InLine(t, Append(r, a), n)
         /\ Cardinality(Delims(t, Append(r, a)))
              = Cardinality(Delims(t, r)) - IF Delim(t[Len(r) + 1]) THEN 1 ELSE 0
<1> DEFINE r2 == Append(r, a)
           i == Len(r) + 1
<1>1. r2 \in Seq(Char) /\ Len(r2) = i
  OBVIOUS
<1>2. Len(t) \in Nat /\ Len(r) \in Nat /\ n \in 0..(Len(t) - Len(r))
  BY DEF InLine
<1> HIDE DEF r2
<1>3. InLine(t, r2, n)
  BY <1>1, <1>2 DEF InLine
<1>4. CASE Delim(t[i])
  <2>1. i \in Delims(t, r)
    BY <1>2, <1>4 DEF Delims
  <2>2. Delims(t, r2) = Delims(t, r) \ {i}
    BY <1>1, <1>2 DEF Delims
  <2>3. Cardinality(Delims(t, r2)) = Cardinality(Delims(t, r)) - 1
    <3> DEFINE D == Delims(t, r)
    <3>1. IsFiniteSet(D) /\ i \in D
      BY <2>1, DelimsFinite, Zenon
    <3> HIDE DEF D, i
    <3>2. Cardinality(D \ {i}) = Cardinality(D) - 1
      BY <3>1, FS_RemoveElement, Zenon
    <3> QED  BY <2>2, <3>2, Zenon DEF D
  <2> QED  BY <1>3, <1>4, <2>3, Zenon DEF r2
<1>5. CASE ~ Delim(t[i])
  <2>1. Delims(t, r2) = Delims(t, r)
    BY <1>1, <1>2, <1>5 DEF Delims
  <2>2. Cardinality(Delims(t, r)) - 0 = Cardinality(Delims(t, r))
    BY DelimsFinite
  <2> QED  BY <1>3, <1>5, <2>1, <2>2, Zenon DEF r2
<1> QED  BY <1>4, <1>5, Zenon

\* Partial is the line being typed
LEMMA PartialIsLine ==
  ASSUME typed \in Seq(Char), read \in Seq(Char), InLine(typed, read, backspace)
  PROVE  backspace = Cardinality(Partial)
<1> DEFINE lo == Len(typed) - backspace + 1
<1>1. Len(typed) \in Nat /\ Len(read) \in Nat /\ DOMAIN typed = 1..Len(typed)
  OBVIOUS
<1>2. backspace \in Nat /\ backspace <= Len(typed) /\ lo \in 1..(Len(typed) + 1)
  BY <1>1 DEF InLine
<1>3. Partial \subseteq lo..Len(typed)
  <2> SUFFICES ASSUME NEW i \in Partial PROVE i \in lo..Len(typed)
    BY Zenon
  <2>1. i \in 1..Len(typed) /\ \A k \in 1..Len(typed) : Delim(typed[k]) => k < i
    BY <1>1, Zenon DEF Partial
  <2>2. CASE backspace = Len(typed)
    BY <1>1, <1>2, <2>1, <2>2
  <2>3. CASE backspace # Len(typed)
    <3>0. Len(typed) - backspace > 0 /\ backspace < Len(typed)
      <4> DEFINE l == Len(typed)
      <4>1. l \in Nat /\ backspace \in Nat /\ backspace <= l /\ backspace # l
        BY <1>1, <1>2, <2>3, Zenon
      <4> HIDE DEF l
      <4>2. l - backspace > 0 /\ backspace < l
        BY <4>1
      <4> QED  BY <4>2, Zenon DEF l
    <3>1. lo - 1 \in 1..Len(typed) /\ lo - 1 = Len(typed) - backspace
      BY <1>1, <1>2, <3>0
    <3>2. Delim(typed[lo - 1])
      <4> HIDE DEF lo
      <4>1. Delim(typed[Len(typed) - backspace])
        BY <3>0, Zenon DEF InLine
      <4> QED  BY <3>1, <4>1, Zenon
    <3>3. lo - 1 < i
      BY <2>1, <3>1, <3>2, Zenon
    <3> QED  BY <1>1, <1>2, <2>1, <3>3
  <2> QED  BY <2>2, <2>3, Zenon
<1>4. lo..Len(typed) \subseteq Partial
  <2> SUFFICES ASSUME NEW i \in lo..Len(typed) PROVE i \in Partial
    BY Zenon
  <2>1. i \in 1..Len(typed)
    BY <1>1, <1>2
  <2>2. ASSUME NEW k \in 1..Len(typed), Delim(typed[k])
        PROVE  k < i
    <3>1. ~ (k > Len(typed) - backspace)
      BY <2>2, Zenon DEF InLine
    <3> QED  BY <1>1, <1>2, <3>1
  <2> QED  BY <1>1, <2>1, <2>2, Zenon DEF Partial
<1>5. Partial = lo..Len(typed)
  BY <1>3, <1>4, Zenon
<1>6. lo \in Int /\ Len(typed) \in Int
  BY <1>1, <1>2
<1>7. Cardinality(lo..Len(typed)) = IF lo > Len(typed) THEN 0 ELSE Len(typed) - lo + 1
  BY <1>6, FS_Interval, Zenon
<1> QED  BY <1>1, <1>2, <1>5, <1>7

-----------------------------------------------------------------------------
(* The cursor *)

Glyphs == {Blank, "a", "b", "o"}
Screens == [x : 0..(Width - 1), y : Int, arr : [Cells -> Glyphs]]

\* the characters that take the cursor forward
Forward == {"nl"} \cup Glyphs

\* an update of two fields
LEMMA Moved ==
  ASSUME NEW X, NEW s \in [x : X, y : Int, arr : [Cells -> Glyphs]], NEW x2, NEW y2
  PROVE  [s EXCEPT !.x = x2, !.y = y2] = [x |-> x2, y |-> y2, arr |-> s.arr]
<1> DEFINE u == [s EXCEPT !.x = x2]
<1>1. u = [x |-> x2, y |-> s.y, arr |-> s.arr]
  OBVIOUS
<1>2. [s EXCEPT !.x = x2, !.y = y2] = [u EXCEPT !.y = y2]
  BY Zenon
<1> HIDE DEF u
<1>3. [u EXCEPT !.y = y2] = [x |-> x2, y |-> y2, arr |-> s.arr]
  BY <1>1
<1> QED  BY <1>2, <1>3, Zenon

\* A character written and the column moved, field by field
LEMMA Shown ==
  ASSUME NEW s \in Screens, NEW x2, NEW arr2
  PROVE  [s EXCEPT !.arr = arr2, !.x = x2] = [x |-> x2, y |-> s.y, arr |-> arr2]
<1> DEFINE u == [s EXCEPT !.arr = arr2]
<1>1. u = [x |-> s.x, y |-> s.y, arr |-> arr2]
  BY DEF Screens
<1>2. [s EXCEPT !.arr = arr2, !.x = x2] = [u EXCEPT !.x = x2]
  BY Zenon
<1> HIDE DEF u
<1>3. [u EXCEPT !.x = x2] = [x |-> x2, y |-> s.y, arr |-> arr2]
  BY <1>1
<1> QED  BY <1>2, <1>3, Zenon

\* a row is Width cells
LEMMA Rows ==
  ASSUME NEW y \in Int
  PROVE  (y + 1) * Width = y * Width + Width /\ (y - 1) * Width = y * Width - Width /\ y * Width \in Int
BY ScreenAssumption

\* a cursor at a cell that is not negative is in a row that is not negative
LEMMA RowOfCell ==
  ASSUME NEW s \in Screens, At(s) >= 0
  PROVE  s.y >= 0
<1>1. Width \in Nat \ {0} /\ s.x \in 0..(Width - 1) /\ s.y \in Int
  BY ScreenAssumption, Zenon DEF Screens
<1>2. s.x + s.y * Width >= 0
  BY Zenon DEF At
<1>3. \A d \in Int : d >= 1 => d * Width >= Width
  BY <1>1
<1>4. ASSUME s.y <= -1 PROVE FALSE
  <2>1. -s.y \in Int /\ -s.y >= 1
    BY <1>1, <1>4
  <2>2. (-s.y) * Width >= Width
    BY <1>3, <2>1, Zenon
  <2>3. (-s.y) * Width = -(s.y * Width) /\ s.y * Width \in Int
    BY <1>1
  <2> QED  BY <1>1, <1>2, <2>2, <2>3
<1> QED  BY <1>1, <1>4

\* after a scroll the whole of what backspace may erase fits before the cursor
LEMMA Scrolls ==
  ASSUME NEW s \in Screens
  PROVE  /\ Scroll(s) \in Screens /\ Scroll(s).y < Height
         /\ Scroll(s) = s \/ At(Scroll(s)) >= Size
<1>1. Width \in Nat \ {0} /\ Height \in Nat \ {0} /\ s.y \in Int /\ Size <= Width * (Height - 1)
  BY ScreenAssumption, Zenon DEF Screens
<1>2. CASE s.y < Height
  BY <1>2, Zenon DEF Scroll
<1>3. CASE ~ (s.y < Height)
  <2> DEFINE u == [x |-> 0, y |-> Height - 1,
                   arr |-> [i \in Cells |-> IF i + Width \in Cells THEN s.arr[i + Width] ELSE Blank]]
  <2>1. Scroll(s) = u
    BY <1>3, Zenon DEF Scroll
  <2>2. [i \in Cells |-> IF i + Width \in Cells THEN s.arr[i + Width] ELSE Blank] \in [Cells -> Glyphs]
    BY Zenon DEF Screens, Glyphs
  <2>3. 0 \in 0..(Width - 1) /\ Height - 1 \in Int /\ Height - 1 < Height
    BY <1>1
  <2>4. u \in Screens /\ u.x = 0 /\ u.y = Height - 1
    BY <2>2, <2>3, Zenon DEF Screens
  <2> HIDE DEF u
  <2>5. At(u) >= Size
    <3>1. At(u) = 0 + (Height - 1) * Width
      BY <2>4, Zenon DEF At
    <3>2. 0 + (Height - 1) * Width = Width * (Height - 1)
      BY <1>1
    <3> QED  BY <1>1, <3>1, <3>2, Zenon
  <2> QED  BY <2>1, <2>3, <2>4, <2>5, Zenon
<1> QED  BY <1>2, <1>3, Zenon

\* a character takes the cursor forward, or the screen scrolls
LEMMA PutForward ==
  ASSUME NEW s \in Screens, NEW a \in Forward
  PROVE  /\ kputchar(s, a) \in Screens /\ kputchar(s, a).y < Height
         /\ At(kputchar(s, a)) >= At(s) + 1 \/ At(kputchar(s, a)) >= Size
<1>1. Width \in Nat \ {0} /\ s.x \in 0..(Width - 1) /\ s.y \in Int /\ s.arr \in [Cells -> Glyphs]
  BY ScreenAssumption, Zenon DEF Screens
<1>2. At(s) = s.x + s.y * Width /\ s.y * Width \in Int /\ (s.y + 1) * Width = s.y * Width + Width
  BY <1>1, Rows, Zenon DEF At
<1>3. PICK u \in Screens : kputchar(s, a) = Scroll(u) /\ At(u) >= At(s) + 1
  <2>1. CASE a = "nl"
    <3> DEFINE u == [s EXCEPT !.x = 0, !.y = @ + 1]
    <3>0. u = [x |-> 0, y |-> s.y + 1, arr |-> s.arr]
      BY Moved, Zenon DEF Screens
    <3> HIDE DEF u
    <3>1. u \in Screens /\ u.x = 0 /\ u.y = s.y + 1
      BY <1>1, <3>0 DEF Screens
    <3> HIDE DEF u
    <3>2. kputchar(s, a) = Scroll(Wrap(u))
      BY <2>1, Zenon DEF kputchar, Newline, u
    <3>3. Wrap(u) = u
      BY <1>1, <3>1 DEF Wrap
    <3>4. At(u) = 0 + (s.y + 1) * Width
      BY <3>1, Zenon DEF At
    <3>5. At(u) >= At(s) + 1
      BY <1>1, <1>2, <3>4
    <3> QED  BY <3>1, <3>2, <3>3, <3>5, Zenon
  <2>2. CASE a # "nl"
    <3> DEFINE v == [s EXCEPT !.arr = Store(s, a), !.x = @ + 1]
    <3>1. kputchar(s, a) = Scroll(Wrap(v))
      <4>1. a \notin {"nul", "tab"} /\ a # "cr" /\ a # "bs"
        BY Zenon DEF Forward, Glyphs, Blank
      <4> QED  BY <2>2, <4>1, Zenon DEF kputchar, Show
    <3>2. Store(s, a) \in [Cells -> Glyphs]
      <4>1. a \in Glyphs
        BY <2>2, Zenon DEF Forward
      <4> QED  BY <1>1, <4>1, Zenon DEF Store
    <3>0. v = [x |-> s.x + 1, y |-> s.y, arr |-> Store(s, a)]
      BY Shown, Zenon
    <3> HIDE DEF v
    <3>3. v \in [x : 0..Width, y : Int, arr : [Cells -> Glyphs]] /\ v.x = s.x + 1 /\ v.y = s.y
      BY <1>1, <3>0, <3>2
    <3> HIDE DEF v
    <3>4. CASE v.x >= Width
      <4> DEFINE u == [v EXCEPT !.x = 0, !.y = @ + 1]
      <4>1. Wrap(v) = u
        BY <3>4, Zenon DEF Wrap, Newline
      <4>0. u = [x |-> 0, y |-> v.y + 1, arr |-> v.arr]
        <5>1. v \in [x : 0..Width, y : Int, arr : [Cells -> Glyphs]]
          BY <3>3, Zenon
        <5> QED  BY <5>1, Moved, Zenon
      <4> HIDE DEF u
      <4>2. u \in Screens /\ u.x = 0 /\ u.y = s.y + 1
        BY <1>1, <3>3, <4>0 DEF Screens
      <4> HIDE DEF u
      <4>3. At(u) = 0 + (s.y + 1) * Width
        BY <4>2, Zenon DEF At
      <4>4. At(u) >= At(s) + 1
        BY <1>1, <1>2, <4>3
      <4> QED  BY <3>1, <4>1, <4>2, <4>4, Zenon
    <3>5. CASE ~ (v.x >= Width)
      <4>1. Wrap(v) = v
        BY <3>5, Zenon DEF Wrap
      <4>2. v.x \in 0..(Width - 1)
        BY <1>1, <3>3, <3>5
      <4>3. v \in Screens
        BY <3>3, <4>2, Zenon DEF Screens
      <4>4. At(v) = (s.x + 1) + s.y * Width
        BY <3>3, Zenon DEF At
      <4>5. At(v) >= At(s) + 1
        BY <1>1, <1>2, <4>4
      <4> QED  BY <3>1, <4>1, <4>3, <4>5, Zenon
    <3> QED  BY <3>4, <3>5, Zenon
  <2> QED  BY <2>1, <2>2, Zenon
<1> QED  BY <1>3, Scrolls, Zenon

\* the cell of a cursor is a number, and not a negative one in a row that is not
LEMMA CellOfRow ==
  ASSUME NEW s \in Screens
  PROVE  At(s) \in Int /\ (s.y >= 0 => At(s) >= 0)
<1>1. s.x \in Nat /\ s.y \in Int /\ Width \in Nat
  BY ScreenAssumption DEF Screens
<1>2. s.y * Width \in Int
  BY <1>1
<1>3. s.y >= 0 => s.y * Width >= 0
  BY <1>1
<1> DEFINE p == s.y * Width
<1>4. At(s) = s.x + p /\ p \in Int /\ (s.y >= 0 => p >= 0)
  BY <1>2, <1>3, Zenon DEF At
<1> HIDE DEF p
<1> QED  BY <1>1, <1>4

\* a carriage return takes the cursor to the start of its row
LEMMA PutReturn ==
  ASSUME NEW s \in Screens, s.y < Height
  PROVE  kputchar(s, "cr") \in Screens /\ kputchar(s, "cr").y = s.y
<1> DEFINE u == [s EXCEPT !.x = 0]
<1>1. Width \in Nat \ {0} /\ s.y \in Int /\ s.arr \in [Cells -> Glyphs]
  BY ScreenAssumption, Zenon DEF Screens
<1>2. u = [x |-> 0, y |-> s.y, arr |-> s.arr]
  BY DEF Screens
<1> HIDE DEF u
<1>3. 0 \in 0..(Width - 1) /\ ~ (0 >= Width)
  BY <1>1
<1>4. u \in Screens /\ u.x = 0 /\ u.y = s.y
  BY <1>1, <1>2, <1>3 DEF Screens
<1>5. kputchar(s, "cr") = Scroll(Wrap(u))
  BY Zenon DEF kputchar, Return, u
<1>6. Wrap(u) = u
  BY <1>3, <1>4, Zenon DEF Wrap
<1>7. Scroll(u) = u
  BY <1>4, Zenon DEF Scroll
<1> QED  BY <1>4, <1>5, <1>6, <1>7, Zenon

\* the last cell of the screen
LEMMA InCells ==
  ASSUME NEW s \in Screens, s.y < Height, At(s) >= 0
  PROVE  At(s) \in Cells
<1>1. /\ Width \in Nat \ {0} /\ s.x \in 0..(Width - 1) /\ s.y \in Int /\ Height \in Nat
  BY ScreenAssumption, Zenon DEF Screens
<1>2. \A d \in Int : d >= 1 => d * Width >= Width
  BY <1>1
<1>3. (Height - s.y) * Width >= Width
  BY <1>1, <1>2
<1>4. (Height - s.y) * Width = Width * Height - s.y * Width
  BY <1>1
<1>5. s.y * Width \in Int /\ Width * Height \in Int
  BY <1>1
<1> DEFINE p == s.y * Width
           w == Width * Height
<1>6. At(s) = s.x + p /\ Cells = 0..(w - 1) /\ w - p >= Width /\ p \in Int /\ w \in Int
  BY <1>3, <1>4, <1>5, Zenon DEF At, Cells
<1> HIDE DEF p, w
<1> QED  BY <1>1, <1>6

\* a printed character is stored at the cursor; a scroll takes all others along
LEMMA PutShows ==
  ASSUME NEW s \in Screens, s.y < Height, At(s) >= 0, NEW a \in {"a", "b"}
  PROVE  \E z \in {0, Width} :
           /\ At(kputchar(s, a)) = At(s) + 1 - z
           /\ \A j \in 0..At(s) : j - z >= 0 =>
                kputchar(s, a).arr[j - z] = IF j = At(s) THEN a ELSE s.arr[j]
<1>1. /\ Width \in Nat \ {0} /\ s.x \in 0..(Width - 1) /\ s.y \in Int /\ s.arr \in [Cells -> Glyphs]
      /\ Height \in Nat \ {0}
  BY ScreenAssumption, Zenon DEF Screens
<1>2. At(s) = s.x + s.y * Width /\ s.y * Width \in Int /\ (s.y + 1) * Width = s.y * Width + Width
  BY <1>1, Rows, Zenon DEF At
<1>3. At(s) \in Cells /\ \A j \in 0..At(s) : j \in Cells /\ j \in Int
  <2>1. At(s) \in Cells
    BY InCells, Zenon
  <2> DEFINE m == Width * Height
  <2>2. m \in Int /\ Cells = 0..(m - 1)
    BY <1>1 DEF Cells
  <2> HIDE DEF m
  <2> QED  BY <2>1, <2>2
<1> DEFINE f == Store(s, a)
           v == [s EXCEPT !.arr = f, !.x = @ + 1]
<1>4. \A j \in 0..At(s) : f[j] = IF j = At(s) THEN a ELSE s.arr[j]
  BY <1>3, Zenon DEF Store
<1>5. kputchar(s, a) = Scroll(Wrap(v))
  BY Zenon DEF kputchar, Show
<1> HIDE DEF f
<1>6. v = [x |-> s.x + 1, y |-> s.y, arr |-> f]
  BY Shown, Zenon
<1> HIDE DEF v
<1>7. v.x = s.x + 1 /\ v.y = s.y /\ v.arr = f
  BY <1>6, Zenon
<1>8. CASE s.x + 1 < Width
  <2>1. Wrap(v) = v /\ Scroll(v) = v
    BY <1>1, <1>7, <1>8 DEF Wrap, Scroll
  <2>2. At(v) = (s.x + 1) + s.y * Width
    BY <1>7, Zenon DEF At
  <2>3. At(v) = At(s) + 1 - 0
    BY <1>1, <1>2, <2>2
  <2>4. \A j \in 0..At(s) : j - 0 = j
    BY <1>3
  <2>5. \A j \in 0..At(s) : v.arr[j - 0] = IF j = At(s) THEN a ELSE s.arr[j]
    BY <1>4, <1>7, <2>4, Zenon
  <2>6. kputchar(s, a) = v
    BY <1>5, <2>1, Zenon
  <2> QED  BY <2>3, <2>5, <2>6, Zenon
<1>9. CASE ~ (s.x + 1 < Width)
  <2> DEFINE w == [x |-> 0, y |-> s.y + 1, arr |-> f]
  <2>1. Wrap(v) = w
    <3>1. Wrap(v) = [v EXCEPT !.x = 0, !.y = @ + 1]
      BY <1>1, <1>7, <1>9 DEF Wrap, Newline
    <3>2. f \in [Cells -> Glyphs]
      BY <1>1, Zenon DEF f, Store, Glyphs
    <3>3. v \in [x : 0..Width, y : Int, arr : [Cells -> Glyphs]]
      BY <1>1, <1>6, <3>2
    <3> QED  BY <1>7, <3>1, <3>3, Moved, Zenon
  <2>2. w.x = 0 /\ w.y = s.y + 1 /\ w.arr = f
    BY Zenon
  <2> HIDE DEF w
  <2>3. s.x = Width - 1 /\ At(s) + 1 = (s.y + 1) * Width
    <3>1. s.x = Width - 1
      BY <1>1, <1>9
    <3> DEFINE p == s.y * Width
    <3> HIDE DEF p
    <3>2. (Width - 1) + p + 1 = p + Width
      BY <1>1, <1>2 DEF p
    <3> QED  BY <1>2, <3>1, <3>2, Zenon DEF p
  <2>4. CASE s.y + 1 < Height
    <3>1. Scroll(w) = w
      BY <2>2, <2>4, Zenon DEF Scroll
    <3>2. At(w) = 0 + (s.y + 1) * Width
      BY <2>2, Zenon DEF At
    <3>3. At(w) = At(s) + 1 - 0
      BY <1>1, <1>2, <2>3, <3>2
    <3>4. \A j \in 0..At(s) : j - 0 = j
      BY <1>3
    <3>5. \A j \in 0..At(s) : w.arr[j - 0] = IF j = At(s) THEN a ELSE s.arr[j]
      BY <1>4, <2>2, <3>4, Zenon
    <3>6. kputchar(s, a) = w
      BY <1>5, <2>1, <3>1, Zenon
    <3> QED  BY <3>3, <3>5, <3>6, Zenon
  <2>5. CASE ~ (s.y + 1 < Height)
    <3> DEFINE g == [i \in Cells |-> IF i + Width \in Cells THEN f[i + Width] ELSE Blank]
               q == [x |-> 0, y |-> Height - 1, arr |-> g]
    <3>1. Scroll(w) = q
      BY <2>2, <2>5, Zenon DEF Scroll
    <3>2. q.x = 0 /\ q.y = Height - 1 /\ q.arr = g
      BY Zenon
    <3>3. \A j \in 0..At(s) : j - Width >= 0 => g[j - Width] = f[j]
      <4> SUFFICES ASSUME NEW j \in 0..At(s), j - Width >= 0 PROVE g[j - Width] = f[j]
        BY Zenon
      <4>1. j \in Cells /\ j \in Int /\ (j - Width) + Width = j
        BY <1>1, <1>3
      <4>2. j - Width \in Cells
        <5> DEFINE m == Width * Height
        <5>1. m \in Int /\ Cells = 0..(m - 1)
          BY <1>1 DEF Cells
        <5> HIDE DEF m
        <5> QED  BY <1>1, <4>1, <5>1
      <4> QED  BY <4>1, <4>2, Zenon
    <3> HIDE DEF g, q
    <3>4. At(q) = 0 + (Height - 1) * Width
      BY <3>2, Zenon DEF At
    <3>5. Height - 1 = s.y
      BY <1>1, <2>5
    <3>6. At(q) = At(s) + 1 - Width
      BY <1>1, <1>2, <2>3, <3>4, <3>5
    <3>7. \A j \in 0..At(s) : j - Width >= 0 => q.arr[j - Width] = IF j = At(s) THEN a ELSE s.arr[j]
      BY <1>4, <3>2, <3>3, Zenon
    <3> QED  BY <1>5, <2>1, <3>1, <3>6, <3>7, Zenon
  <2> QED  BY <2>4, <2>5, Zenon
<1> QED  BY <1>8, <1>9, Zenon

\* a backspace takes it back by one cell, over the start of a row too
LEMMA PutBack ==
  ASSUME NEW s \in Screens, s.y < Height
  PROVE  /\ kputchar(s, "bs") \in Screens /\ kputchar(s, "bs").y < Height
         /\ At(kputchar(s, "bs")) = At(s) - 1
         /\ \A j \in Cells : j # At(s) - 1 => kputchar(s, "bs").arr[j] = s.arr[j]
<1>1. /\ Width \in Nat \ {0} /\ s.x \in 0..(Width - 1) /\ s.y \in Int /\ s.arr \in [Cells -> Glyphs]
      /\ Height \in Nat
  BY ScreenAssumption, Zenon DEF Screens
<1>2. At(s) = s.x + s.y * Width /\ s.y * Width \in Int /\ (s.y - 1) * Width = s.y * Width - Width
  BY <1>1, Rows, Zenon DEF At
<1> DEFINE b == IF s.x = 0 THEN [s EXCEPT !.x = Width - 1, !.y = @ - 1] ELSE [s EXCEPT !.x = @ - 1]
           u == [b EXCEPT !.arr = Store(b, Blank)]
<1>3. b \in Screens /\ b.y < Height /\ At(b) = At(s) - 1 /\ b.arr = s.arr
  <2>1. CASE s.x = 0
    <3>0. b = [x |-> Width - 1, y |-> s.y - 1, arr |-> s.arr]
      BY <2>1, Moved, Zenon DEF Screens
    <3> HIDE DEF b
    <3>1. b \in Screens /\ b.x = Width - 1 /\ b.y = s.y - 1 /\ b.arr = s.arr
      BY <1>1, <3>0 DEF Screens
    <3> HIDE DEF b
    <3>2. At(b) = (Width - 1) + (s.y - 1) * Width
      BY <3>1, Zenon DEF At
    <3> QED  BY <1>1, <1>2, <2>1, <3>1, <3>2
  <2>2. CASE s.x # 0
    <3>1. b \in Screens /\ b.x = s.x - 1 /\ b.y = s.y /\ b.arr = s.arr
      BY <1>1, <2>2 DEF Screens
    <3> HIDE DEF b
    <3>2. At(b) = (s.x - 1) + s.y * Width
      BY <3>1, Zenon DEF At
    <3> QED  BY <1>1, <1>2, <3>1, <3>2
  <2> QED  BY <2>1, <2>2, Zenon
<1>4. kputchar(s, "bs") = Scroll(Wrap(u))
  BY Zenon DEF kputchar, Back
<1> HIDE DEF b
<1>5. Store(b, Blank) \in [Cells -> Glyphs]
  BY <1>3, Zenon DEF Store, Glyphs, Screens
<1>6. u \in Screens /\ u.x = b.x /\ u.y = b.y /\ u.arr = Store(b, Blank)
  BY <1>3, <1>5, Zenon DEF Screens
<1> HIDE DEF u
<1>7. u.x \in 0..(Width - 1)
  BY <1>6, Zenon DEF Screens
<1>8. Wrap(u) = u
  BY <1>1, <1>7 DEF Wrap
<1>9. Scroll(u) = u
  BY <1>3, <1>6, Zenon DEF Scroll
<1>10. At(u) = At(b)
  BY <1>6, Zenon DEF At
<1>11. \A j \in Cells : j # At(s) - 1 => u.arr[j] = s.arr[j]
  BY <1>3, <1>6, Zenon DEF Store
<1> QED  BY <1>3, <1>4, <1>6, <1>8, <1>9, <1>10, <1>11, Zenon

\* the printed characters of the line being typed
Visible(t, n) == {i \in 1..Len(t) : i > Len(t) - n /\ t[i] # "nul"}

\* The visible characters of the line being typed fit in the ring
LEMMA LineFits ==
  ASSUME NEW t \in Seq(Char), NEW r \in Seq(Char), NEW n, InLine(t, r, n), Len(t) - Len(r) <= Size
  PROVE  /\ IsFiniteSet(Visible(t, n)) /\ Cardinality(Visible(t, n)) \in Nat
         /\ Cardinality(Visible(t, n)) <= Size
<1> DEFINE lo == Len(t) - n + 1
           hi == Len(t)
           I == lo..hi
           V == Visible(t, n)
<1>1. /\ Len(t) \in Nat /\ Len(r) \in Nat /\ Size \in Nat
      /\ n \in Nat /\ n <= Len(t) - Len(r)
  BY TerminalAssumption DEF InLine
<1>2. lo \in Int /\ hi \in Int /\ (IF lo > hi THEN 0 ELSE hi - lo + 1) <= Size
  BY <1>1
<1>3. V \subseteq I
  BY <1>1 DEF Visible
<1> HIDE DEF V, lo, hi
<1>4. IsFiniteSet(I) /\ Cardinality(I) <= Size
  BY <1>2, FS_Interval, Zenon
<1> HIDE DEF I
<1>5. IsFiniteSet(V) /\ Cardinality(V) <= Cardinality(I)
  BY <1>3, <1>4, FS_Subset, Zenon
<1>6. Cardinality(V) \in Nat /\ Cardinality(I) \in Nat
  BY <1>4, <1>5, FS_CardinalityType, Zenon
<1> QED  BY <1>1, <1>4, <1>5, <1>6 DEF V

\* A key adds at most itself to the visible characters of the line
LEMMA PushVisible ==
  ASSUME NEW t \in Seq(Char), NEW n \in 0..Len(t), NEW a \in Char
  PROVE  /\ Visible(Append(t, a), 0) = {}
         /\ a = "nul" => Visible(Append(t, a), n + 1) = Visible(t, n)
         /\ a # "nul" => Visible(Append(t, a), n + 1) = Visible(t, n) \cup {Len(t) + 1}
<1> DEFINE t2 == Append(t, a)
<1>1. /\ Len(t2) = Len(t) + 1 /\ t2[Len(t) + 1] = a /\ Len(t) \in Nat
      /\ \A i \in 1..Len(t) : t2[i] = t[i]
  OBVIOUS
<1> HIDE DEF t2
<1>2. Visible(t2, 0) = {}
  BY <1>1 DEF Visible
<1>3. Len(t2) - (n + 1) = Len(t) - n
  BY <1>1
<1>4. a = "nul" => Visible(t2, n + 1) = Visible(t, n)
  BY <1>1, <1>3 DEF Visible
<1>5. a # "nul" => Visible(t2, n + 1) = Visible(t, n) \cup {Len(t) + 1}
  BY <1>1, <1>3 DEF Visible
<1> QED  BY <1>2, <1>4, <1>5, Zenon DEF t2

\* A backspace takes the last one away
LEMMA EraseVisible ==
  ASSUME NEW t \in Seq(Char), NEW n \in 1..Len(t), t[Len(t)] # "nul"
  PROVE  /\ Visible(SubSeq(t, 1, Len(t) - 1), n - 1) = Visible(t, n) \ {Len(t)}
         /\ Len(t) \in Visible(t, n)
<1> DEFINE l == Len(t) - 1
           t2 == SubSeq(t, 1, l)
<1>1. Len(t) \in Nat /\ l \in Nat /\ l <= Len(t) /\ Len(t) = l + 1
  OBVIOUS
<1> HIDE DEF l
<1>2. Len(t2) = l /\ \A i \in 1..l : t2[i] = t[i]
  BY <1>1
<1> HIDE DEF t2
<1>3. l - (n - 1) = Len(t) - n
  BY <1>1
<1>4. Len(t) \in Visible(t, n)
  BY <1>1 DEF Visible
<1>5. ASSUME NEW i PROVE i \in Visible(t2, n - 1) <=> i \in Visible(t, n) /\ i # Len(t)
  <2>1. i \in Visible(t2, n - 1) <=> i \in 1..l /\ i > Len(t) - n /\ t2[i] # "nul"
    BY <1>2, <1>3, Zenon DEF Visible
  <2>2. i \in Visible(t, n) <=> i \in 1..Len(t) /\ i > Len(t) - n /\ t[i] # "nul"
    BY Zenon DEF Visible
  <2>3. i \in 1..l <=> i \in 1..Len(t) /\ i # Len(t)
    BY <1>1
  <2> QED  BY <1>2, <2>1, <2>2, <2>3, Zenon
<1>6. Visible(t2, n - 1) = Visible(t, n) \ {Len(t)}
  BY <1>5, Zenon
<1> QED  BY <1>4, <1>6, Zenon DEF t2, l

-----------------------------------------------------------------------------
(* The invariant *)

\* at most one key arrives between two statements of term_pop
OneKey == MaxBurst <= 1

Held == Len(typed) - Len(read)

\* full is right, except between the two assignments of term_pop.  There it is what it
\* was before the character was taken, or what one key has made of it
FullOK ==
  IF pc = "unfull"
  THEN burst <= 1 /\ IF full THEN Held = Size - 1 ELSE Held <= Size - 2 + burst
  ELSE full = (Held = Size)

\* v stands for a number of lines from lo to hi
Within(v, lo, hi) == \E e \in lo..hi : v = e % CharMod

\* a delimiter that term_pop has taken and not yet taken off count
Owed == IF pc \in {"load", "store"} \/ (pc = "unfull" /\ Delim(c)) THEN 1 ELSE 0

\* term_read pops when count has announced a line
Announced == IF pc \in {"pop", "advance", "unfull", "load"} THEN 1 ELSE 0

Ahead == Cardinality(Delims(typed, read))

\* count never announces a line that is not there
CountOK ==
  /\ Within(count, Announced, Ahead + Owed)
  /\ pc = "store" => Within(tmp, 1, Ahead + 1)

CharOK ==
  /\ pc = "advance" => c = typed[Len(read) + 1]
  /\ pc \in {"load", "store"} => Delim(c)

\* the inductive invariant
IInv ==
  /\ TypeOK
  /\ Ring(start, end, buf, typed, read)
  /\ InLine(typed, read, backspace)
  /\ FullOK
  /\ CountOK
  /\ CharOK
  /\ Len(typed) <= keys /\ burst <= keys

\* A newline more: the count goes up in its width
LEMMA WithinUp ==
  ASSUME NEW v, NEW lo \in Int, NEW hi \in Int, Within(v, lo, hi)
  PROVE  Within((v + 1) % CharMod, lo, hi + 1)
<1>1. PICK e \in lo..hi : v = e % CharMod
  BY Zenon DEF Within
<1>2. e + 1 \in lo..(hi + 1) /\ e \in Int
  OBVIOUS
<1>3. (v + 1) % CharMod = (e + 1) % CharMod
  BY <1>1, <1>2, Increment, TerminalAssumption, Zenon
<1> QED  BY <1>2, <1>3, Zenon DEF Within

\* A newline less: the count goes down in its width
LEMMA WithinDown ==
  ASSUME NEW v, NEW hi \in Int, Within(v, 1, hi)
  PROVE  Within((v + CharMod - 1) % CharMod, 0, hi - 1)
<1>1. PICK e \in 1..hi : v = e % CharMod
  BY Zenon DEF Within
<1>2. e - 1 \in 0..(hi - 1) /\ e \in Int
  OBVIOUS
<1>3. (v + CharMod - 1) % CharMod = (e - 1) % CharMod
  BY <1>1, <1>2, Decrement, TerminalAssumption, Zenon
<1> QED  BY <1>2, <1>3, Zenon DEF Within

\* Wider limits hold as well
LEMMA WithinMore ==
  ASSUME NEW v, NEW lo \in Int, NEW hi \in Int, NEW lo2 \in Int, NEW hi2 \in Int,
         Within(v, lo, hi), lo2 <= lo, hi <= hi2
  PROVE  Within(v, lo2, hi2)
<1>1. PICK e \in lo..hi : v = e % CharMod
  BY Zenon DEF Within
<1>2. e \in lo2..hi2
  OBVIOUS
<1> QED  BY <1>1, <1>2, Zenon DEF Within

\* a count that is not 0 announces a line
LEMMA WithinOne ==
  ASSUME NEW v, NEW hi \in Int, Within(v, 0, hi), v # 0
  PROVE  Within(v, 1, hi)
<1>1. PICK e \in 0..hi : v = e % CharMod
  BY Zenon DEF Within
<1>2. CharMod \in Nat \ {0} /\ 0 = CharMod * 0 + 0 /\ 0 \in 0..(CharMod - 1)
  BY TerminalAssumption
<1>3. 0 % CharMod = 0
  BY <1>2, Remainder
<1>4. e # 0
  BY <1>1, <1>3, Zenon
<1>5. e \in 1..hi
  BY <1>4
<1> QED  BY <1>1, <1>5, Zenon DEF Within

\* what the steps need of the types
Typed ==
  /\ typed \in Seq(Char) /\ read \in Seq(Char) /\ got \in Seq(Char)
  /\ Len(typed) \in Nat /\ Len(read) \in Nat /\ Held \in 0..Size
  /\ Size \in Nat \ {0} /\ CharMod \in Nat \ {0} /\ MaxKeys \in Nat /\ MaxBurst \in Nat
  /\ Ahead \in Nat /\ Owed \in 0..1 /\ Announced \in 0..1
  /\ backspace \in Nat /\ burst \in Nat /\ keys \in Nat /\ c \in Char
  /\ Len(typed) <= keys /\ burst <= keys

\* The types and bounds that every step uses
LEMMA Facts ==
  ASSUME IInv
  PROVE  Typed
<1>1. typed \in Seq(Char) /\ read \in Seq(Char) /\ got \in Seq(Char) /\ c \in Char
  BY Zenon DEF IInv, TypeOK
<1>2. Len(typed) \in Nat /\ Len(read) \in Nat
  BY <1>1
<1>3. Held \in 0..Size
  BY Zenon DEF IInv, Ring, Held
<1>4. Size \in Nat \ {0} /\ CharMod \in Nat \ {0} /\ MaxKeys \in Nat /\ MaxBurst \in Nat
  BY TerminalAssumption, Zenon
<1>5. Ahead \in Nat
  BY <1>1, DelimsFinite, Zenon DEF Ahead
<1>6. Owed \in 0..1 /\ Announced \in 0..1
  BY DEF Owed, Announced
<1>7. backspace \in Nat /\ burst \in Nat /\ keys \in Nat
  BY <1>4 DEF IInv, TypeOK
<1>8. Len(typed) <= keys /\ burst <= keys
  BY Zenon DEF IInv
<1> QED  BY <1>1, <1>2, <1>3, <1>4, <1>5, <1>6, <1>7, <1>8, Zenon DEF Typed

-----------------------------------------------------------------------------
(* The steps *)

\* An empty ring satisfies the invariant
LEMMA InvInit == Init => IInv
<1> SUFFICES ASSUME Init PROVE IInv
  BY Zenon
<1> USE TerminalAssumption DEF Init
<1>1. typed = <<>> /\ read = <<>> /\ got = <<>> /\ <<>> \in Seq(Char) /\ Len(<<>>) = 0
  OBVIOUS
<1>2. Size \in Nat \ {0} /\ CharMod \in Nat \ {0} /\ 0 % Size = 0 /\ 0 % CharMod = 0
  <2>1. 0 = Size * 0 + 0 /\ 0 \in 0..(Size - 1)
    OBVIOUS
  <2>2. 0 = CharMod * 0 + 0 /\ 0 \in 0..(CharMod - 1)
    OBVIOUS
  <2> QED  BY <2>1, <2>2, Remainder
<1>3. TypeOK
  BY <1>1, <1>2 DEF TypeOK, Char
<1>4. Ring(start, end, buf, typed, read)
  <2>1. Len(typed) - Len(read) = 0 /\ 0 + 0 = 0
    BY <1>1
  <2>2. buf \in [0..(Size - 1) -> Char]
    BY Zenon DEF Char
  <2> QED  BY <1>1, <1>2, <2>1, <2>2 DEF Ring
<1>5. InLine(typed, read, backspace)
  BY <1>1 DEF InLine
<1>6. FullOK
  <2>1. Held = 0 /\ Size # 0
    BY <1>1, <1>2 DEF Held
  <2> QED  BY <2>1, Zenon DEF FullOK
<1>7. CountOK
  <2>1. Announced = 0 /\ Owed = 0
    BY Zenon DEF Announced, Owed
  <2>2. Ahead \in Nat
    BY <1>1, DelimsFinite, Zenon DEF Ahead
  <2>3. 0 \in 0..(Ahead + 0)
    BY <2>2
  <2>4. Within(count, 0, Ahead + 0)
    BY <1>2, <2>3, Zenon DEF Within
  <2> QED  BY <2>1, <2>4, Zenon DEF CountOK
<1>8. CharOK
  BY Zenon DEF CharOK
<1> QED  BY <1>1, <1>3, <1>4, <1>5, <1>6, <1>7, <1>8 DEF IInv

\* a key that changes nothing
LEMMA KeyRefused ==
  ASSUME OneKey, IInv, Key, UNCHANGED <<term, count, typed>>
  PROVE  IInv'
<1>0. Typed
  BY Facts, Zenon
<1> USE <1>0 DEF Typed
<1>1. /\ UNCHANGED <<start, end, full, backspace, buf, count, typed>>
      /\ UNCHANGED <<pc, size, got, c, tmp, irq, read>>
      /\ keys' = keys + 1 /\ burst' = burst + 1 /\ keys < MaxKeys
      /\ pc = "unfull" => burst < MaxBurst
  BY Zenon DEF Key, term, reader
<1>2. TypeOK'
  BY <1>1 DEF IInv, TypeOK
<1>3. Ring(start, end, buf, typed, read)' /\ InLine(typed, read, backspace)'
  BY <1>1, Zenon DEF IInv, Ring, InLine
<1>4. FullOK'
  <2>1. Held' = Held
    BY <1>1, Zenon DEF Held
  <2>2. CASE pc = "unfull"
    BY <1>1, <2>1, <2>2 DEF IInv, FullOK, OneKey
  <2>3. CASE pc # "unfull"
    BY <1>1, <2>1, <2>3, Zenon DEF IInv, FullOK
  <2> QED  BY <2>2, <2>3, Zenon
<1>5. CountOK' /\ CharOK'
  BY <1>1, Zenon DEF IInv, CountOK, CharOK, Announced, Owed, Ahead, Delims, Within
<1>6. Len(typed') <= keys' /\ burst' <= keys'
  BY <1>1
<1> QED  BY <1>2, <1>3, <1>4, <1>5, <1>6, Zenon DEF IInv

\* with a delimiter ahead the character that is being popped stays where it is
LEMMA NextIsAhead ==
  ASSUME IInv, pc = "advance"
  PROVE  Len(read) + 1 <= Len(typed) - backspace /\ Ahead >= 1
<1>0. Typed
  BY Facts, Zenon
<1> USE <1>0 DEF Typed
<1>1. Announced = 1 /\ Owed = 0
  BY Zenon DEF Announced, Owed
<1>2. Within(count, 1, Ahead + 0)
  BY <1>1, Zenon DEF IInv, CountOK
<1>3. Ahead >= 1
  BY <1>2 DEF Within
<1> QED  BY <1>3, DelimAhead, Zenon DEF IInv, Ahead

\* a backspace
LEMMA KeyErases ==
  ASSUME OneKey, IInv, Key, Erase, backspace > 0
  PROVE  IInv'
<1>0. Typed
  BY Facts, Zenon
<1> USE <1>0 DEF Typed
<1>1. /\ UNCHANGED <<start, buf, count, pc, size, got, c, tmp, irq, read>>
      /\ keys' = keys + 1 /\ burst' = burst + 1 /\ keys < MaxKeys
      /\ pc = "unfull" => burst < MaxBurst
  BY Zenon DEF Key, Erase, reader
<1>2. /\ end' = (end + Size - 1) % Size /\ full' = FALSE /\ backspace' = backspace - 1
      /\ typed' = SubSeq(typed, 1, Len(typed) - 1)
  BY Zenon DEF Erase
<1>3. backspace \in 1..Held /\ Held > 0
  BY DEF IInv, InLine, Held
<1>4. Ring(start, end, buf, typed, read)'
  <2>1. Ring(start, (end + Size - 1) % Size, buf, SubSeq(typed, 1, Len(typed) - 1), read)
    BY <1>3, EraseRing, Zenon DEF IInv, Held
  <2> QED  BY <1>1, <1>2, <2>1, Zenon
<1>5. InLine(typed, read, backspace)' /\ Ahead' = Ahead
  <2>1. /\ InLine(SubSeq(typed, 1, Len(typed) - 1), read, backspace - 1)
        /\ Delims(SubSeq(typed, 1, Len(typed) - 1), read) = Delims(typed, read)
    BY EraseLine, Zenon DEF IInv
  <2> QED  BY <1>1, <1>2, <2>1, Zenon DEF Ahead
<1>6. typed' \in Seq(Char) /\ Len(typed') = Len(typed) - 1 /\ Held' = Held - 1
  <2>1. typed' \in Seq(Char)
    BY <1>4, Zenon DEF Ring
  <2> DEFINE l == Len(typed) - 1
  <2>2. l \in Nat /\ l <= Len(typed)
    BY <1>3 DEF Held
  <2> HIDE DEF l
  <2>3. Len(SubSeq(typed, 1, l)) = l
    BY <2>2
  <2>4. Len(typed') = Len(typed) - 1
    BY <1>2, <2>3, Zenon DEF l
  <2> QED  BY <1>1, <2>1, <2>4 DEF Held
<1>7. TypeOK'
  <2>1. start' \in 0..(Size - 1) /\ end' \in 0..(Size - 1) /\ buf' \in [0..(Size - 1) -> Char]
    BY <1>4, Zenon DEF Ring
  <2>2. full' \in BOOLEAN /\ backspace' \in 0..MaxKeys /\ keys' \in 0..MaxKeys /\ burst' \in 0..MaxKeys
    <3>1. backspace' = backspace - 1 /\ full' = FALSE
      BY <1>2, Zenon
    <3>2. backspace <= MaxKeys
      BY DEF IInv, TypeOK
    <3>3. backspace' \in 0..MaxKeys
      BY <1>3, <3>1, <3>2
    <3>4. keys' \in 0..MaxKeys /\ burst' \in 0..MaxKeys
      BY <1>1
    <3> QED  BY <3>1, <3>3, <3>4, Zenon
  <2>3. {got, typed, read}' \subseteq Seq(Char)
    BY <1>1, <1>6, Zenon
  <2> QED  BY <1>1, <2>1, <2>2, <2>3, Zenon DEF IInv, TypeOK
<1>8. FullOK'
  <2>1. full' = FALSE /\ pc' = pc /\ burst' = burst + 1 /\ Held' = Held - 1
    BY <1>1, <1>2, <1>6, Zenon
  <2>2. CASE pc = "unfull"
    <3>1. burst = 0 /\ Held <= Size - 1
      BY <1>1, <2>2 DEF IInv, FullOK, OneKey
    <3> QED  BY <2>1, <2>2, <3>1 DEF FullOK
  <2>3. CASE pc # "unfull"
    <3>1. Held' # Size
      BY <2>1
    <3> QED  BY <2>1, <2>3, <3>1, Zenon DEF FullOK
  <2> QED  BY <2>2, <2>3, Zenon
<1>9. CountOK'
  BY <1>1, <1>5, Zenon DEF IInv, CountOK, Announced, Owed, Within
<1>10. CharOK'
  <2>1. CASE pc = "advance"
    <3>1. Len(read) + 1 \in 1..(Len(typed) - 1)
      BY <1>3, <2>1, NextIsAhead
    <3>2. typed'[Len(read) + 1] = typed[Len(read) + 1]
      BY <1>2, <3>1
    <3> QED  BY <1>1, <2>1, <3>2, Zenon DEF IInv, CharOK
  <2>2. CASE pc # "advance"
    BY <1>1, <2>2, Zenon DEF IInv, CharOK
  <2> QED  BY <2>1, <2>2, Zenon
<1>11. Len(typed') <= keys' /\ burst' <= keys'
  BY <1>1, <1>6
<1> QED  BY <1>4, <1>5, <1>7, <1>8, <1>9, <1>10, <1>11, Zenon DEF IInv

\* a character that is accepted
LEMMA KeyPushes ==
  ASSUME OneKey, IInv, Key, NEW a \in Char, Push(a), ~ full
  PROVE  IInv'
<1>0. Typed
  BY Facts, Zenon
<1> USE <1>0 DEF Typed
<1>1. /\ UNCHANGED <<start, pc, size, got, c, tmp, irq, read>>
      /\ keys' = keys + 1 /\ burst' = burst + 1 /\ keys < MaxKeys
      /\ pc = "unfull" => burst < MaxBurst
  BY Zenon DEF Key, Push, reader
<1>2. /\ buf' = [buf EXCEPT ![end] = a] /\ end' = (end + 1) % Size /\ full' = (start = end')
      /\ count' = IF Delim(a) THEN (count + 1) % CharMod ELSE count
      /\ backspace' = IF Delim(a) THEN 0 ELSE backspace + 1
      /\ typed' = Append(typed, a)
  BY Zenon DEF Push
<1>3. Held < Size /\ (pc = "unfull" => burst = 0 /\ Held <= Size - 2)
  <2>1. CASE pc = "unfull"
    BY <1>1, <2>1 DEF IInv, FullOK, OneKey
  <2>2. CASE pc # "unfull"
    <3>1. Held # Size
      BY <2>2, Zenon DEF IInv, FullOK
    <3> QED  BY <2>2, <3>1
  <2> QED  BY <2>1, <2>2, Zenon
<1>4. Ring(start, end, buf, typed, read)' /\ full' = (Held + 1 = Size)
  <2>1. Ring(start, end, buf, typed, read) /\ Len(typed) - Len(read) < Size
    BY <1>3, Zenon DEF IInv, Held
  <2>2. Ring(start, (end + 1) % Size, [buf EXCEPT ![end] = a], Append(typed, a), read)
    BY <2>1, PushRing, Zenon
  <2>3. Meets(start, end, typed, read)
    BY <2>1, PushRing, Zenon
  <2>4. start' = start /\ read' = read
    BY <1>1, Zenon
  <2> QED  BY <1>2, <2>2, <2>3, <2>4, Zenon DEF Held, Meets
<1>5. InLine(typed, read, backspace)' /\ Ahead' = Ahead + IF Delim(a) THEN 1 ELSE 0
  <2>1. /\ InLine(Append(typed, a), read, IF Delim(a) THEN 0 ELSE backspace + 1)
        /\ Cardinality(Delims(Append(typed, a), read))
             = Cardinality(Delims(typed, read)) + IF Delim(a) THEN 1 ELSE 0
    BY PushLine, Zenon DEF IInv
  <2>2. read' = read
    BY <1>1, Zenon
  <2> QED  BY <1>2, <2>1, <2>2, Zenon DEF Ahead
<1>6. /\ typed' \in Seq(Char) /\ Len(typed') = Len(typed) + 1 /\ Held' = Held + 1
      /\ \A i \in 1..Len(typed) : typed'[i] = typed[i]
  <2>1. typed' \in Seq(Char) /\ Len(typed') = Len(typed) + 1
    BY <1>2
  <2>2. \A i \in 1..Len(typed) : typed'[i] = typed[i]
    BY <1>2
  <2> QED  BY <1>1, <2>1, <2>2 DEF Held
<1>7. TypeOK'
  <2>1. start' \in 0..(Size - 1) /\ end' \in 0..(Size - 1) /\ buf' \in [0..(Size - 1) -> Char]
    BY <1>4, Zenon DEF Ring
  <2>2. full' \in BOOLEAN
    BY <1>2, Zenon
  <2>3. keys' \in 0..MaxKeys /\ burst' \in 0..MaxKeys
    BY <1>1
  <2>4. backspace' \in 0..MaxKeys
    <3>1. backspace <= Len(typed)
      BY DEF IInv, InLine
    <3> QED  BY <1>1, <1>2, <3>1
  <2>5. count' \in 0..(CharMod - 1)
    <3>1. count \in 0..(CharMod - 1)
      BY Zenon DEF IInv, TypeOK
    <3>2. (count + 1) % CharMod \in 0..(CharMod - 1)
      BY <3>1
    <3> QED  BY <1>2, <3>1, <3>2, Zenon
  <2>6. {got, typed, read}' \subseteq Seq(Char)
    BY <1>1, <1>6, Zenon
  <2> QED  BY <1>1, <2>1, <2>2, <2>3, <2>4, <2>5, <2>6, Zenon DEF IInv, TypeOK
<1>8. FullOK'
  <2>1. pc' = pc /\ burst' = burst + 1 /\ Held' = Held + 1 /\ full' = (Held' = Size)
    BY <1>1, <1>4, <1>6, Zenon
  <2>2. CASE pc = "unfull"
    <3>1. burst' = 1 /\ Held' <= Size - 1 /\ Held' # Size /\ Size - 2 + 1 = Size - 1
      BY <1>3, <2>1, <2>2
    <3>2. ~ full'
      BY <2>1, <3>1, Zenon
    <3> QED  BY <2>1, <2>2, <3>1, <3>2 DEF FullOK
  <2>3. CASE pc # "unfull"
    BY <2>1, <2>3, Zenon DEF FullOK
  <2> QED  BY <2>2, <2>3, Zenon
<1>9. CountOK'
  <2>1. Owed' = Owed /\ Announced' = Announced /\ pc' = pc /\ tmp' = tmp
    BY <1>1, Zenon DEF Owed, Announced
  <2>2. Within(count, Announced, Ahead + Owed)
    BY Zenon DEF IInv, CountOK
  <2>3. Within(count', Announced, Ahead' + Owed)
    <3>1. CASE Delim(a)
      <4>1. Within((count + 1) % CharMod, Announced, Ahead + Owed + 1)
        BY <2>2, WithinUp
      <4>2. Ahead + Owed + 1 = Ahead' + Owed
        BY <1>5, <3>1
      <4>3. count' = (count + 1) % CharMod
        BY <1>2, <3>1, Zenon
      <4> QED  BY <4>1, <4>2, <4>3, Zenon
    <3>2. CASE ~ Delim(a)
      <4>1. Ahead + Owed = Ahead' + Owed /\ count' = count
        BY <1>2, <1>5, <3>2
      <4> QED  BY <2>2, <4>1, Zenon
    <3> QED  BY <3>1, <3>2, Zenon
  <2>4. ASSUME pc = "store"
        PROVE  Within(tmp, 1, Ahead' + 1)
    <3>1. Within(tmp, 1, Ahead + 1)
      BY <2>4, Zenon DEF IInv, CountOK
    <3>2. Ahead + 1 \in Int /\ Ahead' + 1 \in Int /\ Ahead + 1 <= Ahead' + 1
      BY <1>5
    <3> QED  BY <3>1, <3>2, WithinMore
  <2> QED  BY <2>1, <2>3, <2>4, Zenon DEF CountOK
<1>10. CharOK'
  <2>1. CASE pc = "advance"
    <3>1. Len(read) + 1 \in 1..Len(typed)
      BY <2>1, NextIsAhead
    <3>2. typed'[Len(read) + 1] = typed[Len(read) + 1]
      BY <1>6, <3>1, Zenon
    <3> QED  BY <1>1, <2>1, <3>2, Zenon DEF IInv, CharOK
  <2>2. CASE pc # "advance"
    BY <1>1, <2>2, Zenon DEF IInv, CharOK
  <2> QED  BY <2>1, <2>2, Zenon
<1>11. Len(typed') <= keys' /\ burst' <= keys'
  BY <1>1, <1>6
<1> QED  BY <1>4, <1>5, <1>7, <1>8, <1>9, <1>10, <1>11, Zenon DEF IInv

\* A key of any kind keeps the invariant
LEMMA KeyStep ==
  ASSUME OneKey, IInv, Key
  PROVE  IInv'
<1>1. CASE Erase
  <2>1. CASE backspace > 0
    BY <1>1, <2>1, KeyErases, Zenon
  <2>2. CASE ~ (backspace > 0)
    BY <1>1, <2>2, KeyRefused, Zenon DEF Erase
  <2> QED  BY <2>1, <2>2, Zenon
<1>2. ASSUME NEW a \in Char, Push(a)
      PROVE  IInv'
  <2>1. CASE full
    BY <1>2, <2>1, KeyRefused, Zenon DEF Push
  <2>2. CASE ~ full
    BY <1>2, <2>2, KeyPushes, Zenon
  <2> QED  BY <2>1, <2>2, Zenon
<1> QED  BY <1>1, <1>2, Zenon DEF Key

\* a step of the reader that takes no character
LEMMA ReaderKeeps ==
  ASSUME IInv, UNCHANGED <<start, end, buf, backspace, typed, read, keys>>, burst' = 0,
         TypeOK', FullOK', CountOK', CharOK'
  PROVE  IInv'
<1>1. Ring(start, end, buf, typed, read)' /\ InLine(typed, read, backspace)'
  BY Zenon DEF IInv, Ring, InLine
<1>2. Len(typed') <= keys' /\ burst' <= keys'
  BY Facts DEF Typed
<1> QED  BY <1>1, <1>2, Zenon DEF IInv

\* sys_read, a test without a line, the end of a hlt, and a test with a line
LEMMA TestSteps ==
  ASSUME IInv, (\E s \in ReadSizes : SysRead(s)) \/ NoLine \/ Wake \/ Line
  PROVE  IInv'
<1>0. Typed
  BY Facts, Zenon
<1> USE <1>0 DEF Typed
<1>1. /\ UNCHANGED <<start, end, full, backspace, buf, count, c, tmp, typed, read, keys>>
      /\ burst' = 0 /\ size' \in ReadSizes \cup {0} /\ got' \in Seq(Char) /\ irq' \in BOOLEAN
      /\ pc \in {"user", "test", "halt"} /\ pc' \in {"test", "halt", "pop"}
      /\ pc' = "pop" => count # 0
  <2>1. size \in ReadSizes \cup {0} /\ irq \in BOOLEAN /\ <<>> \in Seq(Char)
    BY DEF IInv, TypeOK
  <2>2. CASE \E s \in ReadSizes : SysRead(s)
    BY <2>1, <2>2, Zenon DEF SysRead, Step, term
  <2>3. CASE NoLine
    BY <2>1, <2>3, Zenon DEF NoLine, Step, term
  <2>4. CASE Wake
    BY <2>1, <2>4, Zenon DEF Wake, Step, term
  <2>5. CASE Line
    BY <2>1, <2>5, Zenon DEF Line, Step, term
  <2> QED  BY <2>2, <2>3, <2>4, <2>5, Zenon
<1>2. TypeOK'
  <2>1. {got, typed, read}' \subseteq Seq(Char)
    BY <1>1, Zenon
  <2>2. burst' \in 0..MaxKeys
    BY <1>1
  <2> QED  BY <1>1, <2>1, <2>2, Zenon DEF IInv, TypeOK
<1>3. FullOK'
  <2>1. Held' = Held /\ pc # "unfull" /\ pc' # "unfull" /\ full' = full
    BY <1>1, Zenon DEF Held
  <2> QED  BY <2>1, Zenon DEF IInv, FullOK
<1>4. CountOK'
  <2>1. Ahead' = Ahead /\ Owed = 0 /\ Owed' = 0 /\ Announced = 0 /\ pc' # "store"
    BY <1>1, Zenon DEF Ahead, Owed, Announced
  <2>2. Within(count, 0, Ahead + 0)
    BY <2>1, Zenon DEF IInv, CountOK
  <2>3. CASE pc' = "pop"
    <3>1. Announced' = 1 /\ count # 0
      BY <1>1, <2>3, Zenon DEF Announced
    <3>2. Within(count, 1, Ahead + 0)
      BY <2>2, <3>1, WithinOne
    <3> QED  BY <1>1, <2>1, <3>1, <3>2, Zenon DEF CountOK
  <2>4. CASE pc' # "pop"
    <3>1. Announced' = 0
      BY <1>1, <2>4, Zenon DEF Announced
    <3> QED  BY <1>1, <2>1, <2>2, <3>1, Zenon DEF CountOK
  <2> QED  BY <2>3, <2>4, Zenon
<1>5. CharOK'
  BY <1>1, Zenon DEF CharOK
<1> QED  BY <1>1, <1>2, <1>3, <1>4, <1>5, ReaderKeeps, Zenon

\* term_pop finds a character, since count has announced a line
LEMMA PopFinds ==
  ASSUME IInv, pc = "pop"
  PROVE  Len(read) + 1 <= Len(typed) - backspace /\ ~ Empty
<1>0. Typed
  BY Facts, Zenon
<1> USE <1>0 DEF Typed
<1>1. Announced = 1 /\ Owed = 0
  BY Zenon DEF Announced, Owed
<1>2. Within(count, 1, Ahead + 0)
  BY <1>1, Zenon DEF IInv, CountOK
<1>3. Ahead >= 1
  BY <1>2 DEF Within
<1>4. Len(read) + 1 <= Len(typed) - backspace
  BY <1>3, DelimAhead, Zenon DEF IInv, Ahead
<1>5. ASSUME Empty PROVE FALSE
  <2>1. start = end /\ ~ full
    BY <1>5, Zenon DEF Empty
  <2>2. Held # Size /\ Held > 0
    <3>1. Held # Size
      BY <2>1, Zenon DEF IInv, FullOK
    <3>2. Held > 0
      BY <1>4 DEF Held
    <3> QED  BY <3>1, <3>2, Zenon
  <2>3. start \in 0..(Size - 1) /\ end = (start + Held) % Size
    BY Zenon DEF IInv, Ring, Held
  <2>4. (start + Held) % Size = IF start + Held < Size THEN start + Held ELSE start + Held - Size
    BY <2>3, Slot, Zenon
  <2>5. start = IF start + Held < Size THEN start + Held ELSE start + Held - Size
    BY <2>1, <2>3, <2>4, Zenon
  <2> QED  BY <2>2, <2>3, <2>5
<1> QED  BY <1>4, <1>5, Zenon

\* Loading the character at start, the first statement of term_pop
LEMMA PopCharStep ==
  ASSUME IInv, PopChar
  PROVE  IInv'
<1>0. Typed
  BY Facts, Zenon
<1> USE <1>0 DEF Typed
<1>1. pc = "pop" /\ ~ Empty /\ Len(read) + 1 <= Len(typed) - backspace
  BY PopFinds, Zenon DEF PopChar, Step
<1>2. /\ UNCHANGED <<start, end, full, backspace, buf, count, size, got, tmp, typed, read, keys>>
      /\ pc' = "advance" /\ burst' = 0 /\ c' = buf[start] /\ irq' \in BOOLEAN
  <2>1. irq \in BOOLEAN /\ Empty \in BOOLEAN
    BY Zenon DEF IInv, TypeOK, Empty
  <2> QED  BY <1>1, <2>1, Zenon DEF PopChar, Step, term
<1>3. buf[start] = typed[Len(read) + 1] /\ buf[start] \in Char
  <2>1. Len(typed) - Len(read) > 0
    BY <1>1
  <2>2. buf[start] = typed[Len(read) + 1]
    BY <2>1, PopRing DEF IInv
  <2>3. Len(read) + 1 \in 1..Len(typed)
    BY <1>1
  <2> QED  BY <2>2, <2>3
<1>4. TypeOK'
  <2>1. {got, typed, read}' \subseteq Seq(Char)
    BY <1>2, Zenon
  <2>2. burst' \in 0..MaxKeys
    BY <1>2
  <2> QED  BY <1>2, <1>3, <2>1, <2>2, Zenon DEF IInv, TypeOK
<1>5. FullOK'
  <2>1. Held' = Held /\ pc # "unfull" /\ pc' # "unfull" /\ full' = full
    BY <1>1, <1>2, Zenon DEF Held
  <2> QED  BY <2>1, Zenon DEF IInv, FullOK
<1>6. CountOK'
  <2>1. Ahead' = Ahead /\ Owed = 0 /\ Owed' = 0 /\ Announced = 1 /\ Announced' = 1 /\ pc' # "store"
    BY <1>1, <1>2, Zenon DEF Ahead, Owed, Announced
  <2> QED  BY <1>2, <2>1, Zenon DEF IInv, CountOK
<1>7. CharOK'
  BY <1>2, <1>3, Zenon DEF CharOK
<1> QED  BY <1>2, <1>4, <1>5, <1>6, <1>7, ReaderKeeps, Zenon

\* the first assignment of term_pop
LEMMA PopAdvanceStep ==
  ASSUME IInv, PopAdvance
  PROVE  IInv'
<1>0. Typed
  BY Facts, Zenon
<1> USE <1>0 DEF Typed
<1>1. /\ UNCHANGED <<end, full, backspace, buf, count, size, got, c, tmp, irq, typed, keys>>
      /\ pc = "advance" /\ pc' = "unfull" /\ burst' = 0
      /\ start' = (start + 1) % Size /\ read' = Append(read, c)
  BY Zenon DEF PopAdvance, Step
<1>2. Len(read) + 1 <= Len(typed) - backspace
  BY <1>1, NextIsAhead, Zenon
<1>3. c = typed[Len(read) + 1]
  BY <1>1, Zenon DEF IInv, CharOK
<1>4. Ring(start, end, buf, typed, read)'
  <2>1. Ring(start, end, buf, typed, read) /\ Len(typed) - Len(read) > 0
    BY <1>2 DEF IInv
  <2>2. Ring((start + 1) % Size, end, buf, typed, Append(read, typed[Len(read) + 1]))
    BY <2>1, PopRing, Zenon
  <2>3. end' = end /\ buf' = buf /\ typed' = typed
    BY <1>1, Zenon
  <2> QED  BY <1>1, <1>3, <2>2, <2>3, Zenon
<1>5. InLine(typed, read, backspace)' /\ Ahead' = Ahead - IF Delim(c) THEN 1 ELSE 0
  <2>1. /\ InLine(typed, Append(read, c), backspace)
        /\ Cardinality(Delims(typed, Append(read, c)))
             = Cardinality(Delims(typed, read)) - IF Delim(typed[Len(read) + 1]) THEN 1 ELSE 0
    BY <1>2, PopLine, Zenon DEF IInv
  <2>2. typed' = typed /\ backspace' = backspace
    BY <1>1, Zenon
  <2> QED  BY <1>1, <1>3, <2>1, <2>2, Zenon DEF Ahead
<1>6. read' \in Seq(Char) /\ Len(read') = Len(read) + 1 /\ Held' = Held - 1
  <2>1. read' \in Seq(Char) /\ Len(read') = Len(read) + 1
    BY <1>1
  <2> QED  BY <1>1, <2>1 DEF Held
<1>7. TypeOK'
  <2>1. start' \in 0..(Size - 1)
    BY <1>4, Zenon DEF Ring
  <2>2. {got, typed, read}' \subseteq Seq(Char)
    BY <1>1, <1>6, Zenon
  <2>3. burst' \in 0..MaxKeys
    BY <1>1
  <2> QED  BY <1>1, <2>1, <2>2, <2>3, Zenon DEF IInv, TypeOK
<1>8. FullOK'
  <2>1. full = (Held = Size)
    BY <1>1, Zenon DEF IInv, FullOK
  <2>2. CASE full
    <3>1. Held = Size
      BY <2>1, <2>2, Zenon
    <3>2. Held' = Size - 1 /\ burst' <= 1
      BY <1>1, <1>6, <3>1
    <3> QED  BY <1>1, <2>2, <3>2, Zenon DEF FullOK
  <2>3. CASE ~ full
    <3>1. Held # Size
      BY <2>1, <2>3, Zenon
    <3>2. Held' <= Size - 2 + burst' /\ burst' <= 1
      BY <1>1, <1>6, <3>1
    <3> QED  BY <1>1, <2>3, <3>2, Zenon DEF FullOK
  <2> QED  BY <2>2, <2>3, Zenon
<1>9. CountOK'
  <2>1. /\ Owed = 0 /\ Announced = 1 /\ Announced' = 1 /\ pc' # "store"
        /\ Owed' = IF Delim(c) THEN 1 ELSE 0
    BY <1>1, Zenon DEF Owed, Announced
  <2>2. Ahead + 0 = Ahead' + Owed'
    BY <1>5, <2>1
  <2>3. Within(count, 1, Ahead + 0)
    BY <2>1, Zenon DEF IInv, CountOK
  <2>4. count' = count
    BY <1>1, Zenon
  <2> QED  BY <2>1, <2>2, <2>3, <2>4, Zenon DEF CountOK
<1>10. CharOK'
  BY <1>1, Zenon DEF CharOK
<1>11. Len(typed') <= keys' /\ burst' <= keys'
  BY <1>1
<1> QED  BY <1>4, <1>5, <1>7, <1>8, <1>9, <1>10, <1>11, Zenon DEF IInv

\* the second one, for any character
LEMMA PopUnfullStep ==
  ASSUME IInv, PopUnfull \/ PopUnfullDelim
  PROVE  IInv'
<1>0. Typed
  BY Facts, Zenon
<1> USE <1>0 DEF Typed
<1>1. /\ UNCHANGED <<start, end, backspace, buf, count, size, c, tmp, typed, read, keys>>
      /\ pc = "unfull" /\ pc' \in {"pop", "user", "load"} /\ burst' = 0 /\ full' = FALSE
      /\ got' \in Seq(Char) /\ irq' \in BOOLEAN
      /\ pc' = "load" <=> Delim(c)
  <2>1. irq \in BOOLEAN /\ More \in BOOLEAN /\ Append(got, c) \in Seq(Char)
    BY DEF IInv, TypeOK, More
  <2>2. CASE PopUnfull
    BY <2>1, <2>2, Zenon DEF PopUnfull, Deliver, Step
  <2>3. CASE PopUnfullDelim
    BY <2>1, <2>3, Zenon DEF PopUnfullDelim, Step
  <2> QED  BY <2>2, <2>3, Zenon
<1>2. TypeOK'
  <2>1. {got, typed, read}' \subseteq Seq(Char)
    BY <1>1, Zenon
  <2>2. burst' \in 0..MaxKeys
    BY <1>1
  <2> QED  BY <1>1, <2>1, <2>2, Zenon DEF IInv, TypeOK
<1>3. FullOK'
  <2>1. Held' = Held
    BY <1>1, Zenon DEF Held
  <2>2. Held' # Size
    BY <1>1, <2>1 DEF IInv, FullOK
  <2>3. pc' # "unfull" /\ full' = FALSE
    BY <1>1, Zenon
  <2> QED  BY <2>2, <2>3, Zenon DEF FullOK
<1>4. CountOK'
  <2>1. Ahead' = Ahead /\ Announced = 1 /\ Owed' = Owed /\ pc' # "store" /\ count' = count
    BY <1>1, Zenon DEF Ahead, Owed, Announced
  <2>2. Within(count, 1, Ahead + Owed)
    BY <2>1, Zenon DEF IInv, CountOK
  <2>3. Announced' \in 0..1
    BY DEF Announced
  <2>4. Within(count, Announced', Ahead + Owed)
    BY <2>2, <2>3, WithinMore
  <2> QED  BY <2>1, <2>4, Zenon DEF CountOK
<1>5. CharOK'
  BY <1>1, Zenon DEF CharOK
<1> QED  BY <1>1, <1>2, <1>3, <1>4, <1>5, ReaderKeeps, Zenon

\* the load and the store of count--
\* The load and the store of count-- keep the invariant
LEMMA CountSteps ==
  ASSUME IInv, LoadCount \/ StoreCount
  PROVE  IInv'
<1>0. Typed
  BY Facts, Zenon
<1> USE <1>0 DEF Typed
<1>1. CASE LoadCount
  <2>1. /\ UNCHANGED <<start, end, full, backspace, buf, count, size, got, c, irq, typed, read, keys>>
        /\ pc = "load" /\ pc' = "store" /\ burst' = 0 /\ tmp' = count
    BY <1>1, Zenon DEF LoadCount, Step, term
  <2>2. TypeOK'
    <3>1. {got, typed, read}' \subseteq Seq(Char)
      BY <2>1, Zenon
    <3>2. burst' \in 0..MaxKeys
      BY <2>1
    <3> QED  BY <2>1, <3>1, <3>2, Zenon DEF IInv, TypeOK
  <2>3. FullOK'
    <3>1. Held' = Held /\ pc # "unfull" /\ pc' # "unfull" /\ full' = full
      BY <2>1, Zenon DEF Held
    <3> QED  BY <3>1, Zenon DEF IInv, FullOK
  <2>4. CountOK'
    <3>1. Ahead' = Ahead /\ Announced = 1 /\ Announced' = 0 /\ Owed = 1 /\ Owed' = 1
      BY <2>1, Zenon DEF Ahead, Owed, Announced
    <3>2. Within(count, 1, Ahead + 1)
      BY <3>1, Zenon DEF IInv, CountOK
    <3>3. Within(count, 0, Ahead + 1)
      BY <3>2, WithinMore
    <3> QED  BY <2>1, <3>1, <3>2, <3>3, Zenon DEF CountOK
  <2>5. CharOK'
    BY <2>1, Zenon DEF IInv, CharOK
  <2> QED  BY <2>1, <2>2, <2>3, <2>4, <2>5, ReaderKeeps, Zenon
<1>2. CASE StoreCount
  <2>1. Delim(c) /\ ~ More /\ pc = "store"
    BY <1>2, Zenon DEF IInv, CharOK, More, StoreCount, Deliver, Step
  <2>2. /\ UNCHANGED <<start, end, full, backspace, buf, size, c, tmp, typed, read, keys>>
        /\ pc' = "user" /\ burst' = 0 /\ count' = (tmp + CharMod - 1) % CharMod
        /\ got' = Append(got, c) /\ irq' = TRUE
    BY <1>2, <2>1, Zenon DEF StoreCount, Deliver, Step, term
  <2>3. TypeOK'
    <3>1. {got, typed, read}' \subseteq Seq(Char)
      BY <2>2
    <3>2. burst' \in 0..MaxKeys
      BY <2>2
    <3>3. count' \in 0..(CharMod - 1)
      <4>1. tmp \in 0..(CharMod - 1)
        BY Zenon DEF IInv, TypeOK
      <4> QED  BY <2>2, <4>1
    <3> QED  BY <2>2, <3>1, <3>2, <3>3, Zenon DEF IInv, TypeOK
  <2>4. FullOK'
    <3>1. Held' = Held /\ pc # "unfull" /\ pc' # "unfull" /\ full' = full
      BY <2>1, <2>2, Zenon DEF Held
    <3> QED  BY <3>1, Zenon DEF IInv, FullOK
  <2>5. CountOK'
    <3>1. Ahead' = Ahead /\ Announced' = 0 /\ Owed' = 0 /\ pc' # "store"
      BY <2>2, Zenon DEF Ahead, Owed, Announced
    <3>2. Within(tmp, 1, Ahead + 1)
      BY <2>1, Zenon DEF IInv, CountOK
    <3>3. Within((tmp + CharMod - 1) % CharMod, 0, Ahead + 1 - 1)
      BY <3>2, WithinDown
    <3>4. Ahead + 1 - 1 = Ahead + 0
      OBVIOUS
    <3> QED  BY <2>2, <3>1, <3>3, <3>4, Zenon DEF CountOK
  <2>6. CharOK'
    BY <2>2, Zenon DEF CharOK
  <2> QED  BY <2>2, <2>3, <2>4, <2>5, <2>6, ReaderKeeps, Zenon
<1> QED  BY <1>1, <1>2, Zenon

\* Keys and every statement of the reader keep the invariant
LEMMA InvNext ==
  ASSUME OneKey, IInv, [Next]_vars
  PROVE  IInv'
<1>1. CASE Key
  BY <1>1, KeyStep, Zenon
<1>2. CASE NoLine \/ Wake \/ Line \/ \E s \in ReadSizes : SysRead(s)
  BY <1>2, TestSteps, Zenon
<1>3. CASE PopChar
  BY <1>3, PopCharStep, Zenon
<1>4. CASE PopAdvance
  BY <1>4, PopAdvanceStep, Zenon
<1>5. CASE PopUnfull \/ PopUnfullDelim
  BY <1>5, PopUnfullStep, Zenon
<1>6. CASE LoadCount \/ StoreCount
  BY <1>6, CountSteps, Zenon
<1>7. CASE UNCHANGED vars
  <2>1. /\ UNCHANGED <<start, end, full, backspace, buf, count, typed, read>>
        /\ UNCHANGED <<pc, size, got, c, tmp, irq, keys, burst>>
    BY <1>7, Zenon DEF vars, term, reader
  <2>2. TypeOK'
    BY <2>1, Zenon DEF IInv, TypeOK
  <2>3. Ring(start, end, buf, typed, read)' /\ InLine(typed, read, backspace)'
    BY <2>1, Zenon DEF IInv, Ring, InLine
  <2>4. FullOK' /\ CharOK'
    BY <2>1, Zenon DEF IInv, FullOK, CharOK, Held
  <2>5. CountOK'
    BY <2>1, Zenon DEF IInv, CountOK, Within, Owed, Announced, Ahead, Delims
  <2>6. (Len(typed) <= keys /\ burst <= keys)'
    BY <2>1, Zenon DEF IInv
  <2> QED  BY <2>2, <2>3, <2>4, <2>5, <2>6, Zenon DEF IInv
<1> QED  BY <1>1, <1>2, <1>3, <1>4, <1>5, <1>6, <1>7, Zenon DEF Next, Reader

-----------------------------------------------------------------------------
(* The screen adds nothing to the steps of the terminal *)

\* A step of the terminal with its screen is a step of the terminal
LEMMA ScreenSteps == [ScreenNext]_screenVars => [Next]_vars
<1> SUFFICES ASSUME [ScreenNext]_screenVars PROVE [Next]_vars
  BY Zenon
<1>1. CASE ScreenKey
  BY <1>1, Zenon DEF ScreenKey, Next
<1>2. CASE ScreenReader
  BY <1>2, Zenon DEF ScreenReader, Next
<1>3. ASSUME TabLoop \/ \E a \in OutChar : Write(a) PROVE UNCHANGED vars
  BY <1>3, Zenon DEF Write, TabLoop
<1>4. CASE UNCHANGED screenVars
  BY <1>4, Zenon DEF screenVars
<1> QED  BY <1>1, <1>2, <1>3, <1>4, Zenon DEF ScreenNext

\* The invariant of the terminal below its screen: what the ring holds, what full and
\* count stand for, and what backspace may erase, with the keyboard interrupt between
\* any two statements of term_pop
THEOREM TerminalInvariant ==
  ASSUME OneKey
  PROVE  ScreenSpec => []IInv
<1>1. ScreenInit => IInv
  BY InvInit, Zenon DEF ScreenInit
<1>2. IInv /\ [ScreenNext]_screenVars => IInv'
  BY InvNext, ScreenSteps, Zenon
<1> QED  BY <1>1, <1>2, PTL DEF ScreenSpec

\* What the invariant says about the ring is that no character is lost
LEMMA InvLost == IInv => NothingLost
<1> SUFFICES ASSUME IInv, pc # "unfull" PROVE read \o Window = typed
  BY Zenon DEF NothingLost
<1>1. full = (Len(typed) - Len(read) = Size)
  BY Zenon DEF IInv, FullOK, Held
<1>2. Ring(start, end, buf, typed, read)
  BY Zenon DEF IInv
<1> QED  BY <1>1, <1>2, WindowHolds, Zenon

\* No character is lost, repeated or reordered: what term_pop has given the reader and
\* what the ring holds is what was typed and not erased, for a ring of any size and keys
\* that arrive inside term_pop
THEOREM NothingIsLost ==
  ASSUME OneKey
  PROVE  ScreenSpec => []NothingLost
<1>1. ScreenSpec => []IInv
  BY TerminalInvariant, Zenon
<1> QED  BY <1>1, InvLost, PTL

\* What it says about the line is that a backspace erases in it only
LEMMA InvErase == IInv => EraseInLine
<1> SUFFICES ASSUME IInv PROVE EraseInLine
  BY Zenon
<1>0. Typed
  BY Facts, Zenon
<1>1. backspace = Cardinality(Partial)
  BY <1>0, PartialIsLine, Zenon DEF Typed, IInv
<1>2. Ring(start, end, buf, typed, read) /\ backspace <= Held
  BY DEF IInv, InLine, Held
<1>3. CASE full = (Held = Size)
  <2>1. Len(Window) = Held
    BY <1>2, <1>3, WindowHolds, Zenon DEF Held
  <2> QED  BY <1>1, <1>2, <2>1, Zenon DEF EraseInLine
<1>4. CASE full # (Held = Size)
  <2>1. pc = "unfull"
    BY <1>4, Zenon DEF IInv, FullOK
  <2>2. full \in BOOLEAN
    BY Zenon DEF IInv, TypeOK
  <2>3. full
    <3>1. ~ full => Held # Size
      BY <1>0, <2>1 DEF IInv, FullOK, Typed
    <3> QED  BY <1>4, <2>2, <3>1, Zenon
  <2>4. Len(Window) = Size
    <3>1. Size \in Nat
      BY TerminalAssumption, Zenon
    <3>2. Window = [i \in 1..Size |-> buf[(start + i - 1) % Size]]
      BY <2>3, Zenon DEF Window
    <3> QED  BY <3>1, <3>2
  <2> QED  BY <1>0, <1>1, <1>2, <2>4 DEF EraseInLine, Typed
<1> QED  BY <1>3, <1>4, Zenon

\* Backspace erases the line being typed and nothing else, never a character that
\* term_pop may already have taken
THEOREM ErasesInLine ==
  ASSUME OneKey
  PROVE  ScreenSpec => []EraseInLine
<1>1. ScreenSpec => []IInv
  BY TerminalInvariant, Zenon
<1> QED  BY <1>1, InvErase, PTL

\* a read that goes on has not more than it asked for
GotFits == pc # "user" => Len(got) <= size

\* term_read tests count before it pops the next character
LEMMA GotFitsNext ==
  ASSUME IInv, GotFits, [Next]_vars
  PROVE  GotFits'
<1> SUFFICES ASSUME pc' # "user" PROVE Len(got') <= size'
  BY Zenon DEF GotFits
<1>1. ASSUME pc # "user", got' = got, size' = size PROVE Len(got') <= size'
  BY <1>1, Zenon DEF GotFits
<1>2. CASE Key \/ UNCHANGED vars
  BY <1>1, <1>2, Zenon DEF Key, vars, reader
<1>3. ASSUME NEW s \in ReadSizes, SysRead(s) PROVE Len(got') <= size'
  <2>1. got' = <<>> /\ size' = s /\ s \in Nat
    BY <1>3, TerminalAssumption, Zenon DEF SysRead
  <2> QED  BY <2>1
<1>4. CASE NoLine \/ Wake \/ Line \/ PopChar \/ PopAdvance
  BY <1>1, <1>4, Zenon DEF NoLine, Wake, Line, PopChar, PopAdvance, Step
<1>5. CASE PopUnfullDelim \/ LoadCount
  BY <1>1, <1>5, Zenon DEF PopUnfullDelim, LoadCount, Step
<1>6. CASE PopUnfull \/ StoreCount
  <2>1. got' = Append(got, c) /\ size' = size /\ More
    BY <1>6, Zenon DEF PopUnfull, StoreCount, Deliver, Step
  <2>2. Len(got) + 1 <= size
    BY <2>1, Zenon DEF More
  <2>3. got \in Seq(Char) /\ c \in Char
    BY Facts, Zenon DEF Typed
  <2>4. Len(Append(got, c)) = Len(got) + 1
    BY <2>3
  <2> QED  BY <2>1, <2>2, <2>4, Zenon
<1> QED  BY <1>2, <1>3, <1>4, <1>5, <1>6, Zenon DEF Next, Reader

\* A read ends behind a newline, or with a full buffer
LEMMA LineStep ==
  ASSUME IInv, GotFits, [Next]_vars, pc # "user", pc' = "user"
  PROVE  /\ Len(got') <= size + 1
         /\ Len(got') >= size \/ (got' # <<>> /\ Delim(got'[Len(got')]))
<1>0. Typed
  BY Facts, Zenon
<1>1. ~ PopChar
  <2> SUFFICES ASSUME PopChar PROVE FALSE
    BY Zenon
  <2>1. pc = "pop" /\ ~ Empty
    BY PopFinds, Zenon DEF PopChar, Step
  <2> QED  BY <2>1, Zenon DEF PopChar, Step
<1>2. PopUnfull \/ StoreCount
  <2>1. pc' # pc
    BY Zenon
  <2>2. ~ UNCHANGED vars
    BY <2>1, Zenon DEF vars, reader
  <2>3. ~ Key
    BY <2>1, Zenon DEF Key, reader
  <2>4. \A s \in ReadSizes : ~ SysRead(s)
    BY Zenon DEF SysRead, Step
  <2>5. ~ NoLine /\ ~ Wake /\ ~ Line /\ ~ PopAdvance /\ ~ PopUnfullDelim /\ ~ LoadCount
    BY Zenon DEF NoLine, Wake, Line, PopAdvance, PopUnfullDelim, LoadCount, Step
  <2> QED  BY <1>1, <2>2, <2>3, <2>4, <2>5, Zenon DEF Next, Reader
<1>3. got' = Append(got, c) /\ ~ More
  BY <1>2, Zenon DEF PopUnfull, StoreCount, Deliver, Step
<1>4. Len(got') = Len(got) + 1 /\ got'[Len(got')] = c /\ got' # <<>> /\ Len(got) \in Nat
  <2>1. got \in Seq(Char) /\ c \in Char
    BY <1>0, Zenon DEF Typed
  <2>2. /\ Len(Append(got, c)) = Len(got) + 1 /\ Append(got, c)[Len(got) + 1] = c /\ Append(got, c) # <<>>
        /\ Len(got) \in Nat
    BY <2>1
  <2> QED  BY <1>3, <2>2, Zenon
<1>5. size \in Nat
  BY TerminalAssumption DEF IInv, TypeOK
<1>6. Len(got') <= size + 1
  <2>1. Len(got) <= size
    BY Zenon DEF GotFits
  <2> QED  BY <1>4, <1>5, <2>1
<1>7. CASE Delim(c)
  BY <1>4, <1>6, <1>7, Zenon
<1>8. CASE ~ Delim(c)
  <2>1. ~ (Len(got) + 1 <= size)
    BY <1>3, <1>8, Zenon DEF More
  <2>2. Len(got') >= size
    BY <1>4, <1>5, <2>1
  <2> QED  BY <1>6, <2>2, Zenon
<1> QED  BY <1>7, <1>8, Zenon

\* A read that returns has a whole line or has filled its buffer, and has at most one
\* character more than it asked for: a line that is still being typed is never handed out
\* in part
THEOREM ReadsWholeLines ==
  ASSUME OneKey
  PROVE  ScreenSpec => WholeLines
<1>1. IInv /\ GotFits /\ [ScreenNext]_screenVars =>
        [pc # "user" /\ pc' = "user" =>
           /\ Len(got') <= size + 1
           /\ Len(got') >= size \/ (got' # <<>> /\ Delim(got'[Len(got')]))]_vars
  BY LineStep, ScreenSteps, Zenon
<1>2. ScreenSpec => []IInv
  BY TerminalInvariant, Zenon
<1>3. ScreenInit => GotFits
  BY Zenon DEF ScreenInit, Init, GotFits
<1>4. IInv /\ GotFits /\ [ScreenNext]_screenVars => GotFits'
  BY GotFitsNext, ScreenSteps, Zenon
<1> QED  BY <1>1, <1>2, <1>3, <1>4, PTL DEF ScreenSpec, WholeLines

-----------------------------------------------------------------------------
(* The cursor *)

\* In a state of the invariant the visible characters of the line fit in the ring
LEMMA VisibleFits ==
  ASSUME IInv
  PROVE  /\ IsFiniteSet(Visible(typed, backspace)) /\ Cardinality(Visible(typed, backspace)) \in Nat
         /\ Cardinality(Visible(typed, backspace)) <= Size
<1>1. /\ typed \in Seq(Char) /\ read \in Seq(Char) /\ InLine(typed, read, backspace)
      /\ Len(typed) - Len(read) <= Size
  BY TerminalAssumption DEF IInv, Ring
<1> QED  BY <1>1, LineFits, Zenon

\* The screen is as wide and as high as it is, and as long as the cursor has not gone
\* back without the line, it has the printed part of the line before it
ScreenInv ==
  /\ IInv
  /\ scr \in Screens /\ scr.y < Height
  /\ outs \in 0..MaxOut /\ tabbing \in BOOLEAN /\ mixed \in BOOLEAN /\ astray \in BOOLEAN
  /\ ~ astray => At(scr) >= Cardinality(Visible(typed, backspace))

\* The invariant of the cursor holds of a cleared screen
LEMMA ScreenInvInit == ScreenInit => ScreenInv
<1> SUFFICES ASSUME ScreenInit PROVE ScreenInv
  BY Zenon
<1>1. IInv
  BY InvInit, Zenon DEF ScreenInit
<1>2. Width \in Nat \ {0} /\ Height \in Nat \ {0} /\ MaxOut \in Nat
  BY ScreenAssumption, Zenon
<1>3. scr \in Screens /\ scr.x = 0 /\ scr.y = 0
  BY <1>2 DEF ScreenInit, Screens, Glyphs
<1>4. At(scr) = 0
  BY <1>2, <1>3 DEF At
<1>5. Visible(typed, backspace) = {}
  <2>1. Len(typed) = 0
    BY Zenon DEF ScreenInit, Init
  <2> QED  BY <2>1 DEF Visible
<1>6. Cardinality(Visible(typed, backspace)) = 0
  BY <1>5, FS_EmptySet, Zenon
<1>7. 0 < Height /\ 0 >= 0 /\ 0 \in 0..MaxOut
  BY <1>2
<1>8. outs = 0 /\ tabbing = FALSE /\ mixed = FALSE /\ astray = FALSE
  BY Zenon DEF ScreenInit
<1> QED  BY <1>1, <1>3, <1>4, <1>6, <1>7, <1>8, Zenon DEF ScreenInv

\* a line on which nothing was typed has nothing to be seen
LEMMA VisibleNone ==
  ASSUME IInv, backspace = 0
  PROVE  Cardinality(Visible(typed, backspace)) = 0
<1>1. Len(typed) \in Nat
  BY Facts, Zenon DEF Typed
<1>2. Visible(typed, backspace) = {}
  BY <1>1 DEF Visible
<1> QED  BY <1>2, FS_EmptySet, Zenon

\* what kputchar does with a character that takes the cursor forward
LEMMA Puts ==
  ASSUME ScreenInv, NEW a \in Forward, scr' = kputchar(scr, a)
  PROVE  /\ scr' \in Screens /\ scr'.y < Height
         /\ At(scr') \in Int /\ At(scr) \in Int
         /\ At(scr') >= At(scr) + 1 \/ At(scr') >= Size
         /\ ~ astray => At(scr') >= Cardinality(Visible(typed, backspace)) + 1 \/ At(scr') >= Size
<1>1. scr \in Screens /\ IInv
  BY Zenon DEF ScreenInv
<1>2. /\ kputchar(scr, a) \in Screens /\ kputchar(scr, a).y < Height
      /\ At(kputchar(scr, a)) >= At(scr) + 1 \/ At(kputchar(scr, a)) >= Size
  BY <1>1, PutForward, Zenon
<1>3. /\ scr' \in Screens /\ scr'.y < Height
      /\ At(scr') >= At(scr) + 1 \/ At(scr') >= Size
  BY <1>2, Zenon
<1>4. At(scr') \in Int /\ At(scr) \in Int
  BY <1>1, <1>3, CellOfRow, Zenon
<1>5. Cardinality(Visible(typed, backspace)) \in Nat
  BY <1>1, VisibleFits, Zenon
<1>6. ~ astray => At(scr) >= Cardinality(Visible(typed, backspace))
  BY Zenon DEF ScreenInv
<1> DEFINE n == Cardinality(Visible(typed, backspace))
<1>7. n \in Nat /\ (~ astray => At(scr) >= n)
  BY <1>5, <1>6, Zenon
<1> HIDE DEF n
<1>8. ~ astray => At(scr') >= n + 1 \/ At(scr') >= Size
  BY <1>3, <1>4, <1>7
<1> QED  BY <1>3, <1>4, <1>8, Zenon DEF n

\* a character that takes the cursor forward keeps it behind the line
LEMMA ForwardStep ==
  ASSUME ScreenInv, NEW a \in Forward, scr' = kputchar(scr, a), UNCHANGED vars
  PROVE  /\ scr' \in Screens /\ scr'.y < Height
         /\ ~ astray => At(scr') >= Cardinality(Visible(typed', backspace'))
<1>0. IInv
  BY Zenon DEF ScreenInv
<1>1. /\ scr' \in Screens /\ scr'.y < Height /\ At(scr') \in Int
      /\ ~ astray => At(scr') >= Cardinality(Visible(typed, backspace)) + 1 \/ At(scr') >= Size
  BY Puts, Zenon
<1>2. typed' = typed /\ backspace' = backspace
  BY Zenon DEF vars, term
<1> DEFINE n == Cardinality(Visible(typed, backspace))
<1>3. n \in Nat /\ n <= Size /\ Size \in Nat
  BY <1>0, VisibleFits, TerminalAssumption, Zenon
<1>4. ~ astray => At(scr') >= n + 1 \/ At(scr') >= Size
  BY <1>1, Zenon
<1> HIDE DEF n
<1>5. ~ astray => At(scr') >= n
  BY <1>1, <1>3, <1>4
<1> QED  BY <1>1, <1>2, <1>5, Zenon DEF n

\* a carriage return or a backspace of a program, when no line is being typed
LEMMA BackwardStep ==
  ASSUME ScreenInv, NEW a \in {"cr", "bs"}, scr' = kputchar(scr, a), UNCHANGED vars, scr.y >= 0
  PROVE  /\ scr' \in Screens /\ scr'.y < Height
         /\ ~ Strays(a) => At(scr') >= Cardinality(Visible(typed', backspace'))
<1>0. IInv /\ scr \in Screens /\ scr.y < Height
  BY Zenon DEF ScreenInv
<1>1. typed' = typed /\ backspace' = backspace
  BY Zenon DEF vars, term
<1>2. At(scr) \in Int /\ At(scr) >= 0
  BY <1>0, CellOfRow, Zenon
<1>3. scr' \in Screens /\ scr'.y < Height /\ (~ Strays(a) => At(scr') >= 0)
  <2>1. CASE a = "cr"
    <3>1. kputchar(scr, a) \in Screens /\ kputchar(scr, a).y = scr.y
      BY <1>0, <2>1, PutReturn, Zenon
    <3>2. scr' \in Screens /\ scr'.y = scr.y
      BY <3>1, Zenon
    <3>3. At(scr') >= 0
      BY <3>2, CellOfRow, Zenon
    <3> QED  BY <1>0, <3>2, <3>3, Zenon
  <2>2. CASE a = "bs"
    <3>1. /\ kputchar(scr, a) \in Screens /\ kputchar(scr, a).y < Height
          /\ At(kputchar(scr, a)) = At(scr) - 1
      BY <1>0, <2>2, PutBack, Zenon
    <3>2. scr' \in Screens /\ scr'.y < Height /\ At(scr') = At(scr) - 1
      BY <3>1, Zenon
    <3>3. ~ Strays(a) => At(scr) # 0
      BY <2>2, Zenon DEF Strays
    <3>4. At(scr) # 0 => At(scr') >= 0
      BY <1>2, <3>2
    <3> QED  BY <3>2, <3>3, <3>4, Zenon
  <2> QED  BY <2>1, <2>2, Zenon
<1>4. ASSUME ~ Strays(a) PROVE Cardinality(Visible(typed', backspace')) = 0
  <2>1. ~ (backspace > 0)
    BY <1>4, Zenon DEF Strays
  <2>2. backspace \in Nat
    BY <1>0, TerminalAssumption DEF IInv, TypeOK
  <2>3. backspace = 0
    BY <2>1, <2>2
  <2> QED  BY <1>0, <1>1, <2>3, VisibleNone, Zenon
<1> QED  BY <1>3, <1>4, Zenon

\* output of a program
LEMMA WriteStep ==
  ASSUME OneKey, ScreenInv, NEW a \in OutChar, Write(a)
  PROVE  ScreenInv'
<1>0. IInv /\ astray \in BOOLEAN
  BY Zenon DEF ScreenInv
<1>1. /\ scr' = kputchar(scr, a) /\ outs < MaxOut /\ outs' = outs + 1 /\ mixed' = (backspace > 0)
      /\ UNCHANGED vars /\ astray' = (astray \/ Strays(a)) /\ tabbing' = (a = "tab") /\ scr.y >= 0
  BY Zenon DEF Write
<1>2. IInv'
  BY <1>0, <1>1, InvNext, Zenon
<1>3. /\ scr' \in Screens /\ scr'.y < Height
      /\ ~ astray' => At(scr') >= Cardinality(Visible(typed', backspace'))
  <2>1. CASE a \in {"o", "nl"}
    <3>1. a \in Forward
      BY <2>1, Zenon DEF Forward, Glyphs
    <3> QED  BY <1>1, <3>1, ForwardStep, Zenon
  <2>2. CASE a \in {"cr", "bs"}
    BY <1>1, <2>2, BackwardStep, Zenon
  <2>3. CASE a = "tab"
    <3>1. scr' = scr
      BY <1>1, <2>3, Zenon DEF kputchar
    <3>2. typed' = typed /\ backspace' = backspace
      BY <1>1, Zenon DEF vars, term
    <3> QED  BY <1>1, <3>1, <3>2, Zenon DEF ScreenInv
  <2> QED  BY <2>1, <2>2, <2>3, Zenon DEF OutChar
<1>4. outs' \in 0..MaxOut
  <2>1. MaxOut \in Nat /\ outs \in 0..MaxOut
    BY ScreenAssumption, Zenon DEF ScreenInv
  <2> QED  BY <1>1, <2>1
<1>5. tabbing' \in BOOLEAN /\ mixed' \in BOOLEAN /\ astray' \in BOOLEAN
  BY <1>1
<1> QED  BY <1>2, <1>3, <1>4, <1>5, Zenon DEF ScreenInv

\* a blank of a tab
LEMMA TabStep ==
  ASSUME OneKey, ScreenInv, TabLoop
  PROVE  ScreenInv'
<1>0. IInv
  BY Zenon DEF ScreenInv
<1>1. /\ scr' = kputchar(scr, Blank) /\ mixed' = (backspace > 0) /\ UNCHANGED vars
      /\ outs' = outs /\ tabbing' = tabbing /\ astray' = astray
  BY Zenon DEF TabLoop
<1>2. IInv'
  BY <1>0, <1>1, InvNext, Zenon
<1>3. Blank \in Forward
  BY Zenon DEF Forward, Glyphs
<1>4. /\ scr' \in Screens /\ scr'.y < Height
      /\ ~ astray => At(scr') >= Cardinality(Visible(typed', backspace'))
  BY <1>1, <1>3, ForwardStep, Zenon
<1>5. mixed' \in BOOLEAN
  BY <1>1
<1> QED  BY <1>1, <1>2, <1>4, <1>5, Zenon DEF ScreenInv

\* the echo of a key that is accepted
LEMMA EchoPush ==
  ASSUME OneKey, ScreenInv, ScreenKey, NEW a \in Char, Push(a), ~ full
  PROVE  ScreenInv'
<1>0. IInv /\ Typed
  BY Facts, Zenon DEF ScreenInv
<1>1. /\ typed' = Append(typed, a) /\ backspace' = IF Delim(a) THEN 0 ELSE backspace + 1
      /\ Len(typed') = Len(typed) + 1 /\ typed'[Len(typed')] = a
  BY <1>0 DEF Push, Typed
<1>6. backspace \in 0..Len(typed)
  BY <1>0 DEF IInv, InLine, Typed
<1>2. /\ scr' = kputchar(scr, a) /\ outs' = outs /\ tabbing' = tabbing /\ mixed' = (mixed /\ backspace' > 0)
      /\ astray' = (astray /\ ~ Delim(a)) /\ scr.y >= 0
  <2>1. Len(typed') > Len(typed) /\ ~ (Len(typed') < Len(typed))
    BY <1>0, <1>1 DEF Typed
  <2>2. scr' = kputchar(scr, a) /\ outs' = outs /\ tabbing' = tabbing /\ mixed' = (mixed /\ backspace' > 0) /\ scr.y >= 0
    BY <1>1, <2>1, Zenon DEF ScreenKey, Echo
  <2>3. backspace + 1 # 0
    BY <1>6
  <2>4. ~ ErasesUnseen
    BY <2>1, Zenon DEF ErasesUnseen
  <2>5. EndsLine <=> Delim(a)
    BY <1>1, <2>1, <2>3, Zenon DEF EndsLine
  <2>6. astray' = ((astray \/ ErasesUnseen) /\ ~ EndsLine)
    BY Zenon DEF ScreenKey
  <2>7. astray \in BOOLEAN
    BY Zenon DEF ScreenInv
  <2>8. astray' = (astray /\ ~ Delim(a))
    BY <2>4, <2>5, <2>6, <2>7, Zenon
  <2> QED  BY <2>2, <2>8, Zenon
<1>3. IInv'
  <2>1. [Next]_vars
    BY Zenon DEF ScreenKey, Next
  <2> QED  BY <1>0, <2>1, InvNext, Zenon
<1> DEFINE n == Cardinality(Visible(typed, backspace))
           m == Cardinality(Visible(typed', backspace'))
<1>4. n \in Nat /\ n <= Size /\ IsFiniteSet(Visible(typed, backspace))
  BY <1>0, VisibleFits, Zenon
<1>5. m \in Nat /\ m <= Size
  <2>1. /\ typed' \in Seq(Char) /\ read' \in Seq(Char) /\ InLine(typed', read', backspace')
        /\ Len(typed') - Len(read') <= Size
    BY <1>3, TerminalAssumption DEF IInv, Ring
  <2> QED  BY <2>1, LineFits, Zenon
<1>7. CASE a = "nul"
  <2>1. scr' = scr /\ ~ Delim(a)
    BY <1>2, <1>7, Zenon DEF kputchar, Delim
  <2>2. Visible(typed', backspace') = Visible(typed, backspace)
    BY <1>0, <1>1, <1>6, <1>7, <2>1, PushVisible DEF Typed
  <2>3. astray' = astray /\ mixed' \in BOOLEAN
    BY <1>2, <2>1, Zenon DEF ScreenInv
  <2> QED  BY <1>2, <1>3, <2>1, <2>2, <2>3, Zenon DEF ScreenInv
<1>8. CASE a # "nul"
  <2>1. a \in Forward
    BY <1>8, Zenon DEF Char, Forward, Glyphs
  <2>2. /\ scr' \in Screens /\ scr'.y < Height /\ At(scr') \in Int /\ At(scr) \in Int
        /\ At(scr') >= At(scr) + 1 \/ At(scr') >= Size
        /\ ~ astray => At(scr') >= n + 1 \/ At(scr') >= Size
    BY <1>2, <2>1, Puts, Zenon
  <2>10. ASSUME Delim(a) PROVE m = 0
    <3>1. Visible(typed', backspace') = {}
      BY <1>0, <1>1, <1>6, <2>10, PushVisible, Zenon DEF Typed
    <3> QED  BY <3>1, FS_EmptySet, Zenon
  <2>3. m <= n + 1
    <3>1. CASE Delim(a)
      BY <1>4, <2>10, <3>1
    <3>2. CASE ~ Delim(a)
      <4>1. Visible(typed', backspace') = Visible(typed, backspace) \cup {Len(typed) + 1}
        BY <1>0, <1>1, <1>6, <1>8, <3>2, PushVisible, Zenon DEF Typed
      <4>2. Len(typed) + 1 \notin Visible(typed, backspace)
        BY <1>0 DEF Visible, Typed
      <4>3. m = n + 1
        BY <1>4, <4>1, <4>2, FS_AddElement, Zenon
      <4> QED  BY <1>4, <4>3
    <3> QED  BY <3>1, <3>2, Zenon
  <2>4. ~ astray' => At(scr') >= m
    <3>1. Size \in Nat
      BY <1>0, Zenon DEF Typed
    <3>2. CASE Delim(a)
      <4>1. At(scr) >= 0
        BY <1>2, CellOfRow, Zenon DEF ScreenInv
      <4>2. At(scr') >= 0
        BY <2>2, <3>1, <4>1
      <4> QED  BY <2>10, <3>2, <4>2, Zenon
    <3>3. CASE ~ Delim(a)
      <4> HIDE DEF n, m
      <4>1. ~ astray => At(scr') >= m
        BY <1>4, <1>5, <2>2, <2>3, <3>1
      <4> QED  BY <1>2, <3>3, <4>1, Zenon
    <3> QED  BY <3>2, <3>3, Zenon
  <2>5. outs' \in 0..MaxOut /\ tabbing' \in BOOLEAN /\ mixed' \in BOOLEAN /\ astray' \in BOOLEAN
    BY <1>2, Zenon DEF ScreenInv
  <2> QED  BY <1>3, <2>2, <2>4, <2>5, Zenon DEF ScreenInv
<1> QED  BY <1>7, <1>8, Zenon

\* the echo of a backspace
LEMMA EchoErase ==
  ASSUME OneKey, ScreenInv, ScreenKey, Erase, backspace > 0
  PROVE  ScreenInv'
<1>0. IInv /\ Typed
  BY Facts, Zenon DEF ScreenInv
<1>1. backspace \in 1..Len(typed) /\ Len(typed) - 1 \in Nat
  BY <1>0 DEF IInv, InLine, Typed
<1>2. typed' = SubSeq(typed, 1, Len(typed) - 1) /\ backspace' = backspace - 1
  BY Zenon DEF Erase
<1>3. Len(typed') = Len(typed) - 1
  <2> DEFINE l == Len(typed) - 1
  <2>1. l \in Nat /\ l <= Len(typed)
    BY <1>0, <1>1 DEF Typed
  <2> HIDE DEF l
  <2>2. Len(SubSeq(typed, 1, l)) = l
    BY <1>0, <2>1 DEF Typed
  <2> QED  BY <1>2, <2>2, Zenon DEF l
<1>4. /\ scr' = kputchar(scr, "bs") /\ outs' = outs /\ tabbing' = tabbing
      /\ mixed' \in BOOLEAN /\ astray' \in BOOLEAN
      /\ ~ astray' => ~ astray /\ typed[Len(typed)] # "nul"
  <2>1. ~ (Len(typed') > Len(typed)) /\ Len(typed') < Len(typed)
    BY <1>0, <1>3 DEF Typed
  <2>2. astray' = (astray \/ typed[Len(typed)] = "nul")
    <3>1. ~ EndsLine /\ (ErasesUnseen <=> typed[Len(typed)] = "nul")
      BY <2>1, Zenon DEF EndsLine, ErasesUnseen
    <3>2. astray' = ((astray \/ ErasesUnseen) /\ ~ EndsLine)
      BY Zenon DEF ScreenKey
    <3> QED  BY <3>1, <3>2, Zenon
  <2>3. scr' = kputchar(scr, "bs") /\ outs' = outs /\ tabbing' = tabbing
    BY <2>1, Zenon DEF ScreenKey, Echo
  <2>4. mixed' \in BOOLEAN
    BY Zenon DEF ScreenKey
  <2> QED  BY <2>2, <2>3, <2>4, Zenon
<1>5. IInv'
  <2>1. [Next]_vars
    BY Zenon DEF ScreenKey, Next
  <2> QED  BY <1>0, <2>1, InvNext, Zenon
<1>6. scr' \in Screens /\ scr'.y < Height /\ At(scr') = At(scr) - 1
  <2>1. scr \in Screens /\ scr.y < Height
    BY Zenon DEF ScreenInv
  <2>2. /\ kputchar(scr, "bs") \in Screens /\ kputchar(scr, "bs").y < Height
        /\ At(kputchar(scr, "bs")) = At(scr) - 1
    BY <2>1, PutBack, Zenon
  <2> QED  BY <1>4, <2>2, Zenon
<1>7. ASSUME ~ astray'
      PROVE  At(scr') >= Cardinality(Visible(typed', backspace'))
  <2> DEFINE V == Visible(typed, backspace)
             n == Cardinality(V)
             l == Len(typed)
  <2>1. ~ astray /\ typed[l] # "nul"
    BY <1>4, <1>7, Zenon
  <2>2. Visible(typed', backspace') = V \ {l} /\ l \in V
    BY <1>0, <1>1, <1>2, <2>1, EraseVisible, Zenon DEF Typed
  <2>3. IsFiniteSet(V) /\ n \in Nat
    BY <1>0, VisibleFits, Zenon
  <2>4. At(scr) >= n
    BY <2>1, Zenon DEF ScreenInv
  <2> HIDE DEF V, l
  <2>5. Cardinality(V \ {l}) = n - 1
    BY <2>2, <2>3, FS_RemoveElement, Zenon
  <2>6. At(scr) \in Int
    <3>1. scr.x \in Int /\ scr.y \in Int /\ Width \in Int
      BY ScreenAssumption DEF ScreenInv, Screens
    <3>2. scr.y * Width \in Int
      BY <3>1
    <3> QED  BY <3>1, <3>2 DEF At
  <2> HIDE DEF n
  <2>7. At(scr) - 1 >= n - 1
    BY <2>3, <2>4, <2>6
  <2> QED  BY <1>6, <2>2, <2>5, <2>7, Zenon
<1>8. outs' \in 0..MaxOut /\ tabbing' \in BOOLEAN
  BY <1>4, Zenon DEF ScreenInv
<1> QED  BY <1>4, <1>5, <1>6, <1>7, <1>8, Zenon DEF ScreenInv

\* A key and its echo keep the invariant of the cursor
LEMMA ScreenKeyStep ==
  ASSUME OneKey, ScreenInv, ScreenKey
  PROVE  ScreenInv'
<1>1. Key /\ IInv
  BY Zenon DEF ScreenKey, ScreenInv
<1>2. ASSUME UNCHANGED <<term, count, typed>> PROVE ScreenInv'
  <2>1. IInv'
    BY <1>1, <1>2, KeyRefused, Zenon
  <2>2. typed' = typed /\ backspace' = backspace
    BY <1>2, Zenon DEF term
  <2>3. Len(typed) \in Nat
    BY <1>1, Facts, Zenon DEF Typed
  <2>4. ~ (Len(typed') > Len(typed)) /\ ~ (Len(typed') < Len(typed))
    BY <2>2, <2>3
  <2>5. scr' = scr /\ outs' = outs /\ tabbing' = tabbing
    BY <2>4, Zenon DEF ScreenKey, Echo
  <2>6. astray' = (astray \/ FALSE) /\ mixed' \in BOOLEAN
    <3>1. ~ EndsLine /\ ~ ErasesUnseen
      BY <2>4, Zenon DEF EndsLine, ErasesUnseen
    <3> QED  BY <3>1, Zenon DEF ScreenKey
  <2> QED  BY <2>1, <2>2, <2>5, <2>6, Zenon DEF ScreenInv
<1>3. CASE Erase
  <2>1. CASE backspace > 0
    BY <1>3, <2>1, EchoErase, Zenon
  <2>2. CASE ~ (backspace > 0)
    BY <1>2, <1>3, <2>2, Zenon DEF Erase
  <2> QED  BY <2>1, <2>2, Zenon
<1>4. ASSUME NEW a \in Char, Push(a)
      PROVE  ScreenInv'
  <2>1. CASE full
    BY <1>2, <1>4, <2>1, Zenon DEF Push
  <2>2. CASE ~ full
    BY <1>4, <2>2, EchoPush, Zenon
  <2> QED  BY <2>1, <2>2, Zenon
<1> QED  BY <1>1, <1>3, <1>4, Zenon DEF Key

\* The reader does not touch the screen
LEMMA ReaderLeavesScreen ==
  ASSUME IInv, Reader \/ \E s \in ReadSizes : SysRead(s)
  PROVE  typed' = typed /\ backspace' = backspace
<1>1. CASE \E s \in ReadSizes : SysRead(s)
  BY <1>1, Zenon DEF SysRead, term
<1>2. CASE NoLine \/ Wake \/ Line \/ PopChar
  BY <1>2, Zenon DEF NoLine, Wake, Line, PopChar, term
<1>3. CASE PopAdvance \/ PopUnfull \/ PopUnfullDelim
  BY <1>3, Zenon DEF PopAdvance, PopUnfull, PopUnfullDelim
<1>4. CASE LoadCount \/ StoreCount
  BY <1>4, Zenon DEF LoadCount, StoreCount, term
<1> QED  BY <1>1, <1>2, <1>3, <1>4, Zenon DEF Reader

\* Keys, the reader and program output keep the invariant of the cursor
LEMMA ScreenInvNext ==
  ASSUME OneKey, ScreenInv, [ScreenNext]_screenVars
  PROVE  ScreenInv'
<1>1. IInv /\ IInv'
  <2>1. IInv
    BY Zenon DEF ScreenInv
  <2> QED  BY <2>1, ScreenSteps, InvNext, Zenon
<1>2. CASE ScreenKey
  BY <1>2, ScreenKeyStep, Zenon
<1>3. CASE ScreenReader
  <2>1. typed' = typed /\ backspace' = backspace
    BY <1>1, <1>3, ReaderLeavesScreen, Zenon DEF ScreenReader
  <2>2. scr' = scr /\ outs' = outs /\ tabbing' = tabbing /\ mixed' = mixed /\ astray' = astray
    BY <1>3, Zenon DEF ScreenReader
  <2> QED  BY <1>1, <2>1, <2>2, Zenon DEF ScreenInv
<1>4. ASSUME NEW a \in OutChar, Write(a) PROVE ScreenInv'
  BY <1>4, WriteStep, Zenon
<1>6. CASE TabLoop
  BY <1>6, TabStep, Zenon
<1>5. CASE UNCHANGED screenVars
  <2>1. /\ typed' = typed /\ backspace' = backspace
        /\ scr' = scr /\ outs' = outs /\ tabbing' = tabbing /\ mixed' = mixed /\ astray' = astray
    BY <1>5, Zenon DEF screenVars, vars, term
  <2> QED  BY <1>1, <2>1, Zenon DEF ScreenInv
<1> QED  BY <1>2, <1>3, <1>4, <1>5, <1>6, Zenon DEF ScreenNext

\* The invariant of the cursor always holds
LEMMA ScreenInvariant ==
  ASSUME OneKey
  PROVE  ScreenSpec => []ScreenInv
<1>1. ScreenInv /\ [ScreenNext]_screenVars => ScreenInv'
  BY ScreenInvNext, Zenon
<1> QED  BY <1>1, ScreenInvInit, PTL DEF ScreenSpec

\* Every variable of the terminal and of its screen stays in its range: the indices in
\* the ring, count in a char, the column on the screen
THEOREM ScreenTyped ==
  ASSUME OneKey
  PROVE  ScreenSpec => []ScreenTypeOK
<1>1. ScreenInv => ScreenTypeOK
  <2> SUFFICES ASSUME ScreenInv PROVE ScreenTypeOK
    BY Zenon
  <2>1. TypeOK
    BY Zenon DEF ScreenInv, IInv
  <2>2. /\ scr.x \in 0..(Width - 1) /\ scr.y \in Int
        /\ scr.arr \in [Cells -> {Blank, "a", "b", "o"}]
    BY Zenon DEF ScreenInv, Screens, Glyphs
  <2>3. outs \in 0..MaxOut /\ {tabbing, mixed, astray} \subseteq BOOLEAN
    BY Zenon DEF ScreenInv
  <2> QED  BY <2>1, <2>2, <2>3, Zenon DEF ScreenTypeOK
<1>2. ScreenSpec => []ScreenInv
  BY ScreenInvariant, Zenon
<1> QED  BY <1>1, <1>2, PTL

\* kputchar never stores outside of the screen: however output, control characters,
\* wrapping and scrolling have moved the line being typed, the backspace key does not take
\* the cursor above the first row, as long as everything it erased had been printed and no
\* program has itself taken the cursor back over the line or above the first row
THEOREM CursorStays ==
  ASSUME OneKey
  PROVE  ScreenSpec => []CursorOnScreen
<1>1. ScreenInv => CursorOnScreen
  <2> SUFFICES ASSUME ScreenInv, ~ astray PROVE scr.y \in 0..(Height - 1)
    BY Zenon DEF CursorOnScreen
  <2>1. scr \in Screens /\ scr.y < Height /\ At(scr) >= Cardinality(Visible(typed, backspace))
    BY Zenon DEF ScreenInv
  <2>2. Cardinality(Visible(typed, backspace)) \in Nat
    BY VisibleFits, Zenon DEF ScreenInv
  <2>3. scr.x \in Int /\ scr.y \in Int /\ Width \in Int /\ Height \in Int
    BY <2>1, ScreenAssumption DEF Screens
  <2>4. At(scr) \in Int
    <3>1. scr.y * Width \in Int
      BY <2>3
    <3> QED  BY <2>3, <3>1 DEF At
  <2>5. At(scr) >= 0
    BY <2>1, <2>2, <2>4
  <2>6. scr.y >= 0
    BY <2>1, <2>5, RowOfCell, Zenon
  <2> QED  BY <2>1, <2>3, <2>6
<1>2. ScreenSpec => []ScreenInv
  BY ScreenInvariant, Zenon
<1> QED  BY <1>1, <1>2, PTL

-----------------------------------------------------------------------------
(* The echo *)

\* the n characters at the end of t stand before the cursor of s
Echoed(s, t, n) ==
  \A k \in Visible(t, n) : s.arr[At(s) - Cardinality(Visible(t, Len(t) - k + 1))] = t[k]

\* the number of characters seen from one on
LEMMA SeenFrom ==
  ASSUME NEW t \in Seq(Char), NEW n \in 0..Len(t), NEW k \in Visible(t, n),
         IsFiniteSet(Visible(t, n))
  PROVE  /\ k \in 1..Len(t) /\ Len(t) - k + 1 \in 1..Len(t) /\ k \in Visible(t, Len(t) - k + 1)
         /\ IsFiniteSet(Visible(t, Len(t) - k + 1))
         /\ Cardinality(Visible(t, Len(t) - k + 1)) \in Nat /\ Cardinality(Visible(t, Len(t) - k + 1)) >= 1
         /\ Cardinality(Visible(t, Len(t) - k + 1)) <= Cardinality(Visible(t, n))
<1> DEFINE m == Len(t) - k + 1
           V == Visible(t, m)
<1>1. k \in 1..Len(t) /\ m \in 1..Len(t) /\ m <= n /\ k \in V
  BY DEF Visible
<1>2. V \subseteq Visible(t, n)
  BY <1>1 DEF Visible
<1> HIDE DEF m, V
<1>3. IsFiniteSet(V) /\ Cardinality(V) <= Cardinality(Visible(t, n))
  BY <1>2, FS_Subset, Zenon
<1>4. Cardinality(V) \in Nat /\ Cardinality(V) # 0
  BY <1>1, <1>3, FS_CardinalityType, FS_EmptySet, Zenon
<1>5. Cardinality(V) >= 1
  BY <1>4
<1> QED  BY <1>1, <1>3, <1>4, <1>5, Zenon DEF m, V

\* a line on which nothing was typed
LEMMA EchoedNone == ASSUME NEW s, NEW t \in Seq(Char) PROVE Echoed(s, t, 0)
  BY DEF Echoed, Visible

\* a character that is not printed
LEMMA EchoedNul ==
  ASSUME NEW s, NEW t \in Seq(Char), NEW n \in 0..Len(t), Echoed(s, t, n)
  PROVE  Echoed(s, Append(t, "nul"), n + 1)
<1> DEFINE t2 == Append(t, "nul")
<1> SUFFICES ASSUME NEW k \in Visible(t2, n + 1)
             PROVE  s.arr[At(s) - Cardinality(Visible(t2, Len(t2) - k + 1))] = t2[k]
  BY Zenon DEF Echoed
<1>1. "nul" \in Char
  BY Zenon DEF Char
<1>2. Visible(t2, n + 1) = Visible(t, n)
  BY <1>1, PushVisible
<1>3. k \in 1..Len(t) /\ Len(t) - k + 1 \in 0..Len(t) /\ Len(t2) - k + 1 = (Len(t) - k + 1) + 1 /\ t2[k] = t[k]
  BY <1>2 DEF Visible
<1>4. Visible(t2, Len(t2) - k + 1) = Visible(t, Len(t) - k + 1)
  BY <1>1, <1>3, PushVisible
<1> QED  BY <1>2, <1>3, <1>4, Zenon DEF Echoed

\* a character that is printed
LEMMA EchoedPush ==
  ASSUME NEW s \in Screens, s.y < Height, NEW t \in Seq(Char), NEW n \in 0..Len(t), Echoed(s, t, n),
         NEW a \in {"a", "b"}, IsFiniteSet(Visible(t, n)),
         At(s) >= Cardinality(Visible(t, n)), Cardinality(Visible(t, n)) + 1 <= Size
  PROVE  Echoed(kputchar(s, a), Append(t, a), n + 1)
<1> DEFINE t2 == Append(t, a)
           q == kputchar(s, a)
           h == Cardinality(Visible(t, n))
           l == Len(t)
<1> SUFFICES ASSUME NEW k \in Visible(t2, n + 1)
             PROVE  q.arr[At(q) - Cardinality(Visible(t2, Len(t2) - k + 1))] = t2[k]
  BY Zenon DEF Echoed
<1>1. a \in Char /\ a # "nul" /\ a \in Forward
  BY Zenon DEF Char, Forward, Glyphs
<1>2. Visible(t2, n + 1) = Visible(t, n) \cup {l + 1}
  BY <1>1, PushVisible
<1>3. l \in Nat /\ Len(t2) = l + 1 /\ t2[l + 1] = a /\ \A i \in 1..l : t2[i] = t[i]
  OBVIOUS
<1>4. h \in Nat /\ Size \in Nat /\ At(s) \in Int /\ Width \in Nat
  <2>1. s.x \in Int /\ s.y \in Int /\ Width \in Nat /\ Size \in Nat
    BY ScreenAssumption, TerminalAssumption DEF Screens
  <2>2. s.y * Width \in Int
    BY <2>1
  <2> QED  BY <2>1, <2>2, FS_CardinalityType DEF At
<1>5. At(q) >= At(s) + 1 \/ At(q) >= Size
  BY <1>1, PutForward, Zenon
<1>6. PICK z \in {0, Width} :
        /\ At(q) = At(s) + 1 - z
        /\ \A j \in 0..At(s) : j - z >= 0 => q.arr[j - z] = IF j = At(s) THEN a ELSE s.arr[j]
  <2>1. s \in Screens /\ s.y < Height /\ a \in {"a", "b"} /\ At(s) >= 0
    BY <1>4
  <2> QED  BY ONLY <2>1, PutShows, Zenon
<1>7. z \in Nat /\ At(q) \in Int /\ At(q) >= h + 1 /\ At(q) = At(s) + 1 - z
  <2>1. At(s) >= h /\ h + 1 <= Size
    BY Zenon
  <2>2. At(q) = At(s) + 1 - z /\ z \in {0, Width}
    BY <1>6, Zenon
  <2> HIDE DEF h, q
  <2> QED  BY ONLY <1>4, <1>5, <2>1, <2>2
<1>8. CASE k = l + 1
  <2>1. Visible(t2, 0 + 1) = Visible(t, 0) \cup {l + 1}
    <3>1. 0 \in 0..Len(t)
      BY ONLY <1>3
    <3>2. t \in Seq(Char) /\ a \in Char /\ a # "nul"
      BY <1>1, Zenon
    <3> QED  BY ONLY <3>1, <3>2, PushVisible
  <2>2. Visible(t, 0) = {}
    BY DEF Visible
  <2>3. Len(t2) - k + 1 = 0 + 1
    BY <1>3, <1>8
  <2>4. Cardinality(Visible(t2, Len(t2) - k + 1)) = 1
    <3>1. Visible(t2, Len(t2) - k + 1) = {l + 1}
      BY <2>1, <2>2, <2>3, Zenon
    <3>2. Cardinality({l + 1}) = 1
      BY ONLY FS_Singleton, Zenon
    <3> QED  BY ONLY <3>1, <3>2, Zenon
  <2>5. At(q) - 1 = At(s) - z /\ At(s) - z >= 0 /\ At(s) \in 0..At(s)
    <3>1. h \in Nat /\ At(s) \in Int /\ z \in Nat /\ At(q) = At(s) + 1 - z /\ At(q) >= h + 1
      BY <1>4, <1>7, Zenon
    <3> HIDE DEF h, q
    <3> QED  BY ONLY <3>1
  <2>6. q.arr[At(s) - z] = a
    BY <1>6, <2>5, Zenon
  <2> QED  BY <1>3, <1>8, <2>4, <2>5, <2>6, Zenon
<1>9. CASE k # l + 1
  <2>0. k \in Visible(t, n)
    BY <1>2, <1>9, Zenon
  <2> DEFINE m == l - k + 1
             d == Cardinality(Visible(t, m))
  <2>1. /\ k \in 1..l /\ m \in 1..l /\ IsFiniteSet(Visible(t, m)) /\ d \in Nat /\ d >= 1 /\ d <= h
    BY <2>0, SeenFrom, Zenon
  <2>2. Len(t2) - k + 1 = m + 1 /\ m \in 0..Len(t)
    BY <1>3, <2>1
  <2>3. Visible(t2, m + 1) = Visible(t, m) \cup {l + 1}
    BY <1>1, <2>2, PushVisible
  <2>4. l + 1 \notin Visible(t, m)
    BY <1>3 DEF Visible
  <2> HIDE DEF m
  <2>5. Cardinality(Visible(t2, m + 1)) = d + 1
    BY <2>1, <2>3, <2>4, FS_AddElement, Zenon
  <2>6. s.arr[At(s) - d] = t[k]
    BY <2>0, Zenon DEF Echoed, m
  <2>10. At(s) >= h
    BY Zenon
  <2> HIDE DEF d, q, h
  <2>7. /\ At(s) - d \in 0..At(s) /\ At(s) - d # At(s) /\ (At(s) - d) - z >= 0
        /\ At(q) - (d + 1) = (At(s) - d) - z
    <3> DEFINE A == At(s)
               B == At(q)
    <3>1. A \in Int /\ B \in Int /\ A >= h /\ B >= h + 1 /\ B = A + 1 - z
      BY <1>4, <1>7, <2>10, Zenon
    <3>2. z \in Int /\ h \in Int /\ d \in Int /\ d >= 1 /\ d <= h
      BY <1>4, <1>7, <2>1
    <3> HIDE DEF A, B
    <3>3. A - d \in 0..A /\ A - d # A /\ (A - d) - z >= 0 /\ B - (d + 1) = (A - d) - z
      BY <3>1, <3>2
    <3> QED  BY <3>3, Zenon DEF A, B
  <2>8. q.arr[(At(s) - d) - z] = s.arr[At(s) - d]
    BY <1>6, <2>7, Zenon
  <2> QED  BY <1>3, <2>1, <2>2, <2>5, <2>6, <2>7, <2>8, Zenon
<1> QED  BY <1>8, <1>9, Zenon

\* a backspace over a character that was printed
LEMMA EchoedErase ==
  ASSUME NEW s \in Screens, s.y < Height, NEW t \in Seq(Char), NEW n \in 1..Len(t), Echoed(s, t, n),
         t[Len(t)] # "nul", IsFiniteSet(Visible(t, n)), At(s) >= Cardinality(Visible(t, n))
  PROVE  Echoed(kputchar(s, "bs"), SubSeq(t, 1, Len(t) - 1), n - 1)
<1> DEFINE l == Len(t)
           t2 == SubSeq(t, 1, l - 1)
           q == kputchar(s, "bs")
           h == Cardinality(Visible(t, n))
<1> SUFFICES ASSUME NEW k \in Visible(t2, n - 1)
             PROVE  q.arr[At(q) - Cardinality(Visible(t2, Len(t2) - k + 1))] = t2[k]
  BY Zenon DEF Echoed
<1>1. l \in Nat /\ l - 1 \in Nat /\ Len(t2) = l - 1 /\ \A i \in 1..(l - 1) : t2[i] = t[i]
  <2> DEFINE r == l - 1
  <2>1. l \in Nat /\ r \in Nat /\ r <= l
    OBVIOUS
  <2> HIDE DEF r
  <2>2. Len(SubSeq(t, 1, r)) = r /\ \A i \in 1..r : SubSeq(t, 1, r)[i] = t[i]
    BY <2>1
  <2> QED  BY <2>1, <2>2, Zenon DEF r
<1> HIDE DEF t2
<1>2. Visible(t2, n - 1) = Visible(t, n) \ {l}
  BY EraseVisible, Zenon DEF t2
<1>3. k \in Visible(t, n) /\ k # l
  BY <1>2, Zenon
<1> DEFINE m == l - k + 1
           d == Cardinality(Visible(t, m))
<1>4. k \in 1..l /\ m \in 1..l /\ IsFiniteSet(Visible(t, m)) /\ d \in Nat /\ d <= h /\ k \in Visible(t, m)
  <2>1. n \in 0..Len(t)
    OBVIOUS
  <2> QED  BY <1>3, <2>1, SeenFrom, Zenon
<1>5. Visible(t2, m - 1) = Visible(t, m) \ {l} /\ l \in Visible(t, m)
  BY <1>4, EraseVisible, Zenon DEF t2
<1>6. Len(t2) - k + 1 = m - 1 /\ k \in 1..(l - 1)
  BY <1>1, <1>3, <1>4
<1> HIDE DEF m
<1>7. Cardinality(Visible(t2, m - 1)) = d - 1
  BY <1>4, <1>5, FS_RemoveElement, Zenon
<1>8. d # 1
  <2>1. ASSUME d = 1 PROVE FALSE
    <3>1. Cardinality(Visible(t, m) \ {l}) = 0 /\ IsFiniteSet(Visible(t, m) \ {l})
      <4>1. d - 1 = 0
        BY <2>1
      <4>2. IsFiniteSet(Visible(t, m) \ {l})
        BY <1>4, FS_RemoveElement, Zenon
      <4> QED  BY <1>5, <1>7, <4>1, <4>2, Zenon
    <3>2. Visible(t, m) \ {l} = {}
      BY <3>1, FS_EmptySet, Zenon
    <3> QED  BY <1>3, <1>4, <3>2, Zenon
  <2> QED  BY <2>1, Zenon
<1>9. At(s) \in Int /\ At(s) \in Cells /\ h \in Nat
  <2>1. s.x \in Int /\ s.y \in Int /\ Width \in Nat
    BY ScreenAssumption DEF Screens
  <2>2. s.y * Width \in Int
    BY <2>1
  <2>3. h \in Nat
    BY FS_CardinalityType, Zenon
  <2>4. At(s) \in Int /\ At(s) >= 0
    BY <2>1, <2>2, <2>3 DEF At
  <2> QED  BY <2>3, <2>4, InCells, Zenon
<1>10. At(q) = At(s) - 1 /\ \A j \in Cells : j # At(s) - 1 => q.arr[j] = s.arr[j]
  BY PutBack, Zenon
<1>11. s.arr[At(s) - d] = t[k]
  BY <1>3, Zenon DEF Echoed, m
<1>13. At(s) >= h
  BY Zenon
<1> HIDE DEF d, q, h
<1>12. At(s) - d \in Cells /\ At(s) - d # At(s) - 1 /\ At(q) - (d - 1) = At(s) - d
  <2> DEFINE w == Width * Height
  <2>1. w \in Int /\ Cells = 0..(w - 1)
    BY ScreenAssumption DEF Cells
  <2> HIDE DEF w
  <2>2. At(s) \in Int /\ At(s) \in 0..(w - 1) /\ d \in Nat /\ d <= h /\ h \in Nat
    BY <1>4, <1>9, <2>1, Zenon
  <2>3. At(s) - d \in 0..(w - 1) /\ At(s) - d # At(s) - 1
    BY ONLY <1>8, <1>13, <2>1, <2>2
  <2>4. At(q) - (d - 1) = At(s) - d
    <3>1. At(q) = At(s) - 1
      BY <1>10, Zenon
    <3> QED  BY ONLY <2>2, <3>1
  <2> QED  BY <2>1, <2>3, <2>4, Zenon
<1> QED  BY <1>1, <1>6, <1>7, <1>10, <1>11, <1>12, Zenon

\* EchoIsLine says that the line being typed is echoed
LEMMA EchoIs ==
  ASSUME typed \in Seq(Char), backspace \in 0..Len(typed)
  PROVE  EchoIsLine <=> (~ astray /\ ~ mixed => Echoed(scr, typed, backspace))
<1>1. Seen(Len(typed) - backspace + 1) = Visible(typed, backspace)
  BY DEF Seen, Visible
<1>2. ASSUME NEW k \in Visible(typed, backspace)
      PROVE  Seen(k) = Visible(typed, Len(typed) - k + 1)
  BY <1>2 DEF Seen, Visible
<1> QED  BY <1>1, <1>2, Zenon DEF EchoIsLine, Echoed

\* the line that is typed when a key, the reader or a program has done its step
LEMMA EchoNext ==
  ASSUME OneKey, ScreenInv, EchoIsLine, [ScreenNext]_screenVars
  PROVE  EchoIsLine'
<1>1. ScreenInv'
  BY ScreenInvNext, Zenon
<1>2. /\ typed \in Seq(Char) /\ backspace \in 0..Len(typed) /\ Len(typed) \in Nat
      /\ IInv /\ scr \in Screens /\ scr.y < Height /\ astray \in BOOLEAN /\ mixed \in BOOLEAN
  BY Facts DEF ScreenInv, IInv, InLine, Typed
<1>3. typed' \in Seq(Char) /\ backspace' \in 0..Len(typed')
  BY <1>1 DEF ScreenInv, IInv, InLine, TypeOK
<1> SUFFICES ASSUME ~ astray', ~ mixed' PROVE Echoed(scr', typed', backspace')
  <2>1. Seen(Len(typed) - backspace + 1)' = Visible(typed', backspace')
    BY <1>3 DEF Seen, Visible
  <2>2. ASSUME NEW k \in Visible(typed', backspace')
        PROVE  Seen(k)' = Visible(typed', Len(typed') - k + 1)
    BY <1>3, <2>2 DEF Seen, Visible
  <2>3. At(scr)' = At(scr')
    BY Zenon DEF At
  <2> QED  BY <2>1, <2>2, <2>3, Zenon DEF EchoIsLine, Echoed
<1>4. ~ astray /\ ~ mixed => Echoed(scr, typed, backspace)
  BY <1>2, EchoIs, Zenon
<1>5. CASE backspace' = 0
  BY <1>3, <1>5, EchoedNone, Zenon
<1>6. ASSUME backspace' # 0, UNCHANGED <<scr, typed, backspace>>, astray' = astray, mixed' = mixed
      PROVE  Echoed(scr', typed', backspace')
  BY <1>4, <1>6, Zenon
<1> DEFINE V == Visible(typed, backspace)
<1>7. IsFiniteSet(V) /\ Cardinality(V) \in Nat
  BY <1>2, VisibleFits, Zenon
<1> HIDE DEF V
<1>8. ASSUME ScreenKey, backspace' # 0
      PROVE  Echoed(scr', typed', backspace')
  <2>1. /\ Key /\ scr' = Echo /\ ~ mixed
        /\ astray' = (astray \/ (Len(typed') < Len(typed) /\ typed[Len(typed)] = "nul"))
    <3>1. backspace' > 0
      BY <1>3, <1>8
    <3>2. ~ EndsLine
      BY <1>8, Zenon DEF EndsLine
    <3> QED  BY <1>8, <3>1, <3>2, Zenon DEF ScreenKey, ErasesUnseen
  <2>2. ~ astray /\ ~ (Len(typed') < Len(typed) /\ typed[Len(typed)] = "nul")
    BY <2>1, Zenon
  <2>3. Echoed(scr, typed, backspace) /\ At(scr) >= Cardinality(V)
    BY <1>4, <2>1, <2>2, Zenon DEF ScreenInv, V
  <2>4. CASE UNCHANGED <<term, count, typed>>
    <3>1. typed' = typed /\ backspace' = backspace
      BY <2>4, Zenon DEF term
    <3>2. scr' = scr
      BY <1>2, <2>1, <3>1 DEF Echo
    <3> QED  BY <2>3, <3>1, <3>2, Zenon
  <2>5. ASSUME NEW a \in Char, Push(a), ~ full
        PROVE  Echoed(scr', typed', backspace')
    <3>1. typed' = Append(typed, a) /\ backspace' = backspace + 1 /\ a # "nl"
      BY <1>8, <2>5, Zenon DEF Push, Delim
    <3>2. scr' = kputchar(scr, a)
      <4>1. Len(typed') = Len(typed) + 1 /\ typed'[Len(typed')] = a /\ Len(typed') > Len(typed)
        BY <1>2, <3>1
      <4> QED  BY <2>1, <4>1, Zenon DEF Echo
    <3>3. CASE a = "nul"
      <4>1. scr' = scr
        BY <3>2, <3>3, Zenon DEF kputchar
      <4> QED  BY <1>2, <2>3, <3>1, <3>3, <4>1, EchoedNul, Zenon
    <3>4. CASE a # "nul"
      <4>1. a \in {"a", "b"}
        BY <2>5, <3>1, <3>4, Zenon DEF Char
      <4>2. Cardinality(V) + 1 <= Size
        <5> DEFINE W == Visible(typed', backspace')
        <5>1. Cardinality(W) <= Size
          <6>1. /\ typed' \in Seq(Char) /\ read' \in Seq(Char) /\ InLine(typed', read', backspace')
                /\ Len(typed') - Len(read') <= Size
            <7>1. Ring(start', end', buf', typed', read') /\ InLine(typed', read', backspace')
              BY <1>1, Zenon DEF ScreenInv, IInv
            <7>2. typed' \in Seq(Char) /\ read' \in Seq(Char) /\ Len(typed') - Len(read') \in 0..Size
              BY <7>1, Zenon DEF Ring
            <7> QED  BY <7>1, <7>2, TerminalAssumption
          <6> QED  BY ONLY <6>1, LineFits, Zenon
        <5>2. W = V \cup {Len(typed) + 1}
          BY <1>2, <2>5, <3>1, <3>4, PushVisible, Zenon DEF V
        <5>3. Len(typed) + 1 \notin V
          BY <1>2 DEF V, Visible
        <5>4. Cardinality(V \cup {Len(typed) + 1}) = Cardinality(V) + 1
          BY <1>7, <5>3, FS_AddElement, Zenon
        <5> QED  BY <5>1, <5>2, <5>4, Zenon
      <4>3. Echoed(kputchar(scr, a), Append(typed, a), backspace + 1)
        BY <1>2, <1>7, <2>3, <4>1, <4>2, EchoedPush, Zenon DEF V
      <4> QED  BY <3>1, <3>2, <4>3, Zenon
    <3> QED  BY <3>3, <3>4, Zenon
  <2>6. ASSUME Erase, backspace > 0
        PROVE  Echoed(scr', typed', backspace')
    <3>1. typed' = SubSeq(typed, 1, Len(typed) - 1) /\ backspace' = backspace - 1 /\ backspace \in 1..Len(typed)
      BY <1>2, <2>6 DEF Erase
    <3>2. Len(typed') = Len(typed) - 1
      <4> DEFINE r == Len(typed) - 1
      <4>1. r \in Nat /\ r <= Len(typed)
        BY <1>2, <3>1
      <4> HIDE DEF r
      <4>2. Len(SubSeq(typed, 1, r)) = r
        BY <1>2, <4>1
      <4> QED  BY <3>1, <4>2, Zenon DEF r
    <3>3. ~ (Len(typed') > Len(typed)) /\ Len(typed') < Len(typed)
      BY <1>2, <3>2
    <3>4. scr' = kputchar(scr, "bs") /\ typed[Len(typed)] # "nul"
      BY <2>1, <2>2, <3>3, Zenon DEF Echo
    <3>5. Echoed(kputchar(scr, "bs"), SubSeq(typed, 1, Len(typed) - 1), backspace - 1)
      BY <1>2, <1>7, <2>3, <3>1, <3>4, EchoedErase, Zenon DEF V
    <3> QED  BY <3>1, <3>4, <3>5, Zenon
  <2>7. CASE Erase
    BY <1>2, <2>4, <2>6, <2>7, Zenon DEF Erase
  <2>8. ASSUME NEW a \in Char, Push(a) PROVE Echoed(scr', typed', backspace')
    BY <2>4, <2>5, <2>8, Zenon DEF Push
  <2> QED  BY <2>1, <2>7, <2>8, Zenon DEF Key
<1>9. ASSUME ScreenReader, backspace' # 0
      PROVE  Echoed(scr', typed', backspace')
  <2>1. typed' = typed /\ backspace' = backspace
    BY <1>2, <1>9, ReaderLeavesScreen, Zenon DEF ScreenReader
  <2> QED  BY <1>6, <1>9, <2>1, Zenon DEF ScreenReader
<1>10. ASSUME TabLoop \/ \E a \in OutChar : Write(a) PROVE backspace' = 0
  <2>1. backspace' = backspace /\ mixed' = (backspace > 0)
    BY <1>10, Zenon DEF Write, TabLoop, vars, term
  <2>2. ~ (backspace > 0)
    BY <2>1, Zenon
  <2> QED  BY <1>2, <2>1, <2>2
<1>11. CASE UNCHANGED screenVars
  BY <1>5, <1>6, <1>11, Zenon DEF screenVars, vars, term
<1> QED  BY <1>5, <1>8, <1>9, <1>10, <1>11, Zenon DEF ScreenNext

\* What the user sees before the cursor is the line that the reader will get: wrapping,
\* scrolling and backspace over the start of a row keep the echo in step with the ring,
\* as long as every erased character had been printed and no program wrote into the line
\* or moved the cursor back over it
THEOREM EchoShowsLine ==
  ASSUME OneKey
  PROVE  ScreenSpec => []EchoIsLine
<1>1. ScreenInit => EchoIsLine
  <2> SUFFICES ASSUME ScreenInit PROVE EchoIsLine
    BY Zenon
  <2>1. Len(typed) = 0 /\ backspace = 0
    BY Zenon DEF ScreenInit, Init
  <2>2. Seen(Len(typed) - backspace + 1) = {}
    BY <2>1 DEF Seen
  <2> QED  BY <2>2, Zenon DEF EchoIsLine
<1>2. ScreenInv /\ EchoIsLine /\ [ScreenNext]_screenVars => EchoIsLine'
  BY EchoNext, Zenon
<1>3. ScreenSpec => []ScreenInv
  BY ScreenInvariant, Zenon
<1> QED  BY <1>1, <1>2, <1>3, PTL DEF ScreenSpec
===============================================================================
