---------------------------- MODULE SieveProofs ----------------------------
(***************************************************************************)
(* What the components' proofs share: the least number of a set, which     *)
(* gives induction over numbers, and by it what Sieve keeps of a sequence. *)
(***************************************************************************)
EXTENDS Sieve, FiniteSetsExt, FiniteSetTheorems, WellFoundedInduction, TLAPS

(* Nonempty sets of naturals have a least element, so those that have an    *)
(* upper bound have a greatest.                                             *)
LEMMA LeastNat ==
    ASSUME NEW T, T \subseteq Nat, T # {}
    PROVE  \E x \in T : \A y \in T : x <= y
<1>. DEFINE R == OpToRel(<, Nat)
<1>1. IsWellFoundedOn(R, Nat)
  BY NatLessThanWellFounded
<1>2. \A a, b \in Nat : a < b => <<a, b>> \in R
  BY DEF OpToRel
<1>. HIDE DEF R
<1>3. PICK x \in T : \A y \in T : ~(<<y, x>> \in R)
  BY <1>1, WFMin
<1>4. ASSUME NEW y \in T PROVE x <= y
  <2>1. x \in Nat /\ y \in Nat
    OBVIOUS
  <2>2. ~(y < x)
    BY <1>2, <1>3, <2>1
  <2>. QED
    BY <2>1, <2>2
<1>. QED
  BY <1>4

LEMMA GreatestBelow ==
    ASSUME NEW n \in Nat, NEW T, T \subseteq 1 .. n, T # {}
    PROVE  Max(T) \in T /\ \A y \in T : y <= Max(T)
<1>. DEFINE U == {u \in Nat : \A x \in T : x <= u}
<1>1. n \in U
  OBVIOUS
<1>2. PICK u \in U : \A v \in U : u <= v
  BY <1>1, LeastNat
<1>3. u \in T
  <2>1. SUFFICES ASSUME u \notin T PROVE FALSE
    OBVIOUS
  <2>2. \A x \in T : x < u /\ x >= 1
    BY <2>1, <1>2
  <2>3. u \in Nat /\ u # 0
    <3>1. PICK x \in T : x \in 1 .. n
      OBVIOUS
    <3>2. u \in Nat
      OBVIOUS
    <3>. QED
      BY <2>2, <3>1, <3>2
  <2>4. \A x \in T : x <= u - 1
    BY <2>2, <2>3
  <2>5. u - 1 \in U
    BY <2>3, <2>4
  <2>. QED
    BY <2>5, <2>3, <1>2
<1>4. \A x \in T : u >= x
  BY <1>2
<1>. QED
  BY <1>3, <1>4 DEF Max

(* A finite set of numbers has a least one, which is its Min.               *)
LEMMA FiniteHasLeast ==
    ASSUME NEW S, S \subseteq Int, S # {}, IsFiniteSet(S)
    PROVE  Min(S) \in S /\ \A y \in S : Min(S) <= y
<1>. DEFINE Onto(n, R) == \E f : /\ \A i \in 1 .. n : f[i] \in R
                                 /\ \A x \in R : \E i \in 1 .. n : f[i] = x
            Least(R) == \E x \in R : \A y \in R : x <= y
            C == {n \in Nat : \E R \in SUBSET Int : R # {} /\ Onto(n, R) /\ ~Least(R)}
<1>1. C = {}
  <2>1. SUFFICES ASSUME C # {} PROVE FALSE
    OBVIOUS
  <2>2. PICK n \in C : \A m \in C : n <= m
    <3>1. C \subseteq Nat
      OBVIOUS
    <3>. QED
      BY <2>1, <3>1, LeastNat
  <2>3. PICK R \in SUBSET Int : R # {} /\ Onto(n, R) /\ ~Least(R)
    BY <2>2
  <2>4. PICK f : (\A i \in 1 .. n : f[i] \in R) /\ \A x \in R : \E i \in 1 .. n : f[i] = x
    BY <2>3
  <2>5. n \in Nat /\ n # 0
    <3>1. n \in Nat
      BY <2>2
    <3>2. PICK x : x \in R
      BY <2>3
    <3>3. PICK i \in 1 .. n : f[i] = x
      BY <2>4, <3>2
    <3>. QED
      BY <3>1, <3>3
  <2>. DEFINE Q == {f[i] : i \in 1 .. n - 1}
  <2>6. n \in 1 .. n /\ 1 .. n - 1 \subseteq 1 .. n /\ \A i \in 1 .. n : i = n \/ i \in 1 .. n - 1
    BY <2>5
  <2>7. Q \subseteq R /\ f[n] \in R /\ \A x \in R : x = f[n] \/ x \in Q
    BY <2>4, <2>6
  <2>8. Q # {}
    <3>1. SUFFICES ASSUME Q = {} PROVE Least(R)
      BY <2>3
    <3>2. \A y \in R : y = f[n]
      BY <2>7, <3>1
    <3>3. f[n] \in Int
      BY <2>3, <2>7
    <3>. QED
      BY <2>7, <3>2, <3>3
  <2>9. Onto(n - 1, Q)
    OBVIOUS
  <2>10. Least(Q)
    <3>1. n - 1 \in Nat /\ ~(n <= n - 1)
      BY <2>5
    <3>2. n - 1 \notin C
      BY <2>2, <3>1
    <3>3. Q \in SUBSET Int
      BY <2>3, <2>7
    <3>. HIDE DEF Q, Onto, Least
    <3>. QED
      BY <2>8, <2>9, <3>1, <3>2, <3>3
  <2>11. PICK x \in Q : \A y \in Q : x <= y
    BY <2>10
  <2>12. x \in Int /\ f[n] \in Int /\ Q \subseteq Int /\ x \in R
    BY <2>3, <2>7
  <2>. HIDE DEF Q
  <2>13. Least(R)
    <3>1. CASE x <= f[n]
      BY <2>7, <2>11, <2>12, <3>1
    <3>2. CASE ~(x <= f[n])
      <4>1. \A y \in R : f[n] <= y
        BY <2>7, <2>11, <2>12, <3>2
      <4>. QED
        BY <2>7, <4>1
    <3>. QED
      BY <3>1, <3>2
  <2>. QED
    BY <2>3, <2>13
<1>2. PICK n \in Nat : Onto(n, S)
  <2>1. \E n \in Nat : \E f : f \in Surjection(1 .. n, S)
    BY FS_NatSurjection DEF ExistsSurjection
  <2>2. PICK n \in Nat : \E f : f \in Surjection(1 .. n, S)
    BY <2>1
  <2>3. PICK f : f \in Surjection(1 .. n, S)
    BY <2>2
  <2>. QED
    BY <2>3 DEF Surjection
<1>3. Least(S)
  <2>1. S \in SUBSET Int /\ n \notin C
    BY <1>1
  <2>. HIDE DEF Onto, Least
  <2>. QED
    BY <1>2, <2>1
<1>. QED
  BY <1>3 DEF Min

-----------------------------------------------------------------------------
(* The recursive function of Sieve, and that it is what its equation says.  *)
IsKept(f, s, T, n) ==
    f = [i \in 0 .. n |-> IF i = 0 THEN <<>> ELSE IF s[i] \in T THEN Append(f[i - 1], s[i]) ELSE f[i - 1]]
Kept(s, T) == CHOOSE f : IsKept(f, s, T, Len(s))

LEMMA KeptExists == ASSUME NEW s, NEW T, NEW n \in Nat PROVE \E f : IsKept(f, s, T, n)
<1>. DEFINE Upto(m, f) == IsKept(f, s, T, m)
            C == {m \in Nat : ~\E f : Upto(m, f)}
<1>1. SUFFICES ASSUME C # {} PROVE FALSE
  OBVIOUS
<1>2. PICK m \in C : \A y \in C : m <= y
  <2>1. C \subseteq Nat
    OBVIOUS
  <2>. QED
    BY <1>1, <2>1, LeastNat
<1>3. m \in Nat /\ ~\E f : Upto(m, f)
  BY <1>2
<1>4. m # 0
  <2>1. Upto(0, [i \in 0 .. 0 |-> <<>>])
    BY DEF IsKept
  <2>. QED
    BY <1>3, <2>1
<1>5. m - 1 \in Nat /\ m - 1 \notin C
  <2>1. m - 1 \in Nat /\ ~(m <= m - 1)
    BY <1>3, <1>4
  <2>. HIDE DEF C
  <2>. QED
    BY <1>2, <2>1
<1>6. PICK g : Upto(m - 1, g)
  BY <1>5
<1>. DEFINE f == [i \in 0 .. m |-> IF i < m THEN g[i]
                                   ELSE IF s[m] \in T THEN Append(g[m - 1], s[m]) ELSE g[m - 1]]
<1>7. \A i \in 0 .. m - 1 : f[i] = g[i]
  BY <1>3
<1>8. ASSUME NEW i \in 0 .. m
      PROVE  f[i] = IF i = 0 THEN <<>> ELSE IF s[i] \in T THEN Append(f[i - 1], s[i]) ELSE f[i - 1]
  <2>1. CASE i = 0
    BY <1>3, <1>4, <1>6, <2>1 DEF IsKept
  <2>2. CASE i # 0 /\ i < m
    <3>1. i \in 0 .. m - 1 /\ i - 1 \in 0 .. m - 1
      BY <1>3, <2>2
    <3>2. g[i] = IF s[i] \in T THEN Append(g[i - 1], s[i]) ELSE g[i - 1]
      BY <1>6, <2>2, <3>1 DEF IsKept
    <3>. QED
      BY <1>7, <2>2, <3>1, <3>2
  <2>3. CASE i = m
    <3>1. m - 1 \in 0 .. m - 1 /\ f[m - 1] = g[m - 1]
      BY <1>3, <1>4, <1>7
    <3>. QED
      BY <1>3, <1>4, <2>3, <3>1
  <2>. QED
    BY <1>3, <2>1, <2>2, <2>3
<1>9. Upto(m, f)
  BY <1>8 DEF IsKept
<1>. QED
  BY <1>3, <1>9

LEMMA KeptSteps ==
    ASSUME NEW s, NEW T, Len(s) \in Nat
    PROVE  /\ Kept(s, T)[0] = <<>>
           /\ \A i \in 1 .. Len(s) :
                 Kept(s, T)[i] = IF s[i] \in T THEN Append(Kept(s, T)[i - 1], s[i]) ELSE Kept(s, T)[i - 1]
           /\ Sieve(s, T) = Kept(s, T)[Len(s)]
<1>. DEFINE k == Kept(s, T)
<1>1. IsKept(k, s, T, Len(s))
  BY KeptExists DEF Kept
<1>. HIDE DEF k
<1>2. /\ k[0] = <<>>
      /\ \A i \in 1 .. Len(s) : k[i] = IF s[i] \in T THEN Append(k[i - 1], s[i]) ELSE k[i - 1]
  <2>1. k[0] = <<>>
    BY <1>1 DEF IsKept
  <2>2. ASSUME NEW i \in 1 .. Len(s)
        PROVE  k[i] = IF s[i] \in T THEN Append(k[i - 1], s[i]) ELSE k[i - 1]
    <3>1. i \in 0 .. Len(s) /\ i # 0
      OBVIOUS
    <3>. QED
      BY <1>1, <3>1 DEF IsKept
  <2>. QED
    BY <2>1, <2>2
<1>3. Sieve(s, T) = Kept(s, T)[Len(s)]
  BY DEF Sieve, Kept, IsKept
<1>. QED
  BY <1>2, <1>3 DEF k

Distinct(s) == \A i, j \in DOMAIN s : s[i] = s[j] => i = j

(* What one more element does to what was kept so far.                      *)
Fits(q, s, T, i, S) ==
    /\ q \in Seq(S) /\ Len(q) <= i
    /\ \A x : (\E j \in DOMAIN q : q[j] = x) <=> (x \in T /\ \E j \in 1 .. i : s[j] = x)
    /\ Distinct(s) => Distinct(q)

LEMMA OneMoreFits ==
    ASSUME NEW S, NEW s \in Seq(S), NEW T, NEW i \in 1 .. Len(s), NEW q, Fits(q, s, T, i - 1, S)
    PROVE  Fits(IF s[i] \in T THEN Append(q, s[i]) ELSE q, s, T, i, S)
<1>. DEFINE n == Len(q)
<1>1. q \in Seq(S) /\ n \in Nat /\ n <= i - 1 /\ i \in Nat /\ i >= 1 /\ s[i] \in S /\ DOMAIN q = 1 .. n
      /\ DOMAIN s = 1 .. Len(s)
  BY DEF Fits
<1>2. CASE s[i] \notin T
  <2>1. \A x \in T : (\E j \in 1 .. i : s[j] = x) <=> (\E j \in 1 .. i - 1 : s[j] = x)
    BY <1>1, <1>2
  <2>2. \A x : (\E j \in DOMAIN q : q[j] = x) <=> (x \in T /\ \E j \in 1 .. i : s[j] = x)
    BY <2>1 DEF Fits
  <2>. QED
    BY <1>1, <1>2, <2>2 DEF Fits
<1>3. CASE s[i] \in T
  <2>. DEFINE r == Append(q, s[i])
  <2>1. /\ r \in Seq(S) /\ Len(r) = n + 1 /\ DOMAIN r = 1 .. n + 1 /\ r[n + 1] = s[i]
        /\ \A j \in 1 .. n : r[j] = q[j]
    BY <1>1
  <2>. HIDE DEF r
  <2>2. ASSUME NEW x
        PROVE  (\E j \in DOMAIN r : r[j] = x) <=> (x \in T /\ \E j \in 1 .. i : s[j] = x)
    <3>1. (\E j \in 1 .. n + 1 : r[j] = x) <=> ((\E j \in 1 .. n : q[j] = x) \/ s[i] = x)
      BY <1>1, <2>1
    <3>2. (\E j \in 1 .. n : q[j] = x) <=> (x \in T /\ \E j \in 1 .. i - 1 : s[j] = x)
      BY <1>1 DEF Fits
    <3>3. (\E j \in 1 .. i : s[j] = x) <=> ((\E j \in 1 .. i - 1 : s[j] = x) \/ s[i] = x)
      BY <1>1
    <3>. QED
      BY <1>3, <2>1, <3>1, <3>2, <3>3
  <2>3. ASSUME Distinct(s) PROVE Distinct(r)
    <3>1. Distinct(q)
      BY <2>3 DEF Fits
    <3>2. \A j \in 1 .. n : q[j] # s[i]
      <4>1. ASSUME NEW j \in 1 .. n, q[j] = s[i] PROVE FALSE
        <5>1. \E h \in 1 .. i - 1 : s[h] = s[i]
          BY <1>1, <4>1 DEF Fits
        <5>. QED
          BY <1>1, <2>3, <5>1 DEF Distinct
      <4>. QED
        BY <4>1
    <3>3. ASSUME NEW a \in 1 .. n + 1, NEW b \in 1 .. n + 1, r[a] = r[b] PROVE a = b
      <4>1. (a \in 1 .. n \/ a = n + 1) /\ (b \in 1 .. n \/ b = n + 1)
        BY <1>1
      <4>2. a \in 1 .. n /\ b \in 1 .. n => q[a] = q[b] /\ a \in DOMAIN q /\ b \in DOMAIN q
        BY <1>1, <2>1, <3>3
      <4>3. a \in 1 .. n /\ b = n + 1 => FALSE
        BY <2>1, <3>2, <3>3
      <4>4. b \in 1 .. n /\ a = n + 1 => FALSE
        BY <2>1, <3>2, <3>3
      <4>. QED
        BY <3>1, <4>1, <4>2, <4>3, <4>4 DEF Distinct
    <3>. QED
      BY <2>1, <3>3 DEF Distinct
  <2>4. r \in Seq(S) /\ Len(r) <= i
    BY <1>1, <2>1
  <2>5. Fits(r, s, T, i, S)
    BY <2>2, <2>3, <2>4 DEF Fits
  <2>. QED
    BY <1>3, <2>5 DEF r
<1>. QED
  BY <1>2, <1>3

LEMMA KeptFits ==
    ASSUME NEW S, NEW s \in Seq(S), NEW T, NEW i \in Nat, i <= Len(s)
    PROVE  Fits(Kept(s, T)[i], s, T, i, S)
<1>. DEFINE k == Kept(s, T)
            C == {m \in Nat : m <= Len(s) /\ ~Fits(k[m], s, T, m, S)}
<1>1. Len(s) \in Nat /\ DOMAIN s = 1 .. Len(s)
  OBVIOUS
<1>2. /\ k[0] = <<>>
      /\ \A m \in 1 .. Len(s) : k[m] = IF s[m] \in T THEN Append(k[m - 1], s[m]) ELSE k[m - 1]
  BY <1>1, KeptSteps
<1>. HIDE DEF k
<1>3. Fits(k[0], s, T, 0, S)
  <2>1. <<>> \in Seq(S) /\ Len(<<>>) = 0 /\ DOMAIN <<>> = {}
    OBVIOUS
  <2>. QED
    BY <1>2, <2>1 DEF Fits, Distinct
<1>4. C = {}
  <2>1. SUFFICES ASSUME C # {} PROVE FALSE
    OBVIOUS
  <2>2. PICK m \in C : \A y \in C : m <= y
    <3>1. C \subseteq Nat
      OBVIOUS
    <3>. QED
      BY <2>1, <3>1, LeastNat
  <2>3. m \in Nat /\ m <= Len(s) /\ ~Fits(k[m], s, T, m, S) /\ m # 0
    BY <1>3, <2>2
  <2>4. m - 1 \in Nat /\ m - 1 \notin C /\ m \in 1 .. Len(s)
    BY <1>1, <2>2, <2>3
  <2>5. Fits(k[m - 1], s, T, m - 1, S)
    BY <1>1, <2>3, <2>4
  <2>6. Fits(k[m], s, T, m, S)
    BY <1>2, <2>4, <2>5, OneMoreFits
  <2>. QED
    BY <2>3, <2>6
<1>. QED
  BY <1>4 DEF k

(* Sieve keeps exactly the elements that are in the set, none twice that    *)
(* was there once, and invents none.                                        *)
LEMMA SieveKeeps ==
    ASSUME NEW S, NEW s \in Seq(S), NEW T
    PROVE  /\ Sieve(s, T) \in Seq(S) /\ Len(Sieve(s, T)) <= Len(s)
           /\ \A x : (\E j \in DOMAIN Sieve(s, T) : Sieve(s, T)[j] = x)
                        <=> (x \in T /\ \E j \in DOMAIN s : s[j] = x)
           /\ Distinct(s) => Distinct(Sieve(s, T))
<1>1. Len(s) \in Nat /\ DOMAIN s = 1 .. Len(s)
  OBVIOUS
<1>2. Sieve(s, T) = Kept(s, T)[Len(s)]
  BY <1>1, KeptSteps
<1>3. Fits(Kept(s, T)[Len(s)], s, T, Len(s), S)
  BY <1>1, KeptFits
<1>. QED
  BY <1>1, <1>2, <1>3 DEF Fits

LEMMA SieveDraws ==
    ASSUME NEW S, NEW s \in Seq(S), NEW T, NEW j \in DOMAIN Sieve(s, T)
    PROVE  Sieve(s, T)[j] \in T /\ \E i \in DOMAIN s : s[i] = Sieve(s, T)[j]
<1>1. \A x : (\E i \in DOMAIN Sieve(s, T) : Sieve(s, T)[i] = x)
                <=> (x \in T /\ \E i \in DOMAIN s : s[i] = x)
  BY SieveKeeps
<1>. QED
  BY <1>1

(* An element at the end stays at the end.                                  *)
LEMMA SieveKeepsLast ==
    ASSUME NEW S, NEW s \in Seq(S), NEW T, s # <<>>, s[Len(s)] \in T
    PROVE  Sieve(s, T) # <<>> /\ Sieve(s, T)[Len(Sieve(s, T))] = s[Len(s)]
<1>. DEFINE k == Kept(s, T)
            r == k[Len(s) - 1]
            n == Len(s)
            q == Sieve(s, T)
<1>1. n \in Nat \ {0} /\ n - 1 \in Nat /\ n \in 1 .. n /\ DOMAIN s = 1 .. n
  OBVIOUS
<1>2. q = k[n] /\ \A i \in 1 .. n : k[i] = IF s[i] \in T THEN Append(k[i - 1], s[i]) ELSE k[i - 1]
  BY <1>1, KeptSteps
<1>3. s[n] \in T /\ r = k[n - 1]
  OBVIOUS
<1>4. r \in Seq(S)
  BY <1>1, KeptFits DEF Fits
<1>. HIDE DEF k, n, q, r
<1>5. q = Append(r, s[n])
  BY <1>1, <1>2, <1>3
<1>6. q # <<>> /\ q[Len(q)] = s[n]
  BY <1>4, <1>5
<1>. QED
  BY <1>6 DEF q, n

(* One more element at the end is kept or not, when the others are kept as  *)
(* before.                                                                  *)
LEMMA SieveGrows ==
    ASSUME NEW S, NEW s \in Seq(S), NEW x \in S, NEW T, NEW U,
           \A i \in DOMAIN s : s[i] \in T <=> s[i] \in U
    PROVE  Sieve(Append(s, x), U) = IF x \in U THEN Append(Sieve(s, T), x) ELSE Sieve(s, T)
<1>. DEFINE n == Len(s)
            t == Append(s, x)
            k == Kept(s, T)
            l == Kept(t, U)
            C == {i \in 0 .. n : k[i] # l[i]}
<1>1. /\ n \in Nat /\ Len(t) = n + 1 /\ t[n + 1] = x /\ DOMAIN s = 1 .. n
      /\ \A i \in 1 .. n : t[i] = s[i]
  OBVIOUS
<1>2. /\ k[0] = <<>> /\ Sieve(s, T) = k[n]
      /\ \A i \in 1 .. n : k[i] = IF s[i] \in T THEN Append(k[i - 1], s[i]) ELSE k[i - 1]
  BY <1>1, KeptSteps
<1>3. /\ l[0] = <<>> /\ Sieve(t, U) = l[n + 1]
      /\ \A i \in 1 .. n + 1 : l[i] = IF t[i] \in U THEN Append(l[i - 1], t[i]) ELSE l[i - 1]
  <2>1. Len(t) \in Nat
    BY <1>1
  <2>. HIDE DEF t
  <2>. QED
    BY <1>1, <2>1, KeptSteps
<1>. HIDE DEF n, t, k, l
<1>4. C = {}
  <2>1. SUFFICES ASSUME C # {} PROVE FALSE
    OBVIOUS
  <2>2. PICK m \in C : \A y \in C : m <= y
    <3>1. C \subseteq Nat
      BY <1>1
    <3>. HIDE DEF C
    <3>. QED
      BY <2>1, <3>1, LeastNat
  <2>3. m \in 1 .. n /\ m - 1 \in 0 .. n /\ m - 1 \notin C
    <3>1. m \in 0 .. n /\ m # 0
      BY <1>2, <1>3
    <3>2. m \in 1 .. n /\ m - 1 \in 0 .. n /\ ~(m <= m - 1)
      BY <1>1, <3>1
    <3>. HIDE DEF C
    <3>. QED
      BY <2>2, <3>2
  <2>4. k[m - 1] = l[m - 1] /\ t[m] = s[m] /\ m \in 1 .. n + 1
    BY <1>1, <2>3
  <2>5. k[m] = l[m]
    BY <1>1, <1>2, <1>3, <2>3, <2>4
  <2>. QED
    BY <2>2, <2>5
<1>5. k[n] = l[n]
  BY <1>1, <1>4
<1>6. n + 1 \in 1 .. n + 1 /\ n + 1 - 1 = n
  BY <1>1
<1>7. l[n + 1] = IF x \in U THEN Append(k[n], x) ELSE k[n]
  BY <1>1, <1>3, <1>5, <1>6
<1>. QED
  BY <1>2, <1>3, <1>7 DEF t
=============================================================================
