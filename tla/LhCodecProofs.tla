--------------------------- MODULE LhCodecProofs ---------------------------
(***************************************************************************)
(* Proofs about LhCodec: for rings, windows and tables of any size and for *)
(* every input, the cursors of a chained encoder stay where they belong,   *)
(* every step takes a call nearer to its end, and what LArc encoders and   *)
(* those that copy write is read back.                                     *)
(*                                                                         *)
(* First numbers, sets of them, and functions that are defined by          *)
(* recursion; then what an encoder's operators return; then the calls; and *)
(* for what is read back, windows, flags and the items of an output.       *)
(***************************************************************************)
EXTENDS LhCodec, TLAPS, FiniteSetTheorems, SequenceTheorems, WellFoundedInduction

-----------------------------------------------------------------------------
(* Numbers.                                                                *)

(* A remainder is less than what is divided by.                            *)
LEMMA Remainder ==
    ASSUME NEW a \in Int, NEW n \in Nat \ {0}
    PROVE  /\ a % n \in 0 .. n - 1
           /\ a \div n \in Int
           /\ a = n * (a \div n) + (a % n)
OBVIOUS

LEMMA Quotient ==
    ASSUME NEW a \in Nat, NEW n \in Nat \ {0}
    PROVE  a \div n \in Nat /\ a % n \in Nat /\ a % n < n
<1>1. /\ a % n \in 0 .. n - 1 /\ a \div n \in Int
      /\ a = n * (a \div n) + (a % n)
  BY Remainder
<1>2. a \div n <= -1 => n * (a \div n) <= -n
  BY <1>1
<1> QED BY <1>1, <1>2

LEMMA RemainderIs ==
    ASSUME NEW n \in Nat \ {0}, NEW q \in Int, NEW r \in 0 .. n - 1
    PROVE  (n * q + r) % n = r
<1> DEFINE a == n * q + r
           d == q - (a \div n)
<1>1. a \in Int /\ n * q \in Int
  OBVIOUS
<1>2. /\ a % n \in 0 .. n - 1 /\ a \div n \in Int
      /\ a = n * (a \div n) + (a % n)
  BY <1>1, Remainder
<1>3. n * d = (a % n) - r
  BY <1>2
<1>4. d >= 1 => n * d >= n
  BY <1>2
<1>5. d <= -1 => n * d <= -n
  BY <1>2
<1>6. d = 0
  BY <1>2, <1>3, <1>4, <1>5
<1>7. n * d = 0
  BY <1>6
<1> QED BY <1>2, <1>3, <1>7

(* One further round a ring.                                               *)
LEMMA RoundTheRing ==
    ASSUME NEW a \in Int, NEW n \in Nat \ {0}
    PROVE  ((a % n) + 1) % n = (a + 1) % n
<1> DEFINE q == a \div n
           r == a % n
<1>1. q \in Int /\ r \in 0 .. n - 1 /\ a = n * q + r
  BY Remainder
<1> HIDE DEF q, r
<1>2. CASE r + 1 = n
  <2>1. (n * (q + 1) + 0) % n = 0 /\ (n * 1 + 0) % n = 0
    BY <1>1, RemainderIs, SMT
  <2>2. n * (q + 1) + 0 = a + 1 /\ n * 1 + 0 = r + 1
    BY <1>1, <1>2
  <2>3. (a + 1) % n = 0 /\ (r + 1) % n = 0
    BY <2>1, <2>2, Zenon
  <2> QED BY <2>3 DEF r
<1>3. CASE r + 1 # n
  <2>0. r + 1 \in 0 .. n - 1
    BY <1>1, <1>3
  <2>1. (n * q + (r + 1)) % n = r + 1 /\ (n * 0 + (r + 1)) % n = r + 1
    BY <1>1, <2>0, RemainderIs, SMT
  <2>2. n * q + (r + 1) = a + 1 /\ n * 0 + (r + 1) = r + 1
    BY <1>1
  <2>3. (a + 1) % n = r + 1 /\ (r + 1) % n = r + 1
    BY <2>1, <2>2, Zenon
  <2> QED BY <2>3 DEF r
<1> QED BY <1>2, <1>3

(* Fewer steps than the ring has places do not lead back.                  *)
LEMMA RingDiffers ==
    ASSUME NEW a \in Int, NEW b \in Int, NEW n \in Nat \ {0}, a < b, b < a + n
    PROVE  a % n # b % n
<1> DEFINE p == a \div n
           q == b \div n
           d == q - p
<1>1. /\ p \in Int /\ q \in Int /\ a % n \in Int /\ b % n \in Int
      /\ a = n * p + (a % n) /\ b = n * q + (b % n)
  BY Remainder
<1> HIDE DEF p, q
<1>2. SUFFICES ASSUME a % n = b % n PROVE FALSE
  OBVIOUS
<1>3. n * d = b - a /\ d \in Int
  BY <1>1, <1>2
<1>4. d >= 1 => n * d >= n
  BY <1>1
<1>5. d <= 0 => n * d <= 0
  BY <1>1
<1> QED BY <1>3, <1>4, <1>5

-----------------------------------------------------------------------------
(* Sets of numbers.                                                        *)

LEMMA LeastMember ==
    ASSUME NEW S \in SUBSET Nat, S # {}
    PROVE  /\ Min(S) \in S
           /\ \A k \in S : Min(S) <= k
<1>1. PICK x \in S : \A y \in S : <<y, x>> \notin OpToRel(<, Nat)
  BY WFMin, NatLessThanWellFounded, Zenon
<1>2. \A y \in S : ~ (y < x)
  BY <1>1, Zenon DEF OpToRel
<1>3. \E z \in S : \A y \in S : z =< y
  BY <1>2
<1> QED BY <1>3, Zenon DEF Min

(* Of finitely many values, none above a bound, one is the largest.        *)
LEMMA LargestValue ==
    ASSUME NEW D, D # {}, NEW f \in [D -> Nat], NEW most \in Nat, \A i \in D : f[i] <= most
    PROVE  \E i \in D : \A j \in D : f[j] <= f[i]
<1> DEFINE S == {most - f[i] : i \in D}
<1>1. S \in SUBSET Nat /\ S # {}
  OBVIOUS
<1> HIDE DEF S
<1>2. Min(S) \in S /\ \A k \in S : Min(S) <= k
  BY <1>1, LeastMember
<1>3. PICK i \in D : Min(S) = most - f[i]
  BY <1>2 DEF S
<1>4. \A j \in D : most - f[i] <= most - f[j]
  BY <1>2, <1>3 DEF S
<1>5. \A j \in D : f[j] <= f[i]
  <2> TAKE j \in D
  <2>1. f[i] \in Nat /\ f[j] \in Nat /\ most - f[i] <= most - f[j]
    BY <1>4
  <2> QED BY <2>1
<1> QED BY <1>5

LEMMA CountWithin ==
    ASSUME NEW n \in Nat, NEW S \in SUBSET (1 .. n)
    PROVE  Cardinality(S) \in 0 .. n
<1>1. IsFiniteSet(1 .. n) /\ Cardinality(1 .. n) = n
  <2>1. IsFiniteSet(1 .. n) /\ Cardinality(1 .. n) = IF 1 > n THEN 0 ELSE n - 1 + 1
    BY FS_Interval
  <2> QED BY <2>1
<1>2. IsFiniteSet(S) /\ Cardinality(S) <= Cardinality(1 .. n)
  BY <1>1, FS_Subset
<1>3. Cardinality(S) \in Nat
  BY <1>2, FS_CardinalityType
<1> QED BY <1>1, <1>2, <1>3

-----------------------------------------------------------------------------
(* Functions that are defined by recursion.                                *)

(* What holds of 0 and goes over to the next number holds of all up to n.  *)
LEMMA AllUpTo ==
    ASSUME NEW n \in Nat, NEW Held, 0 \in Held, \A j \in 1 .. n : j - 1 \in Held => j \in Held
    PROVE  \A j \in 0 .. n : j \in Held
<1> DEFINE Bad == {j \in 0 .. n : j \notin Held}
<1>1. SUFFICES ASSUME Bad # {} PROVE FALSE
  OBVIOUS
<1>2. Min(Bad) \in Bad /\ \A k \in Bad : Min(Bad) <= k
  BY <1>1, LeastMember
<1> DEFINE b == Min(Bad)
<1>3. b \in 1 .. n /\ b \notin Held
  BY <1>2
<1>4. b - 1 \in 0 .. n /\ ~ (b <= b - 1)
  BY <1>3
<1>5. b - 1 \in Held
  BY <1>2, <1>4
<1> QED BY <1>3, <1>5

(* A value for each number, taken from the one before it.                  *)
LEMMA Iterates ==
    ASSUME NEW S, NEW a \in S, NEW n \in Nat, NEW step \in [1 .. n -> [S -> S]]
    PROVE  \E g \in [0 .. n -> S] :
              g[0] = a /\ \A j \in 1 .. n : g[j] = step[j][g[j - 1]]
<1> DEFINE Runs(k) == {g \in [0 .. k -> S] :
                          g[0] = a /\ \A j \in 1 .. k : g[j] = step[j][g[j - 1]]}
           Held == {k \in 0 .. n : Runs(k) # {}}
<1>1. 0 \in Held
  <2>1. [i \in 0 .. 0 |-> a] \in Runs(0)
    OBVIOUS
  <2> QED BY <2>1
<1>2. ASSUME NEW k \in 1 .. n, k - 1 \in Held PROVE k \in Held
  <2>1. PICK g \in [0 .. k - 1 -> S] :
           g[0] = a /\ \A j \in 1 .. k - 1 : g[j] = step[j][g[j - 1]]
    BY <1>2
  <2> DEFINE h == [i \in 0 .. k |-> IF i = k THEN step[k][g[k - 1]] ELSE g[i]]
  <2>2. step[k] \in [S -> S] /\ g[k - 1] \in S
    OBVIOUS
  <2>3. h \in [0 .. k -> S]
    BY <2>2
  <2>4. h[0] = a
    BY <2>1
  <2>5. ASSUME NEW j \in 1 .. k PROVE h[j] = step[j][h[j - 1]]
    <3>1. j - 1 \in 0 .. k /\ j - 1 # k
      OBVIOUS
    <3>2. h[j - 1] = g[j - 1]
      BY <3>1
    <3>3. CASE j = k
      BY <3>2, <3>3
    <3>4. CASE j # k
      BY <3>2, <3>4, <2>1
    <3> QED BY <3>3, <3>4
  <2>6. h \in Runs(k)
    BY <2>3, <2>4, <2>5
  <2> HIDE DEF Runs, h
  <2>7. Runs(k) # {}
    BY <2>6
  <2> QED BY <2>7
<1> HIDE DEF Held
<1>3. \A j \in 0 .. n : j \in Held
  BY <1>1, <1>2, AllUpTo
<1>4. n \in Held
  BY <1>3
<1> QED BY <1>4 DEF Held

-----------------------------------------------------------------------------
(* The constants and the input.                                            *)

LEMMA Constants ==
    /\ Threshold \in Nat \ {0} /\ MaxMatch \in Nat /\ Threshold < MaxMatch
    /\ \A m \in Chained : /\ Ring[m] \in Nat \ {0} /\ MaxMatch <= Ring[m]
                          /\ LenCodes[m] \in Nat \ {0} /\ DistTable[m] \in Nat \ {0}
    /\ \A m \in LArc : LzWindow[m] \in Nat \ {0} /\ LzMax[m] \in 0 .. LzWindow[m]
    /\ PerExtra \in Nat \ {0} /\ LowRange \in Nat \ {0} /\ LenRange \in Nat \ {0}
    /\ TopFlag \in Nat \ {0} /\ Bytes \in Nat /\ Spares \subseteq Nat
<1>1. \A m \in Chained : Ring[m] # 0
  BY CodecAssumption
<1> QED BY <1>1, CodecAssumption

LEMMA InputBytes ==
    ASSUME input \in Inputs
    PROVE  /\ Size \in Nat \ {0}
           /\ \A i \in 0 .. Size - 1 : Text(i) \in 0 .. Bytes - 1
<1>1. input \in Seq(0 .. Bytes - 1) /\ input # <<>>
  BY CodecAssumption
<1>2. Len(input) \in Nat \ {0}
  BY <1>1
<1>3. ASSUME NEW i \in 0 .. Size - 1 PROVE Text(i) \in 0 .. Bytes - 1
  <2>1. i + 1 \in 1 .. Len(input)
    BY <1>2 DEF Size
  <2>2. input[i + 1] \in 0 .. Bytes - 1
    BY <1>1, <2>1, ElementOfSeq, Zenon
  <2> QED BY <2>2 DEF Text
<1> QED BY <1>2, <1>3 DEF Size

LEMMA AlikeFacts ==
    ASSUME NEW win, NEW size, NEW p, NEW i, NEW most \in Nat
    PROVE  /\ Alike(win, size, p, i, most) \in 0 .. most
           /\ \A k \in 0 .. Alike(win, size, p, i, most) - 1 : win[(p + k) % size] = Text(i + k)
<1> DEFINE S == {k \in 0 .. most : k = most \/ win[(p + k) % size] # Text(i + k)}
<1>1. S \in SUBSET Nat /\ most \in S
  OBVIOUS
<1> HIDE DEF S
<1>2. Min(S) \in S /\ \A k \in S : Min(S) <= k
  BY <1>1, LeastMember
<1>3. Min(S) \in 0 .. most
  BY <1>2 DEF S
<1>4. ASSUME NEW k \in 0 .. Min(S) - 1 PROVE win[(p + k) % size] = Text(i + k)
  <2>1. k \notin S /\ k \in 0 .. most
    BY <1>2, <1>3
  <2> QED BY <2>1 DEF S
<1> QED BY <1>3, <1>4 DEF S, Alike

-----------------------------------------------------------------------------
(* The encoders' rings.                                                    *)

Rings(m) ==
    [win : [0 .. Ring[m] - 1 -> (0 .. Bytes - 1) \cup {Space}],
     head : [0 .. Bytes - 1 -> 0 .. Ring[m]], link : [0 .. Ring[m] - 1 -> 0 .. Ring[m]],
     w : 0 .. Ring[m] - 1, start : Nat, ahead : Int, inserted : Nat]

(* The j-th string that went in, c bytes being there before.               *)
Place(m, c, j) == (c + j) % Ring[m]

(* Chains lead to strings that went in before, until the ring is full.     *)
Older(m, c, j, p) == p = Ring[m] \/ \E i \in 0 .. j - 1 : p = Place(m, c, i)
Linked(m, c, e) ==
    /\ e.w = Place(m, c, e.inserted)
    /\ e.inserted <= Ring[m] =>
          /\ \A b \in 0 .. Bytes - 1 : Older(m, c, e.inserted, e.head[b])
          /\ \A j \in 0 .. e.inserted - 1 : Older(m, c, j, e.link[Place(m, c, j)])

LEMMA FreshRings ==
    ASSUME NEW m \in Chained, input \in Inputs, NEW c \in 1 .. Size, c <= Ring[m]
    PROVE  /\ Fresh(m, c) \in Rings(m)
           /\ Linked(m, c, Fresh(m, c))
<1> USE Constants
<1>1. /\ Size \in Nat /\ \A i \in 0 .. Size - 1 : Text(i) \in 0 .. Bytes - 1
      /\ Ring[m] \in Nat \ {0} /\ Bytes \in Nat
  BY InputBytes
<1>2. c % Ring[m] \in 0 .. Ring[m] - 1
  <2>1. c \in Int /\ Ring[m] \in Nat \ {0}
    BY <1>1
  <2> QED BY <2>1, Remainder
<1>3. \A i \in 0 .. Ring[m] - 1 : i < c => Text(i) \in 0 .. Bytes - 1
  BY <1>1
<1>4. [i \in 0 .. Ring[m] - 1 |-> IF i < c THEN Text(i) ELSE Space]
         \in [0 .. Ring[m] - 1 -> (0 .. Bytes - 1) \cup {Space}]
  BY <1>3
<1>5. Fresh(m, c) \in Rings(m)
  BY <1>1, <1>2, <1>4 DEF Fresh, Rings
<1>6. Linked(m, c, Fresh(m, c))
  BY <1>1 DEF Linked, Older, Place, Fresh
<1> QED BY <1>5, <1>6

LEMMA InsertRings ==
    ASSUME NEW m \in Chained, NEW e \in Rings(m), NEW b \in 0 .. Bytes - 1
    PROVE  LET f == Insert(m, e, b)
           IN /\ f \in Rings(m)
              /\ f.start = e.start /\ f.ahead = e.ahead /\ f.inserted = e.inserted + 1
              /\ \A c \in Nat : Linked(m, c, e) => Linked(m, c, f)
<1> DEFINE f == Insert(m, e, b)
<1>1. Ring[m] \in Nat \ {0} /\ Bytes \in Nat
  BY Constants
<1>2. (e.w + 1) % Ring[m] \in 0 .. Ring[m] - 1
  <2>1. e.w + 1 \in Int
    BY DEF Rings
  <2> QED BY <1>1, <2>1, Remainder
<1>3. f \in Rings(m)
  <2>1. /\ e.win \in [0 .. Ring[m] - 1 -> (0 .. Bytes - 1) \cup {Space}]
        /\ e.head \in [0 .. Bytes - 1 -> 0 .. Ring[m]]
        /\ e.link \in [0 .. Ring[m] - 1 -> 0 .. Ring[m]] /\ e.w \in 0 .. Ring[m] - 1
        /\ e.start \in Nat /\ e.ahead \in Int /\ e.inserted \in Nat
    BY DEF Rings
  <2>2. /\ [e.win EXCEPT ![e.w] = b] \in [0 .. Ring[m] - 1 -> (0 .. Bytes - 1) \cup {Space}]
        /\ [e.head EXCEPT ![b] = e.w] \in [0 .. Bytes - 1 -> 0 .. Ring[m]]
        /\ [e.link EXCEPT ![e.w] = e.head[b]] \in [0 .. Ring[m] - 1 -> 0 .. Ring[m]]
    BY <1>1, <2>1
  <2>3. f = [e EXCEPT !.win = [e.win EXCEPT ![e.w] = b], !.head = [e.head EXCEPT ![b] = e.w],
                      !.link = [e.link EXCEPT ![e.w] = e.head[b]],
                      !.w = (e.w + 1) % Ring[m], !.inserted = e.inserted + 1]
    BY DEF Insert, Rings
  <2>4. ASSUME NEW W, NEW H, NEW L, NEW P, NEW N, NEW w1 \in W, NEW h \in H, NEW l \in L,
               NEW p \in P, NEW n \in N,
               NEW r \in [win : W, head : H, link : L, w : P, start : Nat, ahead : Int, inserted : N]
        PROVE  [r EXCEPT !.win = w1, !.head = h, !.link = l, !.w = p, !.inserted = n]
                  \in [win : W, head : H, link : L, w : P, start : Nat, ahead : Int, inserted : N]
    OBVIOUS
  <2>5. e.inserted + 1 \in Nat
    BY <2>1
  <2> HIDE DEF f
  <2> QED BY <1>2, <2>2, <2>3, <2>4, <2>5, Zenon DEF Rings
<1>4. /\ f.start = e.start /\ f.ahead = e.ahead /\ f.inserted = e.inserted + 1
      /\ f.w = (e.w + 1) % Ring[m]
      /\ f.head = [e.head EXCEPT ![b] = e.w] /\ f.link = [e.link EXCEPT ![e.w] = e.head[b]]
  BY DEF Insert, Rings
<1>5. ASSUME NEW c \in Nat, Linked(m, c, e) PROVE Linked(m, c, f)
  <2>1. e.inserted \in Nat /\ e.w = (c + e.inserted) % Ring[m] /\ c + e.inserted \in Int
    BY <1>5 DEF Linked, Place, Rings
  <2>2. f.w = Place(m, c, f.inserted)
    <3>1. (((c + e.inserted) % Ring[m]) + 1) % Ring[m] = (c + e.inserted + 1) % Ring[m]
      BY <1>1, <2>1, RoundTheRing
    <3>2. c + e.inserted + 1 = c + (e.inserted + 1)
      BY <2>1
    <3> QED BY <1>4, <2>1, <3>1, <3>2, Zenon DEF Place
  <2>3. ASSUME f.inserted <= Ring[m]
        PROVE  /\ \A x \in 0 .. Bytes - 1 : Older(m, c, f.inserted, f.head[x])
               /\ \A j \in 0 .. f.inserted - 1 : Older(m, c, j, f.link[Place(m, c, j)])
    <3>1. /\ \A x \in 0 .. Bytes - 1 : Older(m, c, e.inserted, e.head[x])
          /\ \A j \in 0 .. e.inserted - 1 : Older(m, c, j, e.link[Place(m, c, j)])
      BY <1>1, <1>4, <2>1, <2>3, <1>5 DEF Linked
    <3>2. e.w = Place(m, c, e.inserted) /\ e.w \in 0 .. Ring[m] - 1
      BY <2>1 DEF Place, Rings
    <3>3. ASSUME NEW x \in 0 .. Bytes - 1 PROVE Older(m, c, f.inserted, f.head[x])
      <4>1. CASE x = b
        <5>1. f.head[x] = Place(m, c, e.inserted) /\ e.inserted \in 0 .. f.inserted - 1
          <6>1. e.head \in [0 .. Bytes - 1 -> 0 .. Ring[m]]
            BY DEF Rings
          <6>2. f.head[x] = e.w
            BY <1>4, <4>1, <6>1, Zenon
          <6> QED BY <1>4, <2>1, <3>2, <6>2
        <5> QED BY <5>1 DEF Older
      <4>2. CASE x # b
        <5>1. f.head[x] = e.head[x]
          BY <1>4, <4>2 DEF Rings
        <5>2. 0 .. e.inserted - 1 \subseteq 0 .. f.inserted - 1
          BY <1>4, <2>1
        <5> QED BY <3>1, <5>1, <5>2 DEF Older
      <4> QED BY <4>1, <4>2
    <3>4. ASSUME NEW j \in 0 .. f.inserted - 1 PROVE Older(m, c, j, f.link[Place(m, c, j)])
      <4>1. CASE j = e.inserted
        <5>1. f.link[Place(m, c, j)] = e.head[b]
          BY <1>4, <3>2, <4>1 DEF Rings
        <5> QED BY <3>1, <4>1, <5>1
      <4>2. CASE j # e.inserted
        <5>1. j \in 0 .. e.inserted - 1 /\ j \in Int
          BY <1>4, <2>1, <4>2
        <5>2. c + j \in Int /\ c + j < c + e.inserted /\ c + e.inserted < c + j + Ring[m]
          BY <1>1, <1>4, <2>1, <2>3, <5>1
        <5>3. Place(m, c, j) # e.w
          BY <1>1, <2>1, <5>2, RingDiffers DEF Place
        <5>4. f.link[Place(m, c, j)] = e.link[Place(m, c, j)]
          <6>1. Place(m, c, j) \in 0 .. Ring[m] - 1
            BY <1>1, <5>2, Remainder DEF Place
          <6> QED BY <1>4, <5>3, <6>1 DEF Rings
        <5> QED BY <3>1, <5>1, <5>4
      <4> QED BY <4>1, <4>2
    <3> QED BY <3>3, <3>4
  <2> QED BY <2>2, <2>3 DEF Linked
<1> QED BY <1>3, <1>4, <1>5
-----------------------------------------------------------------------------
(* What an item takes.                                                     *)

(* Rings e have become f when n strings went in.                           *)
Grown(m, e, f, n) ==
    /\ f \in Rings(m)
    /\ f.start = e.start + n /\ f.ahead = e.ahead - n /\ f.inserted = e.inserted + n
    /\ \A c \in Nat : Linked(m, c, e) => Linked(m, c, f)

LEMMA TakeByte ==
    ASSUME NEW m \in Chained, NEW e \in Rings(m), NEW b \in 0 .. Bytes - 1
    PROVE  Grown(m, e, Take(Insert(m, e, b)), 1)
<1> DEFINE f == Insert(m, e, b)
           g == Take(f)
<1>1. /\ f \in Rings(m)
      /\ f.start = e.start /\ f.ahead = e.ahead /\ f.inserted = e.inserted + 1
      /\ \A c \in Nat : Linked(m, c, e) => Linked(m, c, f)
  BY InsertRings
<1> HIDE DEF f
<1>2. /\ g.w = f.w /\ g.head = f.head /\ g.link = f.link /\ g.inserted = f.inserted
      /\ g.start = f.start + 1 /\ g.ahead = f.ahead - 1
  BY <1>1 DEF Take, Rings
<1>3. g \in Rings(m)
  <2>1. f.start + 1 \in Nat /\ f.ahead - 1 \in Int
    BY <1>1 DEF Rings
  <2>2. g = [f EXCEPT !.start = f.start + 1, !.ahead = f.ahead - 1]
    BY <1>1 DEF Take, Rings
  <2> HIDE DEF g
  <2> QED BY <1>1, <2>1, <2>2 DEF Rings
<1>4. \A c \in Nat : Linked(m, c, f) => Linked(m, c, g)
  BY <1>2, Zenon DEF Linked
<1> HIDE DEF g
<1>5. Grown(m, e, g, 1)
  BY <1>1, <1>2, <1>3, <1>4 DEF Grown
<1> QED BY <1>5 DEF f, g

LEMMA GrownFurther ==
    ASSUME NEW m \in Chained, NEW e \in Rings(m), NEW f, NEW g, NEW i \in Nat, NEW j \in Nat,
           Grown(m, e, f, i), Grown(m, f, g, j)
    PROVE  Grown(m, e, g, i + j)
<1>1. e.start \in Nat /\ e.ahead \in Int /\ e.inserted \in Nat
  BY DEF Rings
<1> QED BY <1>1 DEF Grown

(* How many bytes of a match the loop takes.                               *)
Takes(e, k) == IF e.start < Size THEN Least(k, Size - e.start) ELSE 0

LEMMA TakeMatchGrows ==
    ASSUME NEW m \in Chained, input \in Inputs, NEW e \in Rings(m), NEW k \in Nat
    PROVE  Takes(e, k) \in 0 .. k /\ Grown(m, e, TakeMatch(m, e, k), Takes(e, k))
<1> DEFINE taken[j \in 0 .. k] == IF j = 0 THEN e ELSE TakeNext(m, taken[j - 1])
           next(f) == [j \in 0 .. k |-> IF j = 0 THEN e ELSE TakeNext(m, f[j - 1])]
           step == [j \in 1 .. k |-> [s \in Rings(m) |-> TakeNext(m, s)]]
           Held == {j \in 0 .. k : Takes(e, j) \in 0 .. j /\ Grown(m, e, taken[j], Takes(e, j))}
<1>1. /\ Size \in Nat /\ \A i \in 0 .. Size - 1 : Text(i) \in 0 .. Bytes - 1
      /\ e.start \in Nat /\ e.ahead \in Int /\ e.inserted \in Nat
  BY InputBytes DEF Rings
<1>2. \A s \in Rings(m) : s.start \in Nat /\ (s.start < Size => Grown(m, s, TakeNext(m, s), 1))
  <2> TAKE s \in Rings(m)
  <2>1. s.start \in Nat
    BY DEF Rings
  <2>2. ASSUME s.start < Size PROVE Grown(m, s, TakeNext(m, s), 1)
    <3>1. Text(s.start) \in 0 .. Bytes - 1
      BY <1>1, <2>1, <2>2
    <3> QED BY <2>2, <3>1, TakeByte DEF TakeNext
  <2> QED BY <2>1, <2>2
<1>3. \A s \in Rings(m) : TakeNext(m, s) \in Rings(m)
  <2> TAKE s \in Rings(m)
  <2>1. CASE s.start < Size
    BY <1>2, <2>1 DEF Grown
  <2>2. CASE ~ (s.start < Size)
    BY <2>2 DEF TakeNext
  <2> QED BY <2>1, <2>2
<1>4. step \in [1 .. k -> [Rings(m) -> Rings(m)]]
  BY <1>3
<1>5. PICK g \in [0 .. k -> Rings(m)] :
         g[0] = e /\ \A j \in 1 .. k : g[j] = step[j][g[j - 1]]
  <2> HIDE DEF step
  <2> QED BY <1>4, Iterates, SMTT(30)
<1>6. g = next(g)
  <2>1. ASSUME NEW j \in 1 .. k PROVE j - 1 \in 0 .. k /\ g[j] = TakeNext(m, g[j - 1])
    <3>1. j - 1 \in 0 .. k
      OBVIOUS
    <3>2. g[j - 1] \in Rings(m)
      BY <1>5, <3>1
    <3>3. step[j] = [s \in Rings(m) |-> TakeNext(m, s)]
      OBVIOUS
    <3>4. g[j] = step[j][g[j - 1]]
      BY <1>5
    <3> HIDE DEF step
    <3> QED BY <3>1, <3>2, <3>3, <3>4
  <2>2. \A j \in 0 .. k : g[j] = IF j = 0 THEN e ELSE TakeNext(m, g[j - 1])
    BY <1>5, <2>1
  <2> QED BY <2>2
<1>7. taken = next(taken)
  BY <1>6 DEF taken
<1> HIDE DEF taken
<1>8. taken[0] = e /\ \A j \in 1 .. k : taken[j] = TakeNext(m, taken[j - 1])
  BY <1>7
<1>9. 0 \in Held
  <2>1. Takes(e, 0) = 0
    BY <1>1 DEF Takes, Least
  <2>2. Grown(m, e, e, 0)
    BY <1>1 DEF Grown
  <2> QED BY <1>8, <2>1, <2>2
<1>10. ASSUME NEW j \in 1 .. k, j - 1 \in Held PROVE j \in Held
  <2> DEFINE s == taken[j - 1]
             n == Takes(e, j - 1)
  <2>1. n \in 0 .. j - 1 /\ Grown(m, e, s, n) /\ taken[j] = TakeNext(m, s)
    BY <1>8, <1>10
  <2> HIDE DEF s
  <2>2. s \in Rings(m) /\ s.start = e.start + n
    BY <2>1 DEF Grown
  <2>3. CASE s.start < Size
    <3>1. n = j - 1 /\ Takes(e, j) = n + 1
      BY <1>1, <2>1, <2>2, <2>3 DEF Takes, Least
    <3> HIDE DEF n
    <3>2. n \in Nat /\ n + 1 \in 0 .. j /\ j \in 0 .. k
      BY <2>1, <3>1
    <3>3. Grown(m, s, taken[j], 1)
      BY <1>2, <2>1, <2>2, <2>3
    <3>4. Grown(m, e, taken[j], n + 1)
      BY <2>1, <3>2, <3>3, GrownFurther
    <3> QED BY <3>1, <3>2, <3>4
  <2>4. CASE ~ (s.start < Size)
    <3>1. Takes(e, j) = n
      BY <1>1, <2>1, <2>2, <2>4 DEF Takes, Least
    <3>2. taken[j] = s
      BY <2>1, <2>4 DEF TakeNext
    <3>3. n \in 0 .. j /\ j \in 0 .. k
      BY <2>1
    <3> HIDE DEF n
    <3> QED BY <2>1, <3>1, <3>2, <3>3
  <2> QED BY <2>3, <2>4
<1>11. TakeMatch(m, e, k) = taken[k]
  BY DEF TakeMatch, taken
<1> HIDE DEF Held
<1>12. k \in Held
  <2>1. \A j \in 0 .. k : j \in Held
    BY <1>9, <1>10, AllUpTo
  <2> QED BY <2>1
<1> QED BY <1>11, <1>12 DEF Held

LEMMA RefillRings ==
    ASSUME NEW m \in Chained, input \in Inputs, NEW e \in Rings(m)
    PROVE  LET f == Refill(e)
           IN /\ f \in Rings(m) /\ Cur(f) = Cur(e) /\ e.start <= f.start /\ e.ahead <= f.ahead
              /\ e.start <= Size => f.start <= Size
              /\ f.start < Size => f.ahead >= MaxMatch - 1
              /\ f.w = e.w /\ f.inserted = e.inserted
              /\ \A c \in Nat : Linked(m, c, e) => Linked(m, c, f)
<1> DEFINE f == Refill(e)
           k == Least(MaxMatch - 1 - e.ahead, Size - e.start)
<1>1. /\ Size \in Nat /\ MaxMatch \in Nat
      /\ e.start \in Nat /\ e.ahead \in Int /\ e.inserted \in Nat
  BY InputBytes, Constants DEF Rings
<1>2. k \in Int /\ k <= MaxMatch - 1 - e.ahead /\ k <= Size - e.start
      /\ (k = MaxMatch - 1 - e.ahead \/ k = Size - e.start)
  BY <1>1 DEF Least
<1> HIDE DEF k
<1>3. CASE k <= 0
  <2>1. f = e
    BY <1>3 DEF Refill, k
  <2> QED BY <1>1, <1>2, <1>3, <2>1
<1>4. CASE k > 0
  <2>1. f = [e EXCEPT !.start = @ + k, !.ahead = @ + k]
    BY <1>2, <1>4 DEF Refill, k
  <2> HIDE DEF f
  <2>2. /\ f.w = e.w /\ f.head = e.head /\ f.link = e.link /\ f.inserted = e.inserted
        /\ f.start = e.start + k /\ f.ahead = e.ahead + k
    BY <2>1 DEF Rings
  <2>3. f \in Rings(m)
    <3>1. e.start + k \in Nat /\ e.ahead + k \in Int
      BY <1>1, <1>2, <1>4
    <3> QED BY <2>1, <3>1 DEF Rings
  <2>4. \A c \in Nat : Linked(m, c, e) => Linked(m, c, f)
    BY <2>2, Zenon DEF Linked
  <2>5. Cur(f) = Cur(e)
    BY <1>1, <1>2, <2>2 DEF Cur
  <2>6. f.start < Size => f.ahead >= MaxMatch - 1
    BY <1>1, <1>2, <2>2
  <2> QED BY <1>1, <1>2, <1>4, <2>2, <2>3, <2>4, <2>5, <2>6 DEF f
<1> QED BY <1>2, <1>3, <1>4
-----------------------------------------------------------------------------
(* What a search finds.                                                    *)

LEMMA ChainPlaces ==
    ASSUME NEW m \in Chained, NEW e \in Rings(m), Text(Cur(e)) \in 0 .. Bytes - 1
    PROVE  /\ Chain(m, e) \in [0 .. Ring[m] -> 0 .. Ring[m]]
           /\ Chain(m, e)[0] = e.head[Text(Cur(e))]
           /\ \A n \in 1 .. Ring[m] :
                 Chain(m, e)[n] = IF Chain(m, e)[n - 1] = Ring[m] THEN Ring[m]
                                  ELSE e.link[Chain(m, e)[n - 1]]
<1> DEFINE N == Ring[m]
           S == 0 .. N
           first == e.head[Text(Cur(e))]
           After(p) == IF p = N THEN p ELSE e.link[p]
           place[n \in 0 .. N] == IF n = 0 THEN first ELSE After(place[n - 1])
           next(f) == [n \in 0 .. N |-> IF n = 0 THEN first ELSE After(f[n - 1])]
           step == [n \in 1 .. N |-> [p \in S |-> After(p)]]
           Held == {n \in 0 .. N : place[n] \in S}
<1>1. N \in Nat \ {0} /\ e.link \in [0 .. N - 1 -> S] /\ first \in S
  BY Constants DEF Rings
<1> HIDE DEF first
<1>2. \A p \in S : After(p) \in S
  <2> TAKE p \in S
  <2>1. p = N \/ p \in 0 .. N - 1
    BY <1>1
  <2> QED BY <1>1, <2>1
<1>3. step \in [1 .. N -> [S -> S]]
  BY <1>2
<1>4. PICK g \in [0 .. N -> S] : g[0] = first /\ \A n \in 1 .. N : g[n] = step[n][g[n - 1]]
  <2>1. N \in Nat
    BY <1>1
  <2> HIDE DEF step, S, N
  <2>2. first \in S
    BY <1>1
  <2> QED BY <1>3, <2>1, <2>2, Iterates
<1>5. g = next(g)
  <2>1. ASSUME NEW n \in 1 .. N PROVE g[n] = After(g[n - 1])
    <3>1. n - 1 \in 0 .. N
      BY <1>1
    <3>2. g[n - 1] \in S
      BY <1>4, <3>1
    <3>3. step[n] = [p \in S |-> After(p)] /\ g[n] = step[n][g[n - 1]]
      BY <1>4
    <3> HIDE DEF step, S, After
    <3> QED BY <3>2, <3>3
  <2> HIDE DEF After
  <2>2. \A n \in 0 .. N : g[n] = IF n = 0 THEN first ELSE After(g[n - 1])
    BY <1>4, <2>1
  <2> QED BY <2>2
<1>6. place = next(place)
  BY <1>5 DEF place
<1> HIDE DEF place
<1>7. place[0] = first /\ \A n \in 1 .. N : place[n] = After(place[n - 1])
  BY <1>1, <1>6
<1>8. 0 \in Held
  BY <1>1, <1>7
<1>9. ASSUME NEW n \in 1 .. N, n - 1 \in Held PROVE n \in Held
  <2>1. n \in 0 .. N
    OBVIOUS
  <2> HIDE DEF After, S
  <2> QED BY <1>2, <1>7, <1>9, <2>1
<1>10. \A n \in 0 .. N : n \in Held
  <2> HIDE DEF Held
  <2> QED BY <1>1, <1>8, <1>9, AllUpTo
<1>11. place \in [0 .. N -> S]
  <2>1. \A n \in 0 .. N : place[n] \in S
    BY <1>10
  <2> HIDE DEF S, After
  <2> QED BY <1>6, <2>1
<1>12. Chain(m, e) = place
  BY DEF Chain, place, first
<1> QED BY <1>7, <1>11, <1>12 DEF first

(* Until the ring is full every chain has an end.                          *)
LEMMA ChainEnds ==
    ASSUME NEW m \in Chained, NEW e \in Rings(m), Text(Cur(e)) \in 0 .. Bytes - 1,
           NEW c \in Nat, Linked(m, c, e), e.inserted <= Ring[m]
    PROVE  Chain(m, e)[Ring[m]] = Ring[m]
<1> DEFINE N == Ring[m]
           chain == Chain(m, e)
           Held == {n \in 0 .. N : chain[n] = N \/ \E j \in 0 .. e.inserted - 1 - n :
                                                       chain[n] = Place(m, c, j)}
<1>1. /\ N \in Nat \ {0} /\ e.inserted \in Nat /\ chain[0] = e.head[Text(Cur(e))]
      /\ \A n \in 1 .. N : chain[n] = IF chain[n - 1] = N THEN N ELSE e.link[chain[n - 1]]
  <2>1. N \in Nat \ {0} /\ e.inserted \in Nat
    BY Constants DEF Rings
  <2> QED BY <2>1, ChainPlaces, Zenon
<1> HIDE DEF chain
<1>2. /\ Older(m, c, e.inserted, e.head[Text(Cur(e))])
      /\ \A j \in 0 .. e.inserted - 1 : Older(m, c, j, e.link[Place(m, c, j)])
  BY DEF Linked
<1>3. 0 \in Held
  BY <1>1, <1>2 DEF Older
<1>4. ASSUME NEW n \in 1 .. N, n - 1 \in Held PROVE n \in Held
  <2>1. chain[n - 1] = N \/ \E j \in 0 .. e.inserted - 1 - (n - 1) : chain[n - 1] = Place(m, c, j)
    BY <1>4
  <2>2. CASE chain[n - 1] = N
    BY <1>1, <2>2
  <2>3. ASSUME chain[n - 1] # N PROVE n \in Held
    <3>1. PICK j \in 0 .. e.inserted - n : chain[n - 1] = Place(m, c, j)
      BY <1>1, <2>1, <2>3
    <3>2. chain[n] = e.link[Place(m, c, j)] /\ j \in 0 .. e.inserted - 1
      BY <1>1, <2>3, <3>1
    <3>3. Older(m, c, j, chain[n])
      BY <1>2, <3>2
    <3>4. 0 .. j - 1 \subseteq 0 .. e.inserted - 1 - n
      BY <1>1, <3>1
    <3>5. n \in 0 .. N
      OBVIOUS
    <3> QED BY <3>3, <3>4, <3>5 DEF Older
  <2> QED BY <2>2, <2>3
<1>5. N \in Held
  <2> HIDE DEF Held
  <2>1. \A n \in 0 .. N : n \in Held
    BY <1>1, <1>3, <1>4, AllUpTo
  <2> QED BY <1>1, <2>1
<1>6. 0 .. e.inserted - 1 - N = {}
  BY <1>1
<1>7. chain[N] = N
  BY <1>5, <1>6
<1> QED BY <1>7 DEF chain

(* A match lies within what is looked ahead at and within the input.       *)
Found(m, e, found) ==
    /\ found.length \in 0 .. Least(e.ahead, Size - Cur(e))
    /\ found.offset \in 0 .. Ring[m] - 1

LEMMA SearchFinds ==
    ASSUME NEW m \in Chained, input \in Inputs, NEW e \in Rings(m), e.ahead \in Nat,
           Cur(e) \in 0 .. Size - 1
    PROVE  /\ Search(m, e) = Endless \/ Found(m, e, Search(m, e))
           /\ \A c \in Nat : Linked(m, c, e) /\ e.inserted <= Ring[m] => Search(m, e) # Endless
<1> DEFINE N == Ring[m]
           most == Least(e.ahead, Size - Cur(e))
           chain == Chain(m, e)
           shared == [n \in {n \in 0 .. N : chain[n] # N} |-> Shared(m, e, chain[n])]
           good == {n \in DOMAIN shared : shared[n] >= Good[m]}
           seen == {n \in DOMAIN shared : \A k \in good : n <= k}
           best == {n \in seen : /\ shared[n] >= Threshold
                                 /\ \A k \in seen : shared[k] <= shared[n]}
           place == (e.w - chain[Min(best)]) % N
<1>1. /\ Size \in Nat /\ Text(Cur(e)) \in 0 .. Bytes - 1 /\ N \in Nat \ {0}
      /\ e.w \in 0 .. N - 1
  BY InputBytes, Constants DEF Rings
<1>2. chain \in [0 .. N -> 0 .. N]
  BY <1>1, ChainPlaces
<1>3. most \in Nat
  BY <1>1 DEF Least
<1>4. Search(m, e) = IF good = {} /\ N \in DOMAIN shared THEN Endless
                     ELSE IF best = {} THEN NoMatch
                     ELSE [length |-> shared[Min(best)], offset |-> place]
  BY DEF Search
<1>5. DOMAIN shared = {n \in 0 .. N : chain[n] # N}
  OBVIOUS
<1>6. \A n \in DOMAIN shared : shared[n] \in 0 .. most
  <2>1. \A p : Alike(e.win, N, p, Cur(e), most) \in 0 .. most
    BY <1>3, AlikeFacts
  <2>2. \A p : Shared(m, e, p) \in 0 .. most
    BY <2>1 DEF Shared
  <2> QED BY <2>2
<1>7. best \subseteq DOMAIN shared
  OBVIOUS
<1> HIDE DEF good, best, shared, chain, most
<1>8. CASE good = {} /\ N \in DOMAIN shared
  <2>1. Search(m, e) = Endless
    BY <1>4, <1>8
  <2>2. ASSUME NEW c \in Nat, Linked(m, c, e), e.inserted <= N PROVE FALSE
    <3>1. Chain(m, e)[N] = N
      BY <1>1, <2>2, ChainEnds
    <3> QED BY <1>5, <1>8, <3>1 DEF chain
  <2> QED BY <2>1, <2>2
<1>9. CASE ~ (good = {} /\ N \in DOMAIN shared) /\ best = {}
  <2>1. Search(m, e) = NoMatch
    BY <1>4, <1>9
  <2>2. NoMatch.length = 0 /\ NoMatch.offset = 0 /\ NoMatch # Endless
    BY DEF NoMatch, Endless
  <2> QED BY <1>1, <1>3, <2>1, <2>2 DEF Found, most
<1>10. CASE ~ (good = {} /\ N \in DOMAIN shared) /\ best # {}
  <2>1. Search(m, e) = [length |-> shared[Min(best)], offset |-> place]
    BY <1>4, <1>10
  <2>2. Min(best) \in DOMAIN shared
    <3>1. best \in SUBSET Nat
      BY <1>5, <1>7
    <3> QED BY <1>7, <1>10, <3>1, LeastMember
  <2>3. place \in 0 .. N - 1
    <3>1. chain[Min(best)] \in 0 .. N
      BY <1>2, <1>5, <2>2
    <3>2. e.w - chain[Min(best)] \in Int
      BY <1>1, <3>1
    <3> QED BY <1>1, <3>2, Remainder
  <2>4. shared[Min(best)] \in 0 .. most
    BY <1>6, <2>2
  <2> HIDE DEF place
  <2>5. Search(m, e).length \in 0 .. most /\ Search(m, e).offset \in 0 .. N - 1
    BY <2>1, <2>3, <2>4
  <2>6. Search(m, e) # Endless
    <3>1. Search(m, e).length # -1 /\ Endless.length = -1
      BY <1>3, <2>5 DEF Endless
    <3> QED BY <3>1
  <2> QED BY <2>5, <2>6 DEF Found, most
<1> QED BY <1>8, <1>9, <1>10
-----------------------------------------------------------------------------
(* A pass.                                                                 *)

(* The cursors of a pass, c bytes being in the ring before it.             *)
Coding(size, m, c, e) ==
    /\ e \in Rings(m) /\ Linked(m, c, e)
    /\ e.ahead >= 0 /\ Cur(e) >= 0 /\ Cur(e) <= size + 1
    /\ e.start < size => e.ahead >= Threshold

LEMMA FreshCodes ==
    ASSUME NEW m \in Chained, input \in Inputs, NEW most \in Nat, Threshold <= most, most <= Ring[m]
    PROVE  LET c == Least(Size, most)
           IN c \in Nat /\ Coding(Size, m, c, Fresh(m, c)) /\ Fresh(m, c).start <= Size
<1> DEFINE c == Least(Size, most)
           e == Fresh(m, c)
<1>1. /\ Size \in Nat \ {0} /\ Ring[m] \in Nat \ {0} /\ Threshold \in Nat \ {0}
  BY InputBytes, Constants
<1>2. c \in 1 .. Size /\ c <= Ring[m] /\ (c < Size => c >= Threshold)
  BY <1>1 DEF Least
<1> HIDE DEF c
<1>3. e \in Rings(m) /\ Linked(m, c, e)
  BY <1>2, FreshRings
<1>4. e.start = c /\ e.ahead = c
  BY DEF Fresh
<1> HIDE DEF e
<1>5. Cur(e) = 0
  BY <1>1, <1>2, <1>4 DEF Cur
<1>6. c \in Nat /\ Coding(Size, m, c, e) /\ e.start <= Size
  BY <1>1, <1>2, <1>3, <1>4, <1>5 DEF Coding
<1> QED BY <1>6 DEF c, e

(* An item leaves the cursors where they belong, and moves the one of the  *)
(* item, unless a match behind the last refill leaves it where it is.      *)
LEMMA ItemTaken ==
    ASSUME NEW m \in Chained, input \in Inputs, NEW c \in Nat, NEW e, Coding(Size, m, c, e),
           Cur(e) < Size, NEW found, Found(m, e, found)
    PROVE  LET f == Taken(m, e, found)
           IN /\ Coding(Size, m, c, f)
              /\ e.start < Size => f.start > e.start /\ f.start <= Size
              /\ Cur(f) > Cur(e) \/ (e.start >= Size /\ IsMatch(found) /\ Cur(f) = Cur(e))
<1> DEFINE n == IF IsMatch(found) THEN Takes(e, found.length) ELSE 1
           h == IF IsMatch(found) THEN TakeMatch(m, e, found.length) ELSE TakeLiteral(m, e)
           f == Taken(m, e, found)
<1>1. /\ Size \in Nat /\ MaxMatch \in Nat /\ Threshold \in Nat \ {0} /\ Threshold < MaxMatch
      /\ e \in Rings(m) /\ Linked(m, c, e)
      /\ e.start \in Nat /\ e.ahead \in Nat /\ e.inserted \in Nat
      /\ Cur(e) = e.start - e.ahead /\ Cur(e) \in 0 .. Size - 1
      /\ e.start < Size => e.ahead >= Threshold
  BY InputBytes, Constants, SMTT(30) DEF Coding, Rings, Cur
<1>2. /\ found.length \in Nat /\ found.length <= e.ahead /\ found.length <= Size - Cur(e)
  BY <1>1 DEF Found, Least
<1>3. /\ n \in Nat /\ Grown(m, e, h, n) /\ n <= e.ahead
      /\ e.start < Size => n >= 1 /\ e.start + n <= Size
      /\ n = 0 => e.start >= Size /\ IsMatch(found)
      /\ n = 1 \/ e.start + n <= Size \/ n = 0
  <2>1. CASE IsMatch(found)
    <3>1. Takes(e, found.length) \in 0 .. found.length
          /\ Grown(m, e, TakeMatch(m, e, found.length), Takes(e, found.length))
      BY <1>1, <1>2, TakeMatchGrows
    <3>2. found.length >= 1
      BY <1>1, <1>2, <2>1 DEF IsMatch
    <3>3. h = TakeMatch(m, e, found.length) /\ n = Takes(e, found.length)
      BY <2>1
    <3>4. /\ e.start < Size => n >= 1 /\ e.start + n <= Size
          /\ e.start >= Size => n = 0
      BY <1>1, <1>2, <3>2, <3>3 DEF Takes, Least
    <3> HIDE DEF n, h
    <3> QED BY <1>1, <1>2, <2>1, <3>1, <3>3, <3>4
  <2>2. CASE ~ IsMatch(found)
    <3>1. Text(Cur(e)) \in 0 .. Bytes - 1
      BY <1>1, InputBytes
    <3>2. h = Take(Insert(m, e, Text(Cur(e)))) /\ n = 1
      BY <2>2 DEF TakeLiteral
    <3>3. Grown(m, e, h, 1)
      BY <1>1, <3>1, <3>2, TakeByte
    <3>4. e.ahead >= 1
      BY <1>1
    <3> HIDE DEF n, h
    <3> QED BY <1>1, <3>2, <3>3, <3>4
  <2> QED BY <2>1, <2>2
<1>4. f = Refill(h)
  BY DEF Taken
<1> HIDE DEF n, h, f
<1>5. /\ h \in Rings(m) /\ Linked(m, c, h)
      /\ h.start = e.start + n /\ h.ahead = e.ahead - n
  BY <1>1, <1>3 DEF Grown
<1>6. Cur(h) = Cur(e) + n + n
  BY <1>1, <1>3, <1>5 DEF Cur
<1>7. /\ f \in Rings(m) /\ Cur(f) = Cur(h) /\ h.start <= f.start /\ h.ahead <= f.ahead
      /\ h.start <= Size => f.start <= Size
      /\ f.start < Size => f.ahead >= MaxMatch - 1
      /\ Linked(m, c, f)
  BY <1>4, <1>5, RefillRings
<1>8. f.start \in Nat /\ f.ahead \in Int
  BY <1>7 DEF Rings
<1>9. f.ahead >= 0 /\ Cur(f) >= 0
  BY <1>1, <1>3, <1>5, <1>6, <1>7, <1>8
<1>10. Cur(f) <= Size + 1
  BY <1>1, <1>3, <1>6, <1>7
<1>11. f.start < Size => f.ahead >= Threshold
  BY <1>1, <1>7, <1>8
<1>12. e.start < Size => f.start > e.start /\ f.start <= Size
  BY <1>1, <1>3, <1>5, <1>7, <1>8
<1>13. Cur(f) > Cur(e) \/ (e.start >= Size /\ IsMatch(found) /\ Cur(f) = Cur(e))
  BY <1>1, <1>3, <1>6, <1>7
<1> QED BY <1>7, <1>9, <1>10, <1>11, <1>12, <1>13 DEF Coding, f
-----------------------------------------------------------------------------
(* Codes.                                                                  *)

(* The sum of the counts is a number.                                      *)
LEMMA TotalNat ==
    ASSUME NEW D, NEW f \in [D -> Nat], IsFiniteSet(D)
    PROVE  Total(f) \in Nat
<1> DEFINE pick(s) == CHOOSE x \in s : TRUE
           n == Cardinality(D)
           small(k) == {s \in SUBSET D : Cardinality(s) <= k}
           sum(g, s) == IF s = {} THEN 0 ELSE f[pick(s)] + g[s \ {pick(s)}]
           iter[s \in SUBSET D] == IF s = {} THEN 0 ELSE f[pick(s)] + iter[s \ {pick(s)}]
           Held == {k \in 0 .. n : \E g \in [small(k) -> Nat] : \A s \in small(k) : g[s] = sum(g, s)}
           Typed == {k \in 0 .. n : \A s \in small(k) : iter[s] \in Nat}
<1>1. n \in Nat /\ \A s \in SUBSET D : IsFiniteSet(s) /\ Cardinality(s) \in 0 .. n
  <2>1. \A s \in SUBSET D : IsFiniteSet(s) /\ Cardinality(s) <= n
    BY FS_Subset
  <2> QED BY <2>1, FS_CardinalityType
<1>2. \A s \in SUBSET D : s # {} => /\ pick(s) \in s /\ f[pick(s)] \in Nat
                                    /\ Cardinality(s \ {pick(s)}) = Cardinality(s) - 1
  <2> TAKE s \in SUBSET D
  <2> HAVE s # {}
  <2>1. pick(s) \in s
    OBVIOUS
  <2> HIDE DEF pick
  <2> QED BY <1>1, <2>1, FS_RemoveElement
<1>3. small(0) = {{}}
  BY <1>1, FS_EmptySet
<1>4. ASSUME NEW k \in 1 .. n, NEW s \in small(k), s # {}
      PROVE  s \ {pick(s)} \in small(k - 1) /\ s \ {pick(s)} \in small(k) /\ f[pick(s)] \in Nat
  <2>1. Cardinality(s \ {pick(s)}) = Cardinality(s) - 1 /\ Cardinality(s) \in Nat
        /\ f[pick(s)] \in Nat /\ Cardinality(s) <= k
    BY <1>1, <1>2, <1>4
  <2> HIDE DEF pick
  <2> QED BY <2>1
<1>5. \A k \in 1 .. n : small(k - 1) \subseteq small(k)
  BY <1>1
<1> HIDE DEF pick, n
<1>6. 0 \in Held
  <2> DEFINE g == [s \in small(0) |-> 0]
  <2>1. g \in [small(0) -> Nat] /\ \A s \in small(0) : g[s] = sum(g, s)
    BY <1>3
  <2> HIDE DEF g, small, sum
  <2> QED BY <1>1, <2>1
<1>7. ASSUME NEW k \in 1 .. n, k - 1 \in Held PROVE k \in Held
  <2>1. PICK g \in [small(k - 1) -> Nat] : \A s \in small(k - 1) : g[s] = sum(g, s)
    BY <1>7
  <2> DEFINE h == [s \in small(k) |-> IF s \in small(k - 1) THEN g[s] ELSE sum(g, s)]
  <2>2. \A s \in small(k) : sum(g, s) \in Nat
    <3> HIDE DEF small
    <3> QED BY <1>4
  <2> HIDE DEF small
  <2>3. h \in [small(k) -> Nat]
    <3> HIDE DEF sum
    <3> QED BY <2>2
  <2>4. ASSUME NEW s \in small(k) PROVE h[s] = sum(h, s)
    <3>1. h[s] = sum(g, s)
      <4> HIDE DEF sum
      <4> QED BY <2>1
    <3>2. s # {} => h[s \ {pick(s)}] = g[s \ {pick(s)}]
      BY <1>4
    <3> HIDE DEF h
    <3> QED BY <3>1, <3>2
  <2>5. k \in 0 .. n
    BY <1>1
  <2> HIDE DEF sum, h
  <2> QED BY <2>3, <2>4, <2>5
<1>8. n \in Held
  <2> HIDE DEF Held
  <2>1. \A k \in 0 .. n : k \in Held
    BY <1>1, <1>6, <1>7, AllUpTo
  <2> QED BY <1>1, <2>1
<1>9. small(n) = SUBSET D
  BY <1>1
<1>10. PICK g \in [SUBSET D -> Nat] : \A s \in SUBSET D : g[s] = sum(g, s)
  <2> HIDE DEF small, sum
  <2> QED BY <1>8, <1>9
<1>11. g = [s \in SUBSET D |-> IF s = {} THEN 0 ELSE f[pick(s)] + g[s \ {pick(s)}]]
  BY <1>10
<1>12. iter = [s \in SUBSET D |-> IF s = {} THEN 0 ELSE f[pick(s)] + iter[s \ {pick(s)}]]
  BY <1>11 DEF iter
<1> HIDE DEF iter
<1>13. \A s \in SUBSET D : iter[s] = sum(iter, s)
  BY <1>12
<1>14. 0 \in Typed
  <2>1. \A s \in small(0) : s \in SUBSET D /\ s = {}
    BY <1>3
  <2>2. \A s \in small(0) : iter[s] = 0
    BY <1>13, <2>1
  <2> QED BY <1>1, <2>2
<1>15. ASSUME NEW k \in 1 .. n, k - 1 \in Typed PROVE k \in Typed
  <2>1. ASSUME NEW s \in small(k) PROVE iter[s] \in Nat
    <3>1. s \in SUBSET D /\ iter[s] = sum(iter, s)
      BY <1>13
    <3> HIDE DEF small
    <3>2. s # {} => iter[s \ {pick(s)}] \in Nat /\ f[pick(s)] \in Nat
      BY <1>4, <1>15
    <3> QED BY <3>1, <3>2
  <2>2. k \in 0 .. n
    BY <1>1
  <2> HIDE DEF small
  <2> QED BY <2>1, <2>2
<1>16. iter[D] \in Nat
  <2> HIDE DEF Typed
  <2>1. \A k \in 0 .. n : k \in Typed
    BY <1>1, <1>14, <1>15, AllUpTo
  <2>2. n \in Typed
    BY <1>1, <2>1
  <2> QED BY <1>9, <2>2 DEF Typed
<1>17. Total(f) = iter[D]
  BY DEF Total, FoldFunction, FoldFunctionOnSet, MapThenFoldSet, iter, pick
<1> QED BY <1>16, <1>17

LEMMA CodeLensPositive ==
    ASSUME NEW k \in Nat, NEW f \in [0 .. k - 1 -> Nat], NEW longest \in Nat \ {0}, NEW weight \in Nat
    PROVE  CodeLens(f, longest, weight) \in [0 .. k - 1 -> Nat \ {0}]
<1> DEFINE total == AtLeastOne(Total(f))
           share(i) == (AtLeastOne(f[i]) * weight) \div total
<1>1. Total(f) \in Nat
  <2>1. IsFiniteSet(0 .. k - 1)
    BY FS_Interval
  <2> QED BY <2>1, TotalNat
<1>2. total \in Nat \ {0}
  BY <1>1 DEF AtLeastOne
<1> HIDE DEF total
<1>3. ASSUME NEW i \in 0 .. k - 1 PROVE Within(longest - share(i), longest) \in Nat \ {0}
  <2> DEFINE n == AtLeastOne(f[i])
             s == (n * weight) \div total
  <2>1. n \in Nat
    BY DEF AtLeastOne
  <2> HIDE DEF n
  <2>2. n * weight \in Nat
    BY <2>1
  <2>3. s \in Int
    BY <1>2, <2>2, Remainder
  <2>4. Within(longest - s, longest) \in Nat \ {0}
    <3> HIDE DEF s
    <3> QED BY <2>3 DEF Within, Least
  <2> QED BY <2>4 DEF n
<1>4. CodeLens(f, longest, weight) = [i \in 0 .. k - 1 |-> Within(longest - share(i), longest)]
  BY DEF CodeLens, total
<1> HIDE DEF share
<1> QED BY <1>3, <1>4

(* The counts and the code lengths of an encoder.                          *)
Coded(m, T) == [code : [0 .. NumCodes(m) - 1 -> T], dist : [0 .. DistTable[m] - 1 -> T]]

LEMMA CodesFacts ==
    ASSUME NEW m \in Chained
    PROVE  /\ NumCodes(m) \in Nat \ {0} /\ DistTable[m] \in Nat \ {0}
           /\ NoCounts(m) \in Coded(m, Nat)
           /\ Preset \in Coded("lh7", Nat \ {0})
<1>1. /\ Bytes \in Nat /\ LenCodes[m] \in Nat \ {0} /\ DistTable[m] \in Nat \ {0}
  BY Constants
<1>2. NumCodes(m) \in Nat \ {0}
  BY <1>1 DEF NumCodes
<1> QED BY <1>1, <1>2 DEF NoCounts, Preset, Coded

LEMMA LensPositive ==
    ASSUME NEW m \in Chained, codes \in Coded(m, Nat), NEW longest \in Nat \ {0}
    PROVE  Lens(m, longest) \in Coded(m, Nat \ {0})
<1>1. /\ NumCodes(m) \in Nat /\ DistTable[m] \in Nat
      /\ codes.code \in [0 .. NumCodes(m) - 1 -> Nat]
      /\ codes.dist \in [0 .. DistTable[m] - 1 -> Nat]
  BY CodesFacts DEF Coded
<1>2. CodeLens(codes.code, 15, 10) \in [0 .. NumCodes(m) - 1 -> Nat \ {0}]
  <2>1. 15 \in Nat \ {0} /\ 10 \in Nat
    OBVIOUS
  <2> QED BY <1>1, <2>1, CodeLensPositive
<1>3. CodeLens(codes.dist, longest, 4) \in [0 .. DistTable[m] - 1 -> Nat \ {0}]
  BY <1>1, CodeLensPositive
<1> QED BY <1>2, <1>3 DEF Lens, Coded

LEMMA DistNat ==
    ASSUME NEW m \in {"lh5", "lh6"}, NEW found, found.offset \in Nat
    PROVE  Dist(m, found).code \in Nat /\ Dist(m, found).extra \in Nat
<1> DEFINE o == found.offset
           near == {g \in DistGroups[m] : g.first <= o}
           far == {o - g.first : g \in near}
           G == DistGroup(m, o)
<1>1. /\ \A g \in DistGroups[m] : /\ g.first \in Nat /\ g.code \in Nat /\ g.extra \in Nat
                                  /\ g.share \in Nat \ {0}
      /\ \E g \in DistGroups[m] : g.first = 0
  <2>1. DistGroups[m] \subseteq [first : Nat, code : Nat, share : Nat \ {0}, extra : Nat]
    BY CodecAssumption
  <2>2. ASSUME NEW g \in DistGroups[m]
        PROVE  g.first \in Nat /\ g.code \in Nat /\ g.extra \in Nat /\ g.share \in Nat \ {0}
    <3>1. g \in [first : Nat, code : Nat, share : Nat \ {0}, extra : Nat]
      BY <2>1
    <3> QED BY <3>1
  <2> QED BY <2>2, CodecAssumption
<1>2. far \in SUBSET Nat /\ far # {}
  BY <1>1
<1> HIDE DEF far
<1>3. Min(far) \in far /\ \A k \in far : Min(far) <= k
  BY <1>2, LeastMember
<1>4. PICK g \in near : Min(far) = o - g.first
  BY <1>3 DEF far
<1>5. \A h \in DistGroups[m] : h.first <= o => h.first <= g.first
  <2> TAKE h \in DistGroups[m]
  <2> HAVE h.first <= o
  <2>1. o - h.first \in far
    BY DEF far
  <2>2. o - g.first <= o - h.first
    BY <1>3, <1>4, <2>1
  <2> QED BY <1>1, <2>2
<1>6. G \in DistGroups[m] /\ G.first <= o
  BY <1>4, <1>5, Zenon DEF DistGroup
<1> HIDE DEF G, o
<1>7. o \in Nat /\ o - G.first \in Nat
  BY <1>1, <1>6 DEF o
<1>8. (o - G.first) \div G.share \in Nat
  BY <1>1, <1>6, <1>7
<1>9. Dist(m, found) = [code |-> G.code + ((o - G.first) \div G.share), extra |-> G.extra]
  BY DEF Dist, G, o
<1> QED BY <1>1, <1>6, <1>8, <1>9

LEMMA LengthCodeKnown ==
    ASSUME NEW m \in Chained, NEW found, found.length \in Nat, IsMatch(found)
    PROVE  LengthCode(m, found) \in 0 .. NumCodes(m) - 1
<1>1. Bytes \in Nat /\ LenCodes[m] \in Nat \ {0} /\ Threshold \in Nat
  BY Constants
<1> QED BY <1>1 DEF LengthCode, NumCodes, Least, IsMatch
-----------------------------------------------------------------------------
(* The invariant: what is known of a call by how far it is.                *)

FirstPass ==
    /\ method \in Chained /\ Coding(Size, method, Least(Size, Threshold), enc)
    /\ enc.start <= Size /\ codes \in Coded(method, Nat) /\ bits = 0

SecondPass ==
    /\ method \in Chained /\ Coding(Size, method, Least(Size, MaxMatch), enc)
    /\ codes \in Coded(method, Nat \ {0}) /\ bits \in 0 .. (8 * Capacity) + 7

Packing ==
    /\ method \in LArc /\ out \in Seq(Nat)
    /\ enc.in \in 0 .. Size /\ enc.flagAt \in 1 .. Len(out) /\ enc.mask \in Nat

Unpackers(m) ==
    [pos : Nat, flags : Nat, mask : Nat, inStep : BOOLEAN,
     win : [0 .. LzWindow[m] - 1 -> Nat], w : 0 .. LzWindow[m] - 1, out : Seq(Nat)]
Unpacking ==
    /\ method \in LArc /\ out \in Seq(Nat)
    /\ dec \in Unpackers(method) /\ Len(dec.out) <= Size

IInv ==
    /\ input \in Inputs /\ spare \in Nat
    /\ status = "begin" => bits = 0
    /\ status = "first" => FirstPass
    /\ status = "second" => SecondPass
    /\ status = "items" => Packing
    /\ status = "read" => Unpacking

(* What CallEnds says of a step.                                           *)
Nearer ==
    /\ Left' >= 0
    /\ Phase' < Phase \/ (Phase' = Phase /\ Left' < Left)
    /\ status' = "hung" => enc.inserted >= Ring[method] \/ RepeatsItself

Under == {"begin", "first", "second", "items", "read", "stored"}

LEMMA SameInput ==
    ASSUME IInv, Same
    PROVE  /\ input' \in Inputs /\ spare' \in Nat /\ method' = method
           /\ Size' = Size /\ Capacity' = Capacity
           /\ Size \in Nat \ {0} /\ Capacity \in Nat
<1>1. Size' = Size /\ Capacity' = Capacity
  BY DEF Same, Size, Capacity
<1>2. Size \in Nat \ {0}
  BY InputBytes DEF IInv
<1>3. Capacity \in Nat
  BY <1>2 DEF IInv, Capacity
<1> QED BY <1>1, <1>2, <1>3 DEF IInv, Same

LEMMA EndStep ==
    ASSUME IInv, status \in Under, NEW how \in {"done", "failed", "hung", "beyond"}, End(how),
           how = "hung" => enc.inserted >= Ring[method] \/ RepeatsItself
    PROVE  IInv' /\ Nearer
<1>1. status' = how /\ input' \in Inputs /\ spare' \in Nat
  BY SameInput DEF End
<1>2. IInv'
  BY <1>1 DEF IInv
<1>3. Left' = 0 /\ Phase' = 0
  BY <1>1 DEF Left, Phase
<1>4. Phase \in 1 .. 3
  BY DEF Under, Phase
<1> QED BY <1>1, <1>2, <1>3, <1>4 DEF Nearer

LEMMA BeginStep ==
    ASSUME IInv, NEW m \in Chained, Begin(m)
    PROVE  IInv' /\ Nearer
<1>1. CASE End("failed")
  BY <1>1, EndStep DEF Begin, Under
<1>2. CASE /\ status' = "first"
           /\ enc' = Fresh(m, Least(Size, Threshold)) /\ codes' = NoCounts(m)
           /\ UNCHANGED <<bits, sent, out, dec>> /\ Same
  <2>1. /\ method = m /\ method' = m /\ status = "begin" /\ bits = 0
        /\ input' \in Inputs /\ spare' \in Nat /\ Size' = Size /\ Size \in Nat
    BY <1>2, SameInput DEF Begin, IInv
  <2>2. Coding(Size, m, Least(Size, Threshold), enc') /\ enc'.start <= Size
    <3>1. Threshold \in Nat /\ Threshold <= Threshold /\ Threshold <= Ring[m]
      BY Constants
    <3> QED BY <1>2, <3>1, FreshCodes DEF IInv
  <2>3. codes' \in Coded(m, Nat)
    BY <1>2, CodesFacts
  <2>4. FirstPass'
    BY <1>2, <2>1, <2>2, <2>3 DEF FirstPass
  <2>5. IInv'
    BY <1>2, <2>1, <2>4 DEF IInv
  <2>6. Phase = 3 /\ Phase' = 2
    BY <1>2, <2>1 DEF Phase
  <2>7. Left' = Size' - enc'.start
    BY <1>2 DEF Left
  <2>8. enc'.start \in Nat
    BY <2>2 DEF Coding, Rings
  <2> QED BY <1>2, <2>1, <2>2, <2>5, <2>6, <2>7, <2>8 DEF Nearer
<1> QED BY <1>1, <1>2 DEF Begin

(* A round of the first pass: what it finds is taken, or it goes round.    *)
LEMMA CountedCodes ==
    ASSUME NEW m \in Chained, codes \in Coded(m, Nat), NEW e, NEW found
    PROVE  Counted(m, codes, e, found) \in Coded(m, Nat)
<1>1. /\ codes.code \in [0 .. NumCodes(m) - 1 -> Nat]
      /\ codes.dist \in [0 .. DistTable[m] - 1 -> Nat]
  BY DEF Coded
<1>2. \A i : /\ [codes.code EXCEPT ![i] = codes.code[i] + 1] \in [0 .. NumCodes(m) - 1 -> Nat]
             /\ [codes.dist EXCEPT ![i] = codes.dist[i] + 1] \in [0 .. DistTable[m] - 1 -> Nat]
  <2>1. ASSUME NEW D, NEW f \in [D -> Nat], NEW i
        PROVE  [f EXCEPT ![i] = f[i] + 1] \in [D -> Nat]
    <3>1. CASE i \in D
      <4>1. f[i] + 1 \in Nat
        BY <3>1
      <4> QED BY <3>1, <4>1
    <3>2. CASE i \notin D
      BY <3>2
    <3> QED BY <3>1, <3>2
  <2> QED BY <1>1, <2>1
<1>3. CASE IsMatch(found)
  <2>1. Counted(m, codes, e, found) =
           [codes EXCEPT !.code = [codes.code EXCEPT ![LengthCode(m, found)] =
                                      codes.code[LengthCode(m, found)] + 1],
                         !.dist = [codes.dist EXCEPT ![Dist(m, found).code] =
                                      codes.dist[Dist(m, found).code] + 1]]
    BY <1>3 DEF Counted, Coded
  <2> QED BY <1>2, <2>1, ZenonT(30) DEF Coded
<1>4. CASE ~ IsMatch(found)
  <2>1. Counted(m, codes, e, found) =
           [codes EXCEPT !.code = [codes.code EXCEPT ![Text(Cur(e))] =
                                      codes.code[Text(Cur(e))] + 1]]
    BY <1>4 DEF Counted, Coded
  <2> QED BY <1>2, <2>1 DEF Coded
<1> QED BY <1>3, <1>4

LEMMA FirstSearch ==
    ASSUME IInv, status = "first", enc.start < Size
    PROVE  /\ Search(method, enc) = Endless => enc.inserted >= Ring[method]
           /\ Search(method, enc) # Endless =>
                 LET f == Taken(method, enc, Search(method, enc))
                 IN /\ Coding(Size, method, Least(Size, Threshold), f)
                    /\ f.start > enc.start /\ f.start <= Size
<1> DEFINE c == Least(Size, Threshold)
           found == Search(method, enc)
<1>1. /\ Size \in Nat \ {0} /\ Threshold \in Nat \ {0} /\ method \in Chained
      /\ Coding(Size, method, c, enc) /\ input \in Inputs /\ Ring[method] \in Nat
  BY InputBytes, Constants DEF IInv, FirstPass
<1>2. c \in Nat
  BY <1>1 DEF Least
<1> HIDE DEF c
<1>3. /\ enc \in Rings(method) /\ Linked(method, c, enc) /\ enc.ahead \in Nat
      /\ enc.start \in Nat /\ enc.inserted \in Nat /\ Cur(enc) \in 0 .. Size - 1
  BY <1>1 DEF Coding, Rings, Cur
<1>4. /\ found = Endless \/ Found(method, enc, found)
      /\ enc.inserted <= Ring[method] => found # Endless
  BY <1>1, <1>2, <1>3, SearchFinds
<1> HIDE DEF found
<1>5. ASSUME found # Endless
      PROVE  LET f == Taken(method, enc, found)
             IN Coding(Size, method, c, f) /\ f.start > enc.start /\ f.start <= Size
  BY <1>1, <1>2, <1>3, <1>4, <1>5, ItemTaken
<1>6. found = Endless => enc.inserted >= Ring[method]
  BY <1>1, <1>3, <1>4
<1> QED BY <1>5, <1>6 DEF c, found

LEMMA FirstRound ==
    ASSUME IInv, status = "first", enc.start < Size,
           Search(method, enc) # Endless,
           enc' = Taken(method, enc, Search(method, enc)), codes' \in Coded(method, Nat),
           UNCHANGED <<status, bits, sent, out, dec>>, Same
    PROVE  IInv' /\ Nearer
<1> DEFINE f == Taken(method, enc, Search(method, enc))
<1>1. /\ Coding(Size, method, Least(Size, Threshold), f) /\ f.start > enc.start /\ f.start <= Size
  BY FirstSearch
<1> HIDE DEF f
<1>2. /\ input' \in Inputs /\ spare' \in Nat /\ Size' = Size /\ Size \in Nat /\ method' = method
      /\ status' = "first" /\ enc' = f /\ bits' = bits
  BY SameInput DEF f
<1>3. FirstPass'
  BY <1>1, <1>2 DEF FirstPass, IInv
<1>4. IInv'
  BY <1>2, <1>3 DEF IInv
<1>5. f.start \in Nat /\ enc.start \in Nat
  BY <1>1 DEF Coding, Rings, IInv, FirstPass
<1>6. Left = Size - enc.start /\ Left' = Size - f.start /\ Phase = 2 /\ Phase' = 2
  BY <1>2 DEF Left, Phase
<1>7. Left' >= 0 /\ Left' < Left
  BY <1>1, <1>2, <1>5, <1>6
<1> QED BY <1>2, <1>4, <1>6, <1>7 DEF Nearer

LEMMA CountAllStep ==
    ASSUME IInv, NEW m \in {"lh5", "lh6"}, CountAll(m)
    PROVE  IInv' /\ Nearer
<1> DEFINE found == Search(m, enc)
<1>1. method = m /\ status = "first" /\ enc.start < Size /\ m \in Chained
  BY DEF CountAll, Chained
<1>2. CASE found = Endless /\ End("hung")
  <2>1. enc.inserted >= Ring[method]
    BY <1>1, <1>2, FirstSearch
  <2> QED BY <1>1, <1>2, <2>1, EndStep DEF Under
<1>3. CASE End("beyond")
  BY <1>1, <1>3, EndStep DEF Under
<1>4. CASE /\ found # Endless
           /\ enc' = Taken(m, enc, found) /\ codes' = Counted(m, codes, enc, found)
           /\ UNCHANGED <<status, bits, sent, out, dec>> /\ Same
  <2>1. codes' \in Coded(m, Nat)
    BY <1>1, <1>4, CountedCodes DEF IInv, FirstPass
  <2> QED BY <1>1, <1>4, <2>1, FirstRound
<1> QED BY <1>2, <1>3, <1>4 DEF CountAll

LEMMA Lh7FirstStep ==
    ASSUME IInv, Lh7First
    PROVE  IInv' /\ Nearer
<1> DEFINE found == Search("lh7", enc)
<1>1. method = "lh7" /\ status = "first" /\ enc.start < Size
  BY DEF Lh7First, First
<1>2. CASE found = Endless /\ End("hung")
  <2>1. enc.inserted >= Ring[method]
    BY <1>1, <1>2, FirstSearch
  <2> QED BY <1>1, <1>2, <2>1, EndStep DEF Under
<1>3. CASE /\ found # Endless
           /\ enc' = Taken("lh7", enc, found) /\ codes' = codes
           /\ UNCHANGED <<status, bits, sent, out, dec>> /\ Same
  <2>1. codes' \in Coded(method, Nat)
    BY <1>1, <1>3 DEF IInv, FirstPass
  <2> QED BY <1>1, <1>3, <2>1, FirstRound
<1> QED BY <1>2, <1>3 DEF Lh7First, First

(* Between the passes.                                                     *)
LEMMA TablesStep ==
    ASSUME IInv, NEW m \in Chained, NEW lens \in Coded(m, Nat \ {0}), NEW n \in Nat,
           Tables(m, lens, n)
    PROVE  IInv' /\ Nearer
<1>1. method = m /\ status = "first" /\ enc.start >= Size /\ enc.start <= Size /\ bits = 0
  BY DEF Tables, IInv, FirstPass
<1>2. CASE End("failed")
  BY <1>1, <1>2, EndStep DEF Under
<1>3. CASE /\ Fits(n)
           /\ status' = "second" /\ bits' = bits + n /\ codes' = lens
           /\ enc' = Fresh(m, Least(Size, MaxMatch))
           /\ UNCHANGED <<sent, out, dec>> /\ Same
  <2>1. /\ input' \in Inputs /\ spare' \in Nat /\ Size' = Size /\ Capacity' = Capacity
        /\ Size \in Nat /\ Capacity \in Nat /\ method' = m
    BY <1>1, <1>3, SameInput
  <2>2. Coding(Size, m, Least(Size, MaxMatch), enc')
    <3>1. MaxMatch \in Nat /\ Threshold <= MaxMatch /\ MaxMatch <= Ring[m]
      BY Constants
    <3> QED BY <1>3, <3>1, FreshCodes DEF IInv
  <2>3. bits' \in 0 .. (8 * Capacity) + 7
    BY <1>1, <1>3, <2>1 DEF Fits
  <2>4. SecondPass'
    BY <1>3, <2>1, <2>2, <2>3 DEF SecondPass
  <2>5. IInv'
    BY <1>3, <2>1, <2>4 DEF IInv
  <2>6. Phase = 2 /\ Phase' = 1
    BY <1>1, <1>3 DEF Phase
  <2>7. Left' >= 0
    <3>1. Cur(enc') \in Int /\ Cur(enc') <= Size + 1
      BY <2>2 DEF Coding, Cur, Rings
    <3>2. Left' = IF m = "lh6" THEN Size + 1 - Cur(enc') ELSE (8 * Capacity) + 7 - bits'
      BY <1>3, <2>1 DEF Left, Cur
    <3>3. (8 * Capacity) + 7 - bits' >= 0
      <4>1. \A room \in Nat : \A b \in 0 .. (8 * room) + 7 : (8 * room) + 7 - b >= 0
        OBVIOUS
      <4> QED BY <2>1, <2>3, <4>1
    <3> DEFINE cur == Cur(enc')
    <3>4. Left' = IF m = "lh6" THEN Size + 1 - cur ELSE (8 * Capacity) + 7 - bits'
      BY <3>2
    <3>5. cur \in Int /\ cur <= Size + 1
      BY <3>1
    <3> HIDE DEF cur
    <3>6. Size + 1 - cur >= 0
      BY <2>1, <3>5
    <3> QED BY <3>3, <3>4, <3>6
  <2> QED BY <1>3, <2>5, <2>6, <2>7 DEF Nearer
<1> QED BY <1>2, <1>3 DEF Tables

(* A round of the second pass.                                             *)
LEMMA SecondSearch ==
    ASSUME IInv, status = "second", Cur(enc) < Size
    PROVE  /\ Search(method, enc) = Endless => enc.inserted >= Ring[method]
           /\ Search(method, enc) # Endless =>
                 LET f == Taken(method, enc, Search(method, enc))
                 IN /\ Coding(Size, method, Least(Size, MaxMatch), f)
                    /\ Cur(f) > Cur(enc)
                          \/ (enc.start >= Size /\ IsMatch(Search(method, enc)) /\ Cur(f) = Cur(enc))
                    /\ Search(method, enc).length \in Nat /\ Search(method, enc).offset \in Nat
           /\ Text(Cur(enc)) \in 0 .. Bytes - 1 /\ Cur(enc) \in Nat
<1> DEFINE c == Least(Size, MaxMatch)
           found == Search(method, enc)
<1>1. /\ Size \in Nat \ {0} /\ MaxMatch \in Nat \ {0} /\ method \in Chained
      /\ Coding(Size, method, c, enc) /\ input \in Inputs /\ Ring[method] \in Nat
  BY InputBytes, Constants DEF IInv, SecondPass
<1>2. c \in Nat
  BY <1>1 DEF Least
<1> HIDE DEF c
<1>3. /\ enc \in Rings(method) /\ Linked(method, c, enc) /\ enc.ahead \in Nat
      /\ enc.start \in Nat /\ enc.inserted \in Nat /\ Cur(enc) \in 0 .. Size - 1
  BY <1>1 DEF Coding, Rings, Cur
<1>4. /\ found = Endless \/ Found(method, enc, found)
      /\ enc.inserted <= Ring[method] => found # Endless
  BY <1>1, <1>2, <1>3, SearchFinds
<1>5. Text(Cur(enc)) \in 0 .. Bytes - 1 /\ Cur(enc) \in Nat
  BY <1>1, <1>3, InputBytes
<1> HIDE DEF found
<1>6. ASSUME found # Endless
      PROVE  LET f == Taken(method, enc, found)
             IN /\ Coding(Size, method, c, f)
                /\ Cur(f) > Cur(enc) \/ (enc.start >= Size /\ IsMatch(found) /\ Cur(f) = Cur(enc))
                /\ found.length \in Nat /\ found.offset \in Nat
  <2>1. found.length \in Nat /\ found.offset \in Nat
    BY <1>1, <1>4, <1>6 DEF Found
  <2> QED BY <1>1, <1>2, <1>3, <1>4, <1>6, <2>1, ItemTaken
<1>7. found = Endless => enc.inserted >= Ring[method]
  BY <1>1, <1>3, <1>4
<1> QED BY <1>5, <1>6, <1>7 DEF c, found

LEMMA SecondRound ==
    ASSUME IInv, status = "second", Cur(enc) < Size, Search(method, enc) # Endless,
           enc' = Taken(method, enc, Search(method, enc)), bits' \in 0 .. (8 * Capacity) + 7,
           method = "lh6" => ~ RepeatsItself, method # "lh6" => bits' > bits,
           UNCHANGED <<status, codes, out, dec>>, Same
    PROVE  IInv' /\ Nearer
<1> DEFINE f == Taken(method, enc, Search(method, enc))
<1>1. /\ Coding(Size, method, Least(Size, MaxMatch), f) /\ Cur(enc) \in Nat
      /\ Cur(f) > Cur(enc) \/ (enc.start >= Size /\ IsMatch(Search(method, enc)))
  BY SecondSearch
<1>2. method = "lh6" => Cur(f) > Cur(enc)
  BY <1>1 DEF RepeatsItself
<1> HIDE DEF f
<1>3. /\ input' \in Inputs /\ spare' \in Nat /\ Size' = Size /\ Capacity' = Capacity
      /\ Size \in Nat /\ Capacity \in Nat /\ method' = method
      /\ status' = "second" /\ enc' = f /\ codes' = codes
  BY SameInput DEF f
<1>4. SecondPass'
  BY <1>1, <1>3 DEF SecondPass, IInv
<1>5. IInv'
  BY <1>3, <1>4 DEF IInv
<1>6. Phase = 1 /\ Phase' = 1
  BY <1>3 DEF Phase
<1>7. bits \in 0 .. (8 * Capacity) + 7
  BY DEF IInv, SecondPass
<1>8. CASE method = "lh6"
  <2> DEFINE cur == Cur(enc)
             next == Cur(f)
  <2>1. Left = Size + 1 - cur /\ Left' = Size + 1 - next
    BY <1>3, <1>8 DEF Left, Cur
  <2>2. next > cur /\ cur \in Int /\ next \in Int /\ next <= Size + 1
    BY <1>1, <1>2, <1>8 DEF Coding, Rings, Cur
  <2> HIDE DEF cur, next
  <2>3. Left' >= 0 /\ Left' < Left
    BY <1>3, <2>1, <2>2
  <2> QED BY <1>3, <1>5, <1>6, <2>3 DEF Nearer
<1>9. CASE method # "lh6"
  <2>1. Left = (8 * Capacity) + 7 - bits /\ Left' = (8 * Capacity) + 7 - bits'
    BY <1>3, <1>9 DEF Left
  <2>2. \A room \in Nat : \A b, d \in 0 .. (8 * room) + 7 :
           d > b => (8 * room) + 7 - d >= 0 /\ (8 * room) + 7 - d < (8 * room) + 7 - b
    OBVIOUS
  <2>3. Left' >= 0 /\ Left' < Left
    BY <1>3, <1>7, <1>9, <2>1, <2>2
  <2> QED BY <1>3, <1>5, <1>6, <2>3 DEF Nearer
<1> QED BY <1>8, <1>9

LEMMA SecondStep ==
    ASSUME IInv, NEW m \in {"lh5", "lh7"}, method = m, status = "second", Cur(enc) < Size,
           NEW cost, Search(m, enc) # Endless => cost \in Nat \ {0},
           Second(m, Search(m, enc), cost)
    PROVE  IInv' /\ Nearer
<1> DEFINE found == Search(m, enc)
<1>1. CASE found = Endless /\ End("hung")
  <2>1. enc.inserted >= Ring[method]
    BY <1>1, SecondSearch
  <2> QED BY <1>1, <2>1, EndStep DEF Under
<1>2. CASE End("failed")
  BY <1>2, EndStep DEF Under
<1>3. CASE /\ found # Endless /\ Fits(cost)
           /\ enc' = Taken(m, enc, found) /\ bits' = bits + cost
           /\ UNCHANGED <<status, codes, out, dec>> /\ Same
  <2>1. cost \in Nat \ {0} /\ bits \in Nat /\ Capacity \in Nat
    BY <1>3, SameInput DEF IInv, SecondPass
  <2>2. bits' \in 0 .. (8 * Capacity) + 7 /\ bits' > bits
    BY <1>3, <2>1 DEF Fits
  <2>3. method # "lh6"
    OBVIOUS
  <2> QED BY <1>3, <2>2, <2>3, SecondRound
<1> QED BY <1>1, <1>2, <1>3 DEF Second

LEMMA Lh5SecondStep ==
    ASSUME IInv, Lh5Second
    PROVE  IInv' /\ Nearer
<1> DEFINE found == Search("lh5", enc)
           d == Dist("lh5", found)
           cost == IF IsMatch(found)
                   THEN codes.code[LengthCode("lh5", found)] + codes.dist[d.code] + d.extra
                   ELSE codes.code[Text(Cur(enc))]
<1>1. method = "lh5" /\ status = "second" /\ Cur(enc) < Size
  BY DEF Lh5Second
<1>2. CASE End("beyond")
  BY <1>1, <1>2, EndStep DEF Under
<1>3. CASE ~ OutOfTable("lh5", found) /\ Second("lh5", found, cost)
  <2>1. /\ codes.code \in [0 .. NumCodes("lh5") - 1 -> Nat \ {0}]
        /\ codes.dist \in [0 .. DistTable["lh5"] - 1 -> Nat \ {0}]
        /\ DistTable["lh5"] \in Nat /\ Bytes \in Nat /\ LenCodes["lh5"] \in Nat
    BY <1>1, Constants DEF IInv, SecondPass, Coded, Chained
  <2>2. ASSUME found # Endless PROVE cost \in Nat \ {0}
    <3>1. found.length \in Nat /\ found.offset \in Nat /\ Text(Cur(enc)) \in 0 .. Bytes - 1
      BY <1>1, <2>2, SecondSearch
    <3>2. CASE IsMatch(found)
      <4>1. LengthCode("lh5", found) \in 0 .. NumCodes("lh5") - 1
        BY <1>1, <3>1, <3>2, LengthCodeKnown DEF Chained
      <4>2. d.code \in Nat /\ d.extra \in Nat
        BY <3>1, DistNat
      <4>3. d.code \in 0 .. DistTable["lh5"] - 1
        BY <1>3, <2>1, <3>2, <4>2 DEF OutOfTable
      <4> DEFINE a == codes.code[LengthCode("lh5", found)]
                 b == codes.dist[d.code]
                 x == d.extra
      <4>4. a \in Nat \ {0} /\ b \in Nat \ {0} /\ x \in Nat
        BY <2>1, <4>1, <4>2, <4>3
      <4>5. cost = a + b + x
        BY <3>2
      <4> HIDE DEF a, b, x, cost
      <4> QED BY <4>4, <4>5
    <3>3. CASE ~ IsMatch(found)
      <4>1. Text(Cur(enc)) \in 0 .. NumCodes("lh5") - 1
        BY <2>1, <3>1 DEF NumCodes
      <4> QED BY <2>1, <3>3, <4>1
    <3> QED BY <3>2, <3>3
  <2> HIDE DEF cost
  <2> QED BY <1>1, <1>3, <2>2, SecondStep
<1> QED BY <1>2, <1>3 DEF Lh5Second

LEMMA Lh7SecondStep ==
    ASSUME IInv, Lh7Second
    PROVE  IInv' /\ Nearer
<1> DEFINE found == Search("lh7", enc)
           c == Lh7LengthCode(found)
           cost == IF IsMatch(found)
                   THEN Preset.code[Bytes + c] + (c \div PerExtra) + DistTable["lh7"]
                   ELSE Preset.code[Text(Cur(enc))]
<1>1. method = "lh7" /\ status = "second" /\ Cur(enc) < Size
  BY DEF Lh7Second
<1>2. /\ Preset.code \in [0 .. NumCodes("lh7") - 1 -> Nat \ {0}]
      /\ DistTable["lh7"] \in Nat /\ Bytes \in Nat /\ LenCodes["lh7"] \in Nat \ {0}
      /\ PerExtra \in Nat \ {0}
  BY CodesFacts, Constants DEF Coded, Chained
<1>3. c \in 0 .. LenCodes["lh7"] - 1
  <2>1. {k \in 1 .. LenCodes["lh7"] - 1 : LengthBase(k) <= found.length}
           \in SUBSET (1 .. LenCodes["lh7"] - 1)
    OBVIOUS
  <2>2. LenCodes["lh7"] - 1 \in Nat
    BY <1>2
  <2> QED BY <2>1, <2>2, CountWithin DEF Lh7LengthCode
<1>4. ASSUME found # Endless PROVE cost \in Nat \ {0}
  <2>1. Text(Cur(enc)) \in 0 .. Bytes - 1
    BY <1>1, SecondSearch
  <2>2. CASE IsMatch(found)
    <3>1. Bytes + c \in 0 .. NumCodes("lh7") - 1
      BY <1>2, <1>3 DEF NumCodes
    <3> DEFINE a == Preset.code[Bytes + c]
               b == c \div PerExtra
    <3>2. a \in Nat \ {0}
      BY <1>2, <3>1
    <3>3. b \in Nat
      BY <1>2, <1>3
    <3>4. cost = a + b + DistTable["lh7"]
      BY <2>2
    <3> HIDE DEF a, b, cost
    <3> QED BY <1>2, <3>2, <3>3, <3>4
  <2>3. CASE ~ IsMatch(found)
    <3>1. Text(Cur(enc)) \in 0 .. NumCodes("lh7") - 1
      BY <1>2, <2>1 DEF NumCodes
    <3> QED BY <1>2, <2>3, <3>1
  <2> QED BY <2>2, <2>3
<1>5. Second("lh7", found, cost)
  BY DEF Lh7Second
<1> HIDE DEF cost
<1> QED BY <1>1, <1>4, <1>5, SecondStep

LEMMA Lh6SecondStep ==
    ASSUME IInv, Lh6Second
    PROVE  IInv' /\ Nearer
<1> DEFINE found == Search("lh6", enc)
<1>1. method = "lh6" /\ status = "second" /\ Cur(enc) < Size
  BY DEF Lh6Second
<1>2. CASE found = Endless /\ End("hung")
  <2>1. enc.inserted >= Ring[method]
    BY <1>1, <1>2, SecondSearch
  <2> QED BY <1>1, <1>2, <2>1, EndStep DEF Under
<1>3. CASE End("beyond")
  BY <1>1, <1>3, EndStep DEF Under
<1>4. CASE RepeatsItself /\ End("hung")
  BY <1>1, <1>4, EndStep DEF Under
<1>5. CASE /\ found # Endless /\ ~ RepeatsItself
           /\ enc' = Taken("lh6", enc, found)
           /\ UNCHANGED <<status, codes, bits, sent, out, dec>> /\ Same
  <2>1. bits' \in 0 .. (8 * Capacity) + 7
    BY <1>1, <1>5 DEF IInv, SecondPass
  <2> QED BY <1>1, <1>5, <2>1, SecondRound
<1> QED BY <1>2, <1>3, <1>4, <1>5 DEF Lh6Second

LEMMA FinishStep ==
    ASSUME IInv, NEW m, Finish(m)
    PROVE  IInv' /\ Nearer
BY EndStep DEF Finish, Under
-----------------------------------------------------------------------------
(* LArc, and the methods that copy.                                        *)

LEMMA LzFinds ==
    ASSUME IInv, status = "items", enc.in < Size
    PROVE  LET found == LzSearch(method)
           IN /\ found.length \in 0 .. Least(LzMax[method], Size - enc.in)
              /\ found.offset \in 0 .. LzWindow[method] - 1
              /\ \A k \in 0 .. found.length - 1 :
                    enc.win[(found.offset + k) % LzWindow[method]] = Text(enc.in + k)
<1> DEFINE N == LzWindow[method]
           most == Least(LzMax[method], Size - enc.in)
           shared == [p \in 0 .. N - 1 |-> LzShared(method, p)]
           best == {p \in DOMAIN shared : \A q \in DOMAIN shared : shared[q] <= shared[p]}
           found == LzSearch(method)
<1>1. /\ N \in Nat \ {0} /\ LzMax[method] \in Nat /\ Size \in Nat
      /\ enc.in \in Nat
  BY InputBytes, Constants DEF IInv, Packing
<1>2. most \in Nat
  BY <1>1 DEF Least
<1> HIDE DEF most
<1>3. \A p : /\ LzShared(method, p) \in 0 .. most
             /\ \A k \in 0 .. LzShared(method, p) - 1 : enc.win[(p + k) % N] = Text(enc.in + k)
  BY <1>2, AlikeFacts DEF LzShared, most
<1>4. shared \in [0 .. N - 1 -> Nat] /\ \A p \in 0 .. N - 1 : shared[p] <= most
  BY <1>2, <1>3
<1>5. \E p \in 0 .. N - 1 : \A q \in 0 .. N - 1 : shared[q] <= shared[p]
  <2>1. 0 \in 0 .. N - 1
    BY <1>1
  <2> HIDE DEF shared
  <2> QED BY <1>2, <1>4, <2>1, LargestValue
<1>6. best \in SUBSET Nat /\ best # {} /\ best \subseteq 0 .. N - 1
  BY <1>5
<1>7. Min(best) \in 0 .. N - 1
  <2> HIDE DEF best
  <2> QED BY <1>6, LeastMember
<1>8. found.length = shared[Min(best)] /\ found.offset = Min(best)
  BY DEF LzSearch
<1> HIDE DEF best, found
<1>9. found.length = LzShared(method, found.offset) /\ found.offset \in 0 .. N - 1
  BY <1>7, <1>8
<1> QED BY <1>3, <1>9 DEF found, most

LEMMA LzBeginStep ==
    ASSUME IInv, NEW m \in LArc, LzBegin(m)
    PROVE  IInv' /\ Nearer
<1>1. CASE End("failed")
  BY <1>1, EndStep DEF LzBegin, Under
<1>2. CASE /\ status' = "items" /\ out' = <<0>>
           /\ enc' = [win |-> Zeros(m), w |-> 0, in |-> 0, flagAt |-> 1, mask |-> TopFlag,
                      faithful |-> TRUE]
           /\ Same
  <2>1. /\ input' \in Inputs /\ spare' \in Nat /\ Size' = Size /\ Size \in Nat
        /\ method' = m /\ status = "begin" /\ TopFlag \in Nat
    BY <1>2, SameInput, Constants DEF LzBegin
  <2>2. Packing'
    BY <1>2, <2>1 DEF Packing
  <2>3. IInv'
    BY <1>2, <2>1, <2>2 DEF IInv
  <2>4. Phase = 3 /\ Phase' = 2 /\ Left' = Size
    BY <1>2, <2>1 DEF Phase, Left
  <2> QED BY <1>2, <2>1, <2>3, <2>4 DEF Nearer
<1> QED BY <1>1, <1>2 DEF LzBegin

LEMMA LzItemStep ==
    ASSUME IInv, NEW m \in LArc, LzItem(m)
    PROVE  IInv' /\ Nearer
<1> DEFINE new == enc.mask = 0
           o == IF new THEN Append(out, 0) ELSE out
           at == IF new THEN Len(o) ELSE enc.flagAt
           mask == IF new THEN TopFlag ELSE enc.mask
           found == IF enc.in > Threshold THEN LzSearch(m) ELSE NoMatch
           length == IF IsMatch(found) THEN found.length ELSE 1
           item == IF IsMatch(found) THEN MatchBytes(found) ELSE <<Text(enc.in)>>
           with == IF IsMatch(found) THEN [o EXCEPT ![at] = @ + mask] ELSE o
<1>1. /\ method = m /\ status = "items" /\ enc.in < Size
  BY DEF LzItem
<1>2. CASE End("failed")
  BY <1>1, <1>2, EndStep DEF Under
<1>3. CASE /\ out' = with \o item
           /\ enc' = [win |-> Into(m, enc.win, enc.w, enc.in, length),
                      w |-> (enc.w + length) % LzWindow[m], in |-> enc.in + length,
                      flagAt |-> at, mask |-> mask \div 2,
                      faithful |-> enc.faithful /\ ~(IsMatch(found) /\
                                     (TooLong(found) \/ RunsOver(m, found)))]
           /\ UNCHANGED status /\ Same
  <2>1. /\ out \in Seq(Nat) /\ enc.in \in 0 .. Size /\ enc.mask \in Nat
        /\ enc.flagAt \in 1 .. Len(out)
        /\ Size \in Nat /\ Threshold \in Nat \ {0} /\ LzMax[m] \in Nat /\ TopFlag \in Nat
        /\ LowRange \in Nat \ {0} /\ LenRange \in Nat \ {0} /\ LzWindow[m] \in Nat \ {0}
    BY <1>1, InputBytes, Constants DEF IInv, Packing
  <2>2. o \in Seq(Nat) /\ at \in 1 .. Len(o) /\ mask \in Nat
    BY <2>1
  <2>3. IsMatch(found) => found.length \in Nat /\ found.length >= 1
                          /\ found.length <= Size - enc.in /\ found.offset \in Nat
                          /\ found.length - Threshold \in Nat
    <3>1. LET f == LzSearch(m)
          IN f.length \in 0 .. Least(LzMax[m], Size - enc.in) /\ f.offset \in 0 .. LzWindow[m] - 1
      BY <1>1, LzFinds
    <3>2. NoMatch.length = 0
      BY DEF NoMatch
    <3>3. CASE enc.in > Threshold
      BY <2>1, <3>1, <3>3, SMTT(30) DEF IsMatch, Least
    <3>4. CASE ~ (enc.in > Threshold)
      BY <2>1, <3>2, <3>4 DEF IsMatch
    <3> QED BY <3>3, <3>4
  <2>4. length \in Nat /\ length >= 1 /\ length <= Size - enc.in
    BY <1>1, <2>1, <2>3
  <2>5. item \in Seq(Nat)
    <3>1. CASE IsMatch(found)
      <4>1. found.offset % LowRange \in Nat /\ (found.length - Threshold) % LenRange \in Nat
            /\ found.offset \div LowRange \in Nat
        BY <2>1, <2>3, <3>1, Quotient
      <4> DEFINE a == found.offset % LowRange
                 b == found.offset \div LowRange
                 c == (found.length - Threshold) % LenRange
                 d == (b * LenRange) + c
      <4>2. d \in Nat
        <5> HIDE DEF b, c
        <5> QED BY <2>1, <4>1, SMTT(30) DEF b, c
      <4>3. item = <<a, d>>
        BY <3>1 DEF MatchBytes
      <4> HIDE DEF a, d, item
      <4> QED BY <4>1, <4>2, <4>3 DEF a
    <3>2. CASE ~ IsMatch(found)
      <4>1. Text(enc.in) \in Nat
        BY <1>1, <2>1, InputBytes DEF IInv
      <4> QED BY <3>2, <4>1
    <3> QED BY <3>1, <3>2
  <2>6. with \in Seq(Nat) /\ Len(with) = Len(o)
    <3>1. o[at] \in Nat
      BY <2>2, ElementOfSeq, Zenon
    <3> HIDE DEF o, at, mask
    <3>2. o[at] + mask \in Nat
      BY <2>2, <3>1
    <3>3. [o EXCEPT ![at] = o[at] + mask] \in Seq(Nat)
          /\ Len([o EXCEPT ![at] = o[at] + mask]) = Len(o)
      BY <2>2, <3>2, ExceptSeq
    <3> QED BY <2>2, <3>3
  <2> HIDE DEF with, item, length, found, o, at, mask
  <2>7. out' \in Seq(Nat) /\ Len(out') >= Len(o)
    BY <1>3, <2>2, <2>5, <2>6
  <2>8. /\ input' \in Inputs /\ spare' \in Nat /\ Size' = Size /\ method' = m /\ status' = "items"
        /\ enc'.in = enc.in + length /\ enc'.flagAt = at /\ enc'.mask = mask \div 2
    BY <1>1, <1>3, SameInput
  <2>9. Packing'
    <3>1. enc'.in \in 0 .. Size' /\ enc'.mask \in Nat
      <4>1. enc.in + length \in 0 .. Size
        BY <2>1, <2>4, SMTT(30)
      <4>2. mask \div 2 \in Nat
        BY <2>2
      <4> QED BY <2>8, <4>1, <4>2
    <3>2. enc'.flagAt \in 1 .. Len(out')
      BY <2>2, <2>7, <2>8
    <3> QED BY <2>7, <2>8, <3>1, <3>2 DEF Packing
  <2>10. IInv'
    BY <2>8, <2>9 DEF IInv
  <2>11. Phase = 2 /\ Phase' = 2 /\ Left = Size - enc.in /\ Left' = Size - (enc.in + length)
    BY <1>1, <2>8 DEF Phase, Left
  <2>12. Left' >= 0 /\ Left' < Left
    BY <2>1, <2>4, <2>11
  <2> QED BY <2>8, <2>10, <2>11, <2>12 DEF Nearer
<1> QED BY <1>1, <1>2, <1>3 DEF LzItem

(* One byte more.                                                          *)
LEMMA PutFacts ==
    ASSUME NEW m \in LArc, NEW d \in Unpackers(m), NEW b \in Nat
    PROVE  LET f == Put(m, d, b)
           IN /\ f \in Unpackers(m)
              /\ f.out = Append(d.out, b) /\ Len(f.out) = Len(d.out) + 1
              /\ f.win = [d.win EXCEPT ![d.w] = b] /\ f.w = (d.w + 1) % LzWindow[m]
              /\ f.pos = d.pos /\ f.flags = d.flags /\ f.mask = d.mask /\ f.inStep = d.inStep
<1> DEFINE N == LzWindow[m]
           f == Put(m, d, b)
<1>1. N \in Nat \ {0} /\ d.w \in 0 .. N - 1 /\ d.win \in [0 .. N - 1 -> Nat] /\ d.out \in Seq(Nat)
  BY Constants DEF Unpackers
<1>2. (d.w + 1) % N \in 0 .. N - 1
  <2>1. d.w + 1 \in Int
    BY <1>1
  <2> QED BY <1>1, <2>1, Remainder
<1>3. Append(d.out, b) \in Seq(Nat) /\ Len(Append(d.out, b)) = Len(d.out) + 1
  BY <1>1, AppendProperties
<1>4. [d.win EXCEPT ![d.w] = b] \in [0 .. N - 1 -> Nat]
  BY <1>1
<1>5. f = [d EXCEPT !.out = Append(d.out, b), !.win = [d.win EXCEPT ![d.w] = b],
                    !.w = (d.w + 1) % N]
  BY DEF Put, Unpackers
<1>6. ASSUME NEW T, NEW W, NEW P, NEW t \in T, NEW v \in W, NEW p \in P,
             NEW r \in [pos : Nat, flags : Nat, mask : Nat, inStep : BOOLEAN,
                        win : W, w : P, out : T]
      PROVE  /\ [r EXCEPT !.out = t, !.win = v, !.w = p]
                   \in [pos : Nat, flags : Nat, mask : Nat, inStep : BOOLEAN,
                        win : W, w : P, out : T]
             /\ [r EXCEPT !.out = t, !.win = v, !.w = p].out = t
             /\ [r EXCEPT !.out = t, !.win = v, !.w = p].win = v
             /\ [r EXCEPT !.out = t, !.win = v, !.w = p].w = p
             /\ [r EXCEPT !.out = t, !.win = v, !.w = p].pos = r.pos
             /\ [r EXCEPT !.out = t, !.win = v, !.w = p].flags = r.flags
             /\ [r EXCEPT !.out = t, !.win = v, !.w = p].mask = r.mask
             /\ [r EXCEPT !.out = t, !.win = v, !.w = p].inStep = r.inStep
  OBVIOUS
<1> HIDE DEF f
<1>7. /\ f \in Unpackers(m) /\ f.out = Append(d.out, b)
      /\ f.win = [d.win EXCEPT ![d.w] = b] /\ f.w = (d.w + 1) % N
      /\ f.pos = d.pos /\ f.flags = d.flags /\ f.mask = d.mask /\ f.inStep = d.inStep
  BY <1>2, <1>3, <1>4, <1>5, <1>6, Zenon DEF Unpackers
<1> QED BY <1>3, <1>7 DEF f

LEMMA CopyByteFacts ==
    ASSUME NEW m \in LArc, input \in Inputs, NEW s \in Unpackers(m), NEW i \in Nat
    PROVE  LET t == CopyByte(m, s, i)
           IN /\ t \in Unpackers(m)
              /\ t.pos = s.pos /\ t.flags = s.flags /\ t.mask = s.mask /\ t.inStep = s.inStep
              /\ Len(t.out) = IF Len(s.out) = Size THEN Size ELSE Len(s.out) + 1
              /\ s.win[i % LzWindow[m]] \in Nat
<1>1. LzWindow[m] \in Nat \ {0}
  BY Constants
<1>2. s.win[i % LzWindow[m]] \in Nat
  <2>1. i \in Int
    OBVIOUS
  <2>2. i % LzWindow[m] \in 0 .. LzWindow[m] - 1
    BY <1>1, <2>1, Remainder
  <2> QED BY <2>2 DEF Unpackers
<1>3. CASE Len(s.out) = Size
  BY <1>2, <1>3 DEF CopyByte
<1>4. CASE Len(s.out) # Size
  <2> DEFINE b == s.win[i % LzWindow[m]]
             t == CopyByte(m, s, i)
  <2>1. t = Put(m, s, b) /\ b \in Nat
    BY <1>2, <1>4 DEF CopyByte
  <2> HIDE DEF b, t
  <2>2. /\ t \in Unpackers(m) /\ Len(t.out) = Len(s.out) + 1
        /\ t.pos = s.pos /\ t.flags = s.flags /\ t.mask = s.mask /\ t.inStep = s.inStep
    BY <2>1, PutFacts, ZenonT(30)
  <2> QED BY <1>2, <1>4, <2>2 DEF t
<1> QED BY <1>3, <1>4

(* A copy, byte for byte.                                                  *)
Rounds(m, d, p, k, copied) ==
    /\ copied \in [0 .. k -> Unpackers(m)]
    /\ copied[0] = d /\ CopyFrom(m, d, p, k) = copied[k]
    /\ \A j \in 1 .. k : copied[j] = CopyByte(m, copied[j - 1], p + j - 1)

LEMMA CopyRounds ==
    ASSUME NEW m \in LArc, input \in Inputs, NEW d \in Unpackers(m), NEW p \in Nat, NEW k \in Nat
    PROVE  \E copied : Rounds(m, d, p, k, copied)
<1> DEFINE U == Unpackers(m)
           copied[j \in 0 .. k] == IF j = 0 THEN d ELSE CopyByte(m, copied[j - 1], p + j - 1)
           next(f) == [j \in 0 .. k |-> IF j = 0 THEN d ELSE CopyByte(m, f[j - 1], p + j - 1)]
           step == [j \in 1 .. k |-> [s \in U |-> CopyByte(m, s, p + j - 1)]]
           Held == {j \in 0 .. k : copied[j] \in U}
<1>1. \A s \in U, i \in Nat : CopyByte(m, s, i) \in U
  BY CopyByteFacts
<1>2. \A j \in 1 .. k : p + j - 1 \in Nat
  OBVIOUS
<1>3. step \in [1 .. k -> [U -> U]]
  <2> HIDE DEF U
  <2> QED BY <1>1, <1>2
<1>4. PICK g \in [0 .. k -> U] : g[0] = d /\ \A j \in 1 .. k : g[j] = step[j][g[j - 1]]
  <2>1. d \in U
    OBVIOUS
  <2> HIDE DEF step, U
  <2> QED BY <1>3, <2>1, Iterates
<1>5. g = next(g)
  <2>1. ASSUME NEW j \in 1 .. k PROVE g[j] = CopyByte(m, g[j - 1], p + j - 1)
    <3>1. j - 1 \in 0 .. k
      OBVIOUS
    <3>2. g[j - 1] \in U
      BY <1>4, <3>1
    <3>3. step[j] = [s \in U |-> CopyByte(m, s, p + j - 1)] /\ g[j] = step[j][g[j - 1]]
      BY <1>4
    <3> HIDE DEF step, U
    <3> QED BY <3>2, <3>3
  <2>2. \A j \in 0 .. k : g[j] = IF j = 0 THEN d ELSE CopyByte(m, g[j - 1], p + j - 1)
    BY <1>4, <2>1
  <2> QED BY <2>2
<1>6. copied = next(copied)
  BY <1>5 DEF copied
<1> HIDE DEF copied
<1>7. copied[0] = d /\ \A j \in 1 .. k : copied[j] = CopyByte(m, copied[j - 1], p + j - 1)
  BY <1>6
<1>8. 0 \in Held
  BY <1>7
<1>9. ASSUME NEW j \in 1 .. k, j - 1 \in Held PROVE j \in Held
  <2>1. copied[j - 1] \in U /\ copied[j] = CopyByte(m, copied[j - 1], p + j - 1)
    BY <1>7, <1>9
  <2> HIDE DEF U
  <2>2. copied[j] \in U
    BY <1>1, <1>2, <2>1
  <2> QED BY <2>2
<1>10. \A j \in 0 .. k : j \in Held
  <2> HIDE DEF Held
  <2> QED BY <1>8, <1>9, AllUpTo
<1>11. copied \in [0 .. k -> U]
  <2> HIDE DEF U
  <2>1. \A j \in 0 .. k : copied[j] \in U
    BY <1>10
  <2>2. copied = [j \in 0 .. k |-> copied[j]]
    BY <1>6
  <2> QED BY <2>1, <2>2
<1>12. CopyFrom(m, d, p, k) = copied[k]
  BY DEF CopyFrom, copied
<1>13. Rounds(m, d, p, k, copied)
  BY <1>7, <1>11, <1>12 DEF Rounds
<1> QED BY <1>13

(* How many bytes a copy puts out: no more than the file has.              *)
LEMMA CopyFacts ==
    ASSUME NEW m \in LArc, input \in Inputs, NEW d \in Unpackers(m), Len(d.out) <= Size,
           NEW p \in Nat, NEW k \in Nat
    PROVE  LET f == CopyFrom(m, d, p, k)
           IN /\ f \in Unpackers(m) /\ Len(f.out) = Least(Len(d.out) + k, Size)
              /\ f.pos = d.pos /\ f.flags = d.flags /\ f.mask = d.mask /\ f.inStep = d.inStep
<1>1. Size \in Nat /\ Len(d.out) \in Nat
  BY InputBytes DEF Unpackers
<1>2. PICK copied : Rounds(m, d, p, k, copied)
  BY CopyRounds
<1> DEFINE Kept(s) == s.pos = d.pos /\ s.flags = d.flags /\ s.mask = d.mask /\ s.inStep = d.inStep
           Held == {j \in 0 .. k : /\ Kept(copied[j])
                                   /\ Len(copied[j].out) = Least(Len(d.out) + j, Size)}
<1>3. 0 \in Held
  BY <1>1, <1>2 DEF Least, Rounds
<1>4. ASSUME NEW j \in 1 .. k, j - 1 \in Held PROVE j \in Held
  <2> DEFINE s == copied[j - 1]
             t == copied[j]
  <2>1. /\ Kept(s) /\ Len(s.out) = Least(Len(d.out) + (j - 1), Size)
        /\ t = CopyByte(m, s, p + j - 1) /\ p + j - 1 \in Nat
    BY <1>2, <1>4 DEF Rounds
  <2>2. s \in Unpackers(m)
    <3>1. j - 1 \in 0 .. k
      OBVIOUS
    <3> QED BY <1>2, <3>1 DEF Rounds
  <2> HIDE DEF s, t
  <2>3. /\ t.pos = s.pos /\ t.flags = s.flags /\ t.mask = s.mask /\ t.inStep = s.inStep
        /\ Len(t.out) = IF Len(s.out) = Size THEN Size ELSE Len(s.out) + 1
    BY <2>1, <2>2, CopyByteFacts
  <2>4. Len(t.out) = Least(Len(d.out) + j, Size)
    BY <1>1, <2>1, <2>3 DEF Least
  <2>5. j \in 0 .. k /\ Kept(t)
    BY <2>1, <2>3
  <2> QED BY <2>4, <2>5 DEF t
<1>5. k \in Held
  <2> HIDE DEF Held
  <2>1. \A j \in 0 .. k : j \in Held
    BY <1>3, <1>4, AllUpTo
  <2> QED BY <2>1
<1> QED BY <1>2, <1>5 DEF Rounds

LEMMA ReadAsStep ==
    ASSUME IInv, NEW m \in LArc, NEW mask \in Nat, ReadAs(m, mask)
    PROVE  IInv' /\ Nearer
<1>1. /\ input' \in Inputs /\ spare' \in Nat /\ Size' = Size /\ Size \in Nat /\ method' = m
      /\ method = m /\ status = "items" /\ status' = "read" /\ out' = out
  BY SameInput DEF ReadAs
<1>2. LzWindow[m] \in Nat \ {0}
  BY Constants
<1>3. dec' = [pos |-> 0, flags |-> 0, mask |-> mask, inStep |-> mask = 0,
              win |-> Zeros(m), w |-> 0, out |-> <<>>]
  BY DEF ReadAs
<1>4. dec' \in Unpackers(m) /\ dec'.out = <<>>
  BY <1>2, <1>3 DEF Unpackers, Zeros
<1>5. Unpacking'
  BY <1>1, <1>4 DEF Unpacking, IInv, Packing
<1>6. IInv'
  BY <1>1, <1>5 DEF IInv
<1>7. Phase = 2 /\ Phase' = 1 /\ Left' = Size
  BY <1>1, <1>4 DEF Phase, Left
<1> QED BY <1>1, <1>6, <1>7 DEF Nearer

LEMMA DecodeStep ==
    ASSUME IInv, NEW m \in LArc, method = m, status = "read", Len(dec.out) < Size,
           NEW d \in Unpackers(m), d.out = dec.out,
           NEW match \in BOOLEAN, NEW b, NEW p, NEW k, NEW n \in Nat,
           match => p \in Nat /\ k \in Nat \ {0}, ~ match => b \in Nat,
           dec' = [IF match THEN CopyFrom(m, d, p, k) ELSE Put(m, d, b)
                      EXCEPT !.pos = @ + n, !.mask = @ \div 2],
           UNCHANGED <<status, out>>, Same
    PROVE  IInv' /\ Nearer /\ dec'.inStep = d.inStep
<1> DEFINE f == IF match THEN CopyFrom(m, d, p, k) ELSE Put(m, d, b)
<1>1. /\ input' \in Inputs /\ input \in Inputs /\ spare' \in Nat /\ Size' = Size /\ Size \in Nat
      /\ method' = m /\ status' = "read" /\ out' = out /\ out \in Seq(Nat) /\ Len(d.out) \in Nat
  BY SameInput DEF IInv, Unpacking, Unpackers
<1>2. /\ f \in Unpackers(m) /\ Len(f.out) \in Nat /\ Len(f.out) > Len(d.out) /\ Len(f.out) <= Size
      /\ f.inStep = d.inStep
  <2>1. CASE match
    <3>1. f = CopyFrom(m, d, p, k) /\ p \in Nat /\ k \in Nat \ {0}
      BY <2>1
    <3>2. f \in Unpackers(m) /\ Len(f.out) = Least(Len(d.out) + k, Size) /\ f.inStep = d.inStep
      BY <1>1, <3>1, CopyFacts, SMTT(30)
    <3> HIDE DEF f
    <3> QED BY <1>1, <3>1, <3>2 DEF Least
  <2>2. CASE ~ match
    <3>1. f = Put(m, d, b) /\ b \in Nat
      BY <2>2
    <3> HIDE DEF f
    <3>2. f \in Unpackers(m) /\ Len(f.out) = Len(d.out) + 1 /\ f.inStep = d.inStep
      BY <3>1, PutFacts, ZenonT(30)
    <3> QED BY <1>1, <3>2
  <2> QED BY <2>1, <2>2
<1> HIDE DEF f
<1>3. dec' = [f EXCEPT !.pos = f.pos + n, !.mask = f.mask \div 2]
  BY <1>2 DEF f, Unpackers
<1>4. dec' \in Unpackers(m) /\ dec'.out = f.out /\ dec'.inStep = f.inStep
  <2>1. f.pos + n \in Nat /\ f.mask \div 2 \in Nat
    <3>1. f.pos \in Nat /\ f.mask \in Nat
      BY <1>2 DEF Unpackers
    <3>2. f.mask \div 2 \in Nat
      BY <3>1, Quotient
    <3> QED BY <3>1, <3>2
  <2> QED BY <1>2, <1>3, <2>1 DEF Unpackers
<1>5. Unpacking'
  BY <1>1, <1>2, <1>4 DEF Unpacking
<1>6. IInv'
  BY <1>1, <1>5 DEF IInv
<1>7. Phase = 1 /\ Phase' = 1 /\ Left = Size - Len(d.out) /\ Left' = Size - Len(f.out)
  BY <1>1, <1>4 DEF Phase, Left
<1> QED BY <1>1, <1>2, <1>4, <1>6, <1>7 DEF Nearer

LEMMA LzDecodeStep ==
    ASSUME IInv, LzsDecode \/ Lz5Decode
    PROVE  IInv' /\ Nearer /\ dec'.inStep = dec.inStep
<1> DEFINE flagged == dec.mask = 0
           d == IF flagged
                THEN [dec EXCEPT !.pos = @ + 1, !.flags = out[dec.pos + 1], !.mask = TopFlag]
                ELSE dec
           match == (d.flags \div d.mask) % 2 = 1
           low == out[d.pos + 1]
           high == out[d.pos + 2]
           length == (high % LenRange) + Threshold
           from == low + ((high \div LenRange) * LowRange)
<1>1. /\ method \in LArc /\ status = "read" /\ out \in Seq(Nat) /\ dec \in Unpackers(method)
      /\ LenRange \in Nat \ {0} /\ LowRange \in Nat \ {0} /\ Threshold \in Nat \ {0}
      /\ TopFlag \in Nat
  BY Constants DEF LzsDecode, Lz5Decode, LzDecode, IInv, Unpacking
<1>2. CASE End("failed") \/ End("done")
  <2>1. IInv' /\ Nearer
    BY <1>1, <1>2, EndStep DEF Under
  <2>2. dec' = dec
    BY <1>2 DEF End
  <2> QED BY <2>1, <2>2
<1>3. CASE /\ ~ (dec.pos >= Len(out) \/ Len(dec.out) >= Size)
           /\ ~ (d.pos + (IF match THEN 2 ELSE 1) > Len(out))
           /\ dec' = [IF match THEN CopyFrom(method, d, from, length) ELSE Put(method, d, low)
                         EXCEPT !.pos = @ + (IF match THEN 2 ELSE 1), !.mask = @ \div 2]
           /\ UNCHANGED <<status, out>> /\ Same
  <2>1. /\ dec.pos \in Nat /\ dec.pos < Len(out) /\ Len(out) \in Nat
        /\ Len(dec.out) \in Nat /\ Len(dec.out) < Size
    <3>1. dec.pos \in Nat /\ dec.out \in Seq(Nat)
      BY <1>1 DEF Unpackers
    <3>2. Size \in Nat
      BY InputBytes DEF IInv
    <3>3. Len(out) \in Nat /\ Len(dec.out) \in Nat
      BY <1>1, <3>1
    <3>4. ~ (dec.pos >= Len(out) \/ Len(dec.out) >= Size)
      BY <1>3
    <3> QED BY <3>1, <3>2, <3>3, <3>4
  <2>2. out[dec.pos + 1] \in Nat
    <3>1. dec.pos + 1 \in 1 .. Len(out)
      BY <2>1
    <3> QED BY <1>1, <3>1, ElementOfSeq, Zenon
  <2>3. d \in Unpackers(method) /\ d.out = dec.out /\ d.inStep = dec.inStep
    <3>1. dec.pos + 1 \in Nat
      BY <2>1
    <3> QED BY <1>1, <2>2, <3>1 DEF Unpackers
  <2> HIDE DEF d
  <2>4. d.pos \in Nat /\ d.pos + (IF match THEN 2 ELSE 1) <= Len(out)
    BY <1>3, <2>1, <2>3 DEF Unpackers
  <2>5. low \in Nat
    <3>1. d.pos + 1 \in 1 .. Len(out)
      BY <2>1, <2>4
    <3> QED BY <1>1, <3>1, ElementOfSeq, Zenon
  <2>6. match => from \in Nat /\ length \in Nat \ {0}
    <3>1. SUFFICES ASSUME match PROVE from \in Nat /\ length \in Nat \ {0}
      OBVIOUS
    <3>2. d.pos + 2 \in 1 .. Len(out)
      BY <2>1, <2>4, <3>1
    <3>3. high \in Nat
      BY <1>1, <3>2, ElementOfSeq, Zenon
    <3> HIDE DEF high, low
    <3>4. high \div LenRange \in Nat /\ high % LenRange \in Nat
      BY <1>1, <3>3, Quotient
    <3> QED BY <1>1, <2>5, <3>4, SMTT(30)
  <2> HIDE DEF match, low, length, from
  <2>7. match \in BOOLEAN
    BY DEF match
  <2>8. (IF match THEN 2 ELSE 1) \in Nat
    OBVIOUS
  <2> QED BY <1>1, <1>3, <2>1, <2>3, <2>5, <2>6, <2>7, <2>8, DecodeStep
<1>4. CASE LzsDecode
  BY <1>2, <1>3, <1>4 DEF LzsDecode, LzDecode
<1>5. CASE Lz5Decode
  BY <1>2, <1>3, <1>5 DEF Lz5Decode, LzDecode
<1> QED BY <1>4, <1>5

(* The methods that copy, and those that are refused.                      *)
LEMMA PlainStep ==
    ASSUME IInv, Same,
           \/ status = "begin" /\ status' = "stored"
           \/ status = "stored" /\ status' = "done"
    PROVE  IInv' /\ Nearer
<1>1. input' \in Inputs /\ spare' \in Nat
  BY SameInput
<1>2. IInv'
  BY <1>1 DEF IInv
<1>3. Left' = 0
  BY DEF Left
<1>4. CASE status = "begin" /\ status' = "stored"
  BY <1>2, <1>3, <1>4 DEF Nearer, Phase
<1>5. CASE status = "stored" /\ status' = "done"
  BY <1>2, <1>3, <1>5 DEF Nearer, Phase
<1> QED BY <1>4, <1>5

LEMMA StoreStep ==
    ASSUME IInv, NEW ms, NEW bytes, NEW enough, Store(ms, bytes, enough)
    PROVE  IInv' /\ Nearer
<1>1. CASE End("failed")
  BY <1>1, EndStep DEF Store, Under
<1>2. CASE status' = "stored" /\ Same
  BY <1>2, PlainStep DEF Store
<1> QED BY <1>1, <1>2 DEF Store

-----------------------------------------------------------------------------
(* The call.                                                               *)

LEMMA NextNearer ==
    ASSUME IInv, Next
    PROVE  IInv' /\ Nearer
<1>1. CASE Lh5Begin \/ Lh6Begin \/ Lh7Begin
  BY <1>1, BeginStep DEF Lh5Begin, Lh6Begin, Lh7Begin, Chained
<1>2. CASE Lh5First \/ Lh6First
  BY <1>2, CountAllStep DEF Lh5First, Lh6First
<1>3. CASE Lh7First
  BY <1>3, Lh7FirstStep
<1>4. CASE Lh5Tables \/ Lh6Tables
  <2>1. PICK m \in {"lh5", "lh6"}, longest \in {7, 8} :
           Tables(m, Lens(m, longest), 8 * (NumCodes(m) + DistTable[m]))
    BY <1>4 DEF Lh5Tables, Lh6Tables
  <2>2. m \in Chained /\ longest \in Nat \ {0}
    BY DEF Chained
  <2>3. codes \in Coded(m, Nat)
    BY <2>1 DEF Tables, IInv, FirstPass
  <2>4. Lens(m, longest) \in Coded(m, Nat \ {0})
    BY <2>2, <2>3, LensPositive
  <2>5. 8 * (NumCodes(m) + DistTable[m]) \in Nat
    <3>1. NumCodes(m) \in Nat /\ DistTable[m] \in Nat
      BY <2>2, CodesFacts
    <3> QED BY <3>1
  <2> QED BY <2>1, <2>2, <2>4, <2>5, TablesStep
<1>5. CASE Lh7Tables
  <2>1. "lh7" \in Chained /\ 1 \in Nat
    BY DEF Chained
  <2>2. Preset \in Coded("lh7", Nat \ {0})
    BY <2>1, CodesFacts
  <2> QED BY <1>5, <2>1, <2>2, TablesStep DEF Lh7Tables
<1>6. CASE Lh5Second
  BY <1>6, Lh5SecondStep
<1>7. CASE Lh6Second
  BY <1>7, Lh6SecondStep
<1>8. CASE Lh7Second
  BY <1>8, Lh7SecondStep
<1>9. CASE Lh5Finish \/ Lh6Finish \/ Lh7Finish
  BY <1>9, FinishStep DEF Lh5Finish, Lh6Finish, Lh7Finish
<1>10. CASE LzsBegin \/ Lz5Begin
  BY <1>10, LzBeginStep DEF LzsBegin, Lz5Begin, LArc
<1>11. CASE LzsItem \/ Lz5Item
  BY <1>11, LzItemStep DEF LzsItem, Lz5Item, LArc
<1>12. CASE LzsRead \/ Lz5Read \/ Lz5ReadElsewhere
  <2>1. 0 \in Nat /\ TopFlag \in Nat
    BY Constants
  <2> QED BY <1>12, <2>1, ReadAsStep DEF LzsRead, Lz5Read, Lz5ReadElsewhere, LArc
<1>13. CASE LzsDecode \/ Lz5Decode
  BY <1>13, LzDecodeStep
<1>14. CASE Lh0Store \/ Lh1Store \/ Lh2Store \/ Lz4Store
  BY <1>14, StoreStep DEF Lh0Store, Lh1Store, Lh2Store, Lz4Store
<1>15. CASE Lh0Read
  BY <1>15, PlainStep DEF Lh0Read
<1>16. CASE Lh1Read \/ Lh2Read \/ Unsupported \/ NoData
  BY <1>16, EndStep DEF Lh1Read, Lh2Read, Unsupported, NoData, Under
<1> QED
  BY <1>1, <1>2, <1>3, <1>4, <1>5, <1>6, <1>7, <1>8, <1>9, <1>10, <1>11, <1>12, <1>13, <1>14,
     <1>15, <1>16 DEF Next

LEMMA Inductive ==
    /\ Init => IInv
    /\ IInv /\ [Next]_vars => IInv'
<1>1. Init => IInv
  BY Constants DEF Init, IInv
<1>2. ASSUME IInv, UNCHANGED vars PROVE IInv'
  <2>1. Size' = Size /\ Capacity' = Capacity
    BY <1>2 DEF vars, Size, Capacity
  <2>2. FirstPass' = FirstPass
    <3>1. Coding(Size, method, Least(Size, Threshold), enc)'
             = Coding(Size, method, Least(Size, Threshold), enc)
      BY <1>2, <2>1 DEF vars, Coding, Rings, Linked, Older, Place, Cur, Least
    <3> QED BY <1>2, <2>1, <3>1 DEF vars, FirstPass, Coded, NumCodes
  <2>3. SecondPass' = SecondPass
    <3>1. Coding(Size, method, Least(Size, MaxMatch), enc)'
             = Coding(Size, method, Least(Size, MaxMatch), enc)
      BY <1>2, <2>1 DEF vars, Coding, Rings, Linked, Older, Place, Cur, Least
    <3> QED BY <1>2, <2>1, <3>1 DEF vars, SecondPass, Coded, NumCodes
  <2>4. Packing' = Packing /\ Unpacking' = Unpacking
    BY <1>2, <2>1 DEF vars, Packing, Unpacking, Unpackers
  <2> QED BY <1>2, <2>2, <2>3, <2>4 DEF vars, IInv
<1> QED BY <1>1, <1>2, NextNearer

LEMMA IInvCursors == IInv => CursorSafe
<1>1. SUFFICES ASSUME IInv, Encoding PROVE CursorSafe
  BY DEF CursorSafe
<1> DEFINE c == Least(Size, IF status = "first" THEN Threshold ELSE MaxMatch)
<1>2. method \in Chained /\ Coding(Size, method, c, enc)
  BY <1>1 DEF Encoding, IInv, FirstPass, SecondPass
<1>3. /\ enc.ahead >= 0 /\ Cur(enc) >= 0 /\ Cur(enc) <= Size + 1
      /\ enc.start < Size => enc.ahead >= Threshold
      /\ enc.w = (c + enc.inserted) % Ring[method]
  BY <1>2 DEF Coding, Linked, Place
<1>4. c \in Nat /\ enc.inserted \in Nat
  <2>1. Size \in Nat /\ Threshold \in Nat /\ MaxMatch \in Nat
    BY <1>1, InputBytes, Constants DEF IInv
  <2> QED BY <1>2, <2>1 DEF Coding, Rings, Least
<1>5. c + enc.inserted = enc.inserted + c
  BY <1>4
<1>6. Least(MaxMatch - 1, Threshold) = Threshold
  BY Constants DEF Least
<1> QED BY <1>3, <1>5, <1>6, Zenon DEF CursorSafe

(* Whatever the input, and however large the ring: the unsigned cursors of *)
(* lh_compress_lh5, lh_compress_lh6 and lh_compress_lh7 never go below     *)
(* zero, a pass reads only bytes of the input that are looked ahead at,    *)
(* and the place of the next byte in the ring is the number of bytes that  *)
(* went in.                                                                *)
THEOREM CursorsSafe == Spec => []CursorSafe
<1>1. Init => IInv
  BY Inductive
<1>2. IInv /\ [Next]_vars => IInv'
  BY Inductive
<1>3. IInv => CursorSafe
  BY IInvCursors
<1> QED BY <1>1, <1>2, <1>3, PTL DEF Spec

(* Every step of lh_codec_compress, and of the decoders, takes the call    *)
(* nearer to its end, whatever is compressed and as what.  A chain that is *)
(* searched for ever takes as many strings as the ring has places, or it   *)
(* is the second pass of lh_compress_lh6 behind the end of the input.      *)
THEOREM CallsEnd == Spec => CallEnds
<1>1. Init => IInv
  BY Inductive
<1>2. IInv /\ [Next]_vars => IInv'
  BY Inductive
<1>3. IInv /\ [Next]_vars =>
         [/\ Left' >= 0
          /\ Phase' < Phase \/ (Phase' = Phase /\ Left' < Left)
          /\ status' = "hung" => enc.inserted >= Ring[method] \/ RepeatsItself]_vars
  BY NextNearer DEF Nearer
<1> QED BY <1>1, <1>2, <1>3, PTL DEF Spec, CallEnds

-----------------------------------------------------------------------------
(* What is read back: arithmetic of windows and flags.                     *)

LEMMA Turns ==
    ASSUME NEW n \in Nat \ {0}, NEW q \in Int, NEW x \in Int
    PROVE  (n * q + x) % n = x % n
<1> DEFINE t == x \div n
           r == x % n
<1>1. t \in Int /\ r \in 0 .. n - 1 /\ x = n * t + r
  BY Remainder
<1> HIDE DEF t, r
<1>2. q + t \in Int /\ n * (q + t) + r = n * q + x
  BY <1>1
<1>3. (n * (q + t) + r) % n = r
  BY <1>1, <1>2, RemainderIs
<1> QED BY <1>2, <1>3 DEF r

LEMMA Small ==
    ASSUME NEW n \in Nat \ {0}, NEW x \in Int
    PROVE  /\ x \in 0 .. n - 1 => x % n = x
           /\ x + n \in 0 .. n - 1 => x % n = x + n
<1>1. x \in 0 .. n - 1 => x % n = x
  <2>1. n * 0 + x = x
    OBVIOUS
  <2> QED BY <2>1, RemainderIs
<1>2. x + n \in 0 .. n - 1 => x % n = x + n
  <2>1. n * (-1) + (x + n) = x /\ -1 \in Int
    OBVIOUS
  <2> QED BY <2>1, RemainderIs
<1> QED BY <1>1, <1>2

(* Remainders of sums and of differences.                                  *)
LEMMA SumOf ==
    ASSUME NEW n \in Nat \ {0}, NEW a \in Int, NEW b \in Int
    PROVE  /\ ((a % n) + b) % n = (a + b) % n
           /\ (b - (a % n)) % n = (b - a) % n
<1> DEFINE q == a \div n
           r == a % n
           back == -q
<1>1. q \in Int /\ r \in 0 .. n - 1 /\ a = n * q + r
  BY Remainder
<1> HIDE DEF q, r
<1>2. back \in Int /\ n * back = -(n * q)
  BY <1>1
<1>3. n * q + (r + b) = a + b /\ n * back + (b - r) = b - a
  BY <1>1, <1>2
<1>4. r + b \in Int /\ b - r \in Int
  BY <1>1
<1> HIDE DEF back
<1>5. (n * q + (r + b)) % n = (r + b) % n /\ (n * back + (b - r)) % n = (b - r) % n
  BY <1>1, <1>2, <1>4, Turns
<1> QED BY <1>3, <1>5 DEF r

(* What a window holds when n bytes of x went in: in each place the last   *)
(* one.                                                                    *)
LastAt(m, n, p) == n - 1 - ((n - 1 - p) % LzWindow[m])
WindowAt(x, m, n) ==
    [p \in 0 .. LzWindow[m] - 1 |-> IF LastAt(m, n, p) >= 0 THEN x[LastAt(m, n, p) + 1] ELSE 0]

LEMMA WindowBegins ==
    ASSUME NEW m \in LArc
    PROVE  WindowAt(input, m, 0) = Zeros(m)
<1>1. LzWindow[m] \in Nat \ {0}
  BY Constants
<1>2. ASSUME NEW p \in 0 .. LzWindow[m] - 1 PROVE ~ (LastAt(m, 0, p) >= 0)
  <2>1. (0 - 1 - p) % LzWindow[m] \in 0 .. LzWindow[m] - 1
    <3>1. 0 - 1 - p \in Int
      OBVIOUS
    <3> QED BY <1>1, <3>1, Remainder
  <2> QED BY <2>1 DEF LastAt
<1> QED BY <1>2 DEF WindowAt, Zeros

(* k bytes more: d is how far place p is from where they begin.            *)
LEMMA LastOf ==
    ASSUME NEW m \in LArc, NEW n \in Nat, NEW k \in 0 .. LzWindow[m],
           NEW p \in 0 .. LzWindow[m] - 1
    PROVE  LET d == (p - (n % LzWindow[m])) % LzWindow[m]
           IN /\ d \in 0 .. LzWindow[m] - 1
              /\ d < k => LastAt(m, n + k, p) = n + d
              /\ d >= k => LastAt(m, n + k, p) = LastAt(m, n, p)
<1> DEFINE N == LzWindow[m]
           d == (p - (n % N)) % N
           v == (p - n) \div N
           back == -v
<1>1. N \in Nat \ {0} /\ n \in Int /\ p \in Int /\ p - n \in Int
  BY Constants
<1>2. d = (p - n) % N
  BY <1>1, SumOf
<1>3. d \in 0 .. N - 1 /\ v \in Int /\ p - n = N * v + d
  BY <1>1, <1>2, Remainder
<1> HIDE DEF d, v, N
<1>4. back \in Int /\ N * back = -(N * v)
  BY <1>1, <1>3
<1> HIDE DEF back
<1>5. ASSUME NEW x \in Int PROVE (n + x - p) % N = (x - d) % N
  <2>1. x - d \in Int /\ N * back + (x - d) = n + x - p
    BY <1>1, <1>3, <1>4
  <2>2. (N * back + (x - d)) % N = (x - d) % N
    BY <1>1, <1>4, <2>1, Turns
  <2> QED BY <2>1, <2>2
<1>6. ASSUME NEW j \in 0 .. N
      PROVE  LastAt(m, n + j, p) = (n + j) - 1 - ((j - 1 - d) % N)
  <2>1. j - 1 \in Int /\ n + (j - 1) - p = (n + j) - 1 - p /\ (j - 1) - d = j - 1 - d
    BY <1>1, <1>3
  <2>2. (n + (j - 1) - p) % N = ((j - 1) - d) % N
    BY <1>5, <2>1
  <2>3. ((n + j) - 1 - p) % N = (j - 1 - d) % N
    BY <2>1, <2>2, Zenon
  <2>4. LastAt(m, n + j, p) = (n + j) - 1 - (((n + j) - 1 - p) % N)
    BY DEF LastAt, N
  <2> QED BY <2>3, <2>4
<1>7. ASSUME NEW j \in 0 .. N, d < j PROVE LastAt(m, n + j, p) = n + d
  <2>1. j - 1 - d \in Int /\ j - 1 - d \in 0 .. N - 1
    BY <1>1, <1>3, <1>7
  <2>2. (j - 1 - d) % N = j - 1 - d
    BY <1>1, <2>1, Small
  <2> QED BY <1>1, <1>3, <1>6, <2>2
<1>8. ASSUME NEW j \in 0 .. N, d >= j PROVE LastAt(m, n + j, p) = n - N + d
  <2>1. j - 1 - d \in Int /\ j - 1 - d + N \in 0 .. N - 1
    BY <1>1, <1>3, <1>8
  <2>2. (j - 1 - d) % N = j - 1 - d + N
    BY <1>1, <2>1, Small
  <2> QED BY <1>1, <1>3, <1>6, <2>2
<1>9. k \in 0 .. N /\ 0 \in 0 .. N /\ d >= 0 /\ n + 0 = n
  BY <1>1, <1>3 DEF N
<1>10. d >= k => LastAt(m, n + k, p) = LastAt(m, n, p)
  BY <1>8, <1>9
<1>11. d < k => LastAt(m, n + k, p) = n + d
  BY <1>7, <1>9
<1> QED BY <1>3, <1>10, <1>11 DEF N, d

(* Into is what the encoder does to its window.                            *)
LEMMA WindowTaken ==
    ASSUME NEW m \in LArc, NEW n \in Nat, NEW k \in 0 .. LzWindow[m]
    PROVE  Into(m, WindowAt(input, m, n), n % LzWindow[m], n, k) = WindowAt(input, m, n + k)
<1> DEFINE N == LzWindow[m]
           a == Into(m, WindowAt(input, m, n), n % N, n, k)
           b == WindowAt(input, m, n + k)
<1>1. N \in Nat \ {0}
  BY Constants
<1>2. ASSUME NEW p \in 0 .. N - 1
      PROVE  (IF (p - (n % N)) % N < k THEN Text(n + ((p - (n % N)) % N)) ELSE WindowAt(input, m, n)[p])
                = b[p]
  <2> DEFINE d == (p - (n % N)) % N
  <2>1. /\ d \in 0 .. N - 1
        /\ d < k => LastAt(m, n + k, p) = n + d
        /\ d >= k => LastAt(m, n + k, p) = LastAt(m, n, p)
    BY LastOf
  <2> HIDE DEF d
  <2>2. b[p] = IF LastAt(m, n + k, p) >= 0 THEN Text(LastAt(m, n + k, p)) ELSE 0
    BY DEF WindowAt, Text
  <2>3. WindowAt(input, m, n)[p] = IF LastAt(m, n, p) >= 0 THEN Text(LastAt(m, n, p)) ELSE 0
    BY DEF WindowAt, Text
  <2> HIDE DEF b
  <2>4. SUFFICES (IF d < k THEN Text(n + d) ELSE WindowAt(input, m, n)[p]) = b[p]
    BY DEF d
  <2>5. k \in Int /\ d \in Nat
    BY <1>1, <2>1
  <2>6. CASE d < k
    BY <2>1, <2>2, <2>5, <2>6
  <2>7. CASE ~ (d < k)
    BY <2>1, <2>2, <2>3, <2>5, <2>7
  <2> QED BY <2>6, <2>7
<1>3. a = [p \in 0 .. N - 1 |->
             IF (p - (n % N)) % N < k THEN Text(n + ((p - (n % N)) % N)) ELSE WindowAt(input, m, n)[p]]
  BY DEF Into, WindowAt
<1>4. b = [p \in 0 .. N - 1 |-> b[p]]
  BY DEF WindowAt
<1> HIDE DEF a, b
<1>5. a = b
  BY <1>2, <1>3, <1>4
<1> QED BY <1>5 DEF a, b

LEMMA WindowNext ==
    ASSUME NEW m \in LArc, NEW n \in Nat
    PROVE  [WindowAt(input, m, n) EXCEPT ![n % LzWindow[m]] = Text(n)] = WindowAt(input, m, n + 1)
<1> DEFINE N == LzWindow[m]
           w == n % N
           win == WindowAt(input, m, n)
<1>1. N \in Nat \ {0} /\ n \in Int /\ w \in 0 .. N - 1 /\ 1 \in 0 .. N
  <2>1. N \in Nat \ {0} /\ n \in Int
    BY Constants
  <2>2. w \in 0 .. N - 1
    BY <2>1, Remainder
  <2> QED BY <2>1, <2>2
<1>2. win = [p \in 0 .. N - 1 |-> win[p]]
  BY DEF WindowAt
<1>3. Into(m, win, w, n, 1) = [p \in 0 .. N - 1 |-> IF (p - w) % N < 1 THEN Text(n + ((p - w) % N))
                                                     ELSE win[p]]
  BY DEF Into, WindowAt
<1>4. Into(m, win, w, n, 1) = WindowAt(input, m, n + 1)
  BY <1>1, WindowTaken
<1> HIDE DEF win, w, N
<1>5. ASSUME NEW p \in 0 .. N - 1
      PROVE  (IF (p - w) % N < 1 THEN Text(n + ((p - w) % N)) ELSE win[p])
                = IF p = w THEN Text(n) ELSE win[p]
  <2>1. p - w \in Int
    BY <1>1
  <2>2. CASE p = w
    <3>1. p - w \in 0 .. N - 1 /\ p - w = 0
      BY <1>1, <2>2
    <3>2. (p - w) % N = 0
      BY <1>1, <2>1, <3>1, Small
    <3>3. n + 0 = n
      OBVIOUS
    <3> QED BY <2>2, <3>2, <3>3
  <2>3. CASE p > w
    <3>1. p - w \in 0 .. N - 1 /\ p - w >= 1
      BY <1>1, <2>3
    <3>2. (p - w) % N = p - w
      BY <1>1, <2>1, <3>1, Small
    <3> QED BY <1>1, <2>3, <3>1, <3>2
  <2>4. CASE p < w
    <3>1. p - w + N \in 0 .. N - 1 /\ p - w + N >= 1
      BY <1>1, <2>4
    <3>2. (p - w) % N = p - w + N
      BY <1>1, <2>1, <3>1, Small
    <3> QED BY <1>1, <2>4, <3>1, <3>2
  <2> QED BY <1>1, <2>2, <2>3, <2>4
<1>6. [win EXCEPT ![w] = Text(n)] = [p \in 0 .. N - 1 |-> IF p = w THEN Text(n) ELSE win[p]]
  BY <1>2
<1>7. [win EXCEPT ![w] = Text(n)] = WindowAt(input, m, n + 1)
  BY <1>3, <1>4, <1>5, <1>6
<1> QED BY <1>7 DEF win, w, N

(* A decoder that has put out the first n bytes of x.                      *)
Synced(x, m, d, n) ==
    /\ d \in Unpackers(m) /\ n \in 0 .. Len(x) /\ Len(d.out) = n
    /\ \A i \in 1 .. n : d.out[i] = x[i]
    /\ d.w = n % LzWindow[m] /\ d.win = WindowAt(x, m, n)

LEMMA PutSynced ==
    ASSUME NEW m \in LArc, input \in Inputs, NEW n, n < Size, NEW d, Synced(input, m, d, n)
    PROVE  Synced(input, m, Put(m, d, Text(n)), n + 1)
<1> DEFINE f == Put(m, d, Text(n))
           b == Text(n)
           N == LzWindow[m]
<1>1. Size \in Nat /\ n \in 0 .. Size - 1 /\ n \in Int /\ N \in Nat \ {0}
  BY InputBytes, Constants DEF Synced
<1>2. b \in Nat /\ b = input[n + 1]
  BY <1>1, InputBytes DEF Text
<1>3. d \in Unpackers(m) /\ Len(d.out) = n /\ d.w = n % N /\ d.win = WindowAt(input, m, n)
  BY DEF Synced
<1>4. /\ f \in Unpackers(m)
      /\ f.out = Append(d.out, b) /\ Len(f.out) = Len(d.out) + 1
      /\ f.win = [d.win EXCEPT ![d.w] = b] /\ f.w = (d.w + 1) % N
  <2> HIDE DEF b
  <2> QED BY <1>2, <1>3, PutFacts, ZenonT(30) DEF b
<1> HIDE DEF f
<1>5. f.w = (n + 1) % N
  BY <1>1, <1>3, <1>4, RoundTheRing
<1>6. f.win = WindowAt(input, m, n + 1)
  BY <1>1, <1>3, <1>4, WindowNext
<1>7. \A i \in 1 .. n + 1 : f.out[i] = input[i]
  <2> TAKE i \in 1 .. n + 1
  <2>1. d.out \in Seq(Nat)
    BY <1>3 DEF Unpackers
  <2>2. \A k \in 1 .. n : f.out[k] = d.out[k]
    BY <1>2, <1>3, <1>4, <2>1, AppendProperties
  <2>3. f.out[n + 1] = b
    BY <1>2, <1>3, <1>4, <2>1, AppendProperties
  <2>4. CASE i \in 1 .. n
    BY <2>2, <2>4 DEF Synced
  <2>5. CASE i = n + 1
    BY <1>2, <2>3, <2>5
  <2> QED BY <1>1, <2>4, <2>5
<1> QED BY <1>1, <1>3, <1>4, <1>5, <1>6, <1>7 DEF Synced, Size, f

(* A copy of k bytes does not overwrite what it still has to read.         *)
LEMMA WindowKeeps ==
    ASSUME NEW m \in LArc, NEW n \in Nat, NEW from \in Nat, NEW k \in 0 .. LzWindow[m],
           ((n % LzWindow[m]) - from) % LzWindow[m] \notin 1 .. k - 1, NEW i \in 0 .. k - 1
    PROVE  LET x == (from + i) % LzWindow[m]
           IN x \in 0 .. LzWindow[m] - 1 /\ WindowAt(input, m, n + i)[x] = WindowAt(input, m, n)[x]
<1> DEFINE N == LzWindow[m]
           w == n % N
           x == (from + i) % N
           c == (w - from) % N
           d == (x - w) % N
<1>1. /\ N \in Nat \ {0} /\ n \in Int /\ from \in Int /\ i \in Int /\ from + i \in Int
      /\ k \in 0 .. N
  BY Constants
<1>2. w \in 0 .. N - 1 /\ x \in 0 .. N - 1
  BY <1>1, Remainder
<1>3. c \in 0 .. N - 1 /\ c \notin 1 .. k - 1
  <2>1. w - from \in Int
    BY <1>1, <1>2
  <2> QED BY <1>1, <2>1, Remainder
<1>4. d = (i - c) % N
  <2> HIDE DEF w, N
  <2>1. -w \in Int /\ w - from \in Int
    BY <1>1, <1>2
  <2>2. (x + (-w)) % N = ((from + i) + (-w)) % N
    BY <1>1, <2>1, SumOf
  <2>3. (i - c) % N = (i - (w - from)) % N
    BY <1>1, <2>1, SumOf
  <2> HIDE DEF x, c
  <2>4. x + (-w) = x - w /\ (from + i) + (-w) = i - (w - from)
    BY <1>1, <1>2
  <2> QED BY <2>2, <2>3, <2>4
<1> HIDE DEF c, w, x, N
<1>5. d >= i
  <2>1. CASE c = 0
    <3>1. i - c \in 0 .. N - 1 /\ i - c = i
      BY <1>1, <2>1
    <3>2. d = i
      BY <1>1, <1>4, <3>1, Small
    <3> QED BY <1>1, <3>2
  <2>2. CASE c >= k
    <3>1. i - c + N \in 0 .. N - 1 /\ i - c \in Int /\ i - c + N >= i
      BY <1>1, <1>3, <2>2
    <3>2. d = i - c + N
      BY <1>1, <1>4, <3>1, Small
    <3> QED BY <3>1, <3>2
  <2> QED BY <1>1, <1>3, <2>1, <2>2
<1>6. LastAt(m, n + i, x) = LastAt(m, n, x)
  <2>1. i \in 0 .. LzWindow[m] /\ x \in 0 .. LzWindow[m] - 1
    BY <1>1, <1>2 DEF N
  <2>2. (x - (n % LzWindow[m])) % LzWindow[m] >= i
    BY <1>5 DEF w, N
  <2> QED BY <2>1, <2>2, LastOf
<1>7. WindowAt(input, m, n + i)[x] = WindowAt(input, m, n)[x]
  BY <1>2, <1>6 DEF WindowAt, N
<1> QED BY <1>2, <1>7 DEF x, N

(* What a match may stand for: k bytes in the window that are the next     *)
(* ones of x, and that its own copy does not overwrite before.             *)
Repeats(x, m, n, from, k) ==
    /\ from \in Nat /\ k \in 1 .. LzWindow[m]
    /\ \A i \in 0 .. k - 1 : WindowAt(x, m, n)[(from + i) % LzWindow[m]] = x[n + i + 1]
    /\ ((n % LzWindow[m]) - from) % LzWindow[m] \notin 1 .. k - 1

LEMMA CopySynced ==
    ASSUME NEW m \in LArc, input \in Inputs, NEW n, NEW d, Synced(input, m, d, n),
           NEW from, NEW k, Repeats(input, m, n, from, k), n + k <= Size
    PROVE  Synced(input, m, CopyFrom(m, d, from, k), n + k)
<1> DEFINE N == LzWindow[m]
<1>1. /\ Size \in Nat /\ n \in Nat /\ from \in Nat /\ k \in Nat /\ k \in 0 .. N
      /\ N \in Nat \ {0} /\ d \in Unpackers(m)
  BY InputBytes, Constants DEF Synced, Repeats
<1>2. PICK copied : Rounds(m, d, from, k, copied)
  BY <1>1, CopyRounds
<1> DEFINE Held == {j \in 0 .. k : Synced(input, m, copied[j], n + j)}
<1>3. 0 \in Held
  <2>1. n + 0 = n /\ copied[0] = d
    BY <1>1, <1>2 DEF Rounds
  <2> QED BY <1>1, <2>1
<1>4. ASSUME NEW j \in 1 .. k, j - 1 \in Held PROVE j \in Held
  <2> DEFINE s == copied[j - 1]
             i == j - 1
             x == (from + i) % N
  <2>1. /\ Synced(input, m, s, n + i) /\ copied[j] = CopyByte(m, s, from + i)
        /\ i \in 0 .. k - 1 /\ n + i \in Nat /\ n + i < Size /\ (n + i) + 1 = n + j
    BY <1>1, <1>2, <1>4 DEF Rounds
  <2> HIDE DEF s, i
  <2>2. /\ WindowAt(input, m, n + i)[x] = WindowAt(input, m, n)[x]
        /\ WindowAt(input, m, n)[x] = Text(n + i)
    <3>1. WindowAt(input, m, n)[x] = input[n + i + 1]
      BY <2>1 DEF Repeats
    <3>2. ((n % LzWindow[m]) - from) % LzWindow[m] \notin 1 .. k - 1
      BY DEF Repeats
    <3>3. WindowAt(input, m, n + i)[x] = WindowAt(input, m, n)[x]
      BY <1>1, <2>1, <3>2, WindowKeeps
    <3> QED BY <3>1, <3>3 DEF Text
  <2> HIDE DEF x
  <2>3. Len(s.out) # Size /\ s.win[x] = Text(n + i)
    BY <1>1, <2>1, <2>2 DEF Synced
  <2>4. copied[j] = Put(m, s, Text(n + i))
    BY <2>1, <2>3 DEF CopyByte, x
  <2>5. Synced(input, m, copied[j], n + j)
    BY <2>1, <2>4, PutSynced
  <2> QED BY <2>5
<1>5. k \in Held
  <2> HIDE DEF Held
  <2>1. \A j \in 0 .. k : j \in Held
    BY <1>1, <1>3, <1>4, AllUpTo
  <2> QED BY <1>1, <2>1
<1> QED BY <1>2, <1>5 DEF Rounds

-----------------------------------------------------------------------------
(* What a LArc encoder has written, item by item.                          *)

Masks == {1, 2, 4, 8, 16, 32, 64, 128}
Bit(f, k) == (f \div k) % 2 = 1

LEMMA FlagBits ==
    ASSUME NEW k \in Masks, NEW f \in Nat, f % (2 * k) = 0
    PROVE  /\ ~ Bit(f, k) /\ Bit(f + k, k) /\ f + k \in Nat
           /\ k \div 2 \in Masks \cup {0} /\ k \div 2 < k
           /\ k \div 2 # 0 => f % (2 * (k \div 2)) = 0 /\ (f + k) % (2 * (k \div 2)) = 0
<1>1. CASE k = 1
  BY <1>1 DEF Masks, Bit
<1>2. CASE k = 2
  BY <1>2 DEF Masks, Bit
<1>3. CASE k = 4
  BY <1>3 DEF Masks, Bit
<1>4. CASE k = 8
  BY <1>4 DEF Masks, Bit
<1>5. CASE k = 16
  BY <1>5 DEF Masks, Bit
<1>6. CASE k = 32
  BY <1>6 DEF Masks, Bit
<1>7. CASE k = 64
  BY <1>7 DEF Masks, Bit
<1>8. CASE k = 128
  BY <1>8 DEF Masks, Bit
<1> QED BY <1>1, <1>2, <1>3, <1>4, <1>5, <1>6, <1>7, <1>8 DEF Masks

(* The flags of items before.                                              *)
LEMMA FlagsBefore ==
    ASSUME NEW k \in Masks, NEW f \in Nat, f % (2 * k) = 0, NEW h \in Masks, h > k
    PROVE  Bit(f + k, h) = Bit(f, h)
<1>1. CASE k = 1
  BY <1>1 DEF Masks, Bit
<1>2. CASE k = 2
  BY <1>2 DEF Masks, Bit
<1>3. CASE k = 4
  BY <1>3 DEF Masks, Bit
<1>4. CASE k = 8
  BY <1>4 DEF Masks, Bit
<1>5. CASE k = 16
  BY <1>5 DEF Masks, Bit
<1>6. CASE k = 32
  BY <1>6 DEF Masks, Bit
<1>7. CASE k = 64
  BY <1>7 DEF Masks, Bit
<1>8. CASE k = 128
  BY <1>8 DEF Masks, Bit
<1> QED BY <1>1, <1>2, <1>3, <1>4, <1>5, <1>6, <1>7, <1>8 DEF Masks

(* Where an item begins: behind how many bytes of the output, with which   *)
(* flag of which byte, and after how many bytes of the input.  With no     *)
(* flag left a byte of flags comes first.                                  *)
Places == [pos : Nat, flagAt : Nat, mask : Masks \cup {0}, n : Nat]
Start == [pos |-> 0, flagAt |-> 0, mask |-> 0, n |-> 0]
Open(a) ==
    IF a.mask = 0 THEN [pos |-> a.pos + 1, flagAt |-> a.pos + 1, mask |-> TopFlag, n |-> a.n] ELSE a

(* The item of o between a and b, which stands for bytes of x.             *)
Item(x, m, o, a, b) ==
    /\ a.flagAt \in 1 .. a.pos /\ b.flagAt = a.flagAt /\ b.mask = a.mask \div 2
    /\ \/ /\ ~ Bit(o[a.flagAt], a.mask)
          /\ b.pos = a.pos + 1 /\ b.n = a.n + 1 /\ o[a.pos + 1] = x[a.n + 1]
       \/ /\ Bit(o[a.flagAt], a.mask)
          /\ b.pos = a.pos + 2 /\ b.n = a.n + ((o[a.pos + 2] % LenRange) + Threshold)
          /\ Repeats(x, m, a.n, o[a.pos + 1] + ((o[a.pos + 2] \div LenRange) * LowRange),
                     (o[a.pos + 2] % LenRange) + Threshold)

(* o has K items, which begin at the places of s.                          *)
Items(x, m, o, s, K) ==
    /\ K \in Nat /\ s \in [0 .. K -> Places] /\ s[0] = Start /\ s[K].pos <= Len(o)
    /\ \A j \in 0 .. K - 1 : /\ Item(x, m, o, Open(s[j]), s[j + 1])
                             /\ s[j].n < s[K].n /\ s[j + 1].n <= s[K].n
                             /\ s[j].pos < s[K].pos /\ s[j + 1].pos <= s[K].pos

(* Those whose flags are where the next flag goes have higher ones.        *)
Before(s, K, at, mask) ==
    \A j \in 0 .. K - 1 : \/ Open(s[j]).flagAt = at /\ Open(s[j]).mask > mask
                          \/ s[j + 1].pos < at

LEMMA OpenPlace ==
    ASSUME NEW a \in Places
    PROVE  Open(a) \in Places /\ Open(a).mask \in Masks /\ Open(a).n = a.n
           /\ Open(a).pos >= a.pos
<1>1. TopFlag \in Masks
  BY CodecAssumption DEF Masks
<1> QED BY <1>1 DEF Open, Places

LEMMA ItemKept ==
    ASSUME NEW m, NEW o, NEW o2, NEW a \in Places, NEW b \in Places, Item(input, m, o, a, b),
           NEW at \in Nat, \A i \in 1 .. b.pos : i # at => o2[i] = o[i],
           \/ a.flagAt = at /\ Bit(o2[at], a.mask) = Bit(o[at], a.mask)
           \/ b.pos < at
    PROVE  Item(input, m, o2, a, b)
<1>1. a.pos \in Nat /\ a.flagAt \in 1 .. a.pos /\ b.pos \in {a.pos + 1, a.pos + 2}
  BY DEF Item, Places
<1>2. a.pos + 1 \in 1 .. b.pos /\ a.pos + 1 # at /\ (b.pos = a.pos + 2 => a.pos + 2 \in 1 .. b.pos
                                                                        /\ a.pos + 2 # at)
  BY <1>1
<1>3. o2[a.pos + 1] = o[a.pos + 1] /\ (b.pos = a.pos + 2 => o2[a.pos + 2] = o[a.pos + 2])
  BY <1>2
<1>4. Bit(o2[a.flagAt], a.mask) = Bit(o[a.flagAt], a.mask)
  <2>1. CASE a.flagAt = at
    BY <1>1, <2>1
  <2>2. CASE b.pos < at
    <3>1. a.flagAt \in 1 .. b.pos /\ a.flagAt # at
      BY <1>1, <2>2
    <3> QED BY <3>1
  <2> QED BY <2>1, <2>2
<1> QED BY <1>3, <1>4, Zenon DEF Item

(* Another flag, and bytes behind: what was written before stays.          *)
LEMMA ItemsKept ==
    ASSUME NEW m, NEW o, NEW o2, NEW K, NEW s, Items(input, m, o, s, K),
           NEW at \in Nat, NEW mask \in Nat, Before(s, K, at, mask), s[K].pos <= Len(o2),
           \A i \in 1 .. s[K].pos : i # at => o2[i] = o[i],
           at <= s[K].pos => \A h \in Masks : h > mask => Bit(o2[at], h) = Bit(o[at], h)
    PROVE  Items(input, m, o2, s, K)
<1>1. ASSUME NEW j \in 0 .. K - 1 PROVE Item(input, m, o2, Open(s[j]), s[j + 1])
  <2> DEFINE a == Open(s[j])
             b == s[j + 1]
  <2>1. K \in Nat /\ j + 1 \in 0 .. K /\ j \in 0 .. K /\ K \in 0 .. K
    BY DEF Items
  <2>2. b \in Places /\ s[j] \in Places /\ s[K] \in Places
    BY <2>1 DEF Items
  <2>3. a \in Places /\ a.mask \in Masks
    BY <2>2, OpenPlace
  <2>4. Item(input, m, o, a, b) /\ b.pos <= s[K].pos
    BY DEF Items
  <2>5. \/ a.flagAt = at /\ a.mask > mask
        \/ b.pos < at
    BY DEF Before
  <2> HIDE DEF a, b
  <2>6. b.pos \in Nat /\ s[K].pos \in Nat
    BY <2>2 DEF Places
  <2>7. \A i \in 1 .. b.pos : i # at => o2[i] = o[i]
    BY <2>4, <2>6
  <2>8. \/ a.flagAt = at /\ Bit(o2[at], a.mask) = Bit(o[at], a.mask)
        \/ b.pos < at
    <3>1. a.flagAt \in 1 .. a.pos /\ b.pos \in {a.pos + 1, a.pos + 2} /\ a.pos \in Nat
      BY <2>3, <2>4 DEF Item, Places
    <3>2. a.flagAt <= s[K].pos
      BY <2>4, <2>6, <3>1
    <3> QED BY <2>3, <2>5, <3>2
  <2>9. Item(input, m, o2, a, b)
    BY <2>2, <2>3, <2>4, <2>7, <2>8, ItemKept
  <2> QED BY <2>9 DEF a, b
<1> QED BY <1>1 DEF Items

(* One item more.                                                          *)
LEMMA ItemsGrow ==
    ASSUME NEW m, NEW o, NEW K, NEW s, Items(input, m, o, s, K),
           NEW at \in Nat, NEW mask \in Masks, Before(s, K, at, mask),
           Open(s[K]).flagAt = at, Open(s[K]).mask = mask,
           NEW b \in Places, Item(input, m, o, Open(s[K]), b), b.pos <= Len(o)
    PROVE  LET t == [j \in 0 .. K + 1 |-> IF j = K + 1 THEN b ELSE s[j]]
           IN /\ Items(input, m, o, t, K + 1) /\ Before(t, K + 1, at, mask \div 2) /\ t[K + 1] = b
<1> DEFINE t == [j \in 0 .. K + 1 |-> IF j = K + 1 THEN b ELSE s[j]]
<1>1. K \in Nat /\ K \in 0 .. K /\ s \in [0 .. K -> Places] /\ s[K] \in Places /\ s[0] = Start
  BY DEF Items
<1>2. /\ t \in [0 .. K + 1 -> Places] /\ t[K + 1] = b /\ t[0] = Start
      /\ \A j \in 0 .. K : t[j] = s[j]
  BY <1>1
<1> HIDE DEF t
<1>3. b.n > s[K].n /\ b.pos > s[K].pos /\ b.n \in Nat /\ b.pos \in Nat
  <2> DEFINE a == Open(s[K])
             k == (o[a.pos + 2] % LenRange) + Threshold
  <2>1. a \in Places /\ a.n = s[K].n /\ a.pos >= s[K].pos
    BY <1>1, OpenPlace
  <2>2. b.n \in Nat /\ b.pos \in Nat /\ a.n \in Nat /\ a.pos \in Nat /\ s[K].pos \in Nat
    BY <1>1, <2>1 DEF Places
  <2>3. \/ b.pos = a.pos + 1 /\ b.n = a.n + 1
        \/ b.pos = a.pos + 2 /\ b.n = a.n + k /\ k \in 1 .. LzWindow[m]
    BY DEF Item, Repeats
  <2> HIDE DEF a, k
  <2>5. b.n > a.n
    BY <2>2, <2>3
  <2>6. b.pos > a.pos
    BY <2>2, <2>3
  <2> QED BY <2>1, <2>2, <2>5, <2>6
<1>4. ASSUME NEW j \in 0 .. K
      PROVE  /\ Item(input, m, o, Open(t[j]), t[j + 1])
             /\ t[j].n < b.n /\ t[j + 1].n <= b.n /\ t[j].pos < b.pos /\ t[j + 1].pos <= b.pos
  <2>1. CASE j = K
    BY <1>1, <1>2, <1>3, <2>1
  <2>2. CASE j # K
    <3>1. j \in 0 .. K - 1 /\ j + 1 \in 0 .. K /\ j \in 0 .. K
      BY <1>1, <2>2
    <3>2. /\ Item(input, m, o, Open(s[j]), s[j + 1])
          /\ s[j].n < s[K].n /\ s[j + 1].n <= s[K].n
          /\ s[j].pos < s[K].pos /\ s[j + 1].pos <= s[K].pos
      BY <3>1 DEF Items
    <3>3. s[j] \in Places /\ s[j + 1] \in Places
      BY <1>1, <3>1
    <3>4. /\ s[j].n \in Nat /\ s[j + 1].n \in Nat /\ s[j].pos \in Nat /\ s[j + 1].pos \in Nat
          /\ s[K].n \in Nat /\ s[K].pos \in Nat
      BY <1>1, <3>3 DEF Places
    <3>5. t[j] = s[j] /\ t[j + 1] = s[j + 1]
      BY <1>2, <3>1
    <3> QED BY <1>3, <3>2, <3>4, <3>5, SMTT(30)
  <2> QED BY <2>1, <2>2
<1>5. Items(input, m, o, t, K + 1)
  BY <1>1, <1>2, <1>4 DEF Items
<1>6. Before(t, K + 1, at, mask \div 2)
  <2>1. mask \in Nat /\ mask \div 2 \in Nat /\ mask \div 2 < mask
    BY DEF Masks
  <2>2. ASSUME NEW j \in 0 .. K
        PROVE  \/ Open(t[j]).flagAt = at /\ Open(t[j]).mask > mask \div 2
               \/ t[j + 1].pos < at
    <3>1. CASE j = K
      BY <1>1, <1>2, <2>1, <3>1
    <3>2. CASE j # K
      <4>1. j \in 0 .. K - 1 /\ j + 1 \in 0 .. K
        BY <1>1, <3>2
      <4>2. t[j] = s[j] /\ t[j + 1] = s[j + 1] /\ s[j] \in Places
        BY <1>1, <1>2, <4>1
      <4>3. Open(s[j]).mask \in Nat
        BY <4>2, OpenPlace DEF Masks
      <4>4. \/ Open(s[j]).flagAt = at /\ Open(s[j]).mask > mask
            \/ s[j + 1].pos < at
        BY <4>1 DEF Before
      <4> QED BY <2>1, <4>2, <4>3, <4>4
    <3> QED BY <3>1, <3>2
  <2>3. (K + 1) - 1 = K
    BY <1>1
  <2> QED BY <2>2, <2>3 DEF Before
<1> QED BY <1>2, <1>5, <1>6 DEF t

(* Where the encoder is.                                                   *)
Reached == [pos |-> Len(out), flagAt |-> enc.flagAt, mask |-> enc.mask, n |-> enc.in]

(* What LzsItem and Lz5Item keep, as long as what they write is faithful.  *)
Packed ==
    /\ enc.win = WindowAt(input, method, enc.in) /\ enc.w = enc.in % LzWindow[method]
    /\ enc.mask \in Masks \cup {0}
    /\ enc.mask # 0 => out[enc.flagAt] % (2 * enc.mask) = 0
    /\ \E K, s : /\ Items(input, method, out, s, K) /\ Before(s, K, enc.flagAt, enc.mask)
                 /\ Open(s[K]) = Open(Reached)

(* With a new byte of flags, where the last one is used up.                *)
LEMMA FlagsReady ==
    ASSUME Packing, Packed
    PROVE  LET o == IF enc.mask = 0 THEN Append(out, 0) ELSE out
               at == IF enc.mask = 0 THEN Len(o) ELSE enc.flagAt
               mask == IF enc.mask = 0 THEN TopFlag ELSE enc.mask
           IN /\ o \in Seq(Nat) /\ at \in 1 .. Len(o) /\ mask \in Masks /\ o[at] % (2 * mask) = 0
              /\ \E K, s : /\ Items(input, method, o, s, K) /\ Before(s, K, at, mask)
                           /\ Open(s[K]) = [pos |-> Len(o), flagAt |-> at, mask |-> mask,
                                            n |-> enc.in]
<1> DEFINE o == IF enc.mask = 0 THEN Append(out, 0) ELSE out
           at == IF enc.mask = 0 THEN Len(o) ELSE enc.flagAt
           mask == IF enc.mask = 0 THEN TopFlag ELSE enc.mask
<1>1. out \in Seq(Nat) /\ Len(out) \in Nat /\ TopFlag \in Masks /\ enc.flagAt \in 1 .. Len(out)
  BY CodecAssumption DEF Packing, Masks
<1>2. PICK K, s : /\ Items(input, method, out, s, K) /\ Before(s, K, enc.flagAt, enc.mask)
                  /\ Open(s[K]) = Open(Reached)
  BY DEF Packed
<1>3. CASE enc.mask # 0
  <2>1. o = out /\ at = enc.flagAt /\ mask = enc.mask /\ Open(Reached) = Reached
    BY <1>3 DEF Reached, Open
  <2>2. mask \in Masks /\ o[at] % (2 * mask) = 0
    BY <1>3, <2>1 DEF Packed
  <2> HIDE DEF o, at, mask
  <2>3. Open(s[K]) = [pos |-> Len(o), flagAt |-> at, mask |-> mask, n |-> enc.in]
    BY <1>2, <2>1 DEF Reached
  <2> QED BY <1>1, <1>2, <2>1, <2>2, <2>3 DEF o, at, mask
<1>4. CASE enc.mask = 0
  <2>1. /\ o = Append(out, 0) /\ at = Len(o) /\ mask = TopFlag
        /\ Open(Reached) = [pos |-> Len(out) + 1, flagAt |-> Len(out) + 1, mask |-> TopFlag,
                            n |-> enc.in]
    BY <1>4 DEF Reached, Open
  <2> HIDE DEF o, at, mask
  <2>2. /\ o \in Seq(Nat) /\ Len(o) = Len(out) + 1 /\ o[at] = 0
        /\ \A i \in 1 .. Len(out) : o[i] = out[i]
    BY <1>1, <2>1, AppendProperties
  <2>3. at = Len(out) + 1 /\ at \in Nat /\ at \in 1 .. Len(o) /\ mask \in Masks /\ mask \in Nat
    BY <1>1, <2>1, <2>2 DEF Masks
  <2>4. o[at] % (2 * mask) = 0
    BY <2>2, <2>3 DEF Masks
  <2>5. s[K].pos \in Nat /\ s[K].pos <= Len(out) /\ K \in Nat
    BY <1>2 DEF Items, Places
  <2>6. Before(s, K, at, mask)
    <3>1. ASSUME NEW j \in 0 .. K - 1 PROVE s[j + 1].pos < at
      <4>1. j + 1 \in 0 .. K
        BY <2>5
      <4>2. s[j + 1].pos \in Nat /\ s[j + 1].pos <= s[K].pos
        BY <1>2, <4>1 DEF Items, Places
      <4> QED BY <1>1, <2>3, <2>5, <4>2
    <3> QED BY <3>1 DEF Before
  <2>7. s[K].pos <= Len(o) /\ ~ (at <= s[K].pos) /\ \A i \in 1 .. s[K].pos : o[i] = out[i]
    BY <1>1, <2>2, <2>3, <2>5
  <2>8. Items(input, method, o, s, K)
    BY <1>2, <2>3, <2>6, <2>7, ItemsKept
  <2>9. Open(s[K]) = [pos |-> Len(o), flagAt |-> at, mask |-> mask, n |-> enc.in]
    BY <1>2, <2>1, <2>2, <2>3
  <2> QED BY <2>2, <2>3, <2>4, <2>6, <2>8, <2>9 DEF o, at, mask
<1> QED BY <1>3, <1>4

(* The flag of an item, and its bytes.                                     *)
Flagged(o, at, mask) == [o EXCEPT ![at] = @ + mask]
Holds(o, at, mask, with, item, o2) ==
    /\ Len(o2) = Len(o) + Len(item) /\ \A i \in 1 .. Len(o) : i # at => o2[i] = o[i]
    /\ \A i \in 1 .. Len(item) : o2[Len(o) + i] = item[i]
    /\ with = o => ~ Bit(o2[at], mask)
    /\ with = Flagged(o, at, mask) => Bit(o2[at], mask)
    /\ \A h \in Masks : h > mask => Bit(o2[at], h) = Bit(o[at], h)
    /\ mask \div 2 # 0 => o2[at] % (2 * (mask \div 2)) = 0

LEMMA Written ==
    ASSUME NEW o \in Seq(Nat), NEW at \in 1 .. Len(o), NEW mask \in Masks, o[at] % (2 * mask) = 0,
           NEW with, with = o \/ with = Flagged(o, at, mask),
           NEW item \in Seq(Nat), NEW o2, o2 = with \o item
    PROVE  Holds(o, at, mask, with, item, o2)
<1>1. Len(o) \in Nat /\ o[at] \in Nat /\ mask \in Nat /\ Len(item) \in Nat
  BY ElementOfSeq DEF Masks
<1>2. /\ Flagged(o, at, mask) \in Seq(Nat) /\ Len(Flagged(o, at, mask)) = Len(o)
      /\ \A i \in 1 .. Len(o) : Flagged(o, at, mask)[i] = IF i = at THEN o[at] + mask ELSE o[i]
  <2>1. o[at] + mask \in Nat
    BY <1>1
  <2> QED BY <2>1, ExceptSeq DEF Flagged
<1>3. /\ with \in Seq(Nat) /\ Len(with) = Len(o)
      /\ with[at] \in {o[at] + mask, o[at]}
      /\ \A i \in 1 .. Len(o) : i # at => with[i] = o[i]
  BY <1>2
<1>4. /\ o2 \in Seq(Nat) /\ Len(o2) = Len(with) + Len(item)
      /\ \A i \in 1 .. Len(with) + Len(item) :
            o2[i] = IF i <= Len(with) THEN with[i] ELSE item[i - Len(with)]
  <2>1. with \in Seq(Nat) /\ item \in Seq(Nat)
    BY <1>3
  <2>2. /\ with \o item \in Seq(Nat) /\ Len(with \o item) = Len(with) + Len(item)
        /\ \A i \in 1 .. Len(with) + Len(item) :
              (with \o item)[i] = IF i <= Len(with) THEN with[i] ELSE item[i - Len(with)]
    BY <2>1, ConcatProperties, Zenon
  <2> QED BY <2>2, Zenon
<1>5. Len(o2) = Len(o) + Len(item) /\ \A i \in 1 .. Len(o) : i # at => o2[i] = o[i]
  <2>1. ASSUME NEW i \in 1 .. Len(o), i # at PROVE o2[i] = o[i]
    <3>1. i \in 1 .. Len(with) + Len(item) /\ i <= Len(with)
      BY <1>1, <1>3
    <3> QED BY <1>3, <1>4, <2>1, <3>1
  <2> QED BY <1>3, <1>4, <2>1
<1>6. ASSUME NEW i \in 1 .. Len(item) PROVE o2[Len(o) + i] = item[i]
  <2>1. Len(o) + i \in 1 .. Len(with) + Len(item) /\ ~ (Len(o) + i <= Len(with))
        /\ (Len(o) + i) - Len(with) = i
    <3>1. Len(o) + i \in 1 .. Len(o) + Len(item) /\ ~ (Len(o) + i <= Len(o))
          /\ (Len(o) + i) - Len(o) = i
      BY <1>1
    <3>2. Len(with) = Len(o)
      BY <1>3
    <3> QED BY <3>1, <3>2, Zenon
  <2> QED BY <1>4, <2>1
<1>7. o2[at] = with[at] /\ o2[at] \in {o[at] + mask, o[at]}
  <2>1. at \in 1 .. Len(with) + Len(item) /\ at <= Len(with)
    BY <1>1, <1>3
  <2> QED BY <1>3, <1>4, <2>1
<1>8. /\ with = o => ~ Bit(o2[at], mask)
      /\ with = Flagged(o, at, mask) => Bit(o2[at], mask)
  <2>1. ~ Bit(o[at], mask) /\ Bit(o[at] + mask, mask)
    BY <1>1, FlagBits
  <2>2. with = Flagged(o, at, mask) => with[at] = o[at] + mask
    BY <1>2
  <2> QED BY <1>7, <2>1, <2>2, Zenon
<1>9. \A h \in Masks : h > mask => Bit(o2[at], h) = Bit(o[at], h)
  <2>1. \A h \in Masks : h > mask => Bit(o[at] + mask, h) = Bit(o[at], h)
    BY <1>1, FlagsBefore
  <2>2. CASE o2[at] = o[at]
    BY <2>2
  <2>3. CASE o2[at] = o[at] + mask
    BY <2>1, <2>3
  <2> QED BY <1>7, <2>2, <2>3
<1>10. mask \div 2 # 0 => o2[at] % (2 * (mask \div 2)) = 0
  BY <1>1, <1>7, FlagBits
<1> QED BY <1>5, <1>6, <1>8, <1>9, <1>10 DEF Holds

(* The bytes of a match say it, if it is not too long for them.            *)
LEMMA MatchSays ==
    ASSUME NEW found, found.offset \in Nat, found.length \in Nat,
           found.length - Threshold \in 0 .. LenRange - 1
    PROVE  \E lo, hi \in Nat :
              /\ MatchBytes(found) = <<lo, hi>>
              /\ lo + ((hi \div LenRange) * LowRange) = found.offset
              /\ (hi % LenRange) + Threshold = found.length
<1> DEFINE lo == found.offset % LowRange
           q == found.offset \div LowRange
           c == found.length - Threshold
           hi == (q * LenRange) + c
           d == (hi \div LenRange) - q
<1>1. LowRange \in Nat \ {0} /\ LenRange \in Nat \ {0} /\ Threshold \in Nat
  BY Constants
<1>2. lo \in Nat /\ q \in Nat /\ c \in 0 .. LenRange - 1 /\ c \in Int
  BY <1>1, Quotient
<1>3. found.offset = LowRange * q + lo
  <2>1. found.offset \in Int
    OBVIOUS
  <2> QED BY <1>1, <2>1, Remainder
<1>4. c % LenRange = c
  BY <1>1, <1>2, Small
<1> HIDE DEF lo, q, c
<1>5. hi \in Nat /\ hi \in Int /\ LenRange * q + c = hi /\ q \in Int
  BY <1>1, <1>2
<1> HIDE DEF hi
<1>6. hi % LenRange = c
  <2>1. (LenRange * q + c) % LenRange = c
    BY <1>1, <1>2, <1>5, RemainderIs
  <2> QED BY <1>5, <2>1
<1>7. d = 0
  <2>1. hi \div LenRange \in Int /\ hi = LenRange * (hi \div LenRange) + (hi % LenRange)
    BY <1>1, <1>5, Remainder
  <2>2. d \in Int /\ LenRange * d = 0
    BY <1>1, <1>2, <1>5, <1>6, <2>1
  <2> HIDE DEF d
  <2>3. d >= 1 => LenRange * d >= LenRange
    BY <1>1, <2>2
  <2>4. d <= -1 => LenRange * d <= -LenRange
    BY <1>1, <2>2
  <2> QED BY <1>1, <2>2, <2>3, <2>4
<1>8. hi \div LenRange = q
  <2>1. hi \div LenRange \in Int
    BY <1>1, <1>5, Remainder
  <2> QED BY <1>2, <1>7, <2>1
<1>9. MatchBytes(found) = <<lo, hi>>
  <2>1. MatchBytes(found) = <<lo, (q * LenRange) + (c % LenRange)>>
    BY DEF MatchBytes, lo, q, c
  <2> QED BY <1>4, <2>1 DEF hi
<1>10. lo + ((hi \div LenRange) * LowRange) = found.offset
  BY <1>1, <1>2, <1>3, <1>8
<1>11. (hi % LenRange) + Threshold = found.length
  BY <1>1, <1>6 DEF c
<1> QED BY <1>2, <1>5, <1>9, <1>10, <1>11

(* What LzSearch finds repeats the input, as far as a decoder can do it.   *)
LEMMA FoundRepeats ==
    ASSUME IInv, status = "items", enc.in < Size, Packed,
           NEW found, found = LzSearch(method), IsMatch(found),
           ~ TooLong(found), ~ RunsOver(method, found)
    PROVE  /\ found.offset \in Nat /\ found.length \in Nat
           /\ found.length \in 1 .. LzWindow[method] /\ found.length <= Size - enc.in
           /\ found.length - Threshold \in 0 .. LenRange - 1
           /\ Repeats(input, method, enc.in, found.offset, found.length)
<1> DEFINE N == LzWindow[method]
<1>1. /\ method \in LArc /\ N \in Nat \ {0} /\ LzMax[method] \in 0 .. N
      /\ Threshold \in Nat \ {0} /\ LenRange \in Nat \ {0} /\ Size \in Nat /\ enc.in \in Nat
      /\ enc.in < Size
  BY Constants, InputBytes DEF IInv, Packing
<1>2. /\ found.length \in 0 .. Least(LzMax[method], Size - enc.in)
      /\ found.offset \in 0 .. N - 1
      /\ \A k \in 0 .. found.length - 1 :
            enc.win[(found.offset + k) % N] = Text(enc.in + k)
  BY LzFinds
<1>3. /\ found.length \in Nat /\ found.length <= LzMax[method] /\ found.length <= Size - enc.in
      /\ found.length >= Threshold
  BY <1>1, <1>2 DEF Least, IsMatch
<1>4. found.length - Threshold < LenRange
  BY <1>1, <1>3 DEF TooLong
<1>5. ((enc.in % N) - found.offset) % N \notin 1 .. found.length - 1
  BY DEF RunsOver, Packed
<1>6. \A i \in 0 .. found.length - 1 :
         WindowAt(input, method, enc.in)[(found.offset + i) % N] = input[enc.in + i + 1]
  BY <1>2 DEF Packed, Text
<1>7. found.length \in 1 .. N
  BY <1>1, <1>3
<1>8. Repeats(input, method, enc.in, found.offset, found.length)
  BY <1>2, <1>5, <1>6, <1>7 DEF Repeats
<1> QED BY <1>1, <1>2, <1>3, <1>4, <1>7, <1>8

(* One item more is one that a decoder reads.                              *)
LEMMA PackStep ==
    ASSUME IInv, NEW m \in LArc, LzItem(m), status' = "items", Packed, enc'.faithful
    PROVE  Packed'
<1> DEFINE new == enc.mask = 0
           o == IF new THEN Append(out, 0) ELSE out
           at == IF new THEN Len(o) ELSE enc.flagAt
           mask == IF new THEN TopFlag ELSE enc.mask
           found == IF enc.in > Threshold THEN LzSearch(m) ELSE NoMatch
           match == IsMatch(found)
           length == IF IsMatch(found) THEN found.length ELSE 1
           item == IF IsMatch(found) THEN MatchBytes(found) ELSE <<Text(enc.in)>>
           n == enc.in
           N == LzWindow[m]
           b == [pos |-> Len(o) + Len(item), flagAt |-> at, mask |-> mask \div 2, n |-> n + length]
<1>1. /\ method = m /\ status = "items" /\ n < Size /\ Packing /\ n \in Nat /\ n \in Int
      /\ Size \in Nat /\ N \in Nat \ {0} /\ Threshold \in Nat \ {0} /\ LenRange \in Nat \ {0}
  BY InputBytes, Constants DEF LzItem, IInv, Packing
<1>2. /\ out' = (IF match THEN [o EXCEPT ![at] = @ + mask] ELSE o) \o item
      /\ enc' = [win |-> Into(m, enc.win, enc.w, enc.in, length),
                 w |-> (enc.w + length) % LzWindow[m], in |-> enc.in + length,
                 flagAt |-> at, mask |-> mask \div 2,
                 faithful |-> enc.faithful /\ ~(IsMatch(found) /\
                                (TooLong(found) \/ RunsOver(m, found)))]
      /\ Same
  BY DEF LzItem, End
<1>3. match => ~ TooLong(found) /\ ~ RunsOver(m, found)
  BY <1>2
<1>4. /\ enc'.win = Into(m, enc.win, enc.w, n, length) /\ enc'.w = (enc.w + length) % N
      /\ enc'.in = n + length /\ enc'.flagAt = at /\ enc'.mask = mask \div 2
      /\ input' = input /\ method' = m
  BY <1>1, <1>2 DEF Same
<1>5. /\ o \in Seq(Nat) /\ at \in 1 .. Len(o) /\ mask \in Masks /\ o[at] % (2 * mask) = 0
      /\ \E K, s : /\ Items(input, m, o, s, K) /\ Before(s, K, at, mask)
                   /\ Open(s[K]) = [pos |-> Len(o), flagAt |-> at, mask |-> mask, n |-> n]
  BY <1>1, FlagsReady
<1> HIDE DEF o, at, mask
<1>6. match => /\ found.offset \in Nat /\ found.length \in Nat
               /\ found.length \in 1 .. N /\ found.length <= Size - n
               /\ found.length - Threshold \in 0 .. LenRange - 1
               /\ Repeats(input, m, n, found.offset, found.length)
  <2>1. match => found = LzSearch(m)
    BY <1>1 DEF IsMatch, NoMatch
  <2> HIDE DEF found
  <2> QED BY <1>1, <1>3, <2>1, FoundRepeats
<1>7. /\ item \in Seq(Nat) /\ Len(item) \in {1, 2}
      /\ match => /\ Len(item) = 2
                  /\ item[1] + ((item[2] \div LenRange) * LowRange) = found.offset
                  /\ (item[2] % LenRange) + Threshold = found.length
      /\ ~ match => Len(item) = 1 /\ item[1] = Text(n)
  <2>1. CASE match
    <3>1. item = MatchBytes(found)
      BY <2>1
    <3> HIDE DEF item, found
    <3>2. PICK lo, hi \in Nat : /\ MatchBytes(found) = <<lo, hi>>
                                /\ lo + ((hi \div LenRange) * LowRange) = found.offset
                                /\ (hi % LenRange) + Threshold = found.length
      BY <1>6, <2>1, MatchSays
    <3> QED BY <2>1, <3>1, <3>2
  <2>2. CASE ~ match
    <3>1. item = <<Text(n)>>
      BY <2>2
    <3>2. Text(n) \in Nat
      BY <1>1, InputBytes DEF IInv
    <3> HIDE DEF item, n
    <3> QED BY <2>2, <3>1, <3>2
  <2> QED BY <2>1, <2>2
<1>8. /\ match => length = found.length
      /\ ~ match => length = 1
      /\ match \in BOOLEAN
  BY DEF IsMatch
<1> HIDE DEF match, item, length, found
<1>9. length \in 1 .. N /\ length \in Nat /\ length \in Int
  BY <1>1, <1>6, <1>8
<1>10. /\ Len(out') = Len(o) + Len(item) /\ \A i \in 1 .. Len(o) : i # at => out'[i] = o[i]
       /\ \A i \in 1 .. Len(item) : out'[Len(o) + i] = item[i]
       /\ match => Bit(out'[at], mask)
       /\ ~ match => ~ Bit(out'[at], mask)
       /\ \A h \in Masks : h > mask => Bit(out'[at], h) = Bit(o[at], h)
       /\ mask \div 2 # 0 => out'[at] % (2 * (mask \div 2)) = 0
  <2>1. o \in Seq(Nat) /\ at \in 1 .. Len(o) /\ mask \in Masks /\ o[at] % (2 * mask) = 0
    BY <1>5
  <2> DEFINE with == IF match THEN Flagged(o, at, mask) ELSE o
  <2>2. item \in Seq(Nat) /\ out' = with \o item
    BY <1>2, <1>7 DEF Flagged
  <2>3. (match => with = Flagged(o, at, mask)) /\ (~ match => with = o)
    OBVIOUS
  <2> HIDE DEF with, n, N, new, b
  <2>4. Holds(o, at, mask, with, item, out')
    BY <2>1, <2>2, <2>3, Written
  <2> QED BY <2>3, <2>4, Zenon DEF Holds
<1>11. PICK K, s : /\ Items(input, m, o, s, K) /\ Before(s, K, at, mask)
                   /\ Open(s[K]) = [pos |-> Len(o), flagAt |-> at, mask |-> mask, n |-> n]
  BY <1>5
<1>12. /\ Len(o) \in Nat /\ at \in Nat /\ mask \in Nat /\ s[K].pos \in Nat /\ s[K].pos <= Len(o)
       /\ mask \div 2 \in Masks \cup {0}
  <2>1. K \in 0 .. K
    BY <1>11 DEF Items
  <2>2. s[K].pos \in Nat /\ s[K].pos <= Len(o)
    BY <1>11, <2>1 DEF Items, Places
  <2> QED BY <1>5, <2>2 DEF Masks
<1>13. Items(input, m, out', s, K)
  <2>1. s[K].pos <= Len(out')
    BY <1>7, <1>10, <1>12
  <2>2. \A i \in 1 .. s[K].pos : i # at => out'[i] = o[i]
    BY <1>10, <1>12
  <2> QED BY <1>10, <1>11, <1>12, <2>1, <2>2, ItemsKept
<1>14. b \in Places /\ b.pos = Len(o) + Len(item) /\ b.flagAt = at /\ b.mask = mask \div 2
       /\ b.n = n + length
  <2>1. Len(o) + Len(item) \in Nat /\ n + length \in Nat
    <3>1. Len(item) \in Nat
      BY <1>7
    <3> HIDE DEF n
    <3> QED BY <1>1, <1>9, <1>12, <3>1
  <2> HIDE DEF n
  <2> QED BY <1>12, <2>1 DEF Places
<1> HIDE DEF b
<1>15. Item(input, m, out', Open(s[K]), b)
  <2> DEFINE a == Open(s[K])
  <2>1. a.pos = Len(o) /\ a.flagAt = at /\ a.mask = mask /\ a.n = n
    BY <1>11
  <2> SUFFICES Item(input, m, out', a, b)
    BY DEF a
  <2> HIDE DEF a, n, N
  <2>2. a.flagAt \in 1 .. a.pos /\ b.flagAt = a.flagAt /\ b.mask = a.mask \div 2
    BY <1>5, <1>14, <2>1
  <2>3. CASE match
    <3>1. 1 \in 1 .. Len(item) /\ 2 \in 1 .. Len(item)
      <4>1. Len(item) = 2
        BY <1>7, <2>3, Zenon
      <4> QED BY <4>1
    <3>2. /\ out'[a.pos + 1] = item[1] /\ out'[a.pos + 2] = item[2]
          /\ Bit(out'[a.flagAt], a.mask)
      BY <1>10, <2>1, <2>3, <3>1
    <3>3. /\ b.pos = a.pos + 2 /\ b.n = a.n + ((item[2] % LenRange) + Threshold)
          /\ Repeats(input, m, a.n, item[1] + ((item[2] \div LenRange) * LowRange),
                     (item[2] % LenRange) + Threshold)
      <4>1. Len(item) = 2 /\ (item[2] % LenRange) + Threshold = length
            /\ item[1] + ((item[2] \div LenRange) * LowRange) = found.offset
        BY <1>7, <1>8, <2>3
      <4>2. Repeats(input, m, n, found.offset, length)
        BY <1>6, <1>8, <2>3
      <4> QED BY <1>14, <2>1, <4>1, <4>2
    <3> QED BY <2>2, <3>2, <3>3, Zenon DEF Item
  <2>4. CASE ~ match
    <3>1. 1 \in 1 .. Len(item) /\ Len(item) = 1 /\ item[1] = Text(n)
      BY <1>7, <2>4
    <3>2. out'[a.pos + 1] = item[1] /\ ~ Bit(out'[a.flagAt], a.mask)
      BY <1>10, <2>1, <2>4, <3>1
    <3>3. b.pos = a.pos + 1 /\ b.n = a.n + 1 /\ item[1] = input[a.n + 1]
      BY <1>8, <1>14, <2>1, <2>4, <3>1 DEF Text
    <3>4. out'[a.pos + 1] = input[a.n + 1]
      BY <3>2, <3>3
    <3> QED BY <2>2, <3>2, <3>3, <3>4, Zenon DEF Item
  <2> QED BY <2>3, <2>4
<1> DEFINE t == [j \in 0 .. K + 1 |-> IF j = K + 1 THEN b ELSE s[j]]
<1>16. Items(input, m, out', t, K + 1) /\ Before(t, K + 1, at, mask \div 2) /\ t[K + 1] = b
  <2>1. b.pos <= Len(out') /\ Open(s[K]).flagAt = at /\ Open(s[K]).mask = mask
    BY <1>10, <1>11, <1>14
  <2> QED BY <1>5, <1>11, <1>12, <1>13, <1>14, <1>15, <2>1, ItemsGrow, SMTT(30)
<1> HIDE DEF t
<1>17. enc'.win = WindowAt(input, m, n + length) /\ enc'.w = (n + length) % N
  <2>1. enc.win = WindowAt(input, m, n) /\ enc.w = n % N
    BY <1>1 DEF Packed
  <2>2. Into(m, WindowAt(input, m, n), n % N, n, length) = WindowAt(input, m, n + length)
    BY <1>1, <1>9, WindowTaken
  <2>3. ((n % N) + length) % N = (n + length) % N
    BY <1>1, <1>9, SumOf
  <2> QED BY <1>4, <2>1, <2>2, <2>3
<1>18. Reached' = b
  BY <1>4, <1>10 DEF Reached, b
<1>19. Open(Reached') = Open(t[K + 1])
  BY <1>16, <1>18
<1> QED BY <1>4, <1>10, <1>12, <1>16, <1>17, <1>19, Zenon DEF Packed
-----------------------------------------------------------------------------
(* What a decoder makes of it.  It has read j of K items of o.             *)
ReadTo(x, m, o, d, s, K, j) ==
    /\ Items(x, m, o, s, K) /\ s[K].n = Len(x) /\ j \in 0 .. K
    /\ Synced(x, m, d, s[j].n) /\ d.pos = s[j].pos /\ d.mask = s[j].mask
    /\ d.mask # 0 => d.flags = o[s[j].flagAt]

Reading == \E K, s, j : ReadTo(input, method, out, dec, s, K, j)

(* Before an item: its byte of flags, if it is the first one behind it.    *)
FlagsTaken(o, d) ==
    IF d.mask = 0 THEN [d EXCEPT !.pos = @ + 1, !.flags = o[d.pos + 1], !.mask = TopFlag] ELSE d

LEMMA ItemOpened ==
    ASSUME NEW m \in LArc, NEW o \in Seq(Nat), NEW a \in Places, NEW dd, NEW n,
           Synced(input, m, dd, n), dd.pos = a.pos, dd.mask = a.mask, a.n = n, a.pos < Len(o),
           dd.mask # 0 => dd.flags = o[a.flagAt]
    PROVE  LET d == FlagsTaken(o, dd)
           IN /\ Synced(input, m, d, n) /\ d.out = dd.out
              /\ d.pos = Open(a).pos /\ d.mask = Open(a).mask /\ d.flags = o[Open(a).flagAt]
<1>1. /\ dd \in Unpackers(m) /\ dd.pos \in Nat /\ a.pos \in Nat /\ Len(o) \in Nat /\ TopFlag \in Nat
  BY Constants DEF Synced, Unpackers, Places
<1>2. CASE dd.mask # 0
  BY <1>2 DEF FlagsTaken, Open
<1>3. CASE dd.mask = 0
  <2> DEFINE v == o[dd.pos + 1]
             d == FlagsTaken(o, dd)
  <2>1. v \in Nat
    <3>1. dd.pos + 1 \in 1 .. Len(o)
      BY <1>1
    <3> QED BY <3>1, ElementOfSeq
  <2>2. d = [dd EXCEPT !.pos = dd.pos + 1, !.flags = v, !.mask = TopFlag]
    BY <1>3 DEF FlagsTaken
  <2> HIDE DEF d, v
  <2>3. /\ d \in Unpackers(m) /\ d.out = dd.out /\ d.win = dd.win /\ d.w = dd.w
        /\ d.pos = dd.pos + 1 /\ d.mask = TopFlag /\ d.flags = v
    <3>1. dd.pos + 1 \in Nat
      BY <1>1
    <3> QED BY <1>1, <2>1, <2>2, <3>1 DEF Unpackers
  <2>4. Synced(input, m, d, n)
    BY <2>3 DEF Synced
  <2>5. Open(a) = [pos |-> a.pos + 1, flagAt |-> a.pos + 1, mask |-> TopFlag, n |-> a.n]
    BY <1>3 DEF Open
  <2> QED BY <2>3, <2>4, <2>5 DEF d, v
<1> QED BY <1>2, <1>3

(* An item of o, read at its place.                                        *)
ItemRead(m, o, d) ==
    LET match == (d.flags \div d.mask) % 2 = 1
        low == o[d.pos + 1]
        high == o[d.pos + 2]
        length == (high % LenRange) + Threshold
    IN [IF match THEN CopyFrom(m, d, low + ((high \div LenRange) * LowRange), length)
                 ELSE Put(m, d, low)
        EXCEPT !.pos = @ + (IF match THEN 2 ELSE 1), !.mask = @ \div 2]

Advance(e, c) == [e EXCEPT !.pos = @ + c, !.mask = @ \div 2]

LEMMA ItemAdvances ==
    ASSUME NEW m \in LArc, NEW e \in Unpackers(m), NEW c \in {1, 2}, NEW n, Synced(input, m, e, n)
    PROVE  /\ Synced(input, m, Advance(e, c), n)
           /\ Advance(e, c).pos = e.pos + c /\ Advance(e, c).mask = e.mask \div 2
           /\ Advance(e, c).flags = e.flags
<1> DEFINE f == Advance(e, c)
<1>1. e.pos + c \in Nat /\ e.mask \div 2 \in Nat
  <2>1. e.pos \in Nat /\ e.mask \in Nat
    BY DEF Unpackers
  <2>2. e.mask \div 2 \in Nat
    BY <2>1, Quotient
  <2> QED BY <2>1, <2>2
<1>2. /\ f \in Unpackers(m) /\ f.out = e.out /\ f.win = e.win /\ f.w = e.w
      /\ f.pos = e.pos + c /\ f.mask = e.mask \div 2 /\ f.flags = e.flags
  BY <1>1 DEF Unpackers, Advance
<1> HIDE DEF f
<1>3. Synced(input, m, f, n)
  BY <1>2 DEF Synced
<1> QED BY <1>2, <1>3 DEF f

LEMMA ItemSynced ==
    ASSUME NEW m \in LArc, input \in Inputs, NEW o \in Seq(Nat), NEW a \in Places, NEW b \in Places,
           Item(input, m, o, a, b), b.n <= Size,
           NEW d, Synced(input, m, d, a.n), d.pos = a.pos, d.mask = a.mask, d.flags = o[a.flagAt]
    PROVE  LET f == ItemRead(m, o, d)
               match == (d.flags \div d.mask) % 2 = 1
           IN /\ Synced(input, m, f, b.n) /\ f.pos = b.pos /\ f.mask = b.mask
              /\ f.flags = o[b.flagAt]
              /\ d.pos + (IF match THEN 2 ELSE 1) = b.pos
              /\ match => Len(d.out) + ((o[d.pos + 2] % LenRange) + Threshold) = b.n
<1> DEFINE match == (d.flags \div d.mask) % 2 = 1
           low == o[d.pos + 1]
           high == o[d.pos + 2]
           length == (high % LenRange) + Threshold
           from == low + ((high \div LenRange) * LowRange)
           c == IF match THEN 2 ELSE 1
           e == IF match THEN CopyFrom(m, d, from, length) ELSE Put(m, d, low)
<1>1. /\ Size \in Nat /\ d \in Unpackers(m) /\ Len(d.out) = a.n /\ a.n \in Nat /\ b.n \in Nat
      /\ a.pos \in Nat /\ b.mask = a.mask \div 2 /\ b.flagAt = a.flagAt
  BY InputBytes DEF Synced, Places, Item
<1>2. match <=> Bit(o[a.flagAt], a.mask)
  BY DEF Bit
<1>3. /\ Synced(input, m, e, b.n) /\ e.pos = d.pos /\ e.mask = d.mask /\ e.flags = d.flags
      /\ b.pos = a.pos + c /\ c \in {1, 2}
      /\ match => Len(d.out) + length = b.n
  <2>1. CASE match
    <3>1. /\ b.pos = a.pos + 2 /\ b.n = a.n + length
          /\ Repeats(input, m, a.n, from, length)
      BY <1>2, <2>1 DEF Item
    <3>2. e = CopyFrom(m, d, from, length) /\ c = 2
      BY <2>1
    <3> HIDE DEF e, from, length, c, match
    <3>3. Synced(input, m, e, b.n)
      BY <1>1, <3>1, <3>2, CopySynced
    <3>4. from \in Nat /\ length \in Nat /\ Len(d.out) <= Size
      BY <1>1, <3>1 DEF Repeats
    <3>5. e.pos = d.pos /\ e.mask = d.mask /\ e.flags = d.flags
      BY <1>1, <3>2, <3>4, CopyFacts, SMTT(30)
    <3> QED BY <1>1, <3>1, <3>2, <3>3, <3>5
  <2>2. CASE ~ match
    <3>1. b.pos = a.pos + 1 /\ b.n = a.n + 1 /\ low = Text(a.n)
      BY <1>2, <2>2 DEF Item, Text
    <3>2. e = Put(m, d, Text(a.n)) /\ c = 1
      BY <2>2, <3>1
    <3>3. a.n < Size
      BY <1>1, <3>1
    <3>4. Text(a.n) \in Nat
      BY <1>1, <3>3, InputBytes
    <3> HIDE DEF e, low, c, match
    <3>5. Synced(input, m, e, b.n)
      BY <3>1, <3>2, <3>3, PutSynced
    <3>6. e.pos = d.pos /\ e.mask = d.mask /\ e.flags = d.flags
      BY <1>1, <3>2, <3>4, PutFacts, ZenonT(30)
    <3> QED BY <2>2, <3>1, <3>2, <3>5, <3>6
  <2> QED BY <2>1, <2>2
<1>4. ItemRead(m, o, d) = Advance(e, c)
  BY DEF ItemRead, Advance
<1> HIDE DEF e, c, length
<1>5. /\ Synced(input, m, ItemRead(m, o, d), b.n) /\ ItemRead(m, o, d).pos = e.pos + c
      /\ ItemRead(m, o, d).mask = e.mask \div 2 /\ ItemRead(m, o, d).flags = e.flags
  <2>1. e \in Unpackers(m)
    BY <1>3 DEF Synced
  <2>2. c \in {1, 2} /\ Synced(input, m, e, b.n)
    BY <1>3
  <2> QED BY <1>4, <2>1, <2>2, ItemAdvances
<1>6. d.pos + c = b.pos /\ (match => Len(d.out) + length = b.n)
  BY <1>3
<1>7. ItemRead(m, o, d).pos = b.pos /\ ItemRead(m, o, d).mask = b.mask
      /\ ItemRead(m, o, d).flags = o[b.flagAt]
  BY <1>1, <1>3, <1>5, <1>6
<1> QED BY <1>5, <1>6, <1>7, Zenon DEF c, length

LEMMA ReadOn ==
    ASSUME NEW m \in LArc, input \in Inputs, NEW o \in Seq(Nat), NEW dd, NEW K, NEW s, NEW j,
           ReadTo(input, m, o, dd, s, K, j), j # K
    PROVE  LET d == FlagsTaken(o, dd)
               match == (d.flags \div d.mask) % 2 = 1
           IN /\ dd.pos < Len(o) /\ Len(dd.out) < Size
              /\ d.pos + (IF match THEN 2 ELSE 1) \in 0 .. Len(o)
              /\ match => Len(d.out) + ((o[d.pos + 2] % LenRange) + Threshold) \in 0 .. Size
              /\ ReadTo(input, m, o, ItemRead(m, o, d), s, K, j + 1)
<1> DEFINE d == FlagsTaken(o, dd)
           match == (d.flags \div d.mask) % 2 = 1
           c == IF match THEN 2 ELSE 1
           length == (o[d.pos + 2] % LenRange) + Threshold
           a == Open(s[j])
           b == s[j + 1]
           f == ItemRead(m, o, d)
<1>1. /\ Items(input, m, o, s, K) /\ s[K].n = Size /\ K \in Nat /\ j \in 0 .. K - 1
      /\ j \in 0 .. K /\ j + 1 \in 0 .. K /\ K \in 0 .. K
      /\ Synced(input, m, dd, s[j].n) /\ dd.pos = s[j].pos /\ dd.mask = s[j].mask
      /\ dd.mask # 0 => dd.flags = o[s[j].flagAt]
  BY DEF ReadTo, Items, Size
<1>2. s[j] \in Places /\ b \in Places /\ s[K] \in Places /\ s[K].pos <= Len(o)
  BY <1>1 DEF Items
<1>3. /\ Item(input, m, o, a, b) /\ s[j].n < s[K].n /\ b.n <= s[K].n
      /\ s[j].pos < s[K].pos /\ b.pos <= s[K].pos
  BY <1>1 DEF Items
<1>4. a \in Places /\ a.n = s[j].n
  BY <1>2, OpenPlace
<1>5. /\ s[j].n \in Nat /\ b.n \in Nat /\ s[K].n \in Nat /\ s[j].pos \in Nat /\ b.pos \in Nat
      /\ s[K].pos \in Nat /\ Len(o) \in Nat
  BY <1>2 DEF Places
<1>6. dd.pos < Len(o) /\ Len(dd.out) < Size
  BY <1>1, <1>2, <1>3, <1>5 DEF Synced
<1>7. /\ Synced(input, m, d, s[j].n) /\ d.out = dd.out
      /\ d.pos = a.pos /\ d.mask = a.mask /\ d.flags = o[a.flagAt]
  <2>1. s[j].pos < Len(o)
    BY <1>1, <1>6
  <2> QED BY <1>1, <1>2, <2>1, ItemOpened
<1> HIDE DEF d, a, b
<1>8. /\ Synced(input, m, f, b.n) /\ f.pos = b.pos /\ f.mask = b.mask /\ f.flags = o[b.flagAt]
      /\ d.pos + c = b.pos
      /\ match => Len(d.out) + length = b.n
  <2>1. b.n <= Size
    BY <1>1, <1>3
  <2> QED BY <1>2, <1>3, <1>4, <1>7, <2>1, ItemSynced
<1> HIDE DEF f, c, match, length
<1>9. d.pos + c \in 0 .. Len(o)
  BY <1>2, <1>3, <1>5, <1>8
<1>10. match => Len(d.out) + length \in 0 .. Size
  BY <1>1, <1>3, <1>5, <1>8
<1>11. ReadTo(input, m, o, f, s, K, j + 1)
  BY <1>1, <1>8 DEF ReadTo, Size, b
<1> QED BY <1>6, <1>9, <1>10, <1>11, Zenon DEF d, f, c, match, length

LEMMA DecodeReads ==
    ASSUME IInv, Reading, LzsDecode \/ Lz5Decode
    PROVE  \/ status' = "read" /\ Reading'
           \/ status' = "done" /\ dec'.out = input'
<1> DEFINE m == method
           d == FlagsTaken(out, dec)
           match == (d.flags \div d.mask) % 2 = 1
           length == (out[d.pos + 2] % LenRange) + Threshold
<1>1. /\ m \in LArc /\ status = "read"
      /\ dec.pos >= Len(out) \/ Len(dec.out) >= Size
            => End(IF Len(dec.out) = Size THEN "done" ELSE "failed")
      /\ /\ ~ (dec.pos >= Len(out) \/ Len(dec.out) >= Size)
         /\ ~ (d.pos + (IF match THEN 2 ELSE 1) > Len(out))
         /\ ~ (match /\ Len(d.out) + length > Size)
         => dec' = ItemRead(m, out, d) /\ UNCHANGED <<status, out>> /\ Same
  <2>1. CASE LzsDecode
    BY <2>1 DEF LzsDecode, LzDecode, FlagsTaken, ItemRead, LArc
  <2>2. CASE Lz5Decode
    BY <2>2 DEF Lz5Decode, LzDecode, FlagsTaken, ItemRead, LArc
  <2> QED BY <2>1, <2>2
<1>2. input \in Inputs /\ out \in Seq(Nat) /\ Size \in Nat
      /\ Size = Len(input) /\ DOMAIN input = 1 .. Len(input) /\ input = [i \in 1 .. Size |-> input[i]]
  <2>1. input \in Inputs /\ out \in Seq(Nat)
    BY <1>1 DEF IInv, Unpacking
  <2>2. input \in Seq(0 .. Bytes - 1)
    BY <2>1, CodecAssumption
  <2> QED BY <2>1, <2>2, LenProperties DEF Size
<1>3. PICK K, s, j : ReadTo(input, m, out, dec, s, K, j)
  BY DEF Reading
<1>4. dec \in Unpackers(m) /\ dec.out \in Seq(Nat) /\ Len(dec.out) \in Nat
  BY <1>3 DEF ReadTo, Synced, Unpackers
<1>5. CASE j = K
  <2>1. Len(dec.out) = Size /\ \A i \in 1 .. Size : dec.out[i] = input[i]
    BY <1>3, <1>5 DEF ReadTo, Synced, Size
  <2>2. dec.out = [i \in 1 .. Size |-> dec.out[i]]
    <3>1. dec.out \in [1 .. Len(dec.out) -> Nat]
      BY <1>4, LenProperties
    <3> QED BY <2>1, <3>1
  <2>3. dec.out = input
    BY <1>2, <2>1, <2>2
  <2>4. End("done")
    BY <1>1, <1>2, <2>1
  <2> QED BY <2>3, <2>4 DEF End, Same
<1>6. CASE j # K
  <2> HIDE DEF m
  <2>1. /\ dec.pos < Len(out) /\ Len(dec.out) < Size
        /\ d.pos + (IF match THEN 2 ELSE 1) \in 0 .. Len(out)
        /\ match => Len(d.out) + length \in 0 .. Size
        /\ ReadTo(input, m, out, ItemRead(m, out, d), s, K, j + 1)
    BY <1>1, <1>2, <1>3, <1>6, ReadOn
  <2> HIDE DEF d, match, length
  <2>2. dec' = ItemRead(m, out, d) /\ UNCHANGED <<status, out>> /\ Same
    <3>1. ~ (dec.pos >= Len(out) \/ Len(dec.out) >= Size)
      <4>1. dec.pos \in Nat /\ Len(out) \in Nat
        BY <1>2, <1>4 DEF Unpackers
      <4> QED BY <1>2, <1>4, <2>1, <4>1
    <3>2. ~ (d.pos + (IF match THEN 2 ELSE 1) > Len(out))
      <4>1. Len(out) \in Nat
        BY <1>2
      <4> QED BY <2>1, <4>1
    <3>3. ~ (match /\ Len(d.out) + length > Size)
      BY <1>2, <2>1
    <3> QED BY <1>1, <3>1, <3>2, <3>3, Zenon
  <2>3. ReadTo(input, m, out, dec', s, K, j + 1)
    BY <2>1, <2>2
  <2>4. Reading'
    BY <2>2, <2>3 DEF Reading, Same, m
  <2> QED BY <1>1, <2>2, <2>4
<1> QED BY <1>5, <1>6
-----------------------------------------------------------------------------
(* What is read is what was there.                                         *)
Echo ==
    /\ status \in Under \ {"read"} => dec = Nothing
    /\ status = "stored" /\ method \in {"lh0", "lz4"} => out = input
    /\ status = "items" /\ enc.faithful => Packed
    /\ status = "read" /\ enc.faithful /\ dec.inStep => Reading
    /\ status \notin Under /\ dec # Nothing /\ (method \in LArc => enc.faithful /\ dec.inStep)
          => status = "done" /\ dec.out = input

LEMMA EndEcho ==
    ASSUME Echo, status \in Under \ {"read"}, NEW how \in {"done", "failed", "hung", "beyond"},
           End(how)
    PROVE  Echo'
<1>1. dec' = Nothing /\ status' \notin Under
  BY DEF Echo, End, Under
<1>2. Nothing' = Nothing
  BY DEF Nothing
<1> QED BY <1>1, <1>2 DEF Echo, Under

LEMMA PlainEcho ==
    ASSUME Echo, status \in Under \ {"read"}, status' \in Under \ {"read", "items"}, dec' = dec,
           status' = "stored" /\ method' \in {"lh0", "lz4"} => out' = input'
    PROVE  Echo'
<1>1. dec' = Nothing
  BY DEF Echo
<1>2. Nothing' = Nothing
  BY DEF Nothing
<1> QED BY <1>1, <1>2 DEF Echo, Under

LEMMA BeginEcho ==
    ASSUME Echo, NEW m \in LArc, LzBegin(m), input \in Inputs
    PROVE  Echo'
<1>1. CASE End("failed")
  BY <1>1, EndEcho DEF LzBegin, Under
<1>2. CASE /\ status' = "items" /\ out' = <<0>>
           /\ enc' = [win |-> Zeros(m), w |-> 0, in |-> 0, flagAt |-> 1, mask |-> TopFlag,
                      faithful |-> TRUE]
           /\ dec' = dec /\ Same
  <2> DEFINE s == [j \in 0 .. 0 |-> Start]
  <2>1. dec' = Nothing /\ Nothing' = Nothing /\ input' = input /\ method' = m
    BY <1>2 DEF Echo, LzBegin, Under, Same, Nothing
  <2>2. TopFlag \in Masks /\ TopFlag # 0 /\ 0 % (2 * TopFlag) = 0
    BY CodecAssumption DEF Masks
  <2>3. enc'.win = WindowAt(input, m, 0) /\ enc'.w = 0 % LzWindow[m]
    <3>1. 0 % LzWindow[m] = 0
      BY Constants, Small
    <3> QED BY <1>2, <3>1, WindowBegins
  <2>4. Len(out') = 1 /\ out'[1] = 0
    BY <1>2
  <2>5. Items(input, m, out', s, 0)
    <3>1. Start \in Places /\ Start.pos = 0
      BY DEF Start, Places
    <3> QED BY <2>4, <3>1 DEF Items
  <2>6. Before(s, 0, enc'.flagAt, enc'.mask)
    BY DEF Before
  <2>7. Open(s[0]) = Open(Reached')
    BY <1>2, <2>2, <2>4 DEF Open, Start, Reached
  <2> HIDE DEF s
  <2>8. Packed'
    <3>1. enc'.in = 0 /\ enc'.mask = TopFlag /\ enc'.flagAt = 1
      BY <1>2
    <3> QED BY <2>1, <2>2, <2>3, <2>4, <2>5, <2>6, <2>7, <3>1, Zenon DEF Packed
  <2> QED BY <1>2, <2>1, <2>8 DEF Echo, Under
<1> QED BY <1>1, <1>2 DEF LzBegin

LEMMA ItemEcho ==
    ASSUME IInv, Echo, NEW m \in LArc, LzItem(m)
    PROVE  Echo'
<1>1. status = "items"
  BY DEF LzItem
<1>2. CASE End("failed")
  BY <1>1, <1>2, EndEcho DEF Under
<1>3. CASE status' = "items" /\ dec' = dec /\ (enc'.faithful => enc.faithful)
  <2>1. dec' = Nothing /\ Nothing' = Nothing
    BY <1>1, <1>3 DEF Echo, Under, Nothing
  <2>2. enc'.faithful => Packed'
    BY <1>1, <1>3, PackStep DEF Echo
  <2> QED BY <1>3, <2>1, <2>2 DEF Echo, Under
<1>4. End("failed") \/ (status' = "items" /\ dec' = dec /\ (enc'.faithful => enc.faithful))
  <2> DEFINE at == IF enc.mask = 0 THEN Len(Append(out, 0)) ELSE enc.flagAt
             mask == IF enc.mask = 0 THEN TopFlag ELSE enc.mask
             found == IF enc.in > Threshold THEN LzSearch(m) ELSE NoMatch
             length == IF IsMatch(found) THEN found.length ELSE 1
             still == enc.faithful /\ ~(IsMatch(found) /\ (TooLong(found) \/ RunsOver(m, found)))
  <2>1. \/ End("failed")
        \/ /\ enc' = [win |-> Into(m, enc.win, enc.w, enc.in, length),
                       w |-> (enc.w + length) % LzWindow[m], in |-> enc.in + length,
                       flagAt |-> at, mask |-> mask \div 2,
                       faithful |-> still]
           /\ UNCHANGED <<status, dec>>
    BY DEF LzItem
  <2>2. still => enc.faithful
    OBVIOUS
  <2> HIDE DEF at, mask, found, length, still
  <2>3. End("failed") \/ (enc'.faithful = still /\ UNCHANGED <<status, dec>>)
    BY <2>1
  <2> QED BY <1>1, <2>2, <2>3, Zenon
<1> QED BY <1>2, <1>3, <1>4

LEMMA ReadAsEcho ==
    ASSUME IInv, Echo, NEW m \in LArc, NEW mask \in Nat, ReadAs(m, mask)
    PROVE  Echo'
<1>1. /\ method = m /\ status = "items" /\ enc.in >= Size /\ status' = "read"
      /\ dec' = [pos |-> 0, flags |-> 0, mask |-> mask, inStep |-> mask = 0,
                 win |-> Zeros(m), w |-> 0, out |-> <<>>]
      /\ enc' = enc /\ out' = out /\ input' = input /\ method' = m
  BY DEF ReadAs, Same
<1>2. ASSUME enc'.faithful, dec'.inStep PROVE Reading'
  <2>1. Packed /\ Packing /\ mask = 0 /\ Size \in Nat /\ input \in Inputs
    BY <1>1, <1>2, InputBytes DEF Echo, IInv
  <2>2. enc.in = Size
    BY <1>1, <2>1 DEF Packing
  <2>3. PICK K, s : Items(input, m, out, s, K) /\ Open(s[K]) = Open(Reached)
    BY <1>1, <2>1 DEF Packed
  <2>4. K \in Nat /\ s[K] \in Places /\ s[0] = Start /\ 0 \in 0 .. K
    BY <2>3 DEF Items
  <2>5. s[K].n = Len(input)
    <3>1. Open(s[K]).n = s[K].n
      BY <2>4, OpenPlace
    <3>2. Open(Reached).n = enc.in
      BY DEF Open, Reached
    <3> QED BY <2>2, <2>3, <3>1, <3>2 DEF Size
  <2>6. Synced(input, m, dec', 0)
    <3>1. LzWindow[m] \in Nat \ {0}
      BY Constants
    <3>2. dec' \in Unpackers(m)
      BY <1>1, <3>1 DEF Unpackers, Zeros
    <3>3. dec'.w = 0 % LzWindow[m] /\ dec'.win = WindowAt(input, m, 0)
      <4>1. 0 % LzWindow[m] = 0
        BY <3>1, Small
      <4> QED BY <1>1, <4>1, WindowBegins
    <3>4. dec'.out = <<>> /\ 0 \in 0 .. Len(input)
      BY <1>1, <2>1 DEF Size
    <3> QED BY <3>2, <3>3, <3>4 DEF Synced
  <2>7. ReadTo(input, m, out, dec', s, K, 0)
    BY <1>1, <2>1, <2>3, <2>4, <2>5, <2>6 DEF ReadTo, Start
  <2> QED BY <1>1, <2>7 DEF Reading
<1> QED BY <1>1, <1>2 DEF Echo, Under

LEMMA DecodeEcho ==
    ASSUME IInv, Echo, LzsDecode \/ Lz5Decode
    PROVE  Echo'
<1>1. status = "read" /\ method \in LArc
  BY DEF LzsDecode, Lz5Decode, LzDecode, LArc
<1>2. status' \in {"read", "done", "failed"} /\ enc' = enc /\ method' = method
  BY <1>1 DEF LzsDecode, Lz5Decode, LzDecode, End, Same
<1>3. dec'.inStep = dec.inStep
  BY LzDecodeStep
<1>4. CASE enc.faithful /\ dec.inStep
  <2>1. Reading
    BY <1>1, <1>4 DEF Echo
  <2>2. \/ status' = "read" /\ Reading'
        \/ status' = "done" /\ dec'.out = input'
    BY <2>1, DecodeReads
  <2> QED BY <2>2 DEF Echo, Under
<1>5. CASE ~ (enc.faithful /\ dec.inStep)
  <2>1. ~ (enc'.faithful /\ dec'.inStep) /\ method' \in LArc
    BY <1>1, <1>2, <1>3, <1>5
  <2> QED BY <1>2, <2>1 DEF Echo, Under
<1> QED BY <1>4, <1>5

LEMMA NextEcho ==
    ASSUME IInv, Echo, Next
    PROVE  Echo'
<1>1. CASE Lh5Begin \/ Lh6Begin \/ Lh7Begin
  <2>1. PICK m \in Chained : Begin(m)
    BY <1>1 DEF Lh5Begin, Lh6Begin, Lh7Begin, Chained
  <2>2. CASE End("failed")
    BY <2>1, <2>2, EndEcho DEF Begin, Under
  <2>3. CASE status' = "first" /\ dec' = dec
    BY <2>1, <2>3, PlainEcho DEF Begin, Under
  <2> QED BY <2>1, <2>2, <2>3 DEF Begin
<1>2. CASE Lh5First \/ Lh6First \/ Lh7First
  <2>1. status = "first" /\ (End("hung") \/ End("beyond") \/ (status' = status /\ dec' = dec))
    BY <1>2 DEF Lh5First, Lh6First, Lh7First, CountAll, First
  <2> QED BY <2>1, EndEcho, PlainEcho DEF Under
<1>3. CASE Lh5Tables \/ Lh6Tables \/ Lh7Tables
  <2>1. status = "first" /\ (End("failed") \/ (status' = "second" /\ dec' = dec))
    BY <1>3 DEF Lh5Tables, Lh6Tables, Lh7Tables, Tables
  <2> QED BY <2>1, EndEcho, PlainEcho DEF Under
<1>4. CASE Lh5Second \/ Lh6Second \/ Lh7Second
  <2>1. /\ status = "second"
        /\ \/ End("hung") \/ End("beyond") \/ End("failed")
           \/ status' = status /\ dec' = dec
    BY <1>4 DEF Lh5Second, Lh6Second, Lh7Second, Second
  <2> QED BY <2>1, EndEcho, PlainEcho DEF Under
<1>5. CASE Lh5Finish \/ Lh6Finish \/ Lh7Finish
  <2>1. status = "second" /\ (End("done") \/ End("failed"))
    BY <1>5 DEF Lh5Finish, Lh6Finish, Lh7Finish, Finish
  <2> QED BY <2>1, EndEcho DEF Under
<1>6. CASE LzsBegin \/ Lz5Begin
  BY <1>6, BeginEcho DEF LzsBegin, Lz5Begin, LArc, IInv
<1>7. CASE LzsItem \/ Lz5Item
  BY <1>7, ItemEcho DEF LzsItem, Lz5Item, LArc
<1>8. CASE LzsRead \/ Lz5Read \/ Lz5ReadElsewhere
  <2>1. 0 \in Nat /\ TopFlag \in Nat
    BY Constants
  <2> QED BY <1>8, <2>1, ReadAsEcho DEF LzsRead, Lz5Read, Lz5ReadElsewhere, LArc
<1>9. CASE LzsDecode \/ Lz5Decode
  BY <1>9, DecodeEcho
<1>10. CASE Lh0Store \/ Lz4Store \/ Lh1Store \/ Lh2Store
  <2>1. /\ status = "begin"
        /\ \/ End("failed")
           \/ /\ status' = "stored" /\ dec' = dec /\ method' = method /\ input' = input
              /\ method \in {"lh0", "lz4"} => out' = input
    BY <1>10 DEF Lh0Store, Lz4Store, Lh1Store, Lh2Store, Store, Same
  <2> QED BY <2>1, EndEcho, PlainEcho DEF Under
<1>11. CASE Lh0Read
  <2>1. /\ out = input /\ dec'.out = out /\ status' = "done" /\ input' = input
    BY <1>11 DEF Lh0Read, Echo, Same
  <2> QED BY <2>1 DEF Echo, Under
<1>12. CASE Lh1Read \/ Lh2Read \/ Unsupported \/ NoData
  <2>1. status \in {"begin", "stored"} /\ (End("done") \/ End("failed"))
    BY <1>12 DEF Lh1Read, Lh2Read, Unsupported, NoData
  <2> QED BY <2>1, EndEcho DEF Under
<1> QED
  BY <1>1, <1>2, <1>3, <1>4, <1>5, <1>6, <1>7, <1>8, <1>9, <1>10, <1>11, <1>12 DEF Next

LEMMA EchoInductive ==
    /\ Init => Echo
    /\ IInv /\ Echo /\ [Next]_vars => Echo'
<1>1. Init => Echo
  BY DEF Init, Echo, Under
<1>2. ASSUME Echo, UNCHANGED vars PROVE Echo'
  <2>1. Packed' = Packed
    BY <1>2 DEF vars, Packed, Reached
  <2>2. Reading' = Reading
    BY <1>2 DEF vars, Reading
  <2> QED BY <1>2, <2>1, <2>2 DEF vars, Echo, Nothing
<1> QED BY <1>1, <1>2, NextEcho

LEMMA Beginning ==
    ASSUME input \in Inputs, NEW n \in 0 .. Size, NEW y, y = [i \in 1 .. n |-> input[i]]
    PROVE  y = SubSeq(input, 1, n)
<1>1. n \in Nat /\ n \in Int /\ 1 \in Int /\ n <= Size /\ Size \in Nat
  BY InputBytes
<1>2. \A i \in 1 .. n : input[i] \in 0 .. Bytes - 1
  <2>1. \A i \in 1 .. n : i - 1 \in 0 .. Size - 1 /\ (i - 1) + 1 = i
    BY <1>1
  <2> QED BY <2>1, InputBytes DEF Text
<1> DEFINE z == SubSeq(input, 1, n)
<1>3. /\ z \in Seq(0 .. Bytes - 1) /\ Len(z) = IF 1 <= n THEN n - 1 + 1 ELSE 0
      /\ \A i \in 1 .. n - 1 + 1 : z[i] = input[1 + i - 1]
  BY <1>1, <1>2, SubSeqProperties
<1> HIDE DEF z
<1>4. Len(z) = n /\ \A i \in 1 .. n : z[i] = input[i]
  BY <1>1, <1>3
<1>5. z = [i \in 1 .. n |-> input[i]]
  <2>1. z \in [1 .. Len(z) -> 0 .. Bytes - 1]
    BY <1>3, LenProperties
  <2> QED BY <1>4, <2>1
<1> QED BY <1>5 DEF z

LEMMA EchoReadsBack == IInv /\ Echo => ReadsBack
<1> SUFFICES ASSUME IInv, Echo, dec # Nothing, method \in LArc => enc.faithful /\ dec.inStep
             PROVE  /\ dec.out = SubSeq(input, 1, Len(dec.out))
                    /\ status \in {"done", "failed"} => status = "done" /\ dec.out = input
  BY DEF ReadsBack
<1>1. input \in Inputs /\ Size \in Nat
  BY InputBytes DEF IInv
<1>2. CASE status = "read"
  <2>1. Reading
    BY <1>2 DEF Echo, IInv, Unpacking
  <2>2. PICK n : Synced(input, method, dec, n)
    BY <2>1 DEF Reading, ReadTo
  <2>3. /\ dec.out \in Seq(Nat) /\ Len(dec.out) = n /\ n \in 0 .. Size
        /\ \A i \in 1 .. n : dec.out[i] = input[i]
    BY <2>2 DEF Synced, Unpackers, Size
  <2>4. dec.out = [i \in 1 .. n |-> input[i]]
    <3>1. dec.out \in [1 .. Len(dec.out) -> Nat]
      BY <2>3, LenProperties
    <3> QED BY <2>3, <3>1
  <2>5. dec.out = SubSeq(input, 1, n)
    BY <1>1, <2>3, <2>4, Beginning
  <2> QED BY <1>2, <2>3, <2>5
<1>3. CASE status # "read"
  <2>1. status = "done" /\ dec.out = input
    BY <1>3 DEF Echo
  <2>2. input = [i \in 1 .. Size |-> input[i]]
    <3>1. input \in Seq(0 .. Bytes - 1)
      BY <1>1, CodecAssumption
    <3> QED BY <3>1, LenProperties DEF Size
  <2>3. input = SubSeq(input, 1, Size)
    <3>1. Size \in 0 .. Size
      BY <1>1
    <3> QED BY <1>1, <2>2, <3>1, Beginning
  <2> QED BY <2>1, <2>3 DEF Size
<1> QED BY <1>2, <1>3

(* What is stored as -lzs-, -lz5-, -lh0- and -lz4- comes back, whatever    *)
(* the bytes and however large windows, lengths and room are: the decoder  *)
(* puts out the input from its beginning on, and ends with all of it,      *)
(* unless a match was too long for its bits or had been compared with      *)
(* bytes that its own copy overwrites, which lh_compress_lzs and           *)
(* lh_compress_lz5 do not exclude; for -lz5- in a decoder that takes a     *)
(* byte of flags first, as lh_decompress_lz5 does not.                     *)
THEOREM Returned == Spec => []ReadsBack
<1>1. Init => IInv /\ Echo
  BY Inductive, EchoInductive
<1>2. (IInv /\ Echo) /\ [Next]_vars => (IInv /\ Echo)'
  BY Inductive, EchoInductive
<1>3. IInv /\ Echo => ReadsBack
  BY EchoReadsBack
<1> QED BY <1>1, <1>2, <1>3, PTL DEF Spec
=============================================================================
