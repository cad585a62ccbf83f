---------------------------- MODULE DatagramProofs ----------------------------
(***************************************************************************)
(* What becomes of a datagram: udp_module builds it with a checksum over   *)
(* its ends, header and data, and the udp_module that reads it finds that  *)
(* checksum correct if and only if it can trust what it reads.             *)
(***************************************************************************)
EXTENDS PacketProofs

LEMMA WordsAre ==
  \A n \in Word16 : IsWord(n)
<1>1. \A k \in Nat : \A n \in 0 .. k : n \in Nat /\ n <= k
  OBVIOUS
<1>2. PICK k \in Nat : k = 65535
  OBVIOUS
<1>3. Word16 = 0 .. k
  BY <1>2 DEF Word16
<1>4. \A n \in Word16 : n \in Nat /\ n <= k
  BY <1>1, <1>3
<1>5. \A n \in Nat : n <= k => IsWord(n)
  BY <1>2 DEF IsWord
<1> QED BY <1>4, <1>5

-----------------------------------------------------------------------------
(***************************************************************************)
(* The checksum of a datagram: over twelve bytes that stand for the header *)
(* of IP, the eight of its own header, and its data.                       *)
(***************************************************************************)
LEMMA InFront ==
  ASSUME NEW a \in Seq(Byte), NEW b \in Seq(Byte)
  PROVE  StandsIn(Joined(a, b), 0, a)
  BY DEF Joined, StandsIn

LEMMA StaysInFront ==
  ASSUME NEW a \in Seq(Byte), NEW b \in Seq(Byte), NEW n \in Nat, NEW s, Len(s) \in Nat,
         StandsIn(a, n, s), n + Len(s) <= Len(a)
  PROVE  StandsIn(Joined(a, b), n, s)
<1>1. \A k \in 1 .. Len(a) : (a \o b)[k] = a[k]
  OBVIOUS
<1>2. \A i \in 1 .. Len(s) : n + i \in 1 .. Len(a)
  OBVIOUS
<1>3. \A i \in 1 .. Len(s) : a[n + i] = s[i]
  BY DEF StandsIn
<1> DEFINE c == a \o b
<1> HIDE DEF c
<1>4. \A i \in 1 .. Len(s) : c[n + i] = s[i]
  BY <1>1, <1>2, <1>3 DEF c
<1> QED BY <1>4 DEF StandsIn, Joined, c

Covered(ps, x, d) == Joined(Joined(ps, x), d)

IsCovered(c, ps, x, d) ==
  /\ c \in Seq(Byte) /\ Len(c) = 20 + Len(d)
  /\ StandsIn(c, 0, ps) /\ StandsIn(c, 12, x) /\ StandsIn(c, 20, d)

LEMMA CoveredIs ==
  ASSUME NEW ps \in Seq(Byte), Len(ps) = 12, NEW x \in Seq(Byte), Len(x) = 8, NEW d \in Seq(Byte)
  PROVE  IsCovered(Covered(ps, x, d), ps, x, d)
<1> DEFINE a == Joined(ps, x)
           c == Joined(a, d)
<1>0. PICK k \in Nat : k = 12
  OBVIOUS
<1>1. a \in Seq(Byte) /\ Len(a) = k + Len(x) /\ StandsIn(a, k, x)
  BY <1>0, Behind
<1>2. StandsIn(a, 0, ps)
  BY InFront
<1> HIDE DEF a
<1>3. PICK n \in Nat : n = 20
  OBVIOUS
<1>4. Len(a) = n
  BY <1>0, <1>1, <1>3
<1>5. c \in Seq(Byte) /\ Len(c) = n + Len(d) /\ StandsIn(c, n, d)
  BY <1>1, <1>4, Behind
<1>6. StandsIn(c, 0, ps)
  <2>1. 0 \in Nat /\ Len(ps) \in Nat /\ 0 + Len(ps) <= Len(a)
    BY <1>3, <1>4
  <2> QED BY <1>1, <1>2, <2>1, StaysInFront
<1>7. StandsIn(c, k, x)
  <2>1. Len(x) \in Nat /\ k + Len(x) <= Len(a)
    BY <1>0, <1>3, <1>4
  <2> QED BY <1>1, <2>1, StaysInFront
<1> HIDE DEF c
<1>8. IsCovered(c, ps, x, d)
  BY <1>0, <1>3, <1>5, <1>6, <1>7 DEF IsCovered
<1> QED BY <1>8 DEF Covered, c, a

LEMMA ShortIs ==
  ASSUME NEW b, Len(b) \in Nat, Len(b) <= 2000
  PROVE  Short(b)
  BY SMT DEF Short

\* What stands in f behind n is found there.
LEMMA ReadAt ==
  ASSUME NEW f, NEW n \in Nat, NEW s, StandsIn(f, n, s), NEW m \in Nat, Len(s) = m,
         NEW i \in Nat, n < i, i <= n + m
  PROVE  f[i] = s[i - n]
<1>1. PICK l \in 1 .. m : i = n + l
  <2>1. i - n \in 1 .. m /\ i = n + (i - n)
    OBVIOUS
  <2> QED BY <2>1
<1>2. f[n + l] = s[l]
  BY DEF StandsIn
<1>3. i - n = l
  BY <1>1
<1> QED BY <1>1, <1>2, <1>3

LEMMA StandsAt ==
  ASSUME NEW f, NEW n, NEW s, StandsIn(f, n, s), NEW i \in 1 .. Len(s)
  PROVE  f[n + i] = s[i]
  BY DEF StandsIn

\* Byte by byte.
At(c, ps, x, d, i) ==
  /\ i <= 12 => c[i] = ps[i]
  /\ 12 < i /\ i <= 20 => c[i] = x[i - 12]
  /\ 20 < i => c[i] = d[i - 20]

Sized(ps, x) == Len(ps) = 12 /\ Len(x) = 8

LEMMA CoveredAt ==
  ASSUME NEW c, NEW ps, NEW x, NEW d, IsCovered(c, ps, x, d), Sized(ps, x),
         NEW m \in Nat, Len(d) = m, NEW i \in 1 .. 20 + m
  PROVE  At(c, ps, x, d, i)
<1>1. StandsIn(c, 0, ps) /\ StandsIn(c, 12, x) /\ StandsIn(c, 20, d)
  BY DEF IsCovered
<1>2. i \in Nat /\ i >= 1 /\ i <= 20 + m
  OBVIOUS
<1>3. CASE i <= 12
  <2>1. PICK n \in Nat : n = 0 OBVIOUS
  <2>2. PICK l \in Nat : l = 12 OBVIOUS
  <2>3. c[i] = ps[i]
    <3>1. StandsIn(c, n, ps) BY <1>1, <2>1
    <3>2. n < i /\ i <= n + l BY <1>2, <1>3, <2>1, <2>2
    <3>3. Len(ps) = l BY <2>2 DEF Sized
    <3>4. c[i] = ps[i - n] BY <1>2, <3>1, <3>2, <3>3, ReadAt
    <3>5. i - n = i BY <1>2, <2>1
    <3> QED BY <3>4, <3>5
  <2>4. ~ (12 < i) /\ ~ (20 < i)
    BY <1>2, <1>3
  <2> QED BY <2>3, <2>4 DEF At
<1>4. CASE 12 < i /\ i <= 20
  <2>1. PICK n \in Nat : n = 12 OBVIOUS
  <2>2. PICK l \in Nat : l = 8 OBVIOUS
  <2>3. c[i] = x[i - 12]
    <3>1. StandsIn(c, n, x) BY <1>1, <2>1
    <3>2. n < i /\ i <= n + l BY <1>2, <1>4, <2>1, <2>2
    <3>3. Len(x) = l BY <2>2 DEF Sized
    <3>4. c[i] = x[i - n] BY <1>2, <3>1, <3>2, <3>3, ReadAt
    <3> QED BY <2>1, <3>4
  <2>4. ~ (i <= 12) /\ ~ (20 < i)
    BY <1>2, <1>4
  <2> QED BY <2>3, <2>4 DEF At
<1>5. CASE 20 < i
  <2>1. PICK n \in Nat : n = 20 OBVIOUS
  <2>2. c[i] = d[i - 20]
    <3>1. StandsIn(c, n, d) BY <1>1, <2>1
    <3>2. n < i /\ i <= n + m BY <1>2, <1>5, <2>1
    <3>4. c[i] = d[i - n] BY <1>2, <3>1, <3>2, ReadAt
    <3> QED BY <2>1, <3>4
  <2>4. ~ (i <= 12) /\ ~ (12 < i /\ i <= 20)
    BY <1>2, <1>5
  <2> QED BY <2>2, <2>4 DEF At
<1> QED BY <1>2, <1>3, <1>4, <1>5

LEMMA HeaderIn ==
  ASSUME NEW c, NEW ps, NEW x, NEW d, IsCovered(c, ps, x, d), Sized(ps, x)
  PROVE  \A i \in 1 .. 8 : c[12 + i] = x[i]
<1>1. StandsIn(c, 12, x)
  BY DEF IsCovered
<1>2. Len(x) = 8
  BY DEF Sized
<1> QED BY <1>1, <1>2 DEF StandsIn

Agree(b, c, n) == \A i \in 1 .. n : b[i] = c[i]

LEMMA TailsAgree ==
  ASSUME NEW b, NEW c, NEW d, NEW z, StandsIn(b, 20, d), StandsIn(c, 20, z),
         NEW m \in Nat, Len(d) = m, Len(z) = m, NEW n, n = 20 + m, Agree(b, c, n)
  PROVE  Agree(z, d, m)
<1> SUFFICES ASSUME NEW i \in 1 .. m
             PROVE  z[i] = d[i]
  BY DEF Agree
<1>1. 20 + i \in 1 .. n
  OBVIOUS
<1>2. b[20 + i] = c[20 + i]
  BY <1>1 DEF Agree
<1>3. i \in 1 .. Len(d) /\ i \in 1 .. Len(z)
  OBVIOUS
<1>4. b[20 + i] = d[i]
  BY <1>3, StandsAt
<1>5. c[20 + i] = z[i]
  BY <1>3, StandsAt
<1> QED BY <1>2, <1>4, <1>5

LEMMA AgreeSame ==
  ASSUME NEW y \in Seq(Byte), NEW x \in Seq(Byte), NEW n \in Nat,
         Len(y) = n, Len(x) = n, Agree(y, x, n)
  PROVE  y = x
<1>1. \A i \in 1 .. n : y[i] = x[i]
  BY DEF Agree
<1> QED BY <1>1, Same

LEMMA HeadersAgree ==
  ASSUME NEW b, NEW c, NEW ps, NEW x, NEW y, NEW d, NEW z,
         IsCovered(b, ps, x, d), IsCovered(c, ps, y, z), Sized(ps, x), Sized(ps, y),
         NEW n \in Nat, 20 <= n, Agree(b, c, n), NEW l, l = 8
  PROVE  Agree(y, x, l)
<1>1. \A i \in 1 .. 8 : b[12 + i] = x[i]
  BY HeaderIn
<1>2. \A i \in 1 .. 8 : c[12 + i] = y[i]
  BY HeaderIn
<1>3. \A i \in 1 .. 8 : 12 + i \in 1 .. n
  OBVIOUS
<1>4. \A i \in 1 .. 8 : b[12 + i] = c[12 + i]
  BY <1>3 DEF Agree
<1> QED BY <1>1, <1>2, <1>4 DEF Agree

LEMMA EndOfHeader ==
  ASSUME NEW c, NEW ps, NEW x, NEW d, IsCovered(c, ps, x, d), Sized(ps, x)
  PROVE  c[19] = x[7] /\ c[20] = x[8]
<1>1. 7 \in 1 .. 8 /\ 8 \in 1 .. 8 /\ 12 + 7 = 19 /\ 12 + 8 = 20
  OBVIOUS
<1>2. \A i \in 1 .. 8 : c[12 + i] = x[i]
  BY HeaderIn
<1> QED BY <1>1, <1>2

\* b and c differ in one byte.
Apart(b, c, j) ==
  /\ Len(b) = Len(c) /\ j \in 1 .. Len(b) /\ b[j] # c[j]
  /\ \A i \in 1 .. Len(b) : i # j => b[i] = c[i]

LEMMA ApartShows ==
  ASSUME NEW b \in Seq(Byte), NEW c \in Seq(Byte), NEW j, Apart(b, c, j), Short(b)
  PROVE  OnesComplementSum(b) # OnesComplementSum(c)
  BY DamageShows DEF Apart

LEMMA TenthWord ==
  ASSUME NEW l \in Nat, NEW w \in Nat, 20 <= l, l <= 2 * w, NEW q, q = 10
  PROVE  2 * q - 1 = 19 /\ 2 * q = 20 /\ 2 * q <= l /\ q \in 1 .. w
  OBVIOUS

\* y and z are x and d but for the byte that is the k-th of the frame.
ButByte(k, y, z, x, d) ==
  /\ \A i \in 1 .. Len(x) : 34 + i # k => y[i] = x[i]
  /\ \A i \in 1 .. Len(d) : 42 + i # k => z[i] = d[i]

LEMMA CoveredApart ==
  ASSUME NEW ps \in Seq(Byte), Len(ps) = 12,
         NEW x \in Seq(Byte), Len(x) = 8, NEW y \in Seq(Byte), Len(y) = 8,
         NEW d \in Seq(Byte), Len(d) <= 1472, NEW z \in Seq(Byte), Len(z) = Len(d),
         NEW k \in Nat, ButByte(k, y, z, x, d),
         Verifies(Covered(ps, x, d)), Verifies(Covered(ps, y, z))
  PROVE  y = x /\ z = d
<1> DEFINE b == Covered(ps, x, d)
           c == Covered(ps, y, z)
           m == Len(d)
           j == k - 22
<1>a. IsCovered(b, ps, x, d) /\ IsCovered(c, ps, y, z)
  <2>1. ps \in Seq(Byte) /\ y \in Seq(Byte) /\ z \in Seq(Byte)
    OBVIOUS
  <2>2. IsCovered(Covered(ps, y, z), ps, y, z)
    BY <2>1, CoveredIs
  <2> QED BY <2>2, CoveredIs
<1> HIDE DEF b, c
<1>3. m \in Nat /\ m <= 1472 /\ Len(z) = m
  OBVIOUS
<1> HIDE DEF m
<1>1. b \in Seq(Byte) /\ Len(b) = 20 + m
  BY <1>a DEF IsCovered, m
<1>2. c \in Seq(Byte) /\ Len(c) = 20 + m
  BY <1>3, <1>a DEF IsCovered
<1>4. /\ StandsIn(b, 20, d) /\ StandsIn(c, 20, z)
  BY <1>a DEF IsCovered
<1>l. Len(d) = m
  BY DEF m
<1>z. Sized(ps, x) /\ Sized(ps, y)
  BY DEF Sized
<1>5. /\ \A i \in 1 .. 8 : 34 + i # k => y[i] = x[i]
      /\ \A i \in 1 .. m : 42 + i # k => z[i] = d[i]
  BY DEF ButByte, m
<1>6. ASSUME NEW i \in 1 .. 20 + m, i # j
      PROVE  b[i] = c[i]
  <2>0. At(b, ps, x, d, i) /\ At(c, ps, y, z, i)
    BY <1>3, <1>a, <1>l, <1>z, CoveredAt
  <2>1. CASE i <= 12
    BY <2>0, <2>1 DEF At
  <2>2. CASE 12 < i /\ i <= 20
    <3>1. i - 12 \in 1 .. 8 /\ 34 + (i - 12) # k BY <1>6, <2>2
    <3>2. y[i - 12] = x[i - 12] BY <1>5, <3>1
    <3> QED BY <2>0, <2>2, <3>2 DEF At
  <2>3. CASE 20 < i
    <3>1. i - 20 \in 1 .. m /\ 42 + (i - 20) # k BY <1>3, <1>6, <2>3
    <3>2. z[i - 20] = d[i - 20] BY <1>5, <3>1
    <3> QED BY <2>0, <2>3, <3>2 DEF At
  <2> QED BY <1>3, <2>1, <2>2, <2>3
<1> HIDE DEF j
<1>7. OnesComplementSum(b) = OnesComplementSum(c)
  BY <1>1, <1>2, VerifiesSame DEF b, c
<1>8. \A i \in 1 .. 20 + m : b[i] = c[i]
  <2> SUFFICES ASSUME NEW i \in 1 .. 20 + m, b[i] # c[i]
               PROVE  FALSE
    OBVIOUS
  <2>1. i = j
    BY <1>6
  <2>2. \A l \in 1 .. 20 + m : l # i => b[l] = c[l]
    BY <1>6, <2>1
  <2>3. Short(b)
    <3>1. Len(b) \in Nat /\ Len(b) <= 2000 BY <1>1, <1>3
    <3> QED BY <3>1, ShortIs
  <2>4. Apart(b, c, i)
    <3>1. Len(b) = 20 + m /\ Len(c) = 20 + m BY <1>1, <1>2
    <3> QED BY <2>2, <3>1 DEF Apart
  <2>6. b \in Seq(Byte) /\ c \in Seq(Byte)
    BY <1>1, <1>2
  <2>5. OnesComplementSum(b) # OnesComplementSum(c)
    BY <2>3, <2>4, <2>6, ApartShows
  <2> QED BY <1>7, <2>5
<1>9. PICK n \in Nat : n = 20 + m
  BY <1>3
<1>k. PICK l \in Nat : l = 8
  OBVIOUS
<1>m. Agree(b, c, n)
  BY <1>8, <1>9 DEF Agree
<1>n. Agree(y, x, l)
  <2>1. 20 <= n BY <1>3, <1>9
  <2> QED BY <1>a, <1>k, <1>m, <1>z, <2>1, HeadersAgree
<1>10. Agree(z, d, m)
  <2>1. n = 20 + m /\ Len(d) = m /\ Len(z) = m BY <1>3, <1>9, <1>l
  <2> QED BY <1>3, <1>4, <1>m, <2>1, TailsAgree
<1>11. y = x
  <2>1. Len(y) = l /\ Len(x) = l BY <1>k
  <2> QED BY <1>n, <2>1, AgreeSame
<1>12. z = d
  <2>1. PICK q \in Nat : q = m BY <1>3
  <2>2. Len(z) = q /\ Len(d) = q BY <1>3, <1>l, <2>1
  <2>3. Agree(z, d, q) BY <1>10, <2>1
  <2> QED BY <2>2, <2>3, AgreeSame
<1> QED BY <1>11, <1>12

\* The checksum that is put where there were zeros verifies.
Filled(y, x, n) ==
  /\ x[7] = 0 /\ x[8] = 0
  /\ y[7] = htons(n)[1] /\ y[8] = htons(n)[2]
  /\ \A i \in 1 .. 6 : y[i] = x[i]

LEMMA CoveredPut ==
  ASSUME NEW ps \in Seq(Byte), Len(ps) = 12,
         NEW x \in Seq(Byte), Len(x) = 8,
         NEW d \in Seq(Byte), Len(d) <= 1472,
         NEW y \in Seq(Byte), Len(y) = 8,
         Filled(y, x, Complement(OnesComplementSum(Covered(ps, x, d))))
  PROVE  Verifies(Covered(ps, y, d))
<1> DEFINE b == Covered(ps, x, d)
           c == Covered(ps, y, d)
           m == Len(d)
           w == htons(Complement(OnesComplementSum(b)))
<1>a. IsCovered(b, ps, x, d) /\ IsCovered(c, ps, y, d)
  <2>1. ps \in Seq(Byte) /\ y \in Seq(Byte) /\ d \in Seq(Byte)
    OBVIOUS
  <2>2. IsCovered(Covered(ps, y, d), ps, y, d)
    BY <2>1, CoveredIs
  <2> QED BY <2>2, CoveredIs
<1>w. w = htons(Complement(OnesComplementSum(b)))
  OBVIOUS
<1>x. /\ x[7] = 0 /\ x[8] = 0 /\ y[7] = w[1] /\ y[8] = w[2]
      /\ \A i \in 1 .. 6 : y[i] = x[i]
  BY DEF Filled
<1> HIDE DEF w
<1> HIDE DEF b, c
<1>3. m \in Nat /\ m <= 1472 /\ Len(d) = m
  OBVIOUS
<1> HIDE DEF m
<1>1. b \in Seq(Byte) /\ Len(b) = 20 + m
  BY <1>a DEF IsCovered, m
<1>2. c \in Seq(Byte) /\ Len(c) = 20 + m
  BY <1>3, <1>a DEF IsCovered
<1>l. Len(d) = m
  BY DEF m
<1>z. Sized(ps, x) /\ Sized(ps, y)
  BY DEF Sized
<1>5. ASSUME NEW i \in 1 .. 20 + m, i # 19, i # 20
      PROVE  c[i] = b[i]
  <2>0. At(b, ps, x, d, i) /\ At(c, ps, y, d, i)
    BY <1>3, <1>a, <1>l, <1>z, CoveredAt
  <2>1. CASE i <= 12
    BY <2>0, <2>1 DEF At
  <2>2. CASE 12 < i /\ i <= 20
    <3>1. i - 12 \in 1 .. 6 BY <1>5, <2>2
    <3>2. y[i - 12] = x[i - 12] BY <1>x, <3>1
    <3> QED BY <2>0, <2>2, <3>2 DEF At
  <2>3. CASE 20 < i
    BY <2>0, <2>3 DEF At
  <2> QED BY <1>3, <2>1, <2>2, <2>3
<1>6. b[19] = 0 /\ b[20] = 0 /\ c[19] = w[1] /\ c[20] = w[2]
  <2>1. b[19] = x[7] /\ b[20] = x[8] BY <1>a, <1>z, EndOfHeader
  <2>2. c[19] = y[7] /\ c[20] = y[8] BY <1>a, <1>z, EndOfHeader
  <2> QED BY <1>x, <2>1, <2>2
<1>7. PICK q \in Nat : q = 10
  OBVIOUS
<1>8. 2 * q - 1 = 19 /\ 2 * q = 20 /\ 2 * q <= Len(b) /\ q \in 1 .. Words(b)
  <2>1. Len(b) \in Nat /\ Len(b) >= 20 BY <1>1, <1>3
  <2>2. Words(b) \in Nat /\ Len(b) <= 2 * Words(b) BY <1>1, WordsOf
  <2> QED BY <1>7, <2>1, <2>2, TenthWord
<1>9. Short(b)
  <2>1. Len(b) \in Nat /\ Len(b) <= 2000 BY <1>1, <1>3
  <2> QED BY <2>1, ShortIs
<1>10. /\ b[2 * q - 1] = 0 /\ b[2 * q] = 0
       /\ Len(c) = Len(b) /\ \A i \in 1 .. Len(b) : i # 2 * q - 1 /\ i # 2 * q => c[i] = b[i]
       /\ c[2 * q - 1] = htons(Complement(OnesComplementSum(b)))[1]
       /\ c[2 * q] = htons(Complement(OnesComplementSum(b)))[2]
  BY <1>1, <1>2, <1>5, <1>6, <1>8, <1>w
<1>11. Complement(OnesComplementSum(c)) = 0
  <2>1. b \in Seq(Byte) /\ c \in Seq(Byte) BY <1>1, <1>2
  <2>2. q \in 1 .. Words(b) /\ 2 * q <= Len(b) BY <1>8
  <2>3. \A i \in 1 .. Len(b) : i # 2 * q - 1 /\ i # 2 * q => c[i] = b[i] BY <1>10
  <2> QED BY <1>9, <1>10, <2>1, <2>2, <2>3, ChecksumPut
<1> QED BY <1>11 DEF Verifies, c

-----------------------------------------------------------------------------
\* The twelve bytes.
Pseudo(h, n) ==
  Joined(Joined(Joined(IP!GetSourceIP(h), IP!GetDestIP(h)), htons(IP!GetProtocol(h))), htons(n))

LEMMA JoinedLength ==
  ASSUME NEW a \in Seq(Byte), NEW b \in Seq(Byte), NEW m \in Nat, NEW n \in Nat,
         Len(a) = m, Len(b) = n
  PROVE  Joined(a, b) \in Seq(Byte) /\ Len(Joined(a, b)) = m + n
  BY DEF Joined

LEMMA PseudoIs ==
  ASSUME NEW h, IP!GetSourceIP(h) \in Bytes(4), IP!GetDestIP(h) \in Bytes(4),
         IP!GetProtocol(h) \in Int, NEW n \in Int
  PROVE  Pseudo(h, n) \in Seq(Byte) /\ Len(Pseudo(h, n)) = 12
<1> DEFINE a == IP!GetSourceIP(h)
           b == IP!GetDestIP(h)
           c == htons(IP!GetProtocol(h))
           d == htons(n)
           ab == Joined(a, b)
           abc == Joined(ab, c)
<1>0. PICK two, four \in Nat : two = 2 /\ four = 4
  OBVIOUS
<1>1. a \in Seq(Byte) /\ Len(a) = four /\ b \in Seq(Byte) /\ Len(b) = four
  BY <1>0 DEF Bytes
<1>2. c \in Seq(Byte) /\ Len(c) = two /\ d \in Seq(Byte) /\ Len(d) = two
  BY <1>0, HtonsIs
<1>3. Pseudo(h, n) = Joined(abc, d)
  BY DEF Pseudo
<1> HIDE DEF a, b, c, d
<1>4. ab \in Seq(Byte) /\ Len(ab) = four + four
  BY <1>1, JoinedLength
<1> HIDE DEF ab
<1>5. abc \in Seq(Byte) /\ Len(abc) = (four + four) + two
  <2>1. four + four \in Nat OBVIOUS
  <2> QED BY <1>2, <1>4, <2>1, JoinedLength
<1> HIDE DEF abc
<1>6. Joined(abc, d) \in Seq(Byte) /\ Len(Joined(abc, d)) = ((four + four) + two) + two
  <2>1. (four + four) + two \in Nat OBVIOUS
  <2> QED BY <1>2, <1>5, <2>1, JoinedLength
<1> QED BY <1>0, <1>3, <1>6

LEMMA GetFront ==
  ASSUME NEW b \in Seq(Byte), NEW n \in Int
  PROVE  GetData(b, n, 0) = ExtractFront(b, n)
<1>1. 0 + n = n /\ 0 + 1 = 1
  OBVIOUS
<1>2. GetData(b, n, 0) = SubSeq(b, 0 + 1, Smaller(0 + n, Len(b)))
  BY DEF GetData
<1>3. ExtractFront(b, n) = SubSeq(b, 1, Smaller(n, Len(b)))
  BY DEF ExtractFront
<1> QED BY <1>1, <1>2, <1>3

\* udp.cc:94-124: what the checksum of a whole datagram is over.
LEMMA UdpSumIs ==
  ASSUME NEW x \in Seq(Byte), Len(x) = 8, NEW p, p.payload \in Seq(Byte), NEW n \in Int,
         UDP!GetLength(x) = n
  PROVE  UDP!ComputeChecksum(x, p)
           = Complement(OnesComplementSum(Covered(Pseudo(FindHeader(p, "IPHeader"), n), x,
                                                  ExtractFront(p.payload, n - 8))))
<1> DEFINE iph == FindHeader(p, "IPHeader")
           pseudo == ((IP!GetSourceIP(iph) \o IP!GetDestIP(iph))
                        \o htons(IP!GetProtocol(iph))) \o htons(n)
           data == GetData(p.payload, n - 8, 0)
           front == GetData(x, 8, 0)
<1>1. UDP!UDP_HEADER_LENGTH = 8
  BY DEF UDP!UDP_HEADER_LENGTH
<1>2. UDP!ComputeChecksum(x, p) = Complement(OnesComplementSum((pseudo \o front) \o data))
  BY <1>1, UdpBuffer DEF UDP!ComputeChecksum
<1>3. data = ExtractFront(p.payload, n - 8)
  <2>1. n - 8 \in Int OBVIOUS
  <2> QED BY <2>1, GetFront
<1>4. front = x
  <2>1. PICK k \in Nat : k = 8 OBVIOUS
  <2>2. k >= Len(x) BY <2>1
  <2>3. GetData(x, k, 0) = x BY <2>2, GetAll
  <2> QED BY <2>1, <2>3
<1>5. pseudo = Pseudo(iph, n)
  BY DEF Pseudo, Joined
<1> HIDE DEF pseudo, data, front, iph
<1>6. (pseudo \o front) \o data = Covered(pseudo, front, data)
  BY DEF Covered, Joined
<1> QED BY <1>2, <1>3, <1>4, <1>5, <1>6 DEF iph

-----------------------------------------------------------------------------
(***************************************************************************)
(* The datagram that udp_module builds.                                    *)
(***************************************************************************)
\* The words of a header of UDP, but for the checksum.
UdpWords(x, s, d, l) ==
  x \in Seq(Byte) /\ Len(x) = 8 /\ WordIn(x, 0, s) /\ WordIn(x, 2, d) /\ WordIn(x, 4, l)

Cleared(y) == SetData(y, htons(0), 6)

IsCleared(z, y) ==
  /\ z \in Seq(Byte) /\ Len(z) = 8 /\ z[7] = 0 /\ z[8] = 0
  /\ \A i \in 1 .. 6 : z[i] = IF i <= Len(y) THEN y[i] ELSE 0

LEMMA ClearedIs ==
  ASSUME NEW y \in Seq(Byte), Len(y) <= 8
  PROVE  IsCleared(Cleared(y), y)
<1> DEFINE w == htons(0)
           z == SetData(y, w, 6)
<1>1. w \in Seq(Byte) /\ Len(w) = 2 /\ w[1] = 0 /\ w[2] = 0
  <2>1. PICK n \in Int : n = 0 OBVIOUS
  <2>2. (n \div 256) % 256 = 0 /\ n % 256 = 0 BY <2>1
  <2>3. htons(n) \in Seq(Byte) /\ Len(htons(n)) = 2
        /\ htons(n)[1] = (n \div 256) % 256 /\ htons(n)[2] = n % 256
    BY HtonsIs, ZenonT(60)
  <2> QED BY <2>1, <2>2, <2>3
<1> HIDE DEF w
<1>2. PICK o \in Nat : o = 6
  OBVIOUS
<1>3. Laid(SetData(y, w, o), y, w, o)
  BY <1>1, SetDataLaid
<1>4. z = SetData(y, w, o)
  BY <1>2
<1> HIDE DEF z
<1>5. Len(y) \in Nat
  OBVIOUS
<1>6. z \in Seq(Byte) /\ Len(z) = 8
  <2>1. z \in Seq(Byte) /\ Len(z) = IF o + Len(w) > Len(y) THEN o + Len(w) ELSE Len(y)
    BY <1>3, <1>4 DEF Laid
  <2>2. o + Len(w) = 8 /\ Len(y) <= 8 BY <1>1, <1>2
  <2>3. Len(z) = 8
    <3>1. CASE o + Len(w) > Len(y) BY <2>1, <2>2, <3>1
    <3>2. CASE ~ (o + Len(w) > Len(y)) BY <1>5, <2>1, <2>2, <3>2
    <3> QED BY <3>1, <3>2
  <2> QED BY <2>1, <2>3
<1>7. ASSUME NEW i \in 1 .. 8
      PROVE  z[i] = IF i <= o THEN IF i <= Len(y) THEN y[i] ELSE 0
                    ELSE IF i <= o + Len(w) THEN w[i - o] ELSE y[i]
  <2>1. i \in 1 .. Len(z) BY <1>6
  <2>2. \A l \in 1 .. Len(z) :
          z[l] = IF l <= o THEN IF l <= Len(y) THEN y[l] ELSE 0
                 ELSE IF l <= o + Len(w) THEN w[l - o] ELSE y[l]
    BY <1>3, <1>4 DEF Laid
  <2> QED BY <2>1, <2>2
<1>8. z[7] = w[1] /\ z[8] = w[2]
  <2>1. 7 \in 1 .. 8 /\ ~ (7 <= o) /\ 7 <= o + Len(w) /\ 7 - o = 1
    BY <1>1, <1>2
  <2>2. 8 \in 1 .. 8 /\ ~ (8 <= o) /\ 8 <= o + Len(w) /\ 8 - o = 2
    BY <1>1, <1>2
  <2>3. z[7] = w[7 - o] /\ z[8] = w[8 - o] BY <1>7, <2>1, <2>2
  <2> QED BY <2>1, <2>2, <2>3
<1>9. \A i \in 1 .. 6 : z[i] = IF i <= Len(y) THEN y[i] ELSE 0
  BY <1>2, <1>7
<1>10. Cleared(y) = z
  BY DEF Cleared, z, w
<1> QED BY <1>1, <1>6, <1>8, <1>9, <1>10 DEF IsCleared

LEMMA UdpLengthAt ==
  ASSUME NEW x \in Seq(Byte), Len(x) = 8
  PROVE  UDP!GetLength(x) = 256 * x[5] + x[6]
<1>1. PICK n \in Nat : n = 2 OBVIOUS
<1>2. PICK o \in Nat : o = 4 OBVIOUS
<1>3. o + n <= Len(x) BY <1>1, <1>2
<1>4. \A i \in 1 .. n : GetData(x, n, o)[i] = x[o + i] BY <1>3, GetDataIs
<1>5. GetData(x, n, o)[1] = x[5] /\ GetData(x, n, o)[2] = x[6]
  <2>1. 1 \in 1 .. n /\ 2 \in 1 .. n /\ o + 1 = 5 /\ o + 2 = 6 BY <1>1, <1>2
  <2> QED BY <1>4, <2>1
<1>6. UDP!GetLength(x) = 256 * GetData(x, n, o)[1] + GetData(x, n, o)[2]
  BY <1>1, <1>2, UdpBuffer DEF UDP!GetLength, ntohs
<1> QED BY <1>5, <1>6

\* As long as the length is not set, no checksum is computed.
LEMMA UdpEarly ==
  ASSUME NEW y \in Seq(Byte), Len(y) <= 8, NEW p,
         UDP!GetLength(Cleared(y)) = 0
  PROVE  UDP!RecomputeChecksum(y, p) = Cleared(y)
<1> DEFINE z == Cleared(y)
<1>1. UDP!SetChecksum(y, 0) = z
  BY UdpBuffer DEF UDP!SetChecksum, Cleared
<1> HIDE DEF z
<1>2. ~ (UDP!GetLength(z) >= UDP!UDP_HEADER_LENGTH)
  <2>1. UDP!GetLength(z) = 0 BY DEF z
  <2> QED BY <2>1 DEF UDP!UDP_HEADER_LENGTH
<1> QED BY <1>1, <1>2 DEF UDP!RecomputeChecksum, z

WordPut(y, x, n, o) ==
  /\ y \in Seq(Byte) /\ Len(y) = IF o + 2 > Len(x) THEN o + 2 ELSE Len(x)
  /\ WordIn(y, o, n)
  /\ \A i \in 1 .. Len(x) : i <= o \/ i > o + 2 => y[i] = x[i]

LEMMA WordLaid ==
  ASSUME NEW x \in Seq(Byte), NEW n \in Int, NEW o \in Nat
  PROVE  WordPut(SetData(x, htons(n), o), x, n, o)
<1> DEFINE w == htons(n)
           y == SetData(x, w, o)
<1>1. w \in Seq(Byte) /\ Len(w) = 2 /\ w[1] = (n \div 256) % 256 /\ w[2] = n % 256
  BY HtonsIs, ZenonT(60)
<1> HIDE DEF w
<1>2. Laid(y, x, w, o)
  BY <1>1, SetDataLaid
<1> HIDE DEF y
<1>3. Len(x) \in Nat
  OBVIOUS
<1>4. y \in Seq(Byte) /\ Len(y) = IF o + 2 > Len(x) THEN o + 2 ELSE Len(x)
  BY <1>1, <1>2 DEF Laid
<1>5. \A i \in 1 .. Len(y) :
        y[i] = IF i <= o THEN IF i <= Len(x) THEN x[i] ELSE 0
               ELSE IF i <= o + 2 THEN w[i - o] ELSE x[i]
  BY <1>1, <1>2 DEF Laid
<1>6. o + 1 \in 1 .. Len(y) /\ o + 2 \in 1 .. Len(y) /\ (o + 1) - o = 1 /\ (o + 2) - o = 2
  BY <1>3, <1>4
<1>7. y[o + 1] = w[1] /\ y[o + 2] = w[2]
  <2>1. ~ (o + 1 <= o) /\ o + 1 <= o + 2 /\ ~ (o + 2 <= o) OBVIOUS
  <2> QED BY <1>5, <1>6, <2>1
<1>8. ASSUME NEW i \in 1 .. Len(x), i <= o \/ i > o + 2
      PROVE  y[i] = x[i]
  <2>1. i \in 1 .. Len(y) BY <1>3, <1>4
  <2> QED BY <1>5, <1>8, <2>1
<1>9. WordIn(y, o, n)
  BY <1>1, <1>7 DEF WordIn
<1>10. WordPut(y, x, n, o)
  BY <1>4, <1>8, <1>9 DEF WordPut
<1> QED BY <1>10 DEF y, w

LEMMA UdpSource ==
  ASSUME NEW s \in Int, NEW p
  PROVE  UdpWords(UDP!SetSourcePort(<<>>, s, p), s, 0, 0)
<1> DEFINE y == SetData(<<>>, htons(s), 0)
           z == Cleared(y)
<1>1. UDP!SetSourcePort(<<>>, s, p) = UDP!RecomputeChecksum(y, p)
  BY UdpBuffer DEF UDP!SetSourcePort
<1>2. y \in Seq(Byte) /\ Len(y) = 2 /\ WordIn(y, 0, s)
  <2>1. <<>> \in Seq(Byte) /\ Len(<<>>) = 0 /\ 0 \in Nat OBVIOUS
  <2>2. y \in Seq(Byte) /\ (Len(y) = IF 0 + 2 > Len(<<>>) THEN 0 + 2 ELSE Len(<<>>)) /\ WordIn(y, 0, s)
    BY <2>1, WordLaid DEF WordPut
  <2> QED BY <2>1, <2>2
<1> HIDE DEF y
<1>3. Len(y) <= 8
  BY <1>2
<1>4. /\ z \in Seq(Byte) /\ Len(z) = 8 /\ \A i \in 1 .. 6 : z[i] = IF i <= Len(y) THEN y[i] ELSE 0
  BY <1>2, <1>3, ClearedIs DEF IsCleared
<1> HIDE DEF z
<1>5. z[1] = y[1] /\ z[2] = y[2] /\ z[3] = 0 /\ z[4] = 0 /\ z[5] = 0 /\ z[6] = 0
  BY <1>2, <1>4
<1>6. UDP!GetLength(z) = 0
  BY <1>4, <1>5, UdpLengthAt
<1>7. UDP!RecomputeChecksum(y, p) = z
  BY <1>2, <1>3, <1>6, UdpEarly DEF z
<1>8. WordIn(z, 0, s) /\ WordIn(z, 2, 0) /\ WordIn(z, 4, 0)
  BY <1>2, <1>5 DEF WordIn
<1> QED BY <1>1, <1>4, <1>7, <1>8 DEF UdpWords

LEMMA UdpDest ==
  ASSUME NEW x, NEW s, UdpWords(x, s, 0, 0), NEW d \in Int, NEW p
  PROVE  UdpWords(UDP!SetDestPort(x, d, p), s, d, 0)
<1> DEFINE y == SetData(x, htons(d), 2)
           z == Cleared(y)
<1>1. UDP!SetDestPort(x, d, p) = UDP!RecomputeChecksum(y, p)
  BY UdpBuffer DEF UDP!SetDestPort
<1>0. x \in Seq(Byte) /\ Len(x) = 8 /\ WordIn(x, 0, s) /\ WordIn(x, 4, 0)
  BY DEF UdpWords
<1>2. y \in Seq(Byte) /\ Len(y) = 8 /\ WordIn(y, 2, d) /\ y[1] = x[1] /\ y[2] = x[2]
      /\ y[5] = x[5] /\ y[6] = x[6]
  <2>1. PICK o \in Nat : o = 2 OBVIOUS
  <2> DEFINE v == SetData(x, htons(d), o)
  <2>2. x \in Seq(Byte) BY <1>0
  <2>3. WordPut(v, x, d, o) BY <2>2, WordLaid
  <2>4. y = v BY <2>1
  <2> HIDE DEF y, v
  <2>5. WordPut(y, x, d, o) BY <2>3, <2>4
  <2> QED BY <1>0, <2>1, <2>5 DEF WordPut
<1> HIDE DEF y
<1>3. Len(y) <= 8
  BY <1>2
<1>4. /\ z \in Seq(Byte) /\ Len(z) = 8 /\ \A i \in 1 .. 6 : z[i] = IF i <= Len(y) THEN y[i] ELSE 0
  BY <1>2, <1>3, ClearedIs DEF IsCleared
<1> HIDE DEF z
<1>5. z[1] = x[1] /\ z[2] = x[2] /\ z[3] = y[3] /\ z[4] = y[4] /\ z[5] = x[5] /\ z[6] = x[6]
  BY <1>2, <1>4
<1>6. WordIn(z, 0, s) /\ WordIn(z, 2, d) /\ WordIn(z, 4, 0)
  BY <1>0, <1>2, <1>5 DEF WordIn
<1>7. z[5] = 0 /\ z[6] = 0
  BY <1>6 DEF WordIn
<1>8. UDP!GetLength(z) = 0
  BY <1>4, <1>7, UdpLengthAt
<1>9. UDP!RecomputeChecksum(y, p) = z
  BY <1>2, <1>3, <1>8, UdpEarly DEF z
<1> QED BY <1>1, <1>4, <1>6, <1>9 DEF UdpWords

LEMMA SmallWord ==
  ASSUME NEW n \in Nat, n <= 2000
  PROVE  IsWord(n)
  BY SMT DEF IsWord

\* The word that stands there is read.
LEMMA WordRead ==
  ASSUME NEW n \in Nat, n <= 2000
  PROVE  256 * ((n \div 256) % 256) + (n % 256) = n
<1>1. n \div 256 \in Nat /\ n \div 256 < 256
  OBVIOUS
<1>2. (n \div 256) % 256 = n \div 256
  BY <1>1
<1> QED BY <1>2

LEMMA UdpLengthSet ==
  ASSUME NEW x, NEW s, NEW d, UdpWords(x, s, d, 0), NEW p, Readable(p),
         NEW m \in Nat, m = Len(p.payload), m <= 1472,
         NEW ps, ps = Pseudo(FindHeader(p, "IPHeader"), 8 + m), ps \in Seq(Byte), Len(ps) = 12
  PROVE  LET r == UDP!SetLength(x, 8 + m, p)
         IN  UdpWords(r, s, d, 8 + m) /\ Verifies(Covered(ps, r, p.payload))
<1> DEFINE n == 8 + m
           y == SetData(x, htons(n), 4)
           z == Cleared(y)
           k == UDP!ComputeChecksum(z, p)
           r == SetData(z, htons(k), 6)
<1>0. n \in Nat /\ n <= 2000 /\ n \in Int /\ n >= 8 /\ n - 8 = m
  OBVIOUS
<1>n. ps = Pseudo(FindHeader(p, "IPHeader"), n)
  OBVIOUS
<1> HIDE DEF n
<1>1. UDP!SetLength(x, n, p) = UDP!RecomputeChecksum(y, p)
  BY UdpBuffer DEF UDP!SetLength
<1>2. x \in Seq(Byte) /\ Len(x) = 8 /\ WordIn(x, 0, s) /\ WordIn(x, 2, d)
  BY DEF UdpWords
<1>3. y \in Seq(Byte) /\ Len(y) = 8 /\ WordIn(y, 4, n) /\ y[1] = x[1] /\ y[2] = x[2]
      /\ y[3] = x[3] /\ y[4] = x[4]
  <2>1. PICK o \in Nat : o = 4 OBVIOUS
  <2> DEFINE v == SetData(x, htons(n), o)
  <2>2. x \in Seq(Byte) BY <1>2
  <2>n. n \in Int BY <1>0
  <2>3. WordPut(v, x, n, o) BY <2>2, <2>n, WordLaid
  <2>4. y = v BY <2>1
  <2> HIDE DEF y, v
  <2>5. WordPut(y, x, n, o) BY <2>3, <2>4
  <2> QED BY <1>2, <2>1, <2>5 DEF WordPut
<1> HIDE DEF y
<1>4. Len(y) <= 8
  BY <1>3
<1>5. /\ z \in Seq(Byte) /\ Len(z) = 8 /\ z[7] = 0 /\ z[8] = 0
      /\ \A i \in 1 .. 6 : z[i] = IF i <= Len(y) THEN y[i] ELSE 0
  <2>1. y \in Seq(Byte) BY <1>3
  <2>2. IsCleared(Cleared(y), y) BY <1>4, <2>1, ClearedIs
  <2> QED BY <2>2 DEF IsCleared
<1>c. UDP!SetChecksum(y, 0) = z
  BY UdpBuffer DEF UDP!SetChecksum, Cleared
<1> HIDE DEF z
<1>6. z[1] = x[1] /\ z[2] = x[2] /\ z[3] = x[3] /\ z[4] = x[4] /\ z[5] = y[5] /\ z[6] = y[6]
  BY <1>3, <1>5
<1>7. WordIn(z, 0, s) /\ WordIn(z, 2, d) /\ WordIn(z, 4, n)
  BY <1>2, <1>3, <1>6 DEF WordIn
<1>8. UDP!GetLength(z) = n
  <2>1. z[5] = (n \div 256) % 256 /\ z[6] = n % 256 BY <1>7 DEF WordIn
  <2>2. UDP!GetLength(z) = 256 * z[5] + z[6] BY <1>5, UdpLengthAt
  <2>3. 256 * ((n \div 256) % 256) + (n % 256) = n BY <1>0, WordRead
  <2> QED BY <2>1, <2>2, <2>3
<1>9. UDP!RecomputeChecksum(y, p) = r
  <2>1. UDP!GetLength(z) >= UDP!UDP_HEADER_LENGTH
    BY <1>0, <1>8 DEF UDP!UDP_HEADER_LENGTH
  <2> QED BY <1>c, <2>1, UdpBuffer DEF UDP!RecomputeChecksum, UDP!SetChecksum
<1> DEFINE b == p.payload
<1>10. b \in Seq(Byte)
  BY DEF Readable
<1>11. ExtractFront(b, n - 8) = b
  <2>1. ExtractFront(b, m) = b
    <3>1. GetData(b, m, 0) = b
      <4>1. m >= Len(b) OBVIOUS
      <4> QED BY <1>10, <4>1, GetAll
    <3>2. GetData(b, m, 0) = ExtractFront(b, m) BY <1>10, GetFront
    <3> QED BY <3>1, <3>2
  <2> QED BY <1>0, <2>1
<1> DEFINE e == Complement(OnesComplementSum(Covered(ps, z, b)))
<1>12. k = e
  <2>1. UDP!ComputeChecksum(z, p)
          = Complement(OnesComplementSum(Covered(Pseudo(FindHeader(p, "IPHeader"), n), z,
                                                 ExtractFront(p.payload, n - 8))))
    BY <1>0, <1>5, <1>8, <1>10, UdpSumIs
  <2> QED BY <1>11, <1>n, <2>1
<1> HIDE DEF k
<1>13. k \in Int
  <2>1. Covered(ps, z, b) \in Seq(Byte)
    <3>1. IsCovered(Covered(ps, z, b), ps, z, b) BY <1>5, <1>10, CoveredIs
    <3> QED BY <3>1 DEF IsCovered
  <2> QED BY <1>12, <2>1, ComplementIs
<1>14. r \in Seq(Byte) /\ Len(r) = 8 /\ WordIn(r, 6, k) /\ \A i \in 1 .. 6 : r[i] = z[i]
  <2>1. PICK o \in Nat : o = 6 OBVIOUS
  <2> DEFINE v == SetData(z, htons(k), o)
  <2>2. z \in Seq(Byte) BY <1>5
  <2>3. WordPut(v, z, k, o) BY <2>2, <1>13, WordLaid
  <2>4. r = v BY <2>1
  <2> HIDE DEF r, v
  <2>5. WordPut(r, z, k, o) BY <2>3, <2>4
  <2> QED BY <1>5, <2>1, <2>5 DEF WordPut
<1> HIDE DEF r
<1>15. UdpWords(r, s, d, n)
  <2>1. r[1] = z[1] /\ r[2] = z[2] /\ r[3] = z[3] /\ r[4] = z[4] /\ r[5] = z[5] /\ r[6] = z[6]
    BY <1>14
  <2> QED BY <1>7, <1>14, <2>1 DEF UdpWords, WordIn
<1>16. Verifies(Covered(ps, r, b))
  <2>1. htons(k)[1] = (k \div 256) % 256 /\ htons(k)[2] = k % 256 BY DEF htons
  <2>2. WordIn(r, 6, k) BY <1>14
  <2>3. r[6 + 1] = (k \div 256) % 256 /\ r[6 + 2] = k % 256 BY <2>2 DEF WordIn
  <2>4. 6 + 1 = 7 /\ 6 + 2 = 8 OBVIOUS
  <2>5. Filled(r, z, k) BY <1>5, <1>14, <2>1, <2>3, <2>4 DEF Filled
  <2>6. Filled(r, z, Complement(OnesComplementSum(Covered(ps, z, b)))) BY <1>12, <2>5
  <2>7. Len(b) <= 1472 OBVIOUS
  <2> HIDE DEF b
  <2>8. b \in Seq(Byte) /\ z \in Seq(Byte) /\ r \in Seq(Byte) /\ ps \in Seq(Byte) BY <1>5, <1>10, <1>14
  <2>9. Len(ps) = 12 /\ Len(z) = 8 /\ Len(r) = 8 BY <1>5, <1>14
  <2> QED BY <2>6, <2>7, <2>8, <2>9, CoveredPut
<1> QED BY <1>1, <1>9, <1>15, <1>16 DEF n

\* What the application asked udp_module for.
Meant(o) ==
  /\ o.src \in Bytes(4) /\ o.dst \in Bytes(4) /\ o.proto = 17
  /\ IsWord(o.body.srcport) /\ IsWord(o.body.destport)

\* h, x and the data are what udp_module builds for o.
IsDatagram(h, x, d, o) ==
  /\ IsIp(h) /\ Len(h) = 20 /\ Fields(h) = Given(o)
  /\ d = o.body.data /\ d \in Seq(Byte) /\ Len(d) <= 1472
  /\ UdpWords(x, o.body.srcport, o.body.destport, 8 + Len(d))
  /\ Verifies(Covered(Pseudo(h, 8 + Len(d)), x, d))

LEMMA AddressesOf ==
  ASSUME NEW h, NEW o, Fields(h) = Given(o)
  PROVE  /\ IP!GetSourceIP(h) = o.src /\ IP!GetDestIP(h) = o.dst
         /\ IP!GetProtocol(h) = o.proto
  BY GivenIs DEF Fields

LEMMA PseudoOf ==
  ASSUME NEW h, NEW o, Fields(h) = Given(o), o.src \in Bytes(4), o.dst \in Bytes(4), o.proto = 17,
         NEW n \in Int
  PROVE  Pseudo(h, n) \in Seq(Byte) /\ Len(Pseudo(h, n)) = 12
<1>1. IP!GetSourceIP(h) = o.src /\ IP!GetDestIP(h) = o.dst /\ IP!GetProtocol(h) = o.proto
  BY AddressesOf
<1>2. IP!GetSourceIP(h) \in Bytes(4) /\ IP!GetDestIP(h) \in Bytes(4) /\ IP!GetProtocol(h) \in Int
  BY <1>1
<1> QED BY <1>2, PseudoIs

LEMMA DatagramBuilt ==
  ASSUME NEW g, Fresh(g), NEW o, o.src \in Bytes(4), o.dst \in Bytes(4),
         o.ttl = 64, o.flags = 2, o.fragoff = 0, o.options = <<>>, o.proto = 17,
         o.body.srcport \in Int, o.body.destport \in Int,
         o.body.data \in Seq(Byte), Len(o.body.data) <= 1472
  PROVE  \E h, x : /\ IsDatagram(h, x, o.body.data, o)
                   /\ Datagram(g, o) = Two("IPHeader", h, "UDPHeader", x, o.body.data)
<1> DEFINE data == o.body.data
           m == Len(data)
           len == UDP!UDP_HEADER_LENGTH + m
           h == IP!SetTotalLength(Addressed(g, IP!IP_PROTO_UDP, o.src, o.dst), len + IP!IP_HEADER_BASE_LENGTH)
           p == PushFrontHeader(NewPacket(data), "IPHeader", h)
           x1 == UDP!SetSourcePort(<<>>, o.body.srcport, p)
           x2 == UDP!SetDestPort(x1, o.body.destport, p)
           x == UDP!SetLength(x2, len, p)
<1>1. Datagram(g, o) = PushBackHeader(p, "UDPHeader", x)
  BY DEF Datagram, Addressed
<1>m. m \in Nat /\ m <= 1472
  OBVIOUS
<1>2. len = 8 + m /\ len + IP!IP_HEADER_BASE_LENGTH = 28 + m
  BY DEF UDP!UDP_HEADER_LENGTH, IP!IP_HEADER_BASE_LENGTH
<1>d. data \in Seq(Byte) /\ Len(data) = m
  OBVIOUS
<1> HIDE DEF len, m
<1>3. h = DatagramHeader(g, o.src, o.dst, 28 + m)
  BY <1>2 DEF DatagramHeader
<1>4. IsIp(h) /\ Len(h) = 20 /\ Fields(h) = Given(o)
  <2>1. PICK n \in Nat : n = 28 + m BY <1>m
  <2>2. /\ IsIp(DatagramHeader(g, o.src, o.dst, n)) /\ Len(DatagramHeader(g, o.src, o.dst, n)) = 20
        /\ Fields(DatagramHeader(g, o.src, o.dst, n))
             = [src |-> o.src, dst |-> o.dst, ttl |-> 64, flags |-> 2, fragoff |-> 0,
                options |-> <<>>, proto |-> 17]
    BY DatagramIp
  <2>3. h = DatagramHeader(g, o.src, o.dst, n) BY <1>3, <2>1
  <2> HIDE DEF h
  <2> QED BY <2>2, <2>3, GivenIs
<1> HIDE DEF h, data
<1>5. p = One("IPHeader", h, data)
  BY Pushes
<1>6. Readable(p) /\ p.payload = data /\ FindHeader(p, "IPHeader") = h
  <2>1. FindHeader(One("IPHeader", h, data), "IPHeader") = h BY FindInOne
  <2>2. One("IPHeader", h, data).payload = data BY DEF One
  <2> QED BY <1>4, <1>5, <1>d, <2>1, <2>2 DEF Readable, IsIp
<1> HIDE DEF p
<1>7. UdpWords(x1, o.body.srcport, 0, 0)
  BY UdpSource
<1> HIDE DEF x1
<1>8. UdpWords(x2, o.body.srcport, o.body.destport, 0)
  BY <1>7, UdpDest
<1> HIDE DEF x2
<1> DEFINE ps == Pseudo(FindHeader(p, "IPHeader"), 8 + m)
<1>9. ps \in Seq(Byte) /\ Len(ps) = 12 /\ ps = Pseudo(h, 8 + m)
  <2>1. 8 + m \in Int BY <1>m
  <2>2. Pseudo(h, 8 + m) \in Seq(Byte) /\ Len(Pseudo(h, 8 + m)) = 12
    BY <1>4, <2>1, PseudoOf
  <2> QED BY <1>6, <2>2
<1>10. UdpWords(x, o.body.srcport, o.body.destport, 8 + m) /\ Verifies(Covered(ps, x, data))
  <2>1. x = UDP!SetLength(x2, 8 + m, p) BY <1>2
  <2>2. m = Len(p.payload) BY <1>6, <1>d
  <2> HIDE DEF x
  <2> DEFINE r == UDP!SetLength(x2, 8 + m, p)
  <2>3. UdpWords(r, o.body.srcport, o.body.destport, 8 + m) /\ Verifies(Covered(ps, r, p.payload))
    <3>1. PICK qs : qs = ps OBVIOUS
    <3>2. qs = Pseudo(FindHeader(p, "IPHeader"), 8 + m) /\ qs \in Seq(Byte) /\ Len(qs) = 12 BY <1>9, <3>1
    <3> HIDE DEF ps
    <3>3. UdpWords(r, o.body.srcport, o.body.destport, 8 + m) /\ Verifies(Covered(qs, r, p.payload))
      BY <1>6, <1>8, <1>m, <2>2, <3>2, UdpLengthSet
    <3> QED BY <3>1, <3>3
  <2> QED BY <1>6, <2>1, <2>3
<1> HIDE DEF x
<1>11. Datagram(g, o) = Two("IPHeader", h, "UDPHeader", x, data)
  BY <1>1, <1>5, Pushes
<1>12. IsDatagram(h, x, data, o)
  <2>1. data = o.body.data BY DEF data
  <2> HIDE DEF ps
  <2>2. Verifies(Covered(Pseudo(h, 8 + m), x, data)) BY <1>9, <1>10
  <2> QED BY <1>4, <1>10, <1>d, <1>m, <2>1, <2>2 DEF IsDatagram
<1> QED BY <1>11, <1>12 DEF data

-----------------------------------------------------------------------------
\* All of h but the byte that is the k-th of f stands in f behind n.
ButAtByte(k, f, n, h) == \A i \in 1 .. Len(h) : n + i # k => f[n + i] = h[i]

\* A frame with the datagram, damaged at k; no byte that tells a length is.
Hurt(k, f, h, x, d) ==
  /\ k \in Nat \ {15, 39, 40}
  /\ f \in Seq(Byte) /\ Len(f) >= 42 + Len(d)
  /\ ButAtByte(k, f, 14, h) /\ ButAtByte(k, f, 34, x) /\ ButAtByte(k, f, 42, d)

LEMMA WholeFrame ==
  ASSUME NEW f, NEW h, NEW x, NEW d, f \in Seq(Byte), Len(f) >= 42 + Len(d),
         StandsIn(f, 14, h), StandsIn(f, 34, x), StandsIn(f, 42, d)
  PROVE  Hurt(0, f, h, x, d)
  BY DEF Hurt, StandsIn, ButAtByte

LEMMA HurtOnce ==
  ASSUME NEW f, NEW h, NEW x, NEW d, Hurt(0, f, h, x, d), Len(h) = 20, Len(x) = 8,
         Len(d) \in Nat, NEW i \in 1 .. Len(f), i \notin {15, 39, 40}, NEW y \in Byte
  PROVE  Hurt(i, [f EXCEPT ![i] = y], h, x, d)
<1> DEFINE e == [f EXCEPT ![i] = y]
<1>1. f \in Seq(Byte) /\ Len(f) >= 42 + Len(d) /\ Len(f) \in Nat
  BY DEF Hurt
<1>2. e \in Seq(Byte) /\ Len(e) = Len(f)
  BY <1>1
<1>3. \A l \in 1 .. Len(f) : l # i => e[l] = f[l]
  OBVIOUS
<1> HIDE DEF e
<1>4. ASSUME NEW n \in Nat, NEW s, Len(s) \in Nat, n + Len(s) <= Len(f), ButAtByte(0, f, n, s)
      PROVE  ButAtByte(i, e, n, s)
  <2> SUFFICES ASSUME NEW l \in 1 .. Len(s), n + l # i PROVE e[n + l] = s[l]
    BY DEF ButAtByte
  <2>1. n + l \in 1 .. Len(f) /\ n + l # 0 BY <1>1, <1>4
  <2>2. f[n + l] = s[l] BY <1>4, <2>1 DEF ButAtByte
  <2> QED BY <1>3, <2>1, <2>2
<1>5. ButAtByte(0, f, 14, h) /\ ButAtByte(0, f, 34, x) /\ ButAtByte(0, f, 42, d)
  BY DEF Hurt
<1>6. ButAtByte(i, e, 14, h) /\ ButAtByte(i, e, 34, x) /\ ButAtByte(i, e, 42, d)
  <2>1. 14 + Len(h) <= Len(f) /\ 34 + Len(x) <= Len(f) /\ 42 + Len(d) <= Len(f) BY <1>1
  <2>2. Len(h) \in Nat /\ Len(x) \in Nat /\ Len(d) \in Nat OBVIOUS
  <2>3. ButAtByte(i, e, 14, h) BY <1>4, <1>5, <2>1, <2>2
  <2>4. ButAtByte(i, e, 34, x) BY <1>4, <1>5, <2>1, <2>2
  <2>5. ButAtByte(i, e, 42, d) BY <1>4, <1>5, <2>1, <2>2
  <2> QED BY <2>3, <2>4, <2>5
<1>7. i \in Nat \ {15, 39, 40}
  BY <1>1
<1> QED BY <1>1, <1>2, <1>6, <1>7 DEF Hurt, e

Three(t, d, u, e, v, f, b) ==
  [headers |-> <<Header(t, d), Header(u, e), Header(v, f)>>, payload |-> b]

LEMMA FindInThree ==
  ASSUME NEW t, NEW d, NEW u, NEW e, NEW v, NEW f, NEW b, t # u, u # v, t # v
  PROVE  /\ FindHeader(Three(t, d, u, e, v, f, b), u) = e
         /\ FindHeader(Three(t, d, u, e, v, f, b), v) = f
<1> DEFINE s == <<Header(t, d), Header(u, e), Header(v, f)>>
<1>1. \A I, n : n \in Nat /\ I = {n} => I # {} /\ Min(I) = n
  BY DEF Min
<1>2. {i \in 1 .. Len(s) : s[i].tag = u} = {2} /\ {i \in 1 .. Len(s) : s[i].tag = v} = {3}
  BY DEF Header
<1> QED BY <1>1, <1>2 DEF FindHeader, Three, SelectInSeq, Header

LEMMA AppendTwo ==
  ASSUME NEW x, NEW y, NEW z
  PROVE  Append(<<x, y>>, z) = <<x, y, z>>
<1> DEFINE S == {x, y, z}
           a == Append(<<x, y>>, z)
<1>1. <<x, y>> \in Seq(S) /\ Len(<<x, y>>) = 2 /\ <<x, y>>[1] = x /\ <<x, y>>[2] = y
  OBVIOUS
<1>2. a \in Seq(S) /\ Len(a) = 3 /\ a[1] = x /\ a[2] = y /\ a[3] = z
  BY <1>1
<1>3. /\ <<x, y, z>> \in Seq(S) /\ Len(<<x, y, z>>) = 3
      /\ <<x, y, z>>[1] = x /\ <<x, y, z>>[2] = y /\ <<x, y, z>>[3] = z
  OBVIOUS
<1> HIDE DEF a, S
<1>4. \A i \in 1 .. 3 : a[i] = <<x, y, z>>[i]
  BY <1>2, <1>3
<1>5. a = <<x, y, z>>
  BY <1>2, <1>3, <1>4
<1> QED BY <1>5 DEF a

LEMMA ThirdRead ==
  ASSUME NEW t, NEW d, NEW u, NEW e, NEW v, NEW b, NEW n
  PROVE  ExtractHeaderFromPayload(Two(t, d, u, e, b), v, n)
           = Three(t, d, u, e, v, ExtractFront(b, n), AfterFront(b, n))
<1>1. Append(<<Header(t, d), Header(u, e)>>, Header(v, ExtractFront(b, n)))
        = <<Header(t, d), Header(u, e), Header(v, ExtractFront(b, n))>>
  BY AppendTwo
<1> QED BY <1>1 DEF ExtractHeaderFromPayload, Two, Three

\* What is behind the header of IP, if the k-th byte of the frame was damaged.
Body(k, r, x, d) ==
  /\ k \in Nat \ {15, 39, 40}
  /\ r \in Seq(Byte) /\ Len(r) >= 8 + Len(d)
  /\ \A i \in 1 .. Len(x) : 34 + i # k => r[i] = x[i]
  /\ \A i \in 1 .. Len(d) : 42 + i # k => r[8 + i] = d[i]

LEMMA HurtNearly ==
  ASSUME NEW k, NEW f, NEW h, NEW x, NEW d, Len(h) = 20, Hurt(k, f, h, x, d)
  PROVE  Nearly(f, h)
<1> DEFINE j == IF k \in 16 .. 34 THEN k - 14 ELSE 2
<1>1. k \in Nat \ {15, 39, 40} /\ ButAtByte(k, f, 14, h)
  BY DEF Hurt
<1>2. j \in 2 .. 20
  BY <1>1
<1>3. ASSUME NEW i \in 1 .. 20, i # j
      PROVE  14 + i # k
  BY <1>1, <1>3
<1>4. AllBut(j, f, 14, h)
  BY <1>1, <1>3 DEF AllBut, ButAtByte
<1> HIDE DEF j
<1> QED BY <1>2, <1>4 DEF Nearly

LEMMA HurtRead ==
  ASSUME NEW k, NEW f, NEW h, NEW x, NEW d, IsIp(h), Len(h) = 20, Len(x) = 8, Len(d) \in Nat,
         Hurt(k, f, h, x, d), IP!IsChecksumCorrect(HeaderOf(f))
  PROVE  \E e \in Seq(Byte), r \in Seq(Byte) :
           Read(f) = Two("EthernetHeader", e, "IPHeader", h, r) /\ Body(k, r, x, d)
<1> DEFINE e == ExtractFront(f, 14)
           rest == AfterFront(f, 14)
           n == IP!EstimateIPHeaderLength(rest)
           r == AfterFront(rest, n)
<1>1. /\ k \in Nat \ {15, 39, 40} /\ f \in Seq(Byte) /\ Len(f) >= 42 + Len(d) /\ Len(f) \in Nat
      /\ ButAtByte(k, f, 14, h) /\ ButAtByte(k, f, 34, x) /\ ButAtByte(k, f, 42, d)
  BY DEF Hurt
<1>2. HeaderOf(f) = h
  <2>1. Nearly(f, h) BY HurtNearly
  <2>2. f \in Seq(Byte) /\ Len(f) >= 14 + Len(h) BY <1>1
  <2> QED BY <2>1, <2>2, HeaderOfNearly
<1>3. Read(f) = Two("EthernetHeader", e, "IPHeader", h, r)
  BY <1>2 DEF Read
<1>4. e \in Seq(Byte) /\ rest \in Seq(Byte) /\ Len(rest) = Len(f) - 14
      /\ \A i \in 1 .. Len(f) - 14 : rest[i] = f[14 + i]
  <2>1. PICK l \in Nat : l = 14 OBVIOUS
  <2>2. l <= Len(f) BY <1>1, <2>1
  <2>3. /\ ExtractFront(f, l) \in Seq(Byte)
        /\ AfterFront(f, l) \in Seq(Byte) /\ Len(AfterFront(f, l)) = Len(f) - l
        /\ \A i \in 1 .. Len(f) - l : AfterFront(f, l)[i] = f[l + i]
    BY <1>1, <2>2, CutIs
  <2> QED BY <2>1, <2>3
<1> HIDE DEF e, rest
<1>5. n = 20
  <2>1. f[14 + 1] = h[1]
    <3>1. 1 \in 1 .. Len(h) /\ 14 + 1 # k BY <1>1
    <3> QED BY <1>1, <3>1 DEF ButAtByte
  <2>2. rest[1] = f[14 + 1]
    <3>1. 1 \in 1 .. Len(f) - 14 BY <1>1
    <3> QED BY <1>4, <3>1
  <2>3. h[1] % 16 = 5
    <3>1. h[1] % 16 = Len(h) \div 4 BY DEF IsIp, Whole
    <3> QED BY <3>1
  <2> QED BY <2>1, <2>2, <2>3 DEF IP!EstimateIPHeaderLength, IP!GetHeaderLength
<1> HIDE DEF n
<1>6. r \in Seq(Byte) /\ Len(r) = Len(f) - 34
      /\ \A i \in 1 .. Len(f) - 34 : r[i] = f[34 + i]
  <2>1. PICK l \in Nat : l = 20 OBVIOUS
  <2>2. l <= Len(rest) BY <1>1, <1>4, <2>1
  <2>3. /\ AfterFront(rest, l) \in Seq(Byte) /\ Len(AfterFront(rest, l)) = Len(rest) - l
        /\ \A i \in 1 .. Len(rest) - l : AfterFront(rest, l)[i] = rest[l + i]
    BY <1>4, <2>2, CutIs
  <2>4. r = AfterFront(rest, l) BY <1>5, <2>1
  <2> HIDE DEF r
  <2>5. Len(rest) - l = Len(f) - 34 BY <1>1, <1>4, <2>1
  <2>6. ASSUME NEW i \in 1 .. Len(f) - 34
        PROVE  r[i] = f[34 + i]
    <3>1. r[i] = rest[l + i] BY <2>3, <2>4, <2>5
    <3>2. 20 + i \in 1 .. Len(f) - 14 /\ 14 + (20 + i) = 34 + i /\ l + i = 20 + i BY <1>1, <2>1
    <3>3. rest[20 + i] = f[14 + (20 + i)] BY <1>4, <3>2
    <3> QED BY <3>1, <3>2, <3>3
  <2> QED BY <2>3, <2>4, <2>5, <2>6
<1> HIDE DEF r
<1>7. Body(k, r, x, d)
  <2>1. Len(r) >= 8 + Len(d) BY <1>1, <1>6
  <2>2. ASSUME NEW i \in 1 .. Len(x), 34 + i # k
        PROVE  r[i] = x[i]
    <3>1. f[34 + i] = x[i] BY <1>1, <2>2 DEF ButAtByte
    <3>2. i \in 1 .. Len(f) - 34 BY <1>1
    <3> QED BY <1>6, <3>1, <3>2
  <2>3. ASSUME NEW i \in 1 .. Len(d), 42 + i # k
        PROVE  r[8 + i] = d[i]
    <3>1. f[42 + i] = d[i] BY <1>1, <2>3 DEF ButAtByte
    <3>2. 8 + i \in 1 .. Len(f) - 34 /\ 34 + (8 + i) = 42 + i BY <1>1
    <3>3. r[8 + i] = f[34 + (8 + i)] BY <1>6, <3>2
    <3> QED BY <3>1, <3>2, <3>3
  <2> QED BY <1>1, <1>6, <2>1, <2>2, <2>3 DEF Body
<1> QED BY <1>3, <1>4, <1>6, <1>7

-----------------------------------------------------------------------------
\* What udp_module cuts off.
LEMMA BodyCut ==
  ASSUME NEW k, NEW r, NEW x, NEW d \in Seq(Byte), Len(x) = 8, Len(d) <= 1472,
         Body(k, r, x, d)
  PROVE  LET y == ExtractFront(r, 8)
             q == AfterFront(r, 8)
         IN  /\ y \in Seq(Byte) /\ Len(y) = 8 /\ q \in Seq(Byte)
             /\ ExtractFront(q, Len(d)) \in Seq(Byte) /\ Len(ExtractFront(q, Len(d))) = Len(d)
             /\ ButByte(k, y, ExtractFront(q, Len(d)), x, d)
             /\ y[5] = x[5] /\ y[6] = x[6]
<1> DEFINE y == ExtractFront(r, 8)
           q == AfterFront(r, 8)
           m == Len(d)
           z == ExtractFront(q, m)
<1>1. /\ k \in Nat \ {15, 39, 40} /\ r \in Seq(Byte) /\ Len(r) >= 8 + m /\ Len(r) \in Nat
      /\ \A i \in 1 .. 8 : 34 + i # k => r[i] = x[i]
      /\ \A i \in 1 .. m : 42 + i # k => r[8 + i] = d[i]
  BY DEF Body
<1>m. m \in Nat
  OBVIOUS
<1>2. /\ y \in Seq(Byte) /\ Len(y) = 8 /\ \A i \in 1 .. 8 : y[i] = r[i]
      /\ q \in Seq(Byte) /\ Len(q) = Len(r) - 8 /\ \A i \in 1 .. Len(r) - 8 : q[i] = r[8 + i]
  <2>1. PICK l \in Nat : l = 8 OBVIOUS
  <2>2. l <= Len(r) BY <1>1, <1>m, <2>1
  <2>3. /\ ExtractFront(r, l) \in Seq(Byte) /\ Len(ExtractFront(r, l)) = l
        /\ \A i \in 1 .. l : ExtractFront(r, l)[i] = r[i]
        /\ AfterFront(r, l) \in Seq(Byte) /\ Len(AfterFront(r, l)) = Len(r) - l
        /\ \A i \in 1 .. Len(r) - l : AfterFront(r, l)[i] = r[l + i]
    <3>1. r \in Seq(Byte) BY <1>1
    <3> QED BY <2>2, <3>1, CutIs, ZenonT(60)
  <2> QED BY <2>1, <2>3
<1> HIDE DEF y, q
<1>3. z \in Seq(Byte) /\ Len(z) = m /\ \A i \in 1 .. m : z[i] = q[i]
  <2> HIDE DEF m
  <2>1. m <= Len(q) BY <1>1, <1>2, <1>m
  <2> QED BY <1>2, <1>m, <2>1, CutIs
<1> HIDE DEF z
<1>4. ASSUME NEW i \in 1 .. 8, 34 + i # k
      PROVE  y[i] = x[i]
  <2>1. r[i] = x[i] BY <1>1, <1>4
  <2>2. y[i] = r[i] BY <1>2
  <2> QED BY <2>1, <2>2
<1>5. ASSUME NEW i \in 1 .. m, 42 + i # k
      PROVE  z[i] = d[i]
  <2>1. i \in 1 .. Len(r) - 8 BY <1>1, <1>m
  <2>2. z[i] = r[8 + i] BY <1>2, <1>3, <2>1
  <2> QED BY <1>1, <1>5, <2>2
<1>6. ButByte(k, y, z, x, d)
  BY <1>4, <1>5 DEF ButByte
<1>7. y[5] = x[5] /\ y[6] = x[6]
  <2>1. 5 \in 1 .. 8 /\ 6 \in 1 .. 8 /\ 34 + 5 # k /\ 34 + 6 # k BY <1>1
  <2> QED BY <1>4, <2>1
<1> QED BY <1>2, <1>3, <1>6, <1>7 DEF y, q, z

-----------------------------------------------------------------------------
(***************************************************************************)
(* What sock_module reads.                                                 *)
(***************************************************************************)
LEMMA Cells ==
  ASSUME NEW S, NEW a \in S, NEW b \in S, NEW c \in S, NEW d \in S, NEW e \in S
  PROVE  /\ <<a, b, c, d, e>> \in Seq(S) /\ Len(<<a, b, c, d, e>>) = 5
         /\ <<a, b, c, d, e>>[1] = a /\ <<a, b, c, d, e>>[2] = b /\ <<a, b, c, d, e>>[3] = c
         /\ <<a, b, c, d, e>>[4] = d /\ <<a, b, c, d, e>>[5] = e
  OBVIOUS

\* The type and the five parts of a connection go ahead of the rest.
Leads(s, t, w, v) ==
  /\ s[1] = t
  /\ \A i \in 1 .. 5 : Tail(s)[i] = w[i]
  /\ SubSeq(Tail(s), 6, Len(Tail(s))) = v

LEMMA LeadsIs ==
  ASSUME NEW S, NEW t \in S, NEW w \in Seq(S), Len(w) = 5, NEW v \in Seq(S)
  PROVE  Leads(Joined(Joined(<<t>>, w), v), t, w, v)
<1> DEFINE u == <<t>> \o w
           s == u \o v
           r == Tail(s)
<1>0. <<t>> \in Seq(S) /\ Len(<<t>>) = 1 /\ <<t>>[1] = t
  OBVIOUS
<1>a. /\ u \in Seq(S) /\ Len(u) = Len(<<t>>) + Len(w)
      /\ \A i \in 1 .. Len(u) : u[i] = IF i <= Len(<<t>>) THEN <<t>>[i] ELSE w[i - Len(<<t>>)]
  BY <1>0, Concat
<1> HIDE DEF u
<1>b. Len(u) = 6 /\ \A i \in 1 .. 6 : u[i] = IF i <= 1 THEN <<t>>[i] ELSE w[i - 1]
  BY <1>0, <1>a
<1>1. u \in Seq(S) /\ Len(u) = 6 /\ u[1] = t /\ \A i \in 1 .. 5 : u[1 + i] = w[i]
  <2>1. ASSUME NEW i \in 1 .. 5
        PROVE  u[1 + i] = w[i]
    <3>1. 1 + i \in 1 .. 6 /\ ~ (1 + i <= 1) /\ (1 + i) - 1 = i OBVIOUS
    <3> QED BY <1>b, <3>1
  <2> QED BY <1>0, <1>a, <1>b, <2>1
<1>c. /\ s \in Seq(S) /\ Len(s) = Len(u) + Len(v)
      /\ \A i \in 1 .. Len(s) : s[i] = IF i <= Len(u) THEN u[i] ELSE v[i - Len(u)]
  BY <1>1, Concat
<1> HIDE DEF s
<1>v. Len(v) \in Nat
  OBVIOUS
<1>2. s \in Seq(S) /\ Len(s) = 6 + Len(v) /\ \A i \in 1 .. 6 : s[i] = u[i]
  <2>1. ASSUME NEW i \in 1 .. 6
        PROVE  s[i] = u[i]
    <3>1. i \in 1 .. Len(s) /\ i <= Len(u) BY <1>1, <1>c, <1>v
    <3> QED BY <1>c, <3>1
  <2> QED BY <1>1, <1>c, <2>1
<1>3. ASSUME NEW i \in 1 .. Len(v)
      PROVE  s[6 + i] = v[i]
  <2>1. 6 + i \in 1 .. Len(s) /\ ~ (6 + i <= Len(u)) /\ (6 + i) - Len(u) = i BY <1>1, <1>c, <1>v
  <2> QED BY <1>c, <2>1
<1>4. r \in Seq(S) /\ Len(r) = 5 + Len(v) /\ \A i \in 1 .. 5 + Len(v) : r[i] = s[i + 1]
  BY <1>2
<1> HIDE DEF r
<1>5. ASSUME NEW i \in 1 .. 5
      PROVE  r[i] = w[i]
  <2>1. i \in 1 .. 5 + Len(v) /\ i + 1 \in 1 .. 6 /\ i + 1 = 1 + i OBVIOUS
  <2>2. r[i] = s[i + 1] BY <1>4, <2>1
  <2>3. s[i + 1] = u[i + 1] BY <1>2, <2>1
  <2>4. u[1 + i] = w[i] BY <1>1
  <2> QED BY <2>1, <2>2, <2>3, <2>4
<1> DEFINE z == SubSeq(r, 6, Len(r))
<1>6. z \in Seq(S) /\ Len(z) = Len(v) /\ \A i \in 1 .. Len(v) : z[i] = r[5 + i]
  BY <1>4
<1> HIDE DEF z
<1>7. ASSUME NEW i \in 1 .. Len(v)
      PROVE  z[i] = v[i]
  <2>1. 5 + i \in 1 .. 5 + Len(v) /\ (5 + i) + 1 = 6 + i OBVIOUS
  <2>2. z[i] = r[5 + i] BY <1>6
  <2>3. r[5 + i] = s[(5 + i) + 1] BY <1>4, <2>1
  <2> QED BY <1>3, <2>1, <2>2, <2>3
<1>8. z = v
  BY <1>6, <1>7, <1>v, SameIn
<1>9. s[1] = t
  BY <1>1, <1>2
<1>10. Leads(s, t, w, v)
  BY <1>5, <1>8, <1>9 DEF Leads, r, z
<1> QED BY <1>10 DEF Joined, s, u

LEMMA RequestBack ==
  ASSUME NEW src, NEW dest, NEW srcport, NEW destport, NEW protocol, NEW data \in Seq(Byte)
  PROVE  LET c == [src |-> src, dest |-> dest, protocol |-> protocol,
                   srcport |-> srcport, destport |-> destport]
         IN  UnserializeRequest(SerializeRequest(Write(c, data))) = Write(c, data)
<1> DEFINE c == [src |-> src, dest |-> dest, protocol |-> protocol,
                 srcport |-> srcport, destport |-> destport]
           w == <<src, dest, srcport, destport, protocol>>
           b == SerializeBuffer(data)
           x == <<Len(data), "EOK">>
           S == Byte \cup Nat \cup {"WRITE", "EOK", src, dest, srcport, destport, protocol}
           v == b \o x
           u == Joined(<<"WRITE">>, w)
           s == Joined(u, v)
<1>1. data \in Seq(S) /\ Len(data) \in S
  <2>1. Byte \subseteq S OBVIOUS
  <2>2. data \in Seq(S)
    <3> HIDE DEF S
    <3> QED BY <2>1
  <2> QED BY <2>2
<1>2. "WRITE" \in S /\ "EOK" \in S
  OBVIOUS
<1>3. src \in S /\ dest \in S /\ srcport \in S /\ destport \in S /\ protocol \in S
  OBVIOUS
<1> HIDE DEF S
<1>4. /\ w \in Seq(S) /\ Len(w) = 5 /\ w[1] = src /\ w[2] = dest /\ w[3] = srcport
      /\ w[4] = destport /\ w[5] = protocol
  BY <1>3, Cells
<1>5. x \in Seq(S) /\ Len(x) = 2 /\ x[1] = Len(data) /\ x[2] = "EOK"
  BY <1>1, <1>2
<1>s. SerializeRequest(Write(c, data)) = (u \o b) \o x
  BY DEF SerializeRequest, SerializeConnection, Write, Joined
<1> HIDE DEF w, x
<1>6. UnserializeBuffer(v) = Got(data, x) /\ b \in Seq(S)
  BY <1>1, <1>5, BufferBackIn
<1> HIDE DEF b
<1>7. u \in Seq(S)
  <2>1. <<"WRITE">> \in Seq(S) BY <1>2
  <2> QED BY <1>4, <2>1 DEF Joined
<1>8. v \in Seq(S)
  BY <1>5, <1>6
<1>9. SerializeRequest(Write(c, data)) = s
  <2> HIDE DEF u
  <2>1. (u \o b) \o x = u \o (b \o x) BY <1>5, <1>6, <1>7, Assoc
  <2> QED BY <1>s, <2>1 DEF Joined
<1> HIDE DEF v
<1>10. /\ s[1] = "WRITE" /\ \A i \in 1 .. 5 : Tail(s)[i] = w[i]
       /\ SubSeq(Tail(s), 6, Len(Tail(s))) = v
  <2>1. Leads(s, "WRITE", w, v) BY <1>2, <1>4, <1>8, LeadsIs
  <2> HIDE DEF s
  <2> QED BY <2>1 DEF Leads
<1> HIDE DEF s
<1> DEFINE r == Tail(s)
<1>11. UnserializeConnection(r) = Got(c, v)
  <2>1. /\ r[1] = src /\ r[2] = dest /\ r[3] = srcport /\ r[4] = destport /\ r[5] = protocol
    <3>1. 1 \in 1 .. 5 /\ 2 \in 1 .. 5 /\ 3 \in 1 .. 5 /\ 4 \in 1 .. 5 /\ 5 \in 1 .. 5 OBVIOUS
    <3>2. \A i \in 1 .. 5 : r[i] = w[i] BY <1>10
    <3> HIDE DEF r
    <3>3. r[1] = w[1] /\ r[2] = w[2] /\ r[3] = w[3] /\ r[4] = w[4] /\ r[5] = w[5] BY <3>1, <3>2
    <3> QED BY <1>4, <3>3
  <2> HIDE DEF r
  <2>2. SubSeq(r, 6, Len(r)) = v BY <1>10 DEF r
  <2> QED BY <2>1, <2>2 DEF UnserializeConnection
<1> HIDE DEF c, r
<1>12. UnserializeRequest(s) = [type |-> "WRITE", connection |-> c, data |-> data,
                                bytes |-> Len(data), error |-> "EOK"]
  <2>1. UnserializeConnection(Tail(s)) = Got(c, v) BY <1>11 DEF r
  <2>2. Got(c, v).rest = v /\ Got(c, v).value = c BY DEF Got
  <2>3. Got(data, x).rest = x /\ Got(data, x).value = data BY DEF Got
  <2> QED BY <1>5, <1>6, <1>10, <2>1, <2>2, <2>3 DEF UnserializeRequest
<1>13. UnserializeRequest(SerializeRequest(Write(c, data))) = Write(c, data)
  BY <1>9, <1>12 DEF Write
<1> QED BY <1>13 DEF c

-----------------------------------------------------------------------------
(***************************************************************************)
(* What udp_module makes of a datagram.                                    *)
(***************************************************************************)
LEMMA UdpWordAt ==
  ASSUME NEW x \in Seq(Byte), Len(x) = 8, NEW o \in {0, 2}
  PROVE  ntohs(GetData(x, 2, o)) = 256 * x[o + 1] + x[o + 2]
<1>1. PICK n \in Nat : n = 2 OBVIOUS
<1>3. o \in Nat /\ o + n <= Len(x) BY <1>1
<1>4. \A i \in 1 .. n : GetData(x, n, o)[i] = x[o + i] BY <1>3, GetDataIs
<1>5. GetData(x, n, o)[1] = x[o + 1] /\ GetData(x, n, o)[2] = x[o + 2]
  <2>1. 1 \in 1 .. n /\ 2 \in 1 .. n BY <1>1
  <2> QED BY <1>4, <2>1
<1>6. ntohs(GetData(x, n, o)) = 256 * GetData(x, n, o)[1] + GetData(x, n, o)[2]
  BY DEF ntohs
<1> QED BY <1>1, <1>5, <1>6

LEMMA PortAt ==
  ASSUME NEW x \in Seq(Byte), Len(x) = 8, NEW o \in {0, 2}, NEW n, IsWord(n), WordIn(x, o, n)
  PROVE  ntohs(GetData(x, 2, o)) = n
<1>1. x[o + 1] = htons(n)[1] /\ x[o + 2] = htons(n)[2]
  BY DEF WordIn, htons
<1>2. 256 * htons(n)[1] + htons(n)[2] = n
  BY NetworkOrder
<1>3. ntohs(GetData(x, 2, o)) = 256 * x[o + 1] + x[o + 2]
  BY UdpWordAt
<1> QED BY <1>1, <1>2, <1>3

LEMMA UdpPorts ==
  ASSUME NEW x, NEW s, NEW d, NEW l, UdpWords(x, s, d, l), IsWord(s), IsWord(d)
  PROVE  UDP!GetSourcePort(x) = s /\ UDP!GetDestPort(x) = d
<1>1. x \in Seq(Byte) /\ Len(x) = 8 /\ WordIn(x, 0, s) /\ WordIn(x, 2, d)
  BY DEF UdpWords
<1>2. ntohs(GetData(x, 2, 0)) = s
  <2>1. PICK o \in {0, 2} : o = 0 OBVIOUS
  <2>2. WordIn(x, o, s) BY <1>1, <2>1
  <2> QED BY <1>1, <2>1, <2>2, PortAt
<1>3. ntohs(GetData(x, 2, 2)) = d
  <2>1. PICK o \in {0, 2} : o = 2 OBVIOUS
  <2>2. WordIn(x, o, d) BY <1>1, <2>1
  <2> QED BY <1>1, <2>1, <2>2, PortAt
<1> QED BY <1>2, <1>3, UdpBuffer DEF UDP!GetSourcePort, UDP!GetDestPort

\* What udp_module reads.
Cut(e, h, r) ==
  Three("EthernetHeader", e, "IPHeader", h, "UDPHeader", ExtractFront(r, 8), AfterFront(r, 8))

LEMMA CutRead ==
  ASSUME NEW e, NEW h, NEW r
  PROVE  /\ ExtractHeaderFromPayload(Two("EthernetHeader", e, "IPHeader", h, r), "UDPHeader",
                                     UDP!UDP_HEADER_LENGTH) = Cut(e, h, r)
         /\ FindHeader(Cut(e, h, r), "IPHeader") = h
         /\ FindHeader(Cut(e, h, r), "UDPHeader") = ExtractFront(r, 8)
         /\ Cut(e, h, r).payload = AfterFront(r, 8)
<1>1. UDP!UDP_HEADER_LENGTH = 8
  BY DEF UDP!UDP_HEADER_LENGTH
<1> DEFINE y == ExtractFront(r, 8)
           q == AfterFront(r, 8)
<1>2. Cut(e, h, r) = Three("EthernetHeader", e, "IPHeader", h, "UDPHeader", y, q)
  BY DEF Cut
<1>3. ExtractHeaderFromPayload(Two("EthernetHeader", e, "IPHeader", h, r), "UDPHeader", 8)
        = Three("EthernetHeader", e, "IPHeader", h, "UDPHeader", y, q)
  BY ThirdRead
<1> HIDE DEF y, q
<1>4. "EthernetHeader" # "IPHeader" /\ "IPHeader" # "UDPHeader" /\ "EthernetHeader" # "UDPHeader"
  OBVIOUS
<1>5. /\ FindHeader(Three("EthernetHeader", e, "IPHeader", h, "UDPHeader", y, q), "IPHeader") = h
      /\ FindHeader(Three("EthernetHeader", e, "IPHeader", h, "UDPHeader", y, q), "UDPHeader") = y
  BY <1>4, FindInThree
<1>6. Three("EthernetHeader", e, "IPHeader", h, "UDPHeader", y, q).payload = q
  BY DEF Three
<1> QED BY <1>1, <1>2, <1>3, <1>5, <1>6 DEF y, q

\* The data that it passes on.
DataOf(e, h, r) ==
  LET y == ExtractFront(r, 8)
  IN  ExtractFront(AfterFront(r, 8), UDP!GetLength(y) - UDP!UDP_HEADER_LENGTH)

LEMMA Verdict ==
  ASSUME NEW h, NEW x, NEW d, NEW o, IsDatagram(h, x, d, o), Meant(o), NEW e,
         NEW k, NEW r, Body(k, r, x, d)
  PROVE  LET y == ExtractFront(r, 8)
             p == Cut(e, h, r)
         IN  /\ k = 0 => UDP!IsCorrectChecksum(y, p)
             /\ UDP!IsCorrectChecksum(y, p) /\ UDP!GetChecksum(y) # 0 =>
                  y = x /\ DataOf(e, h, r) = d
<1> DEFINE y == ExtractFront(r, 8)
           q == AfterFront(r, 8)
           p == Cut(e, h, r)
           m == Len(d)
           z == ExtractFront(q, m)
           ps == Pseudo(h, 8 + m)
<1>1. /\ d \in Seq(Byte) /\ Len(d) <= 1472 /\ x \in Seq(Byte) /\ Len(x) = 8
      /\ WordIn(x, 4, 8 + m) /\ Verifies(Covered(ps, x, d)) /\ Fields(h) = Given(o)
  BY DEF IsDatagram, UdpWords
<1>m. m \in Nat /\ m <= 1472
  BY <1>1
<1>2. /\ y \in Seq(Byte) /\ Len(y) = 8 /\ q \in Seq(Byte) /\ z \in Seq(Byte) /\ Len(z) = m
      /\ ButByte(k, y, z, x, d) /\ y[5] = x[5] /\ y[6] = x[6]
  BY <1>1, BodyCut
<1>3. FindHeader(p, "IPHeader") = h /\ p.payload = q
  BY CutRead
<1>d. DataOf(e, h, r) = ExtractFront(q, UDP!GetLength(y) - 8)
  BY DEF DataOf, UDP!UDP_HEADER_LENGTH
<1> HIDE DEF y, q, p
<1>4. UDP!GetLength(y) = 8 + m
  <2>1. PICK n \in Nat : n = 8 + m BY <1>m
  <2>2. x[4 + 1] = (n \div 256) % 256 /\ x[4 + 2] = n % 256 BY <1>1, <2>1 DEF WordIn
  <2>3. 4 + 1 = 5 /\ 4 + 2 = 6 OBVIOUS
  <2>4. y[5] = (n \div 256) % 256 /\ y[6] = n % 256 BY <1>2, <2>2, <2>3
  <2>5. UDP!GetLength(y) = 256 * y[5] + y[6] BY <1>2, UdpLengthAt
  <2>6. n <= 2000 BY <1>m, <2>1
  <2>7. 256 * ((n \div 256) % 256) + (n % 256) = n BY <2>6, WordRead
  <2> QED BY <2>1, <2>4, <2>5, <2>7
<1>5. (8 + m) - 8 = m /\ 8 + m \in Int
  BY <1>m
<1> HIDE DEF m
<1>6. DataOf(e, h, r) = z
  BY <1>4, <1>5, <1>d
<1>7. UDP!ComputeChecksum(y, p) = Complement(OnesComplementSum(Covered(ps, y, z)))
  <2>1. p.payload \in Seq(Byte) BY <1>2, <1>3
  <2>2. PICK n \in Int : n = 8 + m BY <1>5
  <2>3. UDP!GetLength(y) = n BY <1>4, <2>2
  <2>4. UDP!ComputeChecksum(y, p)
          = Complement(OnesComplementSum(Covered(Pseudo(FindHeader(p, "IPHeader"), n), y,
                                                 ExtractFront(p.payload, n - 8))))
    BY <1>2, <2>1, <2>3, UdpSumIs
  <2>5. n - 8 = m BY <1>5, <2>2
  <2> QED BY <1>3, <2>2, <2>4, <2>5
<1>8. UDP!IsCorrectChecksum(y, p) <=> UDP!GetChecksum(y) = 0 \/ Verifies(Covered(ps, y, z))
  BY <1>7 DEF UDP!IsCorrectChecksum, Verifies
<1>9. ps \in Seq(Byte) /\ Len(ps) = 12
  <2>1. o.src \in Bytes(4) /\ o.dst \in Bytes(4) /\ o.proto = 17 BY DEF Meant
  <2> QED BY <1>1, <1>5, <2>1, PseudoOf
<1>10. Len(z) = Len(d)
  BY <1>2 DEF m
<1>k. k \in Nat
  BY DEF Body
<1> HIDE DEF z, ps
<1>11. ASSUME k = 0
       PROVE  Verifies(Covered(ps, y, z))
  <2>1. y = x
    <3>1. PICK n \in Nat : n = 8 OBVIOUS
    <3>2. \A i \in 1 .. n : 34 + i # k BY <1>11
    <3>3. \A i \in 1 .. n : y[i] = x[i] BY <1>1, <1>2, <3>1, <3>2, ZenonT(60) DEF ButByte
    <3>4. y \in Seq(Byte) /\ x \in Seq(Byte) BY <1>1, <1>2
    <3>5. Len(y) = n /\ Len(x) = n BY <1>1, <1>2, <3>1
    <3> QED BY <3>3, <3>4, <3>5, Same
  <2>2. z = d
    <3>1. \A i \in 1 .. m : 42 + i # k BY <1>11, <1>m
    <3>2. m = Len(d) BY DEF m
    <3>3. \A i \in 1 .. m : z[i] = d[i] BY <1>2, <3>1, <3>2 DEF ButByte
    <3>4. z \in Seq(Byte) /\ d \in Seq(Byte) BY <1>1, <1>2
    <3>5. Len(z) = m /\ Len(d) = m /\ m \in Nat BY <1>2, <1>m, <3>2
    <3> HIDE DEF m
    <3> QED BY <3>3, <3>4, <3>5, Same
  <2> QED BY <1>1, <2>1, <2>2
<1>12. ASSUME Verifies(Covered(ps, y, z))
       PROVE  y = x /\ z = d
  BY <1>1, <1>2, <1>9, <1>10, <1>12, <1>k, CoveredApart
<1>13. k = 0 => UDP!IsCorrectChecksum(y, p)
  BY <1>8, <1>11
<1>14. UDP!IsCorrectChecksum(y, p) /\ UDP!GetChecksum(y) # 0 => y = x /\ DataOf(e, h, r) = d
  BY <1>6, <1>8, <1>12
<1> QED BY <1>13, <1>14 DEF y, p

-----------------------------------------------------------------------------
(***************************************************************************)
(* Datagrams: what one of them is on every stretch of its way.             *)
(***************************************************************************)
LEMMA FourJoined ==
  ASSUME NEW e \in Seq(Byte), NEW h \in Seq(Byte), NEW x \in Seq(Byte), NEW d \in Seq(Byte),
         NEW a \in Nat, NEW b \in Nat, NEW c \in Nat, Len(e) = a, Len(h) = b, Len(x) = c
  PROVE  LET w == Joined(Joined(Joined(e, h), x), d)
         IN  /\ w \in Seq(Byte) /\ Len(w) = a + b + c + Len(d)
             /\ StandsIn(w, a, h) /\ StandsIn(w, a + b, x) /\ StandsIn(w, a + b + c, d)
<1> DEFINE u == Joined(e, h)
           v == Joined(u, x)
           w == Joined(v, d)
<1>1. u \in Seq(Byte) /\ Len(u) = a + b /\ StandsIn(u, a, h)
  BY Behind
<1> HIDE DEF u
<1>2. v \in Seq(Byte) /\ Len(v) = (a + b) + c /\ StandsIn(v, a + b, x)
  <2>1. PICK n \in Nat : n = a + b OBVIOUS
  <2>2. Len(u) = n BY <1>1, <2>1
  <2>3. v \in Seq(Byte) /\ Len(v) = n + Len(x) /\ StandsIn(v, n, x) BY <1>1, <2>2, Behind
  <2> QED BY <2>1, <2>3
<1>3. StandsIn(v, a, h)
  <2>1. a + Len(h) <= Len(u) /\ Len(h) \in Nat BY <1>1
  <2> QED BY <1>1, <2>1, StaysInFront
<1> HIDE DEF v
<1>4. w \in Seq(Byte) /\ Len(w) = ((a + b) + c) + Len(d) /\ StandsIn(w, (a + b) + c, d)
  <2>1. PICK n \in Nat : n = (a + b) + c OBVIOUS
  <2>2. Len(v) = n BY <1>2, <2>1
  <2>3. w \in Seq(Byte) /\ Len(w) = n + Len(d) /\ StandsIn(w, n, d) BY <1>2, <2>2, Behind
  <2> QED BY <2>1, <2>3
<1>5. StandsIn(w, a, h)
  <2>1. a + Len(h) <= Len(v) /\ Len(h) \in Nat BY <1>2
  <2> QED BY <1>2, <1>3, <2>1, StaysInFront
<1>6. StandsIn(w, a + b, x)
  <2>1. (a + b) + Len(x) <= Len(v) /\ Len(x) \in Nat /\ a + b \in Nat BY <1>2
  <2> QED BY <1>2, <2>1, StaysInFront
<1> HIDE DEF w
<1> QED BY <1>4, <1>5, <1>6 DEF w, v, u

\* A frame in which a datagram stands whole.
Bare(f, h, x, d) ==
  /\ f \in Seq(Byte) /\ Len(f) >= 42 + Len(d)
  /\ StandsIn(f, 14, h) /\ StandsIn(f, 34, x) /\ StandsIn(f, 42, d)

LEMMA BareFrame ==
  ASSUME NEW e \in Seq(Byte), NEW h \in Seq(Byte), NEW x \in Seq(Byte), NEW d \in Seq(Byte),
         Len(e) = 14, Len(h) = 20, Len(x) = 8
  PROVE  Bare(Joined(Joined(Joined(e, h), x), d), h, x, d)
<1> DEFINE w == Joined(Joined(Joined(e, h), x), d)
<1>1. PICK a \in Nat : a = 14 OBVIOUS
<1>2. PICK b \in Nat : b = 20 OBVIOUS
<1>3. PICK c \in Nat : c = 8 OBVIOUS
<1>4. Len(e) = a /\ Len(h) = b /\ Len(x) = c
  BY <1>1, <1>2, <1>3
<1>5. /\ w \in Seq(Byte) /\ Len(w) = a + b + c + Len(d)
      /\ StandsIn(w, a, h) /\ StandsIn(w, a + b, x) /\ StandsIn(w, a + b + c, d)
  BY <1>4, FourJoined
<1> HIDE DEF w
<1>6. a = 14 /\ a + b = 34 /\ a + b + c = 42
  BY <1>1, <1>2, <1>3
<1>7. Len(d) \in Nat
  OBVIOUS
<1>8. Len(w) >= 42 + Len(d)
  BY <1>5, <1>6, <1>7
<1> QED BY <1>5, <1>6, <1>8 DEF Bare, w

LEMMA BareLonger ==
  ASSUME NEW f, NEW h, NEW x, NEW d, Bare(f, h, x, d), Len(h) = 20, Len(x) = 8,
         Len(d) \in Nat, NEW more \in Seq(Byte)
  PROVE  Bare(Joined(f, more), h, x, d)
<1> DEFINE w == Joined(f, more)
<1>1. f \in Seq(Byte) /\ Len(f) \in Nat /\ Len(f) >= 42 + Len(d)
  BY DEF Bare
<1>2. StandsIn(f, 14, h) /\ StandsIn(f, 34, x) /\ StandsIn(f, 42, d)
  BY DEF Bare
<1>3. w \in Seq(Byte) /\ Len(w) = Len(f) + Len(more)
  <2>1. PICK n \in Nat : n = Len(f) BY <1>1
  <2> QED BY <1>1, <2>1, Behind
<1>4. StandsIn(w, 14, h)
  <2>1. 14 \in Nat /\ Len(h) \in Nat /\ 14 + Len(h) <= Len(f) BY <1>1
  <2> QED BY <1>1, <1>2, <2>1, StaysInFront
<1>5. StandsIn(w, 34, x)
  <2>1. 34 \in Nat /\ Len(x) \in Nat /\ 34 + Len(x) <= Len(f) BY <1>1
  <2> QED BY <1>1, <1>2, <2>1, StaysInFront
<1>6. StandsIn(w, 42, d)
  <2>1. 42 \in Nat /\ 42 + Len(d) <= Len(f) BY <1>1
  <2> QED BY <1>1, <1>2, <2>1, StaysInFront
<1>7. Len(w) >= 42 + Len(d)
  <2>1. Len(more) \in Nat OBVIOUS
  <2> QED BY <1>1, <1>3, <2>1
<1> HIDE DEF w
<1> QED BY <1>3, <1>4, <1>5, <1>6, <1>7 DEF Bare, w

LEMMA BarePadded ==
  ASSUME NEW f, NEW h, NEW x, NEW d, Bare(f, h, x, d), Len(h) = 20, Len(x) = 8,
         Len(d) \in Nat
  PROVE  Bare(Padded(f), h, x, d)
<1>1. f \in Seq(Byte) /\ Len(f) \in Nat
  BY DEF Bare
<1>2. CASE Len(f) < MinFrame
  <2> DEFINE n == MinFrame - Len(f)
  <2>1. MinFrame \in Int
    BY PathAssumption DEF PathAssumption
  <2>2. n \in Nat
    BY <1>1, <1>2, <2>1
  <2>3. Padded(f) = Joined(f, Zeros(n))
    BY <1>2 DEF Padded, Joined
  <2> HIDE DEF n
  <2>4. Zeros(n) \in Seq(Byte)
    <3>1. 0 \in Byte BY DEF Byte
    <3> QED BY <2>2, <3>1 DEF Zeros
  <2>5. Bare(Joined(f, Zeros(n)), h, x, d)
    BY <2>4, BareLonger
  <2> QED BY <2>3, <2>5
<1>3. CASE ~ (Len(f) < MinFrame)
  BY <1>3 DEF Padded
<1> QED BY <1>2, <1>3

LEMMA BareIsHurt ==
  ASSUME NEW f, NEW h, NEW x, NEW d, Bare(f, h, x, d)
  PROVE  Hurt(0, f, h, x, d)
  BY WholeFrame DEF Bare

\* Before the link, on it, behind it, and as sock_module reads it.
Leaving(p, o, n) ==
  /\ n = 0
  /\ \E h, x : /\ IsDatagram(h, x, o.body.data, o)
               /\ p = Two("IPHeader", h, "UDPHeader", x, o.body.data)

Linked(p, o, n) ==
  \E h, x, d, f, k : /\ IsDatagram(h, x, d, o) /\ p = None(f) /\ Hurt(k, f, h, x, d)
                     /\ n = 0 => k = 0

Rising(p, o, n) ==
  \E h, x, d, k : \E e, r \in Seq(Byte) :
    /\ IsDatagram(h, x, d, o) /\ Body(k, r, x, d)
    /\ p = Two("EthernetHeader", e, "IPHeader", h, r)
    /\ n = 0 => k = 0

Written(o) ==
  Write([src |-> o.dst, srcport |-> o.body.destport, dest |-> o.src,
         destport |-> o.body.srcport, protocol |-> 17], o.body.data)

Arrived(p, o, n, u) ==
  /\ n = 0 => u.ok
  /\ u.ok /\ UDP!GetChecksum(FindHeader(p, "UDPHeader")) # 0 => u.request = Written(o)

OnItsWay(a, p, m, o, n, u) ==
  a # "idle" /\ m = "sender" /\ o.proto = 17 =>
    /\ Meant(o)
    /\ \/ a = "ip_module" /\ Leaving(p, o, n)
       \/ a = "wire" /\ Linked(p, o, n)
       \/ a \in {"ip_mux", "udp_module"} /\ Rising(p, o, n)
       \/ a = "sock" /\ Arrived(p, o, n, u)

DatagramInv == OnItsWay(at, packet, made, origin, noise, upcall)

LEMMA WriteDatagramInv ==
  ASSUME PathInv, WriteDatagram
  PROVE  DatagramInv'
<1>1. PICK src \in Hosts, srcport \in Ports, destport \in Ports, data \in Payloads, g \in Garbage :
        \E dst \in Hosts \ {src} :
          LET o == [src |-> src, dst |-> dst, ttl |-> 64, flags |-> 2, fragoff |-> 0,
                    options |-> <<>>, proto |-> IP!IP_PROTO_UDP,
                    body |-> [srcport |-> srcport, destport |-> destport, data |-> data]]
          IN  Start("ip_module", src, Datagram(IP!IPHeader(g, 1), o), o)
  BY DEF WriteDatagram
<1>2. PICK dst \in Hosts \ {src} :
          LET o == [src |-> src, dst |-> dst, ttl |-> 64, flags |-> 2, fragoff |-> 0,
                    options |-> <<>>, proto |-> IP!IP_PROTO_UDP,
                    body |-> [srcport |-> srcport, destport |-> destport, data |-> data]]
          IN  Start("ip_module", src, Datagram(IP!IPHeader(g, 1), o), o)
  BY <1>1
<1> DEFINE o == [src |-> src, dst |-> dst, ttl |-> 64, flags |-> 2, fragoff |-> 0,
                 options |-> <<>>, proto |-> IP!IP_PROTO_UDP,
                 body |-> [srcport |-> srcport, destport |-> destport, data |-> data]]
           iph0 == IP!IPHeader(g, 1)
<1>3. Start("ip_module", src, Datagram(iph0, o), o)
  BY <1>2
<1>4. Fresh(iph0)
  <2>1. g \in Byte BY PathAssumption DEF PathAssumption
  <2>2. 1 \in Nat OBVIOUS
  <2> QED BY <2>1, <2>2, ConstructorIp
<1> HIDE DEF iph0
<1>5. /\ o.src = src /\ o.dst = dst
      /\ o.ttl = 64 /\ o.flags = 2 /\ o.fragoff = 0 /\ o.options = <<>> /\ o.proto = 17
      /\ o.body.srcport = srcport /\ o.body.destport = destport /\ o.body.data = data
  BY DEF IP!IP_PROTO_UDP
<1> HIDE DEF o
<1>6. src \in Bytes(4) /\ dst \in Bytes(4)
  BY PathAssumption DEF PathAssumption
<1>7. /\ srcport \in Int /\ destport \in Int /\ IsWord(srcport) /\ IsWord(destport)
  <2>1. \A n \in Word16 : n \in Int BY PortsAre
  <2>2. srcport \in Word16 /\ destport \in Word16 BY PathAssumption DEF PathAssumption
  <2>3. \A n \in Word16 : IsWord(n) BY WordsAre
  <2> QED BY <2>1, <2>2, <2>3
<1>8. data \in Seq(Byte) /\ Len(data) <= 1472
  <2>1. data \in Seq(Byte) /\ Len(data) <= ETHERNET_DATA_MAX - 28
    BY PathAssumption DEF PathAssumption
  <2>2. ETHERNET_DATA_MAX - 28 = 1472 BY DEF ETHERNET_DATA_MAX
  <2> QED BY <2>1, <2>2
<1>9. PICK h, x : /\ IsDatagram(h, x, o.body.data, o)
                  /\ Datagram(iph0, o) = Two("IPHeader", h, "UDPHeader", x, o.body.data)
  BY <1>4, <1>5, <1>6, <1>7, <1>8, DatagramBuilt
<1>10. /\ at = "idle" /\ at' = "ip_module" /\ packet' = Unserialize(Serialize(Datagram(iph0, o)))
       /\ origin' = o /\ noise' = noise
  BY <1>3 DEF Start, GoTo
<1>11. packet' = Two("IPHeader", h, "UDPHeader", x, o.body.data)
  <2>1. h \in Seq(Byte) /\ x \in Seq(Byte) /\ o.body.data \in Seq(Byte)
    BY <1>9 DEF IsDatagram, IsIp, Long, UdpWords
  <2>2. "IPHeader" \in Tags /\ "UDPHeader" \in Tags BY DEF Tags
  <2>3. Unserialize(Serialize(Two("IPHeader", h, "UDPHeader", x, o.body.data)))
          = Two("IPHeader", h, "UDPHeader", x, o.body.data)
    BY <2>1, <2>2, BackTwo
  <2> QED BY <1>9, <1>10, <2>3
<1>12. Leaving(packet', o, noise')
  <2>1. noise = 0 BY <1>10 DEF PathInv, Way
  <2> QED BY <1>9, <1>10, <1>11, <2>1 DEF Leaving
<1>13. Meant(o)
  BY <1>5, <1>6, <1>7 DEF Meant
<1>14. OnItsWay(at', packet', made', origin', noise', upcall')
  BY <1>10, <1>12, <1>13 DEF OnItsWay
<1> QED BY <1>14 DEF DatagramInv

LEMMA PeerSendsInv ==
  ASSUME PeerSends
  PROVE  DatagramInv'
<1>1. PICK o \in PeerPackets : origin' = o
  BY DEF PeerSends, Start
<1>2. o.proto # 17
  BY <1>1, PathAssumption DEF PathAssumption, IsPeerPacket, IP!IP_PROTO_UDP
<1>3. OnItsWay(at', packet', made', origin', noise', upcall')
  BY <1>1, <1>2 DEF OnItsWay
<1> QED BY <1>3 DEF DatagramInv

LEMMA EndInv ==
  ASSUME End
  PROVE  DatagramInv'
<1>1. at' = "idle"
  BY DEF End, GoTo
<1>2. OnItsWay(at', packet', made', origin', noise', upcall')
  BY <1>1 DEF OnItsWay
<1> QED BY <1>2 DEF DatagramInv

\* An error is another packet.
LEMMA ErrorInv ==
  ASSUME NEW type, NEW code, NEW p, SendError(type, code, p)
  PROVE  DatagramInv'
<1>1. made' = "error"
  BY DEF SendError
<1>2. OnItsWay(at', packet', made', origin', noise', upcall')
  BY <1>1 DEF OnItsWay
<1> QED BY <1>2 DEF DatagramInv

LEMMA SendInv ==
  ASSUME PathInv, DatagramInv, SendPacket
  PROVE  DatagramInv'
<1> DEFINE dst == IP!GetDestIP(FindHeader(packet, "IPHeader"))
           eh == EthernetHeader(MyEthernetAddr[host], MyEthernetAddr[dst])
           raw == DupeRaw(PushFrontHeader(packet, "EthernetHeader", eh))
<1>1. at = "ip_module"
  BY DEF SendPacket
<1>2. \/ /\ dst \in Hosts
          /\ \E frame \in {raw, Padded(raw)} : Transmit(frame, dst)
          /\ made' = made /\ origin' = origin /\ noise' = noise
       \/ End
  BY DEF SendPacket
<1>3. CASE /\ dst \in Hosts
           /\ \E frame \in {raw, Padded(raw)} : Transmit(frame, dst)
           /\ made' = made /\ origin' = origin /\ noise' = noise
  <2>1. PICK frame \in {raw, Padded(raw)} : Transmit(frame, dst)
    BY <1>3
  <2>2. made' = made /\ origin' = origin /\ noise' = noise
    BY <1>3
  <2>3. at' = "wire" /\ packet' = NewPacket(UnserializeBuffer(SerializeBuffer(frame)).value)
    BY <2>1 DEF Transmit
  <2>4. ASSUME made = "sender", origin.proto = 17
        PROVE  Meant(origin) /\ Linked(packet', origin, noise)
    <3>1. Meant(origin) /\ Leaving(packet, origin, noise)
      BY <1>1, <2>4 DEF DatagramInv, OnItsWay
    <3> DEFINE d == origin.body.data
    <3>2. PICK h, x : /\ IsDatagram(h, x, d, origin)
                      /\ packet = Two("IPHeader", h, "UDPHeader", x, d)
      BY <3>1 DEF Leaving
    <3>3. /\ h \in Seq(Byte) /\ Len(h) = 20 /\ x \in Seq(Byte) /\ Len(x) = 8 /\ d \in Seq(Byte)
      BY <3>2 DEF IsDatagram, IsIp, Long, UdpWords
    <3>4. host \in Hosts
      BY <1>1, <2>4 DEF PathInv, Way
    <3>5. MyEthernetAddr[host] \in Bytes(6) /\ MyEthernetAddr[dst] \in Bytes(6)
      BY <1>3, <3>4, PathAssumption DEF PathAssumption, EthernetAddrLength
    <3>6. eh \in Seq(Byte) /\ Len(eh) = 14
      BY <3>5, EthernetHeaderIs
    <3> HIDE DEF d, eh, dst
    <3>7. raw = Joined(Joined(Joined(eh, h), x), d)
      <4>1. PushFrontHeader(Two("IPHeader", h, "UDPHeader", x, d), "EthernetHeader", eh)
              = [headers |-> <<Header("EthernetHeader", eh), Header("IPHeader", h),
                               Header("UDPHeader", x)>>, payload |-> d]
        BY PushThird
      <4>2. DupeRaw([headers |-> <<Header("EthernetHeader", eh), Header("IPHeader", h),
                                   Header("UDPHeader", x)>>, payload |-> d])
              = Joined(Joined(Joined(eh, h), x), d)
        BY <3>3, <3>6, DupeThree
      <4> QED BY <3>2, <4>1, <4>2
    <3>8. Bare(raw, h, x, d)
      <4>1. Bare(Joined(Joined(Joined(eh, h), x), d), h, x, d)
        BY <3>3, <3>6, BareFrame
      <4> QED BY <3>7, <4>1
    <3> HIDE DEF raw
    <3>9. Bare(frame, h, x, d)
      <4>1. Len(d) \in Nat BY <3>3
      <4>2. Bare(Padded(raw), h, x, d) BY <3>3, <3>8, <4>1, BarePadded
      <4> QED BY <2>1, <3>8, <4>2
    <3>10. Hurt(0, frame, h, x, d)
      BY <3>9, BareIsHurt
    <3>11. packet' = None(frame)
      <4>1. frame \in Seq(Byte) BY <3>9 DEF Bare
      <4> QED BY <2>3, <4>1, WireBack
    <3>12. Linked(None(frame), origin, noise)
      BY <3>2, <3>10 DEF Linked
    <3> QED BY <3>1, <3>11, <3>12
  <2>5. OnItsWay(at', packet', made', origin', noise', upcall')
    BY <2>2, <2>3, <2>4 DEF OnItsWay
  <2> QED BY <2>5 DEF DatagramInv
<1>4. CASE End
  BY <1>4, EndInv
<1> QED BY <1>2, <1>3, <1>4

-----------------------------------------------------------------------------
LEMMA LengthsStand ==
  ASSUME NEW h, NEW x, NEW d, NEW o, IsDatagram(h, x, d, o), o.proto = 17,
         NEW f, Hurt(0, f, h, x, d), NEW i \in Damageable(f)
  PROVE  i \notin {15, 39, 40}
<1> DEFINE rest == AfterFront(f, 14)
<1>1. h \in Seq(Byte) /\ Len(h) = 20 /\ h[1] % 16 = 20 \div 4 /\ Len(d) \in Nat
  BY DEF IsDatagram, IsIp, Long, Whole
<1>2. IP!GetProtocol(h) = 17
  BY AddressesOf DEF IsDatagram
<1>3. f \in Seq(Byte) /\ Len(f) \in Nat /\ Len(f) >= 42 + Len(d) /\ f[15] = h[1] /\ f[24] = h[10]
  <2>1. ButAtByte(0, f, 14, h) /\ f \in Seq(Byte) /\ Len(f) >= 42 + Len(d)
    BY DEF Hurt
  <2>2. ASSUME NEW j \in 1 .. 20
        PROVE  f[14 + j] = h[j]
    <3>1. j \in 1 .. Len(h) /\ 14 + j # 0 BY <1>1
    <3> QED BY <2>1, <3>1 DEF ButAtByte
  <2>3. f[14 + 1] = h[1] /\ f[14 + 10] = h[10]
    BY <2>2
  <2>4. 14 + 1 = 15 /\ 14 + 10 = 24
    OBVIOUS
  <2> QED BY <2>1, <2>3, <2>4
<1>4. rest[1] = h[1] /\ rest[10] = h[10]
  <2>1. PICK n \in Nat : n = 14 OBVIOUS
  <2>2. n <= Len(f) BY <1>1, <1>3, <2>1
  <2>3. \A j \in 1 .. Len(f) - n : AfterFront(f, n)[j] = f[n + j] BY <1>3, <2>2, CutIs
  <2>4. 1 \in 1 .. Len(f) - n /\ 10 \in 1 .. Len(f) - n BY <1>1, <1>3, <2>1
  <2>5. AfterFront(f, n)[1] = f[n + 1] /\ AfterFront(f, n)[10] = f[n + 10] BY <2>3, <2>4
  <2>6. n + 1 = 15 /\ n + 10 = 24 BY <2>1
  <2> QED BY <1>3, <2>1, <2>5, <2>6
<1>5. 4 * IP!GetHeaderLength(rest) = 20
  <2>1. 4 * (20 \div 4) = 20 OBVIOUS
  <2> QED BY <1>1, <1>4, <2>1 DEF IP!GetHeaderLength
<1>6. IP!GetProtocol(rest) = 17
  BY <1>2, <1>4 DEF IP!GetProtocol
<1> HIDE DEF rest
<1>7. ETHERNET_HEADER_LEN = 14 /\ IP!IP_PROTO_UDP = 17
  BY DEF ETHERNET_HEADER_LEN, IP!IP_PROTO_UDP
<1>8. i # 14 + 1 /\ i \notin {14 + 20 + 5, 14 + 20 + 6}
  BY <1>5, <1>6, <1>7 DEF Damageable, rest
<1> QED BY <1>8

LEMMA DamageInv ==
  ASSUME MaxNoise <= 1, PathInv, DatagramInv, Damage
  PROVE  DatagramInv'
<1>1. /\ at = "wire" /\ noise < MaxNoise /\ noise' = noise + 1
      /\ at' = at /\ made' = made /\ origin' = origin
  BY DEF Damage
<1>2. noise = 0 /\ noise' # 0
  <2>1. noise \in Nat /\ MaxNoise \in Nat
    BY PathAssumption DEF PathInv, Way, PathAssumption
  <2> QED BY <1>1, <2>1
<1>3. ASSUME made = "sender", origin.proto = 17
      PROVE  Meant(origin) /\ Linked(packet', origin, noise')
  <2>1. Meant(origin) /\ Linked(packet, origin, noise)
    BY <1>1, <1>3 DEF DatagramInv, OnItsWay
  <2>2. PICK h, x, d, f, k : /\ IsDatagram(h, x, d, origin) /\ packet = None(f)
                             /\ Hurt(k, f, h, x, d) /\ (noise = 0 => k = 0)
    BY <2>1 DEF Linked
  <2>3. Hurt(0, f, h, x, d)
    BY <1>2, <2>2
  <2>4. packet.payload = f
    BY <2>2 DEF None
  <2>5. PICK i \in Damageable(packet.payload) \cap DOMAIN packet.payload, n \in Damages :
               packet' = [packet EXCEPT !.payload[i] = (@ + n) % 256]
    BY DEF Damage
  <2>6. f \in Seq(Byte)
    BY <2>3 DEF Hurt
  <2>7. i \in 1 .. Len(f)
    BY <2>4, <2>5, <2>6
  <2>8. i \notin {15, 39, 40}
    <3>1. i \in Damageable(f) BY <2>4, <2>5
    <3> QED BY <1>3, <2>2, <2>3, <3>1, LengthsStand
  <2> DEFINE y == (f[i] + n) % 256
             g == [f EXCEPT ![i] = y]
  <2>9. y \in Byte
    <3>1. n \in Nat
      BY PathAssumption DEF PathAssumption
    <3>2. f[i] \in Byte
      BY <2>6, <2>7
    <3>3. f[i] + n \in Nat
      BY <3>1, <3>2, ByteIs
    <3> QED BY <3>3, WrapsToByte
  <2>10. packet' = None(g)
    BY <2>2, <2>5 DEF None
  <2> HIDE DEF y
  <2>11. Hurt(i, g, h, x, d)
    <3>1. Len(h) = 20 /\ Len(x) = 8 /\ Len(d) \in Nat
      BY <2>2 DEF IsDatagram, UdpWords
    <3> QED BY <2>3, <2>7, <2>8, <2>9, <3>1, HurtOnce
  <2> HIDE DEF g
  <2>12. Linked(None(g), origin, noise')
    BY <1>2, <2>2, <2>11 DEF Linked
  <2> QED BY <2>1, <2>10, <2>12
<1>4. OnItsWay(at', packet', made', origin', noise', upcall')
  BY <1>1, <1>3 DEF OnItsWay
<1> QED BY <1>4 DEF DatagramInv

LEMMA UpInv ==
  ASSUME PathInv, DatagramInv, FromEthernet
  PROVE  DatagramInv'
<1> DEFINE whole == ExtractHeaderFromPayload(packet, "EthernetHeader", ETHERNET_HEADER_LEN)
           p == ExtractHeaderFromPayload(whole, "IPHeader", IP!EstimateIPHeaderLength(whole.payload))
           iph == FindHeader(p, "IPHeader")
<1>1. at = "wire"
  BY DEF FromEthernet
<1>2. \/ End
      \/ \E type, code : SendError(type, code, p)
      \/ IP!IsChecksumCorrect(iph) /\ Pass("ip_mux", p)
  BY DEF FromEthernet
<1>3. CASE End
  BY <1>3, EndInv
<1>4. CASE \E type, code : SendError(type, code, p)
  BY <1>4, ErrorInv
<1>5. CASE IP!IsChecksumCorrect(iph) /\ Pass("ip_mux", p)
  <2>1. /\ at' = "ip_mux" /\ packet' = Unserialize(Serialize(p))
        /\ made' = made /\ origin' = origin /\ noise' = noise
    BY <1>5 DEF Pass, GoTo
  <2>2. ASSUME made = "sender", origin.proto = 17
        PROVE  Meant(origin) /\ Rising(packet', origin, noise)
    <3>1. Meant(origin) /\ Linked(packet, origin, noise)
      BY <1>1, <2>2 DEF DatagramInv, OnItsWay
    <3>2. PICK h, x, d, f, k : /\ IsDatagram(h, x, d, origin) /\ packet = None(f)
                               /\ Hurt(k, f, h, x, d) /\ (noise = 0 => k = 0)
      BY <3>1 DEF Linked
    <3>3. IsIp(h) /\ Len(h) = 20 /\ Len(x) = 8 /\ Len(d) \in Nat
      BY <3>2 DEF IsDatagram, UdpWords
    <3>4. f \in Seq(Byte) /\ Len(f) >= 34
      <4>1. f \in Seq(Byte) /\ Len(f) >= 42 + Len(d) BY <3>2 DEF Hurt
      <4>2. Len(f) \in Nat BY <4>1
      <4> QED BY <3>3, <4>1, <4>2
    <3>5. p = Read(f)
      BY <3>2, ReadIs
    <3> HIDE DEF p
    <3>6. packet' = Read(f) /\ iph = HeaderOf(f)
      BY <2>1, <3>4, <3>5, ReadBack
    <3>7. IP!IsChecksumCorrect(HeaderOf(f))
      BY <1>5, <3>6
    <3>8. PICK e \in Seq(Byte), r \in Seq(Byte) :
            Read(f) = Two("EthernetHeader", e, "IPHeader", h, r) /\ Body(k, r, x, d)
      BY <3>2, <3>3, <3>7, HurtRead
    <3>9. Rising(Read(f), origin, noise)
      BY <3>2, <3>8 DEF Rising
    <3> QED BY <3>1, <3>6, <3>9
  <2>3. OnItsWay(at', packet', made', origin', noise', upcall')
    BY <2>1, <2>2 DEF OnItsWay
  <2> QED BY <2>3 DEF DatagramInv
<1> QED BY <1>2, <1>3, <1>4, <1>5

LEMMA RisingBack ==
  ASSUME NEW p, NEW o, NEW n, Rising(p, o, n)
  PROVE  Unserialize(Serialize(p)) = p
<1>1. PICK h, x, d, k : \E e, r \in Seq(Byte) :
        /\ IsDatagram(h, x, d, o) /\ Body(k, r, x, d)
        /\ p = Two("EthernetHeader", e, "IPHeader", h, r)
        /\ n = 0 => k = 0
  BY DEF Rising
<1>2. PICK e \in Seq(Byte), r \in Seq(Byte) : p = Two("EthernetHeader", e, "IPHeader", h, r)
  BY <1>1
<1>3. h \in Seq(Byte)
  BY <1>1 DEF IsDatagram, IsIp, Long
<1>4. "EthernetHeader" \in Tags /\ "IPHeader" \in Tags
  BY DEF Tags
<1>5. Unserialize(Serialize(Two("EthernetHeader", e, "IPHeader", h, r)))
        = Two("EthernetHeader", e, "IPHeader", h, r)
  BY <1>3, <1>4, BackTwo
<1> QED BY <1>2, <1>5

\* The protocol is that of a datagram.
LEMMA RisingProtocol ==
  ASSUME NEW p, NEW o, NEW n, Rising(p, o, n), o.proto = 17
  PROVE  IP!GetProtocol(FindHeader(p, "IPHeader")) = 17
<1>1. PICK h, x, d, k : \E e, r \in Seq(Byte) :
        /\ IsDatagram(h, x, d, o) /\ Body(k, r, x, d)
        /\ p = Two("EthernetHeader", e, "IPHeader", h, r)
        /\ n = 0 => k = 0
  BY DEF Rising
<1>2. PICK e \in Seq(Byte), r \in Seq(Byte) : p = Two("EthernetHeader", e, "IPHeader", h, r)
  BY <1>1
<1>3. FindHeader(Two("EthernetHeader", e, "IPHeader", h, r), "IPHeader") = h
  BY FindInTwo
<1>4. IP!GetProtocol(h) = 17
  BY <1>1, AddressesOf DEF IsDatagram
<1> QED BY <1>2, <1>3, <1>4

LEMMA MuxInv ==
  ASSUME DatagramInv, FromIp
  PROVE  DatagramInv'
<1> DEFINE proto == IP!GetProtocol(FindHeader(packet, "IPHeader"))
<1>1. at = "ip_mux"
  BY DEF FromIp
<1>2. \/ proto = 17 /\ Pass("udp_module", packet)
      \/ proto # 17 /\ \E module : Pass(module, packet)
      \/ \E type, code : SendError(type, code, packet)
  BY DEF FromIp, IP!IP_PROTO_UDP, IP!IP_PROTO_TCP, IP!IP_PROTO_ICMP
<1>3. ASSUME made = "sender", origin.proto = 17
      PROVE  Meant(origin) /\ Rising(packet, origin, noise)
  BY <1>1, <1>3 DEF DatagramInv, OnItsWay
<1>4. made = "sender" /\ origin.proto = 17 => proto = 17
  BY <1>3, RisingProtocol
<1> HIDE DEF proto
<1>5. CASE proto = 17 /\ Pass("udp_module", packet)
  <2>1. /\ at' = "udp_module" /\ packet' = Unserialize(Serialize(packet))
        /\ made' = made /\ origin' = origin /\ noise' = noise
    BY <1>5 DEF Pass, GoTo
  <2>2. made = "sender" /\ origin.proto = 17 => packet' = packet
    BY <1>3, <2>1, RisingBack
  <2>3. OnItsWay(at', packet', made', origin', noise', upcall')
    BY <1>3, <2>1, <2>2 DEF OnItsWay
  <2> QED BY <2>3 DEF DatagramInv
<1>6. CASE proto # 17 /\ \E module : Pass(module, packet)
  <2>1. made' = made /\ origin' = origin
    BY <1>6 DEF Pass
  <2>2. OnItsWay(at', packet', made', origin', noise', upcall')
    BY <1>4, <1>6, <2>1 DEF OnItsWay
  <2> QED BY <2>2 DEF DatagramInv
<1>7. CASE \E type, code : SendError(type, code, packet)
  BY <1>7, ErrorInv
<1> QED BY <1>2, <1>5, <1>6, <1>7

-----------------------------------------------------------------------------
\* The record in which a connection goes to sock_module.
LEMMA ConnectionIs ==
  ASSUME NEW h, NEW x, NEW d, NEW o, IsDatagram(h, x, d, o), Meant(o), NEW p,
         FindHeader(p, "IPHeader") = h
  PROVE  Write(Connection(p, UDP!GetDestPort(x), UDP!GetSourcePort(x)), d) = Written(o)
<1>1. IP!GetSourceIP(h) = o.src /\ IP!GetDestIP(h) = o.dst /\ IP!GetProtocol(h) = 17
  BY AddressesOf DEF IsDatagram, Meant
<1>2. UDP!GetSourcePort(x) = o.body.srcport /\ UDP!GetDestPort(x) = o.body.destport
  <2>1. UdpWords(x, o.body.srcport, o.body.destport, 8 + Len(d))
    BY DEF IsDatagram
  <2> QED BY <2>1, UdpPorts DEF Meant
<1>3. d = o.body.data
  BY DEF IsDatagram
<1>4. Connection(p, UDP!GetDestPort(x), UDP!GetSourcePort(x))
        = [src |-> o.dst, srcport |-> o.body.destport, dest |-> o.src,
           destport |-> o.body.srcport, protocol |-> 17]
  BY <1>1, <1>2 DEF Connection
<1> QED BY <1>3, <1>4 DEF Written

\* What sock_module reads of a request is what was written into the FIFO.
LEMMA WrittenBack ==
  ASSUME NEW o, o.body.data \in Seq(Byte)
  PROVE  UnserializeRequest(SerializeRequest(Written(o))) = Written(o)
  BY RequestBack DEF Written

LEMMA HandleInv ==
  ASSUME DatagramInv, HandleDatagram
  PROVE  DatagramInv'
<1> DEFINE p == ExtractHeaderFromPayload(packet, "UDPHeader", UDP!UDP_HEADER_LENGTH)
           udph == FindHeader(p, "UDPHeader")
           c == Connection(p, UDP!GetDestPort(udph), UDP!GetSourcePort(udph))
           data == ExtractFront(p.payload, UDP!GetLength(udph) - UDP!UDP_HEADER_LENGTH)
           ok == UDP!IsCorrectChecksum(udph, p)
<1>1. at = "udp_module"
  BY DEF HandleDatagram
<1>2. \/ Upcall(p, ok, Write(c, data))
      \/ \E type, code : SendError(type, code, p)
  BY DEF HandleDatagram
<1>3. CASE Upcall(p, ok, Write(c, data))
  <2>1. /\ at' = "sock" /\ packet' = p /\ made' = made /\ origin' = origin /\ noise' = noise
        /\ upcall'.ok = ok
        /\ upcall'.request = UnserializeRequest(SerializeRequest(Write(c, data)))
    BY <1>3 DEF Upcall
  <2>2. ASSUME made = "sender", origin.proto = 17
        PROVE  Meant(origin) /\ Arrived(packet', origin, noise, upcall')
    <3>1. Meant(origin) /\ Rising(packet, origin, noise)
      BY <1>1, <2>2 DEF DatagramInv, OnItsWay
    <3>2. PICK h, x, d, k : \E e, r \in Seq(Byte) :
            /\ IsDatagram(h, x, d, origin) /\ Body(k, r, x, d)
            /\ packet = Two("EthernetHeader", e, "IPHeader", h, r)
            /\ noise = 0 => k = 0
      BY <3>1 DEF Rising
    <3>3. PICK e \in Seq(Byte), r \in Seq(Byte) :
            /\ IsDatagram(h, x, d, origin) /\ Body(k, r, x, d)
            /\ packet = Two("EthernetHeader", e, "IPHeader", h, r)
            /\ noise = 0 => k = 0
      BY <3>2
    <3> DEFINE y == ExtractFront(r, 8)
    <3>4. /\ p = Cut(e, h, r) /\ FindHeader(p, "IPHeader") = h /\ udph = y
          /\ p.payload = AfterFront(r, 8)
      BY <3>3, CutRead
    <3>5. data = DataOf(e, h, r)
      BY <3>4 DEF DataOf
    <3>6. /\ k = 0 => UDP!IsCorrectChecksum(y, Cut(e, h, r))
          /\ UDP!IsCorrectChecksum(y, Cut(e, h, r)) /\ UDP!GetChecksum(y) # 0 =>
               y = x /\ DataOf(e, h, r) = d
      BY <3>1, <3>3, Verdict
    <3>7. ok <=> UDP!IsCorrectChecksum(y, Cut(e, h, r))
      BY <3>4
    <3> HIDE DEF y, p, udph, data, ok
    <3>8. noise = 0 => ok
      BY <3>3, <3>6, <3>7
    <3>9. ASSUME ok, UDP!GetChecksum(udph) # 0
          PROVE  UnserializeRequest(SerializeRequest(Write(c, data))) = Written(origin)
      <4>1. udph = x /\ data = d
        BY <3>4, <3>5, <3>6, <3>7, <3>9
      <4>2. Write(Connection(p, UDP!GetDestPort(x), UDP!GetSourcePort(x)), d) = Written(origin)
        BY <3>1, <3>3, <3>4, ConnectionIs
      <4>3. Write(c, data) = Written(origin)
        BY <4>1, <4>2
      <4>4. origin.body.data \in Seq(Byte)
        BY <3>3 DEF IsDatagram
      <4> QED BY <4>3, <4>4, WrittenBack
    <3>10. FindHeader(packet', "UDPHeader") = udph
      BY <2>1 DEF udph
    <3>11. Arrived(packet', origin, noise, upcall')
      BY <2>1, <3>8, <3>9, <3>10 DEF Arrived
    <3> QED BY <3>1, <3>11
  <2>3. OnItsWay(at', packet', made', origin', noise', upcall')
    BY <2>1, <2>2 DEF OnItsWay
  <2> QED BY <2>3 DEF DatagramInv
<1>4. CASE \E type, code : SendError(type, code, p)
  BY <1>4, ErrorInv
<1> QED BY <1>2, <1>3, <1>4

\* No datagram comes to the other two modules.
LEMMA OthersInv ==
  ASSUME DatagramInv, PrintSegment \/ HandleMessage
  PROVE  DatagramInv'
<1>1. at \in {"tcp_module", "icmp_module"}
  BY DEF PrintSegment, HandleMessage
<1>2. ~ (made = "sender" /\ origin.proto = 17)
  BY <1>1 DEF DatagramInv, OnItsWay
<1>3. \/ made' = "reply"
      \/ made' = made /\ origin' = origin
  BY DEF PrintSegment, HandleMessage, Upcall
<1>4. OnItsWay(at', packet', made', origin', noise', upcall')
  BY <1>2, <1>3 DEF OnItsWay
<1> QED BY <1>4 DEF DatagramInv

LEMMA DatagramNext ==
  ASSUME MaxNoise <= 1, PathInv, DatagramInv, [Next]_vars
  PROVE  DatagramInv'
<1>1. CASE WriteDatagram
  BY <1>1, WriteDatagramInv
<1>2. CASE PeerSends
  BY <1>2, PeerSendsInv
<1>3. CASE Damage
  BY <1>3, DamageInv
<1>4. CASE SendPacket
  BY <1>4, SendInv
<1>5. CASE FromEthernet
  BY <1>5, UpInv
<1>6. CASE FromIp
  BY <1>6, MuxInv
<1>7. CASE HandleDatagram
  BY <1>7, HandleInv
<1>8. CASE PrintSegment \/ HandleMessage
  BY <1>8, OthersInv
<1>9. CASE ProcessICMPMessage \/ ProcessUDPMessage \/ Printed
  <2>1. End
    BY <1>9 DEF ProcessICMPMessage, ProcessUDPMessage, Printed
  <2> QED BY <2>1, EndInv
<1>10. CASE UNCHANGED vars
  BY <1>10 DEF vars, DatagramInv
<1> QED BY <1>1, <1>2, <1>3, <1>4, <1>5, <1>6, <1>7, <1>8, <1>9, <1>10 DEF Next, Travel

\* udp_module.cc:66-93, udp.cc:80-143: as long as the link damages no more than
\* a byte of it, a datagram that was not damaged arrives with a correct
\* checksum, and one whose checksum is correct, and there at all, arrives as it
\* was written, whichever byte the damage hit but those that tell a length:
\* for all hosts, addresses, ports and data, with and without padding.
THEOREM DatagramsArriveAsWritten ==
  ASSUME MaxNoise <= 1
  PROVE  Spec => []DatagramArrives
<1>1. Init => DatagramInv
  <2> SUFFICES ASSUME Init PROVE DatagramInv
    OBVIOUS
  <2>1. at = "idle" BY DEF Init
  <2> QED BY <2>1 DEF DatagramInv, OnItsWay
<1>2. PathInv /\ DatagramInv /\ [Next]_vars => DatagramInv'
  BY DatagramNext
<1>3. DatagramInv => DatagramArrives
  <2> SUFFICES ASSUME DatagramInv, at = "sock", made = "sender", origin.proto = 17
               PROVE  /\ noise = 0 => upcall.ok
                      /\ upcall.ok /\ UDP!GetChecksum(FindHeader(packet, "UDPHeader")) # 0 =>
                           upcall.request = Written(origin)
    BY DEF DatagramArrives, Written, IP!IP_PROTO_UDP
  <2>1. Arrived(packet, origin, noise, upcall)
    BY DEF DatagramInv, OnItsWay
  <2> QED BY <2>1 DEF Arrived
<1> QED BY <1>1, <1>2, <1>3, PathHolds, PTL DEF Spec
=============================================================================
