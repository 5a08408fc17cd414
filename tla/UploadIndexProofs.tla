------------------------- MODULE UploadIndexProofs -------------------------
(***************************************************************************)
(* One upload, for every size of file, chunk, word and int, every file and *)
(* every failure of its reads and writes.                                  *)
(*                                                                         *)
(* The copy grows chunk by chunk.  As long as no write failed, what the    *)
(* index says of the chunks before the one in work is so, whatever was     *)
(* read; as long as nothing failed, what was copied is a first part of the *)
(* file.  That no hash is zero comes from the lanes alone, which differ in *)
(* the sixth bit at most, whatever data they are run over.                 *)
(***************************************************************************)
EXTENDS UploadIndex, SequenceTheorems, NaturalsInduction, WellFoundedInduction, TLAPS

-----------------------------------------------------------------------------
(* Sizes. *)

\* Division of a size by a size of a chunk.
LEMMA Division ==
    ASSUME NEW n \in Nat, NEW b \in Nat \ {0}
    PROVE  /\ n \div b \in Nat /\ n % b \in 0 .. b - 1
           /\ n = b * (n \div b) + (n % b)
<1>1. n \div b \in Nat
    OBVIOUS
<1>2. n % b \in 0 .. b - 1
    OBVIOUS
<1>3. n = b * (n \div b) + (n % b)
    OBVIOUS
<1>4. QED
    BY <1>1, <1>2, <1>3

\* The rest of a number that is less than the divisor, or b less than that.
LEMMA RestOfSmall ==
    ASSUME NEW b \in Nat \ {0}, NEW r \in 0 .. b - 1
    PROVE  r % b = r /\ (r - b) % b = r
<1>1. r % b = r
    OBVIOUS
<1>2. (r - b) % b = r
    OBVIOUS
<1>3. QED
    BY <1>1, <1>2

\* A size that is an int is itself, and one that is not is cut to less.
LEMMA IntOfSize ==
    ASSUME NEW n \in Nat
    PROVE  /\ ToInt(n) \in Ints
           /\ ToInt(n) <= n
           /\ n \in Ints => ToInt(n) = n
<1> DEFINE m == NumInts
           h == MaxInt + 1
           r == n % m
           s == IF r < h THEN r ELSE r - m
<1>1. /\ m \in Nat \ {0} /\ h \in Nat \ {0} /\ m = 2 * h
      /\ \A x : x \in Ints <=> x \in Int /\ -h <= x /\ x < h
    BY UploadAssumption DEF NumInts, Ints
<1> HIDE DEF m, h
<1>2. r \in 0 .. m - 1 /\ r <= n /\ (n < m => r = n)
    <2>1. r \in 0 .. m - 1 /\ n = m * (n \div m) + r /\ n \div m \in Nat
        BY <1>1, Division
    <2>2. r <= n
        BY <1>1, <2>1
    <2>3. n < m => r = n
        BY <1>1, RestOfSmall
    <2>4. QED
        BY <2>1, <2>2, <2>3
<1> HIDE DEF r
<1>3. s \in Ints /\ s % m = r
    <2>1. CASE r < h
        BY <1>1, <1>2, <2>1, RestOfSmall
    <2>2. CASE ~(r < h)
        BY <1>1, <1>2, <2>2, RestOfSmall
    <2>3. QED
        BY <2>1, <2>2
<1>4. ToInt(n) \in Ints /\ ToInt(n) % m = r
    <2>1. \E x \in Ints : x % m = r
        BY <1>3
    <2>2. ToInt(n) = CHOOSE x \in Ints : x % m = r
        BY DEF ToInt, m, r
    <2>3. QED
        BY <2>1, <2>2
<1> DEFINE t == ToInt(n)
<1>5. t \in Int /\ -h <= t /\ t < h
    BY <1>1, <1>4
<1> HIDE DEF t
<1>6. t % m = r
    BY <1>4 DEF t
<1>7. CASE t >= 0
    <2>1. t \in 0 .. m - 1
        BY <1>1, <1>5, <1>7
    <2>2. t = r
        BY <1>1, <1>6, <2>1, RestOfSmall
    <2>3. n \in Ints => r = n
        BY <1>1, <1>2
    <2>4. QED
        BY <1>2, <1>4, <2>2, <2>3 DEF t
<1>8. CASE t < 0
    <2>1. t + m \in 0 .. m - 1 /\ (t + m) - m = t
        BY <1>1, <1>5, <1>8
    <2>2. t + m = r
        BY <1>1, <1>6, <2>1, RestOfSmall
    <2>3. r >= h
        BY <1>1, <1>5, <2>2
    <2>4. n \notin Ints
        BY <1>1, <1>2, <2>3
    <2>5. QED
        BY <1>4, <1>5, <1>8, <2>4 DEF t
<1>9. QED
    BY <1>5, <1>7, <1>8

\* The number of chunks, by the sign of the size.
LEMMA CountFacts ==
    ASSUME NEW s \in Int
    PROVE  /\ NumChunks(s) \in Int
           /\ s > 0 <=> NumChunks(s) > 0
<1>1. ChunkSize \in Nat \ {0}
    BY UploadAssumption
<1>2. CASE s >= 0
    <2>1. /\ s \div ChunkSize \in Nat /\ s % ChunkSize \in 0 .. ChunkSize - 1
          /\ s = ChunkSize * (s \div ChunkSize) + (s % ChunkSize)
        <3>1. s \in Nat
            BY <1>2
        <3>2. QED
            BY <1>1, <3>1, Division, Zenon
    <2> DEFINE q == s \div ChunkSize
    <2>2. Quotient(s) = q /\ Remainder(s) = s - ChunkSize * q
        BY <1>2 DEF Quotient, Remainder
    <2>3. NumChunks(s) = q + (IF s - ChunkSize * q > 0 THEN 1 ELSE 0)
        BY <2>2 DEF NumChunks
    <2>4. q = 0 => ChunkSize * q = 0
        BY <1>1
    <2>5. q > 0 => ChunkSize * q > 0
        BY <1>1, <2>1
    <2> HIDE DEF q
    <2>6. q \in Nat /\ ChunkSize * q \in Nat /\ ChunkSize * q <= s
        BY <1>1, <2>1 DEF q
    <2>7. QED
        BY <2>3, <2>4, <2>5, <2>6, <1>2
<1>3. CASE s < 0
    <2>1. /\ (-s) \div ChunkSize \in Nat /\ (-s) % ChunkSize \in 0 .. ChunkSize - 1
          /\ -s = ChunkSize * ((-s) \div ChunkSize) + ((-s) % ChunkSize)
        <3>1. -s \in Nat
            BY <1>3
        <3>2. QED
            BY <1>1, <3>1, Division, Zenon
    <2> DEFINE q == (-s) \div ChunkSize
    <2>2. Quotient(s) = -q /\ Remainder(s) = s - ChunkSize * (-q)
        BY <1>3 DEF Quotient, Remainder
    <2>3. NumChunks(s) = -q + (IF s - ChunkSize * (-q) > 0 THEN 1 ELSE 0)
        BY <2>2 DEF NumChunks
    <2>4. ChunkSize * (-q) = -(ChunkSize * q) /\ ChunkSize * q \in Nat /\ ChunkSize * q <= -s
        BY <1>1, <2>1
    <2> HIDE DEF q
    <2>5. q \in Nat
        BY <2>1 DEF q
    <2>6. QED
        BY <2>3, <2>4, <2>5, <1>3
<1>4. QED
    BY <1>2, <1>3

\* The chunks of a size, one behind the other, end where it ends.
LEMMA ChunkFacts ==
    ASSUME NEW s \in Int, NEW k \in Nat, k < NumChunks(s)
    PROVE  /\ SizeOfChunk(s, k) \in 1 .. ChunkSize
           /\ ChunkSize * k \in Nat /\ ChunkSize * (k + 1) = ChunkSize * k + ChunkSize
           /\ ChunkSize * k + SizeOfChunk(s, k) <= s
           /\ k + 1 < NumChunks(s) => SizeOfChunk(s, k) = ChunkSize
           /\ k + 1 = NumChunks(s) => ChunkSize * k + SizeOfChunk(s, k) = s
<1> DEFINE q == s \div ChunkSize
           r == s % ChunkSize
<1>1. ChunkSize \in Nat \ {0} /\ s > 0
    BY UploadAssumption, CountFacts
<1>2. q \in Nat /\ r \in 0 .. ChunkSize - 1 /\ s = ChunkSize * q + r
    <2>1. s \in Nat
        BY <1>1
    <2>2. QED
        BY <1>1, <2>1, Division, Zenon
<1>3. Quotient(s) = q /\ Remainder(s) = r
    BY <1>1, <1>2 DEF Quotient, Remainder
<1>4. /\ NumChunks(s) = q + (IF r > 0 THEN 1 ELSE 0)
      /\ SizeOfChunk(s, k) = IF k < q THEN ChunkSize ELSE r
    BY <1>3 DEF NumChunks, SizeOfChunk
<1> HIDE DEF q, r
<1>5. ChunkSize * k \in Nat /\ ChunkSize * (k + 1) = ChunkSize * k + ChunkSize
    BY <1>1
<1>6. k < q => ChunkSize * (k + 1) <= ChunkSize * q
    BY <1>1, <1>2
<1>7. k = q => ChunkSize * k = ChunkSize * q
    OBVIOUS
<1>8. k + 1 = q => ChunkSize * (k + 1) = ChunkSize * q
    OBVIOUS
<1> DEFINE ck == ChunkSize * k
           cq == ChunkSize * q
           cn == ChunkSize * (k + 1)
<1>9. ck \in Nat /\ cn = ck + ChunkSize /\ s = cq + r
    BY <1>2, <1>5
<1>10. (k < q => cn <= cq) /\ (k = q => ck = cq) /\ (k + 1 = q => cn = cq) /\ cq \in Nat
    BY <1>1, <1>2, <1>6, <1>7, <1>8
<1> HIDE DEF ck, cq, cn
<1>11. /\ SizeOfChunk(s, k) \in 1 .. ChunkSize
       /\ ck + SizeOfChunk(s, k) <= s
       /\ k + 1 < NumChunks(s) => SizeOfChunk(s, k) = ChunkSize
       /\ k + 1 = NumChunks(s) => ck + SizeOfChunk(s, k) = s
    BY <1>1, <1>2, <1>4, <1>9, <1>10
<1>12. QED
    BY <1>5, <1>11 DEF ck

-----------------------------------------------------------------------------
(* The hash. *)

\* Half bytes, and what the two lower bits of their exclusive or depend on.
LEMMA HalfXorFacts ==
    ASSUME NEW x \in 0 .. 15, NEW y \in 0 .. 15
    PROVE  /\ HalfXor[x][y] \in 0 .. 15
           /\ HalfXor[x][y] % 4 = (x + y - (IF x % 2 = 1 /\ y % 2 = 1 THEN 2 ELSE 0)) % 4
           /\ x = y => HalfXor[x][y] = 0
<1> DEFINE Bit(v) == v * ((x \div v + y \div v) % 2)
<1>1. HalfXor[x][y] = Bit(1) + Bit(2) + Bit(4) + Bit(8)
    BY DEF HalfXor
<1>2. Bit(1) \in {0, 1} /\ Bit(2) \in {0, 2} /\ Bit(4) \in {0, 4} /\ Bit(8) \in {0, 8}
    OBVIOUS
<1>3. x = y => Bit(1) = 0 /\ Bit(2) = 0 /\ Bit(4) = 0 /\ Bit(8) = 0
    OBVIOUS
<1>4. QED
    BY <1>1, <1>2, <1>3

\* Numbers with the same two lower bits, and with the same six.
LEMMA SameRest ==
    ASSUME NEW a \in Int, NEW b \in Int
    PROVE  /\ a % 4 = b % 4 <=> \E k \in Int : a = b + 4 * k
           /\ a % 64 = b % 64 <=> \E k \in Int : a = b + 64 * k
<1>1. a % 4 = b % 4 => \E k \in Int : a = b + 4 * k
    <2>1. a = 4 * (a \div 4) + (a % 4) /\ b = 4 * (b \div 4) + (b % 4)
        OBVIOUS
    <2>2. a % 4 = b % 4 => a = b + 4 * (a \div 4 - b \div 4)
        BY <2>1
    <2>3. a \div 4 - b \div 4 \in Int
        OBVIOUS
    <2>4. QED
        BY <2>2, <2>3
<1>2. (\E k \in Int : a = b + 4 * k) => a % 4 = b % 4
    OBVIOUS
<1>3. a % 64 = b % 64 => \E k \in Int : a = b + 64 * k
    <2>1. a = 64 * (a \div 64) + (a % 64) /\ b = 64 * (b \div 64) + (b % 64)
        OBVIOUS
    <2>2. a % 64 = b % 64 => a = b + 64 * (a \div 64 - b \div 64)
        BY <2>1
    <2>3. a \div 64 - b \div 64 \in Int
        OBVIOUS
    <2>4. QED
        BY <2>2, <2>3
<1>4. (\E k \in Int : a = b + 64 * k) => a % 64 = b % 64
    OBVIOUS
<1>5. QED
    BY <1>1, <1>2, <1>3, <1>4

\* Bytes with the same six lower bits (e = 0), or that differ in the sixth of them
\* (e = 2), and the upper halves of such bytes.
Differences == {0, 2}
Alike(x, z, e) == x % 64 = (z + 16 * e) % 64
HalfAlike(x, z, e) == \E k \in Int : x = z + e + 4 * k

\* The halves of a byte, and of one that differs in the sixth bit.
LEMMA Halves ==
    ASSUME NEW x \in Bytes, NEW z \in Bytes, NEW e \in Differences, Alike(x, z, e)
    PROVE  /\ x \div 16 \in 0 .. 15 /\ x % 16 \in 0 .. 15
           /\ x % 16 = z % 16
           /\ HalfAlike(x \div 16, z \div 16, e)
<1> DEFINE xh == x \div 16
           xl == x % 16
           zh == z \div 16
           zl == z % 16
<1>1. x \in Int /\ z \in Int /\ x >= 0 /\ x <= 255 /\ z >= 0
    BY DEF Bytes
<1>2. x = 16 * xh + xl /\ xl \in 0 .. 15 /\ xh \in Int
    BY <1>1
<1>3. z = 16 * zh + zl /\ zl \in 0 .. 15 /\ zh \in Int
    BY <1>1
<1>4. PICK k \in Int : x = (z + 16 * e) + 64 * k
    BY <1>1, SameRest DEF Alike, Differences
<1> HIDE DEF xh, xl, zh, zl
<1>5. xl = zl /\ xh = zh + e + 4 * k
    BY <1>2, <1>3, <1>4 DEF Differences
<1>6. xh \in 0 .. 15
    BY <1>1, <1>2
<1>7. QED
    BY <1>2, <1>5, <1>6 DEF xh, xl, zh, zl, HalfAlike

\* Half bytes whose two lower bits are the same, or differ in the upper of the two.
LEMMA HalvesAlike ==
    ASSUME NEW x \in 0 .. 15, NEW y \in 0 .. 15, NEW z \in 0 .. 15, NEW e \in Differences, HalfAlike(x, z, e)
    PROVE  HalfAlike(HalfXor[x][y], HalfXor[z][y], e)
<1> DEFINE hx == HalfXor[x][y]
           hz == HalfXor[z][y]
           c == IF x % 2 = 1 /\ y % 2 = 1 THEN 2 ELSE 0
<1>1. x % 2 = z % 2
    BY DEF HalfAlike, Differences
<1>2. /\ hx \in 0 .. 15 /\ hx % 4 = (x + y - c) % 4
      /\ hz \in 0 .. 15 /\ hz % 4 = (z + y - c) % 4
    BY <1>1, HalfXorFacts
<1>3. c \in Int
    OBVIOUS
<1> HIDE DEF hx, hz, c
<1>4. PICK k1 \in Int : hx = (x + y - c) + 4 * k1
    <2>1. hx \in Int /\ x + y - c \in Int
        BY <1>2, <1>3
    <2>2. QED
        BY <1>2, <2>1, SameRest
<1>5. PICK k2 \in Int : hz = (z + y - c) + 4 * k2
    <2>1. hz \in Int /\ z + y - c \in Int
        BY <1>2, <1>3
    <2>2. QED
        BY <1>2, <2>1, SameRest
<1>6. PICK k \in Int : x = z + e + 4 * k
    BY DEF HalfAlike
<1>7. hx = hz + e + 4 * (k + k1 - k2)
    BY <1>2, <1>3, <1>4, <1>5, <1>6 DEF Differences
<1>8. k + k1 - k2 \in Int
    OBVIOUS
<1>9. QED
    BY <1>7, <1>8 DEF hx, hz, HalfAlike

\* Bytes.  Bytes with the same six lower bits, or that differ in the sixth, give
\* such bytes when anything is added.
LEMMA XorFacts ==
    ASSUME NEW x \in Bytes, NEW y \in Bytes, NEW z \in Bytes, NEW e \in Differences, Alike(x, z, e)
    PROVE  /\ XorOf[x][y] \in Bytes
           /\ Alike(XorOf[x][y], XorOf[z][y], e)
<1>1. /\ x \div 16 \in 0 .. 15 /\ x % 16 \in 0 .. 15
      /\ y \div 16 \in 0 .. 15 /\ y % 16 \in 0 .. 15
      /\ z \div 16 \in 0 .. 15 /\ z % 16 \in 0 .. 15
    BY DEF Bytes
<1>2. x % 16 = z % 16 /\ HalfAlike(x \div 16, z \div 16, e)
    BY Halves
<1> DEFINE hx == HalfXor[x \div 16][y \div 16]
           hz == HalfXor[z \div 16][y \div 16]
           l == HalfXor[x % 16][y % 16]
<1>3. XorOf[x][y] = 16 * hx + l /\ XorOf[z][y] = 16 * hz + l
    BY <1>2 DEF XorOf
<1>4. hx \in 0 .. 15 /\ hz \in 0 .. 15 /\ l \in 0 .. 15
    BY <1>1, HalfXorFacts
<1>5. HalfAlike(hx, hz, e)
    BY <1>1, <1>2, HalvesAlike
<1> HIDE DEF hx, hz, l
<1>6. PICK k \in Int : hx = hz + e + 4 * k
    BY <1>5 DEF HalfAlike
<1>7. 16 * hx + l \in 0 .. 255
    BY <1>4
<1>8. 16 * hx + l = (16 * hz + l + 16 * e) + 64 * k
    BY <1>4, <1>6 DEF Differences
<1>9. (16 * hx + l) % 64 = (16 * hz + l + 16 * e) % 64
    <2>1. 16 * hx + l \in Int /\ 16 * hz + l + 16 * e \in Int
        BY <1>4 DEF Differences
    <2>2. QED
        BY <1>8, <2>1, SameRest
<1>10. QED
    BY <1>3, <1>7, <1>9 DEF Bytes, Alike

\* A byte and itself.
LEMMA XorOfSame ==
    ASSUME NEW y \in Bytes
    PROVE  XorOf[y][y] = 0
<1>1. y \div 16 \in 0 .. 15 /\ y % 16 \in 0 .. 15
    BY DEF Bytes
<1>2. HalfXor[y \div 16][y \div 16] = 0 /\ HalfXor[y % 16][y % 16] = 0
    BY <1>1, HalfXorFacts
<1>3. XorOf[y][y] = 16 * HalfXor[y \div 16][y \div 16] + HalfXor[y % 16][y % 16]
    BY DEF XorOf
<1>4. QED
    BY <1>2, <1>3

\* A step of a lane keeps how the six lower bits compare.
LEMMA MixedFacts ==
    ASSUME NEW x \in Bytes, NEW z \in Bytes, NEW w \in Bytes, NEW e \in Differences, Alike(x, z, e)
    PROVE  Mixed[x][w] \in Bytes /\ Alike(Mixed[x][w], Mixed[z][w], e)
<1> DEFINE a == XorOf[x][w]
           b == XorOf[z][w]
<1>1. Mixed[x][w] = (a * 179) % 256 /\ Mixed[z][w] = (b * 179) % 256
    BY DEF Mixed, Prime
<1>2. a \in Bytes /\ Alike(a, b, e)
    BY XorFacts
<1>3. b \in Bytes
    <2>1. 0 \in Differences /\ Alike(z, z, 0)
        BY DEF Bytes, Alike, Differences
    <2>2. QED
        BY <2>1, XorFacts
<1> HIDE DEF a, b
<1>4. a \in Int /\ b \in Int /\ b + 16 * e \in Int
    BY <1>2, <1>3 DEF Bytes, Differences
<1>5. PICK k \in Int : a = (b + 16 * e) + 64 * k
    BY <1>2, <1>4, SameRest DEF Alike
<1>6. PICK k1 \in Int : a * 179 = ((a * 179) % 256) + 256 * k1
    BY <1>4
<1>7. PICK k2 \in Int : b * 179 = ((b * 179) % 256) + 256 * k2
    BY <1>4
<1> DEFINE m == (a * 179) % 256
           n == (b * 179) % 256
<1>8. m \in 0 .. 255 /\ n \in 0 .. 255
    BY <1>4
<1>9. \E k3 \in Int : m = (n + 16 * e) + 64 * k3
    <2>1. m = a * 179 - 256 * k1 /\ n = b * 179 - 256 * k2 /\ m \in Int /\ n \in Int
        BY <1>4, <1>6, <1>7, <1>8
    <2> HIDE DEF m, n
    <2>2. CASE e = 0
        <3>1. m = (n + 16 * e) + 64 * (179 * k - 4 * k1 + 4 * k2)
            BY <1>4, <1>5, <2>1, <2>2
        <3>2. 179 * k - 4 * k1 + 4 * k2 \in Int
            OBVIOUS
        <3>3. QED
            BY <3>1, <3>2
    <2>3. CASE e = 2
        <3>1. m = (n + 16 * e) + 64 * (89 + 179 * k - 4 * k1 + 4 * k2)
            BY <1>4, <1>5, <2>1, <2>3
        <3>2. 89 + 179 * k - 4 * k1 + 4 * k2 \in Int
            OBVIOUS
        <3>3. QED
            BY <3>1, <3>2
    <2>4. QED
        BY <2>2, <2>3 DEF Differences
<1> HIDE DEF m, n
<1>10. m % 64 = (n + 16 * e) % 64
    <2>1. m \in Int /\ n + 16 * e \in Int
        BY <1>8 DEF Differences
    <2>2. QED
        BY <1>9, <2>1, SameRest
<1>11. QED
    BY <1>1, <1>8, <1>10 DEF Bytes, m, n, Alike

\* A set of numbers has a least one: with it, what holds of a step of a lane holds
\* of the lane.
LEMMA LeastNumber ==
    ASSUME NEW S, S \subseteq Nat, S # {}
    PROVE  \E n \in S : \A k \in S : n <= k
<1> DEFINE R == {ss \in Nat \X Nat : ss[1] < ss[2]}
<1>1. IsWellFoundedOn(R, Nat)
    BY NatLessThanWellFounded DEF OpToRel
<1>2. \A k, n \in Nat : k < n => <<k, n>> \in R
    OBVIOUS
<1> HIDE DEF R
<1>3. PICK n \in S : \A k \in S : <<k, n>> \notin R
    BY <1>1, WFMin
<1>4. ASSUME NEW k \in S PROVE n <= k
    <2>1. ~(k < n) /\ k \in Nat /\ n \in Nat
        BY <1>2, <1>3
    <2>2. QED
        BY <2>1
<1>5. QED
    BY <1>4

\* The state of a lane after each word.
IsLane(h, start, words) ==
    /\ h = [k \in 0 .. Len(words) |-> h[k]]
    /\ h[0] = start
    /\ \A k \in 1 .. Len(words) : h[k] = Mixed[h[k - 1]][words[k]]

\* A lane is where these states end: the recursive function is one of them.
LEMMA LaneSteps ==
    ASSUME NEW start, NEW words \in Seq(Bytes)
    PROVE  \E h : IsLane(h, start, words) /\ Lane(start, words) = h[Len(words)]
<1> DEFINE n == Len(words)
           F(h, m) == [k \in 0 .. m |-> IF k = 0 THEN start ELSE Mixed[h[k - 1]][words[k]]]
           None == {m \in 0 .. n : ~\E h : h = F(h, m)}
<1>1. n \in Nat
    OBVIOUS
<1> HIDE DEF n
<1>2. None = {}
    <2>1. SUFFICES ASSUME None # {} PROVE FALSE
        OBVIOUS
    <2>2. None \subseteq Nat
        OBVIOUS
    <2>3. PICK m \in None : \A k \in None : m <= k
        BY <2>1, <2>2, LeastNumber
    <2>4. m \in 0 .. n /\ ~\E h : h = F(h, m)
        OBVIOUS
    <2>5. CASE m = 0
        <3> DEFINE h == [k \in 0 .. 0 |-> start]
        <3>1. h = F(h, 0)
            BY <1>1
        <3>2. QED
            BY <2>4, <2>5, <3>1
    <2>6. CASE m # 0
        <3>1. m - 1 \in 0 .. n /\ ~(m <= m - 1)
            BY <1>1, <2>4, <2>6
        <3>2. m - 1 \notin None
            BY <2>3, <3>1
        <3>3. PICK g : g = F(g, m - 1)
            BY <3>1, <3>2
        <3> DEFINE h == [k \in 0 .. m |-> IF k < m THEN g[k] ELSE Mixed[g[m - 1]][words[m]]]
        <3>4. ASSUME NEW k \in 0 .. m
              PROVE  h[k] = IF k = 0 THEN start ELSE Mixed[h[k - 1]][words[k]]
            <4>1. CASE k = 0
                <5>1. g[0] = start /\ h[0] = g[0]
                    BY <1>1, <2>4, <2>6, <3>3
                <5>2. QED
                    BY <4>1, <5>1
            <4>2. CASE k # 0 /\ k < m
                <5>1. k \in 0 .. m - 1 /\ k - 1 \in 0 .. m /\ k - 1 < m /\ k \in 0 .. m
                    BY <1>1, <2>4, <4>2
                <5>2. h[k] = g[k] /\ h[k - 1] = g[k - 1]
                    BY <4>2, <5>1
                <5>3. g[k] = Mixed[g[k - 1]][words[k]]
                    BY <3>3, <4>2, <5>1
                <5>4. QED
                    BY <4>2, <5>2, <5>3
            <4>3. CASE k # 0 /\ k = m
                <5>1. m - 1 \in 0 .. m /\ m - 1 < m /\ m \in 0 .. m /\ ~(m < m)
                    BY <1>1, <2>4, <2>6
                <5>2. h[m] = Mixed[g[m - 1]][words[m]] /\ h[m - 1] = g[m - 1]
                    BY <5>1
                <5>3. QED
                    BY <4>3, <5>2
            <4>4. QED
                BY <1>1, <2>4, <4>1, <4>2, <4>3
        <3>5. h = F(h, m)
            <4>1. h = [k \in 0 .. m |-> h[k]]
                OBVIOUS
            <4> HIDE DEF h
            <4>2. QED
                BY <3>4, <4>1
        <3>6. QED
            BY <2>4, <3>5
    <2>7. QED
        BY <2>5, <2>6
<1>3. \E h : h = F(h, n)
    <2>1. n \in 0 .. n
        BY <1>1
    <2>2. n \notin None
        BY <1>2, Zenon
    <2> HIDE DEF F
    <2>3. QED
        BY <2>1, <2>2, Zenon
<1> DEFINE H == CHOOSE h : h = F(h, n)
<1>4. H = F(H, n)
    BY <1>3
<1>5. Lane(start, words) = H[n]
    BY DEF Lane, n
<1> HIDE DEF H
<1>6. H = [k \in 0 .. n |-> H[k]] /\ H[0] = start
    BY <1>1, <1>4
<1>7. ASSUME NEW k \in 1 .. n PROVE H[k] = Mixed[H[k - 1]][words[k]]
    <2>1. k \in 0 .. n /\ k # 0
        BY <1>1
    <2>2. QED
        BY <1>4, <2>1
<1>8. QED
    BY <1>5, <1>6, <1>7 DEF IsLane, n


\* A lane of bytes is a byte; lanes that start alike end alike.
LEMMA LaneFacts ==
    ASSUME NEW s \in Bytes, NEW t \in Bytes, NEW e \in Differences, Alike(s, t, e),
           NEW words \in Seq(Bytes)
    PROVE  Lane(s, words) \in Bytes /\ Alike(Lane(s, words), Lane(t, words), e)
<1> DEFINE n == Len(words)
<1>1. PICK h : IsLane(h, s, words) /\ Lane(s, words) = h[n]
    BY LaneSteps
<1>2. PICK g : IsLane(g, t, words) /\ Lane(t, words) = g[n]
    BY LaneSteps
<1>3. n \in Nat /\ \A k \in 1 .. n : words[k] \in Bytes
    OBVIOUS
<1> DEFINE Good(k) == h[k] \in Bytes /\ g[k] \in Bytes /\ Alike(h[k], g[k], e)
           Bad == {k \in 0 .. n : ~Good(k)}
<1>4. Bad = {}
    <2>1. SUFFICES ASSUME Bad # {} PROVE FALSE
        OBVIOUS
    <2>2. Bad \subseteq Nat
        OBVIOUS
    <2>3. PICK k \in Bad : \A m \in Bad : k <= m
        BY <2>1, <2>2, LeastNumber
    <2>4. k \in 0 .. n /\ ~Good(k)
        OBVIOUS
    <2>5. Good(0)
        BY <1>1, <1>2 DEF IsLane
    <2>6. k # 0 /\ k \in 1 .. n /\ k - 1 \in 0 .. n /\ ~(k <= k - 1)
        BY <1>3, <2>4, <2>5
    <2>7. Good(k - 1)
        BY <2>3, <2>6
    <2>8. h[k] = Mixed[h[k - 1]][words[k]] /\ g[k] = Mixed[g[k - 1]][words[k]]
        BY <1>1, <1>2, <2>6 DEF IsLane
    <2>9. words[k] \in Bytes
        BY <1>3, <2>6
    <2>10. Mixed[h[k - 1]][words[k]] \in Bytes
           /\ Alike(Mixed[h[k - 1]][words[k]], Mixed[g[k - 1]][words[k]], e)
        BY <2>7, <2>9, MixedFacts
    <2>11. Mixed[g[k - 1]][words[k]] \in Bytes
        <3>1. 0 \in Differences /\ \A u \in Bytes : Alike(u, u, 0)
            BY DEF Differences, Alike, Bytes
        <3>2. QED
            BY <2>7, <2>9, <3>1, MixedFacts
    <2>12. QED
        BY <2>4, <2>8, <2>10, <2>11
<1>5. n \in 0 .. n
    BY <1>3
<1>6. Good(n)
    BY <1>4, <1>5
<1>7. QED
    BY <1>1, <1>2, <1>6

\* No hash is zero: the four lanes are alike, but for the sixth bit of one of them,
\* so that this bit of the hash is set, and the five lower ones are not.
LEMMA HashFacts ==
    ASSUME NEW words \in Seq(Bytes)
    PROVE  Hash(words) \in Bytes /\ Hash(words) % 64 = 32
<1> DEFINE a == Lane(37, words)
           c == Lane(197, words)
<1>1. /\ 37 \in Bytes /\ 197 \in Bytes /\ 0 \in Bytes
      /\ 0 \in Differences /\ 2 \in Differences
      /\ Alike(37, 37, 0) /\ Alike(197, 37, 2)
    BY DEF Bytes, Differences, Alike
<1>2. a \in Bytes
    BY <1>1, LaneFacts
<1>3. c \in Bytes /\ Alike(c, a, 2)
    BY <1>1, LaneFacts
<1>4. Hash(words) = XorOf[XorOf[a][a]][XorOf[c][a]]
    BY DEF Hash, Lanes
<1> HIDE DEF a, c
<1>5. XorOf[a][a] = 0
    BY <1>2, XorOfSame
<1> DEFINE x == XorOf[c][a]
<1>6. x \in Bytes /\ Alike(x, 0, 2)
    BY <1>1, <1>2, <1>3, <1>5, XorFacts
<1> HIDE DEF x
<1>7. x % 64 = 32
    BY <1>6 DEF Alike
<1>8. Alike(0, x, 2)
    BY <1>6, <1>7 DEF Alike, Bytes
<1>9. XorOf[x][x] = 0
    BY <1>6, XorOfSame
<1>10. XorOf[0][x] \in Bytes /\ Alike(XorOf[0][x], 0, 2)
    BY <1>1, <1>6, <1>8, <1>9, XorFacts
<1>11. XorOf[0][x] % 64 = 32
    BY <1>10 DEF Alike
<1>12. QED
    BY <1>4, <1>5, <1>10, <1>11 DEF x


-----------------------------------------------------------------------------
(* What the steps keep. *)

Looping == pc \in {"read", "hash", "write"}

\* Where the upload is: at the start before the size is known, at the end of the
\* chunks when the loop is left.
Placed ==
    /\ {readErrors, writeErrors} \subseteq Nat
    /\ pc = "stat" =>
        /\ size = 0 /\ i = 0 /\ put = 0 /\ pos = 0 /\ got = 0
        /\ copy = <<>> /\ Errors = 0
    /\ pc \in {"read", "hash"} => put = 0
    /\ ~Looping => i = (IF NumChunks(size) > 0 THEN NumChunks(size) ELSE 0)

\* As long as no write failed the copy has the length it should have.
Copied ==
    writeErrors = 0 =>
        Len(copy) = IF Looping THEN ChunkSize * i + put ELSE IF size > 0 THEN size ELSE 0

\* As long as nothing failed, what was read and what was copied is the file.
Clean ==
    exists /\ Errors = 0 =>
        /\ pc # "stat" => size = ToInt(Len(content))
        /\ Looping =>
            /\ pos = ChunkSize * i + got
            /\ \A k \in 1 .. got : buffer[k] = content[ChunkSize * i + k]
        /\ pc \in {"hash", "write"} => got = Want
        /\ \A k \in 1 .. Len(copy) : copy[k] = content[k]

\* As long as no write failed, the index is that of the chunks in the copy; the one
\* in work is still in the buffer.
HashIn(c, s, k) ==
    LET l == SizeOfChunk(s, k - 1)
    IN Hash(Words([b \in 1 .. l |-> c[ChunkSize * (k - 1) + b]], l))

Indexed ==
    writeErrors = 0 =>
        /\ \A k \in 1 .. i : index[k] = HashIn(copy, size, k)
        /\ pc = "write" =>
            /\ index[i + 1] = Hash(Words(buffer, Want))
            /\ \A b \in 1 .. put : copy[ChunkSize * i + b] = buffer[b]

\* The hashes that are there are not zero.
Hashed ==
    /\ \A k \in 1 .. i : index[k] % 64 = 32
    /\ pc = "write" => index[i + 1] % 64 = 32
    /\ pc = "done" => fileHash % 64 = 32

IInv == TypeOK /\ Placed /\ Copied /\ Clean /\ Indexed /\ Hashed


\* The words of the first l bytes are bytes of those, and all that is hashed.
LEMMA WordsFacts ==
    ASSUME NEW l \in 0 .. ChunkSize, NEW b, \A j \in 1 .. l : b[j] \in Bytes
    PROVE  /\ Words(b, l) \in Seq(Bytes)
           /\ \A c : (\A j \in 1 .. l : c[j] = b[j]) => Words(c, l) = Words(b, l)
<1> DEFINE n == l \div WordSize
<1>1. l \in Nat /\ WordSize \in Nat \ {0}
    BY UploadAssumption
<1>2. n \in Nat /\ l % WordSize \in 0 .. WordSize - 1 /\ l = WordSize * n + (l % WordSize)
    BY <1>1, Division, Zenon
<1> HIDE DEF n
<1>3. ASSUME NEW k \in 1 .. n PROVE WordSize * (k - 1) + 1 \in 1 .. l
    <2>1. WordSize * n = WordSize * k + WordSize * (n - k) /\ WordSize * (n - k) \in Nat
        BY <1>1, <1>2
    <2>2. WordSize * k = WordSize * (k - 1) + WordSize /\ WordSize * (k - 1) \in Nat
        BY <1>1, <1>2
    <2> DEFINE wn == WordSize * n
               wd == WordSize * (n - k)
               wk == WordSize * k
               wp == WordSize * (k - 1)
    <2>3. wn = wk + wd /\ wd \in Nat /\ wk = wp + WordSize /\ wp \in Nat
          /\ l = wn + (l % WordSize) /\ l % WordSize \in Nat
        BY <1>2, <2>1, <2>2
    <2> HIDE DEF wn, wd, wk, wp
    <2>4. wp + 1 \in 1 .. l
        BY <1>1, <2>3
    <2>5. QED
        BY <2>4 DEF wp
<1>4. \A c : Words(c, l) = [k \in 1 .. n |-> c[WordSize * (k - 1) + 1]]
    BY DEF Words, n
<1>5. Words(b, l) \in Seq(Bytes)
    BY <1>2, <1>3, <1>4
<1>6. ASSUME NEW c, \A j \in 1 .. l : c[j] = b[j] PROVE Words(c, l) = Words(b, l)
    BY <1>3, <1>4, <1>6
<1>7. QED
    BY <1>5, <1>6

\* The chunk in work.
LEMMA LoopFacts ==
    ASSUME TypeOK, Looping
    PROVE  /\ size \in Int /\ size > 0 /\ i \in Nat /\ i < NumChunks(size)
           /\ NumChunks(size) \in Nat
           /\ Want \in 1 .. ChunkSize /\ ChunkSize \in Nat
           /\ ChunkSize * i \in Nat /\ ChunkSize * (i + 1) = ChunkSize * i + ChunkSize
           /\ ChunkSize * i + Want <= size
           /\ i + 1 < NumChunks(size) => Want = ChunkSize
           /\ i + 1 = NumChunks(size) => ChunkSize * i + Want = size
           /\ Len(index) = NumChunks(size)
<1>1. size \in Int /\ i \in Nat /\ i < NumChunks(size) /\ ChunkSize \in Nat
    BY UploadAssumption DEF TypeOK, Looping, Ints
<1>2. NumChunks(size) \in Int /\ (size > 0 <=> NumChunks(size) > 0)
    BY <1>1, CountFacts
<1>3. size > 0 /\ NumChunks(size) \in Nat
    BY <1>1, <1>2
<1>4. Len(index) = NumChunks(size)
    BY <1>1, <1>2 DEF TypeOK, Looping
<1>5. QED
    BY <1>1, <1>3, <1>4, ChunkFacts DEF Want


-----------------------------------------------------------------------------
(* The steps. *)

\* The index before the upload knows a chunk: as many zeros as there are chunks.
LEMMA ZerosFacts ==
    ASSUME NEW n \in Int
    PROVE  /\ [k \in 1 .. n |-> 0] \in Seq(Bytes)
           /\ Len([k \in 1 .. n |-> 0]) = IF n > 0 THEN n ELSE 0
<1> DEFINE z == [k \in 1 .. n |-> 0]
<1>1. CASE n > 0
    <2>1. n \in Nat
        BY <1>1
    <2>2. z \in Seq(Bytes) /\ Len(z) = n
        BY <2>1 DEF Bytes
    <2>3. QED
        BY <1>1, <2>2
<1>2. CASE ~(n > 0)
    <2>1. z = <<>>
        <3>1. 1 .. n = 1 .. 0
            BY <1>2
        <3>2. QED
            BY <3>1
    <2> HIDE DEF z
    <2>2. z \in Seq(Bytes) /\ Len(z) = 0
        BY <2>1
    <2>3. QED
        BY <1>2, <2>2 DEF z
<1>3. QED
    BY <1>1, <1>2

\* At the start.
LEMMA InitKeeps ==
    ASSUME Init
    PROVE  IInv
<1>1. ChunkSize \in Nat \ {0} /\ MaxInt \in Nat /\ MaxErrors \in Nat /\ Files \subseteq Seq(Bytes)
      /\ Garbage \subseteq Bytes
    BY UploadAssumption
<1>2. /\ exists \in BOOLEAN /\ shrunk = FALSE /\ pc = "stat" /\ size = 0
      /\ i = 0 /\ got = 0 /\ put = 0 /\ pos = 0 /\ copy = <<>> /\ index = <<>>
      /\ fileHash = -1 /\ readErrors = 0 /\ writeErrors = 0
      /\ content \in Seq(Bytes)
    BY <1>1 DEF Init
<1>3. buffer \in [1 .. ChunkSize -> Bytes]
    BY <1>1 DEF Init
<1>4. 0 \in Ints
    BY <1>1 DEF Ints
<1>5. TypeOK
    <2>1. <<>> \in Seq(Bytes) /\ 0 \in 0 .. Len(content)
        BY <1>2
    <2>2. /\ size \in Ints /\ i \in Nat /\ {got, put} \subseteq 0 .. ChunkSize
          /\ pos \in 0 .. Len(content) /\ copy \in Seq(Bytes) /\ index \in Seq(Bytes)
        BY <1>1, <1>2, <1>4, <2>1
    <2>3. Errors \in 0 .. MaxErrors /\ fileHash \in {-1} \cup Bytes
        BY <1>1, <1>2 DEF Errors
    <2>4. QED
        BY <1>2, <1>3, <2>2, <2>3 DEF TypeOK
<1>6. NumChunks(0) \in Int /\ ~(NumChunks(0) > 0)
    BY CountFacts
<1>7. Placed
    BY <1>2, <1>6 DEF Placed, Errors, Looping
<1>8. Copied
    BY <1>2 DEF Copied, Looping
<1>9. Clean
    BY <1>2 DEF Clean, Looping
<1>10. Indexed
    BY <1>2 DEF Indexed
<1>11. Hashed
    BY <1>2 DEF Hashed
<1>12. QED
    BY <1>5, <1>7, <1>8, <1>9, <1>10, <1>11 DEF IInv

\* The size is known.
LEMMA StatKeeps ==
    ASSUME IInv, Stat
    PROVE  IInv'
<1>1. ChunkSize \in Nat \ {0} /\ MaxInt \in Nat
    BY UploadAssumption
<1>2. TypeOK /\ Placed /\ pc = "stat"
    BY DEF IInv, Stat
<1>3. /\ i = 0 /\ put = 0 /\ pos = 0 /\ got = 0 /\ copy = <<>>
      /\ {readErrors, writeErrors} \subseteq Nat
    BY <1>2 DEF Placed
<1>4. /\ content' = content /\ exists' = exists /\ shrunk' = shrunk /\ i' = i
      /\ buffer' = buffer /\ got' = got /\ put' = put /\ pos' = pos /\ copy' = copy
      /\ fileHash' = fileHash /\ readErrors' = readErrors /\ writeErrors' = writeErrors
    BY DEF Stat, file
<1>5. /\ size' \in Ints /\ size' \in Int
      /\ exists => size' = ToInt(Len(content))
    <2>1. content \in Seq(Bytes)
        BY <1>2 DEF TypeOK
    <2>2. Len(content) \in Nat
        BY <2>1
    <2>3. ToInt(Len(content)) \in Ints
        BY <2>2, IntOfSize
    <2>4. size' \in Ints /\ (exists => size' = ToInt(Len(content)))
        BY <2>3 DEF Stat
    <2>5. QED
        BY <1>1, <2>4 DEF Ints
<1>6. NumChunks(size') \in Int /\ (size' > 0 <=> NumChunks(size') > 0)
    BY <1>5, CountFacts
<1>7. pc' = (IF NumChunks(size') > 0 THEN "read" ELSE "hashIndex")
    BY DEF Stat
<1>8. index' \in Seq(Bytes) /\ Len(index') = IF NumChunks(size') > 0 THEN NumChunks(size') ELSE 0
    BY <1>6, ZerosFacts DEF Stat
<1>9. pc' = "read" => Want' \in 1 .. ChunkSize
    <2>1. pc' = "read" => i' \in Nat /\ i' < NumChunks(size')
        BY <1>3, <1>4, <1>6, <1>7
    <2>2. QED
        BY <1>5, <2>1, ChunkFacts DEF Want
<1>10. TypeOK'
    BY <1>1, <1>2, <1>3, <1>4, <1>5, <1>6, <1>7, <1>8, <1>9 DEF TypeOK, Errors
<1>11. Placed'
    BY <1>3, <1>4, <1>6, <1>7 DEF Placed, Looping
<1>12. Copied'
    BY <1>1, <1>3, <1>4, <1>5, <1>6, <1>7 DEF Copied, Looping
<1>13. Clean'
    BY <1>1, <1>3, <1>4, <1>5, <1>7 DEF Clean, Looping, Errors
<1>14. Indexed'
    BY <1>3, <1>4, <1>7 DEF Indexed
<1>15. Hashed'
    BY <1>3, <1>4, <1>7 DEF Hashed
<1>16. QED
    BY <1>10, <1>11, <1>12, <1>13, <1>14, <1>15 DEF IInv

\* Bytes are read behind those that were read.
LEMMA ReadSomeKeeps ==
    ASSUME IInv, ReadSome
    PROVE  IInv'
<1>1. /\ TypeOK /\ Placed /\ Copied /\ Clean /\ Indexed /\ Hashed
      /\ pc = "read" /\ Looping /\ exists
    BY DEF IInv, ReadSome, Read, Looping
<1>2. /\ size \in Int /\ i \in Nat /\ Want \in 1 .. ChunkSize /\ ChunkSize \in Nat
      /\ ChunkSize * i \in Nat
    BY <1>1, LoopFacts
<1>3. /\ content' = content /\ exists' = exists /\ shrunk' = shrunk /\ size' = size
      /\ i' = i /\ put' = put /\ copy' = copy /\ index' = index /\ fileHash' = fileHash
      /\ readErrors' = readErrors /\ writeErrors' = writeErrors
    BY DEF ReadSome, Read, file
<1>4. Want' = Want
    BY <1>3 DEF Want
<1>5. PICK n \in 1 .. Want - got :
        /\ pos + n <= Len(content)
        /\ Fetch(n)
        /\ got' = got + n
        /\ pc' = IF got' = Want THEN "hash" ELSE "read"
    BY DEF ReadSome
<1>6. /\ got \in Nat /\ got < Want /\ put = 0 /\ pos \in Nat
      /\ content \in Seq(Bytes) /\ buffer \in [1 .. ChunkSize -> Bytes]
    BY <1>1 DEF TypeOK, Placed
<1>7. n \in Nat /\ n > 0 /\ got + n <= Want
    BY <1>2, <1>5, <1>6
<1>8. pos' = pos + n
      /\ buffer' = [k \in 1 .. ChunkSize |->
                    IF k \in got + 1 .. got + n THEN content[pos + k - got] ELSE buffer[k]]
    BY <1>5 DEF Fetch
<1>9. buffer' \in [1 .. ChunkSize -> Bytes]
    <2>1. ASSUME NEW k \in got + 1 .. got + n PROVE content[pos + k - got] \in Bytes
        <3>1. pos + k - got \in 1 .. Len(content)
            BY <1>5, <1>6, <1>7
        <3>2. QED
            BY <1>6, <3>1
    <2>2. QED
        BY <1>6, <1>8, <2>1
<1>10. TypeOK'
    BY <1>1, <1>2, <1>3, <1>4, <1>5, <1>6, <1>7, <1>8, <1>9 DEF TypeOK, Errors
<1>11. Placed'
    BY <1>1, <1>3, <1>5, <1>6 DEF Placed, Looping
<1>12. Copied'
    BY <1>1, <1>3, <1>5 DEF Copied, Looping
<1>13. Clean'
    <2>1. SUFFICES ASSUME exists, Errors = 0
          PROVE  /\ size = ToInt(Len(content))
                 /\ pos' = ChunkSize * i + got'
                 /\ \A k \in 1 .. got' : buffer'[k] = content[ChunkSize * i + k]
                 /\ pc' = "hash" => got' = Want
                 /\ \A k \in 1 .. Len(copy) : copy[k] = content[k]
        BY <1>3, <1>4, <1>5 DEF Clean, Errors
    <2>2. /\ size = ToInt(Len(content))
          /\ pos = ChunkSize * i + got
          /\ \A k \in 1 .. got : buffer[k] = content[ChunkSize * i + k]
          /\ \A k \in 1 .. Len(copy) : copy[k] = content[k]
        BY <1>1, <2>1 DEF Clean
    <2>3. ASSUME NEW k \in 1 .. got' PROVE buffer'[k] = content[ChunkSize * i + k]
        <3>1. k \in 1 .. ChunkSize /\ k \in Int
            BY <1>2, <1>5, <1>6, <1>7
        <3>2. CASE k \in 1 .. got
            BY <1>6, <1>8, <2>2, <3>1, <3>2
        <3>3. CASE k \in got + 1 .. got + n
            <4>1. pos + k - got = ChunkSize * i + k
                BY <1>2, <1>6, <2>2, <3>1
            <4>2. QED
                BY <1>8, <3>1, <3>3, <4>1
        <3>4. QED
            BY <1>5, <1>6, <1>7, <3>1, <3>2, <3>3
    <2>4. pos' = ChunkSize * i + got'
        BY <1>2, <1>5, <1>6, <1>7, <1>8, <2>2
    <2>5. QED
        BY <1>5, <2>2, <2>3, <2>4
<1>14. Indexed'
    BY <1>1, <1>3, <1>5 DEF Indexed
<1>15. Hashed'
    BY <1>1, <1>3, <1>5 DEF Hashed
<1>16. QED
    BY <1>10, <1>11, <1>12, <1>13, <1>14, <1>15 DEF IInv

\* A read fails: the buffer is what it was.
LEMMA ReadErrorKeeps ==
    ASSUME IInv, ReadError
    PROVE  IInv'
<1>1. /\ TypeOK /\ Placed /\ Copied /\ Clean /\ Indexed /\ Hashed
      /\ pc = "read" /\ Looping /\ pc' = "hash"
    BY DEF IInv, ReadError, Read, Looping
<1>2. /\ content' = content /\ exists' = exists /\ shrunk' = shrunk /\ size' = size
      /\ i' = i /\ put' = put /\ copy' = copy /\ index' = index /\ fileHash' = fileHash
      /\ writeErrors' = writeErrors /\ buffer' = buffer /\ got' = got /\ pos' = pos
    BY DEF ReadError, Read, file
<1>3. Want' = Want
    BY <1>2 DEF Want
<1>4. /\ readErrors \in Nat /\ writeErrors \in Nat /\ MaxErrors \in Nat
      /\ Errors \in 0 .. MaxErrors
      /\ readErrors' = IF exists THEN readErrors + 1 ELSE readErrors
      /\ exists => Errors < MaxErrors
      /\ exists \in BOOLEAN
    BY <1>1, UploadAssumption DEF TypeOK, Placed, ReadError
<1>5. Errors' \in 0 .. MaxErrors /\ readErrors' \in Nat
    BY <1>2, <1>4 DEF Errors
<1>6. exists => Errors' # 0
    BY <1>2, <1>4 DEF Errors
<1>7. TypeOK'
    <2>1. Want \in 1 .. ChunkSize
        BY <1>1, LoopFacts
    <2>2. QED
        BY <1>1, <1>2, <1>3, <1>5, <2>1 DEF TypeOK
<1>8. Placed'
    BY <1>1, <1>2, <1>5 DEF Placed, Looping
<1>9. Copied'
    BY <1>1, <1>2 DEF Copied, Looping
<1>10. Clean'
    BY <1>2, <1>6 DEF Clean
<1>11. Indexed'
    BY <1>1, <1>2 DEF Indexed
<1>12. Hashed'
    BY <1>1, <1>2 DEF Hashed
<1>13. QED
    BY <1>7, <1>8, <1>9, <1>10, <1>11, <1>12 DEF IInv


\* The hash of a chunk of a copy is that of any buffer that begins with it, and does
\* not change when bytes are added to the copy.
LEMMA HashInFacts ==
    ASSUME NEW s \in Int, NEW k \in Nat \ {0}, k <= NumChunks(s), NEW c
    PROVE  /\ \A b : (\A j \in 1 .. SizeOfChunk(s, k - 1) :
                        b[j] \in Bytes /\ c[ChunkSize * (k - 1) + j] = b[j])
                     => HashIn(c, s, k) = Hash(Words(b, SizeOfChunk(s, k - 1)))
           /\ \A d : (\A j \in 1 .. ChunkSize * k : d[j] = c[j])
                     => HashIn(d, s, k) = HashIn(c, s, k)
<1> DEFINE l == SizeOfChunk(s, k - 1)
           p == ChunkSize * (k - 1)
           Part(q) == [j \in 1 .. l |-> q[p + j]]
<1>1. k - 1 \in Nat /\ k - 1 < NumChunks(s) /\ (k - 1) + 1 = k
    BY CountFacts
<1>2. l \in 1 .. ChunkSize /\ p \in Nat /\ ChunkSize * k = p + ChunkSize
    <2>1. ChunkSize * ((k - 1) + 1) = p + ChunkSize
        BY <1>1, ChunkFacts
    <2>2. QED
        BY <1>1, <2>1, ChunkFacts
<1>3. l \in 0 .. ChunkSize /\ l \in Nat /\ l <= ChunkSize /\ ChunkSize \in Nat
    BY <1>2, UploadAssumption
<1>4. \A q : HashIn(q, s, k) = Hash(Words(Part(q), l))
    BY DEF HashIn
<1> HIDE DEF l, p
<1>5. ASSUME NEW b, \A j \in 1 .. l : b[j] \in Bytes /\ c[p + j] = b[j]
      PROVE  HashIn(c, s, k) = Hash(Words(b, l))
    <2>1. \A j \in 1 .. l : Part(c)[j] = b[j]
        BY <1>5
    <2>2. \A j \in 1 .. l : b[j] \in Bytes
        BY <1>5
    <2> HIDE DEF Part
    <2>3. Words(Part(c), l) = Words(b, l)
        BY <1>3, <2>1, <2>2, WordsFacts
    <2>4. QED
        BY <1>4, <2>3
<1>6. ASSUME NEW d, \A j \in 1 .. ChunkSize * k : d[j] = c[j]
      PROVE  HashIn(d, s, k) = HashIn(c, s, k)
    <2>1. \A j \in 1 .. l : p + j \in 1 .. ChunkSize * k
        BY <1>2, <1>3
    <2>2. \A j \in 1 .. l : d[p + j] = c[p + j]
        BY <1>6, <2>1
    <2>3. Part(d) = Part(c)
        BY <2>2
    <2> HIDE DEF Part
    <2>4. QED
        BY <1>4, <2>3
<1>7. QED
    BY <1>5, <1>6 DEF l, p

\* The chunk is hashed.
LEMMA HashChunkKeeps ==
    ASSUME IInv, HashChunk
    PROVE  IInv'
<1> DEFINE h == Hash(Words(buffer, Want))
<1>1. /\ TypeOK /\ Placed /\ Copied /\ Clean /\ Indexed /\ Hashed
      /\ pc = "hash" /\ Looping /\ pc' = "write"
      /\ index' = [index EXCEPT ![i + 1] = h]
    BY DEF IInv, HashChunk, Looping
<1>2. /\ content' = content /\ exists' = exists /\ shrunk' = shrunk /\ size' = size
      /\ i' = i /\ put' = put /\ copy' = copy /\ fileHash' = fileHash
      /\ readErrors' = readErrors /\ writeErrors' = writeErrors
      /\ buffer' = buffer /\ got' = got /\ pos' = pos
    BY DEF HashChunk, file
<1>3. Want' = Want
    BY <1>2 DEF Want
<1>4. /\ i \in Nat /\ i < NumChunks(size) /\ NumChunks(size) \in Nat
      /\ Want \in 1 .. ChunkSize /\ ChunkSize \in Nat
      /\ Len(index) = NumChunks(size)
    BY <1>1, LoopFacts
<1>5. h \in Bytes /\ h % 64 = 32
    <2>1. Want \in 0 .. ChunkSize /\ \A j \in 1 .. Want : buffer[j] \in Bytes
        BY <1>1, <1>4 DEF TypeOK
    <2>2. Words(buffer, Want) \in Seq(Bytes)
        BY <2>1, WordsFacts
    <2>3. QED
        BY <2>2, HashFacts
<1>6. put = 0 /\ index \in Seq(Bytes) /\ copy \in Seq(Bytes)
    BY <1>1 DEF Placed, TypeOK
<1> HIDE DEF h
<1>7. /\ index' \in Seq(Bytes) /\ Len(index') = Len(index)
      /\ index'[i + 1] = h
      /\ \A k \in 1 .. i : index'[k] = index[k]
    <2>1. i + 1 \in 1 .. Len(index) /\ \A k \in 1 .. i : k \in 1 .. Len(index) /\ k # i + 1
        BY <1>4
    <2>2. QED
        BY <1>1, <1>5, <1>6, <2>1
<1>8. TypeOK'
    BY <1>1, <1>2, <1>3, <1>4, <1>6, <1>7 DEF TypeOK, Errors
<1>9. Placed'
    BY <1>1, <1>2 DEF Placed, Looping
<1>10. Copied'
    BY <1>1, <1>2 DEF Copied, Looping
<1>11. Clean'
    BY <1>1, <1>2, <1>3 DEF Clean, Looping, Errors
<1>12. Indexed'
    BY <1>1, <1>2, <1>3, <1>6, <1>7 DEF Indexed, h
<1>13. Hashed'
    BY <1>1, <1>2, <1>5, <1>7 DEF Hashed
<1>14. QED
    BY <1>8, <1>9, <1>10, <1>11, <1>12, <1>13 DEF IInv

\* To the next chunk, or out of the loop.
LEMMA NextChunkFacts ==
    ASSUME TypeOK, pc = "write", NextChunk, size' = size
    PROVE  /\ i' = i + 1 /\ i' \in Nat /\ got' = 0 /\ put' = 0
           /\ pc' \in {"read", "hashIndex"}
           /\ pc' = "read" =>
                /\ i' < NumChunks(size')
                /\ Want' \in 1 .. ChunkSize
                /\ ChunkSize * i' = ChunkSize * i + Want
           /\ pc' = "hashIndex" =>
                /\ i' = NumChunks(size') /\ NumChunks(size') > 0
                /\ size' > 0 /\ size' = ChunkSize * i + Want
<1>1. /\ size \in Int /\ size > 0 /\ i \in Nat /\ i < NumChunks(size)
      /\ NumChunks(size) \in Nat
      /\ ChunkSize * (i + 1) = ChunkSize * i + ChunkSize
      /\ i + 1 < NumChunks(size) => Want = ChunkSize
      /\ i + 1 = NumChunks(size) => ChunkSize * i + Want = size
    BY LoopFacts DEF Looping
<1>2. /\ i' = i + 1 /\ got' = 0 /\ put' = 0
      /\ pc' = IF i' < NumChunks(size) THEN "read" ELSE "hashIndex"
    BY DEF NextChunk
<1>3. pc' = "read" => Want' \in 1 .. ChunkSize
    <2>1. pc' = "read" => i' \in Nat /\ i' < NumChunks(size')
        BY <1>1, <1>2
    <2>2. QED
        BY <1>1, <2>1, ChunkFacts DEF Want
<1>4. QED
    BY <1>1, <1>2, <1>3

\* Bytes are written behind those that were written.
LEMMA WriteSomeKeeps ==
    ASSUME IInv, WriteSome
    PROVE  IInv'
<1>1. /\ TypeOK /\ Placed /\ Copied /\ Clean /\ Indexed /\ Hashed
      /\ pc = "write" /\ Looping
    BY DEF IInv, WriteSome, Write, Looping
<1>2. /\ size \in Int /\ size > 0 /\ i \in Nat /\ i < NumChunks(size)
      /\ NumChunks(size) \in Nat
      /\ Want \in 1 .. ChunkSize /\ ChunkSize \in Nat
      /\ ChunkSize * i \in Nat /\ ChunkSize * (i + 1) = ChunkSize * i + ChunkSize
    BY <1>1, LoopFacts
<1>3. /\ content' = content /\ exists' = exists /\ shrunk' = shrunk /\ size' = size
      /\ buffer' = buffer /\ pos' = pos /\ index' = index /\ fileHash' = fileHash
      /\ readErrors' = readErrors /\ writeErrors' = writeErrors
    BY DEF WriteSome, Write, file
<1>4. PICK n \in 1 .. Want - put :
        /\ copy' = copy \o SubSeq(buffer, put + 1, put + n)
        /\ IF put + n = Want THEN NextChunk
           ELSE put' = put + n /\ UNCHANGED <<pc, i, got>>
    BY DEF WriteSome
<1>5. /\ put \in Nat /\ put < Want /\ copy \in Seq(Bytes) /\ got \in 0 .. ChunkSize
      /\ buffer \in [1 .. ChunkSize -> Bytes]
    BY <1>1 DEF TypeOK
<1>6. n \in Nat /\ n > 0 /\ put + n <= Want /\ put + n <= ChunkSize
    BY <1>2, <1>4, <1>5
<1> DEFINE piece == SubSeq(buffer, put + 1, put + n)
<1>7. piece \in Seq(Bytes) /\ Len(piece) = n /\ \A j \in 1 .. n : piece[j] = buffer[put + j]
    <2>1. piece = [j \in 1 .. n |-> buffer[put + j]]
        <3>1. buffer \in Seq(Bytes) /\ Len(buffer) = ChunkSize
            BY <1>2, <1>5
        <3>2. /\ Len(piece) = n /\ piece \in Seq(Bytes)
              /\ \A j \in 1 .. n : piece[j] = buffer[put + j]
            <4>1. put + 1 \in 1 .. Len(buffer) + 1 /\ put + n \in put .. Len(buffer)
                  /\ (put + n) - (put + 1) + 1 = n
                BY <1>5, <1>6, <3>1
            <4>2. QED
                BY <1>5, <1>6, <3>1, <4>1, SubSeqProperties
        <3> HIDE DEF piece
        <3>3. QED
            BY <1>6, <3>2
    <2>2. \A j \in 1 .. n : buffer[put + j] \in Bytes
        <3>1. \A j \in 1 .. n : put + j \in 1 .. ChunkSize
            BY <1>2, <1>5, <1>6
        <3>2. QED
            BY <1>5, <3>1
    <2> HIDE DEF piece
    <2>3. QED
        BY <1>6, <2>1, <2>2
<1> HIDE DEF piece
<1>8. /\ copy' \in Seq(Bytes) /\ Len(copy') = Len(copy) + n /\ Len(copy) \in Nat
      /\ \A k \in 1 .. Len(copy) : copy'[k] = copy[k]
      /\ \A j \in 1 .. n : copy'[Len(copy) + j] = buffer[put + j]
    <2>1. copy' = copy \o piece
        BY <1>4 DEF piece
    <2>2. copy' \in Seq(Bytes) /\ Len(copy') = Len(copy) + n /\ Len(copy) \in Nat
        <3>1. /\ copy \o piece \in Seq(Bytes)
              /\ Len(copy \o piece) = Len(copy) + Len(piece)
            BY <1>5, <1>7, ConcatProperties
        <3>2. QED
            BY <1>5, <1>7, <2>1, <3>1
    <2>3. \A k \in 1 .. Len(copy) : copy'[k] = copy[k]
        BY <1>5, <1>7, <2>1
    <2>4. ASSUME NEW j \in 1 .. n PROVE copy'[Len(copy) + j] = buffer[put + j]
        <3>1. (copy \o piece)[Len(copy) + j] = piece[j]
            BY <1>5, <1>6, <1>7, <2>2
        <3>2. QED
            BY <1>7, <2>1, <3>1
    <2>5. QED
        BY <2>2, <2>3, <2>4
<1>9. ASSUME writeErrors = 0
      PROVE  /\ Len(copy) = ChunkSize * i + put
             /\ \A b \in 1 .. put + n : copy'[ChunkSize * i + b] = buffer[b]
    <2>1. Len(copy) = ChunkSize * i + put
        BY <1>1, <1>9 DEF Copied
    <2>2. ASSUME NEW b \in 1 .. put + n PROVE copy'[ChunkSize * i + b] = buffer[b]
        <3>1. CASE b \in 1 .. put
            <4>1. ChunkSize * i + b \in 1 .. Len(copy)
                BY <1>2, <1>5, <2>1, <3>1
            <4>2. copy[ChunkSize * i + b] = buffer[b]
                BY <1>1, <1>9, <3>1 DEF Indexed
            <4>3. QED
                BY <1>8, <4>1, <4>2
        <3>2. CASE b \notin 1 .. put
            <4>1. b - put \in 1 .. n /\ Len(copy) + (b - put) = ChunkSize * i + b
                  /\ put + (b - put) = b
                BY <1>2, <1>5, <1>6, <2>1, <3>2
            <4>2. QED
                BY <1>8, <4>1
        <3>3. QED
            BY <3>1, <3>2
    <2>3. QED
        BY <2>1, <2>2
<1>10. ASSUME writeErrors = 0, NEW k \in 1 .. i
       PROVE  index'[k] = HashIn(copy', size', k)
    <2>1. k \in Nat \ {0} /\ k <= NumChunks(size)
        BY <1>2
    <2>2. \A j \in 1 .. ChunkSize * k : copy'[j] = copy[j]
        <3>1. ChunkSize * i = ChunkSize * k + ChunkSize * (i - k)
              /\ ChunkSize * (i - k) \in Nat /\ ChunkSize * k \in Nat
            BY <1>2
        <3> DEFINE ci == ChunkSize * i
                   ck == ChunkSize * k
                   cd == ChunkSize * (i - k)
        <3>2. ck \in Nat /\ ck <= Len(copy) /\ Len(copy) \in Nat
            <4>1. ci = ck + cd /\ cd \in Nat /\ ck \in Nat /\ Len(copy) = ci + put
                BY <1>9, <1>10, <3>1
            <4> HIDE DEF ci, ck, cd
            <4>2. QED
                BY <1>5, <4>1
        <3>3. QED
            BY <1>8, <3>1, <3>2
    <2>3. HashIn(copy', size, k) = HashIn(copy, size, k)
        BY <1>2, <2>1, <2>2, HashInFacts
    <2>4. index[k] = HashIn(copy, size, k)
        BY <1>1, <1>10 DEF Indexed
    <2>5. QED
        BY <1>3, <2>3, <2>4
<1>11. ASSUME exists, Errors = 0
       PROVE  /\ writeErrors = 0
              /\ size = ToInt(Len(content)) /\ pos = ChunkSize * i + got /\ got = Want
              /\ \A k \in 1 .. got : buffer[k] = content[ChunkSize * i + k]
              /\ \A k \in 1 .. Len(copy') : copy'[k] = content[k]
    <2>1. writeErrors = 0
        BY <1>1, <1>11 DEF Errors, Placed
    <2>2. /\ size = ToInt(Len(content)) /\ pos = ChunkSize * i + got /\ got = Want
          /\ \A k \in 1 .. got : buffer[k] = content[ChunkSize * i + k]
          /\ \A k \in 1 .. Len(copy) : copy[k] = content[k]
        BY <1>1, <1>11 DEF Clean
    <2>3. ASSUME NEW k \in 1 .. Len(copy') PROVE copy'[k] = content[k]
        <3>1. CASE k \in 1 .. Len(copy)
            BY <1>8, <2>2, <3>1
        <3>2. CASE k \notin 1 .. Len(copy)
            <4>1. k - ChunkSize * i \in 1 .. put + n /\ k - ChunkSize * i \in 1 .. got
                  /\ ChunkSize * i + (k - ChunkSize * i) = k
                BY <1>2, <1>5, <1>6, <1>8, <1>9, <2>1, <2>2, <3>2
            <4>2. QED
                BY <1>9, <2>1, <2>2, <4>1
        <3>3. QED
            BY <3>1, <3>2
    <2>4. QED
        BY <2>1, <2>2, <2>3
<1>12. CASE put + n = Want
    <2>1. NextChunk
        BY <1>4, <1>12
    <2>2. /\ i' = i + 1 /\ i' \in Nat /\ got' = 0 /\ put' = 0
          /\ pc' \in {"read", "hashIndex"}
          /\ pc' = "read" =>
               /\ i' < NumChunks(size')
               /\ Want' \in 1 .. ChunkSize
               /\ ChunkSize * i' = ChunkSize * i + Want
          /\ pc' = "hashIndex" =>
               /\ i' = NumChunks(size') /\ NumChunks(size') > 0
               /\ size' > 0 /\ size' = ChunkSize * i + Want
        BY <1>1, <1>3, <2>1, NextChunkFacts
    <2> DEFINE ci == ChunkSize * i
               cn == ChunkSize * i'
    <2>3. /\ ci \in Nat /\ Want \in Nat
          /\ writeErrors = 0 => Len(copy) = ci + put
          /\ pc' = "read" => cn = ci + Want
          /\ pc' = "hashIndex" => size' = ci + Want
          /\ exists /\ Errors = 0 => pos = ci + got /\ got = Want
        BY <1>2, <1>9, <1>11, <2>2
    <2>4. TypeOK'
        <3>1. /\ {got', put'} \subseteq 0 .. ChunkSize
              /\ pc' = "read" => got' < Want' /\ i' < NumChunks(size')
            BY <1>2, <2>2
        <3>2. /\ content' \in Seq(Bytes) /\ exists' \in BOOLEAN /\ shrunk' \in BOOLEAN
              /\ size' \in Ints /\ pos' \in 0 .. Len(content') /\ index' \in Seq(Bytes)
              /\ fileHash' \in {-1} \cup Bytes /\ Errors' \in 0 .. MaxErrors
              /\ buffer' \in [1 .. ChunkSize -> Bytes]
              /\ Len(index') = (IF NumChunks(size') > 0 THEN NumChunks(size') ELSE 0)
            BY <1>1, <1>3 DEF TypeOK, Errors
        <3>3. QED
            BY <1>8, <2>2, <3>1, <3>2 DEF TypeOK
    <2>5. Placed'
        BY <1>1, <1>3, <2>2 DEF Placed, Looping
    <2>6. Copied'
        <3> HIDE DEF ci, cn
        <3>1. writeErrors = 0 => Len(copy') = ci + Want
            <4>1. Len(copy') = Len(copy) + n
                BY <1>8
            <4>2. QED
                BY <1>5, <1>6, <1>12, <2>3, <4>1
        <3>2. writeErrors = 0 /\ pc' = "read" => Len(copy') = cn + put'
            BY <1>2, <2>2, <2>3, <3>1
        <3>3. writeErrors = 0 /\ pc' = "hashIndex" => Len(copy') = size'
            BY <2>3, <3>1
        <3>4. QED
            BY <1>3, <2>2, <3>2, <3>3 DEF Copied, Looping, cn
    <2>7. Clean'
        <3> HIDE DEF ci, cn
        <3>1. pc' = "read" /\ exists /\ Errors = 0 => pos' = cn + got'
            <4>1. pos' = pos /\ got' = 0
                BY <1>3, <2>2
            <4>2. QED
                BY <2>3, <4>1
        <3>2. QED
            BY <1>3, <1>11, <2>2, <3>1 DEF Clean, Looping, Errors, cn
    <2>8. Indexed'
        <3>1. ASSUME writeErrors = 0 PROVE index'[i + 1] = HashIn(copy', size', i + 1)
            <4>1. i + 1 \in Nat \ {0} /\ i + 1 <= NumChunks(size) /\ (i + 1) - 1 = i
                BY <1>2
            <4>2. SizeOfChunk(size, (i + 1) - 1) = Want
                BY <4>1 DEF Want
            <4>3. \A j \in 1 .. Want : buffer[j] \in Bytes
                                       /\ copy'[ChunkSize * ((i + 1) - 1) + j] = buffer[j]
                BY <1>2, <1>5, <1>9, <1>12, <3>1, <4>1
            <4>4. HashIn(copy', size, i + 1) = Hash(Words(buffer, Want))
                BY <1>2, <4>1, <4>2, <4>3, HashInFacts
            <4>5. index[i + 1] = Hash(Words(buffer, Want))
                BY <1>1, <3>1 DEF Indexed
            <4>6. QED
                BY <1>3, <4>4, <4>5
        <3>2. \A k \in 1 .. i' : k \in 1 .. i \/ k = i + 1
            BY <1>2, <2>2
        <3>3. QED
            BY <1>3, <1>10, <2>2, <3>1, <3>2 DEF Indexed
    <2>9. Hashed'
        <3>1. \A k \in 1 .. i' : k \in 1 .. i \/ k = i + 1
            BY <1>2, <2>2
        <3>2. QED
            BY <1>1, <1>3, <2>2, <3>1 DEF Hashed
    <2>10. QED
        BY <2>4, <2>5, <2>6, <2>7, <2>8, <2>9 DEF IInv
<1>13. CASE put + n # Want
    <2>1. put' = put + n /\ pc' = pc /\ i' = i /\ got' = got
        BY <1>4, <1>13
    <2>2. Want' = Want
        BY <1>3, <2>1 DEF Want
    <2>3. TypeOK'
        BY <1>1, <1>2, <1>3, <1>5, <1>6, <1>8, <1>13, <2>1, <2>2 DEF TypeOK, Errors
    <2>4. Placed'
        BY <1>1, <1>3, <2>1 DEF Placed, Looping
    <2>5. Copied'
        <3> DEFINE ci == ChunkSize * i
        <3>1. ci \in Nat /\ (writeErrors = 0 => Len(copy) = ci + put)
            BY <1>2, <1>9
        <3> HIDE DEF ci
        <3>2. writeErrors = 0 => Len(copy') = ci + put'
            BY <1>5, <1>6, <1>8, <2>1, <3>1
        <3>3. QED
            BY <1>1, <1>3, <2>1, <3>2 DEF Copied, Looping, ci
    <2>6. Clean'
        BY <1>1, <1>3, <1>11, <2>1, <2>2 DEF Clean, Looping, Errors
    <2>7. Indexed'
        <3>1. writeErrors = 0 => index[i + 1] = Hash(Words(buffer, Want))
            BY <1>1 DEF Indexed
        <3>2. QED
            BY <1>1, <1>3, <1>9, <1>10, <2>1, <2>2, <3>1 DEF Indexed
    <2>8. Hashed'
        BY <1>1, <1>3, <2>1 DEF Hashed
    <2>9. QED
        BY <2>3, <2>4, <2>5, <2>6, <2>7, <2>8 DEF IInv
<1>14. QED
    BY <1>12, <1>13


\* A write fails: from now on the copy is not what the index says.
LEMMA WriteErrorKeeps ==
    ASSUME IInv, WriteError
    PROVE  IInv'
<1>1. /\ TypeOK /\ Placed /\ Hashed
      /\ pc = "write" /\ Looping /\ NextChunk
    BY DEF IInv, WriteError, Write, Looping
<1>2. /\ content' = content /\ exists' = exists /\ shrunk' = shrunk /\ size' = size
      /\ buffer' = buffer /\ pos' = pos /\ index' = index /\ fileHash' = fileHash
      /\ readErrors' = readErrors /\ copy' = copy
    BY DEF WriteError, Write, file
<1>3. /\ readErrors \in Nat /\ writeErrors \in Nat /\ MaxErrors \in Nat
      /\ writeErrors' = writeErrors + 1 /\ Errors < MaxErrors
    BY <1>1, UploadAssumption DEF Placed, WriteError
<1>4. writeErrors' \in Nat /\ writeErrors' # 0 /\ Errors' \in 0 .. MaxErrors /\ Errors' # 0
    BY <1>2, <1>3 DEF Errors
<1>5. /\ i' = i + 1 /\ i' \in Nat /\ got' = 0 /\ put' = 0
      /\ pc' \in {"read", "hashIndex"}
      /\ pc' = "read" => i' < NumChunks(size') /\ Want' \in 1 .. ChunkSize
      /\ pc' = "hashIndex" => i' = NumChunks(size') /\ NumChunks(size') > 0
    BY <1>1, <1>2, NextChunkFacts
<1>6. i \in Nat /\ ChunkSize \in Nat
    BY <1>1, LoopFacts
<1>7. TypeOK'
    <2>1. /\ {got', put'} \subseteq 0 .. ChunkSize
          /\ pc' = "read" => got' < Want' /\ i' < NumChunks(size')
        BY <1>5, <1>6
    <2>2. /\ content' \in Seq(Bytes) /\ exists' \in BOOLEAN /\ shrunk' \in BOOLEAN
          /\ size' \in Ints /\ pos' \in 0 .. Len(content') /\ index' \in Seq(Bytes)
          /\ fileHash' \in {-1} \cup Bytes /\ copy' \in Seq(Bytes)
          /\ buffer' \in [1 .. ChunkSize -> Bytes]
          /\ Len(index') = (IF NumChunks(size') > 0 THEN NumChunks(size') ELSE 0)
        BY <1>1, <1>2 DEF TypeOK
    <2>3. QED
        BY <1>4, <1>5, <2>1, <2>2 DEF TypeOK
<1>8. Placed'
    BY <1>2, <1>3, <1>4, <1>5 DEF Placed, Looping
<1>9. Copied'
    BY <1>4 DEF Copied
<1>10. Clean'
    BY <1>4 DEF Clean
<1>11. Indexed'
    BY <1>4 DEF Indexed
<1>12. Hashed'
    <2>1. \A k \in 1 .. i' : k \in 1 .. i \/ k = i + 1
        BY <1>5, <1>6
    <2>2. QED
        BY <1>1, <1>2, <1>5, <2>1 DEF Hashed
<1>13. QED
    BY <1>7, <1>8, <1>9, <1>10, <1>11, <1>12 DEF IInv

\* The index is hashed, or is too long to be.
LEMMA HashIndexKeeps ==
    ASSUME IInv, HashIndex
    PROVE  IInv'
<1>1. /\ TypeOK /\ Placed /\ Copied /\ Clean /\ Indexed /\ Hashed
      /\ pc = "hashIndex" /\ pc' \in {"done", "dead"}
    BY DEF IInv, HashIndex
<1>2. /\ content' = content /\ exists' = exists /\ shrunk' = shrunk /\ size' = size
      /\ i' = i /\ buffer' = buffer /\ got' = got /\ put' = put /\ pos' = pos
      /\ copy' = copy /\ index' = index
      /\ readErrors' = readErrors /\ writeErrors' = writeErrors
    BY DEF HashIndex, file
<1>3. index \in Seq(Bytes)
    BY <1>1 DEF TypeOK
<1>4. /\ fileHash' \in {-1} \cup Bytes
      /\ pc' = "done" => fileHash' % 64 = 32
    <2>1. Hash(index) \in Bytes /\ Hash(index) % 64 = 32
        BY <1>3, HashFacts
    <2>2. CASE NumChunks(size) < 0
        BY <1>1, <2>2 DEF HashIndex, TypeOK
    <2>3. CASE ~(NumChunks(size) < 0)
        BY <2>1, <2>3 DEF HashIndex
    <2>4. QED
        BY <2>2, <2>3
<1>5. TypeOK'
    BY <1>1, <1>2, <1>4 DEF TypeOK, Errors
<1>6. Placed'
    BY <1>1, <1>2 DEF Placed, Looping
<1>7. Copied'
    BY <1>1, <1>2 DEF Copied, Looping
<1>8. Clean'
    BY <1>1, <1>2 DEF Clean, Looping, Errors
<1>9. Indexed'
    BY <1>1, <1>2 DEF Indexed
<1>10. Hashed'
    BY <1>1, <1>2, <1>4 DEF Hashed
<1>11. QED
    BY <1>5, <1>6, <1>7, <1>8, <1>9, <1>10 DEF IInv

\* What somebody else does to the file, and a step that does nothing.
LEMMA OthersKeep ==
    ASSUME IInv,
           UNCHANGED <<file, pc, size, i, buffer, got, put, pos, copy, index, fileHash,
                       readErrors, writeErrors>>,
           shrunk' \in BOOLEAN
    PROVE  IInv'
<1>1. /\ TypeOK /\ Placed /\ Copied /\ Clean /\ Indexed /\ Hashed
      /\ content' = content /\ exists' = exists /\ size' = size /\ pc' = pc
      /\ i' = i /\ buffer' = buffer /\ got' = got /\ put' = put /\ pos' = pos
      /\ copy' = copy /\ index' = index /\ fileHash' = fileHash
      /\ readErrors' = readErrors /\ writeErrors' = writeErrors
    BY DEF IInv, file
<1>2. Want' = Want /\ Looping' = Looping /\ Errors' = Errors
    BY <1>1 DEF Want, Looping, Errors
<1>3. TypeOK'
    BY <1>1, <1>2 DEF TypeOK
<1>4. Placed'
    BY <1>1, <1>2 DEF Placed
<1>5. Copied'
    BY <1>1, <1>2 DEF Copied
<1>6. Clean'
    BY <1>1, <1>2 DEF Clean
<1>7. Indexed'
    BY <1>1, <1>2 DEF Indexed
<1>8. Hashed'
    BY <1>1 DEF Hashed
<1>9. QED
    BY <1>3, <1>4, <1>5, <1>6, <1>7, <1>8 DEF IInv

\* Every step keeps them.
LEMMA NextKeeps ==
    ASSUME IInv, [Next]_vars
    PROVE  IInv'
<1>1. CASE Stat
    BY <1>1, StatKeeps
<1>2. CASE ReadSome
    BY <1>2, ReadSomeKeeps
<1>3. CASE ReadError
    BY <1>3, ReadErrorKeeps
<1>4. CASE HashChunk
    BY <1>4, HashChunkKeeps
<1>5. CASE WriteSome
    BY <1>5, WriteSomeKeeps
<1>6. CASE WriteError
    BY <1>6, WriteErrorKeeps
<1>7. CASE HashIndex
    BY <1>7, HashIndexKeeps
<1>8. CASE Shrink
    <2>1. shrunk' \in BOOLEAN
        BY <1>8 DEF Shrink
    <2>2. QED
        BY <1>8, <2>1, OthersKeep DEF Shrink
<1>9. CASE UNCHANGED vars
    <2>1. shrunk' \in BOOLEAN
        BY <1>9 DEF vars, IInv, TypeOK
    <2>2. QED
        BY <1>9, <2>1, OthersKeep DEF vars
<1>10. QED
    BY <1>1, <1>2, <1>3, <1>4, <1>5, <1>6, <1>7, <1>8, <1>9 DEF Next, Step

\* They hold in every state, whatever is assumed of progress.
THEOREM Invariance == FairSpec => []IInv
<1>1. Init => IInv
    BY InitKeeps
<1>2. IInv /\ [Next]_vars => IInv'
    BY NextKeeps
<1>3. QED
    BY <1>1, <1>2, PTL DEF FairSpec

-----------------------------------------------------------------------------
(* What follows from them. *)

\* The upload's variables have their types: the chunk in work is one of the file's,
\* reads and writes stay within it and within its buffer, and the index has as many
\* entries as the file has chunks.
THEOREM TypeCorrect == FairSpec => []TypeOK
<1>1. IInv => TypeOK
    BY DEF IInv
<1>2. QED
    BY <1>1, Invariance, PTL

\* A copy that met no error is the file, as far as file_size goes, which is all of it
\* for a file whose size is an int.
THEOREM CopiesAreFiles == FairSpec => []CopyIsFile
<1>1. ASSUME IInv, pc = "done", exists, Errors = 0
      PROVE  /\ copy = SubSeq(content, 1, size)
             /\ Len(content) \in Ints => copy = content
    <2> DEFINE n == Len(content)
    <2>1. /\ content \in Seq(Bytes) /\ copy \in Seq(Bytes) /\ size \in Int
          /\ writeErrors = 0
        BY <1>1, UploadAssumption DEF IInv, TypeOK, Placed, Errors, Ints
    <2>2. /\ size = ToInt(n)
          /\ \A k \in 1 .. Len(copy) : copy[k] = content[k]
          /\ Len(copy) = IF size > 0 THEN size ELSE 0
        BY <1>1, <2>1 DEF IInv, Clean, Copied, Looping
    <2>3. n \in Nat
        BY <2>1
    <2>4. size <= n /\ (n \in Ints => size = n)
        BY <2>2, <2>3, IntOfSize
    <2> HIDE DEF n
    <2>5. \A k \in 1 .. size : content[k] \in Bytes
        <3>1. \A k \in 1 .. size : k \in 1 .. n
            BY <2>1, <2>3, <2>4
        <3>2. QED
            BY <2>1, <3>1 DEF n
    <2> DEFINE part == SubSeq(content, 1, size)
    <2>6. /\ part \in Seq(Bytes)
          /\ Len(part) = IF size > 0 THEN size ELSE 0
          /\ \A k \in 1 .. size : part[k] = content[k]
        <3>1. /\ part \in Seq(Bytes)
              /\ Len(part) = IF 1 <= size THEN size - 1 + 1 ELSE 0
              /\ \A k \in 1 .. size - 1 + 1 : part[k] = content[1 + k - 1]
            BY <2>1, <2>5, SubSeqProperties
        <3> HIDE DEF part
        <3>2. size - 1 + 1 = size /\ \A k \in 1 .. size : 1 + k - 1 = k
            BY <2>1
        <3>3. QED
            BY <2>1, <3>1, <3>2
    <2> HIDE DEF part
    <2>7. copy = part
        <3>1. Len(copy) = Len(part)
            BY <2>2, <2>6
        <3>2. \A k \in 1 .. Len(copy) : copy[k] = part[k]
            BY <2>1, <2>2, <2>6
        <3>3. QED
            BY <2>1, <2>6, <3>1, <3>2, SeqEqual
    <2>8. ASSUME n \in Ints PROVE copy = content
        <3>1. Len(copy) = n
            BY <2>2, <2>3, <2>4, <2>8
        <3>2. QED
            BY <2>1, <2>2, <3>1, SeqEqual DEF n
    <2>9. QED
        BY <2>7, <2>8 DEF n, part
<1>2. IInv => CopyIsFile
    BY <1>1 DEF CopyIsFile
<1>3. QED
    BY <1>2, Invariance, PTL

\* As long as no write failed, the index describes the copy: each of its hashes is
\* that of the chunk of the copy that is in its place, also when reads failed.
THEOREM IndexDescribesCopy == FairSpec => []IndexIsOfCopy
<1>1. ASSUME IInv, pc = "done", writeErrors = 0, NEW k \in DOMAIN index
      PROVE  LET l == SizeOfChunk(size, k - 1)
                 chunk == SubSeq(copy, ChunkSize * (k - 1) + 1, ChunkSize * (k - 1) + l)
             IN Len(chunk) = l /\ index[k] = Hash(Words(chunk, l))
    <2> DEFINE l == SizeOfChunk(size, k - 1)
               p == ChunkSize * (k - 1)
               chunk == SubSeq(copy, p + 1, p + l)
    <2>1. /\ index \in Seq(Bytes) /\ copy \in Seq(Bytes) /\ size \in Int
          /\ Len(index) = IF NumChunks(size) > 0 THEN NumChunks(size) ELSE 0
          /\ i = IF NumChunks(size) > 0 THEN NumChunks(size) ELSE 0
        BY <1>1, UploadAssumption DEF IInv, TypeOK, Placed, Looping, Ints
    <2>2. NumChunks(size) \in Int /\ (size > 0 <=> NumChunks(size) > 0)
        BY <2>1, CountFacts
    <2>3. k \in 1 .. Len(index)
        BY <2>1
    <2>4. k \in Nat \ {0} /\ k <= NumChunks(size) /\ k \in 1 .. i /\ size > 0
        BY <2>1, <2>2, <2>3
    <2>5. k - 1 \in Nat /\ k - 1 < NumChunks(size)
        BY <2>2, <2>4
    <2>6. l \in 1 .. ChunkSize /\ p \in Nat /\ p + l <= size
        BY <2>1, <2>5, ChunkFacts
    <2>7. Len(copy) = size
        BY <1>1, <2>4 DEF IInv, Copied, Looping
    <2>8. index[k] = HashIn(copy, size, k)
        BY <1>1, <2>4 DEF IInv, Indexed
    <2>9. ChunkSize \in Nat
        BY UploadAssumption
    <2> HIDE DEF l, p
    <2>10. /\ Len(chunk) = l
           /\ \A j \in 1 .. l : chunk[j] \in Bytes /\ copy[p + j] = chunk[j]
        <3>1. p + 1 \in Int /\ p + l \in Int /\ p + 1 <= p + l
              /\ (p + l) - (p + 1) + 1 = l
            BY <2>6, <2>9
        <3>2. \A j \in (p + 1) .. (p + l) : copy[j] \in Bytes
            <4>1. \A j \in (p + 1) .. (p + l) : j \in 1 .. Len(copy)
                BY <2>1, <2>6, <2>7, <2>9
            <4>2. QED
                BY <2>1, <4>1
        <3>3. /\ chunk \in Seq(Bytes)
              /\ Len(chunk) = l
              /\ \A j \in 1 .. l : chunk[j] = copy[(p + 1) + j - 1]
            BY <3>1, <3>2, SubSeqProperties
        <3> HIDE DEF chunk
        <3>4. \A j \in 1 .. l : (p + 1) + j - 1 = p + j
            BY <2>6, <2>9
        <3>5. QED
            BY <3>3, <3>4
    <2> HIDE DEF chunk
    <2>11. HashIn(copy, size, k) = Hash(Words(chunk, l))
        BY <2>1, <2>4, <2>10, HashInFacts DEF l, p
    <2>12. QED
        BY <2>8, <2>10, <2>11 DEF l, p, chunk
<1>2. IInv => IndexIsOfCopy
    BY <1>1 DEF IndexIsOfCopy
<1>3. QED
    BY <1>2, Invariance, PTL

\* No data hashes to zero, which the hub answers for a name that nobody uploaded.
THEOREM HashesAreNotZero == FairSpec => []HashNeverZero
<1>1. ASSUME IInv, pc = "done", NEW h \in {fileHash} \cup {index[k] : k \in DOMAIN index}
      PROVE  h % 64 = 32
    <2>1. /\ index \in Seq(Bytes) /\ size \in Int
          /\ Len(index) = IF NumChunks(size) > 0 THEN NumChunks(size) ELSE 0
          /\ i = IF NumChunks(size) > 0 THEN NumChunks(size) ELSE 0
          /\ fileHash % 64 = 32 /\ \A k \in 1 .. i : index[k] % 64 = 32
        BY <1>1, UploadAssumption DEF IInv, TypeOK, Placed, Hashed, Looping, Ints
    <2>2. DOMAIN index = 1 .. i
        BY <2>1
    <2>3. QED
        BY <1>1, <2>1, <2>2
<1>2. IInv => HashNeverZero
    BY <1>1 DEF HashNeverZero
<1>3. QED
    BY <1>2, Invariance, PTL


=============================================================================
