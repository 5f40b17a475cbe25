--------------------------- MODULE ByteArray_proofs ---------------------------
(***************************************************************************)
(* Proofs about the chunk list of ByteArray, for any size of chunks, any   *)
(* bound on their number, any payloads and lengths.                        *)
(***************************************************************************)
EXTENDS ByteArray, SequenceTheorems, TLAPS

-----------------------------------------------------------------------------
(* Quotients and remainders.                                               *)

LEMMA DivMod ==
  ASSUME NEW a \in Nat, NEW b \in Nat \ {0}
  PROVE  /\ a \div b \in Nat /\ a % b \in 0 .. b - 1
         /\ a = (a \div b) * b + (a % b)
<1>1. a \div b \in Nat
  BY SMT
<1>2. a % b \in 0 .. b - 1
  BY SMT
<1>3. a % b = a - (a \div b) * b
  BY SMT
<1>4. ASSUME NEW x \in Int, NEW r \in Int, r = a - x
      PROVE  a = x + r
  BY <1>4
<1>5. (a \div b) * b \in Int
  BY <1>1
<1> QED
  BY <1>1, <1>2, <1>3, <1>4, <1>5

LEMMA DivModOf ==
  ASSUME NEW b \in Nat \ {0}, NEW q \in Nat, NEW r \in 0 .. b - 1
  PROVE  (q * b + r) \div b = q /\ (q * b + r) % b = r
OBVIOUS

LEMMA DivModSum ==
  ASSUME NEW b \in Nat \ {0}, NEW q \in Nat, NEW p \in Nat, NEW r \in 0 .. b - 1,
         NEW y \in Nat, NEW a \in Nat, NEW m \in Nat, a = q * b + y, y + m = p * b + r
  PROVE  (a + m) \div b = q + p /\ (a + m) % b = r
<1>1. (q + p) * b = q * b + p * b /\ q * b \in Nat /\ p * b \in Nat
  OBVIOUS
<1>2. a + m = (q + p) * b + r
  BY <1>1
<1> QED
  BY <1>2, DivModOf

LEMMA DivModAdd ==
  ASSUME NEW a \in Nat, NEW m \in Nat, NEW b \in Nat \ {0}
  PROVE  /\ (a + m) \div b = a \div b + ((a % b) + m) \div b
         /\ (a + m) % b = ((a % b) + m) % b
<1> DEFINE q == a \div b
           y == a % b
           p == (y + m) \div b
           r == (y + m) % b
<1>1. q \in Nat /\ y \in Nat /\ a = q * b + y
  BY DivMod
<1>2. p \in Nat /\ r \in 0 .. b - 1 /\ y + m = p * b + r
  <2> HIDE DEF q, y
  <2>1. y + m \in Nat
    BY <1>1
  <2> QED
    BY <2>1, DivMod
<1>3. (a + m) \div b = q + p /\ (a + m) % b = r
  <2> HIDE DEF q, y, p, r
  <2> QED
    BY <1>1, <1>2, DivModSum
<1> QED
  BY <1>3

\* More chunks, more bytes.
LEMMA Multiples ==
  ASSUME NEW b \in Nat \ {0}, NEW p \in Nat, NEW q \in Nat
  PROVE  /\ p * b \in Nat
         /\ p <= q <=> p * b <= q * b
         /\ p < q <=> p * b + b <= q * b
<1>1. p * b \in Nat /\ q * b \in Nat
  OBVIOUS
<1>2. ASSUME p <= q
      PROVE  p * b <= q * b
  BY <1>2
<1>3. ASSUME p < q
      PROVE  p * b + b <= q * b
  <2>1. (p + 1) * b <= q * b
    BY <1>3
  <2> QED
    BY <2>1
<1>4. ASSUME q < p
      PROVE  q * b + b <= p * b
  <2>1. (q + 1) * b <= p * b
    BY <1>4
  <2> QED
    BY <2>1
<1>5. ASSUME q <= p
      PROVE  q * b <= p * b
  BY <1>5
<1> QED
  BY <1>1, <1>2, <1>3, <1>4, <1>5

-----------------------------------------------------------------------------
(* The pointer.                                                            *)

\* Capacities are whole numbers of chunks.
Whole(c) == \E k \in 1 .. MaxChunks : c = k * Base

\* The chunk byte p (from 0) is in, its place there.
ChunkOf(p) == p \div Base + 1

ArrayInv ==
  /\ Whole(capacity) /\ position \in Nat /\ size \in Nat
  /\ position <= size /\ size <= capacity
  /\ memory \in Cells
  /\ cur = Following(ChunkOf(position), capacity)

LEMMA ChunkFacts ==
  ASSUME NEW c, Whole(c), NEW p \in Nat, p <= c
  PROVE  /\ c \in Nat \ {0} /\ ChunkOf(p) \in Nat \ {0}
         /\ p < c => ChunkOf(p) \in 1 .. MaxChunks /\ Following(ChunkOf(p), c) = ChunkOf(p)
         /\ p = c => Following(ChunkOf(p), c) = 0 /\ c \div Base + 1 = ChunkOf(p)
<1> DEFINE q == p \div Base
           r == p % Base
<1>0. Base \in Nat \ {0} /\ MaxChunks \in Nat \ {0}
  BY ByteArrayAssumption
<1>1. q \in Nat /\ r \in 0 .. Base - 1 /\ p = q * Base + r
  BY <1>0, DivMod
<1>2. PICK k \in 1 .. MaxChunks : c = k * Base
  BY DEF Whole
<1> HIDE DEF q, r
<1>3. k \in Nat /\ c \in Nat /\ q * Base \in Nat
  BY <1>0, <1>1, <1>2, Multiples
<1>4. (q + 1) * Base = q * Base + Base
  BY <1>0, <1>1
<1>5. q < k <=> q * Base + Base <= k * Base
  BY <1>0, <1>1, <1>3, Multiples
<1>6. 1 * Base <= k * Base
  BY <1>0, <1>2
<1>7. c # 0
  BY <1>0, <1>2, <1>3, <1>6
<1>8. ASSUME p < c
      PROVE  q < k /\ (q + 1) * Base <= c
  <2>1. CASE q < k
    BY <2>1, <1>2, <1>4, <1>5
  <2>2. CASE k <= q
    <3>1. k * Base <= q * Base
      BY <2>2, <1>0, <1>1, <1>3, Multiples
    <3> QED
      BY <3>1, <1>8, <1>0, <1>1, <1>2, <1>3
  <2> QED
    BY <2>1, <2>2, <1>1, <1>3
<1>9. ASSUME p = c
      PROVE  ~((q + 1) * Base <= c)
  BY <1>9, <1>0, <1>1, <1>3, <1>4
<1> QED
  BY <1>0, <1>1, <1>3, <1>7, <1>8, <1>9 DEF ChunkOf, Following, q

\* The pointer is moved as the position is.
LEMMA MovesAlong ==
  ASSUME NEW p \in Nat, NEW n \in Nat
  PROVE  ChunkOf(p) + ((p % Base) + n) \div Base = ChunkOf(p + n)
<1>1. (p + n) \div Base = p \div Base + ((p % Base) + n) \div Base
  BY ByteArrayAssumption, DivModAdd
<1>2. p \div Base \in Nat /\ p % Base \in Nat
  BY ByteArrayAssumption, DivMod
<1>3. (p % Base) + n \in Nat
  BY <1>2
<1>4. ((p % Base) + n) \div Base \in Nat
  BY <1>3, ByteArrayAssumption, DivMod
<1>5. ASSUME NEW x \in Nat, NEW y \in Nat, NEW z, z = x + y
      PROVE  x + 1 + y = z + 1
  BY <1>5
<1> QED
  BY <1>1, <1>2, <1>4, <1>5 DEF ChunkOf

\* addCapacity() makes room, and leaves the pointer where the next byte is.
LEMMA GrownFacts ==
  ASSUME ArrayInv, NEW n \in Nat, Grown(n) <= Base * MaxChunks
  PROVE  /\ Whole(Grown(n)) /\ capacity <= Grown(n) /\ position + n <= Grown(n)
         /\ n = 0 => Grown(n) = capacity
         /\ n > 0 => CurGrown(n) = ChunkOf(position)
         /\ CurGrown(n) = Following(ChunkOf(position), Grown(n))
<1>0. Base \in Nat \ {0} /\ MaxChunks \in Nat \ {0}
  BY ByteArrayAssumption
<1>1. PICK k \in 1 .. MaxChunks : capacity = k * Base
  BY DEF ArrayInv, Whole
<1>2. capacity \in Nat /\ position \in Nat /\ position <= capacity
  BY <1>0, <1>1 DEF ArrayInv
<1>3. CASE Room >= n
  <2>1. Grown(n) = capacity
    BY <1>3 DEF Grown
  <2>2. position + n <= capacity
    BY <1>2, <1>3 DEF Room
  <2>3. CurGrown(n) = cur
    BY <1>2, <1>3 DEF CurGrown, Room
  <2>4. n > 0 => Following(ChunkOf(position), capacity) = ChunkOf(position)
    BY <2>2, <1>2, ChunkFacts DEF ArrayInv
  <2> QED
    BY <2>1, <2>2, <2>3, <2>4, <1>2 DEF ArrayInv
<1>4. CASE ~(Room >= n)
  <2> DEFINE m == n - Room + Base - 1
             g == m \div Base
  <2>1. n - Room \in Nat \ {0} /\ m \in Nat /\ Room \in Nat
    BY <1>0, <1>2, <1>4 DEF Room
  <2>2. g \in Nat /\ g * Base + Base > m
    <3> HIDE DEF m
    <3>1. m \div Base \in Nat /\ m % Base \in 0 .. Base - 1
          /\ m = (m \div Base) * Base + (m % Base)
      BY <2>1, <1>0, DivMod
    <3>2. (m \div Base) * Base \in Nat
      BY <3>1, <1>0
    <3> QED
      BY <3>1, <3>2, <2>1, <1>0
  <2>3. Grown(n) = capacity + Base * g
    BY <1>4 DEF Grown
  <2> HIDE DEF g
  <2>4. g * Base \in Nat /\ Base * g = g * Base
    BY <2>2, <1>0
  <2>5. g * Base >= n - Room
    BY <2>1, <2>2, <2>4, <1>0
  <2>6. position + n <= Grown(n) /\ capacity <= Grown(n)
    BY <2>1, <2>3, <2>4, <2>5, <1>2 DEF Room
  <2>7. Grown(n) = (k + g) * Base
    BY <2>2, <2>3, <2>4, <1>0, <1>1
  <2>8. k + g \in 1 .. MaxChunks
    <3>1. MaxChunks * Base = Base * MaxChunks
      BY <1>0
    <3>2. (k + g) * Base <= MaxChunks * Base
      BY <3>1, <2>7
    <3>3. k + g \in Nat \ {0}
      BY <2>2
    <3> QED
      BY <3>2, <3>3, <1>0, Multiples
  <2>9. Whole(Grown(n))
    BY <2>7, <2>8 DEF Whole
  <2>10. position < Grown(n) /\ position <= Grown(n)
    BY <2>1, <2>3, <2>4, <2>6, <1>2, <1>4 DEF Room
  <2>11. Following(ChunkOf(position), Grown(n)) = ChunkOf(position)
    BY <2>9, <2>10, <1>2, ChunkFacts
  <2>12. CurGrown(n) = ChunkOf(position)
    <3>1. CASE Room = 0
      BY <3>1, <1>2, <1>4, ChunkFacts DEF CurGrown, Room, ArrayInv
    <3>2. CASE Room # 0
      <4>1. CurGrown(n) = cur
        BY <3>2 DEF CurGrown
      <4>2. position < capacity
        BY <3>2, <1>2 DEF Room
      <4> QED
        BY <4>1, <4>2, <1>2, ChunkFacts DEF ArrayInv
    <3> QED
      BY <3>1, <3>2
  <2>13. n # 0
    BY <2>1, <1>4
  <2> QED
    BY <2>6, <2>9, <2>11, <2>12, <2>13
<1> QED
  BY <1>3, <1>4

\* What is put into the memory is bytes.
LEMMA ScatterType ==
  ASSUME ArrayInv, NEW k, NEW t \in Seq(Byte)
  PROVE  Scatter(k, t) \in Cells
<1> DEFINE I(m, o) == {i \in 1 .. Len(t) : At(k, i-1) = <<m, o>>}
           new(m, o) == IF I(m, o) = {} THEN memory[m][o] ELSE t[CHOOSE i \in I(m, o) : TRUE]
<1>1. ASSUME NEW m \in 1 .. MaxChunks, NEW o \in 0 .. Base - 1
      PROVE  new(m, o) \in Byte \cup {Junk}
  <2>1. memory[m][o] \in Byte \cup {Junk}
    BY DEF ArrayInv, Cells
  <2>2. ASSUME I(m, o) # {}
        PROVE  t[CHOOSE i \in I(m, o) : TRUE] \in Byte
    <3>1. (CHOOSE i \in I(m, o) : TRUE) \in I(m, o)
      BY <2>2
    <3>2. (CHOOSE i \in I(m, o) : TRUE) \in 1 .. Len(t)
      BY <3>1
    <3> QED
      BY <3>2
  <2> QED
    BY <2>1, <2>2
<1>2. Scatter(k, t) = [m \in 1 .. MaxChunks |-> [o \in 0 .. Base - 1 |-> new(m, o)]]
  BY DEF Scatter
<1> QED
  <2> HIDE DEF new
  <2> QED
    BY <1>1, <1>2 DEF Cells

LEMMA PutType ==
  ASSUME ArrayInv, NEW t \in Seq(Byte), PutBytes(t)
  PROVE  ArrayInv'
<1> DEFINE n == Len(t)
<1>0. n \in Nat /\ position \in Nat /\ size \in Nat /\ position <= size /\ size <= capacity
  BY DEF ArrayInv
<1>1. /\ Grown(n) <= Base * MaxChunks /\ capacity' = Grown(n)
      /\ memory' = Scatter(CurGrown(n), t)
      /\ cur' = IF n = 0 THEN cur ELSE After(CurGrown(n), n, Grown(n))
      /\ position' = position + n
      /\ size' = IF position + n > size THEN position + n ELSE size
  BY DEF PutBytes
<1>2. /\ Whole(Grown(n)) /\ capacity <= Grown(n) /\ position + n <= Grown(n)
      /\ n = 0 => Grown(n) = capacity
      /\ n > 0 => CurGrown(n) = ChunkOf(position)
  BY <1>0, <1>1, GrownFacts
<1>3. Grown(n) \in Nat /\ capacity \in Nat
  BY <1>0, <1>2, ChunkFacts DEF ArrayInv
<1>4. memory' \in Cells
  BY <1>1, ScatterType
<1>5. Whole(capacity)'
  BY <1>1, <1>2 DEF Whole
<1>6. cur' = Following(ChunkOf(position'), capacity')
  <2>1. CASE n = 0
    BY <2>1, <1>0, <1>1, <1>2 DEF ArrayInv
  <2>2. CASE n > 0
    BY <2>2, <1>0, <1>1, <1>2, MovesAlong DEF After
  <2> QED
    BY <2>1, <2>2, <1>0
<1> HIDE DEF n
<1>7. position' \in Nat /\ size' \in Nat /\ position' <= size' /\ size' <= capacity'
  BY <1>0, <1>1, <1>2, <1>3
<1> QED
  BY <1>4, <1>5, <1>6, <1>7 DEF ArrayInv, Following, ChunkOf

LEMMA ReceiveType ==
  ASSUME ArrayInv, NEW n \in Nat, NEW t \in Seq(Byte), Receive(n, t)
  PROVE  ArrayInv'
<1> DEFINE l == Len(t)
<1>0. l \in Nat /\ position \in Nat /\ size \in Nat /\ position <= size /\ size <= capacity
  BY DEF ArrayInv
<1>1. /\ l \in 1 .. n /\ Grown(n) <= Base * MaxChunks /\ capacity' = Grown(n)
      /\ memory' = Scatter(CurGrown(n), t)
      /\ position' = position + l
      /\ size' = IF position + l > size THEN position + l ELSE size
      /\ cur' = Following(ChunkOf(position'), capacity')
  BY DEF Receive, Seek, ChunkOf
<1>2. Whole(Grown(n)) /\ capacity <= Grown(n) /\ position + n <= Grown(n)
  BY <1>1, GrownFacts
<1>3. Grown(n) \in Nat /\ capacity \in Nat
  BY <1>0, <1>2, ChunkFacts DEF ArrayInv
<1>4. memory' \in Cells
  BY <1>1, ScatterType
<1>5. Whole(capacity)'
  BY <1>1, <1>2 DEF Whole
<1> HIDE DEF l
<1>6. position' \in Nat /\ size' \in Nat /\ position' <= size' /\ size' <= capacity'
  BY <1>0, <1>1, <1>2, <1>3
<1> QED
  BY <1>1, <1>4, <1>5, <1>6 DEF ArrayInv, Following, ChunkOf

LEMMA ArrayInit == Init => ArrayInv
<1> SUFFICES ASSUME Init PROVE ArrayInv
  OBVIOUS
<1>0. Base \in Nat \ {0} /\ MaxChunks \in Nat \ {0}
  BY ByteArrayAssumption
<1>1. capacity = 1 * Base /\ 1 \in 1 .. MaxChunks
  BY <1>0 DEF Init
<1>2. Whole(capacity)
  BY <1>1 DEF Whole
<1>3. ChunkOf(0) = 1
  BY <1>0 DEF ChunkOf
<1>4. memory \in Cells
  BY DEF Init, Cells, NewChunk
<1> QED
  BY <1>0, <1>2, <1>3, <1>4 DEF Init, ArrayInv, Following

\* All other operations on the array.
LEMMA ArrayStep ==
  ASSUME ArrayInv, NEW n \in Nat, NEW m \in Nat,
         \/ Read(n) \/ ReadRefused(n) \/ ReceiveFails(n) \/ Send(n, m) \/ SetPosition(n)
         \/ ReadNothing \/ Clear \/ ToString \/ StartSave \/ SaveChunk \/ EndSave
         \/ (\E t \in Seq(Byte) : StartLoad(t)) \/ UNCHANGED vars
  PROVE  ArrayInv'
<1>0. Base \in Nat \ {0} /\ MaxChunks \in Nat \ {0}
  BY ByteArrayAssumption
<1>1. position \in Nat /\ size \in Nat /\ capacity \in Nat /\ position <= size /\ size <= capacity
  BY ChunkFacts DEF ArrayInv
<1>2. CASE Read(n)
  <2>1. /\ n <= ReadSize /\ cur # 0 /\ position' = position + n
        /\ cur' = IF n = 0 THEN cur ELSE After(cur, n, capacity)
        /\ memory' = memory /\ capacity' = capacity /\ size' = size
    BY <1>2 DEF Read
  <2>2. cur = ChunkOf(position)
    BY <2>1 DEF ArrayInv, Following
  <2>3. cur' = Following(ChunkOf(position'), capacity')
    <3>1. CASE n = 0
      BY <3>1, <1>1, <2>1 DEF ArrayInv
    <3>2. CASE n # 0
      BY <3>2, <1>1, <2>1, <2>2, MovesAlong DEF After
    <3> QED
      BY <3>1, <3>2
  <2>4. position' \in Nat /\ position' <= size'
    BY <1>1, <2>1 DEF ReadSize
  <2> QED
    BY <2>1, <2>3, <2>4 DEF ArrayInv, Whole, Following, ChunkOf
<1>3. CASE ReceiveFails(n)
  <2>1. /\ Grown(n) <= Base * MaxChunks /\ capacity' = Grown(n) /\ cur' = CurGrown(n)
        /\ memory' = memory /\ position' = position /\ size' = size
    BY <1>3 DEF ReceiveFails
  <2>2. Whole(Grown(n)) /\ capacity <= Grown(n) /\ cur' = Following(ChunkOf(position), Grown(n))
    BY <2>1, GrownFacts
  <2>3. Grown(n) \in Nat
    BY <1>1, <2>2, ChunkFacts
  <2>4. size <= Grown(n)
    BY <1>1, <2>2, <2>3
  <2> QED
    BY <2>1, <2>2, <2>4 DEF ArrayInv, Whole, Following, ChunkOf
<1>4. CASE Send(n, m)
  <2>1. /\ m \in 1 .. ReadSize /\ position' = position + m
        /\ memory' = memory /\ capacity' = capacity /\ size' = size
        /\ cur' = Following(ChunkOf(position'), capacity')
    BY <1>4 DEF Send, Seek, ChunkOf
  <2>2. position' \in Nat /\ position' <= size'
    BY <1>1, <2>1 DEF ReadSize
  <2> QED
    BY <2>1, <2>2 DEF ArrayInv, Whole, Following, ChunkOf
<1>5. CASE SetPosition(n)
  <2>1. CASE n > capacity
    BY <2>1, <1>5 DEF SetPosition, arrayVars, ArrayInv, Whole, Following, ChunkOf
  <2>2. CASE ~(n > capacity)
    <3>1. /\ position' = n /\ size' = (IF n > size THEN n ELSE size)
          /\ memory' = memory /\ capacity' = capacity
          /\ cur' = Following(ChunkOf(position'), capacity')
      BY <2>2, <1>5 DEF SetPosition, Seek, ChunkOf
    <3>2. position' \in Nat /\ size' \in Nat /\ position' <= size' /\ size' <= capacity'
      BY <1>1, <2>2, <3>1
    <3> QED
      BY <3>1, <3>2 DEF ArrayInv, Whole, Following, ChunkOf
  <2> QED
    BY <2>1, <2>2
<1>6. CASE Clear
  <2>1. /\ position' = 0 /\ size' = 0 /\ capacity' = Base /\ cur' = 1
        /\ memory' = [k \in 1 .. MaxChunks |-> IF k = 1 THEN memory[1] ELSE NewChunk]
    BY <1>6 DEF Clear
  <2>2. memory' \in Cells
    <3>1. NewChunk \in [0 .. Base - 1 -> Byte \cup {Junk}] /\ 1 \in 1 .. MaxChunks
      BY <1>0 DEF NewChunk
    <3> QED
      BY <2>1, <3>1 DEF ArrayInv, Cells
  <2>3. capacity' = 1 * Base /\ 1 \in 1 .. MaxChunks /\ ChunkOf(0) = 1
    BY <1>0, <2>1 DEF ChunkOf
  <2>4. Whole(capacity')
    BY <2>3 DEF Whole
  <2>5. cur' = Following(ChunkOf(position'), capacity')
    <3>1. cur' = 1 /\ ChunkOf(position') = 1 /\ 1 * Base <= capacity'
      BY <1>0, <2>1, <2>3
    <3> QED
      BY <3>1 DEF Following
  <2>6. position' \in Nat /\ size' \in Nat /\ position' <= size' /\ size' <= capacity'
    BY <1>0, <2>1
  <2> QED
    BY <2>2, <2>4, <2>5, <2>6 DEF ArrayInv, Whole, Following, ChunkOf
<1>7. CASE UNCHANGED arrayVars
  BY <1>7 DEF arrayVars, ArrayInv, Whole, Following, ChunkOf
<1> QED
  BY <1>2, <1>3, <1>4, <1>5, <1>6, <1>7 DEF ReadRefused, ReadNothing, ToString, StartSave,
     SaveChunk, EndSave, StartLoad, vars

-----------------------------------------------------------------------------
(* The file operations.                                                    *)

Bytes == Byte \cup {Junk}
Saves == [kind : {"save"}, cur : 0 .. MaxChunks, pos : Nat, left : Nat, good : BOOLEAN, file : Seq(Bytes)]
Loads == [kind : {"load"}, rest : Seq(Byte)]

\* writeToFile() that starts inside a chunk with less than a chunk to save never
\* comes to an end: what is left and the place in the chunk swap, until the
\* pointer has run off the list.
SaveLost ==
  /\ position % Base # 0 /\ ReadSize < Base
  /\ job.left \in 1 .. Base - 1 /\ job.pos % Base \in 1 .. Base - 1

\* Any other is where its own position says, from the second chunk on at the
\* beginning of a chunk.
SaveRight ==
  /\ job.pos + job.left = size /\ position <= job.pos /\ job.good
  /\ job.left > 0 =>
       /\ job.cur = Following(ChunkOf(job.pos), capacity)
       /\ job.pos % Base = 0 \/ (job.pos = position /\ ReadSize >= Base)

JobInv ==
  /\ job \in {NoJob} \cup Saves \cup Loads
  /\ job.kind = "save" => SaveLost \/ SaveRight
  /\ fault \in BOOLEAN
  /\ fault => \/ job = NoJob /\ position = capacity
              \/ job.kind = "save" /\ position % Base # 0 /\ ReadSize < Base

\* The list ends in time.
LEMMA FollowingType ==
  ASSUME Whole(capacity), NEW k \in Nat \ {0}
  PROVE  Following(k, capacity) \in 0 .. MaxChunks
<1>0. Base \in Nat \ {0} /\ MaxChunks \in Nat \ {0}
  BY ByteArrayAssumption
<1>1. PICK c \in 1 .. MaxChunks : capacity = c * Base
  BY DEF Whole
<1>2. k * Base <= c * Base => k <= c
  BY <1>0, Multiples
<1> QED
  BY <1>0, <1>1, <1>2 DEF Following

\* A chunk is saved.
LEMMA SaveChunkRight ==
  ASSUME ArrayInv, JobInv, SaveChunk, SaveRight
  PROVE  /\ fault' = FALSE /\ job' \in Saves /\ SaveRight'
         /\ job.cur = ChunkOf(job.pos) /\ job.pos < size /\ job'.pos > job.pos
         /\ (job.pos % Base) + (job'.pos - job.pos) <= Base
         /\ job'.file = job.file \o [i \in 1 .. job'.pos - job.pos |->
                                       memory[job.cur][(job.pos % Base) + i - 1]]
<1> DEFINE diff == job.pos % Base
           len == (IF job.left > Base THEN Base ELSE job.left) - diff
           piece == [i \in 1 .. len |-> memory[job.cur][diff + i - 1]]
<1>0. Base \in Nat \ {0} /\ MaxChunks \in Nat \ {0}
  BY ByteArrayAssumption
<1>1. /\ job.kind = "save" /\ fault = FALSE /\ job.left > 0 /\ job \in Saves
      /\ position' = position /\ size' = size /\ capacity' = capacity /\ memory' = memory
  BY DEF SaveChunk, JobInv, arrayVars, NoJob, Loads
<1>2. job.pos \in Nat /\ job.left \in Nat /\ job.cur \in Nat /\ job.file \in Seq(Bytes)
  BY <1>1 DEF Saves
<1>3. /\ job.pos + job.left = size /\ position <= job.pos /\ job.good = TRUE
      /\ job.cur = Following(ChunkOf(job.pos), capacity)
      /\ job.pos % Base = 0 \/ (job.pos = position /\ ReadSize >= Base)
  BY <1>1 DEF SaveRight, Saves
<1>4. position \in Nat /\ size \in Nat /\ capacity \in Nat /\ size <= capacity
  BY ChunkFacts DEF ArrayInv
<1>5. job.pos < size /\ job.pos < capacity
  BY <1>1, <1>2, <1>3, <1>4
<1>6. job.cur = ChunkOf(job.pos) /\ job.cur # 0 /\ job.cur \in 1 .. MaxChunks
  BY <1>2, <1>3, <1>4, <1>5, ChunkFacts DEF ArrayInv
<1>7. diff \in 0 .. Base - 1
  BY <1>0, <1>2, DivMod
<1>8. len \in 1 .. job.left /\ diff + len <= Base /\ (diff + len < Base => len = job.left)
  <2>1. CASE diff = 0
    BY <2>1, <1>0, <1>1, <1>2
  <2>2. CASE diff # 0
    <3>1. job.left >= Base
      BY <2>2, <1>2, <1>3, <1>4 DEF ReadSize
    <3> HIDE DEF diff
    <3> QED
      BY <3>1, <2>2, <1>0, <1>1, <1>2, <1>7
  <2> QED
    BY <2>1, <2>2
<1> HIDE DEF len, diff
<1>9. /\ job' = [job EXCEPT !.cur = Following(job.cur + 1, capacity), !.pos = job.pos + len,
                            !.left = job.left - len, !.good = TRUE, !.file = job.file \o piece]
      /\ fault' = fault
  <2>1. len >= 0
    BY <1>8
  <2> QED
    BY <2>1, <1>1, <1>3, <1>6 DEF SaveChunk, len, diff
<1>10. piece \in Seq(Bytes)
  <2>1. ASSUME NEW i \in 1 .. len
        PROVE  memory[job.cur][diff + i - 1] \in Bytes
    <3>1. diff + i - 1 \in 0 .. Base - 1
      BY <1>0, <1>2, <1>7, <1>8
    <3> QED
      BY <3>1, <1>6 DEF ArrayInv, Cells, Bytes
  <2>2. len \in Nat
    BY <1>2, <1>8
  <2> QED
    BY <2>1, <2>2
<1> HIDE DEF piece
<1>11. /\ job'.kind = "save" /\ job'.pos = job.pos + len /\ job'.left = job.left - len
       /\ job'.cur = Following(job.cur + 1, capacity) /\ job'.good = TRUE
       /\ job'.file = job.file \o piece
  BY <1>1, <1>9 DEF Saves
<1>12. job' \in Saves
  <2>1. job.left - len \in Nat /\ job.pos + len \in Nat
        /\ Following(job.cur + 1, capacity) \in 0 .. MaxChunks
    <3>1. job.cur + 1 \in Nat \ {0}
      BY <1>2
    <3>2. Following(job.cur + 1, capacity) \in 0 .. MaxChunks
      BY <3>1, FollowingType, Zenon DEF ArrayInv
    <3> QED
      BY <3>2, <1>2, <1>8
  <2>2. job.file \o piece \in Seq(Bytes)
    BY <1>2, <1>10, ConcatProperties
  <2> QED
    BY <2>1, <2>2, <1>1, <1>9 DEF Saves
<1>13. ASSUME job'.left > 0
       PROVE  ChunkOf(job'.pos) = job.cur + 1 /\ job'.pos % Base = 0
  <2>1. diff + len = Base
    BY <1>13, <1>0, <1>2, <1>7, <1>8, <1>11
  <2>2. job.pos \div Base \in Nat /\ job.pos = (job.pos \div Base) * Base + diff
    BY <1>0, <1>2, DivMod DEF diff
  <2> DEFINE q == job.pos \div Base
  <2> HIDE DEF q
  <2>3. (q + 1) * Base + 0 = job.pos + len
    <3>1. q \in Nat /\ job.pos = q * Base + diff
      BY <2>2 DEF q
    <3>2. q * Base \in Nat /\ (q + 1) * Base = q * Base + Base
      BY <3>1, <1>0
    <3> QED
      BY <3>1, <3>2, <2>1, <1>0, <1>2, <1>7, <1>8
  <2>4. q + 1 \in Nat /\ 0 \in 0 .. Base - 1
    BY <2>2, <1>0 DEF q
  <2>5. (job.pos + len) \div Base = q + 1 /\ (job.pos + len) % Base = 0
    <3> DEFINE p == q + 1
    <3>1. (p * Base + 0) \div Base = p /\ (p * Base + 0) % Base = 0
      <4>1. p \in Nat
        BY <2>4
      <4> HIDE DEF p
      <4> QED
        BY <4>1, <2>4, <1>0, DivModOf
    <3> QED
      BY <3>1, <2>3
  <2> QED
    BY <2>5, <1>6, <1>11 DEF ChunkOf, q
<1>14. job'.pos + job'.left = size /\ position <= job'.pos /\ job'.pos > job.pos
       /\ job'.pos - job.pos = len
  <2>1. job'.pos = job.pos + len /\ job'.left = job.left - len
    BY <1>11
  <2>2. len \in Nat /\ len > 0
    BY <1>2, <1>8
  <2>3. job.pos \in Nat /\ job.left \in Nat /\ size \in Nat /\ position \in Nat
    BY <1>2, <1>4
  <2>4. job.pos + job.left = size /\ position <= job.pos
    BY <1>3
  <2> QED
    BY <2>1, <2>2, <2>3, <2>4
<1>15. SaveRight'
  BY <1>1, <1>11, <1>13, <1>14 DEF SaveRight, Following, ChunkOf
<1> QED
  BY <1>1, <1>5, <1>6, <1>8, <1>9, <1>11, <1>12, <1>14, <1>15 DEF diff, piece

\* ... by one that began inside a chunk with less than a chunk to save.
LEMMA SaveChunkLost ==
  ASSUME ArrayInv, JobInv, SaveChunk, SaveLost
  PROVE  \/ fault' = TRUE /\ job' = job
         \/ fault' = FALSE /\ job' \in Saves /\ SaveLost'
<1> DEFINE diff == job.pos % Base
           len == (IF job.left > Base THEN Base ELSE job.left) - diff
           piece == [i \in 1 .. len |-> memory[job.cur][diff + i - 1]]
           good == job.good /\ len >= 0
           file == IF good THEN job.file \o piece ELSE job.file
<1>0. Base \in Nat \ {0} /\ MaxChunks \in Nat \ {0}
  BY ByteArrayAssumption
<1>1. /\ job.kind = "save" /\ ~fault /\ job \in Saves
      /\ position' = position /\ size' = size
  BY DEF SaveChunk, JobInv, arrayVars, NoJob, Loads
<1>2. job.pos \in Nat /\ job.left \in 1 .. Base - 1 /\ job.cur \in Nat /\ diff \in 1 .. Base - 1
      /\ job.good \in BOOLEAN
  BY <1>1 DEF Saves, SaveLost
<1>3. CASE job.cur = 0
  BY <1>3, <1>1 DEF SaveChunk, SaveLost
<1>4. CASE job.cur # 0
  <2>1. len = job.left - diff
    BY <1>0, <1>2
  <2>2. /\ job' = [job EXCEPT !.cur = Following(job.cur + 1, capacity), !.pos = job.pos + len,
                              !.left = job.left - len, !.good = good, !.file = file]
        /\ fault' = fault
    BY <1>1, <1>4 DEF SaveChunk
  <2>3. good \in BOOLEAN
    BY <1>2
  <2> HIDE DEF good, file, diff, len
  <2>4. job'.pos = job.pos + len /\ job'.left = job.left - len
    BY <1>1, <2>2 DEF Saves
  <2>5. /\ diff + len = job.left /\ job.left - len = diff
        /\ job.pos + len \in Nat /\ (job.pos + len) % Base = job.left
    <3>1. job.pos \div Base \in Nat /\ job.pos = (job.pos \div Base) * Base + diff
      BY <1>0, <1>2, DivMod DEF diff
    <3> DEFINE q == job.pos \div Base
    <3> HIDE DEF q
    <3>2. q \in Nat /\ job.pos = q * Base + diff
      BY <3>1 DEF q
    <3>3. q * Base \in Nat
      BY <3>2, <1>0
    <3>4. diff + len = job.left /\ job.left - len = diff /\ job.pos + len = q * Base + job.left
      BY <3>2, <3>3, <2>1, <1>0, <1>2
    <3>5. (q * Base + job.left) % Base = job.left
      <4>1. job.left \in 0 .. Base - 1
        BY <1>2
      <4> QED
        BY <4>1, <3>2, <1>0, DivModOf, Zenon
    <3> QED
      BY <3>3, <3>4, <3>5, <1>2
  <2>6. good => len \in Nat
    BY <2>1, <1>2 DEF good
  <2>7. file \in Seq(Bytes)
    <3>1. CASE good
      <4>1. ASSUME NEW i \in 1 .. len
            PROVE  memory[job.cur][diff + i - 1] \in Bytes
        <5>1. diff + i - 1 \in 0 .. Base - 1
          BY <2>5, <2>6, <3>1, <1>0, <1>2
        <5>2. job.cur \in 1 .. MaxChunks
          BY <1>0, <1>1, <1>4 DEF Saves
        <5> QED
          BY <5>1, <5>2 DEF ArrayInv, Cells, Bytes
      <4>2. piece \in Seq(Bytes)
        BY <4>1, <2>6, <3>1
      <4> HIDE DEF piece
      <4>3. job.file \o piece \in Seq(Bytes)
        BY <4>2, <1>1, ConcatProperties DEF Saves
      <4> QED
        BY <4>3, <3>1 DEF file
    <3>2. CASE ~good
      BY <3>2, <1>1 DEF file, Saves
    <3> QED
      BY <3>1, <3>2
  <2>8. job' \in Saves
    <3>1. job.cur + 1 \in Nat \ {0}
      BY <1>2
    <3>2. Following(job.cur + 1, capacity) \in 0 .. MaxChunks
      BY <3>1, FollowingType, Zenon DEF ArrayInv
    <3>3. job.left - len \in Nat /\ job.pos + len \in Nat
      BY <1>0, <1>2, <2>5
    <3> QED
      BY <3>2, <3>3, <1>1, <2>2, <2>3, <2>7 DEF Saves
  <2>9. job'.pos % Base = job.left
    BY <2>4, <2>5
  <2> QED
    BY <2>2, <2>4, <2>5, <2>8, <2>9, <1>1, <1>2 DEF SaveLost, ReadSize
<1> QED
  BY <1>3, <1>4

LEMMA JobKinds ==
  /\ NoJob.kind = "none" /\ NoJob \notin Saves \cup Loads
  /\ \A j \in Saves : j.kind = "save"
  /\ \A j \in Loads : j.kind = "load"
BY DEF NoJob, Saves, Loads

LEMMA JobInit == Init => JobInv
BY JobKinds DEF Init, JobInv

\* Nothing but the file operations touches a job.
LEMMA JobRest ==
  ASSUME ArrayInv, JobInv, Idle, UNCHANGED <<job, fault>>
  PROVE  JobInv'
BY JobKinds DEF Idle, JobInv

LEMMA JobStart ==
  ASSUME ArrayInv, JobInv, StartSave
  PROVE  JobInv' /\ job' \in Saves /\ job'.pos = position /\ job'.file = <<>>
         /\ (SaveRight \/ SaveLost)'
<1>0. Base \in Nat \ {0} /\ MaxChunks \in Nat \ {0}
  BY ByteArrayAssumption
<1>1. /\ job' = [kind |-> "save", cur |-> cur, pos |-> position, left |-> ReadSize,
                 good |-> TRUE, file |-> <<>>]
      /\ ~fault /\ fault' = fault /\ position' = position /\ size' = size
      /\ capacity' = capacity /\ cur' = cur
  BY DEF StartSave, Idle, arrayVars
<1>2. position \in Nat /\ size \in Nat /\ ReadSize \in Nat /\ position + ReadSize = size
  BY DEF ArrayInv, ReadSize
<1>3. cur \in 0 .. MaxChunks
  <2>1. ChunkOf(position) \in Nat \ {0}
    BY <1>2, ChunkFacts DEF ArrayInv
  <2> QED
    BY <2>1, FollowingType DEF ArrayInv
<1>4. <<>> \in Seq(Bytes)
  OBVIOUS
<1>5. job' \in Saves
  BY <1>1, <1>2, <1>3, <1>4 DEF Saves
<1>6. job'.kind = "save" /\ job'.pos = position /\ job'.left = ReadSize /\ job'.cur = cur /\ job'.good
      /\ job'.file = <<>>
  BY <1>1
<1>7. CASE ReadSize = 0 \/ position % Base = 0 \/ ReadSize >= Base
  <2>1. SaveRight'
    BY <1>1, <1>2, <1>6, <1>7 DEF SaveRight, ArrayInv, ReadSize, Following, ChunkOf
  <2> QED
    BY <2>1, <1>1, <1>5, <1>6 DEF JobInv, Idle
<1>8. CASE ~(ReadSize = 0 \/ position % Base = 0 \/ ReadSize >= Base)
  <2>1. position % Base \in 1 .. Base - 1
    BY <1>0, <1>2, <1>8, DivMod
  <2>2. SaveLost'
    BY <2>1, <1>0, <1>1, <1>2, <1>6, <1>8 DEF SaveLost, ReadSize
  <2> QED
    BY <2>2, <1>1, <1>5, <1>6 DEF JobInv, Idle
<1> QED
  BY <1>7, <1>8

LEMMA JobSave ==
  ASSUME ArrayInv, JobInv, SaveChunk
  PROVE  JobInv'
<1>1. SaveRight \/ SaveLost
  BY DEF SaveChunk, JobInv
<1>2. position' = position /\ size' = size /\ job \in Saves
  BY DEF SaveChunk, arrayVars, JobInv, NoJob, Loads
<1>3. CASE SaveRight
  BY <1>3, SaveChunkRight, JobKinds DEF JobInv
<1>4. CASE ~SaveRight
  <2>1. SaveLost
    BY <1>1, <1>4
  <2>2. CASE fault' = TRUE /\ job' = job
    <3>1. SaveLost' /\ position' % Base # 0 /\ ReadSize' < Base
      BY <1>2, <2>1, <2>2 DEF SaveLost, ReadSize
    <3> QED
      BY <1>2, <2>2, <3>1, JobKinds DEF JobInv
  <2>3. CASE fault' = FALSE /\ job' \in Saves /\ SaveLost'
    BY <2>3, JobKinds DEF JobInv
  <2> QED
    BY <2>1, <2>2, <2>3, SaveChunkLost
<1> QED
  BY <1>3, <1>4

LEMMA LoadPiece ==
  ASSUME JobInv, LoadChunk
  PROVE  \E n \in Nat : /\ n <= Len(job.rest) /\ job \in Loads /\ ~fault /\ fault' = fault
                        /\ SubSeq(job.rest, 1, n) \in Seq(Byte) /\ PutBytes(SubSeq(job.rest, 1, n))
                        /\ Len(SubSeq(job.rest, 1, n)) = n
                        /\ job' \in {NoJob} \cup Loads
<1> DEFINE n == IF Len(job.rest) < Base THEN Len(job.rest) ELSE Base
           rest == job.rest
<1>0. Base \in Nat \ {0}
  BY ByteArrayAssumption
<1>1. job \in Loads /\ ~fault /\ fault' = fault
  BY JobKinds DEF LoadChunk, JobInv
<1>2. rest \in Seq(Byte) /\ Len(rest) \in Nat
  BY <1>1 DEF Loads
<1>3. n \in Nat /\ n <= Len(rest)
  BY <1>0, <1>2
<1>4. PutBytes(SubSeq(rest, 1, n))
      /\ job' = IF n < Base THEN NoJob ELSE [job EXCEPT !.rest = SubSeq(rest, n + 1, Len(rest))]
  BY DEF LoadChunk
<1> HIDE DEF n
<1>5. SubSeq(rest, 1, n) \in Seq(Byte) /\ Len(SubSeq(rest, 1, n)) = n
  BY <1>2, <1>3, SubSeqProperties
<1>6. SubSeq(rest, n + 1, Len(rest)) \in Seq(Byte)
  BY <1>2, <1>3, SubSeqProperties
<1>7. job' \in {NoJob} \cup Loads
  BY <1>1, <1>4, <1>6 DEF Loads
<1> QED
  BY <1>1, <1>2, <1>3, <1>4, <1>5, <1>7

LEMMA Steps ==
  ASSUME [Next]_vars
  PROVE  \/ \E t \in Seq(Byte) : Write(t) \/ StartLoad(t)
         \/ \E n \in Nat : Read(n) \/ ReadRefused(n) \/ ReceiveFails(n) \/ SetPosition(n)
         \/ \E n \in Nat, t \in Seq(Byte) : Receive(n, t)
         \/ \E n \in Nat, m \in Nat : Send(n, m)
         \/ ReadNothing \/ Clear \/ ToString \/ StartSave \/ SaveChunk \/ EndSave \/ LoadChunk
         \/ UNCHANGED vars
<1>1. Payloads \subseteq Seq(Byte) /\ Lengths \subseteq Nat /\ Base * MaxChunks \in Nat
  BY ByteArrayAssumption
<1>2. 0 .. Base * MaxChunks \subseteq Nat
  BY <1>1
<1> QED
  BY <1>1, <1>2, Zenon DEF Next

\* What holds in every state.
ByteArrayInv == ArrayInv /\ JobInv

LEMMA ByteArrayStep == ByteArrayInv /\ [Next]_vars => ByteArrayInv'
<1> SUFFICES ASSUME ArrayInv, JobInv, [Next]_vars
             PROVE  ArrayInv' /\ JobInv'
  BY DEF ByteArrayInv
<1>1. ASSUME NEW t \in Seq(Byte), Write(t)
      PROVE  ArrayInv' /\ JobInv'
  BY <1>1, PutType, JobRest DEF Write
<1>2. ASSUME NEW t \in Seq(Byte), StartLoad(t)
      PROVE  ArrayInv' /\ JobInv'
  <2>1. job' \in Loads /\ fault' = fault /\ ~fault
    BY <1>2 DEF StartLoad, Idle, Loads
  <2>2. ArrayInv'
    BY <1>2, ArrayStep
  <2> QED
    BY <2>1, <2>2, JobKinds DEF JobInv
<1>3. ASSUME NEW n \in Nat, Read(n) \/ ReadRefused(n) \/ ReceiveFails(n) \/ SetPosition(n)
      PROVE  ArrayInv' /\ JobInv'
  BY <1>3, ArrayStep, JobRest DEF Read, ReadRefused, ReceiveFails, SetPosition
<1>4. ASSUME NEW n \in Nat, NEW t \in Seq(Byte), Receive(n, t)
      PROVE  ArrayInv' /\ JobInv'
  BY <1>4, ReceiveType, JobRest DEF Receive
<1>5. ASSUME NEW n \in Nat, NEW m \in Nat, Send(n, m)
      PROVE  ArrayInv' /\ JobInv'
  BY <1>5, ArrayStep, JobRest DEF Send
<1>6. CASE ReadNothing
  <2>1. ArrayInv'
    BY <1>6, ArrayStep
  <2>2. position = capacity
    <3>1. position \in Nat /\ position <= capacity /\ capacity \in Nat /\ Whole(capacity)
      BY ChunkFacts DEF ArrayInv
    <3>2. ~(position < capacity)
      BY <1>6, <3>1, ChunkFacts DEF ArrayInv, ReadNothing
    <3> QED
      BY <3>1, <3>2
  <2>3. job = NoJob /\ job' = job /\ fault' \in BOOLEAN /\ position' = position /\ capacity' = capacity
    BY <1>6 DEF ReadNothing, Idle, arrayVars
  <2> QED
    BY <2>1, <2>2, <2>3, JobKinds DEF JobInv
<1>7. CASE Clear \/ ToString
  BY <1>7, ArrayStep, JobRest DEF Clear, ToString
<1>8. CASE StartSave
  BY <1>8, ArrayStep, JobStart
<1>9. CASE SaveChunk
  BY <1>9, ArrayStep, JobSave
<1>10. CASE EndSave
  <2>1. job' = NoJob /\ fault' = fault /\ ~fault
    BY <1>10 DEF EndSave
  <2>2. ArrayInv'
    BY <1>10, ArrayStep
  <2> QED
    BY <2>1, <2>2, JobKinds DEF JobInv
<1>11. CASE LoadChunk
  <2>1. PICK n \in Nat : /\ SubSeq(job.rest, 1, n) \in Seq(Byte) /\ PutBytes(SubSeq(job.rest, 1, n))
                         /\ ~fault /\ fault' = fault /\ job' \in {NoJob} \cup Loads
    BY <1>11, LoadPiece
  <2>2. ArrayInv'
    BY <2>1, PutType
  <2>3. job'.kind # "save" /\ fault' = FALSE
    BY <2>1, JobKinds DEF JobInv
  <2> QED
    BY <2>1, <2>2, <2>3 DEF JobInv
<1>12. CASE UNCHANGED vars
  <2>1. ArrayInv'
    BY <1>12, ArrayStep
  <2> QED
    BY <2>1, <1>12 DEF vars, arrayVars, JobInv, SaveLost, SaveRight, ReadSize, Following, ChunkOf
<1> QED
  BY <1>1, <1>2, <1>3, <1>4, <1>5, <1>6, <1>7, <1>8, <1>9, <1>10, <1>11, <1>12, Steps

LEMMA ByteArrayInvariant == Spec => []ByteArrayInv
<1>1. Init => ByteArrayInv
  BY ArrayInit, JobInit DEF ByteArrayInv
<1> QED
  BY <1>1, ByteArrayStep, PTL DEF Spec

\* The pointer that is moved along is the one that would be computed, for every
\* chunk size: at, before and behind a boundary, with memory added while it is
\* null, after a receive that used less than it had reserved.  Null is followed
\* only where the property says.
THEOREM PointerIsRight == Spec => []PointerAtPosition
<1>1. ByteArrayInv => PointerAtPosition
  BY DEF ByteArrayInv, ArrayInv, JobInv, PointerAtPosition, ChunkOf
<1> QED
  BY <1>1, ByteArrayInvariant, PTL

-----------------------------------------------------------------------------
(* Sequences.                                                              *)

\* A piece of s is replaced by t, which may reach past its end.
LEMMA Spliced ==
  ASSUME NEW S, NEW s \in Seq(S), NEW t \in Seq(S), NEW p \in Nat, p <= Len(s),
         NEW u \in Seq(S), Len(u) = (IF p + Len(t) > Len(s) THEN p + Len(t) ELSE Len(s)),
         \A i \in 1 .. Len(u) : u[i] = IF p < i /\ i <= p + Len(t) THEN t[i - p] ELSE s[i]
  PROVE  u = SubSeq(s, 1, p) \o t \o SubSeq(s, p + Len(t) + 1, Len(s))
<1> DEFINE a == SubSeq(s, 1, p)
           b == SubSeq(s, p + Len(t) + 1, Len(s))
           n == Len(s)
           l == Len(t)
<1>0. n \in Nat /\ l \in Nat /\ \A i \in 1 .. n : s[i] \in S
  OBVIOUS
<1>1. a \in Seq(S) /\ Len(a) = p /\ \A i \in 1 .. p : a[i] = s[i]
  BY <1>0, SubSeqProperties
<1>2. /\ b \in Seq(S) /\ Len(b) = IF p + l + 1 <= n THEN n - p - l ELSE 0
      /\ \A i \in 1 .. n - p - l : b[i] = s[p + l + i]
  <2>1. p + l + 1 \in Int /\ \A i \in p + l + 1 .. n : s[i] \in S
    BY <1>0
  <2> DEFINE m == p + l + 1
  <2>2. /\ b \in Seq(S) /\ Len(b) = IF m <= n THEN n - m + 1 ELSE 0
        /\ \A i \in 1 .. n - m + 1 : b[i] = s[m + i - 1]
    <3>1. m \in Int /\ n \in Int /\ \A i \in m .. n : s[i] \in S
      BY <1>0, <2>1
    <3>2. b = SubSeq(s, m, n)
      OBVIOUS
    <3> HIDE DEF m, n, b
    <3> QED
      BY <3>1, <3>2, SubSeqProperties
  <2> HIDE DEF b, n, l
  <2>3. b \in Seq(S) /\ Len(b) = IF p + l + 1 <= n THEN n - p - l ELSE 0
    BY <1>0, <2>2
  <2>4. ASSUME NEW i \in 1 .. n - p - l
        PROVE  b[i] = s[p + l + i]
    <3>1. i \in 1 .. n - m + 1 /\ m + i - 1 = p + l + i
      BY <1>0
    <3> QED
      BY <2>2, <3>1
  <2> QED
    BY <2>3, <2>4
<1> HIDE DEF a, b
<1>3. /\ a \o t \in Seq(S) /\ Len(a \o t) = p + l
      /\ \A i \in 1 .. p + l : (a \o t)[i] = IF i <= p THEN s[i] ELSE t[i - p]
  <2>1. /\ a \o t \in Seq(S) /\ Len(a \o t) = Len(a) + Len(t)
        /\ \A i \in 1 .. Len(a) + Len(t) : (a \o t)[i] = IF i <= Len(a) THEN a[i] ELSE t[i - Len(a)]
    BY <1>1, ConcatProperties
  <2>2. Len(a) = p /\ Len(t) = l
    BY <1>1
  <2> DEFINE e == a \o t
  <2>3. /\ e \in Seq(S) /\ Len(e) = Len(a) + Len(t)
        /\ \A i \in 1 .. Len(a) + Len(t) : e[i] = IF i <= Len(a) THEN a[i] ELSE t[i - Len(a)]
    BY <2>1
  <2> HIDE DEF n, l, e
  <2>4. /\ e \in Seq(S) /\ Len(e) = p + l
        /\ \A i \in 1 .. p + l : e[i] = IF i <= p THEN a[i] ELSE t[i - p]
    BY <2>2, <2>3
  <2>5. ASSUME NEW i \in 1 .. p + l
        PROVE  e[i] = IF i <= p THEN s[i] ELSE t[i - p]
    <3>1. CASE i <= p
      BY <1>0, <1>1, <2>4, <3>1
    <3>2. CASE ~(i <= p)
      BY <2>4, <3>2
    <3> QED
      BY <3>1, <3>2
  <2> QED
    BY <2>4, <2>5 DEF e
<1> DEFINE c == a \o t
<1> HIDE DEF c
<1>4. c \in Seq(S) /\ Len(c) = p + l /\ \A i \in 1 .. p + l : c[i] = IF i <= p THEN s[i] ELSE t[i - p]
  BY <1>3 DEF c
<1>5. /\ c \o b \in Seq(S) /\ Len(c \o b) = Len(c) + Len(b)
      /\ \A i \in 1 .. Len(c) + Len(b) : (c \o b)[i] = IF i <= Len(c) THEN c[i] ELSE b[i - Len(c)]
  <2>1. c \in Seq(S)
    BY <1>4
  <2>2. b \in Seq(S)
    BY <1>2
  <2> QED
    BY <2>1, <2>2, ConcatProperties
<1> DEFINE d == c \o b
<1> HIDE DEF d
<1>6. Len(u) = Len(d)
  <2>1. Len(d) = p + l + Len(b)
    BY <1>4, <1>5 DEF d
  <2>2. Len(u) = IF p + l > n THEN p + l ELSE n
    OBVIOUS
  <2>3. Len(b) = IF p + l + 1 <= n THEN n - p - l ELSE 0
    BY <1>2
  <2>4. ASSUME NEW m \in Nat, NEW k \in Nat, NEW x, NEW y, NEW z,
               x = (IF p + k > m THEN p + k ELSE m),
               y = (IF p + k + 1 <= m THEN m - p - k ELSE 0), z = p + k + y
        PROVE  x = z
    BY <2>4
  <2> HIDE DEF n, l
  <2> QED
    BY <1>0, <2>1, <2>2, <2>3, <2>4
<1>7. ASSUME NEW i \in 1 .. Len(u)
      PROVE  u[i] = d[i]
  <2>1. i \in 1 .. Len(c) + Len(b) /\ d[i] = IF i <= Len(c) THEN c[i] ELSE b[i - Len(c)]
    BY <1>5, <1>6 DEF d
  <2>2. u[i] = IF p < i /\ i <= p + l THEN t[i - p] ELSE s[i]
    OBVIOUS
  <2>3. CASE i <= p + l
    <3>1. d[i] = c[i] /\ c[i] = IF i <= p THEN s[i] ELSE t[i - p]
      BY <1>0, <1>4, <2>1, <2>3
    <3> QED
      BY <1>0, <2>2, <2>3, <3>1
  <2>4. CASE i > p + l
    <3>1. d[i] = b[i - (p + l)]
      BY <1>0, <1>4, <2>1, <2>4
    <3>2. i - (p + l) \in 1 .. n - p - l /\ p + l + (i - (p + l)) = i
      BY <1>0, <2>4
    <3>3. b[i - (p + l)] = s[p + l + (i - (p + l))]
      BY <1>2, <3>2
    <3> QED
      BY <1>0, <2>2, <2>4, <3>1, <3>2, <3>3
  <2> QED
    BY <1>0, <2>3, <2>4
<1>8. d \in Seq(S)
  BY <1>5 DEF d
<1>9. u = d
  BY <1>6, <1>7, <1>8, SeqEqual
<1> QED
  BY <1>9 DEF d, c, a, b

-----------------------------------------------------------------------------
(* The flat sequence.                                                      *)

LEMMA SamePlace ==
  ASSUME NEW p \in Nat, NEW q \in Nat, ChunkOf(p) = ChunkOf(q), p % Base = q % Base
  PROVE  p = q
<1>0. Base \in Nat \ {0}
  BY ByteArrayAssumption
<1>1. /\ p \div Base \in Nat /\ p % Base \in 0 .. Base - 1
      /\ p = (p \div Base) * Base + (p % Base)
  BY <1>0, DivMod, Zenon
<1>2. /\ q \div Base \in Nat /\ q % Base \in 0 .. Base - 1
      /\ q = (q \div Base) * Base + (q % Base)
  BY <1>0, DivMod, Zenon
<1>3. p \div Base = q \div Base
  BY <1>1, <1>2 DEF ChunkOf
<1> QED
  BY <1>0, <1>1, <1>2, <1>3, Zenon

FlatFrom(mem, n) == [i \in 1 .. n |-> mem[ChunkOf(i-1)][(i-1) % Base]]

LEMMA FlatFromType ==
  ASSUME NEW c, Whole(c), NEW n \in Nat, n <= c, NEW mem \in Cells
  PROVE  /\ FlatFrom(mem, n) \in Seq(Bytes) /\ Len(FlatFrom(mem, n)) = n
         /\ \A i \in 1 .. n : FlatFrom(mem, n)[i] = mem[ChunkOf(i-1)][(i-1) % Base]
<1>1. c \in Nat
  BY ChunkFacts
<1>2. ASSUME NEW i \in 1 .. n
      PROVE  mem[ChunkOf(i-1)][(i-1) % Base] \in Bytes
  <2> DEFINE p == i - 1
  <2>1. p \in Nat /\ p < c /\ p <= c
    BY <1>1
  <2> HIDE DEF p
  <2>2. ChunkOf(p) \in 1 .. MaxChunks
    BY <2>1, ChunkFacts
  <2>3. p % Base \in 0 .. Base - 1
    BY <2>1, ByteArrayAssumption, DivMod
  <2>4. mem[ChunkOf(p)][p % Base] \in Bytes
    BY <2>2, <2>3 DEF Cells, Bytes
  <2> QED
    BY <2>4 DEF p
<1> QED
  BY <1>2 DEF FlatFrom

LEMMA FlatType ==
  ASSUME ArrayInv
  PROVE  /\ Flat \in Seq(Bytes) /\ Len(Flat) = size
         /\ \A i \in 1 .. size : Flat[i] = memory[ChunkOf(i-1)][(i-1) % Base]
<1>1. Flat = FlatFrom(memory, size)
  BY DEF Flat, FlatFrom, ChunkOf
<1> QED
  BY <1>1, FlatFromType DEF ArrayInv

LEMMA FlatTypeNext ==
  ASSUME ArrayInv'
  PROVE  /\ Flat' \in Seq(Bytes) /\ Len(Flat') = size'
         /\ \A i \in 1 .. size' : Flat'[i] = memory'[ChunkOf(i-1)][(i-1) % Base]
<1>1. Flat' = FlatFrom(memory', size')
  BY DEF Flat, FlatFrom, ChunkOf
<1>2. Whole(capacity') /\ size' \in Nat /\ size' <= capacity' /\ memory' \in Cells
  BY DEF ArrayInv, Whole
<1> QED
  BY <1>1, <1>2, FlatFromType

\* Where the loops are with byte i.
LEMMA PlaceOfByte ==
  ASSUME position \in Nat, NEW i \in Nat
  PROVE  At(ChunkOf(position), i) = <<ChunkOf(position + i), (position + i) % Base>>
<1>1. ChunkOf(position) + ((position % Base) + i) \div Base = ChunkOf(position + i)
  BY MovesAlong
<1>2. ((position % Base) + i) % Base = (position + i) % Base
  BY ByteArrayAssumption, DivModAdd
<1> QED
  BY <1>1, <1>2 DEF At

\* The copying loops put byte i of t in the place of byte position + i.
LEMMA ScatterCell ==
  ASSUME ArrayInv, NEW t \in Seq(Byte), NEW p \in Nat,
         ChunkOf(p) \in 1 .. MaxChunks, NEW k, Len(t) > 0 => k = ChunkOf(position)
  PROVE  Scatter(k, t)[ChunkOf(p)][p % Base] =
           IF position <= p /\ p < position + Len(t) THEN t[p - position + 1]
           ELSE memory[ChunkOf(p)][p % Base]
<1> DEFINE m == ChunkOf(p)
           o == p % Base
           I == {i \in 1 .. Len(t) : At(k, i-1) = <<m, o>>}
<1>0. position \in Nat /\ Len(t) \in Nat /\ o \in 0 .. Base - 1 /\ m \in 1 .. MaxChunks
  <2>1. p % Base \in 0 .. Base - 1
    BY ByteArrayAssumption, DivMod
  <2> QED
    BY <2>1 DEF ArrayInv
<1>1. Scatter(k, t)[m][o] = IF I = {} THEN memory[m][o] ELSE t[CHOOSE i \in I : TRUE]
  <2> HIDE DEF m, o
  <2> QED
    BY <1>0 DEF Scatter
<1>2. ASSUME NEW i \in 1 .. Len(t)
      PROVE  i \in I <=> position + (i - 1) = p
  <2>1. i - 1 \in Nat /\ position + (i - 1) \in Nat /\ k = ChunkOf(position)
    BY <1>0
  <2>2. At(k, i-1) = <<ChunkOf(position + (i-1)), (position + (i-1)) % Base>>
    BY <1>0, <2>1, PlaceOfByte
  <2>3. ASSUME At(k, i-1) = <<m, o>>
        PROVE  position + (i - 1) = p
    <3>1. ChunkOf(position + (i-1)) = ChunkOf(p) /\ (position + (i-1)) % Base = p % Base
      BY <2>2, <2>3
    <3> DEFINE q == position + (i - 1)
    <3> HIDE DEF q
    <3>2. q \in Nat /\ ChunkOf(q) = ChunkOf(p) /\ q % Base = p % Base
      BY <2>1, <3>1 DEF q
    <3>3. q = p
      BY <3>2, SamePlace
    <3> QED
      BY <3>3 DEF q
  <2>4. ASSUME position + (i - 1) = p
        PROVE  At(k, i-1) = <<m, o>>
    BY <2>2, <2>4
  <2> QED
    BY <2>3, <2>4
<1> HIDE DEF m, o, I
<1>3. I \subseteq 1 .. Len(t)
  BY DEF I
<1>4. CASE position <= p /\ p < position + Len(t)
  <2> DEFINE j == p - position + 1
  <2>1. j \in 1 .. Len(t) /\ position + (j - 1) = p
    BY <1>0, <1>4
  <2>2. j \in I
    BY <1>2, <2>1
  <2>3. (CHOOSE i \in I : TRUE) \in I
    BY <2>2
  <2>4. (CHOOSE i \in I : TRUE) = j
    <3> DEFINE c == CHOOSE i \in I : TRUE
    <3> HIDE DEF c
    <3>1. c \in 1 .. Len(t) /\ position + (c - 1) = p
      BY <1>2, <1>3, <2>3 DEF c
    <3>2. c = j
      BY <1>0, <2>1, <3>1
    <3> QED
      BY <3>2 DEF c
  <2> QED
    BY <1>1, <1>4, <2>2, <2>4 DEF m, o
<1>5. CASE ~(position <= p /\ p < position + Len(t))
  <2>1. I = {}
    <3> SUFFICES ASSUME NEW i \in I PROVE FALSE
      OBVIOUS
    <3>1. i \in 1 .. Len(t) /\ position + (i - 1) = p
      BY <1>2, <1>3
    <3> QED
      BY <1>0, <1>5, <3>1
  <2> QED
    BY <1>1, <1>5, <2>1 DEF m, o
<1> QED
  BY <1>4, <1>5

\* ... and take the bytes of the flat sequence.
LEMMA GatherIsPiece ==
  ASSUME ArrayInv, NEW n \in Nat, position + n <= size, NEW k, n > 0 => k = ChunkOf(position)
  PROVE  /\ Gather(k, n) = SubSeq(Flat, position + 1, position + n)
         /\ Gather(k, n) \in Seq(Bytes)
<1>0. position \in Nat /\ size \in Nat /\ size <= capacity /\ capacity \in Nat
  BY ChunkFacts DEF ArrayInv
<1>1. ASSUME NEW i \in 1 .. n
      PROVE  /\ memory[At(k, i-1)[1]][At(k, i-1)[2]] = Flat[position + i]
             /\ Flat[position + i] \in Bytes
  <2>1. i - 1 \in Nat /\ position + (i - 1) = (position + i) - 1 /\ position + i \in 1 .. size
        /\ k = ChunkOf(position)
    BY <1>0
  <2>2. At(k, i-1) = <<ChunkOf(position + (i-1)), (position + (i-1)) % Base>>
    BY <1>0, <2>1, PlaceOfByte
  <2>3. Flat[position + i] = memory[ChunkOf((position + i) - 1)][((position + i) - 1) % Base]
    BY <2>1, FlatType
  <2>4. Flat[position + i] \in Bytes
    BY <2>1, FlatType
  <2> QED
    BY <2>1, <2>2, <2>3, <2>4
<1>2. Gather(k, n) = [i \in 1 .. n |-> Flat[position + i]]
  BY <1>1 DEF Gather
<1>3. Gather(k, n) \in Seq(Bytes) /\ Len(Gather(k, n)) = n
  BY <1>1, <1>2
<1> DEFINE s == SubSeq(Flat, position + 1, position + n)
<1>4. s \in Seq(Bytes) /\ Len(s) = n /\ \A i \in 1 .. n : s[i] = Flat[position + i]
  <2>1. position + 1 \in Int /\ position + n \in Int
        /\ \A i \in position + 1 .. position + n : Flat[i] \in Bytes
    <3>1. \A i \in position + 1 .. position + n : i \in 1 .. size
      BY <1>0
    <3> QED
      BY <1>0, <3>1, FlatType
  <2>2. /\ s \in Seq(Bytes)
        /\ Len(s) = IF position + 1 <= position + n THEN (position + n) - (position + 1) + 1 ELSE 0
        /\ \A i \in 1 .. (position + n) - (position + 1) + 1 : s[i] = Flat[(position + 1) + i - 1]
    BY <2>1, SubSeqProperties
  <2> HIDE DEF s
  <2> QED
    BY <1>0, <2>2
<1> HIDE DEF s
<1>5. Gather(k, n) = s
  BY <1>2, <1>3, <1>4, SeqEqual
<1> QED
  BY <1>3, <1>5 DEF s

\* Bytes written or received are spliced into it.
LEMMA PutIsSplice ==
  ASSUME ArrayInv, ArrayInv', NEW t \in Seq(Byte), NEW k,
         Len(t) > 0 => k = ChunkOf(position), memory' = Scatter(k, t),
         size' = (IF position + Len(t) > size THEN position + Len(t) ELSE size)
  PROVE  Flat' = SubSeq(Flat, 1, position) \o t \o SubSeq(Flat, position + Len(t) + 1, Len(Flat))
<1>0. /\ position \in Nat /\ position <= size /\ size \in Nat /\ Len(t) \in Nat
      /\ size' \in Nat /\ size' <= capacity'
  BY DEF ArrayInv
<1>1. Flat \in Seq(Bytes) /\ Len(Flat) = size
      /\ \A i \in 1 .. size : Flat[i] = memory[ChunkOf(i-1)][(i-1) % Base]
  BY FlatType
<1>2. Flat' \in Seq(Bytes) /\ Len(Flat') = size'
      /\ \A i \in 1 .. size' : Flat'[i] = memory'[ChunkOf(i-1)][(i-1) % Base]
  BY FlatTypeNext
<1>3. capacity' \in Nat
  <2>1. Whole(capacity')
    BY DEF ArrayInv, Whole
  <2> QED
    BY <2>1, <1>0, ChunkFacts
<1>4. ASSUME NEW i \in 1 .. size'
      PROVE  Flat'[i] = IF position < i /\ i <= position + Len(t) THEN t[i - position] ELSE Flat[i]
  <2>1. i - 1 \in Nat /\ i - 1 < capacity' /\ i - 1 <= capacity'
    BY <1>0, <1>3
  <2>2. ChunkOf(i - 1) \in 1 .. MaxChunks
    <3>1. Whole(capacity')
      BY DEF ArrayInv, Whole
    <3> QED
      BY <2>1, <3>1, ChunkFacts
  <2> DEFINE p == i - 1
  <2>3. Flat'[i] = IF position <= p /\ p < position + Len(t) THEN t[p - position + 1]
                   ELSE memory[ChunkOf(p)][p % Base]
    <3>1. Flat'[i] = Scatter(k, t)[ChunkOf(p)][p % Base]
      BY <1>2
    <3>2. p \in Nat /\ ChunkOf(p) \in 1 .. MaxChunks
      BY <2>1, <2>2
    <3> HIDE DEF p
    <3> QED
      BY <3>1, <3>2, ScatterCell
  <2>4. CASE position < i /\ i <= position + Len(t)
    <3>1. position <= p /\ p < position + Len(t) /\ p - position + 1 = i - position
      BY <1>0, <2>4
    <3> QED
      BY <2>3, <2>4, <3>1
  <2>5. CASE ~(position < i /\ i <= position + Len(t))
    <3>1. ~(position <= p /\ p < position + Len(t)) /\ i \in 1 .. size
      BY <1>0, <2>5
    <3> QED
      BY <1>1, <2>3, <2>5, <3>1
  <2> QED
    BY <2>4, <2>5
<1>5. t \in Seq(Bytes)
  BY SeqMonotonic DEF Bytes
<1> DEFINE u == Flat'
<1>6. u \in Seq(Bytes) /\ Len(u) = size' /\ \A i \in 1 .. size' :
        u[i] = IF position < i /\ i <= position + Len(t) THEN t[i - position] ELSE Flat[i]
  BY <1>2, <1>4
<1> HIDE DEF u
<1>7. u = SubSeq(Flat, 1, position) \o t \o SubSeq(Flat, position + Len(t) + 1, Len(Flat))
  <2>1. /\ position <= Len(Flat)
        /\ Len(u) = IF position + Len(t) > Len(Flat) THEN position + Len(t) ELSE Len(Flat)
    BY <1>0, <1>1, <1>6
  <2>2. \A i \in 1 .. Len(u) :
          u[i] = IF position < i /\ i <= position + Len(t) THEN t[i - position] ELSE Flat[i]
    BY <1>6
  <2>3. u \in Seq(Bytes) /\ Flat \in Seq(Bytes) /\ position \in Nat
    BY <1>0, <1>1, <1>6
  <2> QED
    BY <2>1, <2>2, <2>3, <1>5, Spliced
<1> QED
  BY <1>7 DEF u

-----------------------------------------------------------------------------
(* The refinement.                                                         *)

\* writeToFile() has written what it has passed, unless it is lost.
FileInv ==
  job.kind = "save" =>
    SaveLost \/ (SaveRight /\ job.file = SubSeq(Flat, position + 1, job.pos))

LEMMA FileStart ==
  ASSUME ArrayInv, JobInv, StartSave
  PROVE  FileInv'
<1>1. job'.pos = position /\ job'.file = <<>> /\ position' = position
  BY JobStart DEF StartSave, arrayVars
<1>2. SubSeq(Flat', position + 1, position) = <<>>
  BY SubSeqEmpty DEF ArrayInv
<1>3. SaveRight' \/ SaveLost'
  BY JobStart
<1> QED
  BY <1>1, <1>2, <1>3 DEF FileInv

LEMMA FileChunk ==
  ASSUME ArrayInv, JobInv, SaveChunk, SaveRight,
         job.file = SubSeq(Flat, position + 1, job.pos)
  PROVE  FileInv'
<1> DEFINE diff == job.pos % Base
           len == job'.pos - job.pos
           piece == [i \in 1 .. len |-> memory[job.cur][diff + i - 1]]
<1>0. Base \in Nat \ {0}
  BY ByteArrayAssumption
<1>1. /\ job' \in Saves /\ SaveRight' /\ job.cur = ChunkOf(job.pos) /\ job.pos < size
      /\ job'.pos > job.pos /\ diff + len <= Base /\ job'.file = job.file \o piece
  BY SaveChunkRight
<1>2. /\ job.kind = "save" /\ job \in Saves /\ position' = position /\ size' = size
      /\ memory' = memory
  BY DEF SaveChunk, JobInv, arrayVars, NoJob, Loads
<1>3. /\ job.pos \in Nat /\ job'.pos \in Nat /\ position \in Nat /\ size \in Nat
      /\ position <= job.pos /\ job'.pos <= size
  BY <1>1, <1>2 DEF Saves, ArrayInv, SaveRight
<1>4. diff \in 0 .. Base - 1 /\ job.pos \div Base \in Nat
      /\ job.pos = (job.pos \div Base) * Base + diff
  BY <1>0, <1>3, DivMod
<1>5. Flat' = Flat
  BY <1>2 DEF Flat
<1>6. /\ Flat \in Seq(Bytes) /\ Len(Flat) = size
      /\ \A i \in 1 .. size : Flat[i] = memory[ChunkOf(i-1)][(i-1) % Base]
  BY FlatType
<1> DEFINE s == SubSeq(Flat, job.pos + 1, job'.pos)
<1>7. s \in Seq(Bytes) /\ Len(s) = len /\ \A i \in 1 .. len : s[i] = Flat[job.pos + i]
  <2> DEFINE a == job.pos
             b == job'.pos
  <2> HIDE DEF a, b
  <2>1. a \in Nat /\ b \in Nat /\ a < b /\ b <= size
    BY <1>1, <1>3 DEF a, b
  <2>2. \A i \in a + 1 .. b : Flat[i] \in Bytes
    <3>1. \A i \in a + 1 .. b : i \in 1 .. size
      BY <1>3, <2>1
    <3> QED
      BY <3>1, <1>6
  <2>3. /\ SubSeq(Flat, a + 1, b) \in Seq(Bytes)
        /\ Len(SubSeq(Flat, a + 1, b)) = IF a + 1 <= b THEN b - (a + 1) + 1 ELSE 0
        /\ \A i \in 1 .. b - (a + 1) + 1 : SubSeq(Flat, a + 1, b)[i] = Flat[(a + 1) + i - 1]
    BY <2>1, <2>2, SubSeqProperties
  <2>4. /\ SubSeq(Flat, a + 1, b) \in Seq(Bytes) /\ Len(SubSeq(Flat, a + 1, b)) = b - a
        /\ \A i \in 1 .. b - a : SubSeq(Flat, a + 1, b)[i] = Flat[a + i]
    <3> DEFINE r == SubSeq(Flat, a + 1, b)
    <3> HIDE DEF r
    <3>1. r \in Seq(Bytes) /\ Len(r) = (IF a + 1 <= b THEN b - (a + 1) + 1 ELSE 0)
          /\ \A i \in 1 .. b - (a + 1) + 1 : r[i] = Flat[(a + 1) + i - 1]
      BY <2>3 DEF r
    <3>2. Len(r) = b - a /\ \A i \in 1 .. b - a : r[i] = Flat[a + i]
      BY <2>1, <3>1
    <3> QED
      BY <3>1, <3>2 DEF r
  <2> QED
    BY <2>4 DEF a, b
<1>8. ASSUME NEW i \in 1 .. len
      PROVE  memory[job.cur][diff + i - 1] = Flat[job.pos + i]
  <2> DEFINE q == job.pos \div Base
             r == diff + i - 1
             p == job.pos + i
  <2>1. len \in Nat
    BY <1>1, <1>3
  <2> HIDE DEF diff, len, q
  <2>2. r \in 0 .. Base - 1
    BY <1>0, <1>1, <1>4, <2>1
  <2>3. q \in Nat /\ job.pos = q * Base + diff /\ q * Base \in Nat
    BY <1>0, <1>4 DEF q
  <2>4. p - 1 = q * Base + r /\ p \in 1 .. size
    <3>1. diff \in Int /\ i \in Nat \ {0} /\ i <= len
      BY <1>0, <1>4, <2>1
    <3>2. p - 1 = q * Base + r
      BY <1>3, <2>3, <3>1
    <3>3. p <= job'.pos
      <4>1. job'.pos = job.pos + len
        BY <1>3 DEF len
      <4> QED
        BY <1>3, <2>1, <3>1, <4>1
    <3>4. p \in Nat \ {0}
      BY <1>3, <3>1
    <3>5. p \in 1 .. size
      <4> HIDE DEF p
      <4> QED
        BY <1>3, <3>3, <3>4
    <3> QED
      BY <3>2, <3>5
  <2>5. (q * Base + r) \div Base = q /\ (q * Base + r) % Base = r
    <3> HIDE DEF r
    <3> QED
      BY <2>2, <2>3, <1>0, DivModOf
  <2>6. ChunkOf(p - 1) = job.cur /\ (p - 1) % Base = r
    BY <1>1, <2>4, <2>5 DEF ChunkOf, q
  <2> HIDE DEF p, r
  <2>7. Flat[p] = memory[ChunkOf(p - 1)][(p - 1) % Base]
    BY <1>6, <2>4
  <2> QED
    BY <2>6, <2>7 DEF p, r
<1>9. piece = s
  <2>1. len \in Nat
    BY <1>1, <1>3
  <2> HIDE DEF len, s, diff
  <2>2. ASSUME NEW i \in 1 .. len
        PROVE  s[i] = memory[job.cur][diff + i - 1] /\ memory[job.cur][diff + i - 1] \in Bytes
    BY <1>7, <1>8, <2>2
  <2>3. piece \in Seq(Bytes) /\ Len(piece) = len /\ \A i \in 1 .. len : piece[i] = s[i]
    BY <2>1, <2>2
  <2> HIDE DEF piece
  <2> QED
    BY <1>7, <2>3, SeqEqual
<1>10. SubSeq(Flat, position + 1, job.pos) \o SubSeq(Flat, job.pos + 1, job'.pos)
         = SubSeq(Flat, position + 1, job'.pos)
  <2> DEFINE a == position + 1
             b == job.pos
             c == job'.pos
  <2>1. /\ a \in Nat \ {0} /\ b \in Nat /\ c \in Nat /\ size \in Nat
        /\ a <= b + 1 /\ b < c /\ c <= size
    BY <1>1, <1>3
  <2> HIDE DEF a, b, c
  <2>2. SubSeq(Flat, a, b) \o SubSeq(Flat, b + 1, c) = SubSeq(Flat, a, c)
    <3>1. a \in 1 .. size + 1 /\ b \in a - 1 .. size /\ c \in b .. size
      BY <2>1
    <3> QED
      BY <1>6, <3>1, ConcatAdjacentSubSeq
  <2> QED
    BY <2>2 DEF a, b, c
<1>11. job'.file = SubSeq(Flat, position + 1, job'.pos)
  BY <1>1, <1>9, <1>10
<1> QED
  BY <1>1, <1>2, <1>5, <1>11 DEF FileInv

LEMMA FileStep == ByteArrayInv /\ FileInv /\ [Next]_vars => FileInv'
<1> SUFFICES ASSUME ArrayInv, JobInv, FileInv, [Next]_vars
             PROVE  FileInv'
  BY DEF ByteArrayInv
<1>1. CASE job' = job /\ Idle
  BY <1>1, JobKinds DEF Idle, FileInv
<1>2. CASE job' \in {NoJob} \cup Loads
  BY <1>2, JobKinds DEF FileInv
<1>3. CASE StartSave
  BY <1>3, FileStart
<1>4. CASE SaveChunk
  <2>1. CASE SaveLost
    <3>1. SaveLost'
      BY <1>4, <2>1, SaveChunkLost DEF SaveChunk, arrayVars, SaveLost, ReadSize
    <3> QED
      BY <3>1 DEF FileInv
  <2>2. CASE SaveRight /\ job.file = SubSeq(Flat, position + 1, job.pos)
    BY <1>4, <2>2, FileChunk
  <2> QED
    BY <1>4, <2>1, <2>2 DEF FileInv, SaveChunk
<1>5. CASE UNCHANGED vars
  BY <1>5 DEF vars, arrayVars, FileInv, SaveRight, SaveLost, ReadSize, Following, ChunkOf, Flat
<1>6. \/ job' = job /\ Idle
      \/ job' \in {NoJob} \cup Loads
      \/ StartSave \/ SaveChunk \/ UNCHANGED vars
  <2>1. ASSUME NEW t \in Seq(Byte), StartLoad(t)
        PROVE  job' \in Loads
    BY <2>1 DEF StartLoad, Loads
  <2>2. ASSUME LoadChunk
        PROVE  job' \in {NoJob} \cup Loads
    BY <2>2, LoadPiece
  <2>3. ASSUME EndSave
        PROVE  job' = NoJob
    BY <2>3 DEF EndSave
  <2> QED
    BY <2>1, <2>2, <2>3, Steps DEF Write, Read, ReadRefused, ReceiveFails, SetPosition, Receive,
       Send, ReadNothing, Clear, ToString
<1> QED
  BY <1>1, <1>2, <1>3, <1>4, <1>5, <1>6


\* What a step of the array shows of itself is a call with the flat sequence.
LEMMA Called ==
  ASSUME ArrayInv', NEW o \in {"write", "read", "refused", "seek", "dump", "clear"},
         NEW n \in Nat, NEW s \in Seq(Bytes), Done(o, n, s)
  PROVE  /\ call' \in Stream!Calls /\ Flat' \in Seq(Byte \cup {Junk})
         /\ call'.op = o /\ call'.n = n /\ call'.bytes = s
<1>1. call' = [op |-> o, n |-> n, bytes |-> s]
  BY DEF Done
<1>2. Flat' \in Seq(Bytes)
  BY FlatTypeNext
<1> QED
  BY <1>1, <1>2 DEF Stream!Calls, Bytes

LEMMA Unchanged ==
  ASSUME UNCHANGED arrayVars
  PROVE  Flat' = Flat /\ position' = position
BY DEF arrayVars, Flat

\* write() and a receive.
LEMMA PutIsWrite ==
  ASSUME ArrayInv, ArrayInv', NEW t \in Seq(Byte), NEW k,
         Len(t) > 0 => k = ChunkOf(position), memory' = Scatter(k, t),
         size' = (IF position + Len(t) > size THEN position + Len(t) ELSE size),
         position' = position + Len(t), Done("write", Len(t), t)
  PROVE  Stream!Next
<1>1. t \in Seq(Bytes) /\ Len(t) \in Nat
  BY SeqMonotonic DEF Bytes
<1>2. /\ call' \in Stream!Calls /\ Flat' \in Seq(Byte \cup {Junk})
      /\ call'.op = "write" /\ call'.bytes = t
  BY <1>1, Called
<1>3. Flat' = SubSeq(Flat, 1, position) \o t \o SubSeq(Flat, position + Len(t) + 1, Len(Flat))
  BY PutIsSplice
<1> QED
  BY <1>2, <1>3 DEF Stream!Next, Stream!Write

LEMMA PutBytesIsWrite ==
  ASSUME ArrayInv, ArrayInv', NEW t \in Seq(Byte), PutBytes(t)
  PROVE  Stream!Next
<1> DEFINE n == Len(t)
<1>1. n \in Nat
  OBVIOUS
<1>2. /\ Grown(n) <= Base * MaxChunks /\ memory' = Scatter(CurGrown(n), t)
      /\ position' = position + n
      /\ size' = IF position + n > size THEN position + n ELSE size
      /\ Done("write", n, t)
  BY DEF PutBytes
<1>3. n > 0 => CurGrown(n) = ChunkOf(position)
  BY <1>1, <1>2, GrownFacts
<1> QED
  BY <1>2, <1>3, PutIsWrite

LEMMA ReceiveIsWrite ==
  ASSUME ArrayInv, ArrayInv', NEW n \in Nat, NEW t \in Seq(Byte), Receive(n, t)
  PROVE  Stream!Next
<1>1. Len(t) \in Nat /\ n > 0
  BY DEF Receive
<1>2. /\ Grown(n) <= Base * MaxChunks /\ memory' = Scatter(CurGrown(n), t)
      /\ position' = position + Len(t)
      /\ size' = IF position + Len(t) > size THEN position + Len(t) ELSE size
      /\ Done("write", Len(t), t)
  BY DEF Receive
<1>3. CurGrown(n) = ChunkOf(position)
  BY <1>1, <1>2, GrownFacts
<1> QED
  BY <1>2, <1>3, PutIsWrite

\* read() and a send.
LEMMA GatherIsRead ==
  ASSUME ArrayInv, ArrayInv', NEW n \in Nat, position + n <= size, NEW k,
         n > 0 => k = ChunkOf(position), memory' = memory, size' = size,
         position' = position + n, Done("read", n, Gather(k, n))
  PROVE  Stream!Next
<1>1. Gather(k, n) = SubSeq(Flat, position + 1, position + n) /\ Gather(k, n) \in Seq(Bytes)
  BY GatherIsPiece
<1>2. /\ call' \in Stream!Calls /\ Flat' \in Seq(Byte \cup {Junk})
      /\ call'.op = "read" /\ call'.n = n /\ call'.bytes = Gather(k, n)
  BY <1>1, Called
<1>3. Flat' = Flat
  BY DEF Flat
<1>4. n <= Len(Flat) - position
  <2>1. Len(Flat) = size /\ size \in Nat /\ position \in Nat
    BY FlatType DEF ArrayInv
  <2> QED
    BY <2>1
<1> QED
  BY <1>1, <1>2, <1>3, <1>4 DEF Stream!Next, Stream!Read, Stream!Left

\* The pointer is null only at the end of the memory.
LEMMA CurIsChunk ==
  ASSUME ArrayInv, cur # 0 \/ position < size
  PROVE  cur = ChunkOf(position)
<1>1. CASE cur # 0
  BY <1>1 DEF ArrayInv, Following
<1>2. CASE position < size
  <2>1. Whole(capacity) /\ position \in Nat /\ position < capacity /\ position <= capacity
    <3>1. capacity \in Nat
      BY ChunkFacts DEF ArrayInv
    <3> QED
      BY <1>2, <3>1 DEF ArrayInv
  <2>2. Following(ChunkOf(position), capacity) = ChunkOf(position)
    BY <2>1, ChunkFacts
  <2> QED
    BY <2>2 DEF ArrayInv
<1> QED
  BY <1>1, <1>2

LEMMA ReadIsRead ==
  ASSUME ArrayInv, ArrayInv', NEW n \in Nat, Read(n)
  PROVE  Stream!Next
<1>1. /\ n <= ReadSize /\ cur # 0 /\ Done("read", n, Gather(cur, n))
      /\ position' = position + n /\ memory' = memory /\ size' = size
  BY DEF Read
<1>2. position + n <= size
  BY <1>1 DEF ArrayInv, ReadSize
<1>3. cur = ChunkOf(position)
  BY <1>1, CurIsChunk
<1> QED
  BY <1>1, <1>2, <1>3, GatherIsRead

LEMMA SendIsRead ==
  ASSUME ArrayInv, ArrayInv', NEW n \in Nat, NEW m \in Nat, Send(n, m)
  PROVE  Stream!Next
<1>1. /\ m \in 1 .. ReadSize /\ Done("read", m, Gather(cur, m))
      /\ position' = position + m /\ memory' = memory /\ size' = size
  BY DEF Send
<1>2. position + m <= size /\ position < size
  BY <1>1 DEF ArrayInv, ReadSize
<1>3. cur = ChunkOf(position)
  BY <1>2, CurIsChunk
<1> QED
  BY <1>1, <1>2, <1>3, GatherIsRead

\* A read of more than there is, and a seek past the memory.
LEMMA Refused ==
  ASSUME ArrayInv, ArrayInv', NEW n \in Nat, n > size - position, UNCHANGED arrayVars,
         Done("refused", n, <<>>)
  PROVE  Stream!Next
<1>1. <<>> \in Seq(Bytes)
  OBVIOUS
<1>2. /\ call' \in Stream!Calls /\ Flat' \in Seq(Byte \cup {Junk})
      /\ call'.op = "refused" /\ call'.n = n
  BY <1>1, Called
<1>3. Flat' = Flat /\ position' = position
  BY Unchanged
<1>4. n > Len(Flat) - position
  BY FlatType
<1> QED
  BY <1>2, <1>3, <1>4 DEF Stream!Next, Stream!Refuse, Stream!Left


LEMMA SeekIsSeek ==
  ASSUME ArrayInv, ArrayInv', NEW v \in Nat, SetPosition(v)
  PROVE  Stream!Next
<1>0. size \in Nat /\ position \in Nat /\ size <= capacity /\ capacity \in Nat /\ <<>> \in Seq(Bytes)
  BY ChunkFacts DEF ArrayInv
<1>1. CASE v > capacity
  <2>1. v > size - position
    BY <1>0, <1>1
  <2> QED
    BY <1>1, <2>1, Refused DEF SetPosition
<1>2. CASE ~(v > capacity)
  <2>1. /\ position' = v /\ memory' = memory /\ size' = IF v > size THEN v ELSE size
        /\ Done("seek", v, <<>>)
    BY <1>2 DEF SetPosition
  <2>2. /\ call' \in Stream!Calls /\ Flat' \in Seq(Byte \cup {Junk})
        /\ call'.op = "seek" /\ call'.n = v
    BY <1>0, <2>1, Called
  <2>3. Len(Flat) = size /\ Flat \in Seq(Bytes)
    BY FlatType
  <2>4. CASE v <= size
    <3>1. Flat' = Flat
      BY <1>0, <2>1, <2>4 DEF Flat
    <3> QED
      BY <2>1, <2>2, <2>3, <2>4, <3>1 DEF Stream!Next, Stream!Seek
  <2>5. CASE ~(v <= size)
    <3>1. size' = v /\ v > size
      BY <1>0, <2>1, <2>5
    <3>2. /\ Flat' \in Seq(Bytes) /\ Len(Flat') = v
          /\ \A i \in 1 .. v : Flat'[i] = memory[ChunkOf(i-1)][(i-1) % Base]
      BY <2>1, <3>1, FlatTypeNext
    <3>3. \A i \in 1 .. size : i \in 1 .. v /\ Flat[i] = memory[ChunkOf(i-1)][(i-1) % Base]
      BY <1>0, <3>1, FlatType
    <3> DEFINE f == Flat'
               s == SubSeq(f, 1, size)
    <3>4. f \in Seq(Bytes) /\ Len(f) = v /\ \A i \in 1 .. size : f[i] = Flat[i]
      BY <3>2, <3>3
    <3> HIDE DEF f
    <3>5. \A i \in 1 .. size : f[i] \in Bytes
      BY <3>3, <3>4
    <3>6. s \in Seq(Bytes) /\ Len(s) = size /\ \A i \in 1 .. size : s[i] = f[i]
      <4>1. /\ s \in Seq(Bytes) /\ Len(s) = IF 1 <= size THEN size - 1 + 1 ELSE 0
            /\ \A i \in 1 .. size - 1 + 1 : s[i] = f[1 + i - 1]
        BY <1>0, <3>5, SubSeqProperties
      <4> HIDE DEF s
      <4> QED
        BY <1>0, <4>1
    <3> HIDE DEF s
    <3>7. s = Flat
      BY <2>3, <3>4, <3>6, SeqEqual
    <3> QED
      BY <2>1, <2>2, <2>3, <2>5, <3>2, <3>7 DEF Stream!Next, Stream!Seek, f, s
  <2> QED
    BY <2>4, <2>5
<1> QED
  BY <1>1, <1>2

\* toString() and writeToFile().
LEMMA Dumped ==
  ASSUME ArrayInv, ArrayInv', NEW s \in Seq(Bytes), s = SubSeq(Flat, position + 1, size),
         UNCHANGED arrayVars, Done("dump", 0, s)
  PROVE  Stream!Next
<1>1. /\ call' \in Stream!Calls /\ Flat' \in Seq(Byte \cup {Junk})
      /\ call'.op = "dump" /\ call'.bytes = s
  BY Called
<1>2. Flat' = Flat /\ position' = position
  BY Unchanged
<1>3. Len(Flat) = size
  BY FlatType
<1> QED
  BY <1>1, <1>2, <1>3 DEF Stream!Next, Stream!Dump

LEMMA ToStringIsDump ==
  ASSUME ArrayInv, ArrayInv', ToString
  PROVE  Stream!Next
<1>0. size \in Nat /\ position \in Nat /\ position <= size
  BY DEF ArrayInv
<1>1. UNCHANGED arrayVars /\ Done("dump", 0, IF ReadSize = 0 THEN <<>> ELSE Gather(cur, ReadSize))
  BY DEF ToString
<1>2. CASE ReadSize = 0
  <2>1. position = size
    BY <1>0, <1>2 DEF ReadSize
  <2>2. SubSeq(Flat, position + 1, size) = <<>>
    BY <1>0, <2>1, SubSeqEmpty
  <2>3. <<>> \in Seq(Bytes)
    OBVIOUS
  <2> QED
    BY <1>1, <1>2, <2>2, <2>3, Dumped
<1>3. CASE ReadSize # 0
  <2>1. ReadSize \in Nat /\ position + ReadSize = size /\ position < size
    BY <1>0, <1>3 DEF ReadSize
  <2>2. cur = ChunkOf(position)
    BY <2>1, CurIsChunk
  <2>3. /\ Gather(cur, ReadSize) = SubSeq(Flat, position + 1, position + ReadSize)
        /\ Gather(cur, ReadSize) \in Seq(Bytes)
    <3> DEFINE n == ReadSize
    <3>1. n \in Nat /\ position + n <= size
      BY <1>0, <2>1
    <3> HIDE DEF n
    <3>2. Gather(cur, n) = SubSeq(Flat, position + 1, position + n) /\ Gather(cur, n) \in Seq(Bytes)
      BY <2>2, <3>1, GatherIsPiece
    <3> QED
      BY <3>2 DEF n
  <2> QED
    BY <1>1, <1>3, <2>1, <2>3, Dumped
<1> QED
  BY <1>2, <1>3

LEMMA EndSaveIsDump ==
  ASSUME ArrayInv, ArrayInv', JobInv, FileInv, EndSave
  PROVE  Stream!Next
<1>1. job.kind = "save" /\ job.left <= 0 /\ UNCHANGED arrayVars /\ Done("dump", 0, job.file)
  BY DEF EndSave
<1>2. job \in Saves
  BY <1>1, JobKinds DEF JobInv
<1>3. job.left \in Nat /\ job.pos \in Nat /\ job.file \in Seq(Bytes)
  BY <1>2 DEF Saves
<1>4. ~SaveLost
  BY <1>1, <1>3, ByteArrayAssumption DEF SaveLost
<1>5. SaveRight /\ job.file = SubSeq(Flat, position + 1, job.pos)
  BY <1>1, <1>4 DEF FileInv
<1>6. job.pos = size
  BY <1>1, <1>3, <1>5 DEF SaveRight, ArrayInv
<1> QED
  BY <1>1, <1>3, <1>5, <1>6, Dumped

LEMMA ClearIsClear ==
  ASSUME ArrayInv, ArrayInv', Clear
  PROVE  Stream!Next
<1>1. position' = 0 /\ size' = 0 /\ Done("clear", 0, <<>>) /\ <<>> \in Seq(Bytes)
  BY DEF Clear
<1>2. call' \in Stream!Calls /\ Flat' \in Seq(Byte \cup {Junk}) /\ call'.op = "clear"
  BY <1>1, Called
<1>3. Flat' = <<>>
  BY <1>1, FlatTypeNext
<1> QED
  BY <1>1, <1>2, <1>3 DEF Stream!Next, Stream!Clear

LEMMA ReadNothingIsRead ==
  ASSUME ArrayInv, ArrayInv', ReadNothing
  PROVE  Stream!Next \/ UNCHANGED Stream!vars
<1>1. CASE UNCHANGED <<arrayVars, call>>
  BY <1>1, Unchanged DEF Stream!vars
<1>2. CASE Done("read", 0, <<>>) /\ UNCHANGED arrayVars
  <2>1. Gather(cur, 0) = <<>>
    BY DEF Gather
  <2>2. position + 0 = position /\ position <= size /\ memory' = memory /\ size' = size
        /\ position' = position
    BY <1>2 DEF ArrayInv, arrayVars
  <2>3. Stream!Next
    BY <1>2, <2>1, <2>2, GatherIsRead
  <2> QED
    BY <2>3
<1> QED
  BY <1>1, <1>2 DEF ReadNothing


LEMMA StreamInit == Init => Stream!Init /\ FileInv
<1> SUFFICES ASSUME Init PROVE Stream!Init /\ FileInv
  OBVIOUS
<1>1. ArrayInv
  BY ArrayInit
<1>2. Len(Flat) = 0 /\ Flat \in Seq(Bytes)
  BY <1>1, FlatType DEF Init
<1>3. Flat = <<>>
  BY <1>2
<1> QED
  BY <1>3, JobKinds DEF Init, Stream!Init, FileInv

LEMMA StreamStep ==
  ASSUME ByteArrayInv, ByteArrayInv', FileInv, [Next]_vars
  PROVE  [Stream!Next]_(Stream!vars)
<1>0. ArrayInv /\ ArrayInv' /\ JobInv
  BY DEF ByteArrayInv
<1>1. ASSUME NEW t \in Seq(Byte), Write(t)
      PROVE  Stream!Next
  BY <1>0, <1>1, PutBytesIsWrite DEF Write
<1>2. CASE LoadChunk
  BY <1>0, <1>2, LoadPiece, PutBytesIsWrite
<1>3. ASSUME NEW n \in Nat, Read(n) \/ ReadRefused(n) \/ ReceiveFails(n) \/ SetPosition(n)
      PROVE  Stream!Next \/ UNCHANGED Stream!vars
  <2>1. CASE Read(n)
    BY <1>0, <2>1, ReadIsRead
  <2>2. CASE ReadRefused(n)
    BY <1>0, <2>2, Refused DEF ReadRefused, ReadSize
  <2>3. CASE ReceiveFails(n)
    BY <2>3 DEF ReceiveFails, Stream!vars, Flat
  <2>4. CASE SetPosition(n)
    BY <1>0, <2>4, SeekIsSeek
  <2> QED
    BY <1>3, <2>1, <2>2, <2>3, <2>4
<1>4. ASSUME NEW n \in Nat, NEW t \in Seq(Byte), Receive(n, t)
      PROVE  Stream!Next
  BY <1>0, <1>4, ReceiveIsWrite
<1>5. ASSUME NEW n \in Nat, NEW m \in Nat, Send(n, m)
      PROVE  Stream!Next
  BY <1>0, <1>5, SendIsRead
<1>6. CASE ReadNothing
  BY <1>0, <1>6, ReadNothingIsRead
<1>7. CASE Clear
  BY <1>0, <1>7, ClearIsClear
<1>8. CASE ToString
  BY <1>0, <1>8, ToStringIsDump
<1>9. CASE EndSave
  BY <1>0, <1>9, EndSaveIsDump
<1>10. ASSUME UNCHANGED <<arrayVars, call>>
       PROVE  UNCHANGED Stream!vars
  BY <1>10, Unchanged DEF Stream!vars
<1>11. ASSUME NEW t \in Seq(Byte), StartLoad(t)
       PROVE  UNCHANGED Stream!vars
  BY <1>10, <1>11 DEF StartLoad
<1>12. CASE StartSave \/ SaveChunk \/ UNCHANGED vars
  BY <1>10, <1>12 DEF StartSave, SaveChunk, vars
<1> QED
  BY <1>1, <1>2, <1>3, <1>4, <1>5, <1>6, <1>7, <1>8, <1>9, <1>11, <1>12, Steps

\* The chunks are invisible, for every chunk size, every list of operations and
\* every payload: write, read and seek, the vectors of SocketStream, both file
\* operations and the exceptions do to the flat sequence of bytes what the
\* byte stream allows, and nothing else changes it.
THEOREM StreamIsImplemented == Spec => ImplementsStream
<1>1. Spec => [](ByteArrayInv /\ FileInv)
  <2>1. Init => FileInv
    BY StreamInit
  <2> QED
    BY <2>1, FileStep, ByteArrayInvariant, PTL DEF Spec
<1>2. Init => Stream!Init
  BY StreamInit
<1>3. ByteArrayInv /\ ByteArrayInv' /\ FileInv /\ [Next]_vars => [Stream!Next]_(Stream!vars)
  BY StreamStep
<1> QED
  BY <1>1, <1>2, <1>3, PTL DEF Spec, ImplementsStream, Stream!Spec

=============================================================================
