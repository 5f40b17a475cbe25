------------------------------ MODULE ByteArray ------------------------------
(***************************************************************************)
(* ByteArray: bytes in a list of chunks of one size, a position, and a     *)
(* pointer to the chunk the position is in.  The pointer is not computed   *)
(* from the position but moved along with it, so the two can part; at the  *)
(* end of the last chunk it is null.  SocketStream reads into an array and *)
(* writes from it through vectors of pieces of its chunks.                 *)
(*                                                                         *)
(* Chunks are numbered from 1, the numbers also tell the order of the      *)
(* list.  The copying loops follow __next at a chunk's end; At and After   *)
(* say what they do with each byte and where they stop.                    *)
(***************************************************************************)
EXTENDS Integers, Sequences

CONSTANTS
  Byte,       \* values of a byte
  Junk,       \* the content of new memory: some byte, nobody knows which
  Base,       \* __baseSize: bytes in a chunk
  MaxChunks,  \* bound on the length of the list
  Payloads,   \* what is written, loaded or received, a bound
  Lengths     \* lengths asked for in reads and receives, a bound

ASSUME ByteArrayAssumption ==
  /\ Base \in Nat \ {0} /\ MaxChunks \in Nat \ {0}
  /\ Payloads \subseteq Seq(Byte) /\ Lengths \subseteq Nat
  /\ Junk \notin Byte

VARIABLES
  memory,    \* memory[k][i]: byte i of chunk k
  capacity,  \* __capacity
  position,  \* __position
  size,      \* __size
  cur,       \* __cur: a chunk, or 0 for null
  call,      \* the latest operation finished, as in ByteStream
  job,       \* the file operation in progress
  fault      \* null has been dereferenced

arrayVars == <<memory, capacity, position, size, cur>>
vars == <<arrayVars, call, job, fault>>

\* Definitions named Bad... are faulty variants of the definition that follows
\* them; no specification uses them.

Cells == [1 .. MaxChunks -> [0 .. Base - 1 -> Byte \cup {Junk}]]
NoJob == [kind |-> "none"]
NewChunk == [i \in 0 .. Base - 1 |-> Junk]

Init ==
  /\ memory = [k \in 1 .. MaxChunks |-> NewChunk]
  /\ capacity = Base /\ position = 0 /\ size = 0 /\ cur = 1
  /\ call = [op |-> "new", n |-> 0, bytes |-> <<>>]
  /\ job = NoJob /\ fault = FALSE

Room == capacity - position       \* getCapacity()
ReadSize == size - position       \* getReadSize()

\* The chunk that follows the last of the first c bytes.
Following(k, c) == IF k * Base <= c THEN k ELSE 0

\* addCapacity(n): as many chunks as the missing bytes need.
Grown(n) ==
  IF Room >= n THEN capacity ELSE capacity + Base * ((n - Room + Base - 1) \div Base)

BadCurGrown(n) == cur
\* ... and the pointer moves to the first new one if there was no room at all.
CurGrown(n) == IF n > 0 /\ Room = 0 THEN capacity \div Base + 1 ELSE cur

\* Where the copying loops take or put byte i (from 0), starting in chunk k.
At(k, i) == LET p == (position % Base) + i IN <<k + p \div Base, p % Base>>

BadAfter(k, n, c) == Following(k + ((position % Base) + n - 1) \div Base, c)
\* Where they leave the pointer after n bytes, when there are c bytes of memory.
After(k, n, c) == Following(k + ((position % Base) + n) \div Base, c)

\* The n bytes from the position on.
Gather(k, n) == [i \in 1 .. n |-> memory[At(k, i-1)[1]][At(k, i-1)[2]]]

\* Memory after the bytes of t have been put from the position on.
Scatter(k, t) ==
  [m \in 1 .. MaxChunks |-> [o \in 0 .. Base - 1 |->
     LET I == {i \in 1 .. Len(t) : At(k, i-1) = <<m, o>>}
     IN IF I = {} THEN memory[m][o] ELSE t[CHOOSE i \in I : TRUE]]]

Done(o, n, s) == call' = [op |-> o, n |-> n, bytes |-> s]

\* write(): (nothing at all for no bytes.)
PutBytes(t) ==
  LET n == Len(t)  k == CurGrown(n)
  IN /\ Grown(n) <= Base * MaxChunks
     /\ capacity' = Grown(n)
     /\ memory' = Scatter(k, t)
     /\ cur' = IF n = 0 THEN cur ELSE After(k, n, Grown(n))
     /\ position' = position + n
     /\ size' = IF position + n > size THEN position + n ELSE size
     /\ Done("write", n, t)

Idle == job = NoJob /\ ~fault

Write(t) == Idle /\ PutBytes(t) /\ UNCHANGED <<job, fault>>

\* read(): too much is refused with an exception.
ReadRefused(n) ==
  /\ Idle /\ n > ReadSize
  /\ Done("refused", n, <<>>)
  /\ UNCHANGED <<arrayVars, job, fault>>

Read(n) ==
  /\ Idle /\ n <= ReadSize /\ cur # 0
  /\ Done("read", n, Gather(cur, n))
  /\ position' = position + n
  /\ cur' = IF n = 0 THEN cur ELSE After(cur, n, capacity)
  /\ UNCHANGED <<memory, capacity, size, job, fault>>

\* read() of no bytes where the pointer is null: it looks up the size of the
\* chunk before it sees that there is nothing to do.  A build that drops the
\* unused load goes on.
ReadNothing ==
  /\ Idle /\ cur = 0
  /\ \/ fault' = TRUE /\ UNCHANGED call
     \/ fault' = FALSE /\ Done("read", 0, <<>>)
  /\ UNCHANGED <<arrayVars, job>>

\* The pointer setPosition() finds.
Seek(v) == cur' = Following(v \div Base + 1, capacity')

\* setPosition(): beyond the memory it is refused.
SetPosition(v) ==
  /\ Idle
  /\ IF v > capacity THEN Done("refused", v, <<>>) /\ UNCHANGED arrayVars
     ELSE /\ position' = v
          /\ size' = IF v > size THEN v ELSE size
          /\ UNCHANGED <<memory, capacity>> /\ Seek(v)
          /\ Done("seek", v, <<>>)
  /\ UNCHANGED <<job, fault>>

\* clear(): all chunks but the first are freed, the first keeps its content.
Clear ==
  /\ Idle
  /\ position' = 0 /\ size' = 0 /\ capacity' = Base /\ cur' = 1
  /\ memory' = [k \in 1 .. MaxChunks |-> IF k = 1 THEN memory[1] ELSE NewChunk]
  /\ Done("clear", 0, <<>>)
  /\ UNCHANGED <<job, fault>>

\* toString(), toHexString(): a read that leaves the position alone.
ToString ==
  /\ Idle
  /\ Done("dump", 0, IF ReadSize = 0 THEN <<>> ELSE Gather(cur, ReadSize))
  /\ UNCHANGED <<arrayVars, job, fault>>

\* SocketStream::read(ba, n): the socket fills t, at most n bytes, into the
\* pieces of getWriteBuffers() ...
Receive(n, t) ==
  LET k == CurGrown(n) IN
  /\ Idle /\ Len(t) \in 1 .. n /\ Grown(n) <= Base * MaxChunks
  /\ capacity' = Grown(n)
  /\ memory' = Scatter(k, t)
  /\ position' = position + Len(t)
  /\ size' = IF position' > size THEN position' ELSE size
  /\ Seek(position')
  /\ Done("write", Len(t), t)
  /\ UNCHANGED <<job, fault>>

\* ... or fails, and the memory has been added all the same.
ReceiveFails(n) ==
  /\ Idle /\ Grown(n) <= Base * MaxChunks
  /\ capacity' = Grown(n) /\ cur' = CurGrown(n)
  /\ UNCHANGED <<memory, position, size, call, job, fault>>

\* SocketStream::write(ba, n): the socket takes m bytes of the pieces of
\* getReadBuffers().  (When it takes none, nothing changes.)
Send(n, m) ==
  /\ Idle /\ m <= n /\ m \in 1 .. ReadSize
  /\ Done("read", m, Gather(cur, m))
  /\ position' = position + m
  /\ UNCHANGED <<memory, capacity, size, job, fault>> /\ Seek(position')

\* ---- files ---------------------------------------------------------------

\* writeToFile(): a loop with its own copies of the pointer, the position and
\* what is left; good is the state of the file's stream.
StartSave ==
  /\ Idle
  /\ job' = [kind |-> "save", cur |-> cur, pos |-> position, left |-> ReadSize,
             good |-> TRUE, file |-> <<>>]
  /\ UNCHANGED <<arrayVars, call, fault>>

SaveChunk ==
  LET diff == job.pos % Base
      len == (IF job.left > Base THEN Base ELSE job.left) - diff
      good == job.good /\ len >= 0
  IN /\ job.kind = "save" /\ ~fault /\ job.left > 0
     /\ IF job.cur = 0 THEN fault' = TRUE /\ UNCHANGED job
        ELSE /\ job' = [job EXCEPT
                          !.cur = Following(job.cur + 1, capacity),
                          !.pos = @ + len, !.left = @ - len, !.good = good,
                          !.file = IF good
                                   THEN @ \o [i \in 1 .. len |-> memory[job.cur][diff + i - 1]]
                                   ELSE @]
             /\ UNCHANGED fault
     /\ UNCHANGED <<arrayVars, call>>

EndSave ==
  /\ job.kind = "save" /\ ~fault /\ job.left <= 0
  /\ job' = NoJob
  /\ Done("dump", 0, job.file)
  /\ UNCHANGED <<arrayVars, fault>>

\* readFromFile(): write() for every piece of a chunk's size.
StartLoad(t) ==
  /\ Idle
  /\ job' = [kind |-> "load", rest |-> t]
  /\ UNCHANGED <<arrayVars, call, fault>>

LoadChunk ==
  LET n == IF Len(job.rest) < Base THEN Len(job.rest) ELSE Base IN
  /\ job.kind = "load"
  /\ PutBytes(SubSeq(job.rest, 1, n))
  /\ job' = IF n < Base THEN NoJob
            ELSE [job EXCEPT !.rest = SubSeq(@, n + 1, Len(@))]
  /\ UNCHANGED fault

Next ==
  \/ \E t \in Payloads : Write(t) \/ StartLoad(t)
  \/ \E n \in Lengths : Read(n) \/ ReadRefused(n) \/ ReceiveFails(n)
  \/ \E n \in Lengths, t \in Payloads : Receive(n, t)
  \/ \E n \in Lengths, m \in Lengths : Send(n, m)
  \/ \E v \in 0 .. Base * MaxChunks : SetPosition(v)
  \/ ReadNothing \/ Clear \/ ToString
  \/ StartSave \/ SaveChunk \/ EndSave \/ LoadChunk

Spec == Init /\ [][Next]_vars

\* ---- properties ----------------------------------------------------------

\* The pointer is where the position is, whatever sequence of operations moved
\* the two (write, read and addCapacity move it along, setPosition searches):
\* read, write and the pieces handed to the socket start from it unchecked.
\* Null is dereferenced only by a read of no bytes at the end of the memory, and
\* by writeToFile from inside a chunk with less than a chunk to save.
PointerAtPosition ==
  /\ cur = Following(position \div Base + 1, capacity)
  /\ fault => \/ job = NoJob /\ position = capacity
              \/ job.kind = "save" /\ position % Base # 0 /\ ReadSize < Base

Flat == [i \in 1 .. size |-> memory[(i-1) \div Base + 1][(i-1) % Base]]

\* The chunks are invisible: every operation does to the flat sequence of bytes
\* what it should (write, read, setPosition, clear, toString, the vectors of
\* SocketStream, both file operations).
Stream == INSTANCE ByteStream WITH data <- Flat, Byte <- Byte \cup {Junk}
ImplementsStream == Stream!Spec

=============================================================================
