------------------------------ MODULE ByteCodec ------------------------------
(***************************************************************************)
(* The typed layer of ByteArray: fixed-width integers in either byte       *)
(* order, variable-length ones, zigzag for signed ones, strings with a     *)
(* length in front, over the flat stream that ByteStream promises.  The    *)
(* program's 7 bits of data in a byte and 32 or 64 in a number are scaled  *)
(* down; as there, the last byte of the longest number is not full.        *)
(* Floating point values go through the fixed-width integers of their size.*)
(***************************************************************************)
EXTENDS Integers, Sequences
LOCAL INSTANCE SequencesExt

CONSTANTS
  Group,        \* data bits of a byte of a variable-length integer; a byte has one more
  FixedBytes,   \* bytes of a fixed-width integer
  Texts,        \* strings that are written, sequences of bytes
  Marks,        \* numbers that are written after the first value
  MaxValues     \* bound on the values written

ASSUME CodecAssumption ==
  /\ {Group, FixedBytes} \subseteq Nat \ {0}
  /\ MaxValues \in Nat \ {0}

Bits == FixedBytes * (Group + 1)
Size == 2 ^ Bits
Unsigned == 0 .. Size - 1
Signed == -(Size \div 2) .. Size \div 2 - 1

Values == [type : {"uint", "fixed"}, value : Unsigned] \cup [type : {"int"}, value : Signed]
            \cup [type : {"text"}, value : Texts]

VARIABLES
  little,   \* __endian is the little one
  stream,   \* the bytes
  offset,   \* the position
  written,  \* the values written
  back      \* the values read back

codecVars == <<little, stream, offset, written, back>>

CodecInit ==
  /\ little \in BOOLEAN /\ stream = <<>> /\ offset = 0
  /\ written = <<>> /\ back = <<>>

\* Definitions named Bad... are faulty variants of the definition that follows
\* them; no specification uses them.

Radix == 2 ^ Group     \* 0x80: more follows

\* writeUint32, writeUint64: the low bits first.
UintBytes[v \in Nat] ==
  IF v >= Radix THEN <<(v % Radix) + Radix>> \o UintBytes[v \div Radix] ELSE <<v>>

BadUintLength(s) ==
  LET most == Bits \div Group
  IN CHOOSE n \in 1 .. most : /\ \A i \in 1 .. n - 1 : s[i] >= Radix
                              /\ n = most \/ s[n] < Radix
\* readUint32, readUint64: as long as more follows and the number has room.
UintLength(s) ==
  LET most == (Bits + Group - 1) \div Group
  IN CHOOSE n \in 1 .. most : /\ \A i \in 1 .. n - 1 : s[i] >= Radix
                              /\ n = most \/ s[n] < Radix
UintOf(s) ==
  FoldRight(LAMBDA b, high : (b % Radix) + Radix * high, SubSeq(s, 1, UintLength(s)), 0) % Size

\* EncodeZigzag, DecodeZigzag; the doubling and the negation wrap around.
Zigzag(v) == IF v < 0 THEN (2 * (-v) - 1) % Size ELSE (2 * v) % Size
Unzigzag(u) == IF u % 2 = 0 THEN u \div 2 ELSE -(u \div 2) - 1

\* writeFuint and readFuint: the bytes of a number, in the order asked for.
FixedOf(v) ==
  LET low == [i \in 1 .. FixedBytes |-> (v \div 2 ^ ((i - 1) * (Group + 1))) % (2 * Radix)]
  IN IF little THEN low ELSE Reverse(low)
NumberOf(s) ==
  FoldRight(LAMBDA b, high : b + 2 * Radix * high, IF little THEN s ELSE Reverse(s), 0)

Encode(x) ==
  CASE x.type = "uint"  -> UintBytes[x.value]
    [] x.type = "int"   -> UintBytes[Zigzag(x.value)]
    [] x.type = "fixed" -> FixedOf(x.value)
    [] x.type = "text"  -> UintBytes[Len(x.value)] \o x.value

WriteValue(x) ==
  /\ back = <<>> /\ Len(written) < MaxValues
  /\ written' = Append(written, x)
  /\ stream' = stream \o Encode(x)
  /\ UNCHANGED <<little, offset, back>>

\* The reader asks for the types in the order they were written.
ReadValue ==
  LET type == written[Len(back) + 1].type
      s == SubSeq(stream, offset + 1, Len(stream))
      n == UintLength(s)
      read(v, length) ==
        back' = Append(back, [type |-> type, value |-> v]) /\ offset' = offset + length
  IN /\ Len(back) < Len(written)
     /\ \/ type = "uint" /\ read(UintOf(s), n)
        \/ type = "int" /\ read(Unzigzag(UintOf(s)), n)
        \/ type = "fixed" /\ read(NumberOf(SubSeq(s, 1, FixedBytes)), FixedBytes)
        \/ /\ type = "text"
           /\ read(SubSeq(s, n + 1, n + UintOf(s)), n + UintOf(s))
     /\ UNCHANGED <<little, stream, written>>

CodecNext ==
  \/ written = <<>> /\ \E x \in Values : WriteValue(x)
  \/ \E x \in Marks : WriteValue(x)
  \/ ReadValue

\* ---- properties ----------------------------------------------------------

\* What is written is read back, each value from where the one before ended and
\* the last up to the end (the assertions of test_ByteArray.h, for every number
\* of the width, its extremes and the lengths at which another byte begins).
ReadsBackWhatWasWritten ==
  /\ back = SubSeq(written, 1, Len(back))
  /\ back = written => offset = Len(stream)

=============================================================================
