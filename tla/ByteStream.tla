----------------------------- MODULE ByteStream -----------------------------
(***************************************************************************)
(* What ByteArray promises: a sequence of bytes with a position in it.     *)
(* Writing replaces or extends, reading gives what is there and is refused *)
(* only when it is not enough; seeking past the end extends the sequence   *)
(* with bytes of any value.  Chunks are not visible here.                  *)
(***************************************************************************)
EXTENDS Integers, Sequences

CONSTANT Byte

VARIABLES
  data,      \* the bytes
  position,  \* how many of them are before the next read or write
  call       \* the latest operation: what it was given, what it gave back

vars == <<data, position, call>>

Calls == [op : {"new", "write", "read", "refused", "seek", "dump", "clear"},
          n : Nat, bytes : Seq(Byte)]

Left == Len(data) - position

Init == data = <<>> /\ position = 0 /\ call = [op |-> "new", n |-> 0, bytes |-> <<>>]

Write ==
  LET t == call'.bytes IN
  /\ call'.op = "write"
  /\ data' = SubSeq(data, 1, position) \o t \o SubSeq(data, position + Len(t) + 1, Len(data))
  /\ position' = position + Len(t)

Read ==
  /\ call'.op = "read" /\ call'.n <= Left
  /\ call'.bytes = SubSeq(data, position + 1, position + call'.n)
  /\ position' = position + call'.n
  /\ UNCHANGED data

Refuse ==
  /\ call'.op = "refused" /\ call'.n > Left
  /\ UNCHANGED <<data, position>>

\* Everything from the position on; the position stays.
Dump ==
  /\ call'.op = "dump" /\ call'.bytes = SubSeq(data, position + 1, Len(data))
  /\ UNCHANGED <<data, position>>

Seek ==
  /\ call'.op = "seek" /\ position' = call'.n
  /\ IF call'.n <= Len(data) THEN data' = data
     ELSE Len(data') = call'.n /\ SubSeq(data', 1, Len(data)) = data

Clear == call'.op = "clear" /\ data' = <<>> /\ position' = 0

Next ==
  /\ call' \in Calls /\ data' \in Seq(Byte)
  /\ Write \/ Read \/ Refuse \/ Dump \/ Seek \/ Clear

Spec == Init /\ [][Next]_vars

=============================================================================
