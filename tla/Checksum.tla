------------------------------ MODULE Checksum ------------------------------
(***************************************************************************)
(* The checksums of a snapshot's blob (client/ts/src/checksum.ts): CRC-32C *)
(* by a table of 256 entries, and FNV-1a 64 on four 16-bit limbs, whose    *)
(* running state a download parks and resumes from.                        *)
(*                                                                         *)
(* A 32-bit number is its two halves, the high one first, and a 64-bit one *)
(* its four limbs, the low one first.                                      *)
(***************************************************************************)
EXTENDS Integers, Sequences, SequencesExt, Bitwise

Half == 0..65535
Word == Half \X Half

Nibbles == [a \in 0..15, b \in 0..15 |-> a ^^ b]
XorByte(a, b) == Nibbles[a \div 16, b \div 16] * 16 + Nibbles[a % 16, b % 16]
XorHalf(a, b) == XorByte(a \div 256, b \div 256) * 256 + XorByte(a % 256, b % 256)
XorWord(c, d) == <<XorHalf(c[1], d[1]), XorHalf(c[2], d[2])>>

\* c >>> 1, and c >>> 8.
HalfOf(c) == <<c[1] \div 2, c[2] \div 2 + (c[1] % 2) * 32768>>
ByteOff(c) == <<c[1] \div 256, c[2] \div 256 + (c[1] % 256) * 256>>

\* 0x82f63b78.
Poly == <<33526, 15224>>
Shifted(c, k) == IF c[2] % 2 = 1 THEN XorWord(Poly, HalfOf(c)) ELSE HalfOf(c)

CrcTable == [i \in 0..255 |-> FoldLeft(Shifted, <<0, i>>, [k \in 1..8 |-> k])]

Ones == <<65535, 65535>>
NextCrc(c, byte) == XorWord(CrcTable[XorByte(c[2] % 256, byte)], ByteOff(c))
HalfBytes(h) == <<h \div 256, h % 256>>
CrcBytes(c) == HalfBytes(c[1]) \o HalfBytes(c[2])
\* Each byte in turn.  That the state is a word is true of every state, and has it computed
\* before the next byte's.
RECURSIVE CrcOver(_, _)
CrcOver(c, bytes) == IF bytes = <<>> \/ c \notin Word THEN c ELSE CrcOver(NextCrc(c, Head(bytes)), Tail(bytes))
Crc32c(bytes) == CrcBytes(XorWord(Ones, CrcOver(Ones, bytes)))

-----------------------------------------------------------------------------
FnvStart == <<8997, 33826, 40164, 52210>>

\* A byte, times 0x100000001b3 = 0x1b3 + (1 << 40): a limb at a time, each with the carry of
\* the one before.
FnvStep(h, byte) ==
  LET h0 == XorHalf(h[1], byte)
      t0 == h0 * 435
      t1 == h[2] * 435 + t0 \div 65536
      t2 == h[3] * 435 + (h0 % 256) * 256 + t1 \div 65536
      t3 == h[4] * 435 + h0 \div 256 + (h[2] % 256) * 256 + t2 \div 65536
  IN  <<t0 % 65536, t1 % 65536, t2 % 65536, t3 % 65536>>

RECURSIVE FnvUpdate(_, _)
FnvUpdate(h, bytes) == IF bytes = <<>> \/ h \notin [1..4 -> Half] THEN h ELSE FnvUpdate(FnvStep(h, Head(bytes)), Tail(bytes))

\* The digest, big end first, and the state that goes on from one.
Digest(h) == HalfBytes(h[4]) \o HalfBytes(h[3]) \o HalfBytes(h[2]) \o HalfBytes(h[1])
Resumed(d) == [i \in 1..4 |-> d[9 - 2 * i] * 256 + d[10 - 2 * i]]

-----------------------------------------------------------------------------
\* What they compute, from the definitions of the two.

\* CRC-32C a bit at a time, with no table.
RECURSIVE BitsOver(_, _)
BitsOver(c, bytes) ==
  IF bytes = <<>> \/ c \notin Word THEN c
  ELSE BitsOver(FoldLeft(Shifted, <<c[1], XorHalf(c[2], Head(bytes))>>, [k \in 1..8 |-> k]), Tail(bytes))
CrcOf(bytes) == CrcBytes(XorWord(Ones, BitsOver(Ones, bytes)))

\* FNV-1a 64 by long multiplication of bytes, the low one first: the prime is
\* 2 ^ 40 + 2 ^ 8 + 179.
TimesPrime(h) ==
  LET Part(k) == 179 * h[k] + (IF k > 1 THEN h[k - 1] ELSE 0) + (IF k > 5 THEN h[k - 5] ELSE 0)
      sum[k \in 1..8] == Part(k) + (IF k > 1 THEN sum[k - 1] \div 256 ELSE 0)
  IN  [k \in 1..8 |-> sum[k] % 256]

RECURSIVE TimesOver(_, _)
TimesOver(h, bytes) ==
  IF bytes = <<>> \/ h \notin [1..8 -> 0..255] THEN h ELSE TimesOver(TimesPrime([h EXCEPT ![1] = XorByte(@, Head(bytes))]), Tail(bytes))
FnvOf(bytes) == Reverse(TimesOver(<<37, 35, 34, 132, 228, 156, 242, 203>>, bytes))
=============================================================================
