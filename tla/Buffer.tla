------------------------------- MODULE Buffer -------------------------------
(***************************************************************************)
(* libminet/buffer.cc: a string of bytes that grows when something is set  *)
(* beyond its end, with offsets that count from 0; and the byte order and  *)
(* the sum of words that every header is read, written and checked with.   *)
(***************************************************************************)
EXTENDS Naturals, Sequences, Checksum

Byte == 0 .. 255

Zeros(n) == [i \in 1 .. n |-> 0]
Smaller(m, n) == IF m <= n THEN m ELSE n

\* What is there is copied; the caller's memory keeps the rest.
GetData(b, size, offset) == SubSeq(b, offset + 1, Smaller(offset + size, Len(b)))

SetData(b, data, offset) ==
  LET gap == Zeros(IF offset > Len(b) THEN offset - Len(b) ELSE 0)
  IN  SubSeq(b, 1, Smaller(offset, Len(b))) \o gap \o data
        \o SubSeq(b, offset + Len(data) + 1, Len(b))

\* What ExtractFront returns, and what it leaves.
ExtractFront(b, size) == SubSeq(b, 1, Smaller(size, Len(b)))
AfterFront(b, size) == SubSeq(b, size + 1, Len(b))

htons(n) == <<(n \div 256) % 256, n % 256>>
ntohs(bytes) == 256 * bytes[1] + bytes[2]

\* A byte without a neighbour is the upper half of its word.
Words(b) == (Len(b) + 1) \div 2
Word(b, i) == 256 * b[2 * i - 1] + (IF 2 * i <= Len(b) THEN b[2 * i] ELSE 0)

SumOfWords(b) ==
  LET sum[i \in 0 .. Words(b)] == IF i = 0 THEN 0 ELSE sum[i - 1] + Word(b, i)
  IN  sum[Words(b)]

OnesComplementSum(b) == Folded(SumOfWords(b))
==============================================================================
