------------------------------ MODULE Checksum ------------------------------
(***************************************************************************)
(* The arithmetic of the Internet checksum, as libminet/util.cc has it:    *)
(* 16-bit words are added up in a wider integer and the carries are folded *)
(* in twice.                                                               *)
(***************************************************************************)
EXTENDS Naturals

Word16 == 0 .. 65535

FoldCarry(sum) == (sum % 65536) + sum \div 65536

Folded(sum) == FoldCarry(FoldCarry(sum)) % 65536

Complement(word) == 65535 - word
==============================================================================
