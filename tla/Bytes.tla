--------------------------------- MODULE Bytes ---------------------------------
(***************************************************************************)
(* Captured bytes and what a parser returns for them.  Offsets count from  *)
(* zero, as in the code.  A result is an error, a panic, or the fields of  *)
(* the message, each a sequence: a string or number nobody calculates with *)
(* is kept as its bytes, another number n is <<n>>, a missing field <<>>.  *)
(***************************************************************************)
EXTENDS Integers, Sequences

U8(d, o) == d[o + 1]
U16(d, o) == 256 * U8(d, o) + U8(d, o + 1)
LE16(d, o) == U8(d, o) + 256 * U8(d, o + 1)
Slice(d, from, to) == SubSeq(d, from + 1, to)
After(d, o) == Slice(d, o, Len(d))

\* Four bytes as a number, capped where every limit of the parsers is passed.
U32(d, o) == IF U8(d, o) > 0 THEN 16777216 ELSE 65536 * U8(d, o + 1) + U16(d, o + 2)

HasBit(b, weight) == (b \div weight) % 2 = 1

Enc16(n) == <<n \div 256, n % 256>>
Enc24(n) == <<n \div 65536>> \o Enc16(n % 65536)
Enc32(n) == <<0>> \o Enc24(n)
Fill(n, b) == [i \in 1 .. n |-> b]

Err == [ok |-> "error", fields |-> <<>>]
Panic == [ok |-> "panic", fields |-> <<>>]
Ok(fields) == [ok |-> "ok", fields |-> fields]
===============================================================================
