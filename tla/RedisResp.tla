------------------------------- MODULE RedisResp -------------------------------
(***************************************************************************)
(* ParseRedisPacket and calculateRESPSize (pkg/protocol/redis.go), against *)
(* the encoding of the RESP protocol.  The parser takes the elements of an *)
(* array one after the other and finds where the next one begins by        *)
(* computing how long the value it has just built must have been.          *)
(***************************************************************************)
EXTENDS Integers, Sequences

\* A RedisRESP: str holds the Value of the string types, elems that of an array.
Simple(type, s) == [type |-> type, null |-> FALSE, str |-> s, elems |-> <<>>]
Array(es) == [type |-> "*", null |-> FALSE, str |-> <<>>, elems |-> es]
Null(type) == [type |-> type, null |-> TRUE, str |-> <<>>, elems |-> <<>>]
Failed == Null("err")

Digits == <<"0", "1", "2", "3", "4", "5", "6", "7", "8", "9">>
DigitOf(c) == CHOOSE i \in 0 .. 9 : Digits[i + 1] = c
CRLF == <<"r", "n">>

RECURSIVE Decimal(_)
Decimal(n) == IF n < 10 THEN <<Digits[n + 1]>> ELSE Decimal(n \div 10) \o <<Digits[(n % 10) + 1]>>

\* The protocol: the bytes a value is sent as.
RECURSIVE Encode(_), EncodeAll(_)
EncodeAll(es) == IF es = <<>> THEN <<>> ELSE Encode(Head(es)) \o EncodeAll(Tail(es))
Encode(v) ==
  <<v.type>> \o (
  CASE v.null                    -> <<"-", "1">> \o CRLF
    [] v.type = "$" /\ ~v.null   -> Decimal(Len(v.str)) \o CRLF \o v.str \o CRLF
    [] v.type = "*" /\ ~v.null   -> Decimal(Len(v.elems)) \o CRLF \o EncodeAll(v.elems)
    [] v.type \notin {"$", "*"}  -> v.str \o CRLF)

-------------------------------------------------------------------------------
(* The code *)

\* strings.Index of the line end in data[1:], or -1.
LineEnd(d) ==
  LET ends == {i \in 2 .. Len(d) - 1 : d[i] = "r" /\ d[i + 1] = "n"}
  IN  IF ends = {} THEN -1 ELSE (CHOOSE i \in ends : \A j \in ends : i <= j) - 2

\* strconv.Atoi of what Encode writes for a length.
Atoi(s) ==
  LET value10[i \in 0 .. Len(s)] == IF i = 0 THEN 0 ELSE value10[i - 1] * 10 + DigitOf(s[i])
  IN  IF s = <<"-", "1">> THEN -1 ELSE value10[Len(s)]

sizeOfNull == 4

sizeOneDigit(n) == 1  \* mutant: a length is taken to have one digit

sizeOfLength(n) == Len(Decimal(n))

RECURSIVE calculateRESPSize(_), sizeOfAll(_)
sizeOfAll(es) == IF es = <<>> THEN 0 ELSE calculateRESPSize(Head(es)) + sizeOfAll(Tail(es))
calculateRESPSize(v) ==
  CASE v.type \in {"+", "-", ":"}  -> 1 + Len(v.str) + 2
    [] v.type \in {"$", "*"} /\ v.null -> sizeOfNull
    [] v.type = "$" /\ ~v.null     -> 1 + sizeOfLength(Len(v.str)) + 2 + Len(v.str) + 2
    [] v.type = "*" /\ ~v.null     -> 1 + sizeOfLength(Len(v.elems)) + 2 + sizeOfAll(v.elems)

bulkComplete(offset, length, d) == offset + length + 2 <= Len(d)

From(d, offset) == SubSeq(d, offset + 1, Len(d))

RECURSIVE ParseRedisPacket(_), parseElems(_, _, _, _)
\* The loop over the elements of an array.
parseElems(d, offset, n, es) ==
  IF n = 0 THEN Array(es)
  ELSE IF offset >= Len(d) THEN Failed
  ELSE LET e == ParseRedisPacket(From(d, offset))
       IN  IF e = Failed THEN Failed
           ELSE parseElems(d, offset + calculateRESPSize(e), n - 1, Append(es, e))

ParseRedisPacket(d) ==
  LET end == LineEnd(d)
      text == SubSeq(d, 2, 1 + end)
      length == Atoi(text)
      offset == 1 + end + 2
  IN  IF d = <<>> \/ end = -1 THEN Failed
      ELSE IF d[1] \in {"+", "-", ":"} THEN Simple(d[1], text)
      ELSE IF d[1] \notin {"$", "*"} THEN Failed
      ELSE IF length = -1 THEN Null(d[1])
      ELSE IF d[1] = "*" THEN parseElems(d, offset, length, <<>>)
      ELSE IF bulkComplete(offset, length, d)
        THEN Simple("$", SubSeq(d, offset + 1, offset + length))
      ELSE Failed
===============================================================================
