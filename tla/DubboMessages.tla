----------------------------- MODULE DubboMessages -----------------------------
(***************************************************************************)
(* Dubbo headers and the Hessian decoder (pkg/protocol/dubbo.go), with the *)
(* messages Dubbo sends.                                                   *)
(***************************************************************************)
EXTENDS Bytes

Magic == 218 * 256 + 187
MaxBody == 8 * 1024 * 1024

\* DubboMessageRequest and DubboMessageResponse.
MessageRequest == 1
MessageResponse == 2

\* Status, request, length of the body, then what is read off the flags: type of the
\* message, two-way, event, serialization.
ParseDubboProtocolHeader(d) ==
  IF Len(d) < 16 \/ U16(d, 0) # Magic \/ U32(d, 12) > MaxBody THEN Err
  ELSE LET flags == U8(d, 2)
       IN  Ok(<< <<U8(d, 3)>>, Slice(d, 4, 12), <<U32(d, 12)>>, <<(flags \div 32) % 2>>,
                 <<HasBit(flags, 32)>>, <<HasBit(flags, 16)>>, <<flags % 32>> >>)

\* The body is not parsed, of an event or of another message.
ParseDubboRequest(d) == ParseDubboProtocolHeader(d)
ParseDubboResponse(d) == ParseDubboProtocolHeader(d)

IsDubboPacket(d) == Len(d) >= 16 /\ U16(d, 0) = Magic /\ U32(d, 12) <= MaxBody

-------------------------------------------------------------------------------
(* Hessian2Decoder: a reader is its data and its offset *)

Read(r, ok, value, offset) == [ok |-> ok, value |-> value, reader |-> [r EXCEPT !.offset = offset]]

ReadFixed(r, n) ==
  IF r.offset + n > Len(r.data) THEN Read(r, FALSE, <<>>, r.offset)
  ELSE Read(r, TRUE, Slice(r.data, r.offset, r.offset + n), r.offset + n)

ReadByte(r) == ReadFixed(r, 1)
ReadInt32(r) == ReadFixed(r, 4)
ReadInt64(r) == ReadFixed(r, 8)

\* The length is used up even if the string is not there, or is negative.
ReadString(r) ==
  LET length == ReadInt32(r)
      n == U32(length.value, 0)
      o == length.reader.offset
  IN  IF ~length.ok THEN Read(r, FALSE, <<>>, r.offset)
      ELSE IF o + n > Len(r.data) THEN Read(r, FALSE, <<>>, o)
      ELSE Read(r, TRUE, Slice(r.data, o, o + n), o + n)

\* A caller that reads a list of values and stops at the first error; a value that
\* was not read is empty.
RECURSIVE ReadAll(_, _)
ReadAll(r, kinds) ==
  IF kinds = <<>> THEN <<>>
  ELSE LET v == CASE Head(kinds) = "byte" -> ReadByte(r) [] Head(kinds) = "int32" -> ReadInt32(r)
                  [] Head(kinds) = "int64" -> ReadInt64(r) [] OTHER -> ReadString(r)
       IN  IF v.ok THEN <<v.value>> \o ReadAll(v.reader, Tail(kinds))
           ELSE [i \in DOMAIN kinds |-> <<>>]

Decode(d, kinds) == Ok(ReadAll([data |-> d, offset |-> 0], kinds))

-------------------------------------------------------------------------------
(* The peers *)

HeaderBytes(flags, status, id, n) == Enc16(Magic) \o <<flags, status>> \o id \o Enc32(n)
StringBytes(s) == Enc32(Len(s)) \o s
===============================================================================
