------------------------------ MODULE MySQLPackets ------------------------------
(***************************************************************************)
(* The MySQL client/server protocol (pkg/protocol/mysql.go): the packet    *)
(* and the payloads that are parsed further, with what servers and clients *)
(* send.                                                                   *)
(***************************************************************************)
EXTENDS Bytes

payloadLen(d) == U8(d, 0) + 256 * U8(d, 1) + 65536 * U8(d, 2)

ParseMySQLPacket(d) ==
  IF Len(d) < 4 \/ Len(d) < 4 + payloadLen(d) THEN Err
  ELSE Ok(<< <<U8(d, 3)>>, Slice(d, 4, 4 + payloadLen(d)) >>)

\* Every length of three bytes and every sequence number of one byte is accepted.
IsMySQLPacket(d) == Len(d) >= 4

\* The value in its bytes, the least significant first, and the bytes read: none of a
\* number that is cut off.
readLenEncInteger(d) ==
  LET longer(n) == IF Len(d) < 1 + n THEN << <<0>>, 0 >> ELSE <<Slice(d, 1, 1 + n), 1 + n>>
  IN  IF d = <<>> THEN << <<0>>, 0 >>
      ELSE CASE U8(d, 0) < 251 -> << <<U8(d, 0)>>, 1 >>
             [] U8(d, 0) = 251 -> << <<0>>, 1 >>  \* NULL
             [] U8(d, 0) = 252 -> longer(2)
             [] U8(d, 0) = 253 -> longer(3)
             [] OTHER -> longer(8)

\* The end of the server's version: a zero byte, or the end of the data.
versionEnd(d) ==
  LET ends == {o \in 1 .. Len(d) - 1 : U8(d, o) = 0}
  IN  IF ends = {} THEN Len(d) ELSE CHOOSE o \in ends : \A p \in ends : o <= p

\* Protocol, version, connection, the first eight bytes of the salt, capabilities,
\* character set, status and the name of the plugin.
ParseMySQLHandshake(d) ==
  LET o == versionEnd(d) + 1
      name == o + 20
      named == name + 2 <= Len(d) /\ name + 1 + U8(d, name) <= Len(d)
  IN  IF Len(d) < 5 \/ o + 20 > Len(d) THEN Err
      ELSE Ok(<< <<U8(d, 0)>>, Slice(d, 1, o - 1), Slice(d, o, o + 4), Slice(d, o + 4, o + 12),
                 Slice(d, o + 13, o + 17), <<U8(d, o + 17)>>, <<LE16(d, o + 18)>>,
                 IF named THEN Slice(d, name + 1, name + 1 + U8(d, name)) ELSE <<>> >>)

ParseMySQLQuery(d) == IF d = <<>> THEN Err ELSE Ok(<< <<U8(d, 0)>>, After(d, 1) >>)

\* Rows affected, last identifier inserted, status and warnings.
ParseMySQLOK(d) ==
  LET rows == readLenEncInteger(After(d, 1))
      id == readLenEncInteger(After(d, 1 + rows[2]))
      status == 1 + rows[2] + id[2]
      number(o) == IF o + 2 <= Len(d) THEN <<LE16(d, o)>> ELSE <<0>>
  IN  IF Len(d) < 7 THEN Err
      ELSE Ok(<<rows[1], id[1], number(status), number(status + 2)>>)

ParseMySQLEOF(d) == IF Len(d) < 5 THEN Err ELSE Ok(<< <<LE16(d, 1)>>, <<LE16(d, 3)>> >>)

Hash == 35

\* The code, the SQL state and the message.
ParseMySQLError(d) ==
  IF Len(d) < 4 THEN Err
  ELSE Ok(<< <<LE16(d, 1)>> >> \o
         (IF U8(d, 3) # Hash THEN << <<>>, After(d, 3) >>
          ELSE IF Len(d) >= 9 THEN <<Slice(d, 4, 9), After(d, 9)>> ELSE << <<>>, <<>> >>))

\* A packet is parsed before its payload is.
MySQLPayload(kind, d) ==
  LET p == ParseMySQLPacket(d)
      payload == p.fields[2]
  IN  IF p.ok = "error" THEN Err
      ELSE CASE kind = "greeting" -> ParseMySQLHandshake(payload)
             [] kind = "query" -> ParseMySQLQuery(payload)
             [] kind = "ok" -> ParseMySQLOK(payload)
             [] kind = "eof" -> ParseMySQLEOF(payload)
             [] OTHER -> ParseMySQLError(payload)

-------------------------------------------------------------------------------
(* The peers *)

PacketOf(payload) == <<Len(payload), 0, 0, 1>> \o payload

\* A number in the fewest bytes the protocol allows, its value least significant first.
LenEnc(value) ==
  CASE Len(value) = 1 -> value [] Len(value) = 2 -> <<252>> \o value
    [] Len(value) = 3 -> <<253>> \o value [] OTHER -> <<254>> \o value

\* HandshakeV10: the capabilities are sent in two halves, around set and status.
Greeting(version, id, salt) ==
  <<10>> \o version \o <<0>> \o id \o salt \o <<0, 255, 247, 33, 2, 0, 255, 129, 21>>
    \o Fill(10, 0) \o Fill(12, 120) \o <<0, 109, 0>>
===============================================================================
