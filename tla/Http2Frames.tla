------------------------------ MODULE Http2Frames ------------------------------
(***************************************************************************)
(* HTTP/2 frames and the payloads that are parsed further                  *)
(* (pkg/protocol/http2.go).  The header block of a HEADERS frame goes to   *)
(* the HPACK decoder of the connection.                                    *)
(***************************************************************************)
EXTENDS Bytes, Hpack

DATA == 0
HEADERS == 1
RST_STREAM == 3
SETTINGS == 4
PINGFRAME == 6
GOAWAY == 7
WINDOW_UPDATE == 8

EndStream == 1
EndHeaders == 4
Priority == 32

\* The four bytes at o without their reserved bit.
StreamAt(d, o) == <<U8(d, o) % 128>> \o Slice(d, o + 1, o + 4)

frameLength(d) == 65536 * U8(d, 0) + U16(d, 1)

\* Type, flags, stream and payload.
ParseHTTP2Frame(d) ==
  IF Len(d) < 9 \/ Len(d) < 9 + frameLength(d) THEN Err
  ELSE Ok(<< <<U8(d, 3)>>, <<U8(d, 4)>>, StreamAt(d, 5), Slice(d, 9, 9 + frameLength(d)) >>)

ParseHTTP2SettingsFrame(p) ==
  IF Len(p) % 6 # 0 THEN Err
  ELSE Ok(<<[i \in 1 .. Len(p) \div 6 |-> <<U16(p, 6 * (i - 1)), Slice(p, 6 * i - 4, 6 * i)>>]>>)

priorityIsBlock(p, flags) == 0  \* mutant: the five bytes are left in the block

blockStart(p, flags) == IF HasBit(flags, Priority) THEN 5 ELSE 0

\* End of the stream, end of the headers, then dependency, exclusiveness and weight
\* if they are sent, and the header block.  Padding is not taken off.
ParseHTTP2HeadersFrame(p, flags) ==
  LET prioritised == HasBit(flags, Priority)
  IN  IF prioritised /\ Len(p) < 5 THEN Err
      ELSE Ok(<< <<HasBit(flags, EndStream)>>, <<HasBit(flags, EndHeaders)>>,
                 IF prioritised THEN <<StreamAt(p, 0), U8(p, 0) >= 128, U8(p, 4)>> ELSE <<>>,
                 After(p, blockStart(p, flags)) >>)

ParseHTTP2RstStreamFrame(p) == IF Len(p) # 4 THEN Err ELSE Ok(<<p>>)

\* The last stream, the error and the debugging data.
ParseHTTP2GoAwayFrame(p) == IF Len(p) < 8 THEN Err ELSE Ok(<<StreamAt(p, 0), Slice(p, 4, 8), After(p, 8)>>)

ParseHTTP2WindowUpdateFrame(p) == IF Len(p) # 4 THEN Err ELSE Ok(<<StreamAt(p, 0)>>)

ParseHTTP2PingFrame(p) == IF Len(p) # 8 THEN Err ELSE Ok(<<p>>)

\* A frame and then its payload, by its type.
ParseFrame(d) ==
  LET f == ParseHTTP2Frame(d)
      p == f.fields[4]
      type == f.fields[1][1]
      payload == CASE type = HEADERS -> ParseHTTP2HeadersFrame(p, f.fields[2][1])
                   [] type = SETTINGS -> ParseHTTP2SettingsFrame(p)
                   [] type = RST_STREAM -> ParseHTTP2RstStreamFrame(p)
                   [] type = GOAWAY -> ParseHTTP2GoAwayFrame(p)
                   [] type = WINDOW_UPDATE -> ParseHTTP2WindowUpdateFrame(p)
                   [] type = PINGFRAME -> ParseHTTP2PingFrame(p)
                   [] OTHER -> Ok(<<p>>)
  IN  IF f.ok = "error" \/ payload.ok = "error" THEN Err ELSE Ok(SubSeq(f.fields, 1, 3) \o payload.fields)

\* Headers are decoded block by block; a block that goes on in a CONTINUATION frame
\* is decoded as far as it was sent.  The result is the decoder's.
ParseHTTP2Request(frame, table) ==
  decodeRest(frame.fields[7], [ok |-> TRUE, headers |-> <<>>, table |-> table])

-------------------------------------------------------------------------------
(* The peer *)

FrameBytes(type, flags, stream, payload) == Enc24(Len(payload)) \o <<type, flags>> \o stream \o payload
===============================================================================
