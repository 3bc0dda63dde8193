------------------------------- MODULE TlsRecords -------------------------------
(***************************************************************************)
(* TLS records and the ClientHello (pkg/protocol/https.go), with the hello *)
(* a client sends.  Unknown versions and handshake types differ from known *)
(* ones in their names only, which are left out.                           *)
(***************************************************************************)
EXTENDS Bytes

Handshake == 22
ApplicationData == 23
ClientHello == 1
ServerName == 0
ALPN == 16
Versions == 768 .. 772  \* tlsVersionNames

ASCIIhttp == <<104, 116, 116, 112>>

\* The end of the payload is calculated in sixteen bits.
ParseTLSRecord(d) ==
  LET end == (5 + U16(d, 3)) % 65536
  IN  IF Len(d) < 5 \/ Len(d) < 5 + U16(d, 3) THEN Err
      ELSE IF end < 5 THEN Panic
      ELSE Ok(<< <<U8(d, 0)>>, <<U16(d, 1)>>, Slice(d, 5, end) >>)

RECURSIVE parseTLSExtensions(_)
parseTLSExtensions(d) ==
  IF Len(d) < 4 \/ Len(d) < 4 + U16(d, 2) THEN <<>>
  ELSE LET end == 4 + U16(d, 2)
       IN  <<[type |-> U16(d, 0), data |-> Slice(d, 4, end)]>> \o parseTLSExtensions(After(d, end))

parseServerNameExtension(d) ==
  IF Len(d) < 5 \/ U8(d, 2) # 0 \/ Len(d) < 5 + U16(d, 3) THEN <<>>
  ELSE Slice(d, 5, 5 + U16(d, 3))

RECURSIVE protocolsFrom(_)
protocolsFrom(d) ==
  IF d = <<>> \/ Len(d) < 1 + U8(d, 0) THEN <<>>
  ELSE <<Slice(d, 1, 1 + U8(d, 0))>> \o protocolsFrom(After(d, 1 + U8(d, 0)))

parseALPNExtension(d) == IF Len(d) < 2 THEN <<>> ELSE protocolsFrom(After(d, 2))

\* The data of the extension of a type that is read last; parsed, no data give nothing.
LastOf(exts, type) ==
  LET hits == {i \in DOMAIN exts : exts[i].type = type}
  IN  IF hits = {} THEN <<>> ELSE exts[CHOOSE i \in hits : \A j \in hits : j <= i].data

present(d, from, n) == Len(d) >= from + n

\* The offsets of the length of the suites, of the compression methods and of the
\* extensions follow from each other.  An odd number of bytes of suites is one more
\* than the array made for them holds.
ParseTLSClientHello(d) ==
  LET suites == 35 + U8(d, 34)
      methods == suites + 2 + U16(d, suites)
      exts == methods + 1 + U8(d, methods)
      extended == exts < Len(d)
      extensions == IF extended THEN parseTLSExtensions(Slice(d, exts + 2, exts + 2 + U16(d, exts))) ELSE <<>>
  IN  IF Len(d) < 43 \/ ~present(d, suites, 2) \/ ~present(d, suites + 2, U16(d, suites)) THEN Err
      ELSE IF U16(d, suites) % 2 = 1 THEN Panic
      ELSE IF ~present(d, methods, 1) \/ ~present(d, methods + 1, U8(d, methods)) THEN Err
      ELSE IF extended /\ (~present(d, exts, 2) \/ ~present(d, exts + 2, U16(d, exts))) THEN Err
      ELSE Ok(<< <<U16(d, 0)>>, Slice(d, 2, 34), Slice(d, 35, suites), Slice(d, suites + 2, methods),
                 Slice(d, methods + 1, exts), parseServerNameExtension(LastOf(extensions, ServerName)),
                 parseALPNExtension(LastOf(extensions, ALPN)) >>)

IsTLSRecord(d) == Len(d) >= 5 /\ U8(d, 0) \in 20 .. 23 /\ U16(d, 1) \in Versions

isClientHello(body) == body # <<>> /\ U8(body, 0) = ClientHello

\* The message's type is taken off the record before it is parsed, its length is not.
helloOf(body) == ParseTLSClientHello(After(body, 1))

\* The handshake type, the record's version and the server name.
GetTLSInfo(d) ==
  LET r == ParseTLSRecord(d)
      body == r.fields[3]
      hello == helloOf(body)
      named(type, name) == Ok(<<type, r.fields[2], name>>)
  IN  IF ~IsTLSRecord(d) \/ r.ok = "error" THEN Ok(<< <<>>, <<0>>, <<>> >>)
      ELSE IF r.ok = "panic" THEN Panic
      ELSE IF r.fields[1] # <<Handshake>> \/ body = <<>> THEN named(<<>>, <<>>)
      ELSE IF ~isClientHello(body) \/ Len(body) = 1 THEN named(<<U8(body, 0)>>, <<>>)
      ELSE IF hello.ok = "panic" THEN Panic
      ELSE named(<<ClientHello>>, IF hello.ok = "ok" THEN hello.fields[6] ELSE <<>>)

StartsWith(s, word) == Len(s) >= Len(word) /\ SubSeq(s, 1, Len(word)) = word

CheckHTTPOverTLS(d) ==
  LET r == ParseTLSRecord(d)
      hello == helloOf(r.fields[3])
  IN  IF ~IsTLSRecord(d) \/ r.ok = "error" THEN "no"
      ELSE IF r.ok = "panic" THEN "panic"
      ELSE IF r.fields[1] = <<ApplicationData>> THEN "yes"
      ELSE IF r.fields[1] # <<Handshake>> \/ ~isClientHello(r.fields[3]) \/ hello.ok = "error" THEN "no"
      ELSE IF hello.ok = "panic" THEN "panic"
      ELSE IF \E i \in DOMAIN hello.fields[7] : StartsWith(hello.fields[7][i], ASCIIhttp) THEN "yes" ELSE "no"

-------------------------------------------------------------------------------
(* The client *)

Extension(type, data) == Enc16(type) \o Enc16(Len(data)) \o data
Sized(s) == <<Len(s)>> \o s

SNI(name) == Extension(ServerName, Enc16(Len(name) + 3) \o <<0>> \o Enc16(Len(name)) \o name)
Offers(p) == Extension(ALPN, Enc16(Len(p) + 1) \o Sized(p))

Body(h) ==
  Enc16(771) \o Fill(32, h.random) \o Sized(h.sid) \o Enc16(Len(h.suites)) \o h.suites \o Sized(<<0>>)
    \o (IF h.exts = <<>> THEN <<>> ELSE Enc16(Len(h.exts)) \o h.exts)

\* The hello in a handshake message of its own, which is a record of its own.
Record(h) ==
  LET message == <<ClientHello>> \o Enc24(Len(Body(h))) \o Body(h)
  IN  <<Handshake>> \o Enc16(769) \o Enc16(Len(message)) \o message
===============================================================================
