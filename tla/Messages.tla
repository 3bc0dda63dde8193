-------------------------------- MODULE Messages --------------------------------
(***************************************************************************)
(* What the peers of the traced connections send, one message of a kind or *)
(* a few: the bytes, the fields they stand for in the order of the parser, *)
(* and of the fields that the parser looks for in another place than the   *)
(* protocol has them, what comes back instead.                             *)
(***************************************************************************)
EXTENDS TlsRecords, MySQLPackets, KafkaRequests, DubboMessages, Http2Frames

Sent(kind, bytes, fields, instead) ==
  [kind |-> kind, bytes |-> bytes, fields |-> fields, instead |-> instead]
AsSent == <<>>

Name == <<97, 46, 98>>
Id == <<0, 0, 0, 0, 0, 0, 1, 2>>

\* Hellos with and without a session, extensions, an unknown one first.
Hellos ==
  {[random |-> 7, sid |-> sid, suites |-> <<19, 1, 19, 2>>, name |-> name,
    exts |-> (IF other THEN Extension(10, <<0, 2, 0, 29>>) ELSE <<>>)
               \o (IF name = <<>> THEN <<>> ELSE SNI(name)) \o (IF name = <<>> THEN <<>> ELSE Offers(ASCIIhttp))] :
     sid \in {<<>>, <<1, 2, 3>>}, name \in {<<>>, Name}, other \in BOOLEAN}

TLS == {Sent("hello", Body(h), << <<771>>, Fill(32, h.random), h.sid, h.suites, <<0>>, h.name,
                                  IF h.name = <<>> THEN <<>> ELSE <<ASCIIhttp>> >>, AsSent) : h \in Hellos}
         \cup {Sent("record", Record(h), << <<Handshake>>, <<769>> >>, AsSent) : h \in Hellos}

\* Behind the salt the parser takes the capabilities to be in one piece: their second
\* half is the set and the status, the set is the rest of the status, the status is the
\* second half, and the name of the plugin is the 21 bytes the length of the salt counts.
GreetingMisread ==
  5 :> <<255, 247, 33, 2>> @@ 6 :> <<0>> @@ 7 :> <<255 + 256 * 129>> @@ 8 :> Fill(10, 0) \o Fill(11, 120)

MySQL ==
  {Sent("greeting", PacketOf(Greeting(v, <<9, 0, 0, 0>>, Id)),
        << <<10>>, v, <<9, 0, 0, 0>>, Id, <<255, 247, 255, 129>>, <<33>>, <<2>>, <<109>> >>,
        GreetingMisread) : v \in {Name, <<56>>}}
  \cup {Sent("query", PacketOf(<<3>> \o q), << <<3>>, q>>, AsSent) : q \in {<<>>, Name}}
  \cup {Sent("ok", PacketOf(<<0>> \o LenEnc(rows) \o LenEnc(id) \o <<2, 0, 1, 0>>), <<rows, id, <<2>>, <<1>> >>, AsSent) :
          rows \in {<<0>>, <<250>>, <<251, 0>>, <<0, 0, 1>>}, id \in {<<7>>, <<1, 1>>, Id}}
  \cup {Sent("eof", PacketOf(<<254, 1, 0, 34, 0>>), << <<1>>, <<34>> >>, AsSent),
        Sent("failure", PacketOf(<<255, 40, 4, 35>> \o Fill(5, 52) \o Name), << <<1064>>, Fill(5, 52), Name>>, AsSent),
        Sent("failure", PacketOf(<<255, 16, 4>> \o Name), << <<1040>>, <<>>, Name>>, AsSent)}

KafkaFields(key, version, topic) == << <<key>>, <<version>>, <<0, 0, 1, 44>>, <<99>>, topic>>
KafkaSent(key, version, body, topic, instead) ==
  Sent("kafka", Header(key, version, <<99>>) \o body, KafkaFields(key, version, topic), instead)

\* The topic of a Produce outside transactions, and of a Fetch, is not found.
Kafka ==
  {KafkaSent(Produce, 3, ProduceBody(String(Name), Name), Name, AsSent),
   KafkaSent(Produce, 3, ProduceBody(NullString, Name), Name, 5 :> <<>>),
   KafkaSent(Fetch, 4, FetchBody(Name), Name, 5 :> <<>>), KafkaSent(18, 2, <<>>, <<>>, AsSent)}
  \cup {KafkaSent(key, 1, TopicsBody(topics), IF topics = <<>> THEN <<>> ELSE topics[1], AsSent) :
          key \in TopicLists, topics \in {<<>>, <<Name>>, <<Name, <<99>> >>}}
  \cup {Sent("answer", <<0, 0, 1, 44, 0, 0>>, << <<0, 0, 1, 44>> >>, AsSent)}

\* Type and two-way are read off the bit that marks events, and events off a bit of the
\* serialization.
FlagsMisread(flags) ==
  4 :> <<(flags \div 32) % 2>> @@ 5 :> <<HasBit(flags, 32)>> @@ 6 :> <<FALSE>>

\* Requests (bit 128) and responses, one-way, two-way (64) and events (32), in Hessian,
\* JSON and Protobuf.
Dubbo ==
  {Sent("dubbo", HeaderBytes(flags, status, Id, Len(Name)) \o Name,
        << <<status>>, Id, <<Len(Name)>>, <<IF HasBit(flags, 128) THEN MessageRequest ELSE MessageResponse>>,
           <<HasBit(flags, 64)>>, <<HasBit(flags, 32)>>, <<flags % 32>> >>, FlagsMisread(flags)) :
     flags \in {194, 130, 2, 226, 34, 198, 140}, status \in {0, 20, 70}}
  \cup {Sent("hessian", StringBytes(s) \o <<5>> \o Id \o StringBytes(Name) \o <<0, 0, 1, 0>>,
             <<s, <<5>>, Id, Name, <<0, 0, 1, 0>> >>, AsSent) : s \in {<<>>, Name}}
HessianKinds == <<"string", "byte", "int64", "string", "int32">>

One == <<0, 0, 0, 1>>
FrameSent(type, flags, payload, fields) ==
  Sent("frame", FrameBytes(type, flags, One, payload), << <<type>>, <<flags>>, One>> \o fields, AsSent)

\* Frames without padding.
Frames ==
  {FrameSent(DATA, EndStream, Name, <<Name>>), FrameSent(SETTINGS, 0, <<>>, << <<>> >>),
   FrameSent(SETTINGS, 0, Enc16(3) \o Enc32(100) \o Enc16(4) \o Enc32(65535),
             << << <<3, Enc32(100)>>, <<4, Enc32(65535)>> >> >>),
   FrameSent(HEADERS, EndHeaders, Name, << <<FALSE>>, <<TRUE>>, <<>>, Name>>),
   FrameSent(HEADERS, EndStream + Priority, <<128, 0, 0, 1, 200>> \o Name,
             << <<TRUE>>, <<FALSE>>, <<One, TRUE, 200>>, Name>>),
   FrameSent(RST_STREAM, 0, Enc32(8), <<Enc32(8)>>), FrameSent(PINGFRAME, 1, Id, <<Id>>),
   FrameSent(GOAWAY, 0, One \o Enc32(2) \o Name, <<One, Enc32(2), Name>>),
   FrameSent(WINDOW_UPDATE, 0, Enc32(65535), <<Enc32(65535)>>)}

MessagesSent == TLS \cup MySQL \cup Kafka \cup Dubbo \cup Frames

\* The test by which a message is known to be of its protocol; Kafka's takes the size too.
IsRecognised(m) ==
  CASE m.kind = "record" -> IsTLSRecord(m.bytes)
    [] m.kind \in {"greeting", "query", "ok", "eof", "failure"} -> IsMySQLPacket(m.bytes)
    [] m.kind = "kafka" -> IsKafkaPacket(Enc32(Len(m.bytes)) \o m.bytes)
    [] m.kind = "dubbo" -> IsDubboPacket(m.bytes)
    [] OTHER -> TRUE

\* The parser of a kind of message.
Parse(m, d) ==
  CASE m.kind = "hello" -> ParseTLSClientHello(d)
    [] m.kind = "record" -> ParseTLSRecord(d)
    [] m.kind \in {"greeting", "query", "ok", "eof", "failure"} -> MySQLPayload(m.kind, d)
    [] m.kind = "kafka" -> ParseKafkaRequest(d)
    [] m.kind = "answer" -> ParseKafkaResponse(d)
    [] m.kind = "dubbo" -> IF U8(m.bytes, 2) >= 128 THEN ParseDubboRequest(d) ELSE ParseDubboResponse(d)
    [] m.kind = "hessian" -> Decode(d, HessianKinds)
    [] m.kind = "frame" -> ParseFrame(d)
===============================================================================
