----------------------------- MODULE KafkaRequests -----------------------------
(***************************************************************************)
(* Kafka requests (pkg/protocol/kafka.go): the header and the first topic  *)
(* of the five requests that name topics, with what clients send.  The     *)
(* data begin after the size of the message.                               *)
(***************************************************************************)
EXTENDS Bytes

Produce == 0
Fetch == 1
TopicLists == {3, 19, 20}  \* Metadata, CreateTopics, DeleteTopics

\* Key, version, correlation and client; the fifth field is where the body begins.
ParseKafkaRequestHeader(d) ==
  IF Len(d) < 10 \/ 10 + U16(d, 8) > Len(d) THEN Err
  ELSE Ok(<< <<U16(d, 0)>>, <<U16(d, 2)>>, Slice(d, 4, 8), Slice(d, 10, 10 + U16(d, 8)), <<10 + U16(d, 8)>> >>)

Skip(d, o, n) == IF o + n <= Len(d) THEN o + n ELSE o

capturedTopic(d, from, n) == Slice(d, from, IF from + n <= Len(d) THEN from + n ELSE Len(d))  \* mutant: what there is of it

topicName(d, from, n) == IF from + n <= Len(d) THEN Slice(d, from, from + n) ELSE <<>>

\* The first topic of the array at o, if the array is not empty.
FirstTopic(d, o) ==
  IF o + 6 > Len(d) \/ U32(d, o) = 0 THEN <<>> ELSE topicName(d, o + 6, U16(d, o + 4))

\* The identifier of a transaction, acks and a timeout precede the topics; null is
\* sent as the length -1 and read as 65535.
ProduceTopic(d, o) ==
  IF o + 2 > Len(d) THEN <<>> ELSE FirstTopic(d, Skip(d, Skip(d, o + 2 + U16(d, o), 2), 4))

\* Waiting time, least and most bytes and isolation are taken to precede the topics.
FetchTopic(d, o) == FirstTopic(d, Skip(d, Skip(d, Skip(d, Skip(d, o, 4), 4), 4), 1))

ParseKafkaRequest(d) ==
  LET h == ParseKafkaRequestHeader(d)
      key == h.fields[1][1]
      o == h.fields[5][1]
      topic == CASE key = Produce -> ProduceTopic(d, o) [] key = Fetch -> FetchTopic(d, o)
                 [] key \in TopicLists -> FirstTopic(d, o) [] OTHER -> <<>>
  IN  IF h.ok = "error" THEN Err ELSE Ok(SubSeq(h.fields, 1, 4) \o <<topic>>)

\* The correlation; what follows is kept as it is.
ParseKafkaResponseHeader(d) == IF Len(d) < 4 THEN Err ELSE Ok(<<Slice(d, 0, 4)>>)
ParseKafkaResponse(d) == ParseKafkaResponseHeader(d)

\* Of the message with its size: size, key and version are in range.
IsKafkaPacket(d) == Len(d) >= 10 /\ U32(d, 0) <= 10485760 /\ U16(d, 4) <= 62 /\ U16(d, 6) <= 20

-------------------------------------------------------------------------------
(* The client *)

String(s) == Enc16(Len(s)) \o s
NullString == <<255, 255>>
Header(key, version, client) == Enc16(key) \o Enc16(version) \o <<0, 0, 1, 44>> \o String(client)

\* Version 3 and up of Produce, version 4 of Fetch, where the replica comes first.
ProduceBody(txn, topic) == txn \o <<255, 255, 0, 0, 5, 220>> \o Enc32(1) \o String(topic) \o Enc32(0)
FetchBody(topic) ==
  <<255, 255, 255, 255>> \o Enc32(500) \o Enc32(1) \o Enc32(1048577) \o <<0>> \o Enc32(1) \o String(topic) \o Enc32(0)
TopicsBody(topics) == Enc32(Len(topics)) \o (IF topics = <<>> THEN <<>> ELSE String(topics[1]))
===============================================================================
