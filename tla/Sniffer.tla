-------------------------------- MODULE Sniffer --------------------------------
(***************************************************************************)
(* L7 protocol detection, twice: DetectProtocol in user space              *)
(* (pkg/protocol/sniffer.go) and detect_l7_protocol in the BPF program     *)
(* (bpf/l7_sniffer.bpf.c).  A payload is a sequence of bytes; indices are  *)
(* those of the code plus one.                                             *)
(***************************************************************************)
EXTENDS Integers, Sequences

CONSTANT Override  \* a port that portOverride maps to HTTP/2

ASSUME SnifferAssumption == Override \in Nat

\* The words the detectors look for, as ASCII.
GET == <<71, 69, 84>>
SET == <<83, 69, 84>>
DEL == <<68, 69, 76>>
PING == <<80, 73, 78, 71>>
HTTP == <<72, 84, 84, 80>>
Methods == {GET, <<80, 79, 83, 84>>, <<80, 85, 84>>, DEL \o <<69, 84, 69>>, <<72, 69, 65, 68>>,
            <<79, 80, 84, 73, 79, 78, 83>>, <<80, 65, 84, 67, 72>>,
            <<67, 79, 78, 78, 69, 67, 84>>, <<84, 82, 65, 67, 69>>}
Space == 32
RespTypes == {42, 36, 43, 45, 58}  \* * $ + - :

BigEndian16(d, i) == d[i] * 256 + d[i + 1]

\* The first four bytes as a number below 2^31, capped: a greater one is as large.
Length32(b3, b2, b1, b0) == IF b3 > 0 THEN 16777216 ELSE b2 * 65536 + b1 * 256 + b0

Starts(d, word) == Len(word) <= Len(d) /\ SubSeq(d, 1, Len(word)) = word

-------------------------------------------------------------------------------
(* User space: the verify functions *)

verifyHTTP(d) ==
  /\ Len(d) >= 8
  /\ \/ \E m \in Methods : Starts(d, m) /\ Len(d) > Len(m) /\ d[Len(m) + 1] = Space
     \/ Starts(d, HTTP)

\* data[4] is read of a packet whose length is checked to be four only.
panicsInMySQL(d) == d[1] = 0 /\ Len(d) < 5

verifyMySQL(d) == d[1] \in {0, 3} \/ (d[1] = 254 /\ Len(d) = 5)

ToUpper(b) == IF b \in 97 .. 122 THEN b - 32 ELSE b

\* Three bytes are compared with a four-letter word too, which never matches.
inlineCommand(d) == <<ToUpper(d[1]), ToUpper(d[2]), ToUpper(d[3])>> \in {GET, SET, DEL, PING}

verifyRedis(d) == d[1] \in RespTypes \/ inlineCommand(d)

verifyKafka(d) == Length32(d[1], d[2], d[3], d[4]) \in 1 .. 1048575

DubboMagic == 218 * 256 + 187

verifyDubbo(d) == Len(d) >= 16 /\ BigEndian16(d, 1) = DubboMagic

fewRecords(d) == Len(d) >= 12 /\ BigEndian16(d, 5) < 100 /\ BigEndian16(d, 7) < 100

verifyDNS(d) == fewRecords(d)

verifyProtocol(d, proto) ==
  CASE proto = "http" -> verifyHTTP(d)   [] proto = "mysql" -> verifyMySQL(d)
    [] proto = "redis" -> verifyRedis(d) [] proto = "kafka" -> verifyKafka(d)
    [] proto = "dubbo" -> verifyDubbo(d) [] proto = "dns" -> verifyDNS(d)
    [] OTHER -> FALSE

\* The first protocol of the list that one of the ports belongs to.
firstOf(ports) ==
  IF ports \cap {80, 443, 8080} # {} THEN "http"
  ELSE IF 3306 \in ports THEN "mysql"
  ELSE IF 6379 \in ports THEN "redis"
  ELSE IF 9092 \in ports THEN "kafka"
  ELSE IF 20880 \in ports THEN "dubbo"
  ELSE IF 53 \in ports THEN "dns" ELSE "none"

detectByPort(s, t) == firstOf({s, t})

\* There is no case for Kafka and none for an HTTP request.
detectByPayload(d) ==
  IF Starts(d, HTTP) THEN "http"
  ELSE IF d[1] \in {0, 3} THEN "mysql"
  ELSE IF d[1] \in RespTypes THEN "redis"
  ELSE IF BigEndian16(d, 1) = DubboMagic THEN "dubbo"
  ELSE IF fewRecords(d) THEN "dns" ELSE "none"

DetectProtocol(d, s, t) ==
  LET proto == detectByPort(s, t)
  IN  IF Len(d) < 4 THEN "none"
      ELSE IF Override \in {s, t} THEN "http2"
      ELSE IF proto = "mysql" /\ panicsInMySQL(d) THEN "panic"
      ELSE IF proto # "none" /\ verifyProtocol(d, proto) THEN proto
      ELSE detectByPayload(d)

-------------------------------------------------------------------------------
(* The kernel: numbers are loaded in host order, that is little-endian *)

KernelWords == {GET, <<80, 79, 83, 84>>, <<72, 69, 65, 68>>, <<80, 85, 84>>,
                <<68, 69, 76, 69>>, <<79, 80, 84, 73>>}

kernelRespInline == RespTypes \cup {80}  \* mutant: a P, as of PING, is enough

kernelResp == RespTypes

kernelMatches(d, port) ==
  CASE port \in {80, 443, 8080} -> \E w \in KernelWords : Starts(d, w)
    [] port = 3306  -> d[1] \in {0, 3}
    [] port = 6379  -> d[1] \in kernelResp
    [] port = 9092  -> Length32(d[4], d[3], d[2], d[1]) \in 1 .. 1048575
    [] port = 20880 -> d[1] + d[2] * 256 = DubboMagic
    [] OTHER -> FALSE

detect_l7_protocol(d, port) ==
  IF Len(d) < 4 THEN "none"
  ELSE IF kernelMatches(d, port) THEN detectByPort(port, port)
  ELSE IF Len(d) >= 8 /\ Starts(d, HTTP) THEN "http" ELSE "none"
===============================================================================
