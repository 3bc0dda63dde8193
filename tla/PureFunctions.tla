----------------------------- MODULE PureFunctions -----------------------------
(***************************************************************************)
(* The functions of the program that keep no state of their own, each      *)
(* applied to the inputs of a bounded set and compared with a reference:   *)
(* detection of protocols, the parsers of six protocols, HPACK, offsets,   *)
(* containers and the backoff of the edge client.  A behaviour is one call, *)
(* of HPACK the calls of one connection, which share the decoder's dynamic *)
(* table.                                                                  *)
(***************************************************************************)
EXTENDS FiniteSets, EdgeBackoff, Sniffer, RedisResp, RedisCommands, Messages, OffsetDetector, ContainerIDs

CONSTANTS MaxRetries,  \* 100 in retry
          MaxElems,    \* bound: elements of a RESP array
          MaxArgs,     \* bound: elements of a command
          MaxFields,   \* bound: fields of a header block
          MaxBlocks    \* bound: header blocks of a connection

VARIABLES fn,    \* the function called
          in,    \* its arguments; of a packet or a reply, the part chosen first
          out,   \* its result
          done,  \* it has returned
          table  \* HPACKDecoder.dynamicTable

vars == <<fn, in, out, done, table>>

-------------------------------------------------------------------------------
(* Inputs *)

Lengths == {3, 4, 5, 7, 8, 12, 16}
Ports == {80, 3306, 6379, 9092, 20880, 53, 1000, Override}
Heads ==
  Methods \cup {HTTP, PING, SET \o <<Space>>, <<103, 69, 116>>} \cup
  {<<0, 0, 0, 9>>, <<9, 0, 0, 0>>, <<0, 16, 0, 0>>, <<3, 0, 0, 0>>, <<254, 0, 0, 1>>,
   <<42, 51, 13, 10>>, <<45, 69, 82, 82>>, <<218, 187, 194, 0>>, <<187, 218, 0, 0>>, <<7, 7, 1, 0>>}
Middles == {<<Space, 3, 0, 1>>, <<0, 1, 0, 0>>, <<0, 1, 0, 100>>, <<3, 65, 65, 65>>, <<10, 53, 46, 55>>}
Padding == [i \in 1 .. 10 |-> 65]
Payloads == {SubSeq(h \o m \o Padding, 1, n) : h \in Heads, m \in Middles, n \in Lengths}

UpTo(n, S) == UNION {[1 .. k -> S] : k \in 0 .. n}

Strings == {<<>>, <<"a">>, [i \in 1 .. 10 |-> "1"]}
Leaves == {Simple(t, s) : t \in {"+", "-", ":", "$"}, s \in Strings} \cup {Null("$"), Null("*")}
Replies == Leaves \cup {Array(es) : es \in UpTo(MaxElems, Leaves)}
             \cup {Array(es) : es \in [1 .. 2 -> {Array(e) : e \in UpTo(1, Leaves)}]}

Requests == {<<e>> \o es : e \in Commands \cup {"UNKNOWN", "null", "array"},
                           es \in UpTo(MaxArgs - 1, {"k", "v", "null", "array"})}

Literal(kind) == {[kind |-> kind, name |-> n, value |-> v, index |-> 0] :
                    n \in {<<110>>, <<110, 97>>}, v \in {<<>>, <<118>>, <<65, 128>>}}
NamedByIndex == {[kind |-> kind, name |-> <<>>, value |-> v, index |-> 4] :
                    kind \in {"new", "plain"}, v \in {<<>>, <<118>>}}
Indexed == {[kind |-> "index", name |-> <<>>, value |-> <<>>, index |-> i] : i \in {2, 62}}
Blocks == UpTo(MaxFields, Literal("new") \cup Literal("plain") \cup NamedByIndex \cup Indexed) \ {<<>>}

Numbers == 1 .. 400 \cup {16383, 16384, 20000}

Series(major, minor) == <<major, ".">> \o minor
Kernel(series, patch) == [name |-> series \o <<".">> \o patch, series |-> series]
Kernels == {Kernel(Series("3", <<"1", "0">>), <<"0", "-", "e">>), Kernel(Series("5", <<"4">>), <<"7", "-", "g">>),
            Kernel(Series("5", <<"4">>), <<"9">>), Kernel(Series("6", <<"8">>), <<"2">>),
            Kernel(Series("3", <<"1">>), <<"5">>)}
\* The two embedded tables, with a second one of the 5.4 series.
MCTables == <<Kernel(Series("3", <<"1", "0">>), <<"0", "-", "e">>), Kernel(Series("5", <<"4">>), <<"0", "-", "g">>),
              Kernel(Series("5", <<"4">>), <<"7", "-", "g">>)>>
Hosts == [btf: BOOLEAN, bpftool: BOOLEAN, uname: BOOLEAN, amd64: BOOLEAN,
          manual: {"unset", "bad", "good"}, kernel: Kernels]

-------------------------------------------------------------------------------
(* One action per function *)

Init ==
  /\ done = FALSE /\ out = <<>> /\ table = <<>>
  /\ \/ fn = "packet" /\ in \in [data: Payloads, src: {0}, dst: {0}]
     \/ fn = "reply" /\ in \in [value: Replies, cut: {0}]
     \/ fn = "request" /\ in \in [elems: Requests]
     \/ fn = "block" /\ in = [fields |-> <<>>, cut |-> 0, blocks |-> 0, history |-> <<>>, off |-> FALSE]
     \/ fn = "message" /\ in \in [m: MessagesSent, cut: {0}]
     \/ fn = "hello" /\ in \in [h: Hellos]
     \/ fn = "cgroup" /\ in \in [id: {"c1"}, format: DOMAIN Formats("c1")]
     \/ fn = "integer" /\ in \in [n: Numbers, prefix: {4, 5, 6, 7}]
     \/ fn = "offsets" /\ in \in [host: Hosts, mode: {"auto", "embedded", "manual", "other"}]
     \/ fn = "backoff" /\ in \in [retryCount: 0 .. MaxRetries]

Returns(f, result) == fn = f /\ ~done /\ done' = TRUE /\ out' = result /\ UNCHANGED <<fn, table>>

Packet(s, t) ==
  Returns("packet", DetectProtocol(in.data, s, t)) /\ in' = [in EXCEPT !.src = s, !.dst = t]

\* A capture of the first n bytes of a reply is handed to the parser.
Reply(n) ==
  Returns("reply", ParseRedisPacket(SubSeq(Encode(in.value), 1, n))) /\ in' = [in EXCEPT !.cut = n]

Request == Returns("request", ParseRedisCommand(in.elems)) /\ UNCHANGED in

\* The first n bytes of a message of one of the other protocols.
Message(n) ==
  Returns("message", Parse(in.m, SubSeq(in.m.bytes, 1, n))) /\ in' = [in EXCEPT !.cut = n]

\* A ClientHello in its record is handed to the functions that look into records.
Hello ==
  /\ Returns("hello", [info |-> GetTLSInfo(Record(in.h)), http |-> CheckHTTPOverTLS(Record(in.h))])
  /\ UNCHANGED in

\* The fields before the first literal that names its field by index.
Before(fs) == SubSeq(fs, 1, Cardinality({i \in DOMAIN fs : \A j \in 1 .. i : ~NameByIndex(fs[j])}))

\* A header block of the connection, in a HEADERS frame, the last byte of which may
\* be left to a CONTINUATION frame.
Block(fs, cut) ==
  LET d == EncodeFields(fs)
      frame == FrameBytes(HEADERS, EndHeaders * (1 - cut), <<0, 0, 0, 1>>, SubSeq(d, 1, Len(d) - cut))
      r == ParseHTTP2Request(ParseFrame(frame), table)
      whole == SubSeq(fs, 1, Len(fs) - cut)
  IN  /\ fn = "block" /\ in.blocks < MaxBlocks /\ done' = TRUE
      /\ out' = [ok |-> r.ok, headers |-> r.headers] /\ table' = r.table
      /\ in' = [fields |-> fs, cut |-> cut, blocks |-> in.blocks + 1,
                off |-> in.off \/ Before(fs) # fs,
                history |-> IF in.off THEN in.history
                            ELSE in.history \o SelectSeq(Before(whole), LAMBDA f : f.kind = "new")]
      /\ UNCHANGED fn

Integer ==
  LET d == EncodeInt(in.n, in.prefix)
  IN  /\ Returns("integer", [user |-> decodeInteger(d, in.prefix)[1], kernel |-> hpack_decode_int(d, in.prefix)[1]])
      /\ UNCHANGED in

\* The two functions that find a container on their own, from a process or a path.
Cgroup ==
  LET path == Formats(in.id)[in.format]
  IN  /\ Returns("cgroup", [process |-> fullID(path), path |-> GetContainerIDFromCgroup(path)])
      /\ UNCHANGED in

Offsets == Returns("offsets", Detect(in.host, in.mode)) /\ UNCHANGED in

Sleep == Returns("backoff", Backoff(in.retryCount)) /\ UNCHANGED in

Next ==
  \/ \E s \in Ports, t \in Ports : Packet(s, t)
  \/ fn = "reply" /\ \E n \in 1 .. Len(Encode(in.value)) : Reply(n)
  \/ fn = "message" /\ \E n \in 1 .. Len(in.m.bytes) : Message(n)
  \/ \E fs \in Blocks, cut \in {0, 1} : Block(fs, cut)
  \/ Request \/ Hello \/ Cgroup \/ Integer \/ Offsets \/ Sleep

Spec == Init /\ [][Next]_vars

-------------------------------------------------------------------------------
(* Properties *)

Called(f) == fn = f /\ done

\* Where detect_l7_protocol in the kernel sees MySQL or Redis on the destination port of
\* a connection that is no other well-known protocol's, user space agrees, a panic apart.
\* And hpack_decode_int reads every integer an encoder writes, of one byte or more.
KernelAgrees ==
  /\ Called("packet") =>
       LET kernel == detect_l7_protocol(in.data, in.dst)
       IN  kernel \in {"mysql", "redis"} /\ detectByPort(in.src, in.dst) = kernel /\ Override # in.src
             => out \in {kernel, "panic"}
  /\ Called("integer") => out.kernel = in.n

Whole == in.cut = Len(Encode(in.value))
NoNullInside(v) ==
  \A i \in DOMAIN v.elems :
    ~v.elems[i].null /\ \A j \in DOMAIN v.elems[i].elems : ~v.elems[i].elems[j].null

\* ParseRedisPacket inverts the encoding: a whole value without nulls inside its
\* arrays comes back as it was sent, nested arrays, empty strings and lengths of two
\* digits included, and a capture that ends before the packet does is an error, never
\* a shorter value.
RoundTrip ==
  Called("reply") =>
    IF Whole THEN NoNullInside(in.value) => out = in.value ELSE out = Failed

KeyOf(c, elems) == IF c.name \in Reads \cup Writes /\ Len(elems) > 1 THEN elems[2] ELSE "none"

\* Each parser inverts the encoding of its protocol: a whole message is recognised and
\* every field comes back as the peer sent it, but for the fields the code looks for in
\* another place than the protocol has them: of those comes back what Messages names
\* instead, nothing or the bytes that are there.  Of a Redis command
\* that reads or writes data, and of no other, GetRedisKey gives the key.  Of a cgroup
\* path the container comes back, except that GetContainerID does not know scopes.
FieldsComeBack ==
  /\ Called("message") => (in.cut = Len(in.m.bytes) =>
       /\ out.ok = "ok" /\ IsRecognised(in.m)
       /\ \A i \in DOMAIN in.m.fields :
            out.fields[i] = IF i \in DOMAIN in.m.instead THEN in.m.instead[i] ELSE in.m.fields[i])
  /\ Called("request") => (out.ok /\ (\A i \in DOMAIN in.elems : IsString(in.elems[i])) =>
       GetRedisKey(out) = KeyOf(out, in.elems))
  /\ Called("cgroup") => out = [path |-> in.id, process |-> IF in.format = "scope" THEN "" ELSE in.id]

\* A capture that ends inside a message makes a parser fail or leave fields out; no
\* field is made of other bytes than those of the whole message, and none panics.
TruncationOnlyLoses ==
  Called("message") =>
    LET whole == Parse(in.m, in.m.bytes)
    IN  \/ out.ok = "error"
        \/ out.ok = "ok" /\ \A i \in DOMAIN out.fields : out.fields[i] \in {whole.fields[i], <<>>, <<0>>}

\* The comment in GetTLSInfo: "if it is a handshake record, try to parse the
\* ClientHello"; the server name of a hello is found.
ServerNameIsFound == Called("hello") => out.info = Ok(<< <<ClientHello>>, <<769>>, in.h.name>>)

\* HPACKDecoder's dynamic table holds the literals with indexing of the connection's
\* HEADERS frames in order, those of a block that failed further on included, until the
\* peer first names a field by its index: the decoder takes the value of such a literal
\* for its name (the index is ignored) and adds what it misreads, but behind what is there.
TableIsHistory ==
  fn = "block" =>
    LET sent == [i \in DOMAIN in.history |-> <<in.history[i].name, in.history[i].value>>]
    IN  SubSeq(table, 1, Len(sent)) = sent /\ (~in.off => table = sent)

\* decodeInteger: "decode an HPACK integer"; user space reads them too.
UserReadsIntegers == Called("integer") => out.user = in.n

\* In auto mode Detect takes the file as the last resort: only where neither BTF nor
\* a table nor the defaults of the architecture can be used, and then it does.
ManualIsLastResort ==
  Called("offsets") => (in.mode = "auto" =>
    (out.offsets.source = "manual" <=>
       /\ in.host.manual = "good" /\ ~(in.host.btf /\ in.host.bpftool /\ in.host.amd64)
       /\ ~in.host.uname \/ (~in.host.amd64 /\ tableOf(in.host.kernel) = 0)))

\* Whatever the multiplication in retry wraps to, a goroutine sleeps for at most a
\* minute, and for the first 34 failures in a row it does sleep.
BackoffBounded ==
  Called("backoff") => out \in 0 .. 60 /\ (in.retryCount \in 1 .. 34 => out > 0)
===============================================================================
