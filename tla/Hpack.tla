---------------------------------- MODULE Hpack ---------------------------------
(***************************************************************************)
(* HPACK, the header compression of HTTP/2: HPACKDecoder of                *)
(* pkg/protocol/http2.go with the dynamic table it keeps for a connection, *)
(* and the integer decoder of bpf/http2_trace.bpf.c.  The peer's encoder   *)
(* (RFC 7541) is modelled by the bytes it sends.                           *)
(***************************************************************************)
EXTENDS Integers, Sequences, TLC

hpackStaticTable ==
  <<":authority", ":method", ":method", ":path", ":path", ":scheme", ":scheme", ":status", ":status",
    ":status", ":status", ":status", ":status", ":status", ":status", ":status", ":status", ":status",
    ":status", "accept-charset", "accept-encoding", "accept-language", "accept-ranges", "accept",
    "access-control-allow-origin", "age", "allow", "authorization", "cache-control",
    "content-disposition", "content-encoding", "content-language", "content-length",
    "content-location", "content-range", "content-type", "cookie", "date", "etag", "expect", "expires",
    "from", "host", "if-match", "if-modified-since", "if-none-match", "if-range",
    "if-unmodified-since", "last-modified", "link", "location", "max-forwards", "proxy-authenticate",
    "proxy-authorization", "range", "referer", "refresh", "retry-after", "server", "set-cookie",
    "strict-transport-security", "transfer-encoding", "user-agent", "vary", "via", "www-authenticate">>

-------------------------------------------------------------------------------
(* Integers *)

Mask(prefix) == 2 ^ prefix - 1

RECURSIVE Groups(_)
Groups(n) == IF n < 128 THEN <<n>> ELSE <<128 + (n % 128)>> \o Groups(n \div 128)

\* The encoder, with the bits above the prefix zero.
EncodeInt(n, prefix) == IF n < Mask(prefix) THEN <<n>> ELSE <<Mask(prefix)>> \o Groups(n - Mask(prefix))

\* The loop over the bytes after the first, which ends with the data.
RECURSIVE addGroups(_, _, _, _)
addGroups(d, offset, shift, result) ==
  IF offset >= Len(d) THEN <<result, offset>>
  ELSE LET b == d[offset + 1]
           sum == result + (b % 128) * 2 ^ shift
       IN  IF b < 128 THEN <<sum, offset + 1>> ELSE addGroups(d, offset + 1, shift + 7, sum)

readInt(d, prefix, shift) ==
  LET first == d[1] % (2 ^ prefix)
  IN  IF first < Mask(prefix) THEN <<first, 1>> ELSE addGroups(d, 1, shift, first)

\* The user-space decoder, of data that is not empty, begins to shift by the prefix.
decodeInteger(d, prefix) == readInt(d, prefix, prefix)

firstShift(prefix) == 0

\* The kernel's decoder shifts from 0.  Its loop does not look at the end of the data,
\* so the model speaks of whole integers, the only ones it is given.
hpack_decode_int(d, prefix) == readInt(d, prefix, firstShift(prefix))

-------------------------------------------------------------------------------
(* The decoder *)

Error == [ok |-> FALSE, bytes |-> <<>>, used |-> 0]
Rest(d, offset) == SubSeq(d, offset + 1, Len(d))

stringFits(d, used, n) == used + n <= Len(d)

\* A string with the Huffman bit set is returned as it is, undecoded.
decodeString(d) ==
  IF d = <<>> THEN Error
  ELSE LET int == decodeInteger(d, 7)
           used == int[2]
       IN  IF ~stringFits(d, used, int[1]) THEN Error
           ELSE [ok |-> TRUE, bytes |-> SubSeq(d, used + 1, used + int[1]), used |-> used + int[1]]

NoField == [ok |-> FALSE, name |-> <<"", <<>>>>, value |-> <<>>, used |-> 0, add |-> FALSE]

\* An indexed field takes its name from the static table, and no value.
decodeIndexed(d) ==
  LET int == decodeInteger(d, 7)
      known == int[1] \in DOMAIN hpackStaticTable
  IN  [ok |-> TRUE, name |-> <<IF known THEN hpackStaticTable[int[1]] ELSE "", <<>>>>,
       value |-> <<>>, used |-> int[2], add |-> FALSE]

\* The name of a literal is always read as a string, its index ignored.
decodeLiteral(d, prefix, add) ==
  LET used == decodeInteger(d, prefix)[2]
      name == decodeString(Rest(d, used))
      value == decodeString(Rest(d, used + name.used))
  IN  IF ~name.ok \/ ~value.ok THEN NoField
      ELSE [ok |-> TRUE, name |-> <<"", name.bytes>>, value |-> value.bytes,
            used |-> used + name.used + value.used, add |-> add]

addsAll(add) == TRUE  \* mutant: literals without indexing are kept too

adds(add) == add

decodeHeaderField(d) ==
  IF d[1] >= 128 THEN decodeIndexed(d)
  ELSE IF d[1] >= 64 THEN decodeLiteral(d, 6, adds(TRUE)) ELSE decodeLiteral(d, 4, adds(FALSE))

stored(f, headers) == (f.name :> f.value) @@ headers

\* Decode: r is the map so far and the table, which keeps what a block added
\* before the field that fails.
RECURSIVE decodeRest(_, _)
decodeRest(d, r) ==
  IF d = <<>> THEN r
  ELSE LET f == decodeHeaderField(d)
       IN  IF ~f.ok THEN [r EXCEPT !.ok = FALSE]
           ELSE decodeRest(Rest(d, f.used),
                  [ok |-> TRUE, headers |-> stored(f, r.headers),
                   table |-> IF f.add THEN Append(r.table, <<f.name[2], f.value>>) ELSE r.table])

-------------------------------------------------------------------------------
(* The peer *)

\* A literal has a name of its own, or the index of its name in the static table.
NameByIndex(f) == f.kind # "index" /\ f.index > 0

EncodeField(f) ==
  IF f.kind = "index" THEN <<128 + f.index>>
  ELSE <<(IF f.kind = "new" THEN 64 ELSE 0) + f.index>>
         \o (IF NameByIndex(f) THEN <<>> ELSE <<Len(f.name)>> \o f.name) \o <<Len(f.value)>> \o f.value

RECURSIVE EncodeFields(_)
EncodeFields(fs) == IF fs = <<>> THEN <<>> ELSE EncodeField(Head(fs)) \o EncodeFields(Tail(fs))
===============================================================================
