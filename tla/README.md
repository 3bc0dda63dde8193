# Verification of the eBPF probe

TLA+ models of the probe in `src/`, the TLC configurations that check them on
small instances, and TLAPS proofs for every value of the constants.
`PROJECT.json` holds the map from definitions to source lines, the runs, the
mutants (one plausible bug per checked property, each defined next to the
definition it mutates and marked `mutant:`), the hazards and the findings.

## 1. The system and its parts

The probe is a Go process (`cmd/probe/main.go`) that loads eBPF programs, reads
the events they leave in ring buffers and reports them.

| Part | Source | State | Operations | Interacts with |
|---|---|---|---|---|
| main | `cmd/probe/main.go` | configuration, writers, manager | start everything, wait for a signal, StopAll, Close | all |
| Manager | `internal/collector/manager.go` | map of collectors | InitFromConfig, StartAll, StopAll, Status | collectors |
| TLS, HTTP/2, log collectors | `internal/collector/{tls_trace,http2_trace,log_collect}.go` | running, stopCh, reader, probes | Init, Start, processEvents, Stop | eBPF programs, writers |
| eBPF programs | `bpf/*.bpf.c` | per-thread maps, ring buffers | enter and exit probes | kernel, collectors |
| Edge client | `internal/output/edge.go` | batch, retryCount, stopCh | Write*, Flush, retry, flushLoop, Stop | edge server |
| ClickHouse writer | `internal/output/clickhouse.go` | batch, stopCh, db | Write*, Flush, flushLoop, Stop, Close | database |
| MultiWriter | `internal/output/multi.go` | list of writers | fan-out of Write*, Flush, Close | writers |
| vTap | `internal/collector/vtap.go` | packet channel, pcap file, forwarder | capture, receive, process, rotate, clean up | files, UDP |
| Ping trace | `internal/collector/pingtrace.go` | result | client, server, trace | raw sockets |
| K8s client, enricher | `internal/k8s/*.go` | informers, caches | Start, Stop, lookups, Enrich | API server |
| Docker mapper | `internal/collector/docker.go` | map from PID to container | refresh every 30 s, lookup, Stop | `/proc` |
| Cloud metadata | `internal/collector/cloud_metadata.go` | platform, metadata | Init, Collect once at Start, GetMetadata | HTTP |
| Kernel and offset detection | `internal/kernel`, `pkg/offset` | capabilities, offsets | Detect* | kernel files |
| Perf analyzers | `pkg/perf/analyzer.go` | sample maps | Record*, GetTop* | none |
| Protocol detection and parsers | `pkg/protocol/*.go` | HPACK's dynamic table; the others are pure | detect, parse | none |

The models follow the code as it is written, unused and unfinished parts
included: some of the repository does not build (imports are missing, `Flush` has
two signatures), the tracer, vTap, the Docker mapper and the cloud metadata are
started by nothing, and `Enrich` and `WriteBatch` have no callers. Where a caller
is missing, the model lets any goroutine call the operation.

What is hard here: `retryCount` and `batch` of the edge client are shared by the
collectors' goroutines, the flush loop and `Close`, and `retry` sleeps without
the lock; shutdown stops collectors whose goroutines are blocked in a read and
closes writers that others still use; the pcap cleanup works without the
writer's lock; probes at the entry and the exit of a system call meet through a
map that may be full; the tracer's raw socket hears late and foreign packets;
captured bytes end anywhere.

## 2. Modules and how they correspond to the code

Variables are the fields of the Go structs, the program counters of the
goroutines, and whatever of the network, the disk or the kernel the code
depends on. An action is what a goroutine does between two points where another
can act: a section under a lock, an unlocked load or store, a channel operation,
a system call. What no code reads and only properties look at is kept apart in
history variables: `hist`, PcapWriter's `whist`, VTap's `net`, `late` of PingTrace's
`world`, `epoch` and `shared` of K8sEnricher, `had` of DockerMapper, and `live`, `owed` and
`doubt` of PerfAnalyzers. (Two things in them are read by
guards: the bound on `epoch`, and that an event, call or packet is new.) Operators marked
`mutant:` are not part of the model.

Output

* `EventSink` is what an `output.Writer` promises, without batches or goroutines:
  an event accepted is pending and is settled at most once.
* `EdgeClient` is `edge.go`: the Write methods, Flush (take the batch under the
  lock, Post, retry or reset), the unlocked `retryCount++` of `retry` as a load and
  a store, the sleep, flushLoop, Stop and Close. A Post that fails may or may not
  have reached the server. `MCEdgeClient` adds a symmetry set for TLC.
* `EdgeBackoff` is the delay of `retry` in 64-bit arithmetic: numbers are kept as
  a power of two and a factor, because the product overflows.
* `ClickHouseWriter` is `clickhouse.go`: the batch, the transaction step by step with
  a failure possible at each, direct inserts, flushLoop, Stop and Close. Both
  writers are shown to implement `EventSink` (`ImplementsSink`).

Collection

* `Probe` composes main, the Manager, the eBPF collectors and MultiWriter:
  InitFromConfig and StartAll with every failure, processEvents of each
  collector, the signal, StopAll, Close of each writer. A writer is the set of
  events it was handed. `MCProbe` names the two writers.
* `LogCollect` is `log_collect.bpf.c` and its reader: entry and exit tracepoints of
  write and writev, the map of bounded size between them, failed and killed calls, the
  ring buffer, which may be full, processEvents with its three ways out and its read
  errors, and Stop. The slice of `LogEvent.Data` by the length the kernel reports may
  panic.
* `PcapWriter` is the file side of the vTap collector: Write with its two writes, whose
  errors are ignored, rotation, cleanup in its steps (list, stat, remove), each of which
  may fail, Close. `VTap` extends it with the socket, the channel, both loops and Stop.
  Packets are numbered in the order they arrive.
* `PingTrace` is `pingtrace.go`: client and server goroutines, Start, Stop, the
  result channel, and the network around the raw socket.
* `K8sEnricher` is `client.go` and `enricher.go`: informers that lag behind the
  cluster, the LRU cache, Enrich calls that look up and then add under the read
  lock, invalidation under the write lock.

* `DockerMapper` is `docker.go`: a refresh lists `/proc`, reads one cgroup after the
  other and swaps the map, while the host starts and ends processes and uses their
  identifiers again; ticker, lookups and Stop. `ContainerIDs` has the three ways the
  code finds a container in a cgroup path; of a segment it keeps what they look at.
* `PerfAnalyzers` is SchedAnalyzer and MemLeakDetector of `analyzer.go`: Record
  functions, the sort of the getters over a map ranged over in any order, frees
  recorded before their allocations, processes that end without freeing.
* `ProcessTables` puts LogCollect, DockerMapper, K8sEnricher and PerfAnalyzers side by
  side, the components that keep a table by process. They share no state, so a
  behaviour is of one of them.

Detection and parsing, as operators without state

* `Sniffer`: DetectProtocol and the BPF program's detect_l7_protocol over the
  same byte sequences.
* `RedisResp`: the RESP parser; `RedisCommands`: names, categories and keys.
* `Hpack`: the HPACK decoder with its dynamic table, and the integer decoders of
  user space and kernel.
* `TlsRecords`, `MySQLPackets`, `KafkaRequests`, `DubboMessages` and `Http2Frames`: the
  parsers of these protocols on captured bytes (`Bytes`), at the code's offsets and with
  its checks of lengths, and below a line what the peers send. A result is an error, a
  panic or the fields of the message. `Messages` collects the messages sent, with all
  the fields they stand for and, where the code looks for a field in another place than
  the protocol has it, what it finds there instead. HEADERS frames feed `Hpack`.
* `OffsetDetector`: the sources of kernel offsets and the choice of a table.
* `PureFunctions` calls these, `ContainerIDs` and `EdgeBackoff`: a behaviour chooses a function and
  an input, and one step computes the result; HPACK takes several blocks of one
  connection in a row, because they share the table.

Encoders, the network, servers and the kernel's side of a call are external: they
are modelled from how the code uses them and are marked so in the map.

## 3. Runs and what they show

Passing:

* `edge_safety`: two collectors, flushLoop and main share the client. No event is
  lost or held twice (`EachEventOnce`); a drop needs more than
  MaxRetries failures although goroutines overwrite each other's count
  (`DropNeedsFailures`); the server sees an event twice only if it took in a Post
  that failed (`DuplicateNeedsLostAnswer`); the client implements `EventSink`.
* `edge_live`: while the server answers 200 again and again every event is settled
  until the client is stopped (`EventuallySettled`), and Close ends even if no Post
  ever succeeds (`CloseReturns`).
* `clickhouse`: a failed transaction loses its own batch and no other and no event
  is inserted by two Flushes (`EachEventOnce`); Close leaves nothing behind in the
  batch that was there when it began (`CloseEmptiesBatch`); the writer implements
  `EventSink`; until it is stopped every event is stored or lost in the end.
* `probe`: a closed writer is handed at most one event of each
  collector (`LateIsInFlight`); what was started is released
  (`StartedAreReleased`); Stop ends the goroutines, blocked reads included
  (`GoroutineEnds`); the process ends if every Close returns
  (`ShutdownCompletes`); read errors keep no event from any of the writers
  (`EventsAreHandedOn`).
* `vtap`: cleanup, which takes no lock, never removes a packet younger than the
  age limit (`FreshPacketsSurvive`); apart from the packet of a rotation, those after
  Close and those the file system refuses, what is counted as written is in a file
  (`CountedIsStored`); the counters account for every packet (`CountsAddUp`); files past
  their age go, also those that a failed cleanup left (`ExpiredAreRemoved`); Stop ends
  both loops (`LoopsEnd`).
* `process_tables`, of log collection: a successful write to a standard stream is
  reported with its own descriptor and length unless the map or the ring buffer was
  full (`StdWritesReported`), and reaches the writer in spite of read errors unless the
  collector is stopped or a write longer than the array ended the process
  (`StdWritesAreHandedOn`); an entry outlives its call only if that
  failed or was killed (`EntriesAreUsedUp`). Of Kubernetes: an entry invalidated while
  other Enrich calls run does not come back (`InvalidatedStaysGone`); two processes
  share an entry only where their PIDs are no Unicode scalar values
  (`SharedOnlyOutsideUnicode`); Start returns if the API server stays reachable
  (`StartCompletes`). Of the Docker mapper: a lookup answers what the identifier has
  stood for since the refresh began that built the map (`AnswersAreRecent`), and a
  process that stays is found for good (`StayersAreFound`). Of the analyzers: the lists
  hold the greatest by falling amount, whatever the order of the map (`TopIsTop`); no
  leak is missed in whatever order events come, and none made up where they come in
  order and processes free before they end (`BytesBoundLeaks`).
* `ping`: a trace ends early only
  with an answer that is not Time Exceeded (`OnlyAnswersEndTraces`); a stopped
  server answers once more at most (`OneLateAnswer`); a stopped client ends
  (`ClientsEnd`).
* `pure_functions`: kernel and user space agree on MySQL and Redis
  and the kernel reads HPACK integers (`KernelAgrees`); RESP parsing inverts encoding,
  and a truncated packet is an error (`RoundTrip`); the parsers of the other five
  protocols return the fields their peers sent, Redis commands their keys, and
  cgroup paths their containers; of the fields that are read in the wrong place comes
  back what `Messages` names (`FieldsComeBack`); a message cut at any byte makes a parser fail or leave fields
  out, and never panic or read other bytes for a field (`TruncationOnlyLoses`); the
  HPACK table is the connection's history, failed blocks included, up to the first
  literal whose name is an index; what the code misreads from there on is added behind
  that history and changes none of it (`TableIsHistory`); the offset file is the last resort
  (`ManualIsLastResort`); the backoff is never above a minute and is positive up
  to the 34th retry (`BackoffBounded`).

Each of these properties has a mutant in `PROJECT.json`, a small plausible bug in
the definition it is about, under which TLC finds it violated.

Four runs expect a violation; each states what a comment of the code says:

* `log_only_std`: a failed write to stdout leaves its descriptor in the map, and the
  thread's next successful write to any file is reported as output.
* `hpack_user`: the user-space decoder misreads integers above the prefix's maximum.
* `tls_server_name`: GetTLSInfo takes the type off a handshake message and leaves the
  three bytes of its length, so that no field of the ClientHello is where it is read
  and the server name is not found (`https.go:390`; `CheckHTTPOverTLS` does the same).
* `docker_format`: of `/system.slice/docker-<containerID>.scope`, the first format of the
  comment, the segment `system.slice`, which has 12 characters, is returned as the
  container (`docker.go:133`).

Other differences met while reading, which the models contain and no run
states as a property: the comment at `edge.go:120` promises a delay up to 60 s, but the
product overflows from the 35th retry on and the goroutine may not sleep at all; `retryCount` belongs to the client, so a batch may be dropped
at its first attempt (`edge.go:115`); the packet that makes the pcap writer rotate
is counted and not stored (`vtap.go:92`), and so is one that the disk has no room for
(`vtap.go:118`); `WaitForCacheSync` waits on a context that is
never cancelled (`client.go:178`); the LRU cache has no expiry although a comment says so
(`enricher.go:169`); a four-byte payload on the MySQL port is read past its end
(`sniffer.go:214`); the size of a RESP null inside an array is one short
(`redis.go:288`); an indexed HPACK field never reads the dynamic table
(`http2.go:518`), and of a literal whose name is an index the value is read as the name
and the next field as the value (`http2.go:527`); a HEADERS block that goes on in a
CONTINUATION frame is decoded without its rest; the kernel tests the length of Kafka and
the magic number of Dubbo in little-endian order, so that it recognises neither where user
space does (`l7_sniffer.bpf.c`); a kernel 3.1 matches the table of 3.10 (`detector.go:260`); the topic of a Kafka
Produce without a transaction and of a Fetch is not found, and a null client id is an
error (`kafka.go:157`, `kafka.go:199`, `kafka.go:235`); the fields of a MySQL greeting behind the salt
are read at other places than HandshakeV10 has them (`mysql.go:203`); Dubbo's message
type and two-way flag are both read off the event bit, the type is never Response, and
the event flag is read off a bit of the serialization (`dubbo.go:134`); the padding
of HTTP/2 frames is not taken off (`http2.go:288`).

## 4. Bounds and why they are enough

* Edge: two collectors besides flushLoop and main are four flushes at once, more
  than the two it takes to lose an update of `retryCount`; three events,
  one of which json.Marshal refuses, with batches of two give a full batch, a rest,
  and an event added during a sleep; MaxRetries 2 (1 in `edge_live`) for 100
  reaches the drop. Collectors and good events are symmetric in `edge_safety`;
  liveness runs use no symmetry.
* ClickHouse: a collector, flushLoop and main flush at once; three events, batches
  of two.
* Probe: two collectors that need different capabilities of the kernel, two events,
  no writer, one or both.
* vTap: three packets and a channel of two, so that it overflows; span and age limit
  of one second and a clock up to two, so that a file is rotated, and expires while
  another is written; every write and every step of a cleanup may fail.
* LogCollect: two threads, a map of one entry and a ring buffer of two, which three calls
  fill; lengths 0 (a failure), 1 and 2, and
  room for 1 in the array, so that one write is too long; three calls, so that a stale
  entry meets two later ones.
* Docker mapper: two processes, two starts, two containers and a process outside
  containers, so that an identifier goes from one container to another and to none while
  a refresh is under way; one path that is read rightly and one that is not.
* Perf analyzers: three processes, so that the sort takes more than one pass and a list
  of two leaves one out; amounts 1 and 2, so that a free can be greater than, equal to or
  less than what is recorded; three calls.
* K8s: a pod of this node that comes and goes, two Enrich calls at once, a PID that is a Unicode
  scalar value and two that are not, a cache of one entry for eviction, one
  invalidation per key.
* Ping: one goroutine, client or server; two traces of two hops, a result channel
  of one, two foreign packets, so that an answer can be late for its hop and for its
  trace and a stopped server could answer twice. With one Start the second close of
  stopCh, which panics, is not reached.
* Pure functions: payloads that begin with each word or number tested for, cut at
  3, 4, 5, 7, 8, 12 and 16 bytes, the lengths compared with and their neighbours;
  RESP strings of 0, 1 and 10 bytes (a length of two digits) and arrays of arrays;
  messages of each kind and size of field, every one cut at every byte, length-encoded
  integers of each of their four sizes, 250 and 251 included; two HPACK blocks of two
  fields, indexed, or literals with a name or the index of one; integers to 400 and around 2^14 for every prefix in use; every retry count up
  to 100.
* Where the system may really stop (all packets seen and the clock at its bound, one
  call per behaviour) deadlock checking is off; the Edge, ClickHouse and Probe
  runs check it.

## 5. Fairness

Weak fairness is assumed of goroutines that can go on and of tickers, because the
Go scheduler and runtime timers guarantee them. Strong fairness is assumed of a
`select` case that is ready again and again, because Go picks among ready cases at
random: the stopCh cases of ClickHouse, vTap and the ping client. No fairness is
assumed of callers, signals, or a read on an open socket. What a property needs of
the environment is its antecedent: `ServerAnswers` (the edge server answers 200
again and again), `ClosesReturn` (every Close returns; `CloseReturns` shows it of
the edge client), `ReadsSucceed` and LogCollect's `RingReadsSucceed` (reads of a ring buffer do not fail
for ever), `ListsSucceed` (`/proc` can be listed again and again), in
`ExpiredAreRemoved` that from some time on no cleanup is kept by the file system from a
file it would remove, and in `StartCompletes` that the API server is reachable from some time on.

## 6. Proofs

Each proof module extends one component and proves its theorems for every value of the
constants that the named assumption of the component allows. The pattern is the same
throughout: an inductive invariant, one lemma per action or group of actions that
can disturb it, and a temporal step.

`EdgeClientProofs`, for any sets of goroutines and events and any BatchSize and
MaxRetries (`EdgeAssumption`: the roles are different goroutines, BadEvents are Events,
both numbers are positive):

* `TypeCorrect`: `TypeOK` is invariant; it is inductive as it stands.
* `Conservation`: `EachEventOnce`. It is not inductive alone: a goroutine that takes
  the batch would overwrite events it still held. `Conserved` adds `TypeOK` and
  `HeldInFlush`, which says that a goroutine holds events only between taking the batch
  and settling or returning them.
* `DropsAreEarned`: `DropNeedsFailures`. `Counted` bounds every copy of `retryCount`,
  the field's and those of goroutines between load and store, by the number of failed
  Posts: the races lose increments and never gain one.
* `DuplicatesAreRetries`: `DuplicateNeedsLostAnswer`, from `Counted` too, which says
  that whatever the server has taken in was acknowledged or is ambiguous, and from
  `EachEventOnce`: no Flush holds an acknowledged event.
* `Refinement`: the client implements `EventSink`; initial states map to initial
  states and each step to a step or a stutter, given `Conserved` before and after it.

`ClickHouseProofs`, for any goroutines, events and batch size (`ClickHouseAssumption`):

* `WriterConservation`: `EachEventOnce`; `CloseFlushes`: `CloseEmptiesBatch`. `WriterInv`
  adds `HeldInFlush` and `TakenAtClose`: once Close is past taking the batch, what was in
  it when Close began is in no batch, because collectors only add events that were never
  written before and a transaction gives nothing back.
* `WriterRefinement`: the writer implements `EventSink`.

`VTapProofs`, for any packets, channel size, span and age limit with the span at most
the age limit (`PcapAssumption`, `VTapAssumption`):

* `FreshSurvive`: `FreshPacketsSurvive`. `PcapInv` says that a file that was found old
  stays so until it is removed: the cutoff lies in the past, and a file older than it
  is past its span, so that Write rotates rather than appends to it. Without the
  assumption that the span is at most the age limit this fails.
* `CountedStored`: `CountedIsStored`. `CountInv` adds `OpenInSpan`: as long as the
  current file is within its span it is in the directory, and open unless Close came.
  Cleanup cannot have removed it, because a file within its span is not old, and a failed
  rotation closes only a file past its span, so that the next Write rotates again.
* `StatusAddsUp`: `CountsAddUp`. `TapInv` adds that a loop has a packet in its hands
  exactly between taking it and passing it on, and that a packet is in one place only,
  so that handling one adds a new element to the set.

`LogProofs`, for any threads, map size and lengths (`LogAssumption`):

* `WritesReported`: `StdWritesReported`; `UsedUp`: `EntriesAreUsedUp`. `LogInv` adds
  `Pending`: during a call on a standard stream that found room, the thread's entry is
  that call's descriptor, whatever was there before.

`DockerProofs`, for any processes, containers and paths (`DockerAssumption`):

* `RecentAnswers`: `AnswersAreRecent`. `MapperInv` adds what holds during a refresh:
  what is still to be read has no entry, and every entry already read, and the present
  cgroup of every process, is in the history since the refresh began.

`PerfProofs`, for any processes and amounts (`PerfAssumption`):

* `LeakBound`: `BytesBoundLeaks`. `LeakInv` adds that a process whose calls came in order
  owes no early free.

`ProbeProofs`, for any of the collectors, any events and any writers (`ProbeAssumption`):

* `Release`: `StartedAreReleased`. `StopInv` adds the order of the shutdown: StopAll has
  released every started collector it has visited, a collector that is started and not
  released is running, so that its Stop does not return early, and only the Stop under
  way holds a lock.
* `Late`: `LateIsInFlight`, from `Release`: once a writer is closed no reader of a started
  collector is open, so nothing more is read. `Flow` adds that two collectors have no
  event in common and that what a closed writer was handed is the event in hand.

Only model-checked: all liveness (fairness and ENABLED are out of the prover's
reach); what the parsers and encoders compute for every input (most of it is
induction over data, and modules that reach RECURSIVE operators get no SMT backend:
`RedisResp`, `Hpack`, `TlsRecords`, `DubboMessages`, and through them `Messages` and
`PureFunctions`); the properties of the LRU cache and of the sort, which speak of
`SelectSeq` and folds; and the safety properties of the ping tracer, for which no proof
has been written.

## 7. Not modelled, and why

* The API server's handlers answer constants and change no state.
* Kernel capability detection tests for files and words in them.
* Log messages, formatting, YAML, JSON and HTTP bodies: no property is about them.
* `tls_trace.bpf.c`: `attachProbes` attaches none of its programs (`tls_trace.go:238`), so
  they never run. The uprobes of `http2_trace.bpf.c` and the kprobes of
  `l7_sniffer.bpf.c` keep no state; the latter never call the detector, which is modelled.
* vTap's forwarder: nothing calls `Send`. The counter Forwarded and the parse functions of
  `handlePacket` change nothing that is read but by Status.
* Captures cut short inside a MySQL payload reach the payload parsers only through
  ParseMySQLPacket, which refuses them; the payload parsers see whole payloads.
* The loop of the kernel's `hpack_decode_int` does not look at the end of its data; it is
  given whole integers.
* Embedded offset tables that cannot be read or parsed: the two tables are compiled in.
* Cloud metadata: HTTP requests with fixed paths, made once, and one pointer.
* BlockIOAnalyzer only adds to counters; the host metrics are read off `/proc`.
* The tables of names of the protocols, GetMySQLCommand and inline Redis commands, which
  split and compare strings; types of the protocols for which there is no parser (MySQL
  rows, Kafka record batches, TLS ServerHello).
* The composition of `Probe` with `EdgeClient`: `Probe` uses of a writer only that
  WriteEvent and Close return, which `edge_live` shows of the edge client;
  the product of the two state spaces would show no more.
