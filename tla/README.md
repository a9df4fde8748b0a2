# pihole-lite in TLA+

pihole-lite (`src/`) is a recursive, caching, ad-blocking DNS resolver with a
live dashboard, written on one asyncio event loop. This directory models it in
TLA+, checks the models with TLC on small instances and proves theorems about
them with TLAPS for every value of their constants.

    tlc -config MCRecursionWalk.cfg MCRecursion     # any run of PROJECT.json
    tlapm RecursionProofs.tla                       # any module of proofs

## 1. The system

A datagram or a TCP message reaches `DNSServer.process` (server.py), is parsed
(wire.py), handed to a stack of resolvers and serialised again:

    UDP task / TCP connection            server.py
      BlockingResolver                   blocklist.py   blocked names answered here
        RecursiveResolver (root walk)    resolver.py    or CachingResolver(ForwardingResolver)
          Cache                          cache.py       shared by all queries
    process -> Stats.on_event            stats.py       every query, after the answer
      subscriber queues -> SSE streams   webserver.py
        EventSource, counters            web/static/index.html

Everything runs in one event loop, so code between two awaits is atomic, and
what makes the system hard happens at the awaits: walks of several queries
interleave on one cache, the cache ages while a walk waits, servers time out
or send anything at all, dashboards come and go while events are published.

| component | state | operations | hard behaviour | correct when |
|---|---|---|---|---|
| TTL cache, cache.py | `_store`, `hits`, `misses` | `get`, `put`, `_compute_ttl` | time passes between put and get; whole seconds; negative answers live by their SOA | no record is handed out with more life than its authority gave it; entries are never altered or prolonged |
| Recursive resolver, resolver.py 150-293 | one chain of coroutines per query; the shared cache | `handle`, `_lookup`, `_recurse`, `_ask_any`, `_glue_addresses`, `_resolve_nameservers` | mutual recursion through aliases and glueless name servers, interleaved walks, servers that loop, lie, fail | every query ends; nesting is bounded; chains lead from the question to the answer; lifetimes survive the assembling of chains |
| Forwarding resolver and cache layer, resolver.py 53-146 | the shared cache | `ask` with UDP then TCP, upstream after upstream, `CachingResolver.handle` | timeouts, truncation, fail-over, two queries for one key | what reaches the client is an answer to its question and no truncated datagram, in bounded time; SERVFAIL only when all failed |
| Blocklist, blocklist.py | `_blocked` | `add`, `load_text`, `is_blocked`, `BlockingResolver.handle` | two file formats with noise in them; suffix match; four answer shapes; aliases of blocked names | exactly the listed names and those below them are answered locally |
| DNS server, server.py | a task per datagram, a loop per TCP connection | `process`, `datagram_received`, `_handle_tcp`, `StaticResolver.handle` | answers out of order over UDP and in order over TCP, malformed queries, failures, truncation | one answer per parsed query, in order on its connection; every query counted |
| Statistics, stats.py | totals, counts by name, the last 500 events, subscriber queues of 100 | `on_event`, `subscribe`, `unsubscribe`, `_publish`, `snapshot` | a slow subscriber may not stop the server | totals count every query; a queue never blocks a publisher |
| Web server and page, webserver.py, index.html | one coroutine per request; page counters | `/`, `/api/stats`, `/events`; `init`, `connect` | snapshot and stream are separate requests; reconnects; dead connections | a page never counts a query twice, shows rows in order |
| Wire codec, wire.py | `Writer.buf`, `_name_offsets`; `Reader.pos` | `write_name`, `read_name`, `to_bytes`, `parse`, `make_query`, `make_response` | names that share suffixes across all sections and bodies; pointers of 14 bits; lengths patched in afterwards; bytes that others made up | a message is parsed to what was written; whatever arrives, the reader ends, within the message |
| Constants, roots.py, records.py | - | - | unknown code points | types and classes pass, operations and response codes are refused |
| Composition, main.py | - | `build_resolver`, `run` | the order of the layers; lists before listeners | blocking sits in front of the cache and the network |
| Tests, scripts, packaging | - | - | - | not part of the running program |

Every hazard this exposes, with its line and the properties that watch it, is
in `PROJECT.json` under `hazards`.

## 2. The modules

| module | models |
|---|---|
| `LeaseTable` | abstract: what a TTL cache promises |
| `Cache` | cache.py: state and operations, used by the modules below |
| `CacheClient`, `MCCacheClient` | the cache under an arbitrary caller |
| `Recursion`, `MCRecursion` | `RecursiveResolver` on the shared cache |
| `Forwarding` | `CachingResolver` around `ForwardingResolver`, with `ask` |
| `Blocklist` | the list: what files put on it, what it matches |
| `Filtering`, `MCFiltering` | main.py's forward mode: `Blocklist` in front of `Forwarding` |
| `Server`, `MCServer` | `DNSServer`: listeners, datagram tasks, TCP loops, `process` |
| `NameCodec` | `write_name` and `read_name`, byte by byte |
| `MessageCodec`, `MCMessageCodec` | `to_bytes` and `parse` around the names of `NameCodec` |
| `Dashboard`, `MCDashboard` | stats.py, the stream of webserver.py and the page |
| `CacheLemmas`, `CacheProofs` | theorems about the cache |
| `RecursionProofs`, `ForwardingProofs`, `FilteringProofs`, `ServerProofs`, `CodecProofs`, `DashboardProofs` | theorems about the modules they are named for; `CodecProofs` about `NameCodec` and `MessageCodec` |

    LeaseTable <-refines- Cache <- CacheClient
                            ^----- Recursion
                            ^----- Forwarding <- Filtering -> Blocklist
    NameCodec <- MessageCodec      Server      Dashboard

One step of a module is the code between two awaits. Operators named `...`
after a comment `Mutant of X` are wrong versions of `X`, one for each property,
that show that the property notices the bug; no specification uses them.

### How they correspond to the code

**Cache.** `store`, `hits`, `misses` are the fields of `Cache`, `now` is
`time.monotonic()` in ticks of 1/`TicksPerSecond` of a second, so that
`int(expires - now)` really rounds. A record has, beside what the code reads of
it, `until`: the tick up to which its authority vouches for it, stamped when it
is received; and `heard`: the tick it was received at. Neither is read by the
model's actions; properties and invariants of the proofs compare TTLs and
entries with them. `GetHit`, `GetMiss` and `Put` are `get` and `put` with the counters,
the lazy eviction, the rounding, the test on a lifetime of 0, `_compute_ttl`
with its floor and ceiling. `CacheClient` calls them in any order.

**LeaseTable.** A table in which a lease may be granted at any time, is never
changed, and goes only in its last second or when another is granted for its
key. A lease on a key is granted once on the same value; `Renew`, which no table
does, is there for those that state where they fall short of one. `Leases` in
`Cache` is the refinement mapping.

**Recursion.** `stack[t]` is the chain of coroutine frames `_lookup` ->
`_recurse` -> `_lookup` of a query; `running` is the task that has the event
loop, and only a task that awaits a server (`op = "ask"`) gives it up. Each
return of a nested call is an action (`Return...`), each kind of message
`_recurse` tells apart is one (`Hear...`), in the order of the tests. Servers
send any message of `Replies` each time they are asked, or fail. `KeepsLeases` of
this module is `LeaseTable` with one more step, `RenewsBareAlias`: two walks find
the same alias, each hears of its target, from an answer without a record
(REFUSED, say, or NOERROR), that there is nothing, and both put the bare alias,
the second in place of an equal entry that it prolongs. That step leaves an entry
of nothing but aliases, without an authority record; no other entry is ever
renewed. `RaceReplies` has such an answer, and without the disjunct `race` fails.
Record classes other than IN are left out.

**Forwarding.** `phase[t]` is the await of `ask` a query is in, `deadline[t]`
the end of its `wait_for`; `Wait` does not pass a deadline, which is what the
timer of the event loop guarantees up to its own latency. `Replies` are the
messages that may come in a datagram, `Streamed` those that may come over TCP:
`ask` looks at the TC flag of a datagram only, so that an answer over TCP is taken
with or without it (`Whole`), and one with it is among `MCStreamed`. `Answer` is the rest
of `handle` after the await, with the `put`; `AskFails` is every exception
`ForwardingResolver.handle` catches.

**Blocklist, Filtering.** A name is a sequence of labels, a line a sequence of
words; whether a word looks like an address is an attribute of the word.
`LoadFile` and `Start` are the body of `run`, `Filter` is
`BlockingResolver.handle` in front of `Handle` and `RejectEmpty` of
`Forwarding`. `meant` are the domains the author of the files wanted listed,
which the model's actions do not read. `FilesAsMeant` says that what is read
off each file covers the names its author meant; the theorems about listed names
assume it. The files of `MCFiltering`, one in each format, satisfy it: with one
that does not, `BlocksExactlyTheListed` fails in the run.

**Server.** A query is a number and its form. The resolver is any coroutine:
`UdpDone` and `TcpDone` happen whenever it likes, with any outcome. `Start`
opens the UDP listener and then the TCP one, and each serves from when it is
open. The TCP loop reads one message, resolves it, writes, drains; `link[c]`
says how it ended. A response too long for a datagram is sent as the question
alone with the TC flag, which is a field of the records of `datagrams`.
`failures` is history: the datagrams whose resolver raised or answered SERVFAIL.

**NameCodec, MessageCodec.** A message is a sequence of bytes. `WriteLabel`,
`PointBack`, `WriteRoot` are the iterations of `write_name`, with the table of
suffixes; `Follow`, `Collect`, `Return`, `Raise` those of `read_name`. A message
is a sequence of items, which `to_bytes` writes and `parse` reads one by one;
`RDLENGTH` is a placeholder that `PatchLength` fills in behind the body with
`Overwrite`, which like `struct.pack_into` writes two bytes wherever it is told
to; `Refill` is the same on two bytes of a field, and the only overwriting that
`NameCodec` by itself allows.
`OffsetSpace` stands for the 2^14 offsets of a pointer and `Guard` for the 128
iterations of `read_name`: both are scaled down in the runs, and arbitrary in the
theorems. (A name through a chain of 64 pointers is therefore refused by
the reader although the writer made it: `NamesReadBack` has that exception.)
Addresses are the bytes `inet_pton` makes of them; numbers are taken to fit their
fields, as all that come from a parsed message do; a label is a sequence of
character codes, so that dots, upper case and bytes beyond ASCII in it are
treated as `decode`, `lower`, `join` and `split` do (`Decoded`, `Pieces`). Bodies
of unknown types are copied as they are. The variables `names`, `stops`, `rest`,
`owner` and `plain` are history: which suffix was written at which offset, in
which name, and which bytes belong to no name.

**Dashboard.** `OnEvent` is `Stats.on_event` with `_publish`; `phase[c]` is the
await of the coroutine `_stream_events`; `page[p]` is how far the page's script
is. The periodic refresh of the lists is a fetch (`Refresh`) whose reply is a
snapshot taken when the request was served and arrives, overtakes others or is
lost later (`Refreshed`). Hangups, resets and restarts may happen at any time.

## 3. The runs

| run | asks | instance |
|---|---|---|
| `cache_client` | Is any sequence of gets, puts and waits safe, and the cache a table of leases? | 2 keys, 6 payloads: every branch of `_compute_ttl`, TTLs around the ceiling and 0, ticks of half a second |
| `walk` | Do walks stay bounded, return control, give a chain from the question, and end? | 2 queries, servers that loop by referral, alias and name server, deny, fail, refuse; depth 1, 2 delegations |
| `race` | What becomes of lifetimes when two walks share names while time passes? | 3 queries on 2 tasks (symmetric), 3 ticks, TTLs 1 and 2, depth 2; an alias, glueless name servers, denials, and refusals without a record |
| `filtering` | Are exactly the listed names refused, without network or cache; is everything else answered in bounded time, in order of the upstreams, from no truncated datagram, to the one who asked? | 2 files, one of each format, 6 questions, 2 upstreams, 2 concurrent queries, an upstream that truncates over UDP and over TCP, denies and fails; time for 5 timeouts where 4 are allowed |
| `server` | Are TCP queries answered in order and all counted, and is nobody held up or forgotten? | 3 queries over UDP and 2 connections, a buffer of 1 |
| `codec` | Is every message parsed back to what was written, and does reading anything end, within the message? | 350 messages with up to four names that share suffixes in every way, every kind of body, names around the last offset a pointer reaches; two dozen messages with looping, forward, cut and reserved pointers, wrong lengths and unknown code points, which are parsed, and passed on if they can be |
| `dashboard` | Is nothing counted twice or out of order, no queue leaked, do dead streams leave the bus, is what is queued shown, do the lists settle? | 1 page on 2 connections, 2 events of 2 kinds, 2 refreshes in flight, 1 restart, queue and wire of 1, ring and log of 2 |
| `alias_aging`, `refused_nodata`, `filtering_alias`, `server_dropped`, `dashboard_every` | the disagreements of section 4 | the smallest that shows each |

**Why the bounds are enough.** The interesting states come from two actors and
one boundary: two walks on one key, a TTL that runs out between two reads, a
queue, ring, buffer or depth that is full. Limits are therefore set to 1 or 2,
so that they are reached within two or three operations, and there is one
operation more than a limit holds. Lifetimes (1 and 2 seconds) are shorter than
the time that may pass. `MaxTime`, `MaxQueries`, `MaxCalls`, `MaxEvents`,
`MaxFetches` and `MaxRestarts` bound the runs only; the theorems hold for every
value of them. One page suffices for `dashboard`, because pages share nothing
but the bus; that no two of them share a connection, the part of
`QueuesBelongToStreams` one page cannot break, is proved for any number. With 40
offsets to point at and 6 iterations to read a name, messages of a few dozen
bytes have names on both sides of either limit. Deadlock is checked everywhere:
resolvers and server may stop only in `Quiesced`, when all queries are done
with, and the codec in `Over`; pages can always be opened or closed and the
cache can always be written.

**Fairness.** `FairSpec` of `Recursion` is weak fairness of each task's
`Progress`: every wait for a server is under `asyncio.wait_for`
(resolver.py:42 and 58), and the loop runs every ready task. (The awaits of
`sock_connect` and `sock_sendall` in `udp_query` are not, but a datagram socket
connects and sends without waiting for its peer.) Nothing obliges a server to
answer. `FairSpec` of `Server` is weak
fairness of the TCP loops and of the resolvers of all queries but the first,
which may hang for ever, and of clients reading what they are sent (without
it drain() blocks, on purpose). `FairSpec` of `Dashboard` is weak fairness of
the streams, of the reset a dead peer's TCP stack sends, of a page reading
its stream and of its `setInterval` timer, and strong fairness of its fetches
being answered, which may fail or be overtaken again and again before;
nothing obliges a page to open or to reconnect. `MessageSpec` is weak fairness
of `parse`, a function that is called and returns.

**What the properties say** is in a comment above each of them. Those most
worth reading: `TargetsWithinLifetime`, `ChainLeadsFromQuestion`,
`EveryQueryAnswered` (Recursion), `AnswersAsSent`, `TriedInOrder`
(Forwarding), `BlocksExactlyTheListed` (Filtering), `PipelinedIsAnswered`,
`EveryQueryCounted` (Server), `NamesReadBack`, `MessageReadsBack` (codec),
`CountsNeverAhead`, `DeadSubscribersLeave`, `ListsSettle` (Dashboard).

## 4. Where the code and its text disagree

Each is a run that TLC ends with a counterexample; `PROJECT.json` quotes the
text.

- `alias_aging`: a CNAME is served from the cache after its TTL has run out. It
  keeps its original TTL while its target is looked up, and its lifetime starts
  again when the chain is put. In front of a negative answer it even lives as
  long as the SOA (cache.py:118).
- `refused_nodata`: a server's REFUSED or SERVFAIL reaches the client as
  NOERROR without answers (resolver.py:244), and the next server is not tried.
- `filtering_alias`: an alias of a listed name resolves to its address
  (blocklist.py:119).
- `server_dropped`: a query whose own name cannot be written (a byte beyond ASCII
  in a label is enough) makes its resolver fail, since `ask` has to write the
  question (resolver.py:67). The failure becomes SERVFAIL, as server.py:136 says,
  but SERVFAIL copies the question and is written outside of the `try`
  (server.py:147): the client gets nothing.
- `dashboard_every`: a query between the snapshot and the subscription is never
  counted by the page (index.html:186).

Smaller ones, met on the way and not kept as runs: the lifetime of a positive
entry is the minimum over its answers only, not over "its records"
(cache.py:40 and 113); a NODATA behind an alias is cached by the alias' TTL,
not by the SOA (cache.py:111); upstream queries go out under the client's id,
which resolver.py:91 calls "fresh".

## 5. The proofs

Assumptions are the named ASSUMEs: `CacheConstants`, `ClientConstants`,
`RecursionConstants`, `ForwardingConstants`, `FilteringConstants`,
`ServerConstants`, `NameCodecConstants`, `DashboardConstants`. They type the
constants and keep the special values apart, and say that there are finitely many
names in `Dashboard`. `MessagesInOrder` says that a message the program composes
patches no length before there is one: `Record.write` leaves the room first and
fills it last (wire.py:463-471). The runs evaluate them all. Some theorems have a
hypothesis of their own, which holds in the runs that check their property:

- `MinTtl = 0`, as main.py configures the cache, for the refinements of
  `LeaseTable`;
- `FilesAsMeant` for the theorems on listed names;
- `ServersAnswerAsAsked` for `ChainsLead`: the resolver never compares the owner
  of a record with the name it asked, so a server that answers with other
  records is simply believed;
- `Headed` for `HeadersReadBack`: a message of the program's own begins with a
  header of members of the enumerations, its counts below 65536, and (as in
  `MessagesInOrder`) patches no length before there is one. That is how
  `Message` and `Record` put them together;
- `WellFormed` for `MessagesReadBack`: in a message of the program's own the
  items come in the order that the counts of the header and the types of the
  records call for, numbers fit their fields, a body of an unknown type is bytes,
  and every length is patched behind its body. That is what the constructors of
  `MessageCodec` make, and all messages of the run are; for the queries of
  `make_query` it is proved (`QueryWellFormed`), and for the messages that are
  passed on it is proved of whatever `parse` accepts (`GivenWellFormed`);
- fewer than 65536 bytes in both theorems on whole messages: RDLENGTH has two
  bytes, and `struct.pack_into` raises if a body is longer (wire.py:471), where
  the model would write its length modulo 2^16.

There is no bound on tasks, names, pages, connections, messages, TTLs or time.

| theorem | says | argument |
|---|---|---|
| `CacheProofs!TypeCorrect` | types | one lemma per operation in `CacheLemmas` |
| `CacheProofs!CopiesLiveNoLonger` | no copy outlives its authority's word | `StoreOriginal`: every stored record is as it was stamped at `stored_at`, and the entry's TTL is what `ComputeTtl` gives; needed because the property is about a copy, and the bound on it comes from the put. Then rounding down only shortens |
| `CacheProofs!CacheKeepsLeases` | refinement of `LeaseTable` | with `StoreOriginal`, the end of a lease is a function of the entry, so an unchanged entry is an unchanged lease and an eviction is one in its last second |
| `RecursionProofs!TypeCorrect`, `DepthIsBounded`, `ControlComesBack` | types; nesting at most MAX_DEPTH; no lost control | `IInv` is by task: `WellFormed` says that every frame but the innermost awaits a nested lookup, that only a lookup about to be refused lies deeper than MAX_DEPTH, and that the name servers still to be tried are some of the referral's (else the next one has no name); `Waiting` says that a task without the event loop has a server left |
| `RecursionProofs!TargetsLast` | no TTL in the cache or in a result promises a record that is not an alias more life than its authority gave it | `LifeInv`: the same of all answers of entries and results, and that what waits in a frame, to be put in front of a chain, is an alias, as are all the answers of a denial; so joining records of different ages never makes one for which a client asked look younger |
| `RecursionProofs!ChainsLead` | an answer is the chain from the question to the records asked for | `ChainInv`: so is every entry; each frame looks up the target of the alias the frame below it holds, so that what it delivers fits there (`Walks`, `Delivers`); stamping and counting down change neither owners nor targets |
| `RecursionProofs!RecursionKeepsLeases` | refinement of `LeaseTable` by all walks together, but that a bare alias may be renewed | `FreshInv`: what an entry holds had arrived when it was stored, and what a walk is about to put is `Novel`: it holds a record that arrived at this very tick, or is not cacheable, or is all aliases with no authority (`Bare`). So it is never the value of an older entry, whose lease it would prolong, unless it is such a bare alias, and then the step is `RenewsBareAlias`; nothing is assumed of what servers answer |
| `ForwardingProofs!TypeCorrect`, `WaitIsBounded`, `FailOverInOrder` | types; two timeouts per upstream; order of fail-over | `IInv` gives every await a budget, `Allowed(transport, upstream)`: a deadline is never later than the arrival plus it, and a new await starts no later than the old deadline. The failed upstreams are exactly those before the one being asked. Errors are never in the cache, else a hit would look like a failure |
| `ForwardingProofs!AnswersFaithful` | a client and the cache get what an upstream answered to that very question, in a datagram without the TC flag or over TCP: a truncated datagram is never taken for an answer | inductive with `IInv`: an entry is written only from an answer to its own key, and what is read off it differs in its TTLs alone (`ContentsKept`) |
| `ForwardingProofs!ForwardingKeepsLeases` | refinement of `LeaseTable` by all queries together | `StoreSteps`: whatever the tasks do, the cache sees a put of freshly stamped records, a get or a tick; then as for `CacheKeepsLeases` |
| `FilteringProofs!FilterTypeCorrect`, `FilterWaitIsBounded`, `FilterFailOverInOrder`, `FilterAnswersFaithful`, `FilterKeepsLeases` | the same of the whole program in forward mode | `FilterStep`: a step of it is a step of `Forwarding`, or one that leaves the resolvers alone, or a refusal, and each invariant survives a refusal |
| `FilteringProofs!ListedNamesDieHere`, `RefusesExactlyTheListed` | a listed name reaches neither network nor cache; a refusal is for listed names and those below them only | `LookupCovers`: the loop over ever shorter suffixes finds just what label-wise matching says. `Matched`: loading any files in any order keeps what is matched equal to what is meant. `Unused`: while files are loaded nobody has asked. Without these a name listed later could be in the cache already |
| `ServerProofs!TypeCorrect`, `AnsweredInTurn`, `NoneUncounted` | types and buffer limits; answers in order on a connection; every parsed query counted once | `Fresh`: serial numbers are not used twice, so that a query parsed adds one to the parsed and starts uncounted; `InTurn`: what a connection has answered, is answering and has still to read are the queries it sent, in order; and a balance of cardinalities, kept by every way `process` can end |
| `CodecProofs!TypeCorrect`, `NamesAlwaysReadBack`, `CursorAlwaysMovesOn` | types; names read back through any pointers; the cursor moves on, within the message | `rest` says which suffix every offset in the table, and every position the reader visits, stands for. The invariant says that the bytes at such an offset are a label and the offset of what is left, a pointer to an earlier offset with the same suffix, or the terminator; `Keeps`: appending and patching fields leaves these bytes alone, which needs `owner` and `plain`. The reader then has, at every iteration, collected a prefix of the name and stands at the rest of it |
| `CodecProofs!MessagesKeepNames`, `MessagesReadNamesBack`, `MessageTypes` | `MessageCodec` implements `NameCodec`, whatever messages are composed (in order), given or relayed: in particular `Overwrite` never touches a name; so names in messages are read back; types, and RDLENGTH is patched within what is written | `CodecInv`: every patch still to be written comes behind a length, or the last length has already left its place to a field (`Ordered`, with `HolePlain`), and what is appended since never takes it away, so that `PatchLength` is a `Refill` (`PatchIsRefill`); what is parsed and may be passed on is in the same order. The parser expects the header first and nothing has been parsed before it, behind it every item it expects has a width if its kind has one (`Asked`), and a name is only being read where one is expected (`AskedName`). What `FoldLeft` and `FlattenSeq` return is proved by a smallest counterexample (`UpTo`, `FoldExists`), since their definitions choose a recursive function |
| `CodecProofs!HeadersReadBack` | identifier, flags, codes and counts of every message, composed or relayed, are read back, and never refused | `HeadedInv`: once written the first twelve bytes spell the header (`HeaderWritten`), since everything else is appended behind them and `hole` is beyond them by the time a length is patched (`LengthsFirst`); on the way back `expect` still being `Expected` means nothing was parsed. What a relayed message begins with has been through `parse`, so its header is again one that `parse` takes (`HeaderTaken`). `FlagsReadBack` tells the fields of the flags apart, `NumberReadBack` does numbers of two and four bytes |
| `CodecProofs!MessagesReadBack`, `QueriesReadBack` | every message below 65536 bytes is parsed to what was written, item by item, and nothing of it is refused but a name; it is so for all queries and all messages passed on | `PassageInv`, in three parts. `Composed`: some `p[i]` is the place behind item `i`, whose bytes (or whose name, as in `NamesReadBack`) stand between `p[i - 1]` and `p[i]`, and a length that has been patched says how far its patch is. `ReadingAlong`: the parser has taken `k` items, stands at `p[k]`, expects `D[k]`, and `limit` is where the body it is in ends. `D` says what is expected behind each item: `Run` is a run of the parser through the items with no bytes in it, and a message is well formed if there is one to its end. `GivenAlong`: a parser that reads bytes from elsewhere makes such a run as it goes, so that what `Relay` writes is well formed again, whatever lengths lied in it. Each kind of item has a lemma that says what the parser finds there (`NumberHere`, `HeaderHere`, `NameHere`, `RecordHere`, `ChunkHere`), and one that no `Truncated` and no `Unsupported` holds (`NothingRefused`) |
| `DashboardProofs!TypeCorrect`, `NoQueueLeaks`, `NeverAhead`, `RowsStayInOrder` | types and limits; queues belong to streams; no double count; rows newest first | `Linked`: who owns a connection, and that no two pages share one; `Behind`: what a page has counted and what is still on its way to it are together no more than what was processed; `Ordered`: serials grow along rows, wire and queue, so what arrives next is newer than what is shown |
| `DashboardProofs!CountersAddUp` | the counters by name add up to the queries blocked and to those let through; the ring ends with the latest query | a sum over names is a fold, whose definition chooses a function on sets of names: `SetInduction` (a smallest set that is not good) shows that there is one, and that counting a name adds one to the sum |

Only model-checked: everything about liveness (`EveryQueryAnswered`,
`SlowQueryStallsNoOther`, `PipelinedIsAnswered`, `DeadSubscribersLeave`,
`QueuedIsShown`, `ListsSettle`, `ReadingEnds`), which is out of this prover's
reach. Every safety property of the passing runs has a theorem. That `Message`
makes well-formed messages of any number of records would be an induction over
the sections: it is proved for the one question of a query, and is a hypothesis
of `MessagesReadBack` for the other messages that the program composes.

## 6. What is not modelled, and why

- Characters of list files (comments, `_looks_like_ip`), JSON, HTTP requests,
  static files: they change no state the properties tell apart. `Server` knows
  only whether a message can be parsed and written; `MessageCodec` says which
  can.
- The catch-all of `RecursiveResolver.handle`: the model's walk raises nothing,
  and the server's handling of a resolver that raises is in `Server`.
- Which port and id `ask` uses: every call has a connected socket of its own, and
  the model gives it some answer of that server to that question. A datagram that
  comes late and finds its port in use again would be taken for the answer,
  since `ask` compares neither id nor question; which ports the operating system
  hands out is not in the code.
- `Cache.stats`, latencies, percentages: they only read.
- `StaticResolver` (a demo) and `Blocklist.add`, which the program does not use;
  the command line and logging of main.py.
- Tests, scripts, container files.

## 7. Plan

What is left: an abstract resolver (a query is asked, then answered once) that
`Recursion` and `Forwarding` implement, so that `Server` and `Filtering` can be
composed with either; recursive mode behind the blocklist.
