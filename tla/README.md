# A TLA+ model of pdrad

pdrad asks a DHCPv6 server for a delegated prefix on one interface and announces the prefix on another one with Router
Advertisements, periodically and in answer to Router Solicitations. This directory models it in TLA+, checks the
models with TLC, and proves the main safety properties with TLAPS.

Source paths are relative to the repository, that is `src/Src/test.c` is the daemon. Despite its name `test.c` is the program:
it holds `main` and all threads. The repository has no tests.

## 1. Inventory

| Component | Source | State | Operations | Model |
|---|---|---|---|---|
| Daemon threads and signal handler | `test.c` | `_prefix`, `_prefixMutex`, three cancel flags, the sockets | `main`, `Thread_requestDhcpPrefix`, `Thread_sendRouterAdv`, `Thread_listenRouterSolicit`, `handle` | `Pdrad` |
| Interface queries | `utils.c` | `utils_handler`, `utils_request` | `utils_Init`, `utils_getHardwareAddressByName`, `utils_getLinkLocalAddress`, `utils_Dispose` | `Utils`, and the socket in `Pdrad` |
| DHCPv6 packets | `dh_packets.c` | none (heap) | `dh_createPacket`, `dh_parseOptions`, Solicit constructors | `DhPackets`, `DhRequest` |
| DHCPv6 options | `dh_options.c` | none (heap) | one constructor per option | `DhOptions` |
| NDP options | `ndp_options.c` | none (heap) | one constructor per option | `NdpOptions` |
| NDP packets | `ndp_packets.c` | none (heap) | `ndp_createRAPacket`, `ndp_checksum` | `NdpPackets`, `Checksum` |
| Collection | `collection.c` | an unrolled list | index, get, set | `Collection` |
| Command line | `test.c` 362-416 | arguments | two modes | initial states of `Pdrad` only |
| Hex dump | `test.c` 41-53 | none | `print_memory_hex` | the crash on a length of -1, in `Pdrad` and `DhRequest` |
| Logging | `Lib/log.c` | vendored | output | not modelled |

**Interaction.** The threads share `_prefix`, guarded by `_prefixMutex` except in `main`, which busy-waits on
`_prefix.PrefixLength` without it. The DHCP thread holds the mutex for a whole round: send, wait for the reply, copy,
convert, set the length. The advertising threads hold it while they build and send one message. The signal handler sets the
cancel flags and closes `utils_handler`. All sockets live in one descriptor table, so a thread that goes on using a
number after closing it reaches whatever socket has the number by then. The two advertising threads share one `ifreq`
outside the mutex. A round of `requestAndReceiveDhcp` and a call of `sendRouterAdv` construct options on the heap, have a packet made of
them, and free some of it; option constructors and packet functions agree only through the length field of an option.
Nothing calls the collection.

**What is hard.** Orders of the four threads and the handler; the DHCP thread waiting for a reply without a timeout
while it holds the mutex; failed system calls after which the code goes on; stale descriptor numbers; signals in
any state; lengths from the network in unsigned arithmetic; lengths announced in one function, allocated in a second and copied by in a third; what is
freed, and when, round after round. `PROJECT.json` lists each hazard at its line with
the properties aimed at it.

**What makes each component correct.** Daemon: an advertisement carries one complete published record; sockets are not
closed behind a thread's back; lifetimes reach the LAN as granted; nothing waits for ever; a signal ends the process.
Utils: a successful call delivers the interface's address. DHCPv6 packets: what is created is parsed back to the same
options; the parser stays inside the packet and returns.
DHCPv6 requests: options are copied whole and freed once; what a round leaves allocated is known.
NDP options and packets: lengths announced are lengths allocated; the packet's length is the sum of its options'; a receiver reads the
prefix that was given; the checksum is the one's complement sum. Collection: index `i` is the `i`-th element.

## 2. Modules

| Module | Contents |
|---|---|
| `ByteOrder` | 32-bit words as four bytes; `be32toh`, `htobe32` and what `memcpy` from a packet stores (little-endian) |
| `PrefixCell` | abstract specification: one current record, replaced as a whole, advertised as a whole |
| `Pdrad` | the process: five flows of control, mutex, flags, descriptor table, prefix; implements `PrefixCell` |
| `MCPdrad` + `MCPdrad_*.cfg` | instances for TLC |
| `Utils` + `Utils_*.cfg` | the shared `ifreq` |
| `DhOptions` | the constructors of DHCPv6 options: announced, allocated and written lengths |
| `DhPackets` | creating and parsing DHCPv6 packets |
| `DhRequest`, `MCDhRequest` + `.cfg` | `DhPackets` driven by its callers: Solicits, rounds of requests and replies, the heap |
| `NdpOptions` | the constructors of Neighbor Discovery options |
| `NdpPackets`, `MCNdpPackets` + `MCNdpPackets_*.cfg` | `sendRouterAdv` and `ndp_createRAPacket`, with the heap |
| `Checksum` | `ndp_checksum`, instantiated by `NdpPackets` |
| `Collection`, `MCCollection` + `.cfg` | the unrolled list |
| `PdradProofs`, `PdradSocketProofs`, `PdradPrefixProofs`, `UtilsProofs`, `DhPacketsProofs`, `DhRequestProofs`, `NdpPacketsProofs`, `CollectionProofs` | theorems |

### Pdrad

`pc[t]` is the statement a thread is at, between two system calls or accesses to shared state:

| label | DHCP thread | RA thread | RS thread |
|---|---|---|---|
| `open`, `openSend` | `socket()` 156 | 78 | 257, 265 |
| `bind` | setsockopt, bind 171-205 | 89 | 276-321 |
| `check` | loop condition 224 | 111 | 323 |
| `connect`, `sockname`, `disconnect` | - | `utils_getLinkLocalAddress`: connect, getsockname, close on error | the same |
| `lock` | 226 | 124 | 339 |
| `send` | make the Solicit 625-635, sendto 647 | sendmsg 526 | sendmsg 526 |
| `recv`, `blocked` | recvfrom 659: called, waiting | - | recvfrom 555 |
| `copy` | - | 126-127 | 341-342 |
| `close` | 652, 689 | - | - |
| `convert`, `setLength` | 229-230, 240 | - | - |
| `unlock` | 241 | 142 | 355 |
| `sleep` | 244 | 144 | - |

`fd[k]` is the number a socket's variable holds and `table[n]` the socket open under number `n`; `socket()` takes the
lowest free number, as POSIX says, and `close()` frees one without touching the variables. `Holds(k)` says that the
variable still names its own socket. `published`, `granted` and `lastRa` are history variables: the record when the DHCP thread last
released the mutex, the contents of the accepted reply, the last advertisement. No guard reads them.

The environment is `Faults`: `"socket"`, `"bind"`, `"send"`, `"connect"` let those calls fail; `"clock"` is a clock that cannot be read for the
transaction id, after which the -1 returned instead of a Solicit is dumped as a length (`DhcpSolicitFails`, a crash); `"reply"` lets the server answer with
something that is not a prefix: a packet the code crashes on (`DhcpBadReply`: the null `IA_PDList`), or an IA_PD
that holds a status code, whose bytes are copied as a prefix (`DhcpStatusReply`). The reply may have any transaction id, since the
code does not look at it. Signals arrive at any time after `main` has registered the handlers, at most `MaxSignals`;
`signal()` of glibc restarts an interrupted `recvfrom`.

Choices made where the source leaves one:

- The committed source does not compile: `_prefixMutex` is passed by value at lines 226 and 241, three `inet_ntop` calls lack
  an argument, a semicolon is missing at 329. The model takes the evident meaning (`&_prefixMutex`).
- `main`'s busy wait is modelled as a fresh read each time: without optimisation (no build type is set) the
  compiler emits the load.
- A call on a number that now names another socket: `sendto` of the DHCP request fails on a raw ICMPv6 socket; `connect` on it
  succeeds, and its effect on that socket's traffic is covered by the fault `"send"`.
- Time is not modelled: a `sleep` ends at some time.

### Utils

The union that line 15 clears overlaps the address family and the first two bytes of the hardware address, so an address is
`head` (2 bytes) and `tail` (4 bytes), each zero, garbage, or the interface's. `ioctl` and `memcpy` write the two parts in two steps: nothing
makes them atomic between threads. A `Dispose` closes the socket, after which the ioctl may fail (or reach a socket that took
the number, so it may also succeed).

### DhPackets

A packet is a function from the offset of an option to its header, two two-byte fields in memory order. `dh_createPacket` is `CountOption`, `Allocate`,
`CopyOption`, `Deliver`; `dh_parseOptions` is `CheckPacket` and one `ParseOption` per turn of its loop. Option data is not represented. Memory that no creator wrote
may hold any header. `size_t` counts modulo `SizeMod`, which the assumptions take to be larger than any packet that
can be created: it is 2^64 in the build, and the packets have at most five options of 64 KiB.

### DhOptions, DhRequest

A constructor's result is a block: code, announced length, bytes allocated, bytes written. Of `dh_createCustomOptPayload` the size is any `size_t`, of which `OptionLength` takes
16 bits and whose sum with the header's four may wrap around, and the pointer may be null, which leaves the data without a value. `DhRequest` EXTENDS `DhPackets` and adds the caller: `step` is where
`requestAndReceiveDhcp` (or one of the two public Solicit constructors) stands, `identifier` the client identifier it brings (a size, and whether there is a pointer: the public functions look at neither),
`blocks` the options it has constructed, `heap` how many option blocks, option lists,
packets and list nodes are allocated, `listed` a history variable, the IA_PD options listed in the rounds that have ended. `Call` is the call; `Solicit` constructs the options (test.c 587-620, or dh_packets.c 42-44, 55-58) and runs `dh_CreateCustomizedSolicitPacket` up
to its last line; `CreatePacket` are the steps of `dh_createPacket`; `CopyFaults` is the copy of an option that is longer than its wrapped-around block, where it ends the process; `Created` is the return, with the four `free`s of
`requestAndReceiveDhcp`; `Send` is `sendto`, `Receive` the return of `recvfrom` with a reply of any size and type, a step of the environment; `Parse` are the steps of `dh_parseOptions`; `TakePrefix` dereferences the
list; `SolicitFails`, `SendFails`, `ReceiveFails`, `TakeNothing` are the error paths, three of which crash. `step = "direct"` runs `DhPackets` without a caller, on packets and options of
all kinds. As in `Pdrad`, whether a later round's `sendto` can succeed at all is a matter of its descriptor; here it may.

An IA_PD with nested options does not allocate what it writes; its callers pass none. The IAPREFIX constructor (dh_options.c 47-63), which allocates one byte less than it writes, is called by nobody and left out.

### NdpOptions, NdpPackets, Checksum

A prefix is the set of its one-bits, so the leading bits, the bits behind the length and the bits that whole units of eight bytes copy can be told apart; flags are sets of bits, and the
expression of ndp_packets.c:38, whose value is a constant, is evaluated with C's precedence. `NdpPackets` is `sendRouterAdv` in a loop: `Construct` (469-479), `CountOption`, `FillHeader`,
`CopyOption`, the checksum, `Return`, and `Send`, which is `sendmsg` and the four `free`s. `heap` counts the blocks of each of the five kinds.
`Checksum` adds words one by one; each word is any word, because only sums matter. `residue` is a history variable, the sum of all words modulo
`WordMod - 1`. The result is compared with zero and dropped, so the field in the packet stays zero and the kernel fills it in.
Assumed: route prefix lengths below 128, since at 128, which ndp_options.h:66 allows, three units are copied from the two an address has; no caller asks for it (56 is the only literal). The constructors of the advertisement
interval, which sets neither type nor length, and of the target link-layer address are called by nobody and left out.

### Collection

A list is its number of elements, packed in order into units of 64 as the structure has them; units are numbered from the head. `Begin` chooses the end to start from, `Walk` follows one
pointer, `Return` computes the slot; `Refuse` is the early return, which `Get` dereferences. In an empty list `count - 1` is the largest `size_t`: no index
is refused and all lie in the first half. A 64-bit `size_t` is assumed, so that no index reaches it.

## 3. Runs

| Run | Instance | Checks |
|---|---|---|
| `safety` | both modes, all faults, no signals, 1 prefix, 1 lifetime, 1 client; 1.7 M states | `TypeOK`, `PrivateSocketsKept`, `LifetimesShareByteOrder`, `StuckOnlyInWait`, `ReplyHoldsUpNobody`, `AdvertisesGrantedPrefix`, `GrantedOnlyOnce`, `AdvertisesPublishedRecords` |
| `live` | both modes, `connect()` may fail, 1 client, 1 signal; 0.5 M states | `StuckOnlyInWait`, `WaitsForResult`, `PublishedGetsAdvertised`, `SolicitationAnswered`, `SignalStopsDaemon` |
| `wait` | dhcp mode, sendto may fail | violates `WaitsForResult` |
| `renew` | dhcp mode | violates `RequestHasSocket` |
| `lifetimes` | dhcp mode | violates `AdvertisesGrantedLifetimes` |
| `status` | dhcp mode, the reply may hold a status code | violates `AdvertisesDelegatedPrefix` |
| `hwaddr_shared` | two callers, the socket may be closed | `TypeOK`, `OnlyHeadTorn` |
| `hwaddr_torn` | two callers, the socket stays open | violates `DeliversAddress` |
| `dhcp` | direct: up to 3 options of 4 codes and lengths 0, 1, 4, 300, 65535, 3 message types, and received packets of sizes 0..16 with any such headers, list nodes may fail to be allocated; 2 rounds of requests, and the two other callers with identifiers of sizes 0, 10, 65535, 65546 and two below `SizeMod`, with bytes and without; the clock, `sendto` and `recvfrom` may fail; 0.5 M states | `RequestTypeOK`, `CopyFillsPacket`, `RoundTrip`, `HeadersStartInside`, `CreatedHeadersInside`, `NotedOptionsRead`, `CopiesWholeOptions`, `RoundsLeak`, `StepsWindDown`, `Returns` |
| `advert` | 2 advertisements, 8 prefixes, routes of lengths 0, 56, 64, 127, words 0, 1, 7 modulo 8 | `TypeOK`, `CopiesFit`, `ReceiverFindsOptions`, `OnlyRouteInfoLeaks`, `ChecksumLacksLastCarryOnly` |
| `route` | 1 advertisement, the /56 of the source | violates `NoBitsBehindRoutePrefix` |
| `collection` | lists of 0, 1, 2, 63-66, 127-129, 320, 321, 350 elements, every index up to 352 | `TypeOK`, `ElementsAreReached`, `UnitIsElements` |

**Why the bounds are enough.** One prefix suffices in `Pdrad`: after the first reply no second is ever received
(theorem `GrantedOnce`), and "no prefix" is the record of zeros. One lifetime suffices because it differs from its byte-swapped form.
`Lengths` has 0 in the liveness run, the value `main`'s wait takes for "nothing yet", and 56 in the safety run. There are as many numbers in `Fd` as
`socket()` calls in a run of the process, so the table is never full. The safety run has no signals: what a handler can do to sockets and flags, `utils_handler` closed
behind a thread's back, a failed `connect` does too, twice, and signals in every state are the subject of `live`, in which `socket()` does not fail. What these two runs leave open is closed by the
proofs, which hold for any number of signals: every property of `safety` but `StuckOnlyInWait` is a theorem, and so is `WaitsForResult`. `StuckOnlyInWait` contains ENABLED; it is checked with a signal in `live`, and `SomeThreadGoesOn` in `PdradPrefixProofs` spells out for a proof what each thread waits for.
The liveness run takes a lifetime of zero, which is its own byte-swapped form; no lifetime decides what happens next.
Rounds, advertisements and solicitations are not bounded. In `DhRequest` sizes around the four bytes of each header and up to
three options put every boundary of the two tests into the run; 65535 wraps every length around; the identifiers are none, one that fits, the longest that does, one of which `OptionLength` keeps ten bytes of 65546, and one whose block wraps around; the second round starts on the heap the first one left. In
`NdpPackets` one bit of the prefix lies inside the /56, one behind it and one behind the /64, so each copy that takes too few or too many bits shows; the carries
of the checksum all occur with three-bit words. `Collection` has lists that end one before, at and one after the end of a unit.
TLC reports no deadlock in these runs
because a process that has ended, or a parser that has returned, is where the system stops: `CHECK_DEADLOCK FALSE`; what must not stop
is the subject of `StuckOnlyInWait`, `SignalStopsDaemon` and `Returns`.

**Findings.** The six violated properties each state what a comment or a log message of the code says: `main` waits for a
result (test.c:439), there is a next request (243), the lifetimes, and the prefix, are those parsed (234), the address is the hardware address (121), the bits behind a
route's prefix are zero (ndp_options.h:83).
They fail because line 240 runs after failed requests, line 689 closes the caller's socket, lines 229-230
convert again what a failed request left alone, line 684 takes any option inside an IA_PD for a prefix, utils.c:15 clears a buffer the other thread is reading, and ndp_options.c:108 copies whole units while the
statements that cleared the rest are commented out.
The passing counterparts say how far the damage goes: `PrivateSocketsKept`, `LifetimesShareByteOrder`, `OnlyHeadTorn`, and the announced part of the prefix in
`ReceiverFindsOptions`; `GrantedOnlyOnce` and `AdvertisesGrantedPrefix` say what the lost renewals leave: the one prefix that was granted first, for good. They also bound what transaction ids that nobody compares can do: a foreign reply to the first request is accepted (`DhcpReply`), a late one to an earlier request never.
The closed socket also has a good side: since no later round can wait for a reply, the DHCP thread never keeps the mutex from the advertising threads
(`ReplyHoldsUpNobody`). `WaitsForResult` is violated in `wait`, where one `sendto` fails, and holds in `live`, where only `connect()` and a signal
interfere; the theorem `WaitEndsWithResult` says so for any number of signals and failing `socket()` calls too. `bind` does not belong with the harmless ones: when the one in `utils_Init` fails,
`utils_handler` keeps a number that the DHCP thread's socket gets next, and the signal handler closes it. The parser converts headers in place behind the
end of a packet only when the packet is none of `dh_createPacket`'s (`CreatedHeadersInside`). A repair of line 689 has to give the `recvfrom` at 659 a timeout, or move it out of the critical section. Leaks (`RoundsLeak`, `OnlyRouteInfoLeaks`), the lost carry (`ChecksumLacksLastCarryOnly`) and the index that is off in a list whose last unit
is not full (`UnitIsElements`) contradict no text of the repository: the properties say exactly how much is leaked, lost and off.

**Fairness.** Each thread is scheduled (WF on its progress), including the return from `sleep`. A mutex that is released
again and again is eventually obtained (SF on the lock). That is an assumption about mutex and scheduler which the code alone does not justify: glibc's mutex is not fair. Mostly the
thread that would overtake sleeps (200 s, or the preferred lifetime) or waits for a solicitation in between, but a preferred lifetime of zero makes `sleep` return at once, and a failing `recvfrom`
lets the RS thread spin. `PublishedGetsAdvertised` and `SolicitationAnswered` rest on it, and so does the part of `SignalStopsDaemon` in which a thread at its lock has to end. Nothing is assumed of the network or of
signals: replies and solicitations (`DhcpEnvironment`, `RsEnvironment`) may never come. `DhRequest` is one thread, and each of its own steps is taken (WF on `Direct \/ Progress`); that `recvfrom` returns (`Environment`) is not assumed, so
`Returns` says that a request that is not answered is the only thing that waits for ever.

## 4. Theorems

Each holds for all values of the constants that satisfy the named `ASSUME`s and, in four rows, the condition stated there. The `ASSUME`s only give the constants their types (and, in
`DhPackets` and `DhRequest`, a `size_t` that can hold the largest packet made; in `NdpPackets`, route lengths below 128).

| Theorem | Says | Argument |
|---|---|---|
| `PdradProofs!TypeCorrect` | `Spec => []TypeOK` | `TypeInv` adds `disposing <= signals`, without which `disposing` may pass its bound; split into control points, descriptors, data and flags, and one lemma per thread |
| `PdradSocketProofs!SocketsKept` | `Spec => []PrivateSocketsKept` | `SocketInv` adds which threads exist (`NotStarted`), that an unassigned variable holds no number (`Fresh`) and that a socket in use has one (`Opened`). `CloseKeeps` and `OpenKeeps` are the two facts about the table |
| `PdradPrefixProofs!Refinement` | `Spec => AdvertisesPublishedRecords`, the refinement of `PrefixCell` | `CellInv`: the mutex is held exactly in the critical sections; outside the DHCP thread's, `_prefix` is what is published; an advertising thread about to send has copied it; `main` starts them early only while the DHCP thread holds the mutex, which is why the unlocked wait does no harm |
| `PdradPrefixProofs!LifetimesInOneOrder` | `Spec => []LifetimesShareByteOrder` | `NoSecondReply`: once anything is granted or published the DHCP thread has no socket and never waits for a reply; from then on the lifetimes only get swapped, together |
| `PdradPrefixProofs!GrantedOnce` | `Spec => []GrantedOnlyOnce` | from `NoSecondReply` |
| `PdradPrefixProofs!ReplyWaitHarmless` | `Spec => []ReplyHoldsUpNobody` | `WaitInv`: until the DHCP thread first sets the length `main` cannot have passed its wait, and afterwards that thread has no socket to wait on |
| `PdradPrefixProofs!StuckOnlyWithoutDhcp` | `Spec => []SomeThreadGoesOn`, that is `StuckOnlyInWait` with what each thread waits for in the place of ENABLED | `CreatedInv`: which threads exist at each point of `main`, and that the RA thread sets the flag `main` looks at before it ends. Whoever holds the mutex is at a statement that waits for nothing, by `WaitInv` also the DHCP thread (`HolderGoesOn`); without a holder a thread at `lock` goes on; `TableInvariant` says that a thread at `socket()` finds a free number |
| `PdradPrefixProofs!GrantReachesLan` | `Spec => []AdvertisesGrantedPrefix` | `GrantInv`: a granted prefix is in `_prefix`, whatever is published from then on holds it as a /64, and no advertisement was sent before the first publication, which by `GrantedOnce` the grant precedes. What is sent is what is published by `CellInv` (`SendsPublished`), and its lifetimes are in order by `LifetimesInv` |
| `PdradPrefixProofs!WaitEndsWithResult` | with `Faults` within `{"socket", "connect"}` and no granted prefix `::`, `Spec => []WaitsForResult` | `ResultInv`: until a reply is accepted `_prefix` is zero and, from the first check of its flag on, the DHCP thread holds a socket whose number nobody else remembers; `utils_handler` had the same number only if a handler closed it before, and then the flag is set. So no request can fail and reach line 240 without a reply |
| `UtilsProofs!HeadTornAtMost` | `Spec => []OnlyHeadTorn` for any set of callers | `CopyInv`: past its own ioctl a caller finds the tail filled, past its own clearing the head written |
| `UtilsProofs!TypesKept` | `Spec => []TypeOK` | the same invariant |
| `UtilsProofs!TornBySharing` | with one caller, `Spec => []DeliversAddress` | `AloneInv`: between its ioctl and its copy a lone caller finds the head as the ioctl left it. The property that run `hwaddr_torn` violates with two callers needs the second one |
| `DhPacketsProofs!HeadersInside` | `Spec => []HeadersStartInside` | `UnreadInv`: as long as the parser goes on, `unreadDataLength` is what lies behind `readerPtr`, so when it wraps around the pointer has passed the end |
| `DhPacketsProofs!CreatedIsFilled`, `TypesKept` | `Spec => []CopyFillsPacket`, `Spec => []TypeOK` | `LayoutInv`: there is a function `e` with `e[0] = 4`, `e[n] = e[n-1] + ` the size of option `n` (`Ends`); the counting loop has `length = e[i]`, the copying loop `4 + optionOffset = e[i]` and `length = e[Len(options)]`. The invariant says that `e` exists, because a definition by recursion cannot be reasoned about here; each of its values is bounded so that `size_t` does not wrap |
| `DhPacketsProofs!CreatedIsParsed` | `Spec => []RoundTrip` | `TripInv`: there is a function `o` with the offset of each option (`Places`), which the copies, the packet on its way and the parser's turns all agree on; after `k` turns exactly the first `k` headers are converted, and the result is what the first `k` options make it (`Parsed`). It exists because `Ends` does; `WireToHost` is the conversion of a header there and back |
| `DhPacketsProofs!NotedWereRead` | `Spec => []NotedOptionsRead` | `NotedInv`: while the parser goes on, all it has noted lies behind `readerPtr`, so no later turn converts it again |
| `DhPacketsProofs!OwnHeadersInside` | `Spec => []CreatedHeadersInside` | from `TripInv`: the parser's turns stop where the places of the options do, and the last place and its option end with the packet |
| `DhRequestProofs!NotedInRounds` | `RequestSpec => []NotedOptionsRead` | `NotedInv` again: each round starts with an empty packet and result |
| `DhRequestProofs!NoStepInVain` | `RequestSpec => StepsWindDown` | a measure: the rounds, then where the round stands (`Stage`), then what is left of the loop it is in (`Left`); `ParseAdvances`, from `HeadersStartInside`, for the parser's. Everything `Returns` says but that steps are taken |
| `DhRequestProofs!OptionsCopiedWhole` | `RequestSpec => []CopiesWholeOptions` | `GivenInv`: while a packet is made, every block but a public caller's identifier is whole, that one is what its size and pointer make it (`CustomBlock`), and `options` has its length; `HeapInv` that the blocks are still allocated |
| `DhRequestProofs!EachRoundLeaks`, `RequestTypesKept` | `RequestSpec => []RoundsLeak`, `RequestSpec => []RequestTypeOK` | `HeapInv`: at each step of the caller the numbers of option blocks, lists and packets are those of the rounds before plus what this round has allocated so far, and what a function that has returned leaves (`Remains`); `NodeInv`: the nodes are those of the lists that are gone and of this round's, because the result is empty until a reply is parsed (`Unparsed`) |
| `DhRequestProofs!RoundsKeepPackets` | `RequestSpec => [](CopyFillsPacket /\ HeadersStartInside)` | the invariant of `DhPacketsProofs`, which each round's start and each reply establish anew |
| `NdpPacketsProofs!TypesKept` | `Spec => []TypeOK` | each constructor makes a record of its type; `HeapInv` below for the counts of blocks |
| `NdpPacketsProofs!AdvertisementsFit` | `Spec => []CopiesFit` | the four options are well formed; the position after the `n`-th of them is the sum of their lengths in both loops |
| `NdpPacketsProofs!OptionsAreFound` | `Spec => []ReceiverFindsOptions` | `PacketInv`: the first `i` options lie at the ends of those before them (`Laid`); no option has length zero, so none is copied over another; a route's units hold all the bits its length announces (`RouteAnnounces`) |
| `NdpPacketsProofs!OnlySubnetBitsReserved` | if no prefix has a bit between the length of the route and the end of the units copied, `Spec => []NoBitsBehindRoutePrefix` | `CleanInv`: the only option that is a route is the one its constructor made, and then none of the bits copied lies behind its length. The violation in run `route` comes from those bits and nothing else |
| `NdpPacketsProofs!OneBlockLeaks` | `Spec => []OnlyRouteInfoLeaks` | the heap at each phase, in terms of `adverts` |
| `NdpPacketsProofs!ChecksumLacksCarry` | `WordMod = 65536` implies `Spec => []ChecksumLacksLastCarryOnly` | `SumInv`: the sums are congruent to the words added, modulo 65535, because folding a carry keeps the residue; both sums stay below 65536 |
| `CollectionProofs!ElementsReached` | `Spec => []ElementsAreReached` | the units still to go, from the unit reached, stay inside the list in the direction of the walk |
| `CollectionProofs!UnitsFound` | `Spec => []UnitIsElements` | the unit where the walk lands is fixed when it begins; for the tail a division by 64 with remainders compared |
| `CollectionProofs!TypesKept` | `Spec => []TypeOK` | the same invariant |

Only model-checked: the liveness properties `PublishedGetsAdvertised`, `SolicitationAnswered`, `SignalStopsDaemon` and `Returns` (whose safety part is `NoStepInVain`), and `StuckOnlyInWait`, which contains
ENABLED (`StuckOnlyWithoutDhcp` proves it with the waiting spelled out). `RoundTrip` and `ReceiverFindsOptions` are stated without recursion, by the
offsets a walk visits: that such offsets exist can be proved for packets of any length, what a recursive walk returns could not, because induction over it is
beyond the provers.

## 5. Not modelled

- Time, and lifetimes running out.
- The bytes of options beyond lengths, prefixes, flags and lifetimes; transaction ids, which the code draws at random and never compares.
- `htobe_inet6` and the three address literals: addresses are model values.
- The route preference byte, zero at its only caller; route prefix lengths from 128 on.
- The word loads and byte order of the checksum: words are numbers, and their sum does not depend on the order of their bytes once the result is swapped back. The
  result is discarded by the code.
- Constructors that run out of memory (only list nodes of the parser may), and wrong command lines, after which the process ends before it has state.
- Threads that cannot be created: `pthread_create`'s results are not looked at (test.c 437, 452, 453). The model has the threads.
- What the format string of test.c:320, which lacks an argument, prints.
- Constructors that nothing calls: the IAPREFIX, the target link-layer address, the advertisement interval.
- Reuse of the freed `utils_request` after a failed `utils_Init`; that the signal handler logs and may interrupt a thread inside `localtime`.
- What `Utils_MixedListSet` would store: it stores nothing. Creating and freeing a list: both functions are empty.
- `Lib/log.c`: vendored, output only.

## 6. Plan

Done: all modules of section 2, with the theorems of section 4. What is left, should the code grow into it:

1. `Collection` with creation, growth and removal, against a sequence, once the functions are written.
2. A request packet: `dh_createCustomizedRequestPacket` is a stub, and the daemon takes an ADVERTISE for the end of the exchange. With it
   `DhRequest` becomes a client with Solicit, Advertise, Request and Reply, and the transaction id begins to matter.
3. Lifetimes that run out: `Pdrad` would need a clock, and the code a reaction to one.
4. A refinement of the DHCP thread's send-and-receive steps in `Pdrad` by the rounds of `DhRequest`.
