# A TLA+ model of NFD 0.6.3

NFD is the forwarder of Named Data Networking: it receives Interests, Data and
Nacks on *faces*, remembers pending Interests in a table, looks next hops up in
another, answers from a cache and detects looping Interests by their Nonces. The
repository holds NFD (`src/NFD-NFD-0.6.3`) and the library it is built on, ndn-cxx
(`src/ndn-cxx-063`). This directory models the forwarder's pipelines and tables, its
link service and TCP transport, the RIB with what propagates it, and the face that
applications use. TLC checks the models on small instances; TLAPS proves the safety
properties of the pipelines, the Dead Nonce List, the Content Store, the link service, the
TCP transport, the client face, the RIB and the prefix propagator for all instances.

## 1. Inventory

NFD runs on one thread (`daemon/main.cpp`; the RIB runs on a second one and talks to
the forwarder by Interests and Data). A handler runs to completion; what interleaves
is the order in which packets, timers, face closures and management commands reach
the io_service.

| Component | State | Operations | Interacts with |
|---|---|---|---|
| Forwarding pipelines, `fw/forwarder` | the tables, the expiry timer of each PIT entry | onIncoming{Interest,Data,Nack}, onOutgoing*, onContentStore{Hit,Miss}, onInterestLoop, onInterestFinalize, onDataUnsolicited | faces deliver packets; calls strategies, which call the outgoing pipelines |
| PIT, `table/pit*`, `fw/algorithm` | entries: in-records, out-records, `isSatisfied`, timer | insert, find, findAllDataMatches, erase, deleteInOutRecords | pipelines, strategies, cleanup |
| Strategies, `fw/*strategy*` | per-entry and per-record suppression info; measurements | afterReceiveInterest, afterReceiveData, afterReceiveNack | outgoing pipelines, FIB |
| FIB, `table/fib*` | prefix to next hops with cost, sorted | insert, addNextHop, removeNextHop, longest prefix match | FibManager, cleanup |
| Dead Nonce List, `table/dead-nonce-list` | queue of hashes and MARKs, capacity, two timers | add, has, mark, adjustCapacity, evictEntries | pipelines |
| Content Store, `table/cs*` | set of Data sorted by full name; queues of the replacement policy; staleness timers | insert, find, erase, setLimit, setPolicy, enableAdmit, enableServe | pipelines, CsManager, configuration |
| Name tree, strategy choice, measurements, `table/` | hash table of name nodes that own the table entries | lookup, eraseIfEmpty, findEffectiveStrategy | all tables |
| Link service, `face/*link-service*`, `face/lp-*` | sequence numbers, partial messages, unacknowledged fragments, RTO timers | send*, receive*, fragment, reassemble, retransmit | face and transport |
| Transports, channels, factories, `face/` | UP/DOWN/CLOSING/FAILED/CLOSED, send queues, reconnection timer, listening sockets | send, close, reconnect, setPersistency, connect, listen | sockets; the face table frees the face |
| RIB, `rib/rib*`, `rib/fib-updater` | tree of entries with routes, inherited routes, expiration events; queue of updates; commands under way | registerEntry, unregisterEntry, onRouteExpiration, onFaceDestroyedEvent, removeInvalidFaces, FIB updates with retry | FibManager by commands; face events; propagation by signals |
| Prefix propagation, readvertise, `rib/` | propagated entries with refresh and retry timers, connection to the hub | afterInsertRibEntry, afterEraseRibEntry, afterHubConnect, answers and timers | RIB of a remote hub, key chain |
| Management, `daemon/mgmt` | authorisations | commands and datasets | tables, faces |
| Client face, ndn-cxx `face`, `detail/`, `transport/` | pending Interests, filters, registered prefixes, posted handlers, transmission queue | expressInterest, registerPrefix, put, shutdown, packets, timeouts, connect, pause, resume | applications, forwarder |
| Rest of ndn-cxx | scheduler, segment fetcher, in-memory storage, encoding, security | | applications, RIB, managers |

What is hard in it, by component (`PROJECT.json` lists each hazard with its line):

* pipelines: an Interest that reuses an entry between its satisfaction and its
  finalization; timers that run late or are restarted by another downstream;
  Nacks, Data and retransmissions in any order; Data that matches several entries;
  a face that closes between request and reply; the many places where scope is
  checked; which Nonces survive for loop detection;
* Dead Nonce List: lifetime without timestamps, limited evictions, integer scaling of
  the capacity, a control loop that could oscillate;
* Content Store: iterators kept in queues, a timer that races with refresh and
  eviction, limits and policies that change, bounds of a search computed from names;
* link service: losses, duplicates, reordering, wrap-around of sequence numbers;
* RIB: batches of which one update fails, answers that come late or in another order,
  faces that disappear meanwhile, inherited routes maintained incrementally;
* transports: handlers that run in a state they were not queued in, a reconnection that
  races with its timeout, memory that handlers still refer to;
* prefix propagation: answers that find their entry erased, or erased and made again;
* client face: calls that only post handlers, a transport that is paused and resumed by
  handlers that were decided upon earlier.

## 2. Modules

| Module | Models |
|---|---|
| `Pit` | a PIT entry as a value and the operations on it; `fw/algorithm.cpp` |
| `Strategies` | outgoing pipelines, best-route (v1 and v4), multicast, Nack processing, retransmission suppression |
| `Forwarder` | the state machine: one action per path through an incoming pipeline, the expiry timer, face removal, FIB updates, time; the properties |
| `MCForwarder` | small instances |
| `ForwarderProofs` | theorems about `Forwarder` |
| `NonceSet` | what loop detection expects of the Dead Nonce List |
| `DeadNonceList` | the queue with MARKs and capacity control; implements `NonceSet` |
| `DeadNonceListLoad` | the same under a steady load, for the control loop |
| `CsLookup` | the search of the Content Store as operators, and a reference definition |
| `MCCsLookup` | the search over all small tables |
| `Lists` | erasing elements from a list |
| `ListFacts` | lemmas about lists, and about loops written as recursive functions |
| `ContentStore` | table, policies, timers and commands of the Content Store |
| `MCContentStore` | small instances |
| `ContentStoreProofs` | theorems about `ContentStore` |
| `LpReliability` | the reliability protocol of one face as operators on its state |
| `LpReassembler` | reassembly as operators on the partial packets |
| `GenericLinkService` | two faces with both, over an unreliable link; extends the two modules; the properties |
| `MCLinkService` | small instances |
| `LinkServiceProofs` | theorems about `GenericLinkService` |
| `RibEntry` | RIB entries as values, and the tree: insertion, erasure, ancestor routes |
| `FibUpdater` | which FIB updates and inherited routes follow from a registration or its end, as operators |
| `RibManager` | requests, the queue of updates, commands and their answers, expirations, face events, the next hop commands of FibManager; the properties |
| `MCRib` | a small instance |
| `RibProofs`, `RibFollowProofs` | theorems about `RibManager` |
| `TcpTransport` | a TCP face from first packet to deallocation |
| `ClientFace` | the Face of ndn-cxx with its transport |
| `ClientFaceProofs` | theorems about `ClientFace` |
| `PrefixPropagator` | propagation of prefixes to a hub |
| `ComponentProofs` | theorems about `DeadNonceList`, `TcpTransport` and `PrefixPropagator` |
| `MCComponents` | the sum of five components, for one run |

`Strategies` extends `Pit` and `Forwarder` extends `Strategies`: a trigger of a strategy
is called by a pipeline and calls outgoing pipelines before the pipeline goes on, all in
one step. `Forwarder` holds the Content Store as any cache of bounded size and the
Dead Nonce List as any set that forgets, so its results do not depend on the policies;
`ContentStore` and `DeadNonceList` model these two in detail. `RibManager` extends
`FibUpdater`, which extends `RibEntry`, and composes the RIB with the FIB manager it sends
commands to. `MCComponents` is no composition: a behaviour of it is one of the search, the
Dead Nonce List under load, the TCP transport, the client face or the propagator, chosen
at the start, so that one run checks five small specifications.

### State and actions against the code

`Forwarder`. `pit` maps a key (name and MustBeFresh, the selectors that the model
tells apart) to an entry; `in` and `out` are functions from faces to records;
`timer` is the instant at which `expiryTimer` is due, `satisfied` and `freshness` are
the two public fields, `interval` on entries and out-records is the `PitInfo` of
`RetxSuppressionExponential`. `sent` holds the packets the last step gave to faces; no
guard reads it. `fib` maps names to next hops with costs. A path through
`onIncomingInterest` is an action (`InterestDrop`, `onInterestLoop`,
`onContentStoreHit`, `onContentStoreMiss`), one through `onIncomingData` as well
(`DataDrop`, `onDataUnsolicited`, `SatisfyOne`, `SatisfyMany`), and Nacks are accepted
or dropped. The order within a pipeline is kept where it shows: `sendDataToAll` reads
in-records before they go, `DeadNonces` is computed from the entry after it is marked
satisfied. `onInterestFinalize` may run at any time from the instant the timer is due.
Next hops of equal cost are tried in any order, since `std::sort` is not stable.
Names are model values with a prefix relation. Interests have no forwarding hint.

`DeadNonceList`. `m_queue` and `m_ht` are one container with two indices, hence one
sequence. The unit of time is the mark interval (a fifth of the lifetime). Capacities
are scaled in integers, `(c * 6) \div 5` and `(c * 9) \div 10`, which agrees with the
truncated product of doubles in the code for all capacities below 2^22. The hash of a
name and Nonce is taken to differ from MARK (the code accepts a collision with
probability 2^-64). `age` is a history variable, needed for the refinement.

`ContentStore`. `table` maps Data to staleness and the unsolicited flag; all queues of
both policies are in `queues` (lru uses one, priority_fifo three), `moveStale` holds the
pending `moveStaleEventId` timers. `processConfig` is the reload of the `tables`
section, `changeConfig` and `erase` the commands of CsManager. When an entry is attached
to a queue the clock is read a second time, so Data with FreshnessPeriod 0 may be
judged stale or fresh. `CsLookup` represents a name by numbers whose order is the
canonical order, digests below generic components; `lower_bound`, `getSuccessor`,
`getPrefix` and the loops of `findLeftmost` and `findRightmost` follow the code,
the position a loop leaves the table with included.

`GenericLinkService`. `rel` holds the members of `LpReliability` for each end: `unacked` is
`m_unackedFrags`, `nets` the `NetPkt` objects that its fragments share (a packet is gone
with its last fragment), `first` is `m_firstUnackedFrag`. The counters nAcknowledged,
nRetransmitted and nRetxExhausted are kept as the list of what they counted (`resolved`).
`processIncomingPacket` is one step with all retransmissions it causes, each of which takes
Acks along. A loop of the code is a recursive function of the number of rounds (`after` in
`sendNetPacket`, `processAck`, `processAcks` and `idleAckTimer`); what the loop of
`handleOutgoing` stores is written down at once, since its rounds do not depend on each
other, and so is what is left after `deleteUnackedFrag` was called for a set of fragments.
Sequence numbers are modulo `SeqSpace`; the instances start just below the
wrap. The RTO is an estimate, so its timer may run at any time. An MTU is given by the
number of Acks that fit beside a fragment and in an IDLE packet (`AckRoom`). The link
delivers what it holds in any order, late, twice or never. A `Traffic` gives the number of
fragments of each packet an end sends; how octets are cut is not modelled.

`RibManager`. The RIB service is a record `s` and each operator on it a member function;
`rib` maps names to entries, `faceMap` is `m_faceMap` and `sent` holds the commands under
way with the batch their callbacks are bound to. `computeUpdates` is one step with the
batch it belongs to, as in the code, where a batch holds one update or the removal of a
face. `Respond` executes a command at the FIB manager and hands the answer to
`onUpdateSuccess` or `onUpdateError`; `Timeout` lets the answer be late, with the
command executed or not. Routes are created and destroyed on faces that may not exist yet,
exist, or be gone. `sendBatchFromQueue`, which a batch without FIB updates calls again, is a
recursive function of the number of rounds (`sendNextBatch`); the notification of a destroyed face and the dataset of active
faces may be overtaken by anything. `m_nRoutesWithCaptureSet` is kept modulo
`CaptureSpace`, since the code can make it wrap. The names are those of applications: the
prefixes of the management itself, which `registerTopPrefix` enters at the start
(`rib-manager.cpp:186`: `/localhost/nfd` into the RIB without a FIB update, a next hop for
`/localhost/nfd/rib` into the FIB without a route, the same under `/localhop` if enabled), are
left out, so FibFollowsRib and NoOrphanNextHop do not speak of them. The route a `getRouteWith...` returns as
null pointer and that is dereferenced ends the behaviour (`invalid`, `running`).

`TcpTransport`. `ready` is the queue of handlers of the io_service, `ops` how many operations
of the socket of each kind (`IoOp`) have not completed. A handler is run as a whole. `cancel` and `close`
complete pending operations as aborted, one that had completed already keeps its result.
Assertions are compiled out in the default build, so the model goes on where they would
fail and ends (`running`) only where an exception leaves a handler or the front of an empty
queue is read.

`ClientFace`. A call of the application posts a handler; `posted` is the queue of what is
ready, completions of the socket included, `old` marks those of a transport that was closed
meanwhile, which find the implementation gone. `ops` counts the operations of the socket that
are under way. Two of them may be writes of the same item: `handleAsyncWrite` of the first
erases it, and the other one, a `"rewrite"` from then on, ends with an iterator that is
invalid (`running`). Calls number the Interests they make; those of the forwarder have
negative numbers. A callback may express the Interest again (`Retry`). All Interests are
about one name, so that all of them match what arrives. A read carries one packet or several,
handled one after the other before anything else that is ready (`nRead`). An exception
(`Throw`) leaves the handler that it is thrown in, `doProcessEvents` clears the tables, and the
application calls `processEvents` again: packets too large to send, a packet that cannot be
decoded, an error of the socket, and the refusal, Nack or timeout of an unregistration asked for
without callbacks, whose failure is reported through an empty `std::function` (`EmptyCallback`).
An exception that leaves the handler of a read leaves `isReceiving` as it is and starts no other
read (`LeaveRead`); the history variable `deaf` records it until the transport is paused or
closed. The application's own callbacks are assumed to throw nothing.

`PrefixPropagator`. `sent` is a bag of commands, `done` once the hub has executed them. A
command that is lost, refused or answered too late is `FailCommand`, executed or not. An
answer finds the entry by its name, as the code does. The identities that can sign change
at any time, unnoticed. Names under /localhost and the name of the hub are left out; since
`afterEraseRibEntry` looks at them too when it asks whether a prefix is still needed
(`auto-prefix-propagator.cpp:224`), it is assumed that no identity is for the empty name, whose
entry they would keep for ever, and that no other name is under /localhop. Entries that are redone together, when a hub connects, are redone at once:
a prefix that is chosen works, so their order does not matter. Durations are left out, so a refresh may come at any time.

## 3. Runs

| Run | Instance | Shows |
|---|---|---|
| `core` | 2 faces, each a possible downstream and upstream, one may close; 2 Nonces, lifetimes 1 and 2, cache of 1, time to 2; best-route | TypeOK, EveryEntryHasTimer, NoDanglingFaces, PendingNotAbandoned, FlowBalance |
| `match` | names under /localhost, /localhop and a prefix of both; MustBeFresh, freshness below and not below the lifetime of the Dead Nonce List; best-route v1 and multicast; unsolicited Data admitted from local faces; one local face and an upstream that is not local and ad hoc, so that it may be sent its own Interests | ScopeRespected, NoncesRetire |
| `multicast` | 3 faces, two equal upstreams that may both Nack, one of which may be a NextHopFaceId, no cache; multicast; timers and time under weak fairness | DownstreamsAnswered, PitDrains |
| `link` | a packet of 2 and one of 1 fragment, one retransmission each, 2 packets in flight | WindowStartsAtOldest, NetPktsIndexUnacked, AckedWasReceived, TransmissionsBounded, ReassembledWhole |
| `link_live` | a packet each way and one that cannot be fragmented, one duplicated packet, two changes of the option | ResolvedOnce, NetPktsResolved, AcksReturned |
| `dnl` | 2 entries, capacities 5 to 7, eviction limit 3 | QueueBounded, refinement of NonceSet |
| `cs_policy` | 3 Data (2 of one name), limits 0, 1 and 3, erase limit 2, both policies | QueuesIndexTable, SizeWithinLimit, QueuesMirrorEntries, UnsolicitedEvictedFirst |
| `rib` | a prefix and a longer one, a face that stays and one that comes and goes, 2 requests with any flags and an expiration, 1 retry, 1 dataset | TreeMatchesNames, NeverStuck, ExpirationPending, FibFollowsRib, NoOrphanNextHop |
| `components`: search | all subsets of 7 Data with names of length 1 to 3, any of them stale | LookupCorrect |
| `components`: list under load | capacities and eviction limit of the code, maximum lowered to 200, loads of 0 to 60 entries per interval | CapacitySettles, LifetimeReached |
| `components`: TCP | each persistency, a queue of 2, 2 faults | NoUseAfterFree, KeepsWorking, CloseCompletes |
| `components`: client | 2 calls of any kind, 1 error, reads of up to 2 packets, 1 Interest of the forwarder | KeepsListening, OneOutcome, OutcomeComes, HearsAgain |
| `components`: propagator | 2 names, 2 identities, 5 changes, 1 lost command | HubFollowsNames, NamesReachHub |

The properties of the pipelines, in words:

* **EveryEntryHasTimer**: no PIT entry without a scheduled expiry timer, so none leaks.
* **NoDanglingFaces**: no next hop, in-record or out-record of a face that is gone.
* **PendingNotAbandoned**: while an upstream may still answer an unsatisfied entry, the
  entry lives as long as each of its downstreams asked. Multicast is excepted: it
  rejects an entry as soon as one of its Interests has no next hop left.
* **FlowBalance**: a face gets at most one Data or Nack per step, and only in exchange
  for an in-record that goes or for the Interest just received from it.
* **DownstreamsAnswered**: when in-records go from an entry that stays, their faces are
  answered. Excepted are the face that the Data came from and, for Data under /localhost,
  faces that are not local.
* **NoncesRetire**: a Nonce leaves the out-records only into the Dead Nonce List, unless
  its face closed, a newer Interest replaced it or Data that can answer a looping
  Interest satisfied the entry.
* **ScopeRespected**: /localhost stays on the host, /localhop goes one hop. A face that an
  Interest names as its next hop is excepted, as in the code, which asks no strategy then.
* **PitDrains**: every entry is erased in the end.

Those of the link service:

* **WindowStartsAtOldest**: the start of the send window is the oldest unacknowledged
  fragment across a wrap of TxSequence; `findLostLpPackets` relies on it.
* **NetPktsIndexUnacked**: the iterators a `NetPkt` holds are exactly those of its fragments.
* **ResolvedOnce**: each packet is counted once by one of the three counters.
* **AckedWasReceived**: a packet counted as acknowledged or retransmitted reached the peer
  whole. It need not have been reassembled there: the reassembly timer may have dropped a
  fragment that was acknowledged.
* **TransmissionsBounded**: the transmissions of a face are at most 1 + maxRetx for each
  fragment that it sends, added up over all fragments.
* **NetPktsResolved**: every packet is resolved in the end, whatever the link does.
* **ReassembledWhole**: what is passed up consists of all fragments of one packet. It may be
  passed up twice, after retransmissions.
* **AcksReturned**: no Ack waits for ever while reliability stays on. It may after reliability
  was switched off and on again, since `stopIdleAckTimer` leaves `m_ackQueue` as it is; then
  the next packet takes it.

Those of the RIB:

* **TreeMatchesNames**: parents, children and `m_faceMap`, maintained by each insertion and
  erasure, agree with the names and routes.
* **NeverStuck**: updates wait only while a command is under way, whatever was refused, late
  or lost.
* **ExpirationPending**: a route with an expiration period on a live face has its event or its
  removal pending, through renewals that cross with the event.
* **FibFollowsRib**: when all is done the FIB has the next hops that the routes, looked at
  afresh, give: an entry's own routes, else those of the nearest ancestor that may be
  inherited. It holds as long as nothing on the list of section 3.1 happened: only plain
  registrations (without capture, on a face the entry has neither inherited nor from another
  origin), no batch that fails with commands under way, no late removal, no live face missing
  from a dataset.
* **NoOrphanNextHop**: whatever the registrations, no next hop remains that the RIB has no
  record of.

Those of the transports:

* **NoUseAfterFree**: no handler, operation or timer outlives the face.
* **KeepsWorking**: a transport that is DOWN keeps trying to connect, one that is UP receives
  and sends, whatever the order of errors, timeouts and connections.
* **CloseCompletes**: a transport that closes or fails is freed.

Those of the client face:

* **KeepsListening**: while the transport is connected and Interests are pending or prefixes
  registered, a read is under way, unless an exception has left the handler of a read since the
  transport was last paused or closed (section 3.1).
* **HearsAgain**: that state ends. Once the application makes no more calls its Interests time
  out, the tables are empty and the transport is paused, so that the next call resumes it. An
  application that always has an Interest pending stays deaf.
* **OneOutcome**, **OutcomeComes**: an expressed Interest has exactly one outcome (Data, Nack,
  timeout, removal), and has it in the end.

Those of the propagator:

* **HubFollowsNames**: without losses, whenever no command is under way the hub has exactly the
  prefixes that the names need, however commands and answers crossed.
* **NamesReachHub**: with losses, reconnections and changing identities, every name that could
  always be signed reaches the hub and stays there.

**Bounds.** `MaxTime` bounds the clock; Interests are admitted only if they expire by
then, so that every timer can fire within the bound. Two faces suffice for the loops
(each is the other's downstream), three for two upstreams that answer differently; two
Nonces for retransmissions and stale Nacks; lifetimes 1 and 2 for a downstream that
outlives another. The properties of entries relate at most two records and one timer, and
the theorems below remove the bounds for the invariants. In `dnl`, capacity 5 to 7 with
eviction limit 3 is the smallest instance in which an eviction is cut short by the limit.
In `link`, three fragments are the least for an Ack that overtakes both fragments of
a packet, so that giving up one removes the other from the list of lost fragments;
`SeqSpace` exceeds the number of transmissions, as 2^64 does. The faces may fall silent when
`Traffic` is sent, so deadlock is not checked.

In `rib`, two requests are the least for a route that is inherited and for a request that
waits behind another; the removals by expiration, destruction and dataset come on top of
them. The instance has 0.9 million states. Behaviours of six requests with two
origins, two costs and four names on three levels were run in simulation, 39 million states,
without violation; the cases of section 3.1 came up when the conditions of FibFollowsRib
were weaker. `MaxFaults`, `MaxErrors` and `MaxLost` bound what the environment does wrong,
`MaxCalls`, `MaxRequests` and `MaxChanges` what it asks for; none of them bounds the system's
own steps; `MaxPackets` bounds the packets of a read, and two are the least for a packet whose
handler posts something before the next one is handled. Two faults are the least for an error while a reconnection is under way, two calls
for a prefix that is registered and unregistered, five
changes for a name that is inserted, erased and inserted again with a hub that connects. Once
each, the client with two errors, the least for two writes of one item (299 217 states, all four
properties), the safety of the client with three calls (6.3 million states), so that an Interest
is expressed while an unregistration is refused, the TCP transport with three
faults and the propagator with six changes and two losses (44 369 states) were checked as well.
In these components everything may come to rest, so deadlock is not checked.

Some cases are reached only by the theorems of section 4: one Data for several entries
with FlowBalance and DownstreamsAnswered, duplicates with AckedWasReceived, a packet of several
fragments with ResolvedOnce, fragments of two packets at one reassembler, different costs
with FibFollowsRib.

**Fairness.** `FairSpec` asks that time passes and that the scheduler runs each expiry
timer that is due and stays due; the io_service runs every expired timer. Nothing is
assumed of packets, faces or management. `LoadSpec` asks that the load, which is the
environment of that run, goes on, and the timers with it. The link service asks that the
scheduler goes on running RTO and idle Ack timers, and nothing of the link. The transports ask
that the io_service runs the handlers that are ready, the client face that the timeouts of
pending Interests run as well; a socket operation need never complete. A timeout waits while the
packets of a read are handled, so strong fairness is asked of it: a timer that is due takes its
turn between two handlers, however many reads there are. The propagator asks
that each command is answered or times out, as the controller's timeout sees to, and that
timers run; losses are finite by `MaxLost`, without which no retry would have to succeed.

### 3.1 Where comments and code disagree, and what the models show

Three runs expect a violation; each checks what a comment says.

1. `doc_lookup`: `cs.hpp:77` says a lookup invokes a callback exactly once. A rightmost
   lookup by full name, with MustBeFresh, of Data that is stale, in a store with another Data
   of that name and a smaller digest, runs past the start of its range
   (`findRightmost`, `cs.cpp:160`).
2. `doc_rib`: `rib.hpp:123` says the RIB is not updated when the FIB update fails. A batch
   with two commands for its face, both refused, is reported as failed with the first answer;
   the second meets the members of the next batch and applies the failed one.
3. `doc_client`: `stream-transport-impl.hpp:170` says that the next write is always scheduled.
   `pause` cancels the write under way together with the read, and the item stays in the
   queue, which is then never sent.

Others are visible in the models without a run.

*Pipelines.* `pit-out-record.hpp:66` says `clearIncomingNack` is invoked in the outgoing
Interest pipeline; it is never called, so an Interest sent again after a Nack has an out-record
that still counts as Nacked. `strategy.hpp:210` says a Nack leaves the expiry timer of an
unsatisfied entry unchanged; `onIncomingNack` sets it to now when no out-record is pending.
`isSatisfied` stays set when an entry is used again before its timer runs, so the second
Interest counts as satisfied when its Nonces retire. `dead-nonce-list.hpp:40` says that a Nonce
erased from a PIT entry is added to the Dead Nonce List, but one that a newer Interest to the
same face overwrites (`pit-entry.cpp:99`) is not, so NoncesRetire excepts it.

*RIB.* These are why FibFollowsRib has its conditions:

* a removal that times out is sent again as an addition (`fib-updater.cpp:293`);
* with routes of two origins on a face, erasing the costlier one removes the next hop;
* registering on a face that the entry has inherited leaves the inherited record, and the end
  of the ancestor's route then removes the entry's own next hop;
* overwriting a route leaves `m_nRoutesWithCaptureSet` as it was, and the counter may wrap;
* the end of the last capture does not give the ancestors' routes to the children; the end of
  an inheritable route gives them all ancestor routes, captured or not; so does turning
  inheritance off on an entry that captures; turning capture on takes from the children a face
  that the entry itself still gives;
* `createFibUpdatesForUpdatedRoute` dereferences a null pointer when no route of the face is
  inheritable;
* a face created after the dataset was taken loses its routes in the RIB but keeps its next
  hops (`rib-manager.cpp:363`); a face destroyed while its registration is under way leaves
  its route in the RIB; more than `MAX_NUM_TIMEOUTS` late answers, or another error code,
  throw.

*TCP.* A receive completed before `close()` starts another in CLOSING, and two errors in a row
post two reconnections, both against assertions (`stream-transport.hpp:229`,
`tcp-transport.cpp:130`) that the default build leaves out; a connection that succeeds as its
timeout runs makes `local_endpoint()` throw; `handleSend` may find its queue emptied by
`reconnect`. A receive restarted in DOWN leads to two reads on one buffer.

*Client face.* A second read may be started after pausing, while the first is still to be
reported; a shutdown while connecting leaves the connection to be made; a prefix unregistered
twice uses an invalid iterator; the failure of an unregistration by
`unsetInterestFilter(const RegisteredPrefixId*)` (`face.cpp:288`) or by the dispatcher
(`dispatcher.cpp:107`) calls an empty function (`face-impl.hpp:344`) and throws. `transport.hpp:103` says that packets are
expected, and the callback is invoked, while `isReceiving()` holds. An exception that leaves
`handleAsyncReceive`, by such a failure or by a packet that cannot be decoded, skips
`asyncReceive()` (`stream-transport-impl.hpp:249`) and leaves the flag set. An Interest whose
handler was posted before does not resume the transport (`ensureConnected` trusts the flag) and
keeps it from being paused by `onEmptyPitOrNoRegisteredPrefixes`: it waits for its timeout
without a read under way. This is what KeepsListening excepts.

*Propagator.* `auto-prefix-propagator.hpp:64` says a propagated entry is revoked when its RIB
entry is erased. It is not when a refresh has failed, when the answer to its registration was
lost, or when the revocation fails, which is never repeated: hence HubFollowsNames is about
behaviours without losses, and NamesReachHub only asks for inclusion. A name that no identity
can sign when it is inserted is not reconsidered when one is added. `startPropagation` leaves
a timer pending, against the assertions of the timers and of the answers.

## 4. Proofs

A theorem holds for every value of the constants that satisfies the named assumptions of the
modules; the instances of section 3 satisfy them. What is bounded in a run (faces, names,
packets, time, faults) is not bounded here, or by any number. Every theorem is of the
specification without fairness.

**Pipelines** (`ForwarderProofs`), for every set of faces, names, Nonces, lifetimes and routes,
every link type and every assignment of the modelled strategies to names:

* `TypeCorrect`, `EntriesExpire`, `FacesCleanedUp`, `DownstreamsKept`: `Spec` implies
  always TypeOK, EveryEntryHasTimer, NoDanglingFaces, PendingNotAbandoned;
* `ScopeControl`: `Spec` implies always ScopeRespected;
* `FlowBalanceHolds`, `DownstreamsAnsweredHolds`, `NoncesRetireHolds`: the three action
  properties.

The inductive invariant `IInv` says of every PIT entry (`EntryOK`): it is well-formed, its
timer is scheduled, its records are of live faces, the records of a /localhost entry are in
scope, and PendingNotAbandoned holds of it. None of these is inductive by itself: that
records are live needs that next hops are (`FibOK`), a timer that is an instant and not
NoTimer is needed to compare it with expiries, and PendingNotAbandoned needs that each
in-record an Interest adds is covered when `onContentStoreMiss` restarts the timer from
the last one to expire. The lemmas go bottom up: each operation on an entry; what a
strategy may make of an entry (`MayBecome`: out-records are added only for next hops,
in-records only go, the timer stays or is set to now) and that, multicast apart, it does not
set the timer while an upstream may answer (`KeepsWaiting`); then one lemma per action. A
further part treats the packets that leave in a step (`ScopeControl`). The action properties
follow from `GoodStep`, which every action is shown to satisfy from `IInv`: a reply answers an
in-record that goes or the Interest just received, an in-record that goes from an entry that
stays is replied to, and a Nonce that goes is retired. Most actions write one entry
(`WritesOneEntry`); the replies of Data that satisfies several are a union over them.

**Dead Nonce List** (`ComponentProofs`), for every choice of constants that satisfies
`DnlAssumption`:

* `DnlTypeCorrect` and `DnlQueueBounded`;
* `DnlImplementsNonceSet`: the list implements `NonceSet`, every step of the queue maps to a
  step of the set or a stutter.

The inductive invariant adds to the type invariant `Bounded`, which counts from the two
timers how many MARKs were pushed since the last eviction, and `Located`, which says that an
entry added `age` pushes ago sits `age` places from the end of the queue. `DnlAssumption`
holds the static assertions of the destructor and that an eviction can keep up with the
MARKs of one lifetime (64 against 5 in the code).

**Content Store** (`ContentStoreProofs`), for every set of Data and Interests, all limits and
both policies: `QueuesIndexTableHolds`, `SizeWithinLimitHolds`, `QueuesMirrorEntriesHolds` and
the action property `UnsolicitedEvictedFirstHolds`. The invariant `StoreInv` says that the
queues together hold each stored Data once (`Indexes`), that under priority FIFO the queue of an
entry is the one its flags call for, that a timer is pending exactly for what is in the fifo
queue and that it is due when the Data becomes stale (`Agree`), and that the limit is kept. The
last part is not inductive without the first: evicting until the size fits counts on a queue
that holds all of the table. It is assumed that Data with one full name are one Data, since
the digest covers the packet (`LookupAssumption`).

**Link service** (`LinkServiceProofs`), for any traffic, any number of packets in flight and
duplicates, any maxRetx, loss threshold, room for Acks and largest number of fragments, and
wherever the sequence numbers wrap around: `WindowAlwaysStartsAtOldest`,
`NetPktsAlwaysIndexUnacked`, `AlwaysResolvedOnce`, `AckedWasAlwaysReceived`,
`TransmissionsAlwaysBounded` and `AlwaysReassembledWhole`. `GenericLinkServiceAssumption` asks
that there are two ends and that 1 + maxRetx transmissions of all fragments do not exhaust the
sequence numbers, of which the code has 2^64. (Where they are exhausted `assignTxSequence`
throws, and an Ack could be for either of two fragments.)

The invariant of one face, `RelInv`, is a predicate of its reliability record, so that it is
shown to be kept by each member function and not only by each step. It has what the properties
say and, beside that:

* each TxSequence in use was issued, counted from the first one of the face (`Pos`), so that
  comparisons modulo `SeqSpace` are comparisons of these positions;
* a fragment is unacknowledged under one TxSequence at most, and a packet in flight or an Ack
  on its way with a TxSequence still in use is about that very fragment (`CarriesInv`,
  `AckInv`); this is what makes an Ack for a replaced TxSequence harmless;
* of a packet that is not counted yet, each fragment that has not reached the peer is
  unacknowledged (`ReceivedInv`); AckedWasReceived follows when none is left;
* a budget: the numbers issued and the retransmissions that are still allowed (`Spare`, a set of
  tokens, one for each fragment and retry) are together at most 1 + maxRetx for each fragment. A
  retransmission takes one token and issues one number. This is the inductive form of
  TransmissionsBounded, and through `GenericLinkServiceAssumption` it keeps `Pos` from wrapping.

`LinkInv` joins the two faces: what one acknowledges (`AcksTo`) is what the other has issued and
what has arrived. For reassembly it says that a partial packet holds different fragments of one
packet, the one whose identifier it has; two packets that are sent have different identifiers,
since fewer than `SeqSpace` Sequences are used (`IdentifiersDiffer`).

**TCP transport** (`ComponentProofs`), for any queue, wait and number of faults:
`NoUseAfterFreeHolds` and `KeepsWorkingHolds`. The first rests on `EndInv`: the handler that
frees the face is posted once, after the transport is CLOSED, with no timer and no operation
left and nothing behind it in the queue, and the one that closes it is the last of its kind
(`ClosingPart`, `ClosedPart`). The second rests on `WorkInv`: in DOWN an attempt to connect is
posted, or waited for with an empty send queue; in UP, unless an attempt is posted, what is in
the send queue is being written, and the transport is receiving or its connection timer runs.

**Client face** (`ClientFaceProofs`), for any number of calls, errors and Interests of the
forwarder: `ListensWhileWaiting` and `OutcomeIsOne`. The invariants are predicates of the face,
shown to be kept by each member function. Most of these work on the tables and leave the transport
alone or the other way round, and each kind keeps the invariant of the other part (`TableStep`,
`TransportStep`).

* `OutcomeInv`: the Interests expressed are divided into those whose handlers are in `posted`,
  those in `pit`, those told of and those dropped (`Divided`), none is twice in `posted` or in
  `pit`, and numbers are those of calls made. While a handler runs, the Interest it is about is
  in none of the four.
* `TransportInv`: without an implementation nothing is under way and what is posted is `old`
  (`ImplInv`); a write is of an item in the queue (`WriteInv`); while the transport connects, the
  end of the attempt is posted before that of any write (`ConnectInv`).
* `ListenInv`: a transport that is receiving has a read of its own under way or its end in `posted`,
  or is `deaf` (`Reads`). An application that waits has this or the end of a read of a former
  transport (`Awaits`), unless the transport is still connecting with a packet in its queue:
  `connectHandler` resumes only with something to send. That is why KeepsListening is not
  inductive by itself: ensureConnected does not resume while the transport connects.

The read that ends is followed by another one whether the transport is paused or not, so a read is
under way after each packet that throws nothing. An exception empties the tables, so that
nothing waits right after it; what waits later has either found `isReceiving` set, with a read or
`deaf`, or has resumed the transport.

**RIB** (`RibProofs`, and `RibFollowProofs` for `FibFollows`), for any names, faces, origins and costs, any number of requests, with every
combination of flags, any order, delay and number of repetitions of commands, and faces that come
and go: `TreeAlwaysMatches`, `UpdatesNeverStuck`, `NextHopsKnown`, `RoutesExpire` and `FibFollows`.
Names are any sequences; the counter of routes with capture may wrap anywhere. There are four
invariants: `HopsInv` extends `ServiceInv`, and `LastInv` and `FollowInv` extend `HopsInv`. All are
predicates of the service record, shown to be kept by each member function and by each round of
`sendBatchFromQueue`.

* `ServiceInv`: an entry has at most one route for a face and an origin, the tree and the face map
  agree with the names (`RibOK`), and while a batch is in progress each update that it waits for
  has a command under way (`Covered`); the queue waits only then (`QueueSent`). The tree is not
  inductive from the parents alone: that eraseEntry gives the children to the parent, and that
  Insert finds all children of the new entry among those of its parent, needs that every
  pointer goes to the longest prefix. NeverStuck is `Covered` with no command left: a batch whose
  lists are empty has been applied or reported as failed.
* `HopsInv` adds, for behaviours without a late answer to a failed batch, a removal sent again as an
  addition or the removal of a live face: the commands under way are of one batch and for different
  updates; each next hop in the FIB is one that the RIB will know once that batch is applied, or
  there is an update that removes it; a next hop is only added that the RIB will know; and a
  removal of a face is only queued when the face is down (`HopsOK`). This rests on what
  `computeUpdates` computes for any RIB (`ComputedBalanced`): next hops are added only for own or
  inherited routes, an inherited route is taken away only with its next hop or under an own route,
  and with an entry go all next hops it has. It is shown for each of the four cases of the FIB
  updater, so the disagreements of section 3.1 leave next hops out or give too many, but never
  one that the RIB has forgotten.
* `LastInv` adds, for behaviours without a late answer to a failed batch, what holds of the line
  of updates (the batch under way and the queue behind it): a route with an event on a face that is
  not down, and each route that the line is to add, has its event pending or its removal further
  down the line (`WillEnd`). That cancelling the event of an overwritten or erased route cancels
  no other needs that events are unique and name their route (`EventsOnce`, `EventsFit`).
* `FollowInv` is for behaviours with no odd event. The RIB is then plain (no capture, and one route
  of an entry for a face), and an entry inherits exactly the faces for which a name above gives a
  route and it has none of its own (`InheritsExactly`). Between batches the FIB has, on the faces
  that are not gone, exactly the next hops that the RIB asks for (`Follows`). While a batch is under
  way (`FollowFor`) a next hop with no update pending is already right, an update that is pending
  brings what the RIB with the batch applied asks for, and until the updates for the face of the batch
  are done those for other faces have not begun, so that a batch that fails there leaves the RIB's
  next hops. It rests on `ComputedExact`: the incremental computation of updates is exact for
  every next hop at every depth of the tree. This is proved for a new entry, a new route, an
  updated and an erased one, from what the walk over the ancestors collects (`AncestorsAre`) and
  what the walk over the subtree reaches (`SubtreeCells`); `GivingMeans` shows that the result is
  what the property's own definition (`Wanted`) asks for.

**Prefix propagator** (`ComponentProofs`), for any names and identities that are sequences and any
number of changes, none of the identities for the empty name: `PropagationFollows`. The invariant (`Calm`, for behaviours where nothing was
lost) says that the entries are for exactly the prefixes that names need and keeps a `Ledger` of each
prefix. A prefix with an entry is with the hub, or its registration is not executed yet, or it
was revoked and the answer is still to come, which starts another one. A prefix with the hub has an
entry that is PROPAGATED, or a registration is under way or a revocation not executed yet. The
answer to a registration is what withdraws a prefix that was erased meanwhile. That
entries need no redoing under another prefix is because the shortest prefix chosen for a name is
the one chosen for itself (`ChosenOnce`).

Loops of the code are recursive functions on an interval; that such a function is the sequence of
its rounds, and keeps what each round keeps, is proved once by induction (`LoopRuns`,
`LoopKeeps` in `ListFacts`), likewise what `SeqWithout` leaves of a list and how the sums of
`Total` grow.

**Only model-checked**: the liveness properties (PitDrains, CapacitySettles, LifetimeReached,
NetPktsResolved, AcksReturned, CloseCompletes, OutcomeComes, HearsAgain, NamesReachHub), since fairness and
ENABLED are out of the prover's reach; LookupCorrect, whose loops run over a table sorted by
names.

## 5. What is not modelled

In the modelled components: forwarding hints, Exclude and the suffix component selectors;
counters and logging; the name tree (tables are functions); the addition of faces to the
forwarder while running (FaceIds are not used again, a new face is one that was silent so far);
sizes in octets, and with them how a packet is cut into fragments; in the RIB the
validation of commands, the configuration, the dataset and the prefixes of the management
itself (`registerTopPrefix`); in the propagator its
configuration and the durations of its waits; in the client face several names, signatures,
exceptions of the application's own callbacks and other commands than those for prefixes.

Left out as a whole: the ASF, access and NCC strategies, which choose by measured
round-trip times in real numbers and at random; name tree and strategy choice; readvertise;
datagram, Unix, Ethernet and WebSocket transports, channels and factories, mostly socket calls;
dispatching and authentication of management commands; the command line tools. Most of
ndn-cxx, and so most lines of the repository, is conversion (TLV encoding, names and URIs,
control parameters), cryptography and key storage, and general-purpose containers: no state
machine, and nothing for a model checker to find that a unit test would not. `PROJECT.json`
lists every part with its status.

## 6. Plan

1. *Proofs*: LookupCorrect.
2. *Models still worth adding*: name tree and strategy choice (nodes are kept as long as they
   are used; strategy information is of the strategy in force), readvertise, SegmentFetcher
   and InMemoryStorage of ndn-cxx.
