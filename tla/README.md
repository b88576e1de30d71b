# Verification of phantom-core

TLA+ models of phantom-core, the library that wraps a fork of sing-box
(`core/`) for a client application. The modules are translated from the Go
source. `PROJECT.json` maps every definition to the lines it models, and lists
the parts of the system, the hazards of the code at the lines where they bite,
the runs and the theorems.

## The system

| Part | Source | Module |
|---|---|---|
| Core lifecycle: `CoreState`, `Box`, `oldCommandServer`, package variables without a lock | `v2/`, `custom/`, `libbox/service.go`, `command_server.go` | CoreLifecycle |
| Box: parts taken through stages, closed after a failure; managers; one rule set | `core/box.go`, `adapter/*/manager.go`, `route/rule/rule_set_*.go` | Box |
| Outbound manager: start order along dependencies, default | `adapter/outbound/manager.go` | OutboundStart |
| Fake-IP pool: cursor and address maps without a lock of their own | `dns/transport/fakeip/` | FakeIPStore, FakeIPMemory |
| Cache file: pending pairs, background writes, restarts | `experimental/cachefile/` | FakeIPCacheFile |
| Outbound groups: selection, URL test, interrupt | `protocol/group/`, `common/interrupt/`, `common/urltest/` | Group, Selector, URLTest |
| Remote DNS transports: shared UDP connection, pooled TLS streams | `dns/transport/` | UDPTransport, StreamTransport, DNSTransports |
| DNS client: cache, one lock per question, nested look-ups | `dns/client.go` | DNSClient |
| DNS router: rules, address limits, reverse mapping | `dns/router.go`, `route/rule/` | DNSRouter |
| Connections: routed, hijacked or refused, dial, two copies, half-close, Close | `route/conn.go`, `route/route.go`, `route/dns.go`, `common/conntrack/` | ConnectionManager |
| Network: default interface, choice by strategy, pause, reset | `route/network.go`, `libbox/monitor.go`, `common/dialer/` | NetworkManager |

How the parts meet. The application calls Start, Stop and Restart (`v2/`). They
parse a configuration, build a Box and start its parts stage by stage: outbounds
and DNS transports along their dependencies, then inbounds, endpoints and
services. An inbound connection goes through the router to an outbound, perhaps
a group, and the connection manager copies it. A name is looked up by the DNS
router through the DNS client and a transport, whose own server may need a
look-up in turn; or the fake-IP pool answers and the route later maps the
address back to the name. The control APIs change the selection of a group
and reload or close the service. The cache file keeps selections, rejected
responses and fake addresses across restarts.

## Modules

A component `X.tla` has its instance for TLC in `MCX.tla`. Definitions keep the
names of the Go code. An operator named after a definition with a suffix
(`LintOutboundHasty`, `EndPassForever`) stands just before it: it is that
definition with a plausible mistake, and shows that a property would notice.

**CoreLifecycle.** `CoreState`, `Box` and `oldCommandServer` are the package
variables; `instance`, `server` and `service` the objects they refer to; `pc`,
`op`, `result` and `local` the threads. A call is cut at the calls that can
block or fail, because another thread can run there: Parse, StartCommandServer,
NewService, StartInstance, Publish, CloseBox, CloseServer, StopAndAlert. A panic
that `DeferPanicToError` recovers is the way to StopAndAlert. `scenario` says
what may happen in a behaviour: which calls fail, whether commands arrive,
whether calls overlap, whether the command server listens on a port.
`BoxService.Close` ends the process when it takes longer than `FatalStopTimeout`
(`libbox/service.go:122`); the next process begins in the initial state, so that
exit is left out.

**Box.** BoxStart, StartPart and StartFails are the four stages in the order of
`box.go`, Close and ClosePart what follows, in its own order. `seen` and
`closed` record for each unit the stages it was given and its closes. Update,
Fetched, DropUnused and UpdateEnds are the goroutine of a remote rule set.
CoreLifecycle takes the start and the close of an instance as single steps, Box
takes the start of the outbounds as one.

**OutboundStart.** Init ranges over every dependency graph of a configuration.
Start chooses the default and builds the list, StartOne is one turn of the inner
loop, EndPass the end of a pass, LintOutbound one call of the recursive
diagnosis.

**FakeIPStore, FakeIPMemory, FakeIPCacheFile, AddressBook.** Create takes no lock
of its own, so looking the domain up, reading the cursor, writing it and storing
the pair are steps (FakeIPStore has those of the pool). The storage is either the
memory's two maps or the cache file, where a pair is pending until a goroutine
has written it, a timer saves the cursor, and the process stops at any point and
starts again with the same or other ranges. `answered`, `before` and `shared`
record which clients hold which address, and which addresses two Creates have
carried at once (TakeAddress, Answers); `left` what a failed reset left in the
file. A goroutine that writes is one of `Writers`, so that several may write one
pair. AddressBook is the abstract storage that both implement: `book` is the
address of a domain, `owner` the domain an address was last given to. Giving an
address away takes it from its owner and from nobody else; the owner may by then
have a newer address, and both storages delete that entry (`memory.go:43`,
`fakeip.go:77`), which Take allows and says.

**Group, Selector, URLTest.** Group has the connections of an interrupt group.
In Selector, SelectOutbound is Swap, StoreSelected and Interrupt; a dial is
DialContext and NewConn; Restart ends the process at any point. In URLTest the
check loop, its ticker, the idle time, a test and the update of the choice are
steps of goroutines; `Select` is the scan over the outbounds, with delays of a
named width so that sums wrap as in 16 bits. Histories are kept by real tag.

**UDPTransport, StreamTransport, DNSTransports.** An exchange over UDP is Begin,
Reuse or Dial, Register, Write, Select or ContextDone, Return; DeleteCallback is
its deferred function; Allocate, Receive and ReadFailed are the receive loop.
`sent` is the set of queries on the network, from which Receive takes one without
removing it: answers are lost, late, repeated and reordered. A stream delivers
in order and may be cut; an exchange over TLS takes it from a pool and leaves it
there. DNSTransports runs both for the same goroutines.

**DNSClient.** Each goroutine has a stack of exchanges, since a transport's
dialer may look its server up on the same goroutine (Dial, Return). `cacheLock`
maps a question to the exchange whose channel is stored for it; Unlock and Signal
are the two deferred statements, in order. A request has the address filter of
the rule that asks, as the set of the answers it admits, whether the strategy
excludes the question, and how far it uses the caches: a Lookup with a client
subnet looks into the response cache first and then skips both ("look"). Expire
and ExpireRDRC stand for the passing of time. `Untimed` are the transports that
may read a stream without a deadline.

**DNSRouter.** A call matches rules from an index on (RouterCall, Consider,
UseDefault); the metadata record caches what a rule has found, and the two
families of a Lookup, on two goroutines, share it (CheckScans, CheckDecides). A
rejected response sends the call on to the next rule (ExchangeDone, LookupDone).
The reference is `Applies` and `Admits`, the meaning of a rule without the cache.
A rule limits addresses by its own CIDR items; limits that come from rule sets or
from the parts of a logical rule are left out. `UntimedServers` is what `Untimed`
is in DNSClient.

**ConnectionManager, NetworkManager.** A connection goes through Accept, Route,
Connect, Report and Track to two copying goroutines, or is refused (RouteFails,
also by the two deprecated calls) or answered by hijack-dns (Hijack, HijackEnds);
what RouteConnection's error leaves open is the caller's (CallerCloses). A copy
reads and writes in turn (Read, Write). A goroutine blocked in either goes on by
itself only when that very end is closed (Woken). The memory killer, the idle
timeout, CloseInbounds and Close strike at any step.

NetworkManager extends it for hosts with a platform interface, whose monitor is in
this repository: UpdateDefaultInterface, notifyInterfaceUpdate and the
reset are steps, and a dial takes one of the interfaces that its strategy and types
select at that moment (SelectInterface, with Primary and Fallback for
`selectInterfaces`), fails when there is none, or is left to the system
(DialUnbound). The list of interfaces is refreshed by several parts and may lag
behind, so that whoever reads it may find any set; the early returns of
notifyInterfaceUpdate, for a list without the interface or before PostStart, are
possible at every report. That the platform reports one change after the other is
assumed: `updateDefaultInterface` calls the callbacks outside its lock. Where there
is no platform interface, a library's monitor reports and `AutoDetectInterfaceFunc` binds sockets, to the interface
of a local address or to the default one; that variant is not modelled.

Modules meet at single steps: the start of an instance in CoreLifecycle is what
Box takes apart, the start of the outbounds there what OutboundStart takes apart,
a client's call in DNSRouter an exchange of DNSClient, and the transport's
exchange there one of DNSTransports.

## Runs

Two components that share no variables may share a run; then one of them moves
and the other rests. MCOutboundStart extends OutboundStart and Box in this way,
MCDNSRouter extends DNSClient and DNSRouter; a definition of the second one that
the first has too carries its component's name (`BoxInit`, `RouterCall`).

| Run | Properties | Distinct states | Bounds |
|---|---|---|---|
| core_calls | StatusIsHonest, StoppedMeansNothingRuns, NoOrphanedInstance, NoOrphanedListener, StartingResolves | 200564 | one application thread, one command goroutine, 3 instances, 3 servers, 8 scenarios |
| fakeip_exchanges | AnsweredResolves, ReuseOnlyWhenExhausted | 1728782 | 2 Creates at a time, 4 domains, 3 usable addresses; symmetric in domains and creators |
| fakeip_restarts | ImplementsBook, ResolvesBackOnceWritten, HandedOutResolves, AnswersInRange, CursorSurvivesCleanStop | 957904 | 2 Creates at a time, 2 domains, ranges of one or two addresses, 2 writers, 3 calls, 2 starts; symmetric |
| outbound_graphs | StartOutcome, DiagnosisIsTrue, Terminates; EachUnitOnce, AcceptsWhenServed, UsedSetKeepsRules of Box | 296928 | 3 configurations of up to three outbounds and endpoints, every graph; a box with two inbounds and one member of each other kind |
| selector_calls | CacheFollowsSelection, SelectInterrupts | 37413 | 2 handlers, 2 outbounds and one that is gone, 2 connections; symmetric |
| udp_exchanges | AnswersAreOwn, NothingStranded, FailsOnlyWhenFresh, ExchangesReturn | 143778 | 2 callers, 2 exchanges, 2 UDP connections, 2 streams, 3 ids |
| dns_exchanges | WaitsForHolder, FilterHolds; AnswersByFirstRule, FilterDecides of DNSRouter; CallsReturn | 223736 | 2 goroutines, 3 calls, 2 transports, one without deadlines, 2 questions, 2 filters, depth 2; lists of up to three rules out of 13 |
| network_connections | OnCloseOnce, NothingLeft, HalfCloseKeepsOther, CloseMissesOnlyUntracked, ConnectionsUseDefault, CutConnectionsEnd | 448812 | one connection, 2 interfaces, 5 options of dialers, 2 reports or resets |
| urltest_use | OneLoopPerTicker, SelectWithinTolerance, ChangeInterrupts, UsedIsTested, UnusedStops | 94422 | 2 outbounds, one of them nested, delays 1, 3, 7 in 3 bits, tolerance 1, 2 loops, one connection |
| core_reload | ReloadSucceeds, violated | | no faults |
| selector_inbound | InboundInterrupted, violated | | one handler, one connection |
| dns_loopback | ExchangeReturns, violated | | one goroutine, depth 3 |

Why the bounds are enough to meet the interesting cases:

- core: a value in use, one left behind, and one that an overlapping call
  allocates (`NamesLeft`). Names return when nothing refers to them, so the
  number of calls is not bounded.
- outbounds: three tags make chains, circles of each length, and a missing
  dependency besides.
- fake IP: one domain more than addresses, so the cursor wraps and addresses are
  taken over; Creates in memory are not bounded. With the file, two writes finish
  in either order, and the second start meets what a crash or another range left.
- selector: connection names are reused, so neither dials nor selections are
  bounded.
- transports: two exchanges that share a connection, or follow one another so
  that the second meets the first one's late answer or its pooled stream.
- DNS: a request made while another holds its question, a nested look-up, and a
  third call that finds what they stored under the filter of another rule; a rule
  that rejects, options between rules, and a rule after them that settles the call.
  That one exchange waits for a channel which was deleted but not yet closed while
  another has stored the next takes three goroutines: the theorem has them.
- connections: they meet only in lists and counters, so one is enough for TLC;
  the theorems are for every set. Two reports change the interface and change it
  back or take it away; the options have each strategy, with and without types.
- URL test: delays that are equal, that differ by more than the tolerance, and
  whose sum with it wraps; a second loop where a first one is about to stop.

What properties assume is written into them. Those of `core_calls` hold for calls
that do not overlap (`Sequential`) or without commands (`CallsOnly`);
StartingResolves holds in every scenario. Others name the paths on which the code
does not keep a promise, and say that there are no more of them: AnsweredResolves
the addresses that two Creates carried at once, AnswersInRange what a failed reset
left, OnCloseOnce the calls that are missing or doubled, NothingLeft the ends that
are left to the caller, CloseMissesOnlyUntracked the connections that escape
Close, ConnectionsUseDefault the sockets that escape a reset, FilterHolds the other
requests whose filter a cached response may have passed instead.

### Fairness

Only the steps of a goroutine that has been started are assumed to be taken
(weak fairness); Go's scheduler gives that. Calls, commands, lost or late
answers, expiry and crashes are never forced. The steps of an exchange over UDP,
of a dial and of a handshake include the end of the context, because
`Client.Exchange` sets a timeout before it calls a transport. A read of a stream
is not forced, because `ReadMessage` has no deadline and ignores the context;
ExchangesReturn asks nothing of it. In DNSClient and DNSRouter an exchange with a
transport that may read a stream (`Untimed`, `UntimedServers`) is not forced
either: Progress leaves it out, and ExchangeReturns and CallReturns except who is
held up by a silent server, or waits for the channel of one who is. The other
transports honour the timeout. In OutboundStart one goroutine runs and waits for
nobody. In NetworkManager a copy goes on once the end it is blocked on is closed;
peers are never forced to send or to read, and CutConnectionsEnd excepts a write
that stays blocked. In URLTest tests end by their timeout, time passes, and the
ticker is not paused.

Deadlock is checked except where a run ends by its bounds or the program may
stop: fakeip_restarts (calls and starts are counted), network_connections (reports
are counted, and after Close nothing happens), urltest_use (a closed group rests).

## Disagreements

- **core_reload** `v2/old_command_server.go:29`. ServiceReload calls
  StartService with an empty request, StartService parses the empty content,
  and the core stops. The `.proto` calls the content optional.
- **selector_inbound** `protocol/group/selector.go:163`. Inbound connections
  are handed on with the selected outbound in place of the selector and never
  reach the interrupt group, so `interrupt_exist_connections` does nothing for
  them. The documentation says that they are the ones it affects.
- **dns_loopback** `dns/client.go:147`. Exchange waits for its question's
  channel before it looks for a loop. A nested exchange for the same question on
  the same goroutine waits for itself, without the context, where the code means
  to report a loopback.

The model also reaches the following. They limit what the properties say and no
text of the repository contradicts them sharply enough to be a run:

- overlapping Start, Stop and reload lose a running instance (no lock);
- an endpoint tagged `direct` and no outbounds: the fallback takes the same tag
  and `startOutbounds` panics; hence `FallbackTagFree`;
- a circle through an endpoint is reported as a missing dependency;
- overlapping selections may be stored in the opposite order, and a dial that
  loaded the old outbound registers after the interrupt and stays;
- two Creates that read one cursor give one address to two domains, and the client
  of the first is routed to the domain of the second;
- two rules with different address filters on one transport, or on any two with the
  default shared DNS cache, get what the other's filter has passed, and a rule
  without a filter opens the key to all; hence `Shares` in FilterHolds;
- a larger EDNS size makes the other exchanges of the transport fail;
- after 65536 queries within one timeout an id is reused while its first
  exchange waits; hence `MaxCalls < IdSpace`;
- a delay so large that its sum with the tolerance wraps is chosen against the
  rule; SelectWithinTolerance leaves such sums out;
- a connection that is being set up while Close runs is missed by it;
- an error of hijackDNSPacket is handled twice, and onClose is called twice; when a
  deprecated call is refused, or the handshake of a packet connection cannot be
  reported, it is not called at all;
- a copy that is blocked in a write to a peer that does not read does not notice
  that its other end was closed.

## Proofs

TLC sees small instances. The theorems hold for every value of the constants that
satisfies the named assumptions of the modules, which only say that a constant
has its type, that `None` is not a value, that a range has a usable address, that
tags are unique where `option/options.go` has checked it, that the managers of a
box share no unit (`MembersAssumption`), and that no fake address is a
real one (`RouterAssumption`). A theorem that needs more states it.

**CoreLifecycleProofs.** Any number of threads, command goroutines, instances and
servers, any set of scenarios.

- `TypeCorrect`, also when calls overlap.
- `InstancesReachable`, `StoppedIsStopped`: NoOrphanedInstance and
  StoppedMeansNothingRuns. Neither is inductive: a step that sets Box to nil or to
  a new instance is safe only because the one it held has stopped. `RunInv` says
  where a running instance may be (`Accounted`): published under STARTED with no
  call beyond its first step, published with a call about to close it, or about
  to be published; and that one thread is busy at a time. The case that needs it
  is Start on a core that is not stopped, which goes on even when its Stop fails.
- `ListenersReachable`, `StatusHonest`: NoOrphanedListener and the action property
  StatusIsHonest, for calls without commands. `CallInv` adds for each label of a
  thread what the variables are there (`Position`), so that the last step of a
  call finds the status that its result reports.

**FakeIPProofs.** Any number of Creates, domains, families and addresses, over
the memory's maps:

- `MemoryTypeCorrect`: `PoolFacts` shows that Advance stays in the range for every
  argument, wrapped or not.
- `AnswersResolve`: AnsweredResolves. `AnswerInv` says that an address which is not
  shared is carried by one Create at most, that what this one will take from others
  (`before`) is all that is answered with the address, and that the domain the map has
  for an address is the one that was answered last. It rests on the agreement of the
  two maps (ReverseConsistent, `MapsAgree`): storing removes the entry of the
  address's old domain first.
- `MemoryImplementsBook`: refinement of AddressBook, each store a Take whose `lost`
  is at most the owner; that nobody else has the address is `MapsAgree` again.
- `ReuseWhenExhausted`: the action property ReuseOnlyWhenExhausted, for ranges of
  every length. `OrderInv` says that, as long as no two Creates have overlapped,
  either every address is in use, or exactly those after the first and up to the
  cursor are (`Handed`; `Due` while the one at the cursor is still to be stored).
  The cursor starts on the first address, which is therefore handed out last.

and over the cache file, with any number of writes and restarts:

- `WrittenResolvesBack`, `FileImplementsBook`: the file's two directions agree
  (`FileConsistent`) and every pending pair has a goroutine that will write it
  (`PendingHasWriter`). A transaction is a Take, a reset a Forget, all else
  stutters: crashes included.
- `HandedResolve`: an address handed out resolves to its domain unless a write of
  it failed or it was handed out again with its write in flight. `HandedInv` follows its only write from pending
  to the file; `DownIsClean` says that nothing but the file survives a stop.
- `AnswersStayInRange`: `RangeInv` ties every pending, stored and saved value to
  the present ranges or to what the last reset left.
- `CursorSurvives`: an action property; `CursorInv` says that a cursor which counts
  as saved is the one in the file.

**OutboundStartProofs.** For the outbounds, any configuration, size and graph;
these theorems assume `FallbackTagFree`.

- `StartDecidesOrder`: StartOutcome. A set of tags is stuck when each of its
  members needs another member or a tag that is not listed; the graph has an order
  exactly when only the empty set is stuck. `StartInv` says that a stuck set is
  never entered (`NeverEntered`), that a pass which has started nothing has met
  nothing that was ready (`NoneReady`), and that tags are unique, which the code
  needs because it compares a number of tags with the length of a list. When a
  pass starts nothing, what is left is itself stuck.
- `LintIsRight`: DiagnosisIsTrue. `Walk` follows the diagnosis: whatever it has
  left depends on something it has visited. When it comes back to a visited tag,
  the tree it reports is a circle.
- `LintFindsDependency`: wherever the diagnosis stands, there is a dependency that
  is not started, because it visits only tags that are not (`OpenWalk`).
- `StartAdvances`: the safety part of Terminates. `Advances` is a lexicographic
  measure of what is left: tags to be started, then `canContinue`, then the rest
  of the list; in the diagnosis, outbounds to be visited. Every step lowers it.

For the box, any lists of units in the five managers.

- `BoxStartsAndClosesOnce`, `InboundsAreServed`: EachUnitOnce and
  AcceptsWhenServed. `BoxInv` says which stages a unit has been through, by the
  place of its part in the table of the stage (`Past`, with the endpoints' second
  stage given to them by the outbound manager: `Starter`), that a unit is closed
  exactly if closing is past its part (`Over`), and that a manager with a unit that
  has been started counts as started, without which its Close would do nothing.
  `Served` follows from two facts about the tables, that what serves the inbounds
  comes before them at the Start stage and is closed after them.
- `UsedRulesStay`: UsedSetKeepsRules. `SetInv` says that while the box starts the
  references are those of the users that are past their stage (`Taken`), and that
  nothing may drop the rules before the router is past PostStart, when all
  users of the rule set have been started.

**GroupProofs.** Any number of outbounds, handlers, connections and loops.

- `ChoosesWithinTolerance`: SelectWithinTolerance, for every list, delays and
  tolerance. Select is a scan; `Least` and `Induction` give induction over the
  positions of the list as a fact about sets of numbers, and the scan's
  invariant is carried along it.
- `OneLoop`: OneLoopPerTicker. `LoopInv` says that all live loops are one, that a
  live loop has a ticker, and that a running ticker has a loop unless a dial
  made it after Close.
- `ChecksInterrupt`: the action property ChangeInterrupts, from what a check owes
  (`OwedInv`).
- `SelectorTyped`, `CacheFollows`, `SelectionInterrupts`: the selection is an
  outbound of the group; CacheFollowsSelection (`CacheInv`: the stored entry lags
  behind only while the one handler that selects is on its way to store it); the
  action property SelectInterrupts (`OwedToSelect`: what a handler still has to
  close is closed already or on the interrupt group's list).

**DNSTransportsProofs.** Any number of callers, exchanges, connections and streams.

- `ResourcesReleased`: NothingStranded. For UDP the steps fall into seven kinds by
  what they do to callbacks and connections (Quiet, Begun, Opened, Failed, Stored,
  Deleted, Answered), and the invariant `UDPInv` is proved once per kind. For
  streams, `StreamInv` says that an open stream is in the pool or held by one
  exchange (`Exclusive`, `Kept`) and that a pooled one has no query unanswered
  (`PoolReady`).
- `OwnAnswers`: AnswersAreOwn, assuming `MaxCalls < IdSpace`. A callback is found by
  its id alone, so the proof is that ids are not reused (`IdsLast`: the number of
  ids given out plus the exchanges still opening is at most the calls made). For
  streams, where nobody compares ids, it is `Contents`: what a stream can still
  deliver belongs to the exchange that holds it.
- `FailsFreshOnly`: the action property FailsOnlyWhenFresh.

**DNSClientProofs.** Any number of goroutines, questions, transports, nesting.

- `NoVainWait`: WaitsForHolder. `LockInv` says that a question's channel belongs to
  an exchange on some stack that has not closed it (`HoldersLock`), that every
  enclosing frame of a stack is at its dial (`FramesInOrder`), and whom a waiting
  frame waits for (`Waiting`). Steps are proved by their effect on a stack: it
  grows, shrinks, or its top moves (`Reshaped`, `Carried`).
- `FilterPassed`: FilterHolds, for both kinds of cache. `FilterInv` says that what is
  in the cache has passed the filter of a request that stores under its key
  (`CachePassed`), and that the result of every frame has passed its own or one it
  shares the key with (`FramesPassed`).
- `NobodyWaitsInCircle`: no goroutines wait for each other's channels
  (`NoCircularWait`), assuming `Layered`: no look-up is needed for itself, directly
  or over others. `Nested` says that the frame above another asks what its transport
  needs. An exchange that others wait for is not the innermost one of a goroutine
  that waits, so in a circle every question would need another one of the circle.
  The configuration of `dns_exchanges` is Layered; that of `dns_loopback` is not, and
  the run shows the wait.

**DNSRouterProofs.** Any list of rules, any query, servers, answers and
interleaving of the two families. The inductive invariant is `RouterInv`.

- `RouterAnswersByFirstRule`: AnswersByFirstRule. `LoopInv` says where the loop
  over the rules stands: the rules before it that the query cannot pass have
  rejected an answer (`Passed`), and the options are those since the last rejection
  (`OptionsTo`). `FreshVerdict` is the step from the code's cached match to the
  meaning of a rule: after ResetRuleCache, Match decides as `Applies` does.
  `ReplyInv` follows the error that Lookup keeps.
- `RouterFilterDecides`: FilterDecides. `CheckInv` says what the shared record tells
  about the answers there are: an address that was found belongs to one of them,
  and a check that has looked and found none had an answer without one
  (`AskInv`, `FoundInv`). With one family the answer is the check's own.
- `RouterRejectsOnce`: an action property, the safety part of CallsReturn for the
  router: a rule rejects at most once in a call, so going back to the rules ends.

**ConnectionProofs.** Any set of connections and interfaces, any number of reports.

- `Invariance`: the inductive invariant is the type invariant, `Good(c)` for each
  connection and `InterfaceInv`. Good relates the stage, the places of the two
  goroutines, the ends that are open, the list and the calls of onClose, with
  `Dropped` for connections that ended before they had goroutines. A step moves one
  connection; `Apart` shows that the others keep theirs, also when their remote end
  is closed from outside. `InterfaceInv` says of a socket that is open or being
  connected what ConnectionsUseDefault says of an open one, because a socket is bound
  before it is connected; `Steady` is all it needs to know of the other steps.
- `TypeCorrect`, `OnCloseIsCalledOnce`, `NothingIsLeft`, `HalfCloseIsKept`,
  `CloseIsComplete`, `SocketsFollowInterface` follow, and `PauseFollowsInterface`:
  PauseMatchesInterface, which no run checks.

Hypotheses that are not mere typing: `FallbackTagFree` (a configuration without
outbounds has no endpoint with the fallback's tag); `MaxCalls < IdSpace` (fewer
queries than ids; 65536 in the code, and only those within one timeout matter);
`Layered` (no server's name is looked up
with that server, which the code does not check before it waits).

Only model-checked is liveness: StartingResolves, Terminates, ExchangesReturn,
CallsReturn, CutConnectionsEnd, UsedIsTested and UnusedStops. Fairness and ENABLED
are out of the prover's reach; for Terminates and for the router's part of
CallsReturn the theorems above give the measure that a step lowers, and for the
client's part NobodyWaitsInCircle that somebody can go on. Every
invariant and action property that a passing run checks is also a theorem.

## Not modelled

`PROJECT.json` gives the reason for each part. In short: protocols, stream
transports of the protocols, TLS and sniffing are adapters to libraries or parsers
without state; the control APIs are handlers over the state of other parts; the
command line and the bindings call the operations that are modelled. Within the
modelled parts, messages are reduced to what the properties tell apart, times to
live to expiry at any moment, and log output is left out. Every named bound
(`MaxCalls`, `MaxDepth`, `Writers`, `MaxStarts`, `MaxUpdates`, `NamesLeft`) is a
guard.
