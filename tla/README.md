# Last-Resort Gateway: TLA+ models, checks and proofs

Last-Resort Gateway (`lrg`) is a daemon that watches the routing tables of a
Linux kernel and keeps, for each *last-resort gateway* of its configuration, a
copy of the best of a set of source routes. When the source routes go away the
copy stays, so that the host keeps a way out.

The modules here model the program from its Go source (the paths below are
relative to the repository's `src/`). TLC checks small instances of them, and
TLAPS proves what they hold for every value of the constants: the invariants of
the handler for every configuration, what a gateway asks for from the document
it is configured with, the slice of candidates, the netlink state machine and the
stream that it implements for every table and every size of its channels, the
whole program with one gateway, and the life of the process for any number of
gateways and exporters.

- [1. The system](#1-the-system): components, state, operations, what is hard
- [2. The modules](#2-the-modules) and how they correspond to the code
- [3. The runs](#3-the-runs): what is checked, and the bounds
- [4. Fairness](#4-fairness)
- [5. What is proved](#5-what-is-proved)
- [6. Where the code and what is said of it differ](#6-where-the-code-and-what-is-said-of-it-differ)
- [7. Abstractions and what is not modelled](#7-abstractions-and-what-is-not-modelled)
- [8. Plan](#8-plan)

## 1. The system

### Components, their state and their operations

| component | source | state | operations |
|---|---|---|---|
| gateway handler | `gateways/gateway.go` | channel of notifications (100), current route, candidate routes, installation ticker, exported state `gw<index>.state` | `runGateway` (a goroutine per gateway), `processNotification`, `installCandidateRoute`, the tick case |
| candidate selection | `gateways/gateway.go`, `gateways/config.go` | the slice of candidates | `add`/`removeCandidateRoute`, `bestCandidateRoute`, `targetRoute`, the two `Match` |
| gateways component | `gateways/root.go` | the gateways, a tomb | `Start` (callback, one goroutine per gateway), `Stop` |
| netlink component | `netlink/*.go` | state of the machine, channels `updates` and `liveUpdates`, retry ticker, cure timer, observer, a tomb | `run`, `transition`, `injectRoutes`, `Subscribe`/`notify`, `AddRoute`, `Stop` |
| daemon | `daemon/*.go`, `cmd/daemon.go` | `terminateChannel`, the components started | signals, `Terminate`, the start and the stop of everything |
| configuration | `config/*.go`, `gateways/config.go` | none: values decoded once | YAML decoding, defaults, names of tables and protocols |
| reporter | `reporter/**` | metrics registry, exporters (file, collectd, expvar) with their wait group, loggers, the queue of the Sentry client | logs, counters, periodic exports, errors captured, `Start`, `Stop` |
| command line | `cmd/*.go`, `main.go` | the arguments | reading and decoding the file, making the components, `--check` |

### How they interact

```
  signals -> daemon ----Terminated----> main goroutine: starts reporter, daemon,
                                        netlink, gateways; stops them in reverse

  kernel ==events==> reader goroutine --liveUpdates--> run() --callback--> channel of gw 1 --> handler 1
   ^  ^              injectRoutes ------updates------>   |  \------------> channel of gw 2 --> handler 2
   |  '--listings--- (IPv4, then IPv6)                   '- StartOfRIB, updates, EndOfRIB          |
   '------------------------------- AddRoute (RouteReplace) --------------------------------------'
```

The loop is closed: what a handler writes comes back to it as a notification,
later, interleaved with the changes made by the rest of the system.

### What is hard

- **Echoes.** The handler sets its current route before the route is installed,
  and an echo of an *earlier* write overrides it when it arrives.
- **Dump and live updates.** The subscription is opened before the listing, so
  the two overlap; the live updates wait in a channel until the dump is sent.
- **Loss.** The kernel drops events when the socket's buffer is full; the
  subscription ends, and the whole dump must be done again while the handlers go
  on with what they know.
- **Retry.** Installations are retried for ever while notifications replace the
  route to install; transitions are retried from a ticker or a timer.
- **Goroutines.** `c.updates` is written by `run()` and read by the goroutine of
  `injectRoutes` without a lock; the callback runs in the netlink goroutine while
  another goroutine stops the gateways.
- **Restart.** A new process has only the kernel's tables.
- **Two decodings.** A gateway's document is decoded twice, the second time over
  defaults copied from the first; families, names and ranges are checked in
  between and afterwards.
- **Reports.** Errors logged by any goroutine go to the Sentry client's queue,
  which `Stop()` of the reporter waits for and closes.

Every such place is listed with its line under `hazards` in `PROJECT.json`, with
the properties that watch it or the reason why none does.

### What makes each component correct

| component | properties |
|---|---|
| candidate selection | one route per slot; the best one does not depend on arrival order; the slice is "the last announcement of each slot" |
| gateway handler | the current route is the target of the best candidate; the gateway never feeds itself; an armed attempt has a route to install and lasts until it succeeds; the last route is kept |
| netlink component | what a subscriber replays is the kernel's table; nothing is lost between dump and live updates; it recovers from any loss; it never gets stuck; it stops |
| configuration | what a gateway asks for is what its document says, whatever is left out; no next hop of a family under a prefix of the other |
| whole program | once nothing changes any more, the best source route is installed, and the program gets there; no source route is missed; a write stays in the slot of its gateway; the gateway is never absent while it is replaced; what is exported is true of the kernel |
| start and stop | each gateway has its handler and its configuration; components stop after their users; a signal ends the process; a valid file is accepted |
| reporter | exporters and Sentry are closed once and not used afterwards, also when an exporter fails to start; a process that leaves has closed what they opened and sent what was captured |

## 2. The modules

| module | models | lines it stands for |
|---|---|---|
| `Routes` | routes, configurations, `Match`, `Slot`, choice of the best candidate, target route, over *sets* of candidates | `gateways/gateway.go:198-321`, `gateways/config.go` |
| `CandidateList` | the same functions over the *slice* of the code, and what each notification does to it | `gateways/gateway.go:198-294` |
| `CandidateSlots` | abstract: the last route announced in each slot | - |
| `Gateway` | one handler under any sequence of notifications | `gateways/gateway.go:24-281` |
| `Configuration` | how the document of a gateway is decoded: values, names, defaults, checks | `gateways/config.go:41-110`, `config/rt_files.go`, `config/network.go` |
| `ConfiguredGateway` | one gateway from its document to the routes it asks for: `Configuration`, `Gateway` and `CandidateList` composed | `gateways/root.go:39-45` |
| `RibStream` | abstract: the notifications that netlink promises, with the kernel behind | `netlink/root.go`, coarse |
| `Netlink` | the state machine with its goroutines, channels, timers, the socket and the library's reader | `netlink/*.go` |
| `LastResort` | the program: `Gateway` and `RibStream` composed through the kernel, with restarts | everything, one gateway |
| `Metrics` | the exporters and the calls of `Start()` and `Stop()` | `reporter/metrics/*.go` |
| `Daemon` | the command from its arguments to its exit: decoding, making the components, start, stop, signals, tombs, callback, spawning of handlers, Sentry; composed with `Metrics` | `cmd/daemon.go`, `daemon/root.go`, `gateways/root.go`, `reporter/*.go` |
| `RoutesLemmas` | lemmas about routes, slots and the best candidate | - |
| `GatewayProofs`, `ConfiguredProofs`, `NetlinkProofs`, `DaemonProofs` | theorems about the modules of these names; those of the slice are in `ConfiguredProofs` | - |
| `RibStreamProofs` | what the stream of notifications promises, proved | - |
| `NetlinkRefinement` | `Netlink` implements `RibStream`, proved, and what follows | - |
| `LastResortProofs` | theorems about the whole program | - |
| `MC*` | instances for TLC | - |

Four refinements tie the levels together. The slice of `CandidateList`
implements `CandidateSlots`; and as `ConfiguredGateway` runs it next to the set
that `Gateway` has for it, `SliceIsSet` says that the other modules may use sets.
`Netlink` implements `RibStream`, so that `LastResort` may use the coarse stream.
They are the properties `ImplementsCandidateSlots` and `ImplementsRibStream`. A
`ConfiguredGateway` is a `Gateway` (`ConfiguredIsGateway`), and so is the handler of
`LastResort` between two restarts (`HandlerRefinesGateway`). All four are proved,
and the first two checked by TLC as well.

### State and actions, against the code

**Gateway.** The variables are the fields of `gatewayState` under their names.
`installationTick` is TRUE when the Go channel is not nil. `pc` and `dying` are
the goroutine and the tomb. The actions are the cases of the select:
`processNotification` (the whole call, with the installation decision that ends
it), `InstallSucceeds`/`InstallFails`/`InstallPanics` (the tick case by its
outcome), `Stopped`; plus what others do to the handler: `pushNotification`,
`Kill`. `config` is chosen at the start and never written, so that one run covers
several configurations. The channel blocks: `pushNotification` is not enabled
when it is full.

**Configuration.** Operators only. A document has two blocks; a block is a record
of the keys that are there. `raw` and `UnmarshalYAML` are the two decodings,
`into` what the YAML library does to the fields of a structure: those without a
key stay. A table or a protocol is given as a number or as a name, looked up in
the lines of the files of iproute2; the first line of a name decides, and an id
above 255 is an error. Text is abstract: `BadPrefix` stands for what is not a
prefix. `ipPlaceholder` is the value of the code for a prefix that is missing.

**ConfiguredGateway.** `documents` is the section "gateways" of the file, one of
the lists that `Configuration.UnmarshalYAML` accepts, `index` the gateway's
place in it. Each step is one of `Gateway`, and a step that processes a
notification does to the slice what `sliceFollows` says. `FollowsDocument` reads
the document again, in the words of the documentation and without the decoder.

**RibStream.** `rib` is the kernel's table with one route per slot (prefix,
table, ToS, priority), as `RouteReplace` treats IPv4 routes. `live` holds what
the subscription has received and not sent yet, `dump` what is left of the last
listing, `sync` the phase. `view` is a history variable: what a subscriber that
replays everything sent so far holds. A loss cuts `live` after any prefix. A
listing is atomic per family, in an order left open.

**Netlink.** `pc` says where `run()` is: in its `select`, in `transition()`, in
one of the three calls of the subscriber's callback, or done. `caller` is the
case that called `transition()`, because the code after the call differs.
`updates` names the channel that `c.updates` points to. The channels are bounded
queues with a closed flag. `sock`, `overflowed`, `reading`, `held` are the socket
and the goroutine of the netlink library, external: a full buffer makes the next
read fail, and a failed read closes the channel whatever the buffer holds.
An abandoned subscription is forgotten (see section 7).

**LastResort.** Joint actions: `Notify` is a send of the stream and a
`pushNotification` of the handler; `Install` is a success of the tick case and a
write of the kernel; `Restart` resets both and keeps the kernel's table.
`lastBest` is a history variable.

**Daemon.** The main goroutine, the goroutine of `daemon.Start`, the netlink
goroutine reduced to its callback, the goroutine that spawns the handlers, and
the handlers reduced to taking notifications. `SharedLoopVariables` says how the
Go toolchain treats the variables of a loop. `main` starts with `Configure` and
`MakeComponents`, which may leave (an error, or `--check`); `failure` says what
the error returned is about. `DecodesEmptyFirst` is TRUE for the code as it is:
lines 79-81 of `cmd/daemon.go` decode an empty document, which the decoder
refuses, and nothing ever starts (run `never_starts`). The other runs have it
FALSE: they show the rest of the life of the process as if these lines were not
there. The reporter is the one component whose `Start()` may fail; it is not in
`started` then. `sentry` and `reports` are the Sentry client and its queue:
`capture` is an error logged by a goroutine, which panics on a closed client and
is dropped by a full queue.

**Metrics.** Each exporter is the goroutine that serves it; `wg` and `done` are
the wait group and the channel of the Go structure, `metrics` says where the main
goroutine is in `Start()` or `Stop()`. Closing `done` twice leads to "panicked".
An expvar exporter stops even when a request does not end, the two others finish
their tick first.

## 3. The runs

Runs that must pass:

| run | cfg | states | what it shows |
|---|---|---|---|
| `gateway` | `MCGateway.cfg` | 87 thousand | from the document to the routes: what the handler asks for is what its document says; its candidates (slice and set), current route and ticker are consistent under *any* notifications; the slice implements `CandidateSlots` |
| `netlink` | `MCNetlink.cfg` | 929 thousand | the state machine implements `RibStream`, does not share `c.updates` with its goroutine, is never stuck, gets in sync again and stops when told to |
| `last_resort` | `MCLastResort.cfg` | 1.22 million | the program next to its source routes, of two ToS, with and without a blackhole, while others add and remove the sources, the gateway, and a route of another protocol in the slot of a source: it converges to the best candidate; on the way no source route is missed, and each write is the copy of the best candidate and takes away at most what was in the gateway's slot |
| `last_resort_faults` | `MCLastResortFaults.cfg` | 528 thousand | the same with a lost subscription, a failed listing, refused installations and a restart, while nobody else touches the gateway; at each step what the program exports is true of the kernel |
| `daemon` | `MCDaemon.cfg` | 330 thousand | a file that is good or bad, `--check` or not, three gateways, two exporters, Sentry or not, SIGHUP and SIGTERM: components stop after their users, exporters and Sentry are closed once, not used afterwards, and leave nothing open or unsent; SIGTERM ends the process unless a callback is blocked or Sentry does not answer |

Runs that TLC refutes, one property each (section 6): `panic`, `overflow`,
`blackhole_on_start`, `last_known`, `shared_loop_variables`, `blocked_stop`,
`never_starts`.

Deadlock is not checked where the system may really stop: a handler that
panicked or stopped, a component told to stop, a process that exited; and, in
`LastResort`, a program that has nothing left to do once the bounded changes of
the kernel are used up. Every run has one of these.

### Bounds, and why they are enough

- **Documents.** Five that are accepted: the first example of the documentation
  with and without a blackhole, one where both halves say everything (names,
  numbers, another prefix and table), one that shares its table by a name, and an
  IPv6 one, second in its list. Six are refused, each for a reason of its own:
  mixed families, no "from" prefix, an id out of range, an unknown name, a metric
  too big, a bad prefix; and the empty list. The files of names hold a name twice,
  a line without a name and an id out of range. `MaxMetric` is 9 (2^32 - 1 in the
  code): it is only compared and used as the default.
- **Routes.** `ConfiguredGateway`: two sources that contest a slot, one of a worse
  ToS with a better priority and one of a worse priority, two routes of the
  default "to" slot and those of the other documents, in every order of
  announcements and withdrawals: replacing, equal routes and both keys of the
  order all happen. In the widest document "from" has no protocol, so it matches
  the "to" slot too. `LastResort`: two sources, which differ by their ToS in
  `last_resort` (so that copies of both may be in the kernel) and by their
  priority in `last_resort_faults`, and the gateway in the same table or in its
  own; what more sources would do is covered by the proofs of section 5. In
  `last_resort`, `Rival` adds a route of another protocol in the slot of the best
  source: the gateway without a blackhole takes any protocol and has it for a
  source, the one with a blackhole has to ignore it.
- **Queues.** `QueueSize` 1 or 2 (100 in the code): the properties of `Gateway`
  are proved for every size. In `LastResort` a bound of 1 makes the callback
  block as often as possible; the rest waits in `live`, which is not bounded but
  by the number of changes.
- **Changes.** `MaxChanges` is 2 or 3. Three changes are what it takes to have a
  write, a change that makes it obsolete and a removal all in flight; with each
  change the program adds writes of its own, which are not bounded. Two are
  enough with losses and restarts (`last_resort_faults`), which bring notifications
  of their own, and for most of the traces of section 6.
- **Losses and failures.** One lost subscription, one failed listing, one
  failed subscription (`MaxErrors`), one restart: each may come at any point, a
  loss also during a dump, a restart also between a write and its echo. Refused
  installations are not bounded.
- **Netlink.** Channels and socket of size 1, so that every send may block and
  the socket overflows at once; both families in the table; a contested slot, so
  that the order of the live updates matters; a route that stays, so that the
  dump of a family may be longer than its channel.
- **Daemon.** Three gateways, so that there is one before and one after the one
  that blocks; channels of 2; each signal once. One exporter with a ticker and
  one with a server: the second may fail when the first is running, also in the
  middle of an export. The queue of Sentry holds one error (`MaxReports`): it is
  full at once, and not empty when the reporter stops.

### Mutants

Next to a definition of the code, an operator marked `Mutant` gives a plausible
bug of it (a dropped branch, a lost guard, a wrong order). For each property of
each passing run one mutant is named in `PROJECT.json`, under which the run
finds that property violated.

## 4. Fairness

- `LastResort!FairSpec`: weak fairness of the netlink goroutine, the callback,
  the handler's notifications and its tick. The Go select chooses at random
  among ready cases, so a case that stays ready is served in the end. Weak
  fairness of `Install` says that the kernel does not refuse for ever a route
  that the handler keeps trying; the retries themselves need no such assumption.
  Nothing is assumed of the kernel's changes, of losses, failures or restarts.
- `Netlink!FairSpec`: weak fairness of `run()`, of its goroutines and of the
  reader's failure after an overflow; the ticker ticks; the callback returns; a
  subscriber comes. Failures are bounded, so retries end up succeeding.
- `Daemon!FairSpec`: every goroutine goes on when it can. No fairness of
  `Notify` (nothing says that the kernel changes), of signals, nor of
  `SentrySends` (nothing says that the server answers): `SignalEnds` excepts a
  reporter that waits for it for ever (`Unanswered`) as it does a callback blocked
  on a channel that nobody reads (`Blocked`). Strong fairness
  of an exporter's `Close`: its `done` channel is ready in the select each time
  the goroutine comes back from an export.

## 5. What is proved

`GatewayProofs` proves, for every set of configurations, every set of routes and
every channel size, of the specification `Gateway!Spec` (any sequence of
notifications):

| theorem | property | |
|---|---|---|
| `TypeCorrect` | `TypeOK` | types, and the bound of the channel |
| `TracksBest` | `CurrentTracksBest` | with a candidate known, the current route is the target of the best one |
| `OwnSlotOnly` | `CurrentInToSlot` | only the "to" slot is ever written |
| `SourcesOnly` | `CandidatesAreSources` | the candidates are sources, one per slot, and never the gateway's own route |
| `BlackholeIsSafe` | `BlackholeNeverMissing` | with a blackhole there is always a route to install |
| `KeepsLastRoute` | `LastRouteKept` | losing the last candidate changes neither the current route nor the ticker |
| `ArmsWantedRoute` | `WantedRouteIsArmed` | a wanted route is armed, and stays so until it is installed |

**Assumptions.** `NilValues` (nil is not a route, the wildcard neither a protocol
nor a metric), `ConfigType`, `QueueSizeType`, `UpdateType`: all of them are types
of constants. Priorities and ToS are any natural numbers and sets may be
infinite.

**Argument.** The conjunction `Inv` of the five state properties is inductive, but
its parts are not on their own: `BlackholeNeverMissing` needs
what `targetRoute` returns, which needs that candidates are routes, and
`CurrentTracksBest` is kept by a removal only because the candidates hold what
they should. Every update ends in `installCandidateRoute`, so the proof turns on
lemma `InstallCandidateRoute`: from any *suitable* candidates and current route
(`Suitable`), whether or not they are those of the state, it re-establishes the
part of the invariant that concerns the handler's own state (`LocalInv`). Each
kind of notification then only has to show that it passes suitable arguments
(`HandleKeepsLocalInv`); `NextInv` adds the channel and the goroutine. The two
action properties follow from the actions alone.

`RoutesLemmas` holds what these need of the operators: a non-empty set of
candidates has a best one (`BestExists`, from the least element of a set of
naturals, `LeastNat`), which is a candidate (`BestIsCandidate`); the target is in
the "to" slot, and exists when there is a candidate or a blackhole
(`TargetInToSlot`); adding a candidate keeps one route per slot (`AddKeepsSlots`).

`ConfiguredProofs` proves, for every document, every content of the files of
names and every sequence of notifications, of `ConfiguredSpec`:

| theorem | property | |
|---|---|---|
| `ConfiguredIsGateway` | - | a gateway configured from a file is a `Gateway`: the theorems above hold of it |
| `AsksWhatIsWritten` | `FollowsDocument` | the current route is in the slot that the document describes, the candidates are routes that it describes |
| `KeepsFamily` | `FamilyKept` | no route is asked for with a next hop of the other family than its prefix |
| `SliceStandsForSet` | `SliceIsSet` | the code's slice holds the routes of the set that the other modules use |
| `SlotsAreKept` | `OneRoutePerSlot` | the slice never holds two routes of a slot |
| `BestIsOfTheSet` | `BestIgnoresArrivalOrder` | the scan of the slice finds the one best route of the set |
| `SliceImplementsSlots` | `ImplementsCandidateSlots` | the slice implements the last announcement of each slot |

**Assumptions.** Those of `Gateway` and of `Configuration` (types, and error values
that are not values), `DocumentsType` (the shape of a document, good or bad), and
`KernelFamilies`: the kernel has no route whose next hop is of another family
than its destination, other than blackholes.

**Argument.** The decoder fixes the configuration, once: `FieldsDecoded` says what
each field is after both decodings, by whether its key is there in either half
(which is where an error in the order of decodings and copies would show);
`NamesDecoded` says of a table and a protocol that they are what the document
*means* (`NameFound`, `IdentifierMeans`). `MatchesAsWritten` turns `Match` of both
halves into the document's words. `Decodes` is kept because `config` is never
written, and `FollowsDocument` follows from it with the invariant of
`GatewayProofs`. `KeepsFamily` needs an induction of its own, `OfFamily`: the
current route and the candidates have the family of the document's prefixes,
which `compatible` makes the same (`FamiliesAgree`).

The slice needs `SliceInv`: it lists the set of candidates, without a duplicate
and one per slot. Its parts lean on each other: that the early return of
`addCandidateRoute` drops nothing takes that no two routes share a slot, and that
the slice is the set takes that what a removal drops was listed once. The loops
are recursive functions on the length read so far (`listWithout`, `listBest`).
What such a function computes at each length is proved without an induction
rule: the set of lengths where the claim fails, if it is not empty, has a least
element (`LeastNat`), which is not 0, and the length before it contradicts it. The
same device serves for the replay of the stream below.

`NetlinkProofs` proves, for all tables, all sizes of the channels and of the
socket, and any number of changes, breaks and failures, of `Netlink!Spec`:

| theorem | property | |
|---|---|---|
| `TypeCorrect` | `TypeOK` | types, the capacity of the socket and of both channels |
| `InjectorIsAlone` | `InjectorOwnsUpdates` | `c.updates` is not replaced while the goroutine of `injectRoutes` is there |
| `NeverStuck` | `SomethingWillComeNext` | what the machine waits for is there |

**Assumptions.** `SizeType`, `RibType`, `FamilyType`, `BoundType`: types of
constants.

**Argument.** Neither property is inductive: that a goroutine is alone depends on
no ticker being armed when a dump starts, which depends on who called
`transition()`. `NotYetSubscribed` says that until its first success only the
subscriber leads the machine; `CalledBy` gives, for each caller of a transition,
the state of the ticker and of `c.updates`; `ReadsFrom` what the channel being
read says of the phase; `Awaits` what will end the phase. The steps of the
kernel, the reader, the injection and `Stop` are one lemma (`OthersKeepControl`),
since none of them touches what `run()` owns; each step of `run()` has its own.

`RibStreamProofs` proves, of `RibStream!Spec`:

| theorem | property | |
|---|---|---|
| `StreamInvariant` | - | the inductive invariant of the stream |
| `StreamLosesNothing` | `NothingIsLost` | while the subscription lasts, replaying what is left to send gives the kernel's routes |
| `StreamIsFaithful` | `ViewIsRib` | a subscriber that was sent everything holds the kernel's routes |

**Hypothesis.** `Tables`: types, and a kernel that has one route per slot at the
start (it has one later, which is part of the invariant).

**Argument.** `NothingIsLost` says nothing of a dump, during which the subscriber
holds neither the tables of one time nor those of another. `StreamInv` says what it
does hold. The events of `live` have a *history* (`IsHistory`): the tables before
and after each of them, ending with the kernel's. `Explained` says that each half
of the dump, sent or still to send, is the tables of its family *at some point of
that history* (`DumpIsPast`). When the dump ends, the live updates are replayed
over such a mixture of two times, and lemma `Converges` shows that it comes out right:
an event of a slot makes the replay agree with the history on that slot, whatever
it held before, and a slot without an event left has not changed since the listing.
From there on `LeadsToRib` (a replay from what the subscriber holds leads to the
kernel's tables) is kept by each event and each send (`SentIsFresh`,
`SentRemoval`: a removal that is sent is of a route that the subscriber has).

`NetlinkRefinement` proves, of `Netlink!Spec`:

| theorem | property | |
|---|---|---|
| `ComponentImplementsStream` | `ImplementsRibStream` | `run()` with its goroutines and channels implements `RibStream` |
| `SubscriberHoldsTheRib` | `ViewIsRib` | a subscriber that was sent everything holds the kernel's routes |
| `NoUpdateIsLost` | `NothingIsLost` | between the socket and the callback nothing is lost, repeated or moved |

**Assumptions.** Those of `NetlinkProofs`, and `SlotType`: one route per slot in the
tables the kernel starts with.

**Argument.** The mapping: `live` is the update in the callback, the live channel,
the one the reader holds and the socket, in this order (`toNotify`); `dump` is what
the injector has left, its channel and the update in the callback (`toDump`);
`sync` follows `state` and `pc`. Each step of `Netlink` is a step of `RibStream` or a
stutter, one lemma per action. The steps that need an invariant (`Link`) are those
where a channel changes hands: the dump is a set, so that no route may be twice in
it, sent or to send (`DumpOnce`); a subscription that begins finds no reader and an
empty socket (`ReaderCleans`); a machine that is not dumping has nothing of a dump left
(`IdleIsEmpty`). The two other theorems follow from `RibStreamProofs` through
the mapping.

`LastResortProofs` proves, for every set of configurations, of routes, every size
of the channel and every number of changes, losses, failures and restarts, of
`LastResort!Spec`:

| theorem | property | under | |
|---|---|---|---|
| `TypeCorrect` | `TypeOK` | | the program writes, and is told, only routes of the system and its targets |
| `NoSourceIsMissed` | `SourcesAreCandidates` | | each source of what was notified is a candidate |
| `CandidatesReplay` | `CandidatesFollowStream` | `SourcesKeepOff`, `SourcesKeepTheirSlots` | there is no other candidate |
| `CandidatesFromKernel` | `CandidatesAreKernels` | the same two | once quiet, the candidates are the sources of the kernel |
| `ApartCandidates` | the last two | `HalvesApart` | both, for a class of configurations and whatever others write |
| `CurrentInKernel` | `CurrentIsReal` | `Watched` | once quiet, the current route is in the kernel |
| `TargetInKernel` | `TargetIsInstalled` | `Watched` | once quiet, the copy of the best candidate, or the blackhole, is installed |
| `GatewayIsKept` | `GatewayRemains` | `Untouched` | a process that has known a source leaves a gateway |
| `AttemptsHaveRoutes` | `AttemptsDoNotPanic` | `Untouched` or a blackhole everywhere | the tick case always has a route: the process does not panic |
| `CurrentIsDetected` | `CurrentIsInstalled` | `Watched`, `OneToS` | once quiet, the current route is what the kernel holds in the gateway's slot, or nil |
| `WritesStayInSlot` | `WritesItsSlotOnly` | | each write is the copy of the best candidate, and takes away at most what was in the slot of the gateway |
| `WritesCostNoSource` | - | `SourcesKeepOff` | a write takes no source route away |
| `GatewayStays` | - | `Untouched` | a gateway that is in the kernel is never absent afterwards, not for one step |
| `ExportsTheTruth` | `ExportedStateIsTrue` | `Untouched` | at each step, "missing" is exported only while there is no gateway, "installed" only while there is one |
| `HandlerRefinesGateway` | - | | the handler takes steps of `Gateway` only, until a restart that starts it anew |
| `HandlerKeepsPromises` | - | | the invariants of `GatewayProofs` hold of it, restarts included |
| `KeepsTheLastRoute` | - | | without a blackhole, losing the last candidate changes neither the current route nor the ticker |
| `StreamKeepsPromises` | - | | nothing is lost between the kernel and the handler, who is part of what changes the kernel |

**Assumptions.** Types of constants, and `SlotType`: one route per slot in the tables
the kernel starts with.

**Hypotheses.** They restrict the constants, nothing in the code checks them, and a
theorem that names none needs none. They are needed:

- `SourcesKeepOff`: no source route is in the slot of a gateway, unless it is a
  gateway itself. The default metric, the highest one, is meant to ensure it. A
  gateway configured on the slot of its source replaces it.
- `SourcesKeepTheirSlots`: what takes the slot of a source route matches "from" too.
  The kernel reports a replacement as one new route; if its protocol is not the one
  of "from", `processNotification` ignores it (`gateways/gateway.go:191-194`) and
  the former route stays a candidate. `last_resort` has such a route, and checks
  `SourcesAreCandidates` and neither of the two others.
- `HalvesApart`: "from" names no protocol, which is the default, and the halves
  differ by the prefix, the table or the metric. It implies both of the above
  (`ApartIsExact`), and says nothing of the rest of the system.
- `Untouched`: the rest of the system neither writes nor removes a route in the slot of
  a gateway. A gateway of a former process may be there, and copies that this one
  wrote.
- `Watched`: `Untouched`, or no subscription is lost (`MaxOverflows = 0`) and what
  others write in the slot of a gateway is a gateway (`SlotsAreReserved`): a route of
  another protocol would replace ours without a removal reported. The run
  `overflow` is the counterexample without it: what was lost is not told again.
  For `AttemptsHaveRoutes` the counterexample is the run `panic`.
- `OneToS`: the routes of one gateway have one ToS. Without it the kernel holds
  copies for two of them, of which the handler knows one: `last_resort` has such
  sources, and checks `CurrentIsReal` and not `CurrentIsInstalled`.

`last_resort` is an instance of `Watched` with somebody who touches the gateway,
`last_resort_faults` of `Untouched` with losses; the latter has one ToS.

**Argument.** `Base` puts together the invariants of the two halves, which are
proved by `GatewayProofs` and `RibStreamProofs`, and where the routes come from
(`Owned`). The steps are then seen through what they do to the kernel, the stream,
the channel and the handler (`Moves`), ten cases on which each of the
invariants below is shown:

- `Story`: the notifications in the channel have a history (`StoryOf`), the tables
  before and after each, from the one whose sources are candidates to what the
  subscriber was sent. Its sources are among the candidates, and are all of them
  under the two hypotheses on sources (`Holds`, `Exact`). `NoSourceIsMissed` and
  `CandidatesReplay` are the case of an empty channel, and with `StreamIsFaithful`
  the latter gives `CandidatesFromKernel`.
- `CoverInv`: a route that the handler takes for installed, or will after one of
  its notifications, is in the kernel *or will be contradicted* by a notification
  that follows, by an event on its way or by the dump to come (`Covered`). When
  quiet nothing can contradict it any more. The hypotheses come in here, in what
  a dump can contradict: `OccupiedInv` says that an untouched slot once occupied
  stays so, `EarlyInv` that without losses a process knows nothing before its only
  dump.
- `FreshInv`: after a dump, the handler's target is its current route, or the end of
  the dump is still in its channel; the decision is taken again at each.
- `RemInv`: having known a candidate implies having a current route; `ArmedInv`: so
  does an armed ticker. Both because an untouched gateway is never reported removed.
- `Explained`: a gateway in the kernel that the handler does not know, or would
  forget by the removal of another one, is about to be heard of (`Pending`).

The invariants above are about a program that is quiet. Five theorems are about each of
its steps. `WritesStayInSlot` needs that what changes the kernel without being counted
as a change of others is a success of the tick case (`OnlyInstallWrites`), that the
current route of the handler is then the target (`CurrentTracksBest`), and what a
replacement takes away (`WriteTouches`); `WritesCostNoSource` adds the hypothesis that
none of that is a source. `GatewayStays` says that `RouteReplace` leaves
no gap: the steps of `Moves` that change the kernel either are elsewhere
(`UntouchedIsElsewhere`) or fill the slot. `ExportsTheTruth` has its own invariant,
`AwaitedInv`: while the handler knows of no gateway, one that is in the kernel is
`Announced` by a notification of its channel or still to be listed (`ToBeListed`), and
nothing before it, in particular no end of a dump, may make the handler say that it
is missing. `KeepsTheLastRoute` is the property
`LastRouteKept` of `Gateway`, which a restart breaks on purpose.

The two halves were specified apart. `HandlerRefinesGateway` and
`StreamKeepsPromises` say that nothing was lost by this: a notification of the
stream is one that `Gateway` lets in, which takes the origin of the routes
(`Owned`), and the invariant of `RibStreamProofs` is kept by the writes of the
handler, also during a dump, and by a restart (`RibStreamProofs!Step`).

`DaemonProofs` proves, for every number of gateways, every size of their
channels, every sequence of exporters and every set of signals, of `Daemon!Spec`:

| theorem | property | |
|---|---|---|
| `TypeCorrect` | `TypeOK` | types, the bound of the channels, a wait group that never goes below zero |
| `StopsInOrder` | `UsersStopFirst` | netlink stops when no handler is left, the reporter when nobody is |
| `ClosesOnce` | `NothingAfterClose` | `done` is closed once, and nothing is reported to a closed Sentry client |
| `LeavesNothingOpen` | `NothingLeftOpen` | a process that leaves has closed its exporters and sent what was captured |
| `OneLateAtMost` | `AtMostOneLate` | a callback running during the stop pushes at most one notification per gateway |
| `StopIsNeverStuck` | - | each goroutine that a `Stop()` waits for has a step left, or is blocked by a full channel or by Sentry |

**Assumptions.** `SizeType`, `OptionType`, `CommandType`, `ExportersType`: types of
constants. `DecodesEmptyFirst` and `SharedLoopVariables` may be TRUE or FALSE.

**Argument.** `IInv` is the inductive invariant. `UsersStopFirst` alone is not
inductive, since nothing in it says which component is being stopped, nor that
the handlers had all left when netlink's tomb was killed. `IsStack` says that the
components started are a prefix of the list of components, reversed, so that
their number (`Height`) says which they are; `Control` then relates that number,
`main`, `waiting`, both tombs and the state of the exporters. Lemmas `PushStack`
and `PopStack` are the only places where sequences matter. `Counted` says that
the wait group is the number of goroutines alive (`OneMore`, `OneChanges`), from
which a `wg.Wait()` that returned means that all have gone; `Late` that a
callback has pushed nothing late to the gateways it has yet to reach, and
`Spawned` that the handlers are spawned in order. `Reported` says that the Sentry
client is closed only when netlink's tomb is dead, and that its queue is empty
then: with `Control`, nobody is left to report.

`StopIsNeverStuck` is what can be proved of the liveness property `SignalEnds`: for
each of the three components that the main goroutine may wait for, somebody has a
step left to make that brings it nearer to its end (`StopGoesOn`), with the same two
exceptions. It adds `Told` to the invariant: a component whose `Stop()` runs was
told to stop, and the handlers of the gateways spawned so far are there.

**Only model-checked.** Liveness: `Converges`, `EventuallyInSync`, `StopEnds` and
`SignalEnds`, which are out of the prover's reach. All the invariants and the
action properties of the runs that pass are proved, and so are the refinements.
Of `Converges`, what remains is that the program gets quiet: that it is right when
quiet is `TargetInKernel`. The refuted runs stay with TLC, which finds their
traces.

## 6. Where the code and what is said of it differ

Refuted runs, with a trace each:

- **`panic`** - `gateways/gateway.go:97` dereferences the current route, which
  the removal of the gateway sets to nil (line 153) while an attempt is armed and
  no candidate is left. Line 265 says "Installation will be retried until it
  succeeds".
- **`overflow`** - a new RIB discards the candidates but keeps the current
  route (line 138); when the gateway was removed during the overflow, the target
  equals the current route and nothing is installed any more.
  `netlink/observer.go:15` says "Previous RIB should be discarded".
- **`blackhole_on_start`** - `targetRoute` returns the blackhole as soon as
  there is no candidate, and it is written over an installed gateway, where
  `docs/configuration.rst:197` says "we don't have a last resort route already
  installed".
- **`last_known`** - the echo of an older write, processed after the last
  candidate left, makes the older route current, and an armed attempt installs
  it, where `docs/index.rst:11` says "the last known route is kept". It takes
  two changes.
- **`shared_loop_variables`** - `&gwConfig` and the closure's `gw` are variables
  of a loop: with Go before 1.22, which `README.md:19` allows (">= 1.8"), every
  gateway applies the last configuration. The repository has no `go.mod`, so both
  meanings of these loops are possible builds; with the later one each gateway has
  its own configuration by what the language says, and no run claims it.
- **`blocked_stop`** - the callback looks at the tomb once, then pushes; when a
  channel is full and its handler has left, it blocks for ever and so does
  netlink's `Stop`.
- **`never_starts`** - before the file, `cmd/daemon.go:80` decodes the document
  `{}` with a decoder that refuses a configuration without a gateway
  (`cmd/daemon_test.go:29-30` expects so): the command always fails, where
  `docs/usage.rst:21-22` says that `--check` succeeds on a valid file.

Smaller disagreements met while reading, with no run:

- the exported state stays "missing" when somebody else installs the gateway while
  there is no candidate (`gateway.go:158` makes it the current route and leaves the
  state alone, line 18 defines it otherwise): `ExportedStateIsTrue` is about
  gateways that nobody else touches, and `ExportsTheTruth` says so (`Untouched`);
- `docs/usage.rst:25-26` says that a restart finds the gateways as they are; a
  new process whose target differs in a field from the route in place writes it;
- `docs/configuration.rst:164-165` speaks of the lowest metric, the code compares
  the ToS first (`gateway.go:288`);
- the backoff of transitions is said to be reset after a cure interval
  (`docs/configuration.rst:230`), but it belongs to a ticker that each success
  drops (`netlink/root.go:245`);
- SIGHUP consumes the goroutine that waits for signals, so that a later SIGTERM
  is not read (`daemon/root.go:53-67`); `SignalEnds` is about a SIGTERM that comes
  first;
- a route that replaces a source in its slot under a protocol that "from" does not
  match leaves the source a candidate, and its copy installed
  (`gateway.go:191-194`); see `SourcesKeepTheirSlots` in section 5.

## 7. Abstractions and what is not modelled

- A route keeps the fields that selection and matching read; the others, which
  only take part in `Route.Equal`, are one field `via`.
- The kernel has one route per slot, which is right for IPv4 and for replaced
  routes, not for the next hops of an IPv6 multipath route.
- An echo carries what was written. The kernel may report more (a metric of 0
  in IPv6 becomes 1024); how `Route.Equal` sees it is outside the repository.
- Writing the route that is there already may or may not be reported.
- No run has a source route in the slot of its gateway: nothing in the code refuses
  such a configuration, and the theorems that need it not to be there say so
  (`SourcesKeepOff`, section 5).
- `StopEnds` is about a netlink component whose subscriber's callback returns.
  `blocked_stop` shows that the callback of the gateways may not.
- In `last_resort` others add and remove the gateway, and there are no losses and no
  restarts; in `last_resort_faults` there are, and nobody touches the gateway. With
  both at once the run `overflow` applies.
- `ChannelSize` 0 (a rendez-vous) is not modelled; `Subscribe` is called once,
  as the program does.
- A subscription given up after a failed listing leaks its socket and goroutine
  in the code; the model forgets it, since nobody reads its channel.
- Time: tickers and timers are armed or not, and tick when they like. Lengths of
  intervals, backoff and the levels of logs are left out.
- `LastResort` has one gateway. Gateways share nothing but the callback that
  serves them in turn, which `Daemon` models for three.
- YAML: a document is a record of the keys that are there. A key without a value
  (null), which resets the field in both decodings, belongs to the library and is
  left out, as are the text of prefixes and that of lines.
- Sentry: a queue of errors. That only errors are captured, and how they are sent,
  is left out. `ErrorReported` may come whenever a goroutine that reports errors
  is there.
- **Not modelled**: where log lines go and their format, the registry of metrics and
  the goroutine of its runtime metrics, which nobody waits for; the formats of the
  exporters; durations, paths and addresses of the configuration; the parsing of
  the command line. They are output, or values without a behaviour. The watchdog
  and the readiness calls tell systemd something and keep no state but a ticker
  that nobody reads: neither `Ready()` nor `Watchdog()` has a caller. Test mocks
  are not part of the program.

## 8. Plan

Done: `Routes`, `CandidateList`/`CandidateSlots`, `Configuration`, `Gateway` and
`ConfiguredGateway` with their proofs, the slice included; `RibStream` and `Netlink`
with their proofs and that of the refinement; `LastResort` with the proofs of its
invariants; `Metrics`, `Daemon` with its proofs.

Next, in this order:

1. **Composition**: that `LastResort` implements `RibStream`, as a refinement rather
   than through the invariants of `StreamKeepsPromises`; it takes an abstract
   specification with restarts and uncounted writes.
2. **Kernel variants**: IPv6 next hops appended to one slot; a run with a source in
   the slot of its gateway, to say what is left of the properties there.
