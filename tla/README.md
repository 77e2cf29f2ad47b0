# AlterNet: models, checks and proofs

AlterNet publishes web sites on a peer-to-peer network.  A site is a DAG of
content-addressed blocks; its author signs a manifest that names the root and
puts it in a Kademlia DHT; readers look the manifest up, find providers of
each block in the DHT and fetch the blocks from them.  A headless node, a CLI
and a browser are built on one library, `alternet-core`.

This directory holds TLA+ modules of that program, the TLC configurations that
check them on small instances, and proofs, checked by TLAPS, of the theorems
that hold for every instance.  Everything is translated from the Rust sources;
`PROJECT.json` gives the lines for each definition.

- [1. The system](#1-the-system): the inventory
- [2. The plan](#2-the-plan): the modules in their order, what is left to prove
- [3. The modules](#3-the-modules): state and actions against the code
- [4. The runs](#4-the-runs): what TLC checks, bounds, fairness
- [5. The proofs](#5-the-proofs)
- [6. What the code does otherwise than it says](#6-what-the-code-does-otherwise-than-it-says)
- [7. Limits](#7-limits)

To check: `tlc -workers 2 -config MCX.cfg MCX` for the runs of section 4,
`tlapm XProofs.tla` for the proofs of section 5.

## 1. The system

| component | state | operations | what is hard about it | what makes it correct |
|---|---|---|---|---|
| **Node**: `NodeHandle`, `run_swarm_loop` (`network.rs`, `exchange.rs`) | command queue, six pending maps of reply senders, `pending_relay`, chaff task | `listen_on`, `dial`, `put_dht`/`put_manifest`, `get_dht`/`get_manifest`, `start_providing`, `get_providers`, `request_block`, `known_peers`; every swarm event | commands, events and callers that give up interleave; two methods are two commands each; ids of two uses share a map key type; the task ends with its last sender | each reply reaches its own caller once; nothing leaks; every call returns; the loop ends when nobody can use it |
| **Block store**: `FsBlockStore` (`content.rs`) | one file per block, a quota | `put`, `get`, `has`, `delete`, `list_cids`, `total_size` | a shared directory with no lock, several processes, a write that truncates and then fills, kills in between, a quota checked before the write | what can be torn and when; the quota is exceeded by a bounded amount |
| **Pins and gc**: `PinStore`, `Replicator` (`replication.rs`) | pin records by root; `pins.cbor` | `pin`, `unpin`, `gc`, `gc_if_over_quota` | gc walks a list made earlier while others put; pins only in memory in the node | no pinned block is deleted; the quota is restored; what is unpinned goes |
| **Fetch**: `fetch_dag_blocks`, `do_fetch_site`, `seed_site`, `extract_dag`, `collect_all_cids` | a queue of CIDs; the output directory | breadth-first download, extraction, collection for a pin | a block half-written by another program, silent peers, a full quota, errors ignored in two of three copies of the loop | nothing of the site is forgotten; an extraction that succeeds is complete; a pin holds the site; a fetch ends unless its providers mislead it for ever |
| **Node program** (`alternet-node`) | configuration, pins | seed the configured sites, refresh loop | restart in the middle of seeding | as store, pins and fetch |
| **CLI** (`alternet-cli`) | key files, petname and subscription files | publish, fetch, pin, name, search, feed, board, app | lists in the DHT that are read, changed and written back | no entry is lost; a newer manifest wins |
| **Browser** (`alternet-browser/src-tauri`) | `fetch_status`, node, `pins.cbor` behind one lock | `alter://` handler, fetch, publish, pin, unpin | the lock is let go between look and act; late writers of a status; a file rewritten in place | a ready site is whole; a fetch that is not online for ever ends in a status; one identity; no pin is lost in quiet |
| **Manifests** (`publish.rs`) | `ManifestStore`: history by author | create, verify, append | the first record a DHT query finds is the answer, whatever its sequence | what is shown was signed; a log never goes back |
| **Names** (`naming.rs`, `governance.rs`) | petnames, trust graph, zones | resolve: petname, web of trust, zone chain | breadth-first search bounded in depth, cycles, ties | the nearest trusted record; no record over an untrusted edge |
| **Onion routing** (`onion.rs`, `routing.rs`) | relay channels | wrap, peel, forward | a chain of relays, each with its own timeout | relay state is released; only the target reads the request |
| **Traffic, transports, proof of work** (`traffic.rs`, `pluggable.rs`, `pow.rs`) | ban counters | pad, unpad, obfuscate, tokens, `SybilGuard` | lengths at block boundaries, integer widths; a counter that is only cleared by success | a message arrives whole or not at all; a ban needs a row of failures |
| **Discovery** (`discovery.rs`) | tag index, subscriptions | claims, feed | read-modify-write of DHT lists | no claim is lost in quiet; one per author and spelling |
| **Board, chat** (`board.rs`, `crdt.rs`) | automerge documents | new, load, post, merge, read | a snapshot read and written back; documents begun apart | no post is lost in quiet; a post stands behind what its writer had read |
| **Data directory** (`identity.rs`, `secure_storage.rs`, petname, pin and subscription files) | `identity.key`, `petnames.cbor`, `pins.cbor`, `subscriptions.cbor` | load, generate, restore; read, change, write | several programs, no lock, truncate and fill, kills in between | one key for ever; lists hold what the commands made |
| **Apps** (`apps.rs`) | manifest and module file | sign, verify, run | two files that travel apart; what is asked for against what is granted | a run stays within the user's grant |
| **Sharding, crypto, configuration** | - | pure functions | - | - |

How they interact: the programs call the node through `NodeHandle` (a command
and a oneshot reply each) and use the block store directly; the node's loop
reads the store to answer `GetBlock` requests of peers; gc runs in the node
program beside whatever other program has the same data directory open.
`tor` (vendored), the React front end, fuzz targets and packaging carry none
of this logic.

`ManifestStore`, `gc_if_over_quota`, `WotResolver`, `SybilGuard`, the sharder
and the pluggable transports are called by the library's tests and by no
program.  `send_chaff` (network.rs:136) has no caller; it is `request_block`
with its outcome thrown away.

The hazards, each at its line and with the properties that would show it
biting, are in `PROJECT.json`; where no property shows it, or only a part of
it, a note says why.

## 2. The plan

In order of importance to the user of the program.  All of it is written and
checked; every safety property and every action property the passing runs check
is also proved.

1. **NodeLoop**, with **CallService**, the promise of the handle, as its
   abstract specification; **NodeLoopProofs**, **NodeServiceProofs**.
2. **BlockStore**, composed with the pins and the gc in **Replication**;
   **ReplicationProofs**.
3. **Fetch**: the copies of the download, the extraction and the collection,
   composed with BlockStore; **FetchProofs**.
4. **Publication**: everything the programs keep in the DHT, with its readers
   and writers; **PublicationProofs**.
5. **DataDir** and, composed with it, **Browser**; **BrowserProofs**.
6. The parts that share no state with others: **Naming** (**NamingProofs**),
   **ManifestLog**, **Admission**, **Framing**, **OnionRoute**, **AppHost**,
   **SharedDoc** (**PartsProofs**).

What is left to TLC alone is liveness, section 5 says why.

## 3. The modules

### NodeLoop and CallService (`alternet-core/src/network.rs`)

One module for handle, loop and chaff task, since their channels are the
subject.  A *call* is one invocation of a `NodeHandle` method: `at`, `op`,
`leg` (which of the method's commands it awaits) and `saved` (what
`get_providers` keeps between its two) are its local state, `oneshot` its
receiver, `result` what it returned.  `queue` is the mpsc channel, `pending`
the six maps, `collected` the list inside `pending_get_providers`, `relay` the
map `pending_relay`.  `swarm` is external: what libp2p runs under each id.

| action | code |
|---|---|
| `Invoke`, `ContinueCall`, `Return`, `Abandon`, `Dial`, `DropHandle` | the methods up to, between and after their awaits; a future dropped by `timeout`; the drop of the handle |
| `ChaffAsk`, `ChaffSend` | `run_chaff_loop` |
| `StartQuery`, `RefuseQuery`, `AnswerKnownPeers`, `ProcessDial` | `process_command`, one arm each, with its error arms |
| `NewListenAddr`, `ListenerClosed` | `process_event` |
| `FoundRecord` ... `GetProvidersFails` | `process_kad_result`, arm by arm |
| `RelayReturns`, `Responded`, `OutboundFailure`, `AnswerInbound`, `RelayOnion` | `process_rr_event`, `handle_onion_forward` |
| `StopLoop` | `None => break` and what is dropped with the task |

A reply records which call and command it answers (`of`, `kind`); this is
history the code does not have, and `AnswersOwnCommand` says the code does not
need it.  Contents are reduced to what callers tell apart: whether an
announcement verifies, whether a response is the block asked for, another
block that verifies against its own CID, one that fails, or none.
`verify_provider_announcement` does not compare the announcement's CID with
the one asked for, so "signed" means signed by somebody for something.

**CallService** says what a caller may rely on: a call that was made ends once
- returned, given up or stranded -, succeeds only if it was answered, and the
handle goes only when no call is open.  `Phase`, `Answered` and `Succeeded`
are the refinement mapping.  "Stranded" is a `listen_on` whose listener closed
before it reported an address: `process_event` has no arm for that, so the
entry stays in `pending_listen` and the caller, who has no timeout, waits for
ever.  The service names this instead of hiding it.

### BlockStore and Replication (`content.rs`, `replication.rs`, `alternet-node/src/main.rs`)

A CID stands for its bytes, so a file is *absent*, *torn* (not the bytes of
its name) or *whole*.  `put` is three steps because it awaits between them:
the checks (`PutChecks`: the file is not there, the quota has room), the open
that truncates (`PutOpens`), the write (`PutWrites`).  `linked` says whose open
file still has its name, for a gc may unlink it in between.  `torn` is history:
which files lost their writer half-way.  Tasks in `Unmetered` are the
browser's, which opens the store with quota 0 (browse.rs:223).

Replication adds the node program: `Pin` (what `seed_site` does to the pins),
`StartRefreshing`, `RefreshCollects` (`refresh_loop`), `CollectIfOverQuota`,
`EvictOldest`, `EvictionEnds` (`gc_if_over_quota`), `GcLists`, `GcReads`,
`GcDeletes`, `GcEnds` (`gc`, with its awaits), `GcFails` (an error of the
directory or of a delete, which ends the collection), `NodeRestarts`.  gc runs
only when the store is *over* quota, so after puts that raced past the check or
puts of the browser.  Pins start empty after a restart: no program saves the
node's `PinStore`, and the browser's `pins.cbor` lists no blocks.

### Fetch (`alternet-cli`, `alternet-browser`, `alternet-node`, `content.rs`)

Three copies of one loop, each a task over the shared `BlockStore`: take a CID
(`Look`: `has`), read it for its children (`Read`), or ask providers
(`Answers...`, `Unanswered`) and put what comes (`AnswerStored`, `Opens`,
`Stored`; `AnswerKnown` when the file is there; `AnswerRefused` over quota).
Where they differ is in the guards: the CLI fails at the first error, browser
and node go on.  The CLI's fetch and the browser then extract (`Extract`:
depth first, fails at the first block missing or torn); the CLI's pin collects
what to announce (`Collect`: a block that is missing is a leaf, one that is
torn an error); the node is done.  The node pins the blocks it met, which
`Pins` puts down as it goes on.  `links` is any DAG over the blocks,
`program` which of them a task runs.  `passed` and `got` are history: what the
download went on without, what the extraction read or the pin holds.  A
program that fails, like one that is killed, is idle again and may be run
anew.

An answer may be a different block than the one asked for (see
`BlockIsRequested` below; `Stray`), as often as a provider likes: the loops
keep no record of what they have been at, so the children of such blocks can
fill the queue for ever.  `MaxQueue` bounds how long the queue gets by it, not
how often it happens.

### Publication (`alternet-cli`, `alternet-browser`, `alternet-node`, `publish.rs`, `discovery.rs`, `governance.rs`, `naming.rs`)

`dht` maps a key to the set of records some replica holds: `put_record` with
`Quorum::One` may leave older ones in other replicas, and `FoundRecord` of
NodeLoop answers with the first that comes.  A put that fails in its caller
may have reached a replica all the same.  A task runs one command: it takes
the keys one after the other, and what it has read (`held`) stays as it was
while others write.

| actions | code |
|---|---|
| `StartPublish`, `PublishSite`, `PublishFails`, `TagFound`, `TagMissed`, `ClaimTag` | `run_publish` with a tag; `publish_site` of the browser, without |
| `StartPost`, `BoardFound`, `BoardMissed`, `Post`, `StartReadBoard`, `BoardRead` | `run_board` |
| `StartDelegate`, `Delegate`, `StartResolve`, `ZoneFound`, `ZoneMissed` | `run_name`: Delegate, and Resolve with `fetch_zone_chain` and `resolve_full_uri` |
| `StartSeed`, `SeedFound`, `SeedPuts` | `seed_site`: the manifest it puts back after the download |
| `StartRead`, `SiteFound`, `StartSearch`, `TagSearched`, `ReadMissed` | fetch, pin, feed, search |
| `Interfere` | records from elsewhere: altered, signed for another key, or none |

`due` and `quiet` are history: what the finished commands make of a record
one by one, and whether at a key nothing overlapped, failed, stayed behind or
came from elsewhere.  `QuietWritesKept` says that then the programs lose
nothing; it says nothing of a key that was not quiet, where a post or claim
that was made between another command's read and write is in fact lost.
`OneClaimPerAuthor`, `ShownSigned` and `ResolvedByDelegation` hold in any case.

### DataDir and Browser (`identity.rs`, `secure_storage.rs`, `naming.rs`, `alternet-browser/src-tauri`)

DataDir has the key file and the three lists.  A command looks at a file
(`LookAtList`, `ReadKey`, `MakeKey`), goes on to write what it made of it, and
writes in two steps, as `fs::write` does (`Truncates`, `Fills`).  `raced` is
history: writers overlapped or one was killed.  Browser adds the backend:
`FetchSite`, `KeyLoaded`, `Spawned`, `Mark` are `ensure_node_running` and
`fetch_site` with the lock let go between the steps; `Listens`, `Downloaded`,
`OpenPage`, `FillPage`, `FetchFails` (a write that fails among the errors, which
leaves its page torn) the task it spawns; `PublishSite`, `Published`,
`GetIdentity` the other commands that load the key; `Restart` the end of the
process at any point.  `Served` is what the `alter://` handler answers.
`mixed` is history: extractions of one site overlapped or one was cut short,
after which the directory may hold pages of two editions, since nothing
empties it.

### Naming, ManifestLog, Admission, Framing, OnionRoute, AppHost, SharedDoc

Small modules of their own, each with one property:

| module | code | what it follows |
|---|---|---|
| Naming | `WotResolver` | one name: `Search` is the loop of `resolve_wot`, a function from the number of turns to its state (`Turn` takes the head of the queue, `Visits` goes through its edges in order), `Within` what it should compute |
| ManifestLog | `ManifestStore` | what `accept` takes, and `at_sequence` |
| Admission | `PoWToken::verify`, `SybilGuard::admit` | `CheckDifficulty` byte by byte as in the code, `Good` as a number below a power of two |
| Framing | `pad_message`, obfs4, snowflake | lengths: the header's field with its width, the filler, a packet cut anywhere |
| OnionRoute | `announce_relay_key`, `onion_fetch_block`, `wrap_onion`, `handle_onion_forward` | who opens which layer, over restarts that change keys; that a packet is sent at all is a peer's doing, see section 6 |
| AppHost | `app sign`, `verify_app`, `run_app` | manifest and module as two files that are changed or mixed |
| SharedDoc | `CrdtBoard`, `Room` | documents as sets of operations; automerge's order of operations and of a list (`Placed`, `Listed`) is external, which list the code opens and where it inserts is not |

### Proof modules

`NodeLoopProofs`, `NodeServiceProofs`, `ReplicationProofs`, `FetchProofs`,
`PublicationProofs`, `BrowserProofs` (with DataDir), `NamingProofs` and
`PartsProofs` (the other small modules) hold theorems only; the `MC` modules
add symmetry sets and the initial states of a run, and `MCParts` puts the seven
small modules side by side: `part` says which of them moves in a behaviour.

## 4. The runs

| run | module, cfg | checks | what it shows |
|---|---|---|---|
| `node_calls` | MCNodeLoop, MCNodeLoop.cfg | `TypeOK`, `ReplyHeldOnce`, `AnswersOwnCommand`, `EntriesHaveQueries`, `OneQueryPerCommand`, `ProvidersComplete`, `ImplementsService` | two calls of any method at once, abandoned at any time: replies are neither lost, doubled nor swapped, no map entry outlives its query, the handle keeps its promise |
| `node_fair` | MCNodeLoop, MCNodeFair.cfg | `RelayHeldOnce`, `SendersKeepLoop`, `CallsReturn`, `RelaysReturn`, `LoopEndsWithoutChaff` | calls and relayed requests end; without chaff the loop ends with its handle |
| `store_gc` | MCReplication, MCReplication.cfg | `TypeOK`, `TornExplained`, `QuotaOverrun`, `PinnedKept`, `QuotaRestored` | what can tear, by how much the quota is exceeded, that gc never takes a pinned block, that the quota comes back if the node gets to its refresh loop and gc does not fail for ever |
| `fetch` | MCFetch, MCFetch.cfg | `TypeOK`, `DownloadCovers`, `ExtractsAll`, `FetchEnds` | the CLI's fetch or pin or the node, and the browser, fetch one site at once: a download accounts for every block, an extraction that succeeds read the whole site, a pin, the CLI's or the node's, holds it but for what lies below blocks the download went on without, and a fetch ends unless it is sent other blocks for ever |
| `publication` | MCPublication, MCPublication.cfg | `TypeOK`, `QuietWritesKept`, `OneClaimPerAuthor`, `ShownSigned`, `ResolvedByDelegation` | publishers, taggers, posters, zone owners, seeding nodes and readers on one DHT: what is kept in quiet, what readers may rely on in any case |
| `browser` | MCBrowser, MCBrowser.cfg | `TypeOK`, `QuietFilesKept`, `OneIdentity`, `ReadySiteWhole`, `TornFileStays`, `StatusSettles` | the data directory under several programs and a kill; the browser's fetches, what it serves, and that what it shows changes unless a fetch is online for ever |
| `parts` | MCParts, MCParts.cfg | `WotNearest`, `LogGrows`, `BanNeedsRow`, `DeliveredWhole`, `OnlyTargetReads`, `RunsWithinGrant`, `ThreadsKept` | one property of each of the seven small modules |
| `node_loop_ends`, `node_block_requested` | MCNodeLoop, MCNodeLoopEnds.cfg, MCNodeBlock.cfg | `LoopEnds`; `BlockIsRequested` | *violated*: see section 6 |
| `gc_sweeps`, `evicts_as_needed` | MCReplication, MCGcSweeps.cfg, MCEvictsOnlyAsNeeded.cfg | `GcSweeps`; `EvictsOnlyAsNeeded` | *violated* |
| `sequence_grows` | MCPublication, MCSequenceGrows.cfg | `SequenceGrows` | *violated* |

**Bounds.**  `Calls`: two, as every property is about one call or a pair; the
proofs cover any number.  `Ids`: three in `node_calls`, so that queries of
both calls and a relay run together; two in `node_fair`, where a command must
wait for a free id - with as many `listen_on` calls as ids the listeners,
which never end, would use up all of them, which libp2p's never-ending supply
of ids cannot do, so liveness runs have more ids than calls.  `Dial` is not
queued twice (nothing comes of a dial in the loop; the bound keeps the queue
finite).  `Peers`: two in `node_calls`, for providers that come in two events.
`Blocks`: three, over a quota of one or two, so that two puts race past it and
a gc has pinned, unpinned and torn files to meet.  `MaxCrashes = 1`: one kill
of a program at any step; a kill of the node while the node's own put runs
counts as two, one for each of its tasks.  `Tasks`: two writers beside the gc.
In `fetch` three blocks give the chain, the fork and the triangle (a block
reachable twice); the quota, which binds CLI and node, holds two of the three.
`MaxQueue = 1` lets a block that was not asked for go on with one child more in
the queue, which is enough for a download that never ends: without its
condition on misleading providers `FetchEnds` is violated in this instance.
`MCInit` restricts `Init` to sites that hold every block, numbered so that
links go up, and fixes the block field of idle jobs, which nothing reads.
In `publication` two processes run three commands - two that race and one that
reads what came of it - with two authors and two spellings, and one record
comes from elsewhere.  The commands of a behaviour are of one sort (sites,
tags, board, zones); the sorts have no key in common but the sites published
before their tags, and among tags those sites stay quiet.  In `browser`
likewise a behaviour uses one list, the key file, or the browser and the key:
three commands, two at a time, one kill or restart, a site of two pages in two
editions, so that an extraction over an older one, an overlap and a cut all
occur.  In `parts`: three peers and three edges (depth two, so that a path is
too long); manifests up to sequence three; a difficulty of ten bits, in the
middle of the second byte, and a ban after two failures of at most four
attempts; lengths beside 512 and 65536 and their multiples; three nodes that
start twice, two packets; two developers, four modules; documents opened three
times by two replicas, three entries and two snapshots, for two entries
written apart and one behind both.  Entries take six operations there, as in a
board; a room's messages without ttl, which take five, are not in the run.
`total_size` and `list_cids` walk the directory in one step.

**Deadlock** is not checked: commands, actors and attempts are bounded, calls
end, the handle goes and the loop stops; crashes are bounded; a finished fetch
is not followed by another.

**Fairness.**  `NodeLoop!Fairness`: callers whose reply is there go on, the
chaff task goes on, and `select!` without `biased` starves neither commands
nor events.  Kademlia's query timeout (network.rs:423) and request-response's
own give every query an end; that is `WF(QueryEnds(i))`.  An open listener
reports an address unless it closes.  No caller has to call, give up or drop
the handle.  `Replication!Fairness`: the refresh loop's timer fires, a gc that
runs goes on, a put that began ends.  Nothing says that seeding ends, since a
download need not: `QuotaRestored` excepts a node that never comes to its
refresh loop.  `Fetch!Fairness`: a fetch that runs takes its next step, as each
network call of a download has a timeout.  The steps always come, but they need
not come to an end, and `FetchEnds` excepts a fetch that is misled again and
again.  `Browser!Fairness`: a command or task of the backend goes on with what
it does by itself, on the state, the files and the key.  Nothing is assumed of
one that is `Online`: `listen_on` is awaited without a timeout (browse.rs:232
and 348) and the download is the unbounded loop of Fetch, so `StatusSettles`
excepts a site of which a fetch is online from some time on.  Starting a fetch
or a command, pinning and putting are never fair.

Each property has a mutant in `PROJECT.json`: a plausible bug, written beside
the definition it would replace under "Faulty:", that breaks the property.

## 5. The proofs

The assumptions on the constants are those the modules state, and TLC evaluates
them on every run:

- `ConstantsAssumption`, `DataDirAssumption`, `NamingAssumption`, part of
  `PublicationAssumption`: the model's tokens ("none", `Chaff`, `Plain`, `Me`)
  are distinct from the values they stand beside;
- `StoreAssumption`, `NamingAssumption`: finitely many blocks, tasks and peers;
  `RootsAssumption`, `FetchAssumption`: roots are blocks;
- `PublicationAssumption`: junk is no manifest, delegation or list - what does
  parse as one is a record, and `Interfere` puts those too;
- `AppHostAssumption`: a module calls only functions that it imports;
- the others, and the rest of these: numbers are natural numbers, a ban takes
  at least one failure, an address has at least one component, difficulties
  lie within the two bytes of hash the model has, a node's sessions and a
  site's pages are counted from one.

Nothing is assumed of how many calls, ids, peers, blocks, tasks, commands,
replicas or kills there are.

**NodeLoopProofs.** `TypeCorrect`, and `InductiveInvariant == Spec => []IInv`.
`ReplyHeldOnce` is not inductive: that a sender sits in one place says nothing
of the place it goes to next.  `IInv` splits it by place - in the queue
(`QueuedOnce`, `QueuedOwn`), in a map (`PendingOwn`, `EntriesHaveQueries`), or
used up (`RepliedOnce`, `AnswersOwnCommand`) -, says that a waiting call is in
one of them (`Held`), and adds the history of queries (`QueriesOwn`,
`OneQueryPerCommand`, `LegsOnlyOfTwo`), the relay map and `Serving` (as long
as a sender exists the loop runs).  Each conjunct is shown to survive each
action.  From it: `RepliesHeldOnce`, `RepliesAreOwn`, `NoStaleEntries`,
`CommandsRunOnce`, `RelaysHeldOnce`, `LoopOutlivesSenders`.
`ProvidersAreComplete`, an action property, needs one more conjunct:
`CollectsAll`, the list in the map covers what the query under its id has
found, which an entry left behind by an earlier query would break.

**NodeServiceProofs.** `NodeImplementsService == Spec => Service!Spec`: under
`IInv` each action maps to a step of CallService or to a stutter.  The one
place where the invariant is needed for more than types is the late answer: a
reply that arrives for an abandoned call must be a stutter, and a first reply
of a two-command method must not count as the second.

**ReplicationProofs.** `TypeCorrect`; `InductiveInvariant` with
`IInv == TypeOK, TornExplained, RoomLeft, DoomedUnpinned, GcRefreshes`.
`RoomLeft` strengthens the quota bound: every put past its check has its room
reserved, so used blocks and running puts together stay below quota plus
tasks.  `DoomedUnpinned` holds because pins only change while seeding and gc
only runs after it (`GcRefreshes`).  From it: `TearsExplained`,
`QuotaOverrunBounded` and `PinnedBlocksKept`, an action property.

**FetchProofs.** `IInv == TypeOK, Opened, DownloadCovers, Gathered`, the same
argument twice: what the download has, has queued and went on without makes up
the site (`DownloadCovers`), and what the extraction has read and has on its
stack makes up the site (`Gathered`).  "Makes up" is `Below`, closure under
links, defined as an intersection, so it needs no induction: what is below a
queue is below its head or its tail (`BelowUnion`), what is below a block is the
block and what is below its children (`BelowBlock`).  The node gathers while it
downloads: what it will pin and what it has queued make up the site but for
what is below blocks it went on without (`WalkGathered`).  Other tasks only add
blocks to the store (`StoreGrows`).  From it: `TypeCorrect`,
`DownloadCoversSite`, `ExtractionIsComplete`.

**PublicationProofs.** `IInv == Typed, RecordsOK, TasksOK, SignedOK, HistoryOK,
QuietOK`: what a key may hold, what a task knows at each of its steps, what was
signed, what was shown.  `QuietOK` is the heart: a quiet key has at most one
writer, one record in the DHT, and the writer holds what the finished commands
made of it - so whatever it puts back loses nothing.  `RecordsOK` holds of
records from elsewhere too, which is why `ReadersTrustSigned` and `OneClaim`
need no quiet.  `ResolutionIsDelegated` goes over an address component by
component: `FollowExists` gives the function that follows the delegations, and
delegations once made stay (`DelegatedStays`).  Also `TypeCorrect` and
`WritesKept`.

**BrowserProofs.** `IInv == DirInv, SiteInv`.  `DirInv`: a file at which no
writers overlapped and none was killed is what the finished commands made of it
or is torn under the one writer that knows what belongs there; and the key
file has the key that commands went on with, or no command went on with any
(`OneKey`).  `SiteInv`: in an unmixed site at most one extraction has begun, the
pages it has passed are of its edition, a torn page has its writer, and where
none has begun a site that is ready is whole (`UnmixedSite`).  From it:
`TypeCorrect`, `QuietFiles`, `IdentityIsOne`, `ReadySite`, and the action
property `TornStays`.

**NamingProofs.** `NearestIsFound`.  The search is a function by recursion on
the number of turns.  The induction theorems of the library take an operator as
a parameter, which the provers cannot instantiate; the same induction in terms
of sets can be used: among the numbers where something fails there is a least
(`LeastNumber`, from the well-foundedness of the strict subsets of a finite
set), hence a set that holds 0 and with each number the next holds all
(`AllReached`), and a function exists that takes the steps
(`RecursionExists`).  The invariant of the loop (`Between`, and `Amid` while the
edges of one person are gone through): the queue holds people of two distances
that follow each other, the nearer ones first; nobody who was visited has an
entry; and of each one visited the trusted peers were visited too, unless he
still waits or everybody within the depth was visited.  Each turn takes
one person out for ever, so the search ends within as many turns as there are
people (`SearchEnds`), whatever the cycles.

**PartsProofs.** One theorem for each of the other small modules.

- `LogAlwaysGrows`: `LogGrows` compares every two entries, `accept` only the
  new manifest with the last; `NewIsGreater` closes the gap, and `OrderedGrows`
  adds that a search by number finds the one entry that has it.
- `BansByRow`: the counter is the length of the last row of failures, and
  `CheckDifficulty`, byte by byte, is the comparison with a power of two
  (`LeadingZeros`) for the sixteen bits the model has.
- `FramesWhole`: the field of the length counts modulo its width (`Fields`).
- `AppsWithinGrant`: the linked functions are within the grant, and a run with
  a result called none but those.
- `TargetReads`: `OnionInv` follows a packet over one hop or two: the layers it
  has left, each under a key its hop announced, who holds it and who saw what;
  a packet that is stuck is so because that key's session is over.
- `ThreadsAreKept`: `DocInv` says of every document, open or saved, that it has
  with an entry all that the writer of the entry had before him, and lists it
  before the entry.  The one hard step is a merge, for a list is made anew from
  all entries: `OrderStays` says that entries that are merged into a list leave
  the order of the others as it was, and `LastStays` that a new entry, whose
  counter is above all others and which is put behind the last, comes last.
  The first goes by the least subset for which it fails (`LeastSubset`); `ListedIs`
  unrolls the recursive function `Listed`, after `ComputesExists` and
  `ComputesOnce` have shown that there is one such function.  `ActorsOK` keeps
  ids apart: no two open documents have one actor.

**Only model-checked:** liveness - `CallsReturn`, `RelaysReturn`,
`LoopEndsWithoutChaff`, `QuotaRestored`, `FetchEnds`, `StatusSettles`.  Their
proofs would reason about ENABLED of the fair actions, which is out of the
prover's reach.  The five runs of section 6 that end in a counterexample have
nothing to prove.

## 6. What the code does otherwise than it says

The first five are runs that TLC ends with a counterexample.

- `LoopEnds` (network.rs:643): with chaff on, dropping the handle does not end
  the loop; the chaff task holds a sender.
- `BlockIsRequested` (network.rs:337): the data is verified against the CID in
  the response, never against the one asked for.  In `fetch` this leads to
  blocks a download goes on without, and to downloads without an end.
- `GcSweeps` (replication.rs:209): gc reads before it deletes and passes over
  what does not verify, so a torn file stays.
- `EvictsOnlyAsNeeded` (replication.rs:249): unpinning frees nothing, so the
  loop gives up every pin.
- `SequenceGrows` (main.rs:546): every publication has sequence 1, so nothing
  tells a newer manifest from an older one; `ManifestStore`, which would refuse
  the second, has no caller.

Met while modelling, without a run of their own:

- A reader takes the first record that is found (network.rs:757), be it older
  than one it has seen; THREAT_MODEL.md:106 and 251 say that prior history
  protects it, but `ManifestStore` has no caller.
- After its download, which may take long, the node puts back the manifest it
  began with (node main.rs:387), over an edition published meanwhile.
- No program saves the node's pins (node main.rs:211): started anew it has
  none, and its gc keeps only what was pinned again.  README.md:140 calls the
  pin store persistent.
- A pin lacks the blocks that nobody sent and all that is below them (node
  main.rs:366), although THREAT_MODEL.md:174 says that it records all transitive
  blocks.  This is what `ExtractsAll` excepts.
- Of two posts at the same time one is lost, since `run_board` never merges
  (cli main.rs:1332), and a post whose read gets no answer in time takes all
  earlier ones away (line 1322); board.rs:72 says that simultaneous posts do
  not conflict.
- `pad_message` adds its four bytes of length after rounding up: lengths are 4
  more than a multiple of 512, against traffic.rs:23.  Chaff has exactly 512
  bytes, a length no padded message has.
- The download loops have neither a set of visited blocks nor a limit.  A
  provider that answers with other blocks than it is asked for, whose children
  come into the queue, keeps a fetch, or the seeding of a node, busy for ever.
- The browser awaits `listen_on` without a timeout (browse.rs:232 and 348).  If
  the listener closes before it reports an address (network.rs:740 has no arm
  for that), `fetch_site` does not return, or the site stays "fetching".
- `get_providers` hands providers out unchecked when it finds no announcement;
  the comment at network.rs:223 says they are skipped, the one at line 285
  that they are returned for older nodes' sake.
- `request_block_onion` refuses what `build_onion_request` builds, so onion
  mode fails; routing.rs:56 says it falls back to padded routing.
- The pluggable transports cut the length of a message to 16 bits: of 65536
  bytes none arrive, of 65537 one, and nothing reports it (`DeliveredWhole`
  states this).
- An edge of trust is never taken back, and of two edges to one peer the one
  of positive score counts; `add_trust_edge` files a signed edge under the key
  it is given without comparing it with the one that was signed.
- `verify_manifest` does not compare the author with the key the manifest was
  asked for under: `ShownSigned` says signed, not signed by whom.
- A petname list is published under a key that no program reads.
- The browser creates the output directory before it extracts, so a site that
  is a single file cannot be extracted; files of an older edition that the new
  one does not have stay in it.
- What an app's manifest asks for is never compared with what is granted; it
  is for the user to read.
- Two boards begun apart - the CLI begins one whenever it finds no record in
  time - merge into a document that shows the entries of one of them.  The
  test at board.rs:195 says that replicas start from one genesis; no program
  merges.

## 7. Limits

- The commit does not build as it is (`lib.rs` declares `error` twice, `ffi` is
  missing, `routing.rs:204` calls `wrap_onion` with two of three arguments);
  the models follow the code of each function as written.
- The start-up of CLI and node program is not modelled; a node is there from
  the initial state of NodeLoop.  Browser models how the backend comes by its
  node.
- Cryptography is a yes or no; CBOR, names of files and metadata are data.
- A block has size 1: a torn file has size 0, where the code would have any
  size up to that of the block.
- Not modelled: see `components` in `PROJECT.json`, with the reason for each.
