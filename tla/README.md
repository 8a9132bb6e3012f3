# A TLA+ model of bellaMLX

bellaMLX is a local inference server for MLX models: a Python engine (`src/vmlx_engine`)
that schedules requests, caches KV state in RAM and on disk and streams tokens, and an
Electron panel (`src/panel`) that starts engines and talks to them. This directory models
the parts of both in which several actors share state, checks the models with TLC and proves
the properties that matter most with TLAPS.

## The system

| component | state it keeps | operations | talks to |
|---|---|---|---|
| Block pool, `paged_cache.py` | blocks with reference count and content hash, a doubly linked LRU free list, `allocated_blocks`, usage counters | allocate, free, release references, touch, increment, evict, clear | called under one RLock by the event loop and the model worker |
| Block-aware prefix cache, `prefix_cache.py` | block tables per request, prefix index, hash index, payloads on blocks | fetch, store, reconstruct, detach, clear | pool below, disk store beside, scheduler above |
| Block disk store (L2), `block_disk_store.py` | SQLite index and safetensors files, write queue, pending-byte budget, durability fences | write-through, read, evict, clear, shutdown | called by the prefix cache; its own writer thread |
| Scheduler, `scheduler.py` | `requests`, `waiting`, `running`, uid maps, pending aborts | add, abort, step, cleanup of finished requests, recovery | batch generator, prefix cache; called by the engine loop |
| Engine loop and clients, `engine_core.py`, `output_collector.py`, `request.py` | collectors, stream states, finished events, the terminal-cleanup fence | `add_request`, `stream_outputs`, `generate`, `abort_request`, the loop | scheduler, through a one-thread executor |
| Distributed inference, `distributed/` | layer ranges, the generation lock, one connection per worker, cache slots on the workers, topology, elected coordinator | generate, forward, release, health check, heartbeat, election | TCP peers |
| MCP client, `mcp/` | connection state, session, tools | connect, disconnect, call | external servers |
| Panel, `panel/src/main/` | sessions, engine processes, per-session locks, the single-model gate, stop fences and epochs, health counters | start, stop, restart, delete, sleep, wake, adopt, chat | engines over HTTP and signals, SQLite |
| Server and parsers, models, kernels, images, audio | per request | conversion and tensors | engine loop |

Two threads matter in the engine. The *event loop* runs the clients' coroutines, the
admission of requests (with the prefix lookup in it), aborts and the engine loop itself. The
*model worker*, an executor with one thread, runs `Scheduler.step` and the cleanup of
finished requests; the loop awaits it, so every coroutine can run in the middle of a step. A
third thread, the store's *writer*, writes to disk; other processes may evict what it wrote.
The distributed coordinator and the panel's main process are single-threaded event loops of
their own: what interleaves there is whatever runs between two awaits.

What is hard is therefore: aborts in the middle of a step; references taken by one thread
and given back by another; block ids that outlive what they named; payloads read without the
lock; a terminal output that must not overtake the cleanup behind it; an exception, a
restart or a departure at any point; a loop that must neither go idle with work left nor
spin on a ghost; a byte budget, two counters and a set of fences that a clear and a shutdown
wait for; answers without identity on a connection with two readers; a stop that must win
over starts that were asked for before it and run after it. The list with its lines is under
`hazards` in `PROJECT.json`.

What makes each component correct:

- *pool*: a block is free exactly when nobody references it, and the list, the counter, the
  registry and the statistics agree;
- *prefix cache*: every reference has a holder who will give it back; whatever is found by a
  hash is the KV of that hash; a request is served its own prefix only;
- *engine*: a client receives its tokens once and in order and learns of one end; a terminal
  output and the next admission wait for the cleanup; every request ends, and when the
  clients are gone the scheduler holds nothing;
- *disk store*: the byte budget, the counters and the fences account for every write on
  every error path; the index never names a block whose parent is gone, nor one from before
  a clear; the lease goes last and a shutdown ends;
- *workers*: a token is sampled after every layer, once each, over the request's own past;
  every request ends and its slots go, whatever a worker does;
- *panel*: a stop wins; one engine at a time in single-model mode; no engine the panel
  started is lost; what the user is shown comes to agree with what runs.

## Modules

| module | models | abstraction |
|---|---|---|
| `BlockPool` | the pool: `allocate_block`, `free_block`, `release_request_refs` (one entry), `touch`, `increment_ref`, `evict_lru_blocks`, `clear` | the free list is a sequence; each operation is one step (the lock) |
| `LinkedPool` | the same operations on `FreeKVCacheBlockQueue` as written: previous and next pointers and two sentinels | refines `BlockPool`: `queue` is the walk along the next pointers |
| `PagedCache` | the prefix cache over the pool: lookup, promotion from L2, choice between candidates, prefix index, pinning, commit, abort, reconstruction with hydration, store with deduplication, payload eviction, clear | extends `BlockPool`; a payload is the hash it was computed for; the RLock is a variable and a walk over a table is one step per block |
| `PagedFaults` | `PagedCache` plus one thing its comments fear: recovery from a cache error, an abort during reconstruction | one specification each |
| `DiskStore` | the L2 store: admission, byte reservations, write queue, fences with sentinels and pins, the writer, subtree cleanup, clear, shutdown, eviction by others | a payload is its three sizes; SQLite and the file system are `rows`, per block the era of its record |
| `RequestStream` | what a client of the engine is promised | no queue, no fence, no worker |
| `EngineCore` | the clients, the loop, the collectors, the scheduler's registries, the worker | the n-th token is the number n; a step that only prefills is part of the next one |
| `LayerAssign` | `assign_layers_by_ram`: who runs which layers | memory in whole gigabytes; the sort is the order of the nodes it leads to |
| `Queues` | removal from a queue, used by `EngineCore`, `WorkerLink` and `SessionManager` | |
| `WorkerLink` | the generate loop, its lock and abort, the connections, the heartbeat, the workers' slots and their sweeper | a connection is two queues of whole messages; a write may have to wait until the buffers take it; hidden states are the list of ranges they went through; a slot is the number of passes it has seen |
| `SessionManager` | the panel's operations on local sessions, their lock, gate, fence and epoch, exit callbacks, the health monitor, and the engine processes | an engine is its state, and holds its port once it has loaded; a health answer, a scan or a try of the port is taken in one step and used in a later one |
| `Queues_proofs` | lemmas about queues and about induction that the other proofs share | |
| `BlockPool_proofs`, `LinkedPool_proofs`, `PagedCache_proofs`, `EngineCore_proofs`, `DiskStore_proofs`, `WorkerLink_proofs`, `SessionManager_proofs` | the theorems of one component each | |
| `MC*` | TLC instances | |

The modules compose as the code does: `PagedCache` extends `BlockPool` and sees the disk
store through its effects (a queued write lands or is lost, a record disappears);
`WorkerLink` extends `LayerAssign`; `EngineCore` and `LinkedPool` implement `RequestStream`
and `BlockPool` through refinement mappings. `DiskStore` stands beside `PagedCache`: their
product is beyond what TLC can enumerate, so each knows the other by what it may do at any
time.

`map` in `PROJECT.json` gives the lines of every definition. Definitions marked "Fault"
are wrong on purpose: each is a plausible slip in the operation that follows it, and shows
that the property it is listed with can fail.

### State and code

*Pool.* `refCount`, `queue`, `numFree`, `allocated` are `CacheBlock.ref_count`, the free
list, `num_free_blocks` and `allocated_blocks`; `statAlloc` and `statFree` are the counters
of `CacheStats`. The null block, referenced for ever, is left out of `Block`. A released
block stays registered ("cached but free") and a freed one does not: `ReleaseRef` and
`FreeBlock` differ in that, as the code does.

*Prefix cache.* `tbl[r]` is the request's `BlockTable`, `paged` and `entries` are the two
maps that own tables (`request_tables`, `_request_tables`), `job[a]` is the call thread `a`
is in. `Fetching` follows `fetch_cache`: a lookup per key (the whole one, then the one
without its last token), each L1 hit touched under the lock, each L1 miss read from L2
outside it and promoted under it, the loser's references released, and then the prefix
index, whose entries are arbitrary because they may be stale. `RestoringSteps` follows
`reconstruct_cache` and its `finally` clause, `StoringSteps` the cleanup of a finished
request: release of the fetched blocks, store, release of the stored ones. A follow-up
request reuses an id. `frugal`, chosen at the start when there is a disk store, is the mode
in which payloads live on disk only and pass through RAM.

*Disk store.* `job[s]` is where a call of `write_block_async` is: admission under the
life-cycle lock (`producers`), reservation and freezing of the payload (`bytes`, from an
estimate to the frozen size), enqueueing, which hands the reservation to the queue item.
`fence[s]` holds the counters of a `BlockWriteFence`; a call in `Fenced` opens one, seals it
behind its last block and lets the writer settle it. `w` is the writer: it takes a batch,
publishes block by block under the root lock, cleans up children of what was lost (`cut`),
gives bytes back, finalizes fences. `Clearing` refuses new writes, waits for the old ones,
wipes (`era` goes up) and reopens; `Stopping` drains, stops the writer and gives up the
lease. `era` and an item's `born` are history: the code knows no eras.

*Workers.* `req[r]` is a generate loop: at which stage of which pass, and which workers
still have to be told that it ended. `reader[x]` is a read of a connection in progress, a
request's or the heartbeat's, from its write on (`draining` while the buffers are full);
`link[w]` holds what was written and not yet read, `shaken` the connections on which a read
was given up, refused or shared. `Assign` is computed at the start from any of `Rams`.

*Panel.* `row` is the database row, `managed` the entry of `processes`, `engine` the
processes of the machine. What an earlier run of the panel left (`Left`) is an engine that
`detectAndAdoptAll` adopted, one it missed, one still loading, or a pid in the row of a
session in error; the first process is that engine, the last one stands for those that load
without this panel having started them, also by hand. An engine serves its port from the
moment it has loaded (`Boots`) until it ends; while it is dying the port may be free or not
(`PortIs`). A start tries the port first and looks for its holder only if the port is taken
(`FreePort`, `Recheck`); a stop waits for the exit of a child or for its 15 seconds
(`StopKilled`); `handleSessionDown` without a pid only begins the termination of what it
detects (`Down`, `Reap`). `epoch` and `fence` are `lifecycleEpochs` and `intentionalStops`;
`lock` and `gate` are queues because the code chains promises. `call[c]` is a request and
where it is between awaits; `mon` is a tick of the health monitor with the rows it read at
its beginning.

*Engine.* `phase` is where a client's coroutine is, `held` the terminal output it keeps
while it waits for `fence` (`_terminal_cleanup_complete`), `lpc` and `wpc` are the positions
of the loop and of the worker. `Dispatch` is the loop's code between the step's return and
the next await; `Aborted` is `Scheduler.abort_request`, which takes a request out of every
registry but leaves its generator row to `ProcessAborts`.

## Runs

| run | question | instance | states |
|---|---|---|---|
| `linked` | is the pointer list coherent, and is it the sequence? | 4 blocks, at most 2 holders | 1 040 |
| `paged_ram` | the inductive invariant of the pool; has every reference a holder, and is a request served its own prefix, whichever candidate a lookup takes? | 3 blocks, 4 hashes, 2 requests, two keys for one of them, no disk | 23 815 |
| `paged_disk` | with L2, promotion, hydration and eviction, in both modes: references, payloads, tables, own prefix, index | 2 blocks, 2 hashes, 2 requests | 3 340 098 |
| `disk` | budget, counters, fences, pins, index, lease; does a shutdown end? | a fenced chain of 2 blocks, a single write of its first, queue of 2, budget 2, one clear, one upset | 1 956 118 |
| `engine` | tokens, fence, idleness, refinement of `RequestStream`; does every request end and the scheduler let go? | a stream and a `generate()` client, 3 tokens, interval 2, 1 failure | 748 099 |
| `link` | own tokens, slots, aborts; does every request end and every slot go? | a coordinator and a worker with three divisions of memory, 2 requests, 2 tokens, 1 heartbeat, 1 upset | 898 036 |
| `session` | does a stop win, are engines counted and known; do calls end and rows settle? | 27 plans of three requests to one session or two, with and without single-model mode and what an earlier run left, 5 processes, 1 upset | 869 788 |

Why the bounds are enough.

- *Pool and prefix cache.* Two requests are needed to share a block, to take one another's
  block, or to be on both sides of the fence; a third only repeats a role. The pool of
  `paged_ram` is one block short of what the two stores want, so allocation recycles, fails
  and publishes a part; the two keys of `r1` make both the earlier and the later candidate
  win. In `paged_disk` a chain of two blocks in a pool of two makes every allocation of one
  request recycle a block of the other. `MaxRef` (6) is above what the holders of an
  instance can take, so it cuts nothing off.
- *Disk store.* The chain of two is the smallest with a parent to lose; the single write
  duplicates its first block, so that two items of one block meet. A queue of two is filled
  by one of them and the fence's sentinel, and each payload is above the budget at another
  stage. `MaxEra` (2) is one clear; `MaxUpset` (1) is one of: a batch that raises, an
  encoding that fails, a deadline that passes, an access that finds a record broken, an
  eviction.
- *Engine.* Three tokens at interval 2 cover a sent, a skipped and a final output; a failure
  (`MaxFaults`) can meet every phase of either client. `MaxTok`, `Interval`, `MaxSeqs` and
  `OrphanLimit` are the code's parameters at small values.
- *Workers.* The second token is the one that needs the slot the first one filled. `TwoRams`
  has the coordinator first, second and with all of the layers. One heartbeat (`MaxBeat`)
  meets every read; `MaxUpset` (1) is one cancellation (also of a request whose write
  waits), raising handler, lost connection, crash or stall.
- *Panel.* The plans of `MCSessionManager` are the orders of intents the code guards
  against: start, stop and start again; stop or delete under a start; sleep and wake against
  stop; two sessions in single-model mode. Each meets the worlds in which it may go wrong:
  nothing left, an engine adopted up or asleep, one missed, one still loading, a stale pid.
  `MaxPid` (5) gives every start of a plan its process and leaves one for an earlier run and
  one for a start by hand. `MaxUpset` (1) is one crash, failed request, expired wait (of a
  start, a stop or the monitor) or start by hand.

`CHECK_DEADLOCK FALSE` stands where the system really stops: when all clients are done the
engine's loop sleeps, a store that was shut down does nothing more, and when all requests to
the coordinator or the panel are done nothing is left to do.

### Fairness

*Engine* (`EngineFairness`). The loop and the worker are weakly fair: the event loop runs
its ready callbacks and the executor its tasks. So are the coroutines that are ready:
`Resume` (the fence is open), `Take` (an output is there), `Deliver`. No client has to
arrive, leave or cancel, and no failure has to happen. The 30-second reaping is a choice,
not an obligation.

*Disk store.* `Progress` is weakly fair: of the threads that have something to do, one gets
to do it. They are the writer, a clear and a shutdown that have begun, and a store call that
has begun. Nobody has to start any of them, and no access or eviction has to happen.

*Workers.* The coordinator is weakly fair, because each of its reads has a timeout and its
client reads or goes away; and so is the sweeper, a periodic task. A worker need never
answer: `EveryRequestEnds` holds with one that has died silently. One thing is assumed of
the connections that the code does not see to: what is written to an open one is taken in
the end (`Drained` is weakly fair). `await self._writer.drain()` stands outside every
`wait_for` (coordinator.py 180, 213 and 229), so a worker that stays connected and stops
reading while the buffers are full holds the pass, the generation lock and all who wait for
it, whatever the comment on the read says ("so a wedged worker can't hang the coordinator
forever"). Without that condition TLC finds `EveryRequestEnds` violated in a few steps: a
request stays in its write for ever and the other behind it at the lock.

*Panel.* `Work` is weakly fair without the upsets: an operation goes on to its next await,
an engine that is starting comes up or is given up, an exit is reported. `Monitor` is weakly
fair: `setInterval` goes on ticking.

Two guards of the panel's model are about time. An engine that was signalled is gone, at the
latest by SIGKILL after 1.5, 3 or 10 seconds, before another one of its session has loaded
its model (`Boots`) and before a start gives up after two minutes (`Poll`).

### What the runs show

The properties of the passing runs hold. Some are conditional, each condition being a hazard
that the code leaves open:

- `StopWins`, `OneModel` and `Tracked` in the ordinary case (`Ordinary`): nobody has started
  an engine by hand, none of an earlier run was still loading when the panel started, and
  `handleSessionDown` has had a pid to signal so far. By hand, the monitor may adopt what it
  finds on the port in place of the child it takes for dead. An engine that is still loading
  holds no port, so the next start tries the port, finds it free and spawns a second one
  beside it (sessions.ts 5700-5701). Without a pid (4943-4946) the termination of what is
  detected is not waited for: a sleep answered after the session went down leaves a row in
  standby without a pid, a wake makes it one that is loading, and when the monitor gives
  that up it sweeps what it detects, the old engine that is still dying for instance; the
  end of the sweep forgets the process that a start has spawned meanwhile, and the next
  start spawns a second one beside it while that is loading. `OneModel` counts the engines
  that were not told to end, so it does not say that a dying one has given its memory back.
  `StopWins` and `Tracked` leave out deleted sessions: one that was in error is deleted
  without a stop.
- `EveryRequestEnds` of the workers as long as the connections take what is written to them
  (see Fairness). `SlotHoldsPrefix` leaves out a client that stalls for longer than a slot
  lives, `AbortAims` an abort that names a chat.
- `RowsSettle` is about rows in running and loading: a row in standby without a pid is never
  looked at again.
- `TokensInOrder` and `ImplementsStream` number the tokens as `total_output_tokens` counts
  them. After a restart the text begins anew under new numbers, and a client that has part
  of the first text gets that part again, which these numbers do not show.
- `TokensAreOwn` as long as no read of a connection was given up or shared (`shaken`):
  answers carry no identity that is checked, so a late one is taken by the next reader. What
  holds without that condition is `SlotHoldsPrefix`: a worker's cache is never out of step
  with a request that goes on. Also as long as the coordinator's range is the first (see
  `layer_order`).
- `ShutdownEnds` unless the writer has locked itself out (see `writer_stuck`).

Five runs are expected to end in a violation: each checks one statement of the code's own
comments or docstrings against what the code does.

| run | statement | what happens |
|---|---|---|
| `recover` | clearing under a surviving table is "the cross-request wrong-answer class" | recovery clears by force and resets running requests only; a waiting one is later rebuilt from recycled ids |
| `abort_payload` | never "one request's KV under another request's hash" | an abort frees a block while the worker reads its payload from L2; the block is recycled and then filled |
| `writer_stuck` | the writer logs a failed batch and keeps serving: "a dead writer costs the whole L2 tier" | when a clear begins between the sealing of a fence and its last publication, the writer has to fail the fence itself, and waits for the root lock it holds |
| `layer_order` | "pipeline through each node's layer range in assignment order" | ranges are in the order of memory but the coordinator takes the first; with a larger worker some layers run twice and others never |
| `superseded_adopts` | "a superseded start must do nothing at all" | a stop during the last scan of a start does not keep it from writing the session's status and pid |

Some windows are left out of the models, so that the other properties are checked on the
system around them, and stand as hazards with a note: `Abort` in `PagedCache` does not meet
a request the worker is restoring (`PagedFaults` has it), recovery is in `PagedFaults` only,
a store does not raise, `Disconnect` and `Cancel` of `EngineCore` do not meet a request
between its two registrations, and `ProcessAborts` is one step.

## Proofs

All theorems hold for every value of the constants that satisfies the named assumptions:
`BlockAssumption`, `OrderAssumption`, `MaxRefAssumption`, `PoolAssumption` (the same three,
of `LinkedPool`), `SentinelAssumption`, `CacheAssumption`, `EngineAssumption`,
`DiskAssumption`, `LinkAssumption`, `SessionAssumption`. The bounds of the instances are
constants too, so nothing depends on how often something goes wrong: `MaxUpset`,
`MaxFaults`, `MaxBeat` are any natural numbers, `MaxEra` any positive one, and `MaxPid` any
from 3 up (an engine of an earlier run, one started by hand, and at least one of the
panel's). `CacheAssumption` asks that a fetch looks up at least one chain, as `fetch_cache`
does with the whole key, and that request ids differ from the names the model gives to
threads and candidates.

Each argument is an inductive invariant, a lemma per action (or per kind of step) that
preserves it, and theorems that read the properties off it. The listed properties are seldom
inductive alone; what had to be added is said below, because it is what the code relies on.

*Pool* (`BlockPool_proofs`). `PoolInv` is the conjunction of the type invariant,
`QueueExact`, `FreeIffUnreferenced`, `ReferencedIsAllocated` and `StatsExact`. The conjuncts
need each other, so `paged_ram` checks it as a whole: that a released block is appended to a
list it is not on follows from `FreeIffUnreferenced`, whose own preservation needs that the
list has no repetition; that `statAlloc` stays a natural number needs the sum in
`StatsExact`. Lemmas about removing an element from a sequence without repetitions,
appending to one and rotating one carry the proof; then there is one step per operation.
`PoolCorrect`, `PoolTypes` and `PoolExclusive` follow.

*Linked list* (`LinkedPool_proofs`). `Threads(l, q)` says that the pointers of `l` run along
`q` from sentinel to sentinel in both directions and that every other block has both
cleared; `LinkedInv` says it of the list and the walk from its head. There is a lemma per
list operation (`UnlinkThreads`, of which popleft is the case of the first block,
`AppendThreads`, `FreshThreads`, `TurnedThreads` for a rotation of any length), one for the
walk (`WalkFinds`) and one for the pointer tests (`PointerTests`). None needs the pool's own
invariants: that append finds its block unlinked is what its callers' test says, once the
test is known to mean membership. `LinkedImplementsPool` then maps each action to the action
of `BlockPool` of that name, and `LinkedPoolCorrect` carries `PoolInv` over by an instance
of `BlockPool_proofs`.

*Prefix cache* (`PagedCache_proofs`). Each of its actions changes the pool by one of the
pool's operations or not at all (`CacheStepIsPoolStep`, by their definitions), so the pool's
invariant holds under the cache too (`CachePoolInvariant`) without a second proof.
`CacheIndexSound` proves that the hash index never lies: the invariant is strengthened with
the fact that `hash` and `index` are functions on all blocks and hashes, and the pool
invariant supplies that what is taken from the list is a block; the one lemma
`RelabelKeepsSound` covers every way a block changes its hash.

*References and chains* (the second half of `PagedCache_proofs`). `CacheInv` joins `PoolInv`
and the index with four parts. `Control` says where the two threads are, which requests they
work for, and which registry holds a request at which stage of its life: the two never work
for the same request, and whoever walks over a table has the lock. `Counted` says that a
block's reference count is the number of places in `Held`, which names every holder: the
candidates `got` and `best` of the fetch, the walks in progress, and the tables of the
requests that own them (registered and not being given back, or being filled by a store).
`Chains` says what those blocks are for: a candidate carries the hashes of one of its
probes, a table those it was matched or stored for, and what a restore has read so far is
the hashes of the table's first blocks. `PayloadMatchesHash` is the last part. None is
inductive alone. A block that is held has a reference (`Counted`), so no allocation or
eviction changes its hash (`HashKept`, from `FreeIffUnreferenced`), so whatever fitted still
fits; hydration fills a block after its read without the lock, and writes the right payload
because the request held the block all the while (`RestorePayload`); and `clear`, which
forgets every table, leaves no holder behind because it is refused while a count is positive
(`NobodyHolds`). Steps that move references are moves, appends and removals on `Held`
(`MovedCount`, `PushedCount`, `PoppedCount`). `RefsHeld`, `TablesKeep`, `PayloadMatches`,
`ServedOwn` and `PagedTypes` are read off `CacheInv`.

*Engine* (`EngineCore_proofs`). `EngineInv` has six parts. `Types` adds to `EngineTypeOK`
what a client holds. `Control` says whose turn it is: where the loop may be while the worker
is somewhere, that the fence is down whenever a dispatched finished request has not been
stored (`FenceDown`, all that `EngineAdmission` and `EngineTerminal` need), and that every
generator row belongs to a request that is running, marked for removal, or just being
inserted (`RowsOwned`, which makes `has_requests` a sound test for idleness:
`EngineIdleIsClean`). `Places` says that a request is in one place at a time: not twice in
the queue, not queued and running, not in the worker's hand and either. `ClientSide` says
that nothing of a request exists before its client has been admitted. `InOrder` is the
token's way: what the client has read, followed by what is in the collector and what was
held back by the interval, are the first tokens of the request, and all those that were made
as long as the collector exists. `Complete` says that when a client can see a normal end, no
token can follow and none is missing. `EngineTokens` is a part of `InOrder`; `InOrder` and
`Complete` together are what the refinement `EngineImplementsStream` needs, whose step lemma
maps each action to an action of `RequestStream` or to a stutter.

*Disk store* (`DiskStore_proofs`). `DiskInv` joins the properties, which lean on one
another, with four facts about the code. `Shape` says at which positions of a call, of the
queue and of the batch there is something to count. `StopOrder` is the order in which a
shutdown closes the store: no admission, then no producer, then a dead writer behind an
empty queue, then the lease; `LeaseGoesLast` is read off it and the counters. `SameEra` says
that whatever is on its way to the index was admitted after the last clear, which holds
because `clear` waits until both counters are zero: this is where `CountersExact` is needed,
and `ClearIsFinal` is the result. `SealOrder` and `Awaited` say that a fence is sealed after
the last write of its call, and until it is done knows of every block on its way;
`FencesSettleLast` follows. The sums are those of `Bytes` in the model; lemmas say what an
append, a removal from the head and a change at one position do to such a sum.

*Workers* (`WorkerLink_proofs`). `AssignPartitions` is about the pure algorithm: for any
nodes, memories and number of layers the ranges are in order, none is empty, no node has
two, and together they are the layers from the first to the last. `LinkInv` has six parts.
`Turns`: the requests that run or wait are exactly those in the lock, and the one that runs
is its head; `LinkAborts` is a part of it. `ReadsOwn`: who waits for an answer asked the
stage it is at. `InStep`: for a request that goes on over an open connection, the passes on
their way to a worker are, in order and each once, those between what its slot has seen and
what was sent; the slot is never ahead and never misses one, which is `LinkSlots`. `Quiet`:
a connection that was not shaken has one reader, and carries one message at most, that
reader's question or its answer. `Way`: when the coordinator's range is the first and
nothing was shaken, the hidden states went through the stages before the present one, for
this token of this request. `LinkTokens` combines `Way` with `AssignPartitions`. `StepCases`
sorts the steps into a few kinds (one party asks, reads or gives up; a connection breaks; a
slot is reaped; a worker handles a message), so that each part is shown once per kind.

*Panel* (`SessionManager_proofs`). `PanelInv` has three parts. `TurnInv` is about the turns:
the members of a session's lock are exactly the requests that hold it or wait for it, the
one past the wait is its head, and the same for the gate (`Locks`, `Gates`); the fence is
the number of stops under way (`Fences`); and in every lock a start that is not superseded
stands behind every stop (`Order`), because a stop that joins the queue supersedes whatever
start is before it. So when such a start gets the lock, no stop is left in it, and what
supersedes it later has its fence up (`PortFenced`): this is the reason for the second check
of the epoch. `Typed` says which processes are whose. `Rest` relates engines to what is
known of them. Of the engines: a session has one that is loading or serving at most, and
once one serves nothing else of it is there (`OneEach`); none that the panel spawned is
beside one of an earlier run (`NotBeside`); one that is dying is beside a live one only
while a start waits for that (`Replaced`); and in single-model mode there is one at all
(`Solo`). Of each request (`RequestOK`): the engines it is about to signal serve its own
session (`Aims`); at the port and at the spawn no engine of the session is loaded, but for
one of an earlier run that holds the port and is about to be terminated (`Vacant`); in
single-model mode a start, once past the removals, finds no engine loaded but its own
session's (`Prunes`); a stop is at every live engine of its session (`Covers`); what is to
be removed is the only one of its session (`Clean`); whoever waits for an engine has spawned
one (`Spawns`); nobody puts to sleep or wakes a session whose left-over engine was missed at
startup (`Wary`). Of each session (`SessionOK`): the pids in the row and in what is managed
are the session's (`Agree`), what is managed is the live one (`Knows`), what was missed
stays out of the monitor's sight (`Unseen`), and with the fence down the engine is that of
the last epoch (`Wins`). `Vacant` is what makes the port check enough, although it looks for
engines only when the port is taken: the start that gets the lock is not superseded and
nothing is managed, so every engine the panel spawned for the session has been told to end
(`Knows`), and one of an earlier run has loaded and so holds the port. What is said about
live engines holds in the ordinary case only. Steps fall into those in which no engine
starts (`Wanes`: every promise about all live engines survives, and one lemma, `WanesStep`,
asks only about the session and the request that moved) and the two in which one does
(`Arrives`). `PanelStopWins`, `PanelTracked` and `PanelOneModel` are read off `PanelInv`.
The invariant was checked by TLC on the instance of `session` before it was proved.

Some definitions are written as they are for the provers. `Without` removes from a queue by
positions and the layer ranges are recursive functions, where `SelectSeq`, `SortSeq` or a
fold would do, because the provers know nothing of those. Induction over the natural numbers
is used in its set form (`AllNaturals` of `Queues_proofs`: a set of natural numbers that has
0 and every successor has them all), and `Recursion` states once that a recursive function
obeys its equation.

Only model-checked: liveness (`ShutdownEnds`, `EveryRequestEnds`, `EngineDrains`,
`SlotsFreed`, `EveryCallEnds`, `RowsSettle`), which is out of the prover's reach, and the
five statements that fail. Every other property of the passing runs is a theorem.

## Not modelled

- In `paged_cache.py`: `get_new_blocks`, `cache_full_blocks`, `find_cached_block`,
  `find_shared_prefix`, `fork_block_table`, copy-on-write, `popleft_n`, `append_n`: no
  caller in the engine. The byte accounting of RAM, native durability holds and the
  disk-only mode's discards; the RAM budget is the choice to evict (`Budget`).
- In `prefix_cache.py`: payload formats per model family, the normalisation of candidates
  that depends on them, the reconstruct memo, the MTP snapshots. Object identity of blocks
  across `clear` is not modelled, which is why `AbortSpec` goes without `Clear`. `Clear` is
  one step; in the code its check and its rebuild are two holds of the lock. The deferred
  release of durability holds joins this file to the disk store and is left out of both
  models.
- In `block_disk_store.py`: reading and validation, codecs and TurboQuant records,
  replacement of an existing record, waits for durability, the exact count of the 64 fences
  kept, what is done when the root lock is unavailable or when the budget's accounting
  raises, and the budget's janitor and health.
- In the scheduler: samplers, speculative decoding, logits, idle maintenance tasks,
  telemetry, memory estimates (that admission may be refused is kept).
- In the engine: start, `stop()` with its five-second limit and `close`, the mode without an
  executor. Request ids are used once in `EngineCore`.
- In `distributed/`: joining, authentication, loading, discovery, topology, election,
  shutdown and the loss of the coordinator; nothing in the code reconnects a lost worker.
  Messages are whole; two writers do not mix within one. The age of a slot is a choice of
  the sweeper, except that it spares what was touched since it last came.
- In the panel: remote sessions, configuration, logs and load progress, memory monitors,
  idle timers, external wakes, `stopAll`, the gateway, chats and their database, and health
  ticks that overlap.
- The multimodal scheduler is a second scheduler of the same shape around other tensors. The
  MCP client's only race is within its library, whose behaviour this repository does not
  show. The server, the parsers, the models, kernels and loaders, images and audio are
  conversion and tensor code; the renderer is user interface. They are most of the
  repository's lines, which is why the modelled lines are a small share of it.
  `PROJECT.json` has the reason per component.

## Plan

Every module of the original plan but the MCP client and the election is written, and every
component that is modelled is proved: the pool, the prefix cache, the engine, the disk
store, the workers and the panel. What would come next:

1. the windows named under "What the runs show" as part of the specifications themselves,
   once the code closes them (a table that dies with its pool, an answer that carries its
   request, a store that gives back what it took when it raises);
2. the deferred release of durability holds, which needs `PagedCache` and `DiskStore` in one
   model;
3. the MCP client and the election.
