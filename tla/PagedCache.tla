----------------------------- MODULE PagedCache -----------------------------
(***************************************************************************)
(* Prefix sharing over the block pool: PagedCacheManager (paged_cache.py), *)
(* BlockAwarePrefixCache (prefix_cache.py) and the places where the        *)
(* scheduler takes and gives back block references (scheduler.py).         *)
(*                                                                         *)
(* Two threads share the pool.  The event loop fetches prefixes, commits   *)
(* or rejects them, aborts requests and clears the cache; the worker       *)
(* restores a request's blocks before it runs and stores them when it has  *)
(* finished.  The manager's RLock is explicit: a step that needs it waits  *)
(* for lock = "free", and a loop over a block table keeps it across its    *)
(* steps.  Reading L2 and filling a restored block happen outside it.      *)
(*                                                                         *)
(* A block's KV tensors are abstracted to the chain hash they were         *)
(* computed for, so a payload under the wrong hash is visible.             *)
(***************************************************************************)
EXTENDS BlockPool

CONSTANTS
  Hash,       \* chained content hashes
  NoHash,     \* Python's None, for a hash or a payload
  Req,        \* request ids; a follow-up turn reuses one after it is done
  Probes,     \* Probes[r]: the chains fetch_cache looks up (the whole key,
              \* then the key without its last token), each a Seq(Hash)
  StoreChain, \* StoreChain[r]: the chain of the prompt stored on completion
  DiskStore,  \* an L2 block disk store is configured
  Budget      \* a resident-byte ceiling is enforced (RAM eviction happens)

\* At least the whole key is looked up.  The last conjunct keeps request ids
\* apart from the names this module gives to threads and to holders of blocks.
ASSUME CacheAssumption ==
  /\ NoHash \notin Hash
  /\ Probes \in [Req -> Seq(Seq(Hash))] /\ \A r \in Req : Probes[r] # <<>>
  /\ StoreChain \in [Req -> Seq(Hash)]
  /\ {DiskStore, Budget} \subseteq BOOLEAN
  /\ Req \cap {"none", "got", "best", "loop", "work"} = {}

VARIABLES
  frugal,  \* paged_frugal, a setting: stored payloads are not mirrored in RAM
  hash,    \* CacheBlock.block_hash
  data,    \* CacheBlock.cache_data, as the hash the tensors belong to
  disk,    \* blocks with cache_data_from_disk
  scratch, \* blocks with cache_data_transient
  index,   \* cached_block_hash_to_block: the blocks registered per hash
  l2,      \* readable L2 records
  flight,  \* L2 writes admitted and not yet published
  tbl,     \* the request's BlockTable (request.block_table)
  paged,   \* keys of PagedCacheManager.request_tables
  entries, \* keys of BlockAwarePrefixCache._request_tables
  stage,   \* where the request is in its life
  lock,    \* holder of the manager's RLock
  job      \* per thread, the call in progress

blockVars == <<hash, data, disk, scratch, index, flight>>
tableVars == <<tbl, paged, entries>>
vars == <<poolVars, blockVars, l2, tableVars, stage, lock, job, frugal>>

Payload == Hash \cup {NoHash}
Stages == {"idle", "fetching", "waiting", "restoring", "running", "aborted",
           "ghost", "salvage", "storing"}

Thread == {"loop", "work"}
Loop == job["loop"]
Work == job["work"]

\* pc: the step; req: the request; n: the probe being looked up; got, best:
\* candidates of a fetch; ids: blocks still to release, free or pin; then:
\* the step after them; goal: what a detach is for; pay: payloads read so
\* far; seen: restored blocks that came from L2 or are readable there.
NoReq == "none"
Idle == [pc |-> "idle", req |-> NoReq, n |-> 0, got |-> <<>>, best |-> <<>>,
         ids |-> <<>>, then |-> "idle", goal |-> "none", pay |-> <<>>,
         seen |-> {}]

CacheInit ==
  /\ PoolInit
  /\ frugal \in BOOLEAN /\ (frugal => DiskStore)
  /\ hash = [b \in Block |-> NoHash]
  /\ data = [b \in Block |-> NoHash]
  /\ disk = {} /\ scratch = {}
  /\ index = [h \in Hash |-> {}]
  /\ l2 = [h \in Hash |-> NoHash]
  /\ flight = [h \in Hash |-> NoHash]
  /\ tbl = [r \in Req |-> <<>>]
  /\ paged = {} /\ entries = {}
  /\ stage = [r \in Req |-> "idle"]
  /\ lock = "free"
  /\ job = [a \in Thread |-> Idle]

-----------------------------------------------------------------------------
(* Blocks and payloads.                                                    *)

Readable(h) == DiskStore /\ h # NoHash /\ l2[h] # NoHash

\* The durability fence may refuse to give up a cached payload only while an
\* L2 write is needed and the writer does not admit it.
MayRefuse(b) == DiskStore /\ hash[b] # NoHash /\ data[b] # NoHash
                          /\ ~Readable(hash[b])

\* Losing block b's payload writes it through to L2 first, if it must.
WriteThrough(b) ==
  IF MayRefuse(b) THEN [flight EXCEPT ![hash[b]] = data[b]] ELSE flight

\* BlockHashToBlockMap.get_block: any of the blocks registered under h.
Find(h) == {b \in Block : b \in index[h]}

\* BlockHashToBlockMap.pop of block b.
Unindexed(b) ==
  IF hash[b] = NoHash THEN index ELSE [index EXCEPT ![hash[b]] = @ \ {b}]

\* Fault: the old payload is written through under the new hash.
TakeForRelabelled(k, h, payload, fromDisk, transient) ==
  LET b == queue[k + 1] IN
    /\ \A i \in 1..k : MayRefuse(queue[i])
    /\ Take(k)
    /\ hash' = [hash EXCEPT ![b] = h]
    /\ data' = [data EXCEPT ![b] = payload]
    /\ disk' = IF fromDisk THEN disk \cup {b} ELSE disk \ {b}
    /\ scratch' = IF transient THEN scratch \cup {b} ELSE scratch \ {b}
    /\ flight' = IF MayRefuse(b) THEN [flight EXCEPT ![h] = data[b]] ELSE flight

\* Fault: a frugal store leaves the payload of the previous tenant attached.
TakeForDirty(k, h, payload, fromDisk, transient) ==
  LET b == queue[k + 1] IN
    /\ \A i \in 1..k : MayRefuse(queue[i])
    /\ Take(k)
    /\ hash' = [hash EXCEPT ![b] = h]
    /\ data' = IF payload = NoHash THEN data ELSE [data EXCEPT ![b] = payload]
    /\ disk' = IF fromDisk THEN disk \cup {b} ELSE disk \ {b}
    /\ scratch' = IF transient THEN scratch \cup {b} ELSE scratch \ {b}
    /\ flight' = WriteThrough(b)

\* allocate_block / _promote_from_disk: the first recyclable free block gets
\* a reference and a new identity; what it cached before is dropped.
TakeFor(k, h, payload, fromDisk, transient) ==
  LET b == queue[k + 1] IN
    /\ \A i \in 1..k : MayRefuse(queue[i])
    /\ Take(k)
    /\ hash' = [hash EXCEPT ![b] = h]
    /\ data' = [data EXCEPT ![b] = payload]
    /\ disk' = IF fromDisk THEN disk \cup {b} ELSE disk \ {b}
    /\ scratch' = IF transient THEN scratch \cup {b} ELSE scratch \ {b}
    /\ flight' = WriteThrough(b)

\* No block can be handed out: none is free, or every free one is pending.
NoneRecyclable == numFree = 0 \/ \A b \in Members(queue) : MayRefuse(b)

DropPayloads(S) ==
  /\ data' = [b \in Block |-> IF b \in S THEN NoHash ELSE data[b]]
  /\ disk' = disk \ S
  /\ scratch' = scratch \ S

\* Fault: every release is counted as a block leaving use.
ReleaseOneMiscounted(b) ==
  IF b \in allocated /\ refCount[b] > 0
    THEN /\ refCount' = [refCount EXCEPT ![b] = @ - 1]
         /\ statAlloc' = statAlloc - 1
         /\ IF refCount[b] = 1 THEN Enqueue(b) ELSE UNCHANGED <<queue, numFree, statFree>>
         /\ UNCHANGED <<allocated, blockVars>>
    ELSE UNCHANGED <<poolVars, blockVars>>

\* One table entry of release_request_refs: a transient payload dies with
\* the last reference; an unknown or unreferenced block is skipped.
ReleaseOne(b) ==
  IF b \in allocated /\ refCount[b] > 0
    THEN /\ ReleaseRef(b)
         /\ DropPayloads(IF refCount[b] = 1 THEN {b} \cap scratch ELSE {})
         /\ UNCHANGED <<hash, index, flight>>
    ELSE UNCHANGED <<poolVars, blockVars>>

\* One table entry of delete_block_table.
FreeOne(b) ==
  /\ IF b \in allocated /\ refCount[b] > 0 THEN FreeBlock(b)
                                           ELSE UNCHANGED poolVars
  /\ UNCHANGED blockVars

\* Fault: the budget pass does not spare referenced blocks.
EvictPayloadInUse(b) ==
  /\ Budget /\ lock = "free"
  /\ data[b] # NoHash /\ hash[b] # NoHash
  /\ hash' = [hash EXCEPT ![b] = NoHash]
  /\ index' = Unindexed(b)
  /\ DropPayloads({b})
  /\ flight' \in {WriteThrough(b), flight}
  /\ UNCHANGED <<poolVars, l2, tableVars, stage, lock, job>>

\* enforce_byte_budget: any unreferenced cached payload may be evicted; with
\* it go the block's hash and index entry.
EvictPayload(b) ==
  /\ Budget /\ lock = "free"
  /\ refCount[b] = 0 /\ data[b] # NoHash /\ hash[b] # NoHash
  /\ hash' = [hash EXCEPT ![b] = NoHash]
  /\ index' = Unindexed(b)
  /\ DropPayloads({b})
  /\ flight' \in {WriteThrough(b), flight}  \* the last-resort pass may lose it
  /\ UNCHANGED <<poolVars, l2, tableVars, stage, lock, job>>

\* The pool and every lookup structure start again (clear with force=True).
\* The tables requests hold on to themselves survive.
ResetCache ==
  /\ Rebuild
  /\ hash' = [b \in Block |-> NoHash]
  /\ data' = [b \in Block |-> NoHash]
  /\ disk' = {} /\ scratch' = {}
  /\ index' = [h \in Hash |-> {}]
  /\ paged' = {} /\ entries' = {}
  /\ UNCHANGED <<l2, flight>>

-----------------------------------------------------------------------------
(* Walking a block table under the lock, one entry per step.               *)

Set(a, rec) == job' = [job EXCEPT ![a] = rec]

\* Thread a takes the lock to release ids, then goes on with step then.
Walking(a, rec, ids, then) ==
  /\ lock = "free"
  /\ lock' = a
  /\ Set(a, [rec EXCEPT !.pc = "release", !.ids = ids, !.then = then])

ReleaseNext(a) ==
  /\ job[a].pc = "release" /\ job[a].ids # <<>>
  /\ ReleaseOne(Head(job[a].ids))
  /\ Set(a, [job[a] EXCEPT !.ids = Tail(@)])
  /\ UNCHANGED <<l2, tableVars, stage, lock>>

FreeNext ==
  /\ Loop.pc = "free" /\ Loop.ids # <<>>
  /\ FreeOne(Head(Loop.ids))
  /\ Set("loop", [Loop EXCEPT !.ids = Tail(@)])
  /\ UNCHANGED <<l2, tableVars, stage, lock>>

WalkEnd(a) ==
  /\ job[a].pc \in {"release", "free"} /\ job[a].ids = <<>>
  /\ Set(a, [job[a] EXCEPT !.pc = job[a].then, !.then = "idle"])
  /\ lock' = "free"
  /\ UNCHANGED <<poolVars, blockVars, l2, tableVars, stage>>

\* detach_request of both caches, after the release and outside its lock.
Detach(a) ==
  /\ job[a].pc = "detach" /\ lock = "free"
  /\ LET r == job[a].req
         goal == job[a].goal
     IN /\ tbl' = [tbl EXCEPT ![r] = <<>>]
        /\ entries' = entries \ {r}
        /\ paged' = IF goal = "store" THEN paged \cup {r} ELSE paged \ {r}
        /\ Set(a, IF goal = "store" THEN [Idle EXCEPT !.pc = "dedup", !.req = r]
                                    ELSE Idle)
        /\ stage' = [stage EXCEPT ![r] =
             CASE goal = "reject" -> "waiting"
               [] goal = "cold" -> IF @ = "aborted" THEN "ghost" ELSE "running"
               [] goal = "done" -> "idle"
               [] OTHER -> @]
  /\ UNCHANGED <<poolVars, blockVars, l2, lock>>

-----------------------------------------------------------------------------
(* The event loop: add_request's fetch.  It is synchronous on the loop and *)
(* waits for terminal cleanup, so only a worker step can interleave.       *)

Cleaning == Work.req # NoReq /\ stage[Work.req] = "storing"

StartFetch(r) ==
  /\ Loop.pc = "idle" /\ stage[r] = "idle" /\ ~Cleaning
  /\ Set("loop", [Idle EXCEPT !.pc = "probe", !.req = r, !.n = 1])
  /\ stage' = [stage EXCEPT ![r] = "fetching"]
  /\ UNCHANGED <<poolVars, blockVars, l2, tableVars, lock>>

Probe == Probes[Loop.req][Loop.n]
ProbeDone == Len(Loop.got) = Len(Probe)
Wanted == Probe[Len(Loop.got) + 1]

\* get_computed_blocks, L1: look up and touch under one lock hold.
LookupHit ==
  /\ Loop.pc = "probe" /\ ~ProbeDone /\ lock = "free"
  /\ \E b \in Find(Wanted) :
       /\ Touch(b)
       /\ Set("loop", [Loop EXCEPT !.got = Append(@, b)])
  /\ UNCHANGED <<blockVars, l2, tableVars, stage, lock>>

\* get_computed_blocks, L1 miss: read L2 without the lock, or stop.
LookupMiss ==
  /\ Loop.pc = "probe" /\ lock = "free"
  /\ ~ProbeDone => Find(Wanted) = {}
  /\ Set("loop", IF ~ProbeDone /\ Readable(Wanted)
                   THEN [Loop EXCEPT !.pc = "promote", !.pay = <<l2[Wanted]>>]
                   ELSE [Loop EXCEPT !.pc = "compare"])
  /\ UNCHANGED <<poolVars, blockVars, l2, tableVars, stage, lock>>

\* Back under the lock: somebody may have registered the hash meanwhile.
\* Otherwise _promote_from_disk; without room in RAM the payload is transient.
Promote ==
  /\ Loop.pc = "promote" /\ lock = "free"
  /\ \/ \E b \in Find(Wanted) :
          /\ Touch(b)
          /\ Set("loop", [Loop EXCEPT !.pc = "probe", !.pay = <<>>,
                                      !.got = Append(@, b)])
          /\ UNCHANGED blockVars
     \/ /\ Find(Wanted) = {} /\ NoneRecyclable
        /\ Set("loop", [Loop EXCEPT !.pc = "compare", !.pay = <<>>])
        /\ UNCHANGED <<poolVars, blockVars>>
     \/ \E k \in 0..(Len(queue) - 1), transient \in BOOLEAN :
          /\ Find(Wanted) = {}
          /\ frugal => transient
          /\ transient => frugal \/ Budget
          /\ TakeFor(k, Wanted, Loop.pay[1], TRUE, transient)
          /\ LET b == queue[k + 1] IN
               /\ index' = [Unindexed(b) EXCEPT ![Wanted] = @ \cup {b}]
               /\ Set("loop", [Loop EXCEPT !.pc = "probe", !.pay = <<>>,
                                           !.got = Append(@, b)])
  /\ UNCHANGED <<l2, tableVars, stage, lock>>

\* Fault: the references of the losing candidate are forgotten.
CompareLeaky ==
  /\ Loop.pc = "compare"
  /\ LET probes == Len(Probes[Loop.req])
         longer == Len(Loop.got) > Len(Loop.best)
     IN Walking("loop", [Loop EXCEPT !.got = <<>>, !.n = @ + 1,
                                     !.best = IF longer THEN Loop.got ELSE @],
                <<>>, IF Loop.n < probes THEN "probe"
                      ELSE IF Loop.n = probes THEN "match" ELSE "decide")
  /\ UNCHANGED <<poolVars, blockVars, l2, tableVars, stage>>

\* fetch_cache: the longer candidate is kept (the earlier one on a tie) and
\* the references of the other are released; then the next lookup starts.
CompareCandidates ==
  /\ Loop.pc = "compare"
  /\ LET probes == Len(Probes[Loop.req])
         longer == Len(Loop.got) > Len(Loop.best)
         winner == IF longer THEN Loop.got ELSE Loop.best
         loser == IF longer THEN Loop.best ELSE Loop.got
     IN Walking("loop", [Loop EXCEPT !.got = <<>>, !.best = winner, !.n = @ + 1],
                loser, IF Loop.n < probes THEN "probe"
                       ELSE IF Loop.n = probes THEN "match" ELSE "decide")
  /\ UNCHANGED <<poolVars, blockVars, l2, tableVars, stage>>

\* Fault: a cached chain of ids is believed as long as the ids are allocated.
CurrentById(ids, chain) == \A i \in 1..Len(ids) : ids[i] \in allocated

\* _find_best_prefix_match: the prefix index may know a chain of block ids
\* for a prefix; it counts only if every id still owns its exact hash.
\* (Which entries the index holds is left open.)
Current(ids, chain) ==
  \A i \in 1..Len(ids) : ids[i] \in allocated /\ hash[ids[i]] = chain[i]

MatchIndex ==
  /\ Loop.pc = "match" /\ lock = "free"
  /\ \E chain \in Members(Probes[Loop.req]) :
     \E n \in 0..Len(chain) : \E ids \in [1..n -> Block] :
       /\ Current(ids, chain)
       /\ Set("loop", [Loop EXCEPT !.pc = "pin", !.ids = ids])
  /\ lock' = "loop"
  /\ UNCHANGED <<poolVars, blockVars, l2, tableVars, stage>>

\* Pinning validated ids, still under the lock that validated them.
PinNext ==
  /\ Loop.pc = "pin" /\ Loop.ids # <<>>
  /\ IncrementRef(Head(Loop.ids))
  /\ Set("loop", [Loop EXCEPT !.ids = Tail(@), !.got = Append(@, Head(Loop.ids))])
  /\ UNCHANGED <<blockVars, l2, tableVars, stage, lock>>

Pinned ==
  /\ Loop.pc = "pin" /\ Loop.ids = <<>>
  /\ Set("loop", [Loop EXCEPT !.pc = "compare"])
  /\ lock' = "free"
  /\ UNCHANGED <<poolVars, blockVars, l2, tableVars, stage>>

\* A hit is registered with both owners of request tables. Admission may
\* prefer a clean prefill and give the blocks back (_detach_paged_candidate).
CommitFetch ==
  /\ Loop.pc = "decide"
  /\ LET r == Loop.req
         hit == IF Loop.best = <<>> THEN {} ELSE {r}
     IN /\ tbl' = [tbl EXCEPT ![r] = Loop.best]
        /\ paged' = paged \cup hit
        /\ entries' = entries \cup hit
        /\ \/ /\ stage' = [stage EXCEPT ![r] = "waiting"]
              /\ Set("loop", Idle)
              /\ UNCHANGED lock
           \/ /\ hit # {}
              /\ Walking("loop", [Idle EXCEPT !.req = r, !.goal = "reject"],
                         Loop.best, "detach")
              /\ UNCHANGED stage
  /\ UNCHANGED <<poolVars, blockVars, l2>>

\* Both tables of r are dropped and every block of the paged one is freed.
FreeTables(r) ==
  /\ lock = "free"
  /\ entries' = entries \ {r}
  /\ paged' = paged \ {r}
  /\ IF r \in paged
       THEN /\ lock' = "loop"
            /\ Set("loop", [Idle EXCEPT !.pc = "free", !.ids = tbl[r]])
       ELSE UNCHANGED <<lock, job>>

\* abort_request of a request the worker is not restoring. A running one
\* whose prompt snapshot survives in the generator is stored later by the
\* worker (salvage).
Abort(r) ==
  /\ Loop.pc = "idle" /\ stage[r] \in {"waiting", "running"}
  /\ FreeTables(r)
  /\ \E s \in {"idle"} \cup IF stage[r] = "running" THEN {"salvage"} ELSE {} :
       stage' = [stage EXCEPT ![r] = s]
  /\ tbl' = [tbl EXCEPT ![r] = <<>>]
  /\ UNCHANGED <<poolVars, blockVars, l2>>

InUse == \E b \in allocated : refCount[b] > 0

\* clear, as DELETE /v1/cache calls it: refused while a block is referenced.
Clear ==
  /\ lock = "free" /\ Loop.pc = "idle" /\ ~InUse
  /\ ResetCache
  /\ UNCHANGED <<tbl, stage, lock, job>>

-----------------------------------------------------------------------------
(* The worker: reconstruct_cache before a request runs.  It reads blocks   *)
(* and L2 and fills blocks without the lock; only its clean-up takes it.   *)

StartRestore(r) ==
  /\ Work.pc = "idle" /\ stage[r] = "waiting"
  /\ IF tbl[r] = <<>>
       THEN stage' = [stage EXCEPT ![r] = "running"] /\ UNCHANGED job
       ELSE /\ stage' = [stage EXCEPT ![r] = "restoring"]
            /\ Set("work", [Idle EXCEPT !.pc = "restore", !.req = r])
  /\ UNCHANGED <<poolVars, blockVars, l2, tableVars, lock>>

Restored == Len(Work.pay) = Len(tbl[Work.req])
Restoring == tbl[Work.req][Len(Work.pay) + 1]

\* The payload is in RAM.
RestoreHit ==
  /\ Work.pc = "restore" /\ ~Restored
  /\ LET b == Restoring IN
       /\ b \in allocated /\ data[b] # NoHash
       /\ Set("work", [Work EXCEPT
            !.pay = Append(@, data[b]),
            !.seen = @ \cup IF b \in disk \/ Readable(hash[b]) THEN {b} ELSE {}])
  /\ UNCHANGED <<poolVars, blockVars, l2, tableVars, stage, lock>>

\* It is not, but L2 has it ...
RestoreRead ==
  /\ Work.pc = "restore" /\ ~Restored
  /\ LET b == Restoring IN
       /\ b \in allocated /\ data[b] = NoHash /\ Readable(hash[b])
       /\ Set("work", [Work EXCEPT !.pc = "hydrate", !.pay = Append(@, l2[hash[b]])])
  /\ UNCHANGED <<poolVars, blockVars, l2, tableVars, stage, lock>>

\* ... and after the read the payload is stored in the block, whatever the
\* block is by then.
Hydrate ==
  /\ Work.pc = "hydrate"
  /\ LET n == Len(Work.pay)
         b == tbl[Work.req][n]
     IN /\ data' = [data EXCEPT ![b] = Work.pay[n]]
        /\ disk' = disk \cup {b}
        /\ scratch' = scratch \cup {b}
        /\ Set("work", [Work EXCEPT !.pc = "restore", !.seen = @ \cup {b}])
  /\ UNCHANGED <<poolVars, hash, index, flight, l2, tableVars, stage, lock>>

\* Every payload is there, or one is nowhere: clean up.
RestoreDone ==
  /\ Work.pc = "restore"
  /\ ~Restored => LET b == Restoring IN
                    b \in allocated => data[b] = NoHash /\ ~Readable(hash[b])
  /\ Set("work", [Work EXCEPT !.pc = "settle"])
  /\ UNCHANGED <<poolVars, blockVars, l2, tableVars, stage, lock>>

\* The finally clause, per block that has an L2 copy: a promoted payload stays
\* as an ordinary RAM mirror, a transient one is dropped.
SettleNext ==
  /\ Work.pc = "settle" /\ lock = "free"
  /\ \E b \in Work.seen :
       /\ IF b \in allocated
            THEN IF Restored /\ b \notin scratch /\ ~frugal
                   THEN disk' = disk \ {b} /\ UNCHANGED <<data, scratch>>
                   ELSE DropPayloads({b})
            ELSE UNCHANGED <<data, disk, scratch>>
       /\ Set("work", [Work EXCEPT !.seen = @ \ {b}])
  /\ UNCHANGED <<poolVars, hash, index, flight, l2, tableVars, stage, lock>>

\* The request runs on the restored cache, or falls back to a cold prefill
\* and gives its blocks back (_release_unusable_paged_hit).
SettleEnd ==
  /\ Work.pc = "settle" /\ Work.seen = {}
  /\ LET r == Work.req IN
       IF Restored
         THEN /\ Set("work", Idle)
              /\ stage' = [stage EXCEPT ![r] = IF @ = "aborted" THEN "ghost"
                                              ELSE "running"]
              /\ UNCHANGED lock
         ELSE /\ Walking("work", [Idle EXCEPT !.req = r, !.goal = "cold"],
                         tbl[r], "detach")
              /\ UNCHANGED stage
  /\ UNCHANGED <<poolVars, blockVars, l2, tableVars>>

-----------------------------------------------------------------------------
(* The worker: _cleanup_finished stores a finished request, and the        *)
(* deferred abort stores a prompt snapshot (_store_aborted_prompt_snapshot)*)

\* Thread a gives back the table entries[r] names, if it names one.
GiveBack(r, goal) ==
  LET rec == [Idle EXCEPT !.req = r, !.goal = goal] IN
  IF r \in entries THEN Walking("work", rec, tbl[r], "detach")
                   ELSE /\ Set("work", [rec EXCEPT !.pc = "detach"])
                        /\ UNCHANGED lock

\* The references of the fetched prefix are released before the store. The
\* cleanup fence is down from here on, so no fetch overlaps a store.
StartStore(r) ==
  /\ Work.pc = "idle" /\ Loop.pc = "idle" /\ stage[r] \in {"running", "ghost"}
  /\ GiveBack(r, "store")
  /\ stage' = [stage EXCEPT ![r] = "storing"]
  /\ UNCHANGED <<poolVars, blockVars, l2, tableVars>>

StartSalvage(r) ==
  /\ Work.pc = "idle" /\ stage[r] = "salvage"
  /\ Set("work", [Idle EXCEPT !.pc = "detach", !.req = r, !.goal = "store"])
  /\ UNCHANGED <<poolVars, blockVars, l2, tableVars, stage, lock>>

Storing == Work.pc \in {"dedup", "alloc"}
StoreDone == Len(tbl[Work.req]) = Len(StoreChain[Work.req])
NextHash == StoreChain[Work.req][Len(tbl[Work.req]) + 1]
Appended(b) == tbl' = [tbl EXCEPT ![Work.req] = Append(@, b)]

\* A block with neither a RAM nor an L2 payload is not worth sharing.
Usable(b) == data[b] # NoHash \/ Readable(hash[b]) \/ ~DiskStore

\* store_cache, a block already cached under this hash: share it.
Dedup ==
  /\ Work.pc = "dedup" /\ ~StoreDone /\ lock = "free"
  /\ \E b \in Find(NextHash) : Usable(b) /\ Touch(b) /\ Appended(b)
  /\ UNCHANGED <<blockVars, l2, paged, entries, stage, lock, job>>

\* store_cache, no such block: the next step allocates one.
NoDuplicate ==
  /\ Work.pc = "dedup" /\ ~StoreDone /\ lock = "free"
  /\ Find(NextHash) = {} \/ \E b \in Find(NextHash) : ~Usable(b)
  /\ Set("work", [Work EXCEPT !.pc = "alloc"])
  /\ UNCHANGED <<poolVars, blockVars, l2, tableVars, stage, lock>>

\* Fault: a recycled block stays registered under its former hash.
AllocStale ==
  /\ Work.pc = "alloc" /\ lock = "free"
  /\ \E k \in 0..(Len(queue) - 1) :
       /\ TakeFor(k, NextHash, IF frugal THEN NoHash ELSE NextHash, FALSE, FALSE)
       /\ Appended(queue[k + 1])
  /\ Set("work", [Work EXCEPT !.pc = "register"])
  /\ UNCHANGED <<index, l2, paged, entries, stage, lock>>

\* store_cache, a fresh block for the next hash, filled at once.
Alloc ==
  /\ Work.pc = "alloc" /\ lock = "free"
  /\ \E k \in 0..(Len(queue) - 1) :
       /\ TakeFor(k, NextHash, IF frugal THEN NoHash ELSE NextHash, FALSE, FALSE)
       /\ index' = Unindexed(queue[k + 1])
       /\ Appended(queue[k + 1])
  /\ Set("work", [Work EXCEPT !.pc = "register"])
  /\ UNCHANGED <<l2, paged, entries, stage, lock>>

\* Capacity reached: what has been stored so far is published.
AllocFails ==
  /\ Work.pc = "alloc" /\ lock = "free" /\ NoneRecyclable
  /\ Set("work", [Work EXCEPT !.pc = "publish"])
  /\ UNCHANGED <<poolVars, blockVars, l2, tableVars, stage, lock>>

\* The new block's L2 write is queued, or refused, and the block registered.
Register ==
  /\ Work.pc = "register" /\ lock = "free"
  /\ LET b == tbl[Work.req][Len(tbl[Work.req])]
         h == hash[b]
     IN /\ index' = [index EXCEPT ![h] = @ \cup {b}]
        /\ flight' \in {flight} \cup IF DiskStore THEN {[flight EXCEPT ![h] = h]}
                                                 ELSE {}
  /\ Set("work", [Work EXCEPT !.pc = "dedup"])
  /\ UNCHANGED <<poolVars, hash, data, disk, scratch, l2, tableVars, stage, lock>>

\* store_cache returns: the table becomes an entry of the prefix cache.
Publish ==
  /\ Work.pc = "publish" \/ (Work.pc = "dedup" /\ StoreDone)
  /\ entries' = entries \cup {Work.req}
  /\ Set("work", [Work EXCEPT !.pc = "stored"])
  /\ UNCHANGED <<poolVars, blockVars, l2, tbl, paged, stage, lock>>

\* The post-store release: the stored blocks become cached but free.
PostStore ==
  /\ Work.pc = "stored"
  /\ GiveBack(Work.req, "done")
  /\ UNCHANGED <<poolVars, blockVars, l2, tableVars, stage>>

-----------------------------------------------------------------------------
(* The disk store, external to the pool: a queued write lands or is lost,  *)
(* a record is evicted by the disk budget.                                 *)

PublishWrite(h) ==
  /\ flight[h] # NoHash
  /\ l2' = [l2 EXCEPT ![h] = flight[h]]
  /\ flight' = [flight EXCEPT ![h] = NoHash]
  /\ UNCHANGED <<poolVars, hash, data, disk, scratch, index, tableVars, stage, lock, job>>

LoseWrite(h) ==
  /\ flight[h] # NoHash
  /\ flight' = [flight EXCEPT ![h] = NoHash]
  /\ UNCHANGED <<poolVars, hash, data, disk, scratch, index, l2, tableVars, stage, lock, job>>

EvictL2(h) ==
  /\ l2[h] # NoHash
  /\ l2' = [l2 EXCEPT ![h] = NoHash]
  /\ UNCHANGED <<poolVars, blockVars, tableVars, stage, lock, job>>

-----------------------------------------------------------------------------
Fetching ==
  \/ \E r \in Req : StartFetch(r)
  \/ LookupHit \/ LookupMiss \/ Promote \/ CompareCandidates
  \/ MatchIndex \/ PinNext \/ Pinned \/ CommitFetch

Ending ==
  \/ \E r \in Req : Abort(r)
  \/ FreeNext
  \/ \E a \in Thread : ReleaseNext(a) \/ WalkEnd(a) \/ Detach(a)

RestoringSteps ==
  \/ \E r \in Req : StartRestore(r)
  \/ RestoreHit \/ RestoreRead \/ Hydrate \/ RestoreDone
  \/ SettleNext \/ SettleEnd

StoringSteps ==
  \/ \E r \in Req : StartStore(r) \/ StartSalvage(r)
  \/ Dedup \/ NoDuplicate \/ Alloc \/ AllocFails \/ Register
  \/ Publish \/ PostStore

Environment ==
  \/ \E b \in Block : EvictPayload(b)
  \/ \E h \in Hash : PublishWrite(h) \/ LoseWrite(h) \/ EvictL2(h)

Serving == Fetching \/ Ending \/ RestoringSteps \/ StoringSteps \/ Environment

CacheNext == (Serving \/ Clear) /\ UNCHANGED frugal

CacheSpec == CacheInit /\ [][CacheNext]_vars

-----------------------------------------------------------------------------
(* Who holds what.                                                         *)

\* The requests whose tables own references: registered with either cache
\* and not being given back by a walk, or being filled by a store.
GivingBack(r) == \E a \in Thread : /\ job[a].req = r /\ job[a].goal # "none"
                                  /\ job[a].pc \in {"release", "detach"}
Filling(r) == Work.req = r /\ Work.pc \in {"dedup", "alloc", "register", "publish"}
Owners == {r \in Req : Filling(r) \/ (r \in paged \cup entries /\ ~GivingBack(r))}

Walked(a) == IF job[a].pc \in {"release", "free"} THEN job[a].ids ELSE <<>>

Holding == {<<r, tbl[r]>> : r \in Owners}
           \cup {<<"got", Loop.got>>, <<"best", Loop.best>>}
           \cup {<<a, Walked(a)>> : a \in Thread}

(* Type invariant. *)
PagedTypeOK ==
  /\ PoolTypeOK
  /\ hash \in [Block -> Payload] /\ data \in [Block -> Payload]
  /\ disk \subseteq Block /\ scratch \subseteq Block
  /\ index \in [Hash -> SUBSET Block]
  /\ l2 \in [Hash -> Payload] /\ flight \in [Hash -> Payload]
  /\ \A r \in Req : Members(tbl[r]) \subseteq Block
  /\ paged \subseteq Req /\ entries \subseteq Req
  /\ stage \in [Req -> Stages]
  /\ lock \in {"free"} \cup Thread

(* Every reference of every block is somebody's: a request that can still  *)
(* give it back, or a call in progress that will.  One too many pins the   *)
(* block forever, one too few recycles it under its holder.                *)
RefsAreHeld ==
  \A b \in Block :
    refCount[b] = Cardinality(UNION {{<<c[1], i>> : i \in {j \in 1..Len(c[2]) : c[2][j] = b}}
                                     : c \in Holding})

(* No KV is cached, on its way to disk, or on disk under the hash of other *)
(* tokens: what the comment in _pop_recyclable_free_block_locked fears.    *)
PayloadMatchesHash ==
  /\ \A b \in Block : hash[b] # NoHash => data[b] \in {NoHash, hash[b]}
  /\ \A h \in Hash : l2[h] \in {NoHash, h} /\ flight[h] \in {NoHash, h}

(* Between fetch and reconstruct, and while a store is in progress, the    *)
(* blocks of a request's table keep the hashes they were matched for: no   *)
(* allocation recycles a block id somebody still names.                    *)
TablesKeepChain ==
  \A r \in Req :
    /\ stage[r] \in {"waiting", "restoring"} /\ ~GivingBack(r) =>
         \E chain \in Members(Probes[r]) :
           \A i \in 1..Len(tbl[r]) : i <= Len(chain) /\ hash[tbl[r][i]] = chain[i]
    /\ Filling(r) =>
         \A i \in 1..Len(tbl[r]) : hash[tbl[r][i]] = StoreChain[r][i]

(* A request is only ever served the KV of its own tokens.                 *)
ServedOwnPrefix ==
  \A r \in Req : Work.pc \in {"restore", "hydrate", "settle"} /\ Work.req = r =>
    \E chain \in Members(Probes[r]) :
      \A i \in 1..Len(Work.pay) : i <= Len(chain) /\ Work.pay[i] = chain[i]

(* The hash index never lies: a block found by a hash carries that hash.   *)
(* get_computed_blocks and store_cache share what they find unchecked.     *)
IndexSound == \A b \in Block, h \in Hash : b \in index[h] => hash[b] = h
=============================================================================
