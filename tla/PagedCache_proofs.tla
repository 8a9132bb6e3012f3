------------------------- MODULE PagedCache_proofs -------------------------
(***************************************************************************)
(* PagedCache uses the block pool only as BlockPool allows, so whatever is *)
(* proved of the pool holds under every interleaving of fetches, restores, *)
(* stores and aborts; and its hash index never names a block that was      *)
(* given to other tokens.  For any number of blocks, hashes and requests.  *)
(*                                                                         *)
(* The second half is about who holds a block reference, and what the      *)
(* blocks held are for.  The invariant CacheInv has four parts beyond the  *)
(* pool's and the index's: where the two threads are and which requests    *)
(* they work for (Control); that a block's reference count is the number   *)
(* of places where it is held (Counted); that whatever is held still       *)
(* carries the hashes it was matched or stored for (Chains); and that      *)
(* payloads belong to the hash they are kept under (PayloadMatchesHash).   *)
(* Each supports the other: a held block has a reference, so it is not     *)
(* recycled and keeps its hash; and clear, refused while a block is        *)
(* referenced, finds nothing held.                                         *)
(***************************************************************************)
EXTENDS PagedCache, BlockPool_proofs, FiniteSetTheorems, SequenceTheorems

-----------------------------------------------------------------------------
(* Every step of the cache is a step of the pool, or none.                 *)

\* Taking a block for a hash is taking a block.
LEMMA TakeForIsTake ==
  ASSUME NEW k \in 0..(Len(queue) - 1), NEW h, NEW payload, NEW fromDisk, NEW transient,
         TakeFor(k, h, payload, fromDisk, transient)
  PROVE  PoolNext
BY DEF TakeFor, PoolNext

\* Releasing a table entry is a release of the pool, or nothing.
LEMMA ReleaseOneIsPoolStep ==
  ASSUME PoolInv, NEW b, ReleaseOne(b)
  PROVE  [PoolNext]_poolVars
BY DEF ReleaseOne, PoolNext, PoolInv, PoolTypeOK

\* Freeing a table entry is a free of the pool, or nothing.
LEMMA FreeOneIsPoolStep ==
  ASSUME PoolInv, NEW b, FreeOne(b)
  PROVE  [PoolNext]_poolVars
BY DEF FreeOne, PoolNext, PoolInv, PoolTypeOK

\* Fetches use the pool as it allows.
LEMMA FetchingStep ==
  ASSUME PoolInv, Fetching
  PROVE  [PoolNext]_poolVars
<1>1. CASE \E r \in Req : StartFetch(r)
  BY <1>1 DEF StartFetch
<1>2. CASE LookupHit
  BY <1>2 DEF LookupHit, Find, PoolNext
<1>3. CASE LookupMiss \/ CompareCandidates \/ MatchIndex \/ Pinned \/ CommitFetch
  BY <1>3 DEF LookupMiss, CompareCandidates, MatchIndex, Pinned, CommitFetch
<1>4. CASE Promote
  BY <1>4, TakeForIsTake DEF Promote, Find, PoolNext
<1>5. CASE PinNext
  BY <1>5 DEF PinNext, IncrementRef, PoolNext, PoolInv, PoolTypeOK
<1>. QED  BY <1>1, <1>2, <1>3, <1>4, <1>5 DEF Fetching

\* So do aborts, walks and detaches.
LEMMA EndingStep ==
  ASSUME PoolInv, Ending
  PROVE  [PoolNext]_poolVars
<1>1. CASE \E r \in Req : Abort(r)
  BY <1>1 DEF Abort
<1>2. CASE FreeNext
  BY <1>2, FreeOneIsPoolStep DEF FreeNext
<1>3. CASE \E a \in Thread : ReleaseNext(a)
  BY <1>3, ReleaseOneIsPoolStep DEF ReleaseNext
<1>4. CASE \E a \in Thread : WalkEnd(a) \/ Detach(a)
  BY <1>4 DEF WalkEnd, Detach
<1>. QED  BY <1>1, <1>2, <1>3, <1>4 DEF Ending

\* So do stores.
LEMMA StoringStep ==
  ASSUME PoolInv, StoringSteps
  PROVE  [PoolNext]_poolVars
<1>1. CASE \E r \in Req : StartStore(r) \/ StartSalvage(r)
  BY <1>1 DEF StartStore, StartSalvage
<1>2. CASE Dedup
  BY <1>2 DEF Dedup, Find, PoolNext
<1>3. CASE Alloc
  BY <1>3, TakeForIsTake DEF Alloc
<1>4. CASE NoDuplicate \/ AllocFails \/ Register \/ Publish \/ PostStore
  BY <1>4 DEF NoDuplicate, AllocFails, Register, Publish, PostStore
<1>. QED  BY <1>1, <1>2, <1>3, <1>4 DEF StoringSteps

\* Every step of the cache is a step of the pool or leaves it alone.
LEMMA CacheStepIsPoolStep ==
  ASSUME PoolInv, [CacheNext]_vars
  PROVE  [PoolNext]_poolVars
<1>1. CASE UNCHANGED vars
  BY <1>1 DEF vars
<1>2. CASE RestoringSteps
  BY <1>2 DEF RestoringSteps, StartRestore, RestoreHit, RestoreRead, Hydrate,
              RestoreDone, SettleNext, SettleEnd
<1>3. CASE Environment
  BY <1>3 DEF Environment, EvictPayload, PublishWrite, LoseWrite, EvictL2
<1>4. CASE Clear
  BY <1>4 DEF Clear, ResetCache, PoolNext
<1>. QED  BY <1>1, <1>2, <1>3, <1>4, FetchingStep, EndingStep, StoringStep
          DEF CacheNext, Serving

(* The pool stays a correct pool under the cache: whatever fetches,        *)
(* restores, stores, aborts and clears do, the free list, the registry,    *)
(* the reference counts and the counters agree.                            *)
THEOREM CachePoolInvariant == CacheSpec => []PoolInv
<1>1. CacheInit => PoolInv
  BY FreshInv DEF CacheInit
<1>2. PoolInv /\ [CacheNext]_vars => PoolInv'
  BY CacheStepIsPoolStep, PoolStep
<1>. QED  BY <1>1, <1>2, PTL DEF CacheSpec

-----------------------------------------------------------------------------
(* The hash index.                                                         *)

\* IndexSound, and that hash and index stay functions on Block and on Hash.
IndexInv ==
  /\ hash = [b \in Block |-> hash[b]]
  /\ index = [h \in Hash |-> index[h]]
  /\ IndexSound

\* Taking b out of the index leaves no entry for it.
LEMMA UnindexedFacts ==
  ASSUME IndexInv, NEW b \in Block
  PROVE  /\ Unindexed(b) = [h \in Hash |-> Unindexed(b)[h]]
         /\ \A h \in Hash : Unindexed(b)[h] = index[h] \ {b}
<1>1. \A h \in Hash : h # hash[b] => b \notin index[h]
  BY DEF IndexInv, IndexSound
<1>2. CASE hash[b] = NoHash
  BY <1>1, <1>2, CacheAssumption DEF Unindexed, IndexInv
<1>3. CASE hash[b] # NoHash
  BY <1>1, <1>3 DEF Unindexed, IndexInv
<1>. QED  BY <1>2, <1>3

\* A step that touches neither keeps the invariant.
LEMMA IndexUnchanged ==
  ASSUME IndexInv, UNCHANGED <<hash, index>>
  PROVE  IndexInv'
BY DEF IndexInv, IndexSound

\* Block b gets hash g and stays, or becomes, registered under h only if
\* that is its hash.
LEMMA RelabelKeepsSound ==
  ASSUME IndexInv, NEW b \in Block, NEW g,
         hash' = [hash EXCEPT ![b] = g],
         \/ index' = Unindexed(b)
         \/ index' = [Unindexed(b) EXCEPT ![g] = @ \cup {b}]
  PROVE  IndexInv'
<1>1. hash' = [c \in Block |-> hash'[c]] /\ hash'[b] = g
      /\ \A c \in Block : c # b => hash'[c] = hash[c]
  BY DEF IndexInv
<1>2. index' = [h \in Hash |-> index'[h]]
  BY UnindexedFacts
<1>3. ASSUME NEW c \in Block, NEW h \in Hash, c \in index'[h]
      PROVE  hash'[c] = h
  <2>1. CASE c = b
    BY <1>1, <1>3, <2>1, UnindexedFacts
  <2>2. CASE c # b
    <3>1. c \in index[h]
      BY <1>3, <2>2, UnindexedFacts
    <3>. QED  BY <1>1, <2>2, <3>1 DEF IndexInv, IndexSound
  <2>. QED  BY <2>1, <2>2
<1>. QED  BY <1>1, <1>2, <1>3 DEF IndexInv, IndexSound

\* Fetches keep the index sound: a promoted block leaves its old entry.
LEMMA FetchingIndex ==
  ASSUME PoolInv, IndexInv, Fetching
  PROVE  IndexInv'
<1> USE DEF blockVars
<1>1. CASE \E r \in Req : StartFetch(r)
  BY <1>1, IndexUnchanged DEF StartFetch
<1>2. CASE LookupHit \/ LookupMiss \/ CompareCandidates
  BY <1>2, IndexUnchanged DEF LookupHit, LookupMiss, CompareCandidates
<1>3. CASE MatchIndex \/ PinNext \/ Pinned \/ CommitFetch
  BY <1>3, IndexUnchanged DEF MatchIndex, PinNext, Pinned, CommitFetch
<1>4. CASE Promote
  <2>1. CASE UNCHANGED blockVars
    BY <2>1, IndexUnchanged
  <2>2. CASE \E k \in 0..(Len(queue) - 1), transient \in BOOLEAN :
               /\ TakeFor(k, Wanted, Loop.pay[1], TRUE, transient)
               /\ index' = [Unindexed(queue[k + 1]) EXCEPT
                              ![Wanted] = @ \cup {queue[k + 1]}]
    <3>1. PICK k \in 0..(Len(queue) - 1), transient \in BOOLEAN :
               /\ TakeFor(k, Wanted, Loop.pay[1], TRUE, transient)
               /\ index' = [Unindexed(queue[k + 1]) EXCEPT
                              ![Wanted] = @ \cup {queue[k + 1]}]
      BY <2>2
    <3>2. queue[k + 1] \in Block
      BY DEF PoolInv, PoolTypeOK
    <3>3. hash' = [hash EXCEPT ![queue[k + 1]] = Wanted]
      BY <3>1 DEF TakeFor
    <3>. QED  BY <3>1, <3>2, <3>3, RelabelKeepsSound
  <2>. QED  BY <1>4, <2>1, <2>2 DEF Promote
<1>. QED  BY <1>1, <1>2, <1>3, <1>4 DEF Fetching

\* Aborts, walks and detaches leave the index alone.
LEMMA EndingIndex ==
  ASSUME IndexInv, Ending
  PROVE  IndexInv'
<1> USE DEF blockVars
<1>1. CASE \E r \in Req : Abort(r)
  BY <1>1, IndexUnchanged DEF Abort
<1>2. CASE FreeNext
  BY <1>2, IndexUnchanged DEF FreeNext, FreeOne
<1>3. CASE \E a \in Thread : ReleaseNext(a)
  BY <1>3, IndexUnchanged DEF ReleaseNext, ReleaseOne
<1>4. CASE \E a \in Thread : WalkEnd(a) \/ Detach(a)
  BY <1>4, IndexUnchanged DEF WalkEnd, Detach
<1>. QED  BY <1>1, <1>2, <1>3, <1>4 DEF Ending

\* Stores register a block under the hash it has.
LEMMA StoringIndex ==
  ASSUME PoolInv, IndexInv, StoringSteps
  PROVE  IndexInv'
<1> USE DEF blockVars
<1>1. CASE \E r \in Req : StartStore(r) \/ StartSalvage(r)
  BY <1>1, IndexUnchanged DEF StartStore, StartSalvage
<1>2. CASE Dedup \/ NoDuplicate \/ AllocFails \/ Publish \/ PostStore
  BY <1>2, IndexUnchanged DEF Dedup, NoDuplicate, AllocFails, Publish, PostStore
<1>3. CASE Alloc
  <2>1. PICK k \in 0..(Len(queue) - 1) :
          /\ TakeFor(k, NextHash, IF frugal THEN NoHash ELSE NextHash, FALSE, FALSE)
          /\ index' = Unindexed(queue[k + 1])
    BY <1>3 DEF Alloc
  <2>2. queue[k + 1] \in Block
    BY DEF PoolInv, PoolTypeOK
  <2>3. hash' = [hash EXCEPT ![queue[k + 1]] = NextHash]
    BY <2>1 DEF TakeFor
  <2>. QED  BY <2>1, <2>2, <2>3, RelabelKeepsSound
<1>4. CASE Register
  <2> DEFINE b == tbl[Work.req][Len(tbl[Work.req])]
  <2>1. index' = [index EXCEPT ![hash[b]] = @ \cup {b}] /\ hash' = hash
    BY <1>4 DEF Register
  <2> HIDE DEF b
  <2>. QED  BY <2>1 DEF IndexInv, IndexSound
<1>. QED  BY <1>1, <1>2, <1>3, <1>4 DEF StoringSteps

\* Every step of the cache keeps the index sound.
LEMMA CacheStepKeepsIndex ==
  ASSUME PoolInv, IndexInv, [CacheNext]_vars
  PROVE  IndexInv'
<1> USE DEF blockVars
<1>1. CASE UNCHANGED vars
  BY <1>1, IndexUnchanged DEF vars
<1>2. CASE RestoringSteps
  BY <1>2, IndexUnchanged
     DEF RestoringSteps, StartRestore, RestoreHit, RestoreRead, Hydrate,
         RestoreDone, SettleNext, SettleEnd
<1>3. CASE \E b \in Block : EvictPayload(b)
  BY <1>3, RelabelKeepsSound DEF EvictPayload
<1>4. CASE \E h \in Hash : PublishWrite(h) \/ LoseWrite(h) \/ EvictL2(h)
  BY <1>4, IndexUnchanged DEF PublishWrite, LoseWrite, EvictL2
<1>5. CASE Clear
  BY <1>5 DEF Clear, ResetCache, IndexInv, IndexSound
<1>. QED  BY <1>1, <1>2, <1>3, <1>4, <1>5, FetchingIndex, EndingIndex, StoringIndex
          DEF CacheNext, Serving, Environment

(* Whatever recycling, promotion, eviction and clearing did before, a block *)
(* that a lookup finds under a hash holds the tokens of that hash.          *)
THEOREM CacheIndexSound == CacheSpec => []IndexSound
<1>1. CacheInit => IndexInv
  BY DEF CacheInit, IndexInv, IndexSound
<1>2. PoolInv /\ IndexInv /\ [CacheNext]_vars => IndexInv'
  BY CacheStepKeepsIndex
<1>3. IndexInv => IndexSound
  BY DEF IndexInv
<1>. QED  BY <1>1, <1>2, <1>3, CachePoolInvariant, PTL DEF CacheSpec

-----------------------------------------------------------------------------
(* Who holds a reference, and where.                                       *)

Label == Req \cup {"got", "best"} \cup Thread
Hold(x) == IF x \in Req THEN IF x \in Owners THEN tbl[x] ELSE <<>>
           ELSE IF x = "got" THEN Loop.got
           ELSE IF x = "best" THEN Loop.best
           ELSE Walked(x)
Held == [x \in Label |-> Hold(x)]

\* The places at which block b occurs in the sequences of H.
Uses(H, b) == {u \in Label \X Nat : u[2] \in 1..Len(H[u[1]]) /\ H[u[1]][u[2]] = b}
Counted(H, R) ==
  \A b \in Block : IsFiniteSet(Uses(H, b)) /\ R[b] = Cardinality(Uses(H, b))

-----------------------------------------------------------------------------
(* The calls in progress.                                                  *)

FetchPc == {"probe", "promote", "compare", "match", "pin", "decide"}
StorePc == {"dedup", "alloc", "register", "publish", "stored"}
RestorePc == {"restore", "hydrate", "settle"}

Calls ==
  [pc : FetchPc \cup StorePc \cup RestorePc \cup {"idle", "release", "free", "detach"},
   req : Req \cup {NoReq}, n : Nat, got : Seq(Block), best : Seq(Block), ids : Seq(Block),
   then : {"idle", "probe", "match", "decide", "detach"},
   goal : {"none", "reject", "cold", "store", "done"},
   pay : Seq(Payload), seen : SUBSET Block]

\* Where thread a is, or will be when it has released what it walks over.
At(a) == IF job[a].pc = "release" THEN job[a].then ELSE job[a].pc

LoopTurn ==
  /\ At("loop") \in FetchPc \cup {"idle", "free", "detach"}
  /\ Loop.pc # "release" => Loop.then = "idle"
  /\ lock = "loop" <=> Loop.pc \in {"release", "free", "pin"}
  /\ At("loop") \in {"idle", "free"} => Loop.req = NoReq /\ Loop.goal = "none"
  /\ At("loop") \in FetchPc =>
       /\ Loop.req \in Req /\ Loop.goal = "none" /\ stage[Loop.req] = "fetching"
       /\ Loop.req \notin paged \cup entries
  /\ At("loop") = "detach" =>
       Loop.req \in Req /\ Loop.goal = "reject" /\ stage[Loop.req] = "fetching"
  /\ At("loop") \notin FetchPc => Loop.got = <<>> /\ Loop.best = <<>>
  /\ Loop.pc = "release" => Loop.got = <<>>
  /\ At("loop") \in {"match", "decide"} => Loop.got = <<>>
  /\ At("loop") \in {"probe", "promote"} =>
       Loop.n \in 1..Len(Probes[Loop.req]) /\ Len(Loop.got) <= Len(Probe)
  /\ At("loop") = "promote" => ~ProbeDone /\ Len(Loop.pay) = 1
  /\ At("loop") \in {"match", "pin"} => Loop.n = Len(Probes[Loop.req]) + 1
  /\ At("loop") = "compare" => Loop.n \in 1..(Len(Probes[Loop.req]) + 1)

WorkTurn ==
  /\ At("work") \in RestorePc \cup StorePc \cup {"idle", "detach"}
  /\ Work.then = IF Work.pc = "release" THEN "detach" ELSE "idle"
  /\ lock = "work" <=> Work.pc = "release"
  /\ At("work") = "idle" => Work.req = NoReq /\ Work.goal = "none"
  /\ At("work") # "idle" => Work.req \in Req
  /\ At("work") \in RestorePc => Work.goal = "none" /\ stage[Work.req] = "restoring"
  /\ At("work") \in StorePc => Work.goal = "none" /\ stage[Work.req] \in {"storing", "salvage"}
  /\ At("work") = "detach" =>
       \/ Work.goal = "cold" /\ stage[Work.req] = "restoring"
       \/ Work.goal \in {"store", "done"} /\ stage[Work.req] \in {"storing", "salvage"}
  /\ At("work") \in RestorePc => Len(Work.pay) <= Len(tbl[Work.req])
  /\ At("work") = "hydrate" => Work.pay # <<>>
  /\ At("work") \in {"dedup", "alloc", "register", "publish"} =>
       Len(tbl[Work.req]) <= Len(StoreChain[Work.req])
  /\ At("work") = "alloc" => ~StoreDone
  /\ At("work") = "register" => tbl[Work.req] # <<>>
  /\ At("work") = "stored" => Work.req \in entries \/ tbl[Work.req] = <<>>

\* Who is in which registry.
Placed ==
  \A r \in Req :
    /\ stage[r] \notin {"aborted", "ghost"}
    /\ stage[r] = "idle" \/ (stage[r] = "salvage" /\ Work.req # r) => r \notin paged \cup entries
    /\ stage[r] \in {"waiting", "running", "restoring"} =>
         /\ r \in paged <=> r \in entries
         /\ r \in paged \/ tbl[r] = <<>> \/ GivingBack(r)

CacheTypes ==
  /\ PagedTypeOK /\ tbl \in [Req -> Seq(Block)]
  /\ job \in [Thread -> Calls] /\ frugal \in BOOLEAN /\ (frugal => DiskStore)

Control == CacheTypes /\ LoopTurn /\ WorkTurn /\ Placed

-----------------------------------------------------------------------------
(* What blocks and payloads belong to.                                     *)

Fits(ids, chain) ==
  Len(ids) <= Len(chain) /\ \A i \in 1..Len(ids) : hash[ids[i]] = chain[i]
Found(r, ids) == \E chain \in Members(Probes[r]) : Fits(ids, chain)

LoopChains ==
  /\ At("loop") \in FetchPc => Found(Loop.req, Loop.best)
  /\ At("loop") \in {"probe", "promote"} => Fits(Loop.got, Probe)
  /\ Loop.pc = "promote" => Loop.pay[1] = Wanted
  /\ Loop.pc = "compare" => Found(Loop.req, Loop.got)
  /\ Loop.pc = "pin" => Found(Loop.req, Loop.got \o Loop.ids)

TableFits(r) ==
  /\ stage[r] \in {"waiting", "restoring"} /\ ~GivingBack(r) => Found(r, tbl[r])
  /\ Filling(r) => Fits(tbl[r], StoreChain[r])

WorkChains ==
  Work.pc \in RestorePc => \A i \in 1..Len(Work.pay) : Work.pay[i] = hash[tbl[Work.req][i]]

Chains == LoopChains /\ (\A r \in Req : TableFits(r)) /\ WorkChains

CacheInv ==
  PoolInv /\ IndexInv /\ Control /\ Counted(Held, refCount) /\ Chains /\ PayloadMatchesHash

-----------------------------------------------------------------------------
(* Control, action by action.                                              *)

\* Setting one thread's call leaves the other's alone.
LEMMA SetFacts ==
  ASSUME job \in [Thread -> Calls], NEW a \in Thread, NEW rec, Set(a, rec)
  PROVE  /\ job'[a] = rec
         /\ \A c \in Thread : c # a => job'[c] = job[c]
         /\ rec \in Calls => job' \in [Thread -> Calls]
BY DEF Set

\* WorkTurn survives a step that leaves the worker's call and its request alone.
LEMMA WorkFrame ==
  ASSUME Control, Work' = Work, lock' = "work" <=> lock = "work",
         ASSUME Work.req \in Req
         PROVE  /\ stage'[Work.req] = stage[Work.req] /\ tbl'[Work.req] = tbl[Work.req]
                /\ Work.req \in entries' <=> Work.req \in entries
  PROVE  WorkTurn'
BY DEF Control, WorkTurn, At, Work, StoreDone, RestorePc, StorePc

\* LoopTurn survives a step that leaves the event loop's call and its request
\* alone.
LEMMA LoopFrame ==
  ASSUME Control, Loop' = Loop, lock' = "loop" <=> lock = "loop",
         ASSUME Loop.req \in Req
         PROVE  /\ stage'[Loop.req] = stage[Loop.req]
                /\ Loop.req \in paged' \cup entries' => Loop.req \in paged \cup entries
  PROVE  LoopTurn'
BY DEF Control, LoopTurn, At, Loop, FetchPc, Probe, ProbeDone

\* A call that gives back the table of r.
Backs(c, r) == c.req = r /\ c.goal # "none" /\ c.pc \in {"release", "detach"}

\* Who gives back the table of r: the event loop or the worker.
LEMMA GivingBackIs ==
  ASSUME NEW r
  PROVE  /\ GivingBack(r) <=> Backs(Loop, r) \/ Backs(Work, r)
         /\ GivingBack(r)' <=> Backs(Loop', r) \/ Backs(Work', r)
BY DEF GivingBack, Thread, Backs, Loop, Work

\* Placed survives a step that touches no registry and ends no giving back.
LEMMA PlacedFrame ==
  ASSUME Control, UNCHANGED <<stage, tableVars>>, Work'.req = Work.req,
         \A r \in Req : GivingBack(r) => GivingBack(r)'
  PROVE  Placed'
BY DEF Control, Placed, tableVars, Work

\* What a lookup looks for next is a hash of its probe.
LEMMA WantedIsHash ==
  ASSUME Control, At("loop") \in {"probe", "promote"}
  PROVE  /\ Probe \in Seq(Hash) /\ Len(Loop.got) \in Nat /\ Len(Loop.got) <= Len(Probe)
         /\ ~ProbeDone => Wanted \in Hash
<1>1. Loop.req \in Req /\ Loop.n \in 1..Len(Probes[Loop.req]) /\ Len(Loop.got) <= Len(Probe)
  BY DEF Control, LoopTurn, FetchPc
<1>2. Loop.got \in Seq(Block)
  BY DEF Control, CacheTypes, Calls, Loop, Thread
<1>3. Probes[Loop.req] \in Seq(Seq(Hash))
  BY <1>1, CacheAssumption
<1>4. Probe \in Seq(Hash)
  BY <1>1, <1>3 DEF Probe
<1> HIDE DEF Loop
<1>. QED BY <1>1, <1>2, <1>4 DEF ProbeDone, Wanted

\* A step of the event loop's call that changes no registry.
LEMMA LoopStep ==
  ASSUME Control, NEW rec \in Calls, Set("loop", rec), lock' = "work" <=> lock = "work",
         UNCHANGED <<stage, tableVars>>
  PROVE  /\ Loop' = rec /\ Work' = Work /\ job' \in [Thread -> Calls]
         /\ WorkTurn'
         /\ (\A r \in Req : Backs(Loop, r) => Backs(rec, r)) => Placed'
<1>1. Loop' = rec /\ Work' = Work /\ job' \in [Thread -> Calls]
  BY SetFacts DEF Thread, Control, CacheTypes, Loop, Work
<1>2. WorkTurn'
  BY <1>1, WorkFrame DEF tableVars
<1>3. ASSUME \A r \in Req : Backs(Loop, r) => Backs(rec, r)
      PROVE  Placed'
  <2>1. \A r \in Req : GivingBack(r) => GivingBack(r)'
    BY <1>1, <1>3, GivingBackIs
  <2>. QED BY <1>1, <2>1, PlacedFrame
<1>. QED BY <1>1, <1>2, <1>3

\* A step of the worker's call that changes no registry.
LEMMA WorkStep ==
  ASSUME Control, NEW rec \in Calls, Set("work", rec), lock' = "loop" <=> lock = "loop",
         UNCHANGED <<stage, tableVars>>
  PROVE  /\ Work' = rec /\ Loop' = Loop /\ job' \in [Thread -> Calls]
         /\ LoopTurn'
         /\ rec.req = Work.req /\ (\A r \in Req : Backs(Work, r) => Backs(rec, r)) => Placed'
<1>1. Work' = rec /\ Loop' = Loop /\ job' \in [Thread -> Calls]
  BY SetFacts DEF Thread, Control, CacheTypes, Loop, Work
<1>2. LoopTurn'
  BY <1>1, LoopFrame DEF tableVars
<1>3. ASSUME rec.req = Work.req, \A r \in Req : Backs(Work, r) => Backs(rec, r)
      PROVE  Placed'
  <2>1. \A r \in Req : GivingBack(r) => GivingBack(r)'
    BY <1>1, <1>3, GivingBackIs
  <2>. QED BY <1>1, <1>3, <2>1, PlacedFrame
<1>. QED BY <1>1, <1>2, <1>3

\* The types of what a call leaves alone.
LEMMA TypesFrame ==
  ASSUME Control, PoolInv', UNCHANGED <<blockVars, l2, frugal>>, job' \in [Thread -> Calls],
         tbl' \in [Req -> Seq(Block)], paged' \subseteq Req, entries' \subseteq Req,
         stage' \in [Req -> Stages], lock' \in {"free"} \cup Thread
  PROVE  CacheTypes'
<1>1. \A r \in Req : Members(tbl'[r]) \subseteq Block
  BY DEF Members
<1>. QED BY <1>1 DEF Control, CacheTypes, PagedTypeOK, PoolInv, blockVars

\* The fields of the two calls have their types.
LEMMA CallIs ==
  ASSUME Control
  PROVE  /\ Loop \in Calls /\ Work \in Calls
         /\ Loop.got \in Seq(Block) /\ Loop.best \in Seq(Block) /\ Loop.ids \in Seq(Block)
         /\ Work.ids \in Seq(Block) /\ Work.pay \in Seq(Payload) /\ Loop.pay \in Seq(Payload)
BY DEF Control, CacheTypes, Calls, Loop, Work, Thread

\* A fetch that goes on: its call has no table to give back.
LEMMA FetchStep ==
  ASSUME Control, PoolInv', At("loop") \in FetchPc, UNCHANGED frugal,
         NEW rec \in Calls, Set("loop", rec), rec.goal = "none",
         lock' = "work" <=> lock = "work", lock' \in {"free"} \cup Thread,
         UNCHANGED <<stage, tableVars>>
  PROVE  /\ Loop' = rec
         /\ UNCHANGED <<blockVars, l2>> => CacheTypes'
         /\ LoopTurn' /\ CacheTypes' => Control'
<1>1. Loop' = rec /\ job' \in [Thread -> Calls] /\ WorkTurn'
  BY LoopStep
<1>2. Placed'
  BY LoopStep DEF Backs, Control, LoopTurn, FetchPc
<1>3. ASSUME UNCHANGED <<blockVars, l2>>
      PROVE  CacheTypes'
  BY <1>1, <1>3, TypesFrame DEF Control, CacheTypes, PagedTypeOK, tableVars
<1>. QED BY <1>1, <1>2, <1>3 DEF Control

\* No call in progress is a call too.
LEMMA IdleIsCall == Idle \in Calls
<1>1. <<>> \in Seq(Block) /\ <<>> \in Seq(Payload)
  OBVIOUS
<1>. QED BY <1>1 DEF Idle, Calls, NoReq

\* The worker's request is one it works for.
LEMMA WorkAt ==
  ASSUME Control
  PROVE  /\ NoReq \notin Req
         /\ Work.req \in Req => stage[Work.req] \in {"restoring", "storing", "salvage"}
         /\ Loop.req \in Req => stage[Loop.req] = "fetching"
BY CacheAssumption DEF Control, WorkTurn, LoopTurn, RestorePc, StorePc, FetchPc, NoReq

\* A fetch starts on an idle loop, for a request neither thread works for.
LEMMA StartFetchControl ==
  ASSUME Control, PoolInv', NEW r \in Req, StartFetch(r), UNCHANGED frugal
  PROVE  Control'
<1> DEFINE rec == [Idle EXCEPT !.pc = "probe", !.req = r, !.n = 1]
<1>1. rec \in Calls
  BY IdleIsCall DEF Calls, FetchPc
<1>2. /\ Loop.pc = "idle" /\ stage[r] = "idle" /\ Set("loop", rec) /\ UNCHANGED lock
      /\ stage' = [stage EXCEPT ![r] = "fetching"] /\ UNCHANGED <<blockVars, l2, tableVars>>
  BY DEF StartFetch
<1>3. Loop' = rec /\ Work' = Work /\ job' \in [Thread -> Calls]
  BY <1>1, <1>2, SetFacts DEF Thread, Control, CacheTypes, Loop, Work
<1>4. CacheTypes'
  BY <1>2, <1>3, TypesFrame DEF Control, CacheTypes, PagedTypeOK, tableVars, Stages
<1>5. stage[r] = "idle" /\ stage \in [Req -> Stages]
  BY <1>2 DEF Control, CacheTypes, PagedTypeOK
<1>6. Work.req # r
  BY <1>5, WorkAt
<1>7. WorkTurn'
  BY <1>2, <1>3, <1>5, <1>6, WorkFrame DEF tableVars
<1>8. LoopTurn'
  <2>1. r \notin paged \cup entries
    BY <1>5 DEF Control, Placed
  <2>2. Len(Probes[r]) \in Nat \ {0} /\ Len(Probes[r][1]) \in Nat
    BY CacheAssumption
  <2>. QED BY <1>2, <1>3, <1>5, <2>1, <2>2
           DEF LoopTurn, At, Loop, FetchPc, tableVars, Control, Probe, ProbeDone, Idle
<1>9. Placed'
  <2>1. \A q \in Req : GivingBack(q) => GivingBack(q)'
    BY <1>2, <1>3, GivingBackIs DEF Backs
  <2>. QED BY <1>2, <1>3, <1>5, <2>1 DEF Control, Placed, tableVars
<1>. QED BY <1>4, <1>7, <1>8, <1>9 DEF Control

\* The block got under the wanted hash is one more of the candidate.
LEMMA GotOneMore ==
  ASSUME Control, At("loop") \in {"probe", "promote"}, ~ProbeDone, NEW b \in Block
  PROVE  /\ Append(Loop.got, b) \in Seq(Block)
         /\ Len(Append(Loop.got, b)) = Len(Loop.got) + 1
         /\ Len(Loop.got) + 1 <= Len(Probe)
<1>1. Loop.got \in Seq(Block)
  BY CallIs
<1>2. Len(Append(Loop.got, b)) = Len(Loop.got) + 1 /\ Append(Loop.got, b) \in Seq(Block)
  BY <1>1
<1>3. Len(Loop.got) \in Nat /\ Len(Loop.got) <= Len(Probe) /\ Len(Probe) \in Nat
  BY WantedIsHash
<1>. QED BY <1>2, <1>3 DEF ProbeDone

\* A hit lengthens the candidate by one.
LEMMA LookupHitControl ==
  ASSUME Control, PoolInv', LookupHit, UNCHANGED frugal
  PROVE  Control'
<1>1. PICK b \in Find(Wanted) : Set("loop", [Loop EXCEPT !.got = Append(@, b)])
  BY DEF LookupHit
<1> DEFINE rec == [Loop EXCEPT !.got = Append(@, b)]
<1>2. /\ Loop.pc = "probe" /\ ~ProbeDone /\ UNCHANGED lock /\ b \in Block
      /\ UNCHANGED <<blockVars, l2, tableVars, stage>>
  BY DEF LookupHit, Find
<1>3. At("loop") = "probe"
  BY <1>2 DEF At, Loop
<1>4. Append(Loop.got, b) \in Seq(Block) /\ Len(Append(Loop.got, b)) <= Len(Probe)
  BY <1>2, <1>3, GotOneMore
<1>5. rec \in Calls /\ rec.goal = "none"
  BY <1>3, <1>4, CallIs DEF Calls, Control, LoopTurn, FetchPc
<1>6. lock' \in {"free"} \cup Thread
  BY <1>2 DEF Control, CacheTypes, PagedTypeOK
<1>7. Loop' = rec /\ CacheTypes' /\ (LoopTurn' => Control')
  BY <1>1, <1>2, <1>3, <1>5, <1>6, FetchStep DEF FetchPc
<1>8. LoopTurn'
  BY <1>2, <1>4, <1>7, CallIs DEF Control, LoopTurn, At, Loop, FetchPc, tableVars, Calls, Probe
<1>. QED BY <1>7, <1>8

\* A miss leads to the L2 read or to the comparison.
LEMMA LookupMissControl ==
  ASSUME Control, PoolInv', LookupMiss, UNCHANGED frugal
  PROVE  Control'
<1> DEFINE rec == IF ~ProbeDone /\ Readable(Wanted)
                    THEN [Loop EXCEPT !.pc = "promote", !.pay = <<l2[Wanted]>>]
                    ELSE [Loop EXCEPT !.pc = "compare"]
<1>1. /\ Loop.pc = "probe" /\ UNCHANGED lock /\ Set("loop", rec)
      /\ UNCHANGED <<blockVars, l2, tableVars, stage>>
  BY DEF LookupMiss
<1>2. At("loop") = "probe"
  BY <1>1 DEF At, Loop
<1>3. ~ProbeDone => l2[Wanted] \in Payload /\ <<l2[Wanted]>> \in Seq(Payload)
  BY <1>2, WantedIsHash DEF Control, CacheTypes, PagedTypeOK
<1>4. rec \in Calls /\ rec.goal = "none"
  BY <1>2, <1>3, CallIs DEF Calls, Control, LoopTurn, FetchPc
<1>5. lock' \in {"free"} \cup Thread
  BY <1>1 DEF Control, CacheTypes, PagedTypeOK
<1>6. Loop' = rec /\ CacheTypes' /\ (LoopTurn' => Control')
  BY <1>1, <1>2, <1>4, <1>5, FetchStep DEF FetchPc
<1>7. LoopTurn'
  <2>1. /\ rec.req = Loop.req /\ rec.n = Loop.n /\ rec.got = Loop.got /\ rec.best = Loop.best
        /\ rec.then = Loop.then /\ rec.goal = Loop.goal
        /\ \/ rec.pc = "promote" /\ ~ProbeDone /\ rec.pay = <<l2[Wanted]>> /\ Len(rec.pay) = 1
           \/ rec.pc = "compare"
    BY <1>2, CallIs DEF Calls
  <2>2. /\ Loop.req \in Req /\ Loop.goal = "none" /\ stage[Loop.req] = "fetching"
        /\ Loop.req \notin paged \cup entries /\ lock # "loop" /\ Loop.then = "idle"
        /\ Loop.n \in 1..Len(Probes[Loop.req]) /\ Len(Loop.got) <= Len(Probe)
    BY <1>1, <1>2 DEF Control, LoopTurn, FetchPc
  <2>3. Len(Probes[Loop.req]) \in Nat
    BY <2>2, CacheAssumption
  <2> HIDE DEF rec
  <2>4. CASE rec.pc = "promote"
    BY <1>1, <1>6, <2>1, <2>2, <2>4, SMTT(40)
       DEF LoopTurn, At, Loop, FetchPc, tableVars, Probe, ProbeDone
  <2>5. CASE rec.pc = "compare"
    BY <1>1, <1>6, <2>1, <2>2, <2>3, <2>5, SMTT(40) DEF LoopTurn, At, Loop, FetchPc, tableVars
  <2>. QED  BY <2>1, <2>4, <2>5
<1>. QED BY <1>6, <1>7

\* A block taken for a new tenant: the types of its fields.
LEMMA TakeForTypes ==
  ASSUME Control, PoolInv', NEW k \in 0..(Len(queue) - 1), NEW h \in Hash,
         NEW payload \in Payload, NEW fromDisk \in BOOLEAN, NEW transient \in BOOLEAN,
         TakeFor(k, h, payload, fromDisk, transient)
  PROVE  /\ queue[k + 1] \in Block
         /\ hash' \in [Block -> Payload] /\ data' \in [Block -> Payload]
         /\ disk' \subseteq Block /\ scratch' \subseteq Block
         /\ flight' \in [Hash -> Payload]
<1>1. queue[k + 1] \in Block
  BY DEF Control, CacheTypes, PagedTypeOK, PoolTypeOK
<1>2. WriteThrough(queue[k + 1]) \in [Hash -> Payload]
  BY <1>1 DEF WriteThrough, MayRefuse, Control, CacheTypes, PagedTypeOK, Payload
<1>. QED BY <1>1, <1>2 DEF TakeFor, Control, CacheTypes, PagedTypeOK, Payload

\* The index without one block is an index.
LEMMA UnindexedType ==
  ASSUME Control, NEW b \in Block
  PROVE  Unindexed(b) \in [Hash -> SUBSET Block]
BY DEF Unindexed, Control, CacheTypes, PagedTypeOK, Payload

\* A promotion goes back to the lookup, or gives it up.
LEMMA PromoteControl ==
  ASSUME Control, PoolInv', Promote, UNCHANGED frugal
  PROVE  Control'
<1>1. /\ Loop.pc = "promote" /\ UNCHANGED <<l2, tableVars, stage, lock>>
  BY DEF Promote
<1>2. At("loop") = "promote" /\ ~ProbeDone /\ Len(Loop.pay) = 1
  BY <1>1 DEF At, Loop, Control, LoopTurn
<1>3. Wanted \in Hash
  BY <1>2, WantedIsHash
<1>4. lock' \in {"free"} \cup Thread
  BY <1>1 DEF Control, CacheTypes, PagedTypeOK
<1>5. ASSUME NEW b \in Block,
             Set("loop", [Loop EXCEPT !.pc = "probe", !.pay = <<>>, !.got = Append(@, b)])
      PROVE  LoopTurn' /\ (UNCHANGED <<blockVars, l2>> => CacheTypes') /\ (CacheTypes' => Control')
  <2> DEFINE rec == [Loop EXCEPT !.pc = "probe", !.pay = <<>>, !.got = Append(@, b)]
  <2>1. Append(Loop.got, b) \in Seq(Block) /\ Len(Append(Loop.got, b)) <= Len(Probe)
    BY <1>2, GotOneMore
  <2>2. <<>> \in Seq(Payload)
    OBVIOUS
  <2>3. rec \in Calls /\ rec.goal = "none"
    BY <1>2, <2>1, <2>2, CallIs DEF Calls, Control, LoopTurn, FetchPc
  <2>4. /\ Loop' = rec /\ (LoopTurn' /\ CacheTypes' => Control')
        /\ UNCHANGED <<blockVars, l2>> => CacheTypes'
    BY <1>1, <1>2, <1>4, <1>5, <2>3, FetchStep DEF FetchPc
  <2>5. LoopTurn'
    BY <1>1, <2>1, <2>4, CallIs DEF Control, LoopTurn, At, Loop, FetchPc, tableVars, Calls, Probe
  <2>. QED BY <2>4, <2>5
<1>6. CASE \E b \in Find(Wanted) :
             /\ Set("loop", [Loop EXCEPT !.pc = "probe", !.pay = <<>>, !.got = Append(@, b)])
             /\ UNCHANGED blockVars
  BY <1>1, <1>5, <1>6 DEF Find
<1>7. CASE Set("loop", [Loop EXCEPT !.pc = "compare", !.pay = <<>>]) /\ UNCHANGED blockVars
  <2> DEFINE rec == [Loop EXCEPT !.pc = "compare", !.pay = <<>>]
  <2>1. <<>> \in Seq(Payload)
    OBVIOUS
  <2>2. rec \in Calls /\ rec.goal = "none"
    BY <1>2, <2>1, CallIs DEF Calls, Control, LoopTurn, FetchPc
  <2>3. Loop' = rec /\ CacheTypes' /\ (LoopTurn' => Control')
    BY <1>1, <1>2, <1>4, <1>7, <2>2, FetchStep DEF FetchPc
  <2>4. LoopTurn'
    BY <1>1, <2>3, CallIs, SMTT(40) DEF Control, LoopTurn, At, Loop, FetchPc, tableVars, Calls, Probe
  <2>. QED BY <2>3, <2>4
<1>8. ASSUME NEW k \in 0..(Len(queue) - 1), NEW transient \in BOOLEAN, NEW b,
             b = queue[k + 1], TakeFor(k, Wanted, Loop.pay[1], TRUE, transient),
             index' = [Unindexed(b) EXCEPT ![Wanted] = @ \cup {b}],
             Set("loop", [Loop EXCEPT !.pc = "probe", !.pay = <<>>, !.got = Append(@, b)])
      PROVE  Control'
  <2>1. Loop.pay[1] \in Payload
    BY <1>2, CallIs
  <2>2. /\ b \in Block
        /\ hash' \in [Block -> Payload] /\ data' \in [Block -> Payload]
        /\ disk' \subseteq Block /\ scratch' \subseteq Block
        /\ flight' \in [Hash -> Payload]
    BY <1>3, <1>8, <2>1, TakeForTypes, ZenonT(60)
  <2>3. index' \in [Hash -> SUBSET Block]
    BY <1>8, <2>2, UnindexedType
  <2>4. job' \in [Thread -> Calls]
    <3>1. Append(Loop.got, b) \in Seq(Block) /\ <<>> \in Seq(Payload)
      BY <1>2, <2>2, GotOneMore
    <3>2. [Loop EXCEPT !.pc = "probe", !.pay = <<>>, !.got = Append(@, b)] \in Calls
      BY <3>1, CallIs DEF Calls, FetchPc
    <3>. QED BY <1>8, <3>2, SetFacts DEF Thread, Control, CacheTypes
  <2>5. CacheTypes'
    BY <1>1, <2>2, <2>3, <2>4 DEF Control, CacheTypes, PagedTypeOK, PoolInv, tableVars
  <2>. QED BY <1>5, <1>8, <2>2, <2>5
<1>. QED BY <1>6, <1>7, <1>8 DEF Promote

\* The comparison walks over the loser, then goes to the next lookup.
LEMMA CompareControl ==
  ASSUME Control, PoolInv', CompareCandidates, UNCHANGED frugal
  PROVE  Control'
<1> DEFINE probes == Len(Probes[Loop.req])
           longer == Len(Loop.got) > Len(Loop.best)
           winner == IF longer THEN Loop.got ELSE Loop.best
           loser == IF longer THEN Loop.best ELSE Loop.got
           then == IF Loop.n < probes THEN "probe"
                   ELSE IF Loop.n = probes THEN "match" ELSE "decide"
           mid == [Loop EXCEPT !.got = <<>>, !.best = winner, !.n = @ + 1]
           rec == [mid EXCEPT !.pc = "release", !.ids = loser, !.then = then]
<1>1. /\ Loop.pc = "compare" /\ lock = "free" /\ lock' = "loop" /\ Set("loop", rec)
      /\ UNCHANGED <<blockVars, l2, tableVars, stage>>
  BY DEF CompareCandidates, Walking
<1>2. At("loop") = "compare" /\ Loop.goal = "none"
  BY <1>1 DEF At, Loop, Control, LoopTurn, FetchPc
<1>3. winner \in Seq(Block) /\ loser \in Seq(Block) /\ <<>> \in Seq(Block)
  BY CallIs
<1>4. Loop \in Calls /\ Loop.n \in 1..(probes + 1)
  BY <1>2, CallIs DEF Control, LoopTurn
<1>5. Loop.req \in Req /\ probes \in Nat
  BY <1>2, CacheAssumption DEF Control, LoopTurn, FetchPc
<1> HIDE DEF winner, loser
<1>6. rec \in Calls /\ rec.goal = "none" /\ rec.req = Loop.req /\ rec.pc = "release"
      /\ rec.got = <<>> /\ rec.then = then /\ rec.n = Loop.n + 1
  <2>1. mid \in Calls /\ mid.goal = "none" /\ mid.req = Loop.req /\ mid.got = <<>>
        /\ mid.n = Loop.n + 1
    <3>1. Loop \in Calls /\ Loop.n + 1 \in Nat
      BY <1>4, <1>5 DEF Calls
    <3> HIDE DEF then, probes
    <3>. QED BY <1>2, <1>3, <3>1 DEF Calls
  <2>2. then \in {"probe", "match", "decide"}
    OBVIOUS
  <2> HIDE DEF mid, then
  <2>. QED BY <1>3, <2>1, <2>2 DEF Calls
<1> HIDE DEF rec
<1>7. Loop' = rec /\ CacheTypes' /\ (LoopTurn' => Control')
  BY <1>1, <1>2, <1>6, FetchStep DEF FetchPc, Thread
<1>8. Len(Probe') \in Nat \/ ~(Loop.n < probes)
  <2>1. Loop.n < probes => Probes[Loop.req][Loop.n + 1] \in Seq(Hash)
    BY <1>4, <1>5, CacheAssumption
  <2>. QED BY <1>6, <1>7, <2>1 DEF Probe, Loop
<1>9. LoopTurn'
  BY <1>1, <1>2, <1>4, <1>5, <1>6, <1>7, <1>8 DEF Control, LoopTurn, At, Loop, FetchPc, tableVars
<1>. QED BY <1>7, <1>9

\* Matching the prefix index and pinning what it names keep the lock.
LEMMA PinControl ==
  ASSUME Control, PoolInv', MatchIndex \/ PinNext \/ Pinned, UNCHANGED frugal
  PROVE  Control'
<1>1. At("loop") \in {"match", "pin"} /\ Loop.goal = "none" /\ Loop \in Calls
      /\ Loop.got \in Seq(Block) /\ Loop.ids \in Seq(Block)
      /\ UNCHANGED <<blockVars, l2, tableVars, stage>>
  BY CallIs DEF MatchIndex, PinNext, Pinned, At, Loop, Control, LoopTurn, FetchPc
<1>2. ASSUME NEW rec \in Calls, Set("loop", rec), rec.goal = "none", rec.pc \in {"pin", "compare"},
             rec.req = Loop.req, rec.n = Loop.n, rec.then = Loop.then,
             lock' = IF rec.pc = "pin" THEN "loop" ELSE "free", lock # "work"
      PROVE  Control'
  <2>1. Loop' = rec /\ CacheTypes' /\ (LoopTurn' => Control')
    BY <1>1, <1>2, FetchStep DEF FetchPc, Thread
  <2>2. LoopTurn'
    <3>1. Len(Probes[Loop.req]) \in Nat
      BY <1>1, CacheAssumption DEF Control, LoopTurn, FetchPc
    <3>2. Loop.pc # "release"
      BY <1>1 DEF Control, CacheTypes, MatchIndex, PinNext, Pinned, Loop
    <3>. QED BY <1>1, <1>2, <2>1, <3>1, <3>2 DEF Control, LoopTurn, At, Loop, FetchPc, tableVars
  <2>. QED BY <2>1, <2>2
<1>3. CASE MatchIndex
  <2>0. PICK chain \in Members(Probes[Loop.req]) : \E n \in 0..Len(chain) :
          \E ids \in [1..n -> Block] : Set("loop", [Loop EXCEPT !.pc = "pin", !.ids = ids])
    BY <1>3 DEF MatchIndex
  <2>4. PICK n \in 0..Len(chain) :
          \E ids \in [1..n -> Block] : Set("loop", [Loop EXCEPT !.pc = "pin", !.ids = ids])
    BY <2>0
  <2>1. PICK ids \in [1..n -> Block] : Set("loop", [Loop EXCEPT !.pc = "pin", !.ids = ids])
    BY <2>4
  <2>2. Loop.pc = "match" /\ lock = "free" /\ lock' = "loop"
    BY <1>3 DEF MatchIndex
  <2>3. ids \in Seq(Block)
    <3>1. Probes[Loop.req] \in Seq(Seq(Hash))
      BY <1>1, CacheAssumption DEF Control, LoopTurn, FetchPc
    <3>2. Len(chain) \in Nat
      BY <3>1 DEF Members
    <3>. QED BY <3>2
  <2>. QED BY <1>1, <1>2, <2>1, <2>2, <2>3 DEF Calls, FetchPc
<1>4. CASE PinNext
  <2>1. /\ Set("loop", [Loop EXCEPT !.ids = Tail(@), !.got = Append(@, Head(Loop.ids))])
        /\ Loop.pc = "pin" /\ Loop.ids # <<>> /\ UNCHANGED lock
    BY <1>4 DEF PinNext
  <2>2. Tail(Loop.ids) \in Seq(Block) /\ Append(Loop.got, Head(Loop.ids)) \in Seq(Block)
    BY <1>1, <2>1
  <2>3. lock = "loop"
    BY <2>1 DEF Control, LoopTurn
  <2>. QED BY <1>1, <1>2, <2>1, <2>2, <2>3 DEF Calls
<1>5. CASE Pinned
  BY <1>1, <1>2, <1>5 DEF Pinned, Calls, FetchPc, Control, LoopTurn
<1>. QED BY <1>3, <1>4, <1>5

\* A request nobody else works for: what the others need stays.
LEMMA OtherRequest ==
  ASSUME Control, NEW r \in Req
  PROVE  /\ Loop.req = r /\ stage[r] = "fetching" => Work.req # r
         /\ Work.req = r /\ stage[r] \in {"restoring", "storing", "salvage"} => Loop.req # r
BY WorkAt

\* A commit puts the request into both registries, or starts to reject it.
LEMMA CommitFetchControl ==
  ASSUME Control, PoolInv', CommitFetch, UNCHANGED frugal
  PROVE  Control'
<1> DEFINE r == Loop.req
           hit == IF Loop.best = <<>> THEN {} ELSE {r}
           giving == [Idle EXCEPT !.req = r, !.goal = "reject"]
           rec == [giving EXCEPT !.pc = "release", !.ids = Loop.best, !.then = "detach"]
<1>1. /\ Loop.pc = "decide" /\ tbl' = [tbl EXCEPT ![r] = Loop.best]
      /\ paged' = paged \cup hit /\ entries' = entries \cup hit
      /\ UNCHANGED <<blockVars, l2>>
      /\ \/ /\ stage' = [stage EXCEPT ![r] = "waiting"] /\ Set("loop", Idle) /\ UNCHANGED lock
         \/ /\ hit # {} /\ lock = "free" /\ lock' = "loop" /\ Set("loop", rec)
            /\ UNCHANGED stage
  BY DEF CommitFetch, Walking
<1>2. /\ r \in Req /\ stage[r] = "fetching" /\ r \notin paged \cup entries
      /\ Loop.best \in Seq(Block) /\ lock # "loop" /\ Loop.goal = "none"
  BY <1>1, CallIs DEF At, Loop, Control, LoopTurn, FetchPc
<1>3. Work.req # r
  BY <1>2, OtherRequest
<1>4. giving \in Calls /\ giving.req = r /\ giving.goal = "reject" /\ giving.got = <<>>
      /\ giving.best = <<>>
  BY <1>2, IdleIsCall DEF Calls, Idle
<1>5. rec \in Calls /\ rec.req = r /\ rec.goal = "reject" /\ rec.got = <<>> /\ rec.best = <<>>
      /\ rec.pc = "release" /\ rec.then = "detach"
  <2> HIDE DEF giving
  <2>. QED BY <1>2, <1>4 DEF Calls
<1> HIDE DEF rec, giving, hit
<1>6. PICK new \in {Idle, rec} : Set("loop", new)
  BY <1>1
<1>7. new \in Calls /\ Loop' = new /\ Work' = Work /\ job' \in [Thread -> Calls]
  BY <1>5, <1>6, IdleIsCall, SetFacts DEF Thread, Control, CacheTypes, Loop, Work
<1>8. hit \subseteq {r}
  BY DEF hit
<1>9. CacheTypes'
  <2>1. tbl' \in [Req -> Seq(Block)] /\ paged' \subseteq Req /\ entries' \subseteq Req
    BY <1>1, <1>2, <1>8 DEF Control, CacheTypes, PagedTypeOK
  <2>2. stage' \in [Req -> Stages] /\ lock' \in {"free"} \cup Thread
    BY <1>1 DEF Control, CacheTypes, PagedTypeOK, Stages, Thread
  <2>. QED BY <1>1, <1>7, <2>1, <2>2, TypesFrame
<1>10. WorkTurn'
  <2>1. lock' = "work" <=> lock = "work"
    BY <1>1
  <2>2. ASSUME Work.req \in Req
        PROVE  /\ stage'[Work.req] = stage[Work.req] /\ tbl'[Work.req] = tbl[Work.req]
               /\ Work.req \in entries' <=> Work.req \in entries
    BY <1>1, <1>3, <1>8, <2>2 DEF Control, CacheTypes, PagedTypeOK
  <2>. QED BY <1>7, <2>1, <2>2, WorkFrame
<1>11. LoopTurn'
  <2>1. CASE /\ stage' = [stage EXCEPT ![r] = "waiting"] /\ Set("loop", Idle) /\ UNCHANGED lock
    <3>1. Loop' = Idle
      BY <2>1, IdleIsCall, SetFacts DEF Thread, Control, CacheTypes, Loop
    <3>. QED BY <2>1, <3>1, <1>2 DEF LoopTurn, At, Loop, Idle, FetchPc
  <2>2. CASE lock = "free" /\ lock' = "loop" /\ Set("loop", rec) /\ UNCHANGED stage
    <3>1. Loop' = rec
      BY <2>2, <1>5, SetFacts DEF Thread, Control, CacheTypes, Loop
    <3>. QED BY <2>2, <3>1, <1>2, <1>5 DEF LoopTurn, At, Loop, FetchPc
  <2>. QED BY <1>1, <2>1, <2>2
<1>12. Placed'
  <2>1. ASSUME NEW q \in Req, q # r
        PROVE  /\ stage'[q] = stage[q] /\ tbl'[q] = tbl[q] /\ (q \in paged' <=> q \in paged)
               /\ q \in entries' <=> q \in entries
               /\ GivingBack(q) => GivingBack(q)'
    <3>1. Backs(Loop, q) => FALSE
      BY <1>2 DEF Backs
    <3>. QED BY <1>1, <1>7, <1>8, <2>1, <3>1, GivingBackIs DEF Control, CacheTypes, PagedTypeOK
  <2>2. /\ stage'[r] \in {"waiting", "fetching"} /\ (r \in paged' <=> r \in entries')
        /\ r \in paged' \/ tbl'[r] = <<>>
    BY <1>1, <1>2 DEF hit, Control, CacheTypes, PagedTypeOK
  <2>3. Work'.req = Work.req
    BY <1>7
  <2> HIDE DEF r
  <2>. QED BY <2>1, <2>2, <2>3 DEF Control, Placed, Work
<1>. QED BY <1>9, <1>10, <1>11, <1>12 DEF Control

-----------------------------------------------------------------------------
\* Dropping payloads keeps the types.
LEMMA DropTypes ==
  ASSUME Control, NEW S, DropPayloads(S)
  PROVE  data' \in [Block -> Payload] /\ disk' \subseteq Block /\ scratch' \subseteq Block
BY DEF DropPayloads, Control, CacheTypes, PagedTypeOK, Payload

\* Releasing one block keeps the types.
LEMMA ReleaseOneTypes ==
  ASSUME Control, NEW b, ReleaseOne(b)
  PROVE  /\ data' \in [Block -> Payload] /\ disk' \subseteq Block /\ scratch' \subseteq Block
         /\ UNCHANGED <<hash, index, flight>>
<1>1. CASE b \in allocated /\ refCount[b] > 0
  BY <1>1, DropTypes DEF ReleaseOne
<1>2. CASE ~(b \in allocated /\ refCount[b] > 0)
  BY <1>2 DEF ReleaseOne, blockVars, Control, CacheTypes, PagedTypeOK
<1>. QED BY <1>1, <1>2

\* A walk over a table goes on.
LEMMA WalkControl ==
  ASSUME Control, PoolInv', FreeNext \/ \E a \in Thread : ReleaseNext(a), UNCHANGED frugal
  PROVE  Control'
<1>1. PICK a \in Thread :
        /\ job[a].pc \in {"release", "free"} /\ job[a].ids # <<>>
        /\ Set(a, [job[a] EXCEPT !.ids = Tail(@)])
        /\ FreeOne(Head(job[a].ids)) \/ ReleaseOne(Head(job[a].ids))
        /\ UNCHANGED <<l2, tableVars, stage, lock>>
  BY DEF FreeNext, ReleaseNext, Thread, Loop
<1> DEFINE rec == [job[a] EXCEPT !.ids = Tail(@)]
<1>2. job[a] \in Calls
  BY DEF Control, CacheTypes
<1>3. Tail(job[a].ids) \in Seq(Block)
  BY <1>1, <1>2 DEF Calls
<1>4. rec \in Calls /\ rec.pc = job[a].pc /\ rec.req = job[a].req /\ rec.goal = job[a].goal
      /\ rec.then = job[a].then /\ rec.got = job[a].got /\ rec.best = job[a].best
      /\ rec.n = job[a].n /\ rec.pay = job[a].pay
  BY <1>2, <1>3 DEF Calls
<1> HIDE DEF rec
<1>5. job' \in [Thread -> Calls]
  BY <1>1, <1>4, SetFacts DEF Control, CacheTypes, rec
<1>6. CacheTypes'
  <2>1. /\ data' \in [Block -> Payload] /\ disk' \subseteq Block /\ scratch' \subseteq Block
        /\ UNCHANGED <<hash, index, flight>>
    <3>1. CASE FreeOne(Head(job[a].ids))
      BY <3>1 DEF FreeOne, blockVars, Control, CacheTypes, PagedTypeOK
    <3>. QED BY <1>1, <3>1, ReleaseOneTypes
  <2>. QED BY <1>1, <1>5, <2>1 DEF Control, CacheTypes, PagedTypeOK, PoolInv, tableVars
<1>7. \A r \in Req : Backs(job[a], r) => Backs(rec, r)
  BY <1>4 DEF Backs
<1>8. CASE a = "loop"
  <2>1. Loop' = rec /\ WorkTurn' /\ Placed'
    BY <1>1, <1>4, <1>7, <1>8, LoopStep DEF rec, Loop
  <2>2. LoopTurn'
    BY <1>1, <1>4, <1>8, <2>1
       DEF Control, LoopTurn, At, Loop, FetchPc, tableVars, Probe, ProbeDone
  <2>. QED BY <1>6, <2>1, <2>2 DEF Control
<1>9. CASE a = "work"
  <2>1. Work' = rec /\ LoopTurn' /\ Placed'
    BY <1>1, <1>4, <1>7, <1>9, WorkStep DEF rec, Work
  <2>2. WorkTurn'
    BY <1>1, <1>4, <1>9, <2>1
       DEF Control, WorkTurn, At, Work, RestorePc, StorePc, tableVars, StoreDone
  <2>. QED BY <1>6, <2>1, <2>2 DEF Control
<1>. QED BY <1>8, <1>9 DEF Thread

\* A walk ends; its call goes on where it was to go.
LEMMA WalkEndControl ==
  ASSUME Control, PoolInv', NEW a \in Thread, WalkEnd(a), UNCHANGED frugal
  PROVE  Control'
<1> DEFINE rec == [job[a] EXCEPT !.pc = job[a].then, !.then = "idle"]
<1>1. /\ job[a].pc \in {"release", "free"} /\ Set(a, rec) /\ lock' = "free"
      /\ UNCHANGED <<blockVars, l2, tableVars, stage>>
  BY DEF WalkEnd
<1>2. job[a] \in Calls
  BY DEF Control, CacheTypes
<1>3. rec \in Calls /\ rec.pc = job[a].then /\ rec.req = job[a].req /\ rec.goal = job[a].goal
      /\ rec.then = "idle" /\ rec.got = job[a].got /\ rec.best = job[a].best
      /\ rec.n = job[a].n /\ rec.pay = job[a].pay
  BY <1>2 DEF Calls, FetchPc
<1> HIDE DEF rec
<1>4. job' \in [Thread -> Calls]
  BY <1>1, <1>3, SetFacts DEF Control, CacheTypes
<1>5. CacheTypes'
  BY <1>1, <1>4, TypesFrame DEF Control, CacheTypes, PagedTypeOK, tableVars
<1>6. CASE a = "loop"
  <2>1. lock = "loop"
    BY <1>1, <1>6 DEF Control, LoopTurn, Loop
  <2>2. \A r \in Req : Backs(Loop, r) => Backs(rec, r)
    BY <1>1, <1>3, <1>6 DEF Backs, Loop, Control, LoopTurn, At, FetchPc
  <2>3. Loop' = rec /\ WorkTurn' /\ Placed'
    BY <1>1, <1>3, <1>6, <2>1, <2>2, LoopStep DEF Loop
  <2>4. LoopTurn'
    <3>1. Loop.then \in {"idle", "probe", "match", "decide", "detach"}
      BY <1>2, <1>6 DEF Calls, Loop
    <3>2. At("loop")' = Loop.then /\ Loop'.pc = Loop.then
      BY <1>3, <1>6, <2>3, <3>1 DEF At, Loop
    <3>3. CASE Loop.pc = "release"
      <4>1. At("loop")' = At("loop")
        BY <3>2, <3>3 DEF At, Loop
      <4>. QED BY <1>1, <1>3, <1>6, <2>3, <3>1, <3>2, <3>3, <4>1
               DEF Control, LoopTurn, Loop, FetchPc, tableVars, Probe, ProbeDone
    <3>4. CASE Loop.pc = "free"
      <4>1. At("loop") = "free" /\ At("loop")' = "idle"
        BY <3>2, <3>4 DEF At, Loop, Control, LoopTurn
      <4>. QED BY <1>1, <1>3, <1>6, <2>3, <3>2, <3>4, <4>1
               DEF Control, LoopTurn, Loop, FetchPc, tableVars
    <3>. QED BY <1>1, <1>6, <3>3, <3>4 DEF Loop
  <2>. QED BY <1>5, <2>3, <2>4 DEF Control
<1>7. CASE a = "work"
  <2>1. lock = "work" /\ job[a].pc = "release" /\ At("work") = "detach"
    BY <1>1, <1>2, <1>7 DEF Control, WorkTurn, Work, At, RestorePc, StorePc, Calls
  <2>2. \A r \in Req : Backs(Work, r) => Backs(rec, r)
    BY <1>3, <1>7, <2>1 DEF Backs, Work, At
  <2>3. Work' = rec /\ LoopTurn' /\ Placed'
    BY <1>1, <1>3, <1>7, <2>1, <2>2, WorkStep DEF Work
  <2>4. WorkTurn'
    BY <1>1, <1>3, <1>7, <2>1, <2>3
       DEF Control, WorkTurn, At, Work, RestorePc, StorePc, tableVars, StoreDone
  <2>. QED BY <1>5, <2>3, <2>4 DEF Control
<1>. QED BY <1>6, <1>7 DEF Thread

\* An abort leaves its request in no registry.
LEMMA AbortControl ==
  ASSUME Control, PoolInv', NEW r \in Req, Abort(r), UNCHANGED frugal
  PROVE  Control'
<1>1. /\ Loop.pc = "idle" /\ stage[r] \in {"waiting", "running"} /\ lock = "free"
      /\ entries' = entries \ {r} /\ paged' = paged \ {r} /\ tbl' = [tbl EXCEPT ![r] = <<>>]
      /\ UNCHANGED <<blockVars, l2>>
  BY DEF Abort, FreeTables
<1>2. PICK s \in {"idle", "salvage"} : stage' = [stage EXCEPT ![r] = s]
  BY DEF Abort
<1> DEFINE rec == [Idle EXCEPT !.pc = "free", !.ids = tbl[r]]
<1>3. \/ UNCHANGED <<lock, job>>
      \/ lock' = "loop" /\ Set("loop", rec)
  BY DEF Abort, FreeTables
<1>4. rec \in Calls /\ rec.pc = "free" /\ rec.then = "idle" /\ rec.req = NoReq
      /\ rec.goal = "none" /\ rec.got = <<>> /\ rec.best = <<>>
  <2>1. tbl[r] \in Seq(Block)
    BY DEF Control, CacheTypes
  <2>. QED BY <2>1, IdleIsCall DEF Calls, Idle
<1> HIDE DEF rec
<1>5. Work' = Work /\ job' \in [Thread -> Calls]
  BY <1>3, <1>4, SetFacts DEF Thread, Control, CacheTypes, Loop, Work
<1>6. Work.req # r /\ Loop.req = NoReq /\ Loop.goal = "none" /\ At("loop") = "idle"
  <2>1. At("loop") = "idle"
    BY <1>1 DEF At, Loop
  <2>. QED BY <1>1, <2>1, WorkAt DEF Control, LoopTurn
<1>7. CacheTypes'
  <2>1. tbl' \in [Req -> Seq(Block)] /\ paged' \subseteq Req /\ entries' \subseteq Req
    <3>1. <<>> \in Seq(Block)
      OBVIOUS
    <3>. QED BY <1>1, <3>1 DEF Control, CacheTypes, PagedTypeOK
  <2>2. stage' \in [Req -> Stages] /\ lock' \in {"free"} \cup Thread
    BY <1>2, <1>3 DEF Control, CacheTypes, PagedTypeOK, Stages, Thread
  <2>. QED BY <1>1, <1>5, <2>1, <2>2, TypesFrame
<1>8. WorkTurn'
  <2>1. lock' = "work" <=> lock = "work"
    BY <1>1, <1>3
  <2>2. ASSUME Work.req \in Req
        PROVE  /\ stage'[Work.req] = stage[Work.req] /\ tbl'[Work.req] = tbl[Work.req]
               /\ Work.req \in entries' <=> Work.req \in entries
    BY <1>1, <1>2, <1>6, <2>2 DEF Control, CacheTypes, PagedTypeOK
  <2>. QED BY <1>5, <2>1, <2>2, WorkFrame
<1>9. LoopTurn'
  <2>1. CASE UNCHANGED <<lock, job>>
    <3>1. Loop' = Loop
      BY <2>1 DEF Loop
    <3>. QED BY <2>1, <3>1, <1>6, WorkAt, LoopFrame
  <2>2. CASE lock' = "loop" /\ Set("loop", rec)
    <3>1. Loop' = rec
      BY <2>2, <1>4, SetFacts DEF Thread, Control, CacheTypes, Loop
    <3>. QED BY <2>2, <3>1, <1>4 DEF LoopTurn, At, Loop, FetchPc
  <2>. QED BY <1>3, <2>1, <2>2
<1>10. Placed'
  <2>1. ASSUME NEW q \in Req, q # r
        PROVE  /\ stage'[q] = stage[q] /\ tbl'[q] = tbl[q] /\ (q \in paged' <=> q \in paged)
               /\ q \in entries' <=> q \in entries
               /\ GivingBack(q) => GivingBack(q)'
    <3>1. ~Backs(Loop, q)
      BY <1>6 DEF Backs
    <3>. QED BY <1>1, <1>2, <1>5, <2>1, <3>1, GivingBackIs DEF Control, CacheTypes, PagedTypeOK
  <2>2. stage'[r] \in {"idle", "salvage"} /\ r \notin paged' \cup entries'
    BY <1>1, <1>2 DEF Control, CacheTypes, PagedTypeOK
  <2>3. Work'.req = Work.req
    BY <1>5
  <2>. QED BY <2>1, <2>2, <2>3 DEF Control, Placed, Work
<1>. QED BY <1>7, <1>8, <1>9, <1>10 DEF Control

\* The table is given up, and the call of the loop is over, or the worker's
\* goes on to its store.
LEMMA DetachControl ==
  ASSUME Control, PoolInv', NEW a \in Thread, Detach(a), UNCHANGED frugal
  PROVE  Control'
<1> DEFINE r == job[a].req
           goal == job[a].goal
           filling == [Idle EXCEPT !.pc = "dedup", !.req = r]
           rec == IF goal = "store" THEN filling ELSE Idle
<1>1. /\ job[a].pc = "detach" /\ lock = "free" /\ UNCHANGED lock
      /\ tbl' = [tbl EXCEPT ![r] = <<>>] /\ entries' = entries \ {r}
      /\ paged' = IF goal = "store" THEN paged \cup {r} ELSE paged \ {r}
      /\ Set(a, rec)
      /\ UNCHANGED <<blockVars, l2>>
  BY DEF Detach
<1>2. stage' = [stage EXCEPT ![r] =
             CASE goal = "reject" -> "waiting"
               [] goal = "cold" -> IF @ = "aborted" THEN "ghost" ELSE "running"
               [] goal = "done" -> "idle"
               [] OTHER -> @]
  BY DEF Detach
<1>3. job[a].pc = "detach" => At(a) = "detach"
  BY DEF At
<1>4. /\ r \in Req
      /\ a = "loop" => goal = "reject" /\ stage[r] = "fetching"
      /\ a = "work" => \/ goal = "cold" /\ stage[r] = "restoring"
                       \/ goal \in {"store", "done"} /\ stage[r] \in {"storing", "salvage"}
  BY <1>1, <1>3 DEF Control, LoopTurn, WorkTurn, Loop, Work, Thread
<1> HIDE DEF r, goal
<1>5. rec \in Calls /\ rec.goal = "none" /\ rec.then = "idle" /\ rec.got = <<>> /\ rec.best = <<>>
      /\ rec.pc = (IF goal = "store" THEN "dedup" ELSE "idle")
      /\ rec.req = (IF goal = "store" THEN r ELSE NoReq)
  <2>1. filling \in Calls /\ filling.goal = "none" /\ filling.then = "idle"
        /\ filling.got = <<>> /\ filling.best = <<>> /\ filling.pc = "dedup" /\ filling.req = r
    BY <1>4, IdleIsCall DEF Calls, Idle, StorePc
  <2>2. Idle \in Calls /\ Idle.goal = "none" /\ Idle.then = "idle"
        /\ Idle.got = <<>> /\ Idle.best = <<>> /\ Idle.pc = "idle" /\ Idle.req = NoReq
    BY IdleIsCall DEF Idle
  <2> HIDE DEF filling
  <2>. QED BY <2>1, <2>2
<1> HIDE DEF rec
<1>6. /\ job'[a] = rec /\ \A c \in Thread : c # a => job'[c] = job[c]
      /\ job' \in [Thread -> Calls]
  BY <1>1, <1>5, SetFacts DEF Control, CacheTypes
<1>7. /\ stage'[r] = CASE goal = "reject" -> "waiting" [] goal = "cold" -> "running"
                       [] goal = "done" -> "idle" [] goal = "store" -> stage[r]
      /\ stage' \in [Req -> Stages]
      /\ \A q \in Req : q # r => stage'[q] = stage[q]
  BY <1>2, <1>4 DEF Control, CacheTypes, PagedTypeOK, Stages, Thread
<1>8. CacheTypes'
  <2>1. tbl' \in [Req -> Seq(Block)] /\ paged' \subseteq Req /\ entries' \subseteq Req
    <3>1. <<>> \in Seq(Block)
      OBVIOUS
    <3>. QED BY <1>1, <1>4, <3>1 DEF Control, CacheTypes, PagedTypeOK
  <2>2. lock' \in {"free"} \cup Thread
    BY <1>1
  <2>. QED BY <1>1, <1>6, <1>7, <2>1, <2>2, TypesFrame
<1>9. tbl'[r] = <<>> /\ \A q \in Req : q # r => tbl'[q] = tbl[q]
  BY <1>1, <1>4 DEF Control, CacheTypes
<1>10. Placed'
  <2>1. ASSUME NEW q \in Req, q # r
        PROVE  /\ stage'[q] = stage[q] /\ tbl'[q] = tbl[q] /\ (q \in paged' <=> q \in paged)
               /\ q \in entries' <=> q \in entries
               /\ GivingBack(q) => GivingBack(q)'
    <3>1. ~Backs(job[a], q)
      BY <2>1 DEF Backs, r
    <3>. QED BY <1>1, <1>6, <1>7, <1>9, <2>1, <3>1, GivingBackIs DEF Thread, Loop, Work
  <2>2. /\ stage'[r] \notin {"aborted", "ghost"}
        /\ goal # "store" => r \notin paged' \cup entries'
        /\ goal = "store" => stage'[r] \in {"storing", "salvage"} /\ Work'.req = r
        /\ tbl'[r] = <<>>
    BY <1>1, <1>4, <1>5, <1>6, <1>7, <1>9 DEF Thread, Work
  <2>3. ASSUME NEW q \in Req, q # r, Work'.req # q, stage[q] = "salvage"
        PROVE  Work.req # q
    BY <1>6, <2>3 DEF Work, Thread, r
  <2>. QED BY <2>1, <2>2, <2>3 DEF Control, Placed
<1>11. CASE a = "loop"
  <2>1. Work' = Work /\ Loop' = rec /\ goal = "reject"
    BY <1>4, <1>6, <1>11 DEF Work, Loop, Thread
  <2>2. Work.req # r
    BY <1>4, <1>11, WorkAt
  <2>3. WorkTurn'
    BY <1>1, <1>7, <1>9, <2>1, <2>2, WorkFrame
  <2>4. LoopTurn'
    BY <1>1, <1>5, <2>1 DEF LoopTurn, At, Loop, FetchPc
  <2>. QED BY <1>8, <1>10, <2>3, <2>4 DEF Control
<1>12. CASE a = "work"
  <2>1. Work' = rec /\ Loop' = Loop
    BY <1>6, <1>12 DEF Work, Loop, Thread
  <2>2. Loop.req # r
    BY <1>4, <1>12, WorkAt
  <2>3. LoopTurn'
    BY <1>1, <1>4, <1>7, <1>12, <2>1, <2>2, LoopFrame
  <2>4. WorkTurn'
    <3>1. goal = "store" => Len(tbl'[r]) <= Len(StoreChain[r])
      BY <1>4, <1>9, CacheAssumption
    <3>2. goal = "store" => stage'[r] \in {"storing", "salvage"}
      BY <1>4, <1>7, <1>12
    <3>. QED BY <1>1, <1>4, <1>5, <2>1, <3>1, <3>2 DEF WorkTurn, At, Work, RestorePc, StorePc
  <2>. QED BY <1>8, <1>10, <2>3, <2>4 DEF Control
<1>. QED BY <1>11, <1>12 DEF Thread

-----------------------------------------------------------------------------
\* A restore or a store that goes on: its call has no table to give back.
LEMMA WorkGoesOn ==
  ASSUME Control, PoolInv', Work.pc \in RestorePc \cup StorePc, UNCHANGED <<frugal, lock>>,
         NEW rec \in Calls, Set("work", rec), rec.req = Work.req,
         UNCHANGED <<stage, tableVars>>
  PROVE  /\ Work' = rec
         /\ UNCHANGED <<blockVars, l2>> => CacheTypes'
         /\ job' \in [Thread -> Calls]
         /\ WorkTurn' /\ CacheTypes' => Control'
<1>1. \A q \in Req : Backs(Work, q) => Backs(rec, q)
  BY DEF Backs, RestorePc, StorePc
<1>2. Work' = rec /\ job' \in [Thread -> Calls] /\ LoopTurn' /\ Placed'
  BY <1>1, WorkStep
<1>3. ASSUME UNCHANGED <<blockVars, l2>>
      PROVE  CacheTypes'
  BY <1>2, <1>3, TypesFrame DEF Control, CacheTypes, PagedTypeOK, tableVars
<1>. QED BY <1>2, <1>3 DEF Control

\* A step that no call takes.
LEMMA NoCall ==
  ASSUME Control, CacheTypes', UNCHANGED <<tableVars, stage, lock, job>>
  PROVE  Control'
<1>1. Loop' = Loop /\ Work' = Work
  BY DEF Loop, Work
<1>2. LoopTurn' /\ WorkTurn'
  BY <1>1, LoopFrame, WorkFrame DEF tableVars
<1>3. Placed'
  BY <1>1, GivingBackIs, PlacedFrame
<1>. QED BY <1>2, <1>3 DEF Control

\* A request without a table runs at once; another is restored.
LEMMA StartRestoreControl ==
  ASSUME Control, PoolInv', NEW r \in Req, StartRestore(r), UNCHANGED frugal
  PROVE  Control'
<1> DEFINE rec == [Idle EXCEPT !.pc = "restore", !.req = r]
<1>1. /\ Work.pc = "idle" /\ stage[r] = "waiting" /\ UNCHANGED <<blockVars, l2, tableVars, lock>>
      /\ \/ tbl[r] = <<>> /\ stage' = [stage EXCEPT ![r] = "running"] /\ UNCHANGED job
         \/ stage' = [stage EXCEPT ![r] = "restoring"] /\ Set("work", rec)
  BY DEF StartRestore
<1>2. rec \in Calls /\ rec.pc = "restore" /\ rec.req = r /\ rec.goal = "none"
      /\ rec.then = "idle" /\ rec.pay = <<>>
  BY IdleIsCall DEF Calls, Idle, RestorePc
<1> HIDE DEF rec
<1>3. At("work") = "idle" /\ Work.req = NoReq /\ Work.goal = "none"
  BY <1>1 DEF At, Work, Control, WorkTurn
<1>4. Loop' = Loop /\ job' \in [Thread -> Calls]
  BY <1>1, <1>2, SetFacts DEF Thread, Control, CacheTypes, Loop
<1>5. PICK s \in {"running", "restoring"} : stage' = [stage EXCEPT ![r] = s]
  BY <1>1
<1>6. CacheTypes'
  BY <1>1, <1>4, <1>5, TypesFrame DEF Control, CacheTypes, PagedTypeOK, Stages, tableVars
<1>7. Loop.req # r /\ r # NoReq
  BY <1>1, WorkAt
<1>8. LoopTurn'
  BY <1>1, <1>4, <1>5, <1>7, LoopFrame DEF tableVars, Control, CacheTypes, PagedTypeOK
<1>9. WorkTurn'
  <2>1. CASE UNCHANGED job
    <3>1. Work' = Work
      BY <2>1 DEF Work
    <3>. QED BY <1>1, <1>3, <3>1, WorkAt, WorkFrame
  <2>2. CASE Set("work", rec) /\ stage' = [stage EXCEPT ![r] = "restoring"]
    <3>1. Work' = rec
      BY <2>2, <1>2, SetFacts DEF Thread, Control, CacheTypes, Work
    <3>2. stage'[r] = "restoring" /\ Len(rec.pay) <= Len(tbl'[r])
      BY <1>1, <1>2, <2>2 DEF Control, CacheTypes, PagedTypeOK, tableVars
    <3>3. lock' # "work"
      BY <1>1 DEF Control, WorkTurn
    <3>. QED BY <1>2, <3>1, <3>2, <3>3 DEF WorkTurn, At, Work, RestorePc, StorePc
  <2>. QED BY <1>1, <2>1, <2>2
<1>10. Placed'
  <2>1. ASSUME NEW q \in Req
        PROVE  GivingBack(q) => GivingBack(q)'
    <3>1. ~Backs(Work, q)
      BY <1>3 DEF Backs
    <3>. QED BY <1>4, <3>1, GivingBackIs
  <2>2. stage'[r] \in {"running", "restoring"} /\ \A q \in Req : q # r => stage'[q] = stage[q]
    BY <1>5 DEF Control, CacheTypes, PagedTypeOK
  <2>. QED BY <1>1, <1>3, <2>1, <2>2, WorkAt DEF Control, Placed, tableVars
<1>. QED BY <1>6, <1>8, <1>9, <1>10 DEF Control

\* The block whose payload is to be restored next.
LEMMA RestoringIsBlock ==
  ASSUME Control, Work.pc = "restore"
  PROVE  /\ Work.req \in Req /\ Len(Work.pay) \in Nat /\ Len(tbl[Work.req]) \in Nat
         /\ Len(Work.pay) <= Len(tbl[Work.req])
         /\ ~Restored => Restoring \in Block /\ Len(Work.pay) + 1 <= Len(tbl[Work.req])
<1>1. Work.req \in Req /\ Len(Work.pay) <= Len(tbl[Work.req])
  BY DEF Control, WorkTurn, At, Work, RestorePc
<1>2. tbl[Work.req] \in Seq(Block) /\ Work.pay \in Seq(Payload)
  BY <1>1, CallIs DEF Control, CacheTypes
<1>. QED BY <1>1, <1>2 DEF Restored, Restoring

\* A restore reads its table in order and never past its end.
LEMMA RestoreControl ==
  ASSUME Control, PoolInv', RestoreHit \/ RestoreRead \/ RestoreDone, UNCHANGED frugal
  PROVE  Control'
<1>1. Work.pc = "restore" /\ UNCHANGED <<blockVars, l2, tableVars, stage, lock>>
  BY DEF RestoreHit, RestoreRead, RestoreDone
<1>2. ASSUME NEW rec \in Calls, Set("work", rec), rec.req = Work.req, rec.goal = Work.goal,
             rec.then = Work.then, rec.pc \in RestorePc,
             Len(rec.pay) <= Len(tbl[Work.req]), rec.pc = "hydrate" => rec.pay # <<>>
      PROVE  Control'
  <2>1. Work' = rec /\ CacheTypes' /\ (WorkTurn' => Control')
    BY <1>1, <1>2, WorkGoesOn DEF RestorePc
  <2>2. WorkTurn'
    BY <1>1, <1>2, <2>1 DEF Control, WorkTurn, At, Work, RestorePc, StorePc, tableVars
  <2>. QED BY <2>1, <2>2
<1>3. ASSUME ~Restored, NEW x \in Payload
      PROVE  /\ Append(Work.pay, x) \in Seq(Payload)
             /\ Len(Append(Work.pay, x)) <= Len(tbl[Work.req]) /\ Append(Work.pay, x) # <<>>
  <2>1. Work.pay \in Seq(Payload)
    BY CallIs
  <2>2. Len(Append(Work.pay, x)) = Len(Work.pay) + 1 /\ Append(Work.pay, x) \in Seq(Payload)
        /\ Append(Work.pay, x) # <<>>
    BY <2>1
  <2>. QED BY <1>1, <1>3, <2>2, RestoringIsBlock
<1>4. Work \in Calls
  BY CallIs
<1>5. CASE RestoreHit
  <2>1. data[Restoring] \in Payload /\ Restoring \in Block /\ ~Restored
    BY <1>1, <1>5, RestoringIsBlock DEF RestoreHit, Control, CacheTypes, PagedTypeOK
  <2>2. PICK S \in SUBSET Block : Set("work", [Work EXCEPT !.pay = Append(@, data[Restoring]),
                                                          !.seen = @ \cup S])
    BY <1>5, <2>1 DEF RestoreHit
  <2>3. /\ Append(Work.pay, data[Restoring]) \in Seq(Payload)
        /\ Len(Append(Work.pay, data[Restoring])) <= Len(tbl[Work.req])
    BY <1>3, <2>1
  <2>4. [Work EXCEPT !.pay = Append(@, data[Restoring]), !.seen = @ \cup S] \in Calls
    BY <1>4, <2>3 DEF Calls
  <2>. QED BY <1>1, <1>2, <1>4, <2>2, <2>3, <2>4 DEF Calls, RestorePc
<1>6. CASE RestoreRead
  <2> DEFINE x == l2[hash[Restoring]]
  <2>1. /\ ~Restored /\ Restoring \in Block /\ Readable(hash[Restoring])
        /\ Set("work", [Work EXCEPT !.pc = "hydrate", !.pay = Append(@, x)])
    BY <1>1, <1>6, RestoringIsBlock DEF RestoreRead
  <2>2. x \in Payload
    BY <2>1 DEF Readable, Control, CacheTypes, PagedTypeOK, Payload
  <2>3. /\ Append(Work.pay, x) \in Seq(Payload) /\ Append(Work.pay, x) # <<>>
        /\ Len(Append(Work.pay, x)) <= Len(tbl[Work.req])
    BY <1>3, <2>1, <2>2
  <2> HIDE DEF x
  <2>4. [Work EXCEPT !.pc = "hydrate", !.pay = Append(@, x)] \in Calls
    BY <1>4, <2>3 DEF Calls, RestorePc
  <2>. QED BY <1>2, <1>4, <2>1, <2>3, <2>4 DEF Calls, RestorePc
<1>7. CASE RestoreDone
  <2>1. [Work EXCEPT !.pc = "settle"] \in Calls
    BY <1>4 DEF Calls, RestorePc
  <2>. QED BY <1>1, <1>2, <1>4, <1>7, <2>1, RestoringIsBlock DEF RestoreDone, Calls, RestorePc
<1>. QED BY <1>5, <1>6, <1>7

\* Filling a restored block keeps the types.
LEMMA HydrateControl ==
  ASSUME Control, PoolInv', Hydrate \/ SettleNext, UNCHANGED frugal
  PROVE  Control'
<1>1. PICK new \in {"restore", "settle"}, S \in SUBSET Block :
        /\ Set("work", [Work EXCEPT !.pc = new, !.seen = S])
        /\ Work.pc \in {"hydrate", "settle"} /\ UNCHANGED <<l2, tableVars, stage, lock>>
        /\ UNCHANGED <<hash, index, flight>>
        /\ data' \in [Block -> Payload] /\ disk' \subseteq Block /\ scratch' \subseteq Block
  <2>1. CASE Hydrate
    <3> DEFINE n == Len(Work.pay)
               b == tbl[Work.req][n]
    <3>1. /\ Work.pc = "hydrate" /\ data' = [data EXCEPT ![b] = Work.pay[n]]
          /\ disk' = disk \cup {b} /\ scratch' = scratch \cup {b}
          /\ Set("work", [Work EXCEPT !.pc = "restore", !.seen = @ \cup {b}])
          /\ UNCHANGED <<hash, index, flight, l2, tableVars, stage, lock>>
      BY <2>1 DEF Hydrate
    <3>2. Work.req \in Req /\ n <= Len(tbl[Work.req]) /\ Work.pay # <<>>
      BY <3>1 DEF Control, WorkTurn, At, Work, RestorePc
    <3>3. Work.pay \in Seq(Payload) /\ tbl[Work.req] \in Seq(Block) /\ Work.seen \subseteq Block
      BY <3>2, CallIs DEF Control, CacheTypes, Calls
    <3>4. b \in Block /\ Work.pay[n] \in Payload
      BY <3>2, <3>3
    <3> HIDE DEF b, n
    <3>5. data' \in [Block -> Payload] /\ disk' \subseteq Block /\ scratch' \subseteq Block
      BY <3>1, <3>4 DEF Control, CacheTypes, PagedTypeOK
    <3>6. Set("work", [Work EXCEPT !.pc = "restore", !.seen = Work.seen \cup {b}])
      BY <3>1
    <3>. QED BY <3>1, <3>3, <3>4, <3>5, <3>6
  <2>2. CASE SettleNext
    <3>1. PICK b \in Work.seen :
            /\ Work.pc = "settle" /\ Set("work", [Work EXCEPT !.seen = @ \ {b}])
            /\ \/ disk' = disk \ {b} /\ UNCHANGED <<data, scratch>>
               \/ DropPayloads({b})
               \/ UNCHANGED <<data, disk, scratch>>
            /\ UNCHANGED <<hash, index, flight, l2, tableVars, stage, lock>>
      BY <2>2 DEF SettleNext
    <3>2. data' \in [Block -> Payload] /\ disk' \subseteq Block /\ scratch' \subseteq Block
      BY <3>1, DropTypes DEF Control, CacheTypes, PagedTypeOK
    <3>3. Work.seen \ {b} \subseteq Block /\ Work \in Calls
      BY CallIs DEF Calls
    <3>4. [Work EXCEPT !.seen = @ \ {b}] = [Work EXCEPT !.pc = "settle", !.seen = Work.seen \ {b}]
      BY <3>1, <3>3 DEF Calls
    <3>. QED BY <3>1, <3>2, <3>3, <3>4
  <2>. QED BY <2>1, <2>2
<1> DEFINE rec == [Work EXCEPT !.pc = new, !.seen = S]
<1>2. Work \in Calls
  BY CallIs
<1>3. rec \in Calls /\ rec.req = Work.req /\ rec.goal = Work.goal /\ rec.pc = new
      /\ rec.then = Work.then /\ rec.pay = Work.pay
  BY <1>1, <1>2 DEF Calls, RestorePc
<1> HIDE DEF rec
<1>4. /\ Work' = rec /\ job' \in [Thread -> Calls] /\ (WorkTurn' /\ CacheTypes' => Control')
  BY <1>1, <1>3, WorkGoesOn DEF rec, RestorePc
<1>5. CacheTypes'
  BY <1>1, <1>4 DEF Control, CacheTypes, PagedTypeOK, PoolInv, tableVars
<1>6. WorkTurn'
  BY <1>1, <1>3, <1>4 DEF Control, WorkTurn, At, Work, RestorePc, StorePc, tableVars
<1>. QED BY <1>4, <1>5, <1>6

\* The worker gives back a table, or what it would give back is nothing.
GivesBack(rec, r, goal) ==
  \/ rec = [[Idle EXCEPT !.req = r, !.goal = goal] EXCEPT !.pc = "release", !.ids = tbl[r],
                                                          !.then = "detach"]
  \/ rec = [[Idle EXCEPT !.req = r, !.goal = goal] EXCEPT !.pc = "detach"]

\* The call that gives a table back.
LEMMA GiveBackRec ==
  ASSUME Control, NEW r \in Req, NEW goal \in {"cold", "store", "done"}, NEW rec,
         GivesBack(rec, r, goal)
  PROVE  /\ rec \in Calls /\ rec.req = r /\ rec.goal = goal
         /\ rec.pc \in {"release", "detach"}
         /\ rec.then = IF rec.pc = "release" THEN "detach" ELSE "idle"
<1> DEFINE base == [Idle EXCEPT !.req = r, !.goal = goal]
<1>1. base \in Calls /\ base.req = r /\ base.goal = goal /\ base.then = "idle"
  BY IdleIsCall DEF Calls, Idle
<1>2. tbl[r] \in Seq(Block)
  BY DEF Control, CacheTypes
<1> HIDE DEF base
<1>3. CASE rec = [base EXCEPT !.pc = "release", !.ids = tbl[r], !.then = "detach"]
  BY <1>1, <1>2, <1>3 DEF Calls
<1>4. CASE rec = [base EXCEPT !.pc = "detach"]
  BY <1>1, <1>4 DEF Calls
<1>. QED BY <1>3, <1>4 DEF base, GivesBack

\* The worker starts to give a table back.
LEMMA GiveBackControl ==
  ASSUME Control, PoolInv', NEW r \in Req, NEW goal \in {"cold", "store", "done"}, NEW rec,
         \/ /\ rec = [[Idle EXCEPT !.req = r, !.goal = goal] EXCEPT !.pc = "release",
                                                     !.ids = tbl[r], !.then = "detach"]
            /\ lock = "free" /\ lock' = "work"
         \/ /\ rec = [[Idle EXCEPT !.req = r, !.goal = goal] EXCEPT !.pc = "detach"]
            /\ UNCHANGED lock,
         Set("work", rec), Work.pc # "release",
         Work.req = r \/ Work.req = NoReq,
         stage' = stage \/ stage' = [stage EXCEPT ![r] = "storing"],
         \/ goal = "cold" /\ stage'[r] = "restoring"
         \/ goal \in {"store", "done"} /\ stage'[r] \in {"storing", "salvage"},
         Loop.req # r, \A q \in Req : Backs(Work, q) => q = r,
         UNCHANGED <<blockVars, l2, tableVars, frugal>>
  PROVE  Control'
<1>0. GivesBack(rec, r, goal)
  BY DEF GivesBack
<1>1. /\ rec \in Calls /\ rec.req = r /\ rec.goal = goal
      /\ rec.pc \in {"release", "detach"}
      /\ rec.then = IF rec.pc = "release" THEN "detach" ELSE "idle"
  BY <1>0, GiveBackRec
<1>2. Work' = rec /\ Loop' = Loop /\ job' \in [Thread -> Calls]
  BY <1>1, SetFacts DEF Thread, Control, CacheTypes, Loop, Work
<1>3. lock' \in {"free"} \cup Thread /\ (lock' = "loop" <=> lock = "loop")
  BY DEF Control, CacheTypes, PagedTypeOK, Thread
<1>4. /\ \A q \in Req : q # r => stage'[q] = stage[q]
      /\ stage'[r] \in {"storing", stage[r]}
      /\ stage' \in [Req -> Stages]
  BY DEF Control, CacheTypes, PagedTypeOK, Stages
<1>5. CacheTypes'
  BY <1>2, <1>3, <1>4, TypesFrame DEF Control, CacheTypes, PagedTypeOK, tableVars
<1>6. LoopTurn'
  BY <1>2, <1>3, <1>4, LoopFrame DEF tableVars
<1>7. WorkTurn'
  <2>1. lock' = "work" <=> rec.pc = "release"
    <3>1. lock # "work"
      BY DEF Control, WorkTurn
    <3>. QED BY <3>1 DEF Idle
  <2>. QED BY <1>1, <1>2, <1>4, <2>1 DEF WorkTurn, At, Work, RestorePc, StorePc
<1>8. Placed'
  <2>1. \A q \in Req : GivingBack(q) => GivingBack(q)'
    <3>1. Backs(rec, r)
      BY <1>1 DEF Backs
    <3>. QED BY <1>2, <3>1, GivingBackIs
  <2>2. \A q \in Req : q # r => (Work.req # q <=> Work'.req # q)
    BY <1>1, <1>2, WorkAt
  <2>3. GivingBack(r)'
    BY <1>1, <1>2, GivingBackIs DEF Backs
  <2>4. stage'[r] = "storing" \/ (stage'[r] = stage[r] /\ stage[r] \in {"restoring", "salvage"})
    BY <1>4
  <2>5. Work'.req = r
    BY <1>1, <1>2
  <2>. QED BY <1>4, <2>1, <2>2, <2>3, <2>4, <2>5 DEF Control, Placed, tableVars
<1>. QED BY <1>5, <1>6, <1>7, <1>8 DEF Control

\* A restore ends in a running request or in giving its table back.
LEMMA SettleEndControl ==
  ASSUME Control, PoolInv', SettleEnd, UNCHANGED frugal
  PROVE  Control'
<1> DEFINE r == Work.req
<1>1. Work.pc = "settle" /\ UNCHANGED <<blockVars, l2, tableVars>>
  BY DEF SettleEnd
<1>2. /\ r \in Req /\ stage[r] = "restoring" /\ Work.goal = "none" /\ lock # "work"
      /\ At("work") = "settle"
  BY <1>1 DEF Control, WorkTurn, At, Work, RestorePc
<1>3. Loop.req # r /\ r # NoReq
  BY <1>2, WorkAt
<1>4. CASE Restored
  <2>1. /\ Set("work", Idle) /\ UNCHANGED lock
        /\ stage' = [stage EXCEPT ![r] = IF @ = "aborted" THEN "ghost" ELSE "running"]
    BY <1>4 DEF SettleEnd
  <2>2. stage' = [stage EXCEPT ![r] = "running"]
    BY <1>2, <2>1 DEF Control, CacheTypes, PagedTypeOK
  <2>3. Work' = Idle /\ Loop' = Loop /\ job' \in [Thread -> Calls]
    BY <2>1, IdleIsCall, SetFacts DEF Thread, Control, CacheTypes, Loop, Work
  <2>4. CacheTypes'
    BY <1>1, <2>1, <2>2, <2>3, TypesFrame DEF Control, CacheTypes, PagedTypeOK, Stages, tableVars
  <2>5. LoopTurn'
    BY <1>1, <1>3, <2>1, <2>2, <2>3, LoopFrame DEF tableVars, Control, CacheTypes, PagedTypeOK
  <2>6. WorkTurn'
    BY <1>2, <2>1, <2>3 DEF WorkTurn, At, Work, Idle, RestorePc, StorePc
  <2>7. Placed'
    <3>1. \A q \in Req : GivingBack(q) => GivingBack(q)'
      BY <1>2, <2>3, GivingBackIs DEF Backs
    <3>2. stage'[r] = "running" /\ \A q \in Req : q # r => stage'[q] = stage[q]
      BY <1>2, <2>2 DEF Control, CacheTypes, PagedTypeOK
    <3> HIDE DEF r
    <3>3. \A q \in Req : q # r => Work.req # q
      BY DEF r
    <3>. QED BY <1>1, <1>2, <3>1, <3>2, <3>3 DEF Control, Placed, tableVars
  <2>. QED BY <2>4, <2>5, <2>6, <2>7 DEF Control
<1>5. CASE ~Restored
  <2> DEFINE rec == [[Idle EXCEPT !.req = r, !.goal = "cold"] EXCEPT !.pc = "release",
                                              !.ids = tbl[r], !.then = "detach"]
  <2>1. /\ lock = "free" /\ lock' = "work" /\ UNCHANGED stage /\ Set("work", rec)
    BY <1>5 DEF SettleEnd, Walking
  <2>2. \A q \in Req : Backs(Work, q) => q = r
    BY DEF Backs
  <2> HIDE DEF r
  <2>. QED BY <1>1, <1>2, <1>3, <2>1, <2>2, GiveBackControl DEF r
<1>. QED BY <1>4, <1>5

\* What GiveBack(r, goal) does to the lock and the call.
LEMMA GiveBackDoes ==
  ASSUME NEW r, NEW goal, GiveBack(r, goal)
  PROVE  \E rec :
          /\ Set("work", rec)
          /\ \/ /\ rec = [[Idle EXCEPT !.req = r, !.goal = goal] EXCEPT !.pc = "release",
                                                     !.ids = tbl[r], !.then = "detach"]
                /\ lock = "free" /\ lock' = "work"
             \/ /\ rec = [[Idle EXCEPT !.req = r, !.goal = goal] EXCEPT !.pc = "detach"]
                /\ UNCHANGED lock
BY DEF GiveBack, Walking

\* A store starts by giving the fetched table back.
LEMMA StartStoreControl ==
  ASSUME Control, PoolInv', NEW r \in Req, StartStore(r) \/ StartSalvage(r), UNCHANGED frugal
  PROVE  Control'
<1>1. Work.pc = "idle" /\ UNCHANGED <<blockVars, l2, tableVars>>
  BY DEF StartStore, StartSalvage
<1>2. Work.req = NoReq /\ Work.goal = "none"
  BY <1>1 DEF Control, WorkTurn, At, Work
<1>3. \A q \in Req : Backs(Work, q) => q = r
  BY <1>2 DEF Backs
<1>4. stage[r] \in {"running", "ghost", "salvage"} /\ stage \in [Req -> Stages]
  BY DEF StartStore, StartSalvage, Control, CacheTypes, PagedTypeOK
<1>5. Loop.req # r
  BY <1>4, WorkAt
<1>6. CASE StartStore(r)
  <2>1. GiveBack(r, "store") /\ stage' = [stage EXCEPT ![r] = "storing"] /\ stage'[r] = "storing"
    BY <1>4, <1>6 DEF StartStore
  <2>. QED BY <1>1, <1>2, <1>3, <1>5, <2>1, GiveBackDoes, GiveBackControl, ZenonT(60)
<1>7. CASE StartSalvage(r)
  <2>1. stage' = stage /\ stage[r] = "salvage" /\ UNCHANGED lock
        /\ Set("work", [Idle EXCEPT !.pc = "detach", !.req = r, !.goal = "store"])
    BY <1>7 DEF StartSalvage
  <2>2. [Idle EXCEPT !.pc = "detach", !.req = r, !.goal = "store"] =
        [[Idle EXCEPT !.req = r, !.goal = "store"] EXCEPT !.pc = "detach"]
    BY DEF Idle
  <2>. QED BY <1>1, <1>2, <1>3, <1>5, <2>1, <2>2, GiveBackControl
<1>. QED BY <1>6, <1>7

\* A store ends by giving the stored table back.
LEMMA PostStoreControl ==
  ASSUME Control, PoolInv', PostStore, UNCHANGED frugal
  PROVE  Control'
<1>1. Work.pc = "stored" /\ GiveBack(Work.req, "done")
      /\ UNCHANGED <<blockVars, l2, tableVars, stage>>
  BY DEF PostStore
<1>2. /\ Work.req \in Req /\ stage[Work.req] \in {"storing", "salvage"}
  BY <1>1 DEF Control, WorkTurn, At, Work, StorePc
<1>3. \A q \in Req : Backs(Work, q) => q = Work.req
  BY DEF Backs
<1>4. Loop.req # Work.req
  BY <1>2, WorkAt
<1>. QED BY <1>1, <1>2, <1>3, <1>4, GiveBackDoes, GiveBackControl

\* The position of a store: its request, its chain and its table.
LEMMA StoreAt ==
  ASSUME Control, Work.pc \in {"dedup", "alloc", "register", "publish"}
  PROVE  /\ Work.req \in Req /\ stage[Work.req] \in {"storing", "salvage"}
         /\ Work.goal = "none" /\ Work.then = "idle" /\ lock # "work"
         /\ tbl[Work.req] \in Seq(Block) /\ StoreChain[Work.req] \in Seq(Hash)
         /\ Len(tbl[Work.req]) \in Nat /\ Len(StoreChain[Work.req]) \in Nat
         /\ Len(tbl[Work.req]) <= Len(StoreChain[Work.req])
         /\ ~StoreDone => NextHash \in Hash /\ Len(tbl[Work.req]) + 1 <= Len(StoreChain[Work.req])
<1>1. /\ Work.req \in Req /\ stage[Work.req] \in {"storing", "salvage"}
      /\ Work.goal = "none" /\ Work.then = "idle" /\ lock # "work"
      /\ Len(tbl[Work.req]) <= Len(StoreChain[Work.req])
  BY DEF Control, WorkTurn, At, Work, StorePc
<1>2. tbl[Work.req] \in Seq(Block) /\ StoreChain[Work.req] \in Seq(Hash)
  BY <1>1, CacheAssumption DEF Control, CacheTypes
<1>. QED BY <1>1, <1>2 DEF StoreDone, NextHash

\* A store changes the table of its own request only.
LEMMA StoreStep ==
  ASSUME Control, PoolInv', Work.pc \in {"dedup", "alloc", "register", "publish"},
         NEW pc \in StorePc, NEW rec, rec = [Work EXCEPT !.pc = pc], Set("work", rec),
         NEW ids \in Seq(Block), tbl' = [tbl EXCEPT ![Work.req] = ids],
         entries' = entries \/ entries' = entries \cup {Work.req},
         UNCHANGED <<paged, stage, lock, frugal, l2>>,
         hash' \in [Block -> Payload] /\ data' \in [Block -> Payload],
         disk' \subseteq Block /\ scratch' \subseteq Block,
         index' \in [Hash -> SUBSET Block], flight' \in [Hash -> Payload],
         pc # "stored" => Len(ids) <= Len(StoreChain[Work.req]),
         pc = "alloc" => Len(ids) # Len(StoreChain[Work.req]),
         pc = "register" => ids # <<>>,
         pc = "stored" => Work.req \in entries'
  PROVE  Control'
<1>1. Work.req \in Req /\ stage[Work.req] \in {"storing", "salvage"} /\ Work.goal = "none"
      /\ Work.then = "idle" /\ lock # "work"
  BY StoreAt
<1>2. /\ rec \in Calls /\ rec.req = Work.req /\ rec.goal = "none" /\ rec.then = "idle"
      /\ rec.pc = pc
  BY <1>1, CallIs DEF Calls, StorePc
<1>3. Work' = rec /\ Loop' = Loop /\ job' \in [Thread -> Calls]
  BY <1>2, SetFacts DEF Thread, Control, CacheTypes, Loop, Work
<1>4. /\ tbl' \in [Req -> Seq(Block)] /\ tbl'[Work.req] = ids
      /\ \A q \in Req : q # Work.req => tbl'[q] = tbl[q] /\ (q \in entries' <=> q \in entries)
      /\ entries' \subseteq Req
  BY <1>1 DEF Control, CacheTypes, PagedTypeOK
<1>5. CacheTypes'
  <2>1. \A q \in Req : Members(tbl'[q]) \subseteq Block
    BY <1>4 DEF Members
  <2>. QED BY <1>3, <1>4, <2>1 DEF Control, CacheTypes, PagedTypeOK, PoolInv
<1>6. LoopTurn'
  <2>1. Loop.req # Work.req
    BY <1>1, WorkAt
  <2>. QED BY <1>3, <1>4, <2>1, LoopFrame
<1>7. WorkTurn'
  BY <1>1, <1>2, <1>3, <1>4 DEF WorkTurn, At, Work, RestorePc, StorePc, StoreDone
<1>8. Placed'
  <2>1. \A q \in Req : GivingBack(q) => GivingBack(q)'
    BY <1>1, <1>3, GivingBackIs DEF Backs
  <2>2. Work'.req = Work.req
    BY <1>2, <1>3
  <2>. QED BY <1>1, <1>4, <2>1, <2>2 DEF Control, Placed
<1>. QED BY <1>5, <1>6, <1>7, <1>8 DEF Control

\* The steps of a store keep its table no longer than its chain.
LEMMA StoreControl ==
  ASSUME Control, PoolInv', Dedup \/ NoDuplicate \/ AllocFails \/ Register \/ Publish,
         UNCHANGED frugal
  PROVE  Control'
<1> DEFINE t == tbl[Work.req]
<1>1. Work.pc \in StorePc /\ UNCHANGED <<hash, data, disk, scratch, l2, paged, stage, lock>>
  BY DEF Dedup, NoDuplicate, AllocFails, Register, Publish, StorePc, blockVars, tableVars
<1>2. Work.pc \in {"dedup", "alloc", "register", "publish"}
  BY DEF Dedup, NoDuplicate, AllocFails, Register, Publish
<1>3. /\ tbl = [tbl EXCEPT ![Work.req] = t] /\ t \in Seq(Block) /\ Work = [Work EXCEPT !.pc = Work.pc]
      /\ Len(t) <= Len(StoreChain[Work.req])
  BY <1>2, StoreAt, CallIs DEF Control, CacheTypes, Calls
<1>4. /\ hash' \in [Block -> Payload] /\ data' \in [Block -> Payload]
      /\ disk' \subseteq Block /\ scratch' \subseteq Block
      /\ index \in [Hash -> SUBSET Block] /\ flight \in [Hash -> Payload]
  BY <1>1 DEF Control, CacheTypes, PagedTypeOK
<1>5. CASE Dedup
  <2>1. PICK b \in Block : tbl' = [tbl EXCEPT ![Work.req] = Append(@, b)]
    BY <1>5 DEF Dedup, Find, Appended
  <2>2. ~StoreDone /\ Work.pc = "dedup" /\ UNCHANGED <<blockVars, entries, job>>
    BY <1>5 DEF Dedup
  <2>3. Set("work", [Work EXCEPT !.pc = "dedup"])
    BY <1>3, <2>2 DEF Set, Work, Control, CacheTypes, Thread
  <2>4. Append(t, b) \in Seq(Block) /\ Len(Append(t, b)) = Len(t) + 1
    BY <1>3
  <2>5. Len(Append(t, b)) <= Len(StoreChain[Work.req])
    BY <1>2, <2>2, <2>4, StoreAt
  <2>6. tbl' = [tbl EXCEPT ![Work.req] = Append(t, b)]
    BY <2>1
  <2> HIDE DEF t
  <2>. QED BY <1>1, <1>2, <1>4, <2>2, <2>3, <2>4, <2>5, <2>6, StoreStep DEF blockVars, StorePc
<1>6. CASE NoDuplicate
  <2>1. ~StoreDone /\ UNCHANGED <<blockVars, tableVars>> /\ Set("work", [Work EXCEPT !.pc = "alloc"])
    BY <1>6 DEF NoDuplicate
  <2>. QED BY <1>1, <1>2, <1>3, <1>4, <2>1, StoreStep DEF blockVars, tableVars, StorePc, StoreDone
<1>7. CASE AllocFails
  <2>1. UNCHANGED <<blockVars, tableVars>> /\ Set("work", [Work EXCEPT !.pc = "publish"])
    BY <1>7 DEF AllocFails
  <2>. QED BY <1>1, <1>2, <1>3, <1>4, <2>1, StoreStep DEF blockVars, tableVars, StorePc
<1>8. CASE Register
  <2> DEFINE b == t[Len(t)]
             h == hash[b]
  <2>1. /\ Work.pc = "register" /\ Set("work", [Work EXCEPT !.pc = "dedup"])
        /\ index' = [index EXCEPT ![h] = @ \cup {b}]
        /\ flight' = flight \/ flight' = [flight EXCEPT ![h] = h]
        /\ UNCHANGED <<tbl, entries>>
    BY <1>8 DEF Register, tableVars
  <2>2. b \in Block /\ h \in Payload
    <3>1. t # <<>>
      BY <2>1 DEF Control, WorkTurn, At, Work
    <3>2. b \in Block
      BY <1>3, <3>1
    <3>. QED BY <3>2 DEF Control, CacheTypes, PagedTypeOK
  <2> HIDE DEF b, h
  <2>3. index' \in [Hash -> SUBSET Block] /\ flight' \in [Hash -> Payload]
    BY <1>4, <2>1, <2>2
  <2>. QED BY <1>1, <1>2, <1>3, <1>4, <2>1, <2>3, StoreStep DEF StorePc
<1>9. CASE Publish
  <2>1. /\ entries' = entries \cup {Work.req} /\ Set("work", [Work EXCEPT !.pc = "stored"])
        /\ UNCHANGED <<blockVars, tbl>>
    BY <1>9 DEF Publish
  <2>. QED BY <1>1, <1>2, <1>3, <1>4, <2>1, StoreStep DEF blockVars, StorePc
<1>. QED BY <1>5, <1>6, <1>7, <1>8, <1>9

\* A fresh block lengthens the table by one.
LEMMA AllocControl ==
  ASSUME Control, PoolInv', Alloc, UNCHANGED frugal
  PROVE  Control'
<1> DEFINE t == tbl[Work.req]
<1>1. PICK k \in 0..(Len(queue) - 1) :
        /\ TakeFor(k, NextHash, IF frugal THEN NoHash ELSE NextHash, FALSE, FALSE)
        /\ index' = Unindexed(queue[k + 1])
        /\ Appended(queue[k + 1])
  BY DEF Alloc
<1>2. /\ Work.pc = "alloc" /\ Set("work", [Work EXCEPT !.pc = "register"])
      /\ UNCHANGED <<l2, paged, entries, stage, lock>>
  BY DEF Alloc
<1>3. ~StoreDone /\ NextHash \in Hash /\ t \in Seq(Block) /\ Len(t) + 1 <= Len(StoreChain[Work.req])
  <2>1. ~StoreDone
    BY <1>2 DEF Control, WorkTurn, At, Work
  <2>. QED BY <1>2, <2>1, StoreAt
<1>4. (IF frugal THEN NoHash ELSE NextHash) \in Payload
  BY <1>3 DEF Payload
<1>5. /\ queue[k + 1] \in Block
      /\ hash' \in [Block -> Payload] /\ data' \in [Block -> Payload]
      /\ disk' \subseteq Block /\ scratch' \subseteq Block
      /\ flight' \in [Hash -> Payload]
  BY <1>1, <1>3, <1>4, TakeForTypes
<1>6. index' \in [Hash -> SUBSET Block]
  BY <1>1, <1>5, UnindexedType
<1> DEFINE b == queue[k + 1]
<1>7. tbl' = [tbl EXCEPT ![Work.req] = Append(t, b)]
  BY <1>1 DEF Appended
<1> HIDE DEF b, t
<1>8. Append(t, b) \in Seq(Block) /\ Len(Append(t, b)) = Len(t) + 1 /\ Append(t, b) # <<>>
  BY <1>3, <1>5 DEF b
<1>. QED BY <1>2, <1>3, <1>5, <1>6, <1>7, <1>8, StoreStep DEF StorePc

\* Evictions and L2 writes touch no call.
LEMMA EnvironmentControl ==
  ASSUME Control, PoolInv', Environment, UNCHANGED frugal
  PROVE  Control'
<1>1. UNCHANGED <<tableVars, stage, lock, job>>
  BY DEF Environment, EvictPayload, PublishWrite, LoseWrite, EvictL2
<1>2. CASE \E b \in Block : EvictPayload(b)
  <2>1. PICK b \in Block : EvictPayload(b)
    BY <1>2
  <2>2. WriteThrough(b) \in [Hash -> Payload]
    BY DEF WriteThrough, MayRefuse, Control, CacheTypes, PagedTypeOK, Payload
  <2>3. /\ hash' = [hash EXCEPT ![b] = NoHash] /\ index' = Unindexed(b)
        /\ flight' = flight \/ flight' = WriteThrough(b)
        /\ DropPayloads({b}) /\ UNCHANGED l2
    BY <2>1 DEF EvictPayload
  <2>4. /\ hash' \in [Block -> Payload] /\ index' \in [Hash -> SUBSET Block]
        /\ flight' \in [Hash -> Payload]
    BY <2>2, <2>3, UnindexedType DEF Control, CacheTypes, PagedTypeOK, Payload
  <2>5. data' \in [Block -> Payload] /\ disk' \subseteq Block /\ scratch' \subseteq Block
    BY <2>3, DropTypes
  <2>6. CacheTypes'
    BY <1>1, <2>3, <2>4, <2>5 DEF Control, CacheTypes, PagedTypeOK, PoolInv, tableVars
  <2>. QED BY <1>1, <2>6, NoCall
<1>3. CASE \E h \in Hash : PublishWrite(h) \/ LoseWrite(h) \/ EvictL2(h)
  <2>1. l2' \in [Hash -> Payload] /\ flight' \in [Hash -> Payload]
        /\ UNCHANGED <<hash, data, disk, scratch, index>>
    BY <1>3 DEF PublishWrite, LoseWrite, EvictL2, blockVars, Control, CacheTypes, PagedTypeOK, Payload
  <2>2. CacheTypes'
    BY <1>1, <2>1 DEF Control, CacheTypes, PagedTypeOK, PoolInv, tableVars
  <2>. QED BY <1>1, <2>2, NoCall
<1>. QED BY <1>2, <1>3 DEF Environment

\* A cache nobody holds a block of is cleared: whoever has a table has an
\* empty one.
LEMMA ClearControl ==
  ASSUME Control, PoolInv', Clear, UNCHANGED frugal, \A r \in Owners : tbl[r] = <<>>
  PROVE  Control'
<1>1. /\ paged' = {} /\ entries' = {} /\ UNCHANGED <<tbl, stage, lock, job, l2, flight>>
      /\ hash' = [b \in Block |-> NoHash] /\ data' = [b \in Block |-> NoHash]
      /\ disk' = {} /\ scratch' = {} /\ index' = [h \in Hash |-> {}]
      /\ Loop.pc = "idle"
  BY DEF Clear, ResetCache
<1>2. CacheTypes'
  BY <1>1 DEF Control, CacheTypes, PagedTypeOK, PoolInv, Payload
<1>3. Loop' = Loop /\ Work' = Work
  BY <1>1 DEF Loop, Work
<1>4. LoopTurn'
  BY <1>1, <1>3, LoopFrame
<1>5. ASSUME NEW r \in Req, r \in paged \cup entries, ~GivingBack(r)
      PROVE  tbl[r] = <<>>
  BY <1>5 DEF Owners
<1>6. WorkTurn'
  <2>1. CASE At("work") = "stored"
    <3>1. Work.pc = "stored" /\ Work.req \in Req
      BY <2>1 DEF At, Work, Control, WorkTurn, StorePc
    <3>2. tbl[Work.req] = <<>>
      <4>1. ~GivingBack(Work.req)
        <5>1. ~Backs(Work, Work.req)
          BY <3>1 DEF Backs
        <5>2. ~Backs(Loop, Work.req)
          BY <1>1 DEF Backs
        <5>. QED BY <5>1, <5>2, GivingBackIs
      <4>. QED BY <2>1, <3>1, <4>1, <1>5 DEF Control, WorkTurn
    <3>. QED BY <1>1, <1>3, <2>1, <3>2 DEF Control, WorkTurn, At, Work, RestorePc, StorePc
  <2>2. CASE At("work") # "stored"
    BY <1>1, <1>3, <2>2 DEF Control, WorkTurn, At, Work, StoreDone, RestorePc, StorePc
  <2>. QED BY <2>1, <2>2
<1>7. Placed'
  <2>1. \A r \in Req : GivingBack(r)' <=> GivingBack(r)
    BY <1>3, GivingBackIs
  <2>. QED BY <1>1, <1>3, <1>5, <2>1 DEF Control, Placed
<1>. QED BY <1>2, <1>4, <1>6, <1>7 DEF Control

\* Initially nothing is in progress and nothing is registered.
LEMMA ControlInit ==
  ASSUME CacheInit
  PROVE  Control
<1>1. Loop = Idle /\ Work = Idle /\ job \in [Thread -> Calls]
  BY IdleIsCall DEF CacheInit, Loop, Work, Thread
<1>2. CacheTypes
  <2>1. <<>> \in Seq(Block)
    OBVIOUS
  <2>2. PoolTypeOK
    BY FreshInv DEF CacheInit, PoolInv
  <2>3. \A r \in Req : Members(tbl[r]) \subseteq Block
    BY DEF CacheInit, Members
  <2>. QED BY <1>1, <2>1, <2>2, <2>3 DEF CacheInit, CacheTypes, PagedTypeOK, Payload, Stages
<1>3. LoopTurn /\ WorkTurn
  BY <1>1 DEF LoopTurn, WorkTurn, At, Idle, CacheInit, FetchPc, RestorePc, StorePc, Loop, Work
<1>4. Placed
  BY DEF CacheInit, Placed
<1>. QED BY <1>2, <1>3, <1>4 DEF Control

\* Every step keeps Control; for clear, if nobody owns a block.
LEMMA ControlStep ==
  ASSUME Control, PoolInv', [CacheNext]_vars, Clear => \A r \in Owners : tbl[r] = <<>>
  PROVE  Control'
<1>1. CASE UNCHANGED vars
  <2>1. UNCHANGED <<tableVars, stage, lock, job, frugal, poolVars, blockVars, l2>>
    BY <1>1 DEF vars
  <2>2. CacheTypes'
    BY <2>1 DEF Control, CacheTypes, PagedTypeOK, PoolInv, blockVars, tableVars
  <2>. QED BY <2>1, <2>2, NoCall
<1>2. CASE Fetching /\ UNCHANGED frugal
  BY <1>2, StartFetchControl, LookupHitControl, LookupMissControl, PromoteControl, CompareControl,
     PinControl, CommitFetchControl DEF Fetching
<1>3. CASE Ending /\ UNCHANGED frugal
  BY <1>3, AbortControl, WalkControl, WalkEndControl, DetachControl DEF Ending
<1>4. CASE RestoringSteps /\ UNCHANGED frugal
  BY <1>4, StartRestoreControl, RestoreControl, HydrateControl, SettleEndControl DEF RestoringSteps
<1>5. CASE StoringSteps /\ UNCHANGED frugal
  BY <1>5, StartStoreControl, StoreControl, AllocControl, PostStoreControl DEF StoringSteps
<1>. QED BY <1>1, <1>2, <1>3, <1>4, <1>5, EnvironmentControl, ClearControl DEF CacheNext, Serving

\* Two sets with functions from each to the other that undo one another.
LEMMA SameSize ==
  ASSUME NEW S, NEW T, IsFiniteSet(S), NEW f \in [S -> T], NEW g \in [T -> S],
         \A s \in S : g[f[s]] = s, \A t \in T : f[g[t]] = t
  PROVE  IsFiniteSet(T) /\ Cardinality(T) = Cardinality(S)
<1>1. f \in Bijection(S, T)
  BY DEF Bijection, Injection, Surjection, IsInjective
<1>. QED BY <1>1, FS_Bijection DEF ExistsBijection

Lists == [Label -> Seq(Block)]

\* What x holds goes over to y.
Moved(H, x, y) == [H EXCEPT ![x] = <<>>, ![y] = H[x]]

\* What is where after a list has been moved.
LEMMA MovedIs ==
  ASSUME NEW H \in Lists, NEW x \in Label, NEW y \in Label, x # y
  PROVE  /\ Moved(H, x, y) \in Lists
         /\ Moved(H, x, y)[x] = <<>> /\ Moved(H, x, y)[y] = H[x]
         /\ \A z \in Label : z # x /\ z # y => Moved(H, x, y)[z] = H[z]
<1>1. H[x] \in Seq(Block) /\ <<>> \in Seq(Block)
  BY DEF Lists
<1>. QED BY <1>1 DEF Lists, Moved

\* What one label holds goes over to another that holds nothing.
LEMMA MovedCount ==
  ASSUME NEW H \in Lists, NEW R, NEW x \in Label, NEW y \in Label, x # y, H[y] = <<>>,
         Counted(H, R)
  PROVE  Counted(Moved(H, x, y), R)
<1> DEFINE G == Moved(H, x, y)
<1>1. /\ G[x] = <<>> /\ G[y] = H[x] /\ Len(G[x]) = 0 /\ Len(H[y]) = 0
      /\ \A z \in Label : z # x /\ z # y => G[z] = H[z]
  BY MovedIs
<1> HIDE DEF G
<1>2. ASSUME NEW b \in Block
      PROVE  IsFiniteSet(Uses(G, b)) /\ Cardinality(Uses(G, b)) = Cardinality(Uses(H, b))
  <2> DEFINE f == [u \in Uses(H, b) |-> IF u[1] = x THEN <<y, u[2]>> ELSE u]
             g == [u \in Uses(G, b) |-> IF u[1] = y THEN <<x, u[2]>> ELSE u]
  <2>1. \A u \in Uses(H, b) : u = <<u[1], u[2]>> /\ u[1] # y /\ u[1] \in Label
    BY <1>1 DEF Uses
  <2>2. \A u \in Uses(G, b) : u = <<u[1], u[2]>> /\ u[1] # x /\ u[1] \in Label
    BY <1>1 DEF Uses
  <2>3. f \in [Uses(H, b) -> Uses(G, b)]
    BY <1>1, <2>1 DEF Uses
  <2>4. g \in [Uses(G, b) -> Uses(H, b)]
    BY <1>1, <2>2 DEF Uses
  <2>5. \A u \in Uses(H, b) : g[f[u]] = u
    BY <2>1, <2>3
  <2>6. \A u \in Uses(G, b) : f[g[u]] = u
    BY <2>2, <2>4
  <2>7. IsFiniteSet(Uses(H, b))
    BY DEF Counted
  <2> HIDE DEF f, g
  <2>. QED BY <2>3, <2>4, <2>5, <2>6, <2>7, SameSize, SMTT(40)
<1>. QED BY <1>2 DEF Counted, G

\* x holds block c as well, or its first block no more.
Pushed(H, x, c) == [H EXCEPT ![x] = Append(@, c)]
Popped(H, x) == [H EXCEPT ![x] = Tail(@)]

\* What is where after a block has been appended.
LEMMA PushedIs ==
  ASSUME NEW H \in Lists, NEW x \in Label, NEW c \in Block
  PROVE  /\ Pushed(H, x, c) \in Lists /\ Pushed(H, x, c)[x] = Append(H[x], c)
         /\ \A z \in Label : z # x => Pushed(H, x, c)[z] = H[z]
<1>1. Append(H[x], c) \in Seq(Block)
  BY DEF Lists
<1>. QED BY <1>1 DEF Lists, Pushed

\* What is where after the first block has been taken away.
LEMMA PoppedIs ==
  ASSUME NEW H \in Lists, NEW x \in Label, H[x] # <<>>
  PROVE  /\ Popped(H, x) \in Lists /\ Popped(H, x)[x] = Tail(H[x])
         /\ \A z \in Label : z # x => Popped(H, x)[z] = H[z]
<1>1. Tail(H[x]) \in Seq(Block)
  BY DEF Lists
<1>. QED BY <1>1 DEF Lists, Popped

\* One label holds a block more.
LEMMA PushedCount ==
  ASSUME NEW H \in Lists, NEW R \in [Block -> Int], NEW x \in Label, NEW c \in Block,
         Counted(H, R)
  PROVE  Counted(Pushed(H, x, c), [R EXCEPT ![c] = @ + 1])
<1> DEFINE G == Pushed(H, x, c)
           n == Len(H[x]) + 1
<1>1. /\ H[x] \in Seq(Block) /\ Len(H[x]) \in Nat
      /\ G[x] = Append(H[x], c) /\ \A z \in Label : z # x => G[z] = H[z]
  BY PushedIs, SMTT(40) DEF Lists
<1>2. /\ Len(G[x]) = n /\ G[x][n] = c /\ \A i \in 1..Len(H[x]) : G[x][i] = H[x][i]
  BY <1>1
<1> HIDE DEF G
<1>3. ASSUME NEW b \in Block
      PROVE  /\ IsFiniteSet(Uses(G, b))
             /\ Cardinality(Uses(G, b)) = Cardinality(Uses(H, b)) + (IF b = c THEN 1 ELSE 0)
  <2>1. IsFiniteSet(Uses(H, b)) /\ Cardinality(Uses(H, b)) \in Nat
    BY FS_CardinalityType DEF Counted
  <2>2. <<x, n>> \notin Uses(H, b)
    BY <1>1 DEF Uses
  <2>3. CASE b = c
    <3>1. Uses(G, b) = Uses(H, b) \cup {<<x, n>>}
      BY <1>1, <1>2, <2>3, SMTT(40) DEF Uses
    <3>2. /\ IsFiniteSet(Uses(H, b) \cup {<<x, n>>})
          /\ Cardinality(Uses(H, b) \cup {<<x, n>>}) = Cardinality(Uses(H, b)) + 1
      <4> HIDE DEF n
      <4>. QED BY <2>1, <2>2, FS_AddElement
    <3>. QED BY <2>3, <3>1, <3>2
  <2>4. CASE b # c
    <3>1. ASSUME NEW u \in Label \X Nat
          PROVE  u \in Uses(G, b) <=> u \in Uses(H, b)
      <4>1. CASE u[1] = x
        <5>1. u[2] \in 1..n => u[2] \in 1..Len(H[x]) \/ u[2] = n
          BY <1>1
        <5>. QED BY <1>1, <1>2, <2>4, <4>1, <5>1, SMTT(40) DEF Uses
      <4>2. CASE u[1] # x
        BY <1>1, <4>2 DEF Uses
      <4>. QED BY <4>1, <4>2
    <3>2. Uses(G, b) = Uses(H, b)
      BY <3>1 DEF Uses
    <3>. QED BY <2>1, <2>4, <3>2
  <2>. QED BY <2>3, <2>4
<1>4. \A b \in Block : [R EXCEPT ![c] = @ + 1][b] = R[b] + (IF b = c THEN 1 ELSE 0)
  OBVIOUS
<1>5. Counted(G, [R EXCEPT ![c] = @ + 1])
  BY <1>3, <1>4 DEF Counted
<1>. QED BY <1>5 DEF G

\* One label gives its first block back.
LEMMA PoppedCount ==
  ASSUME NEW H \in Lists, NEW R \in [Block -> Int], NEW x \in Label, H[x] # <<>>,
         Counted(H, R)
  PROVE  Counted(Popped(H, x), [R EXCEPT ![Head(H[x])] = @ - 1])
<1> DEFINE G == Popped(H, x)
           c == Head(H[x])
<1>1. /\ H[x] \in Seq(Block) /\ Len(H[x]) \in Nat \ {0} /\ c \in Block /\ c = H[x][1]
      /\ G[x] = Tail(H[x]) /\ \A z \in Label : z # x => G[z] = H[z]
  <2>1. H[x] \in Seq(Block) /\ G[x] = Tail(H[x]) /\ \A z \in Label : z # x => G[z] = H[z]
    BY PoppedIs DEF Lists
  <2>. QED BY <2>1
<1>2. Len(G[x]) = Len(H[x]) - 1 /\ \A i \in 1..Len(G[x]) : G[x][i] = H[x][i + 1]
  <2> HIDE DEF G, c
  <2>. QED BY <1>1, HeadTailProperties
<1> HIDE DEF G, c
<1>3. ASSUME NEW b \in Block
      PROVE  /\ IsFiniteSet(Uses(G, b))
             /\ Cardinality(Uses(G, b)) = Cardinality(Uses(H, b)) - (IF b = c THEN 1 ELSE 0)
  <2> DEFINE U == Uses(H, b) \ {<<x, 1>>}
             f == [u \in U |-> IF u[1] = x THEN <<x, u[2] - 1>> ELSE u]
             g == [u \in Uses(G, b) |-> IF u[1] = x THEN <<x, u[2] + 1>> ELSE u]
  <2>1. /\ IsFiniteSet(U)
        /\ Cardinality(U) = Cardinality(Uses(H, b)) - (IF b = c THEN 1 ELSE 0)
    <3>1. IsFiniteSet(Uses(H, b)) /\ Cardinality(Uses(H, b)) \in Nat
      BY FS_CardinalityType DEF Counted
    <3>2. <<x, 1>> \in Uses(H, b) <=> b = c
      BY <1>1 DEF Uses
    <3>3. CASE b = c
      <4>1. IsFiniteSet(U) /\ Cardinality(U) = Cardinality(Uses(H, b)) - 1
        BY <3>1, <3>2, <3>3, FS_RemoveElement
      <4>. QED BY <3>3, <4>1
    <3>4. CASE b # c
      <4>1. U = Uses(H, b)
        BY <3>2, <3>4
      <4> HIDE DEF U
      <4>. QED BY <3>1, <3>4, <4>1
    <3>. QED BY <3>3, <3>4
  <2>2. \A u \in U : /\ u = <<u[1], u[2]>> /\ u[1] \in Label /\ u[2] \in 1..Len(H[u[1]])
                     /\ H[u[1]][u[2]] = b
                     /\ u[1] = x => u[2] - 1 \in 1..Len(G[x]) /\ u[2] \in Nat
    <3> SUFFICES ASSUME NEW u \in U
                 PROVE  /\ u = <<u[1], u[2]>> /\ u[1] \in Label /\ u[2] \in 1..Len(H[u[1]])
                        /\ H[u[1]][u[2]] = b
                        /\ u[1] = x => u[2] - 1 \in 1..Len(G[x]) /\ u[2] \in Nat
      OBVIOUS
    <3>1. /\ u = <<u[1], u[2]>> /\ u[1] \in Label /\ u[2] \in 1..Len(H[u[1]])
          /\ H[u[1]][u[2]] = b /\ u # <<x, 1>>
      BY DEF Uses
    <3>2. u[1] = x => u[2] # 1
      BY <3>1
    <3>. QED BY <1>1, <1>2, <3>1, <3>2
  <2>3. \A u \in Uses(G, b) : /\ u = <<u[1], u[2]>> /\ u[1] \in Label /\ u[2] \in 1..Len(G[u[1]])
                              /\ G[u[1]][u[2]] = b
                              /\ u[1] = x => u[2] + 1 \in 2..Len(H[x]) /\ u[2] \in Nat
    <3> SUFFICES ASSUME NEW u \in Uses(G, b)
                 PROVE  /\ u = <<u[1], u[2]>> /\ u[1] \in Label /\ u[2] \in 1..Len(G[u[1]])
                        /\ G[u[1]][u[2]] = b
                        /\ u[1] = x => u[2] + 1 \in 2..Len(H[x]) /\ u[2] \in Nat
      OBVIOUS
    <3>1. /\ u = <<u[1], u[2]>> /\ u[1] \in Label /\ u[2] \in 1..Len(G[u[1]])
          /\ G[u[1]][u[2]] = b
      BY DEF Uses
    <3>2. CASE u[1] = x
      <4>1. u[2] \in 1..Len(G[x])
        BY <3>1, <3>2
      <4>2. u[2] \in Nat /\ u[2] + 1 \in 2..Len(H[x])
        BY <1>1, <1>2, <4>1, SMTT(40)
      <4>. QED BY <3>1, <4>2
    <3>. QED BY <3>1, <3>2
  <2>4. f \in [U -> Uses(G, b)]
    <3> SUFFICES ASSUME NEW u \in U PROVE f[u] \in Uses(G, b)
      OBVIOUS
    <3>1. CASE u[1] = x
      <4>1. f[u] = <<x, u[2] - 1>> /\ G[x][u[2] - 1] = b /\ u[2] - 1 \in 1..Len(G[x])
        BY <1>2, <2>2, <3>1
      <4> DEFINE w == <<x, u[2] - 1>>
      <4>2. w[1] = x /\ w[2] = u[2] - 1 /\ w[2] \in Nat /\ w \in Label \X Nat
        BY <4>1
      <4> HIDE DEF w
      <4>3. w[2] \in 1..Len(G[w[1]]) /\ G[w[1]][w[2]] = b
        BY <4>1, <4>2
      <4>4. w \in Uses(G, b)
        BY <4>2, <4>3 DEF Uses
      <4>. QED BY <4>1, <4>4 DEF w
    <3>2. CASE u[1] # x
      BY <1>1, <2>2, <3>2 DEF Uses
    <3>. QED BY <3>1, <3>2
  <2>5. g \in [Uses(G, b) -> U]
    <3> SUFFICES ASSUME NEW u \in Uses(G, b) PROVE g[u] \in U
      OBVIOUS
    <3>1. CASE u[1] = x
      <4>1. g[u] = <<x, u[2] + 1>> /\ H[x][u[2] + 1] = b /\ u[2] + 1 \in 2..Len(H[x])
        BY <1>2, <2>3, <3>1
      <4>2. u[2] + 1 # 1 /\ u[2] + 1 \in Nat
        BY <2>3, <3>1
      <4>3. <<x, u[2] + 1>> \in Uses(H, b)
        BY <4>1, <4>2 DEF Uses
      <4>4. <<x, u[2] + 1>> # <<x, 1>>
        BY <4>2
      <4>. QED BY <4>1, <4>3, <4>4
    <3>2. CASE u[1] # x
      BY <1>1, <2>3, <3>2 DEF Uses
    <3>. QED BY <3>1, <3>2
  <2>6. \A u \in U : g[f[u]] = u
    <3> SUFFICES ASSUME NEW u \in U PROVE g[f[u]] = u
      OBVIOUS
    <3>1. f[u] \in Uses(G, b) /\ f[u] = (IF u[1] = x THEN <<x, u[2] - 1>> ELSE u)
      BY <2>4
    <3>. QED BY <2>2, <3>1
  <2>7. \A u \in Uses(G, b) : f[g[u]] = u
    <3> SUFFICES ASSUME NEW u \in Uses(G, b) PROVE f[g[u]] = u
      OBVIOUS
    <3>1. g[u] \in U /\ g[u] = (IF u[1] = x THEN <<x, u[2] + 1>> ELSE u)
      BY <2>5
    <3>. QED BY <2>3, <3>1
  <2> HIDE DEF U, f, g
  <2>8. IsFiniteSet(Uses(G, b)) /\ Cardinality(Uses(G, b)) = Cardinality(U)
    <3> DEFINE V == Uses(G, b)
    <3>1. IsFiniteSet(U) /\ f \in [U -> V] /\ g \in [V -> U]
      BY <2>1, <2>4, <2>5
    <3>2. \A u \in U : g[f[u]] = u
      BY <2>6
    <3>4. \A u \in V : f[g[u]] = u
      BY <2>7
    <3> HIDE DEF V
    <3>3. IsFiniteSet(V) /\ Cardinality(V) = Cardinality(U)
      BY ONLY <3>1, <3>2, <3>4, SameSize
    <3>. QED BY <3>3 DEF V
  <2>. QED BY <2>1, <2>8
<1>4. \A b \in Block : [R EXCEPT ![c] = @ - 1][b] = R[b] - (IF b = c THEN 1 ELSE 0)
  BY <1>1
<1>5. Counted(G, [R EXCEPT ![c] = @ - 1])
  BY <1>3, <1>4 DEF Counted
<1>. QED BY <1>5 DEF G, c

\* A block that is held has a reference, and one without is held by nobody.
LEMMA HeldIsReferenced ==
  ASSUME NEW H \in Lists, NEW R, Counted(H, R), NEW x \in Label, NEW i \in 1..Len(H[x])
  PROVE  H[x][i] \in Block /\ R[H[x][i]] > 0
<1> DEFINE b == H[x][i]
<1>1. H[x] \in Seq(Block) /\ b \in Block
  BY DEF Lists
<1>2. <<x, i>> \in Uses(H, b)
  BY <1>1 DEF Uses
<1>3. IsFiniteSet(Uses(H, b)) /\ R[b] = Cardinality(Uses(H, b))
  BY <1>1 DEF Counted
<1>4. Cardinality(Uses(H, b)) # 0 /\ Cardinality(Uses(H, b)) \in Nat
  BY <1>2, <1>3, FS_EmptySet, FS_CardinalityType
<1>. QED BY <1>1, <1>3, <1>4

-----------------------------------------------------------------------------
(* What is held, in terms of the two calls in progress.                    *)

WalkedBy(c) == IF c.pc \in {"release", "free"} THEN c.ids ELSE <<>>
Fills(c, r) == c.req = r /\ c.pc \in {"dedup", "alloc", "register", "publish"}
Owns(l, w, P, r) == Fills(w, r) \/ (r \in P /\ ~Backs(l, r) /\ ~Backs(w, r))

\* G is what is held when l and w are the calls, t the tables and P the
\* requests registered with one of the caches.
Describes(G, l, w, t, P) ==
  /\ \A r \in Req : G[r] = IF Owns(l, w, P, r) THEN t[r] ELSE <<>>
  /\ G["got"] = l.got /\ G["best"] = l.best
  /\ G["loop"] = WalkedBy(l) /\ G["work"] = WalkedBy(w)

\* Held is what the calls and the tables say.
LEMMA HeldNow ==
  ASSUME Control
  PROVE  Held \in Lists /\ Describes(Held, Loop, Work, tbl, paged \cup entries)
<1>1. /\ Loop.got \in Seq(Block) /\ Loop.best \in Seq(Block)
      /\ Loop.ids \in Seq(Block) /\ Work.ids \in Seq(Block) /\ <<>> \in Seq(Block)
      /\ \A r \in Req : tbl[r] \in Seq(Block)
  BY CallIs DEF Control, CacheTypes
<1>2. \A r \in Req : r \in Owners <=> Owns(Loop, Work, paged \cup entries, r)
  BY GivingBackIs DEF Owners, Owns, Filling, Fills
<1>3. Walked("loop") = WalkedBy(Loop) /\ Walked("work") = WalkedBy(Work)
  BY DEF Walked, WalkedBy, Loop, Work
<1>4. /\ \A r \in Req : Hold(r) = IF r \in Owners THEN tbl[r] ELSE <<>>
      /\ Hold("got") = Loop.got /\ Hold("best") = Loop.best
      /\ Hold("loop") = Walked("loop") /\ Hold("work") = Walked("work")
  BY CacheAssumption DEF Hold
<1>5. \A x \in Label : Hold(x) \in Seq(Block)
  BY <1>1, <1>3, <1>4 DEF Label, Thread, WalkedBy
<1>6. \A x \in Label : Held[x] = Hold(x)
  BY DEF Held
<1>7. Held \in Lists
  BY <1>5 DEF Held, Lists
<1>. QED BY <1>2, <1>3, <1>4, <1>6, <1>7 DEF Label, Thread, Describes

\* What the next calls and tables say is the next Held.
LEMMA HeldNext ==
  ASSUME NEW G \in Lists, NEW l, NEW w, Loop' = l, Work' = w,
         Describes(G, l, w, tbl', paged' \cup entries')
  PROVE  Held' = G
<1>1. \A r \in Req : (r \in Owners)' <=> Owns(l, w, paged' \cup entries', r)
  BY GivingBackIs DEF Owners, Owns, Filling, Fills
<1>2. Walked("loop")' = WalkedBy(l) /\ Walked("work")' = WalkedBy(w)
  BY DEF Walked, WalkedBy, Loop, Work
<1>3. /\ \A r \in Req : Hold(r)' = IF (r \in Owners)' THEN tbl'[r] ELSE <<>>
      /\ Hold("got")' = l.got /\ Hold("best")' = l.best
      /\ Hold("loop")' = Walked("loop")' /\ Hold("work")' = Walked("work")'
  BY CacheAssumption DEF Hold
<1>4. \A x \in Label : Hold(x)' = G[x]
  BY <1>1, <1>2, <1>3 DEF Label, Thread, Describes
<1>5. Held' = [x \in Label |-> Hold(x)']
  BY DEF Held
<1>6. G = [x \in Label |-> G[x]]
  BY DEF Lists
<1>. QED BY <1>4, <1>5, <1>6

\* Counted, of the next Held and the next counts.
LEMMA CountedNext ==
  ASSUME NEW G, NEW S, Held' = G, refCount' = S, Counted(G, S)
  PROVE  Counted(Held, refCount)'
BY DEF Counted, Uses

\* Only the event loop's call changes, and it gives back what it gave back.
LEMMA LoopHolds ==
  ASSUME Control, NEW rec, Loop' = rec, Work' = Work, UNCHANGED tableVars,
         \A r \in Req : Backs(rec, r) <=> Backs(Loop, r), NEW G \in Lists,
         G = [Held EXCEPT !["got"] = rec.got, !["best"] = rec.best, !["loop"] = WalkedBy(rec)]
  PROVE  Held' = G
<1>1. /\ G["got"] = rec.got /\ G["best"] = rec.best /\ G["loop"] = WalkedBy(rec)
      /\ G["work"] = Held["work"] /\ \A r \in Req : G[r] = Held[r]
  BY HeldNow, CacheAssumption DEF Lists, Label, Thread, Describes
<1>2. \A r \in Req : Owns(rec, Work, paged' \cup entries', r)
                       <=> Owns(Loop, Work, paged \cup entries, r)
  BY DEF Owns, tableVars
<1>3. Describes(G, rec, Work, tbl', paged' \cup entries')
  BY <1>1, <1>2, HeldNow DEF tableVars, Describes
<1>. QED BY <1>3, HeldNext

\* Only the worker's call changes.
LEMMA WorkHolds ==
  ASSUME Control, NEW rec, Work' = rec, Loop' = Loop, UNCHANGED tableVars,
         \A r \in Req : Backs(rec, r) <=> Backs(Work, r),
         \A r \in Req : Fills(rec, r) <=> Fills(Work, r), NEW G \in Lists,
         G = [Held EXCEPT !["work"] = WalkedBy(rec)]
  PROVE  Held' = G
<1>1. /\ G["got"] = Held["got"] /\ G["best"] = Held["best"] /\ G["loop"] = Held["loop"]
      /\ G["work"] = WalkedBy(rec) /\ \A r \in Req : G[r] = Held[r]
  BY HeldNow, CacheAssumption DEF Lists, Label, Thread, Describes
<1>2. \A r \in Req : Owns(Loop, rec, paged' \cup entries', r)
                       <=> Owns(Loop, Work, paged \cup entries, r)
  BY DEF Owns, tableVars
<1>3. Describes(G, Loop, rec, tbl', paged' \cup entries')
  BY <1>1, <1>2, HeldNow DEF tableVars, Describes
<1>. QED BY <1>3, HeldNext

\* A step that leaves every holder what it held.
LEMMA SameHolders ==
  ASSUME Control, Counted(Held, refCount), refCount' = refCount,
         NEW l, NEW w, Loop' = l, Work' = w, l.got = Loop.got, l.best = Loop.best,
         WalkedBy(l) = WalkedBy(Loop), WalkedBy(w) = WalkedBy(Work),
         \A r \in Req : (IF Owns(l, w, paged' \cup entries', r) THEN tbl'[r] ELSE <<>>)
                        = IF Owns(Loop, Work, paged \cup entries, r) THEN tbl[r] ELSE <<>>
  PROVE  Counted(Held, refCount)'
<1>1. Held' = Held
  BY HeldNow, HeldNext DEF Describes
<1>. QED BY <1>1, CountedNext

\* Such a step of the event loop that touches no table.
LEMMA LoopKeeps ==
  ASSUME Control, Counted(Held, refCount), refCount' = refCount, UNCHANGED tableVars,
         NEW rec, Set("loop", rec), rec.got = Loop.got, rec.best = Loop.best,
         WalkedBy(rec) = WalkedBy(Loop), \A r \in Req : Backs(rec, r) <=> Backs(Loop, r)
  PROVE  Counted(Held, refCount)'
<1>1. Loop' = rec /\ Work' = Work
  BY SetFacts DEF Control, CacheTypes, Loop, Work, Thread
<1>. QED BY <1>1, SameHolders DEF Owns, tableVars

\* Such a step of the worker.
LEMMA WorkKeeps ==
  ASSUME Control, Counted(Held, refCount), refCount' = refCount, UNCHANGED tableVars,
         NEW rec, Set("work", rec), WalkedBy(rec) = WalkedBy(Work),
         \A r \in Req : Backs(rec, r) <=> Backs(Work, r),
         \A r \in Req : Fills(rec, r) <=> Fills(Work, r)
  PROVE  Counted(Held, refCount)'
<1>1. Work' = rec /\ Loop' = Loop
  BY SetFacts DEF Control, CacheTypes, Loop, Work, Thread
<1>. QED BY <1>1, SameHolders DEF Owns, tableVars

-----------------------------------------------------------------------------
(* Steps that leave every holder what it held.                             *)

\* A lookup that has come to its end.
LEMMA StopKeeps ==
  ASSUME Control, Counted(Held, refCount), NEW f,
         Set("loop", [Loop EXCEPT !.pc = "compare", !.pay = f]),
         Loop.pc \in {"pin", "promote"}, UNCHANGED <<poolVars, tableVars>>
  PROVE  Counted(Held, refCount)'
<1> DEFINE rec == [Loop EXCEPT !.pc = "compare", !.pay = f]
<1>1. Loop \in Calls
  BY CallIs
<1>2. rec.got = Loop.got /\ rec.best = Loop.best /\ rec.pc = "compare"
  BY <1>1 DEF Calls
<1>3. Set("loop", rec) /\ UNCHANGED refCount
  BY DEF poolVars
<1> HIDE DEF rec
<1>4. WalkedBy(rec) = WalkedBy(Loop) /\ \A q \in Req : Backs(rec, q) <=> Backs(Loop, q)
  BY <1>2 DEF WalkedBy, Backs
<1>. QED BY <1>2, <1>3, <1>4, LoopKeeps

\* Fetch steps that take and give back nothing.
LEMMA FetchKeeps ==
  ASSUME Control, Counted(Held, refCount),
         (\E r \in Req : StartFetch(r)) \/ LookupMiss \/ MatchIndex \/ Pinned
  PROVE  Counted(Held, refCount)'
<1> USE DEF poolVars
<1>1. At("loop") \in FetchPc => Loop.goal = "none"
  BY DEF Control, LoopTurn
<1>2. ASSUME NEW r \in Req, StartFetch(r)
      PROVE  Counted(Held, refCount)'
  <2> DEFINE rec == [Idle EXCEPT !.pc = "probe", !.req = r, !.n = 1]
  <2>1. Loop.pc = "idle" /\ Set("loop", rec) /\ UNCHANGED <<poolVars, tableVars>>
    BY <1>2 DEF StartFetch
  <2>2. rec.got = Loop.got /\ rec.best = Loop.best
    BY <2>1 DEF Idle, Control, LoopTurn, At, Loop, FetchPc
  <2>3. WalkedBy(rec) = WalkedBy(Loop) /\ \A q \in Req : Backs(rec, q) <=> Backs(Loop, q)
    BY <2>1 DEF Idle, WalkedBy, Backs
  <2>. QED BY <2>1, <2>2, <2>3, LoopKeeps
<1>3. CASE LookupMiss
  <2> DEFINE rec == IF ~ProbeDone /\ Readable(Wanted)
                    THEN [Loop EXCEPT !.pc = "promote", !.pay = <<l2[Wanted]>>]
                    ELSE [Loop EXCEPT !.pc = "compare"]
  <2>1. /\ Loop.pc = "probe" /\ Set("loop", rec) /\ UNCHANGED <<poolVars, tableVars>>
    BY <1>3 DEF LookupMiss
  <2>2. Loop \in Calls
    BY CallIs
  <2>3. rec.got = Loop.got /\ rec.best = Loop.best /\ rec.pc \in {"promote", "compare"}
    BY <2>2 DEF Calls
  <2> HIDE DEF rec
  <2>4. WalkedBy(rec) = WalkedBy(Loop) /\ \A q \in Req : Backs(rec, q) <=> Backs(Loop, q)
    BY <2>1, <2>3 DEF WalkedBy, Backs
  <2>. QED BY <2>1, <2>3, <2>4, LoopKeeps
<1>4. CASE MatchIndex
  <2>0. PICK chain \in Members(Probes[Loop.req]) : \E n \in 0..Len(chain) :
          \E ids \in [1..n -> Block] : Set("loop", [Loop EXCEPT !.pc = "pin", !.ids = ids])
    BY <1>4 DEF MatchIndex
  <2>1. PICK n \in 0..Len(chain) :
          \E ids \in [1..n -> Block] : Set("loop", [Loop EXCEPT !.pc = "pin", !.ids = ids])
    BY <2>0
  <2>2. PICK ids \in [1..n -> Block] : Set("loop", [Loop EXCEPT !.pc = "pin", !.ids = ids])
    BY <2>1
  <2> DEFINE rec == [Loop EXCEPT !.pc = "pin", !.ids = ids]
  <2>3. Loop.pc = "match" /\ UNCHANGED <<poolVars, tableVars>>
    BY <1>4 DEF MatchIndex
  <2>4. Loop \in Calls
    BY CallIs
  <2>5. rec.got = Loop.got /\ rec.best = Loop.best /\ rec.pc = "pin"
    BY <2>4 DEF Calls
  <2>6. Set("loop", rec)
    BY <2>2
  <2> HIDE DEF rec
  <2>7. WalkedBy(rec) = WalkedBy(Loop) /\ \A q \in Req : Backs(rec, q) <=> Backs(Loop, q)
    BY <2>3, <2>5 DEF WalkedBy, Backs
  <2>. QED BY <2>3, <2>5, <2>6, <2>7, LoopKeeps
<1>5. CASE Pinned
  <2>1. /\ Loop.pc = "pin" /\ Set("loop", [Loop EXCEPT !.pc = "compare"])
        /\ UNCHANGED <<poolVars, tableVars>>
    BY <1>5 DEF Pinned
  <2>2. [Loop EXCEPT !.pc = "compare"] = [Loop EXCEPT !.pc = "compare", !.pay = Loop.pay]
    BY CallIs DEF Calls
  <2>. QED BY <2>1, <2>2, StopKeeps
<1>. QED BY <1>2, <1>3, <1>4, <1>5

\* A restore holds nothing but its request's table.
LEMMA RestoringKeeps ==
  ASSUME Control, Counted(Held, refCount), refCount' = refCount, UNCHANGED tableVars,
         NEW rec, Set("work", rec), Work.pc \in RestorePc \cup {"idle"},
         rec.pc \in RestorePc \cup {"idle"}
  PROVE  Counted(Held, refCount)'
<1>1. WalkedBy(rec) = WalkedBy(Work)
  BY DEF WalkedBy, RestorePc
<1>2. \A r \in Req : Backs(rec, r) <=> Backs(Work, r)
  BY DEF Backs, RestorePc
<1>3. \A r \in Req : Fills(rec, r) <=> Fills(Work, r)
  BY DEF Fills, RestorePc
<1>. QED BY <1>1, <1>2, <1>3, WorkKeeps

\* A store goes on filling the same table.
LEMMA StoringKeeps ==
  ASSUME Control, Counted(Held, refCount), refCount' = refCount, UNCHANGED tableVars,
         NEW rec, Set("work", rec), rec.req = Work.req,
         Work.pc \in {"dedup", "alloc", "register", "publish"},
         rec.pc \in {"dedup", "alloc", "register", "publish"}
  PROVE  Counted(Held, refCount)'
<1>1. WalkedBy(rec) = WalkedBy(Work)
  BY DEF WalkedBy
<1>2. \A r \in Req : Backs(rec, r) <=> Backs(Work, r)
  BY DEF Backs
<1>3. \A r \in Req : Fills(rec, r) <=> Fills(Work, r)
  BY DEF Fills
<1>. QED BY <1>1, <1>2, <1>3, WorkKeeps

\* Restore steps take and give back nothing.
LEMMA RestoreKeeps ==
  ASSUME Control, Counted(Held, refCount),
         \/ \E r \in Req : StartRestore(r)
         \/ RestoreHit \/ RestoreRead \/ Hydrate \/ RestoreDone \/ SettleNext
         \/ SettleEnd /\ Restored
  PROVE  Counted(Held, refCount)'
<1> USE DEF poolVars
<1>1. Work \in Calls
  BY CallIs
<1>2. ASSUME NEW r \in Req, StartRestore(r)
      PROVE  Counted(Held, refCount)'
  <2>1. Work.pc = "idle" /\ UNCHANGED <<poolVars, tableVars>>
    BY <1>2 DEF StartRestore
  <2>2. CASE UNCHANGED job
    BY <2>1, <2>2, SameHolders DEF Loop, Work, Owns, tableVars
  <2>3. CASE Set("work", [Idle EXCEPT !.pc = "restore", !.req = r])
    <3> DEFINE rec == [Idle EXCEPT !.pc = "restore", !.req = r]
    <3>1. rec.pc \in RestorePc \cup {"idle"}
      BY DEF Idle, RestorePc
    <3> HIDE DEF rec
    <3>. QED BY <2>1, <2>3, <3>1, RestoringKeeps DEF rec
  <2>. QED BY <1>2, <2>2, <2>3 DEF StartRestore
<1>3. CASE RestoreHit \/ RestoreRead \/ Hydrate \/ RestoreDone \/ SettleNext
  <2>1. Work.pc \in RestorePc /\ UNCHANGED <<poolVars, tableVars>>
    BY <1>3 DEF RestoreHit, RestoreRead, Hydrate, RestoreDone, SettleNext, RestorePc
  <2>2. CASE RestoreHit
    <3>1. PICK f, g : Set("work", [Work EXCEPT !.pay = f, !.seen = g])
      BY <2>2 DEF RestoreHit
    <3>2. [Work EXCEPT !.pay = f, !.seen = g].pc = Work.pc
      BY <1>1 DEF Calls
    <3>. QED BY <2>1, <3>1, <3>2, RestoringKeeps
  <2>3. CASE RestoreRead
    <3>1. PICK f : Set("work", [Work EXCEPT !.pc = "hydrate", !.pay = f])
      BY <2>3 DEF RestoreRead
    <3>2. [Work EXCEPT !.pc = "hydrate", !.pay = f].pc = "hydrate"
      BY <1>1 DEF Calls
    <3>. QED BY <2>1, <3>1, <3>2, RestoringKeeps DEF RestorePc
  <2>4. CASE Hydrate
    <3>1. PICK g : Set("work", [Work EXCEPT !.pc = "restore", !.seen = g])
      BY <2>4 DEF Hydrate
    <3>2. [Work EXCEPT !.pc = "restore", !.seen = g].pc = "restore"
      BY <1>1 DEF Calls
    <3>. QED BY <2>1, <3>1, <3>2, RestoringKeeps DEF RestorePc
  <2>5. CASE RestoreDone
    <3>1. Set("work", [Work EXCEPT !.pc = "settle"])
      BY <2>5 DEF RestoreDone
    <3>2. [Work EXCEPT !.pc = "settle"].pc = "settle"
      BY <1>1 DEF Calls
    <3>. QED BY <2>1, <3>1, <3>2, RestoringKeeps DEF RestorePc
  <2>6. CASE SettleNext
    <3>1. PICK g : Set("work", [Work EXCEPT !.seen = g])
      BY <2>6 DEF SettleNext
    <3>2. [Work EXCEPT !.seen = g].pc = Work.pc
      BY <1>1 DEF Calls
    <3>. QED BY <2>1, <3>1, <3>2, RestoringKeeps
  <2>. QED BY <1>3, <2>2, <2>3, <2>4, <2>5, <2>6
<1>4. CASE SettleEnd /\ Restored
  <2>1. Work.pc = "settle" /\ Set("work", Idle) /\ UNCHANGED <<poolVars, tableVars>>
    BY <1>4 DEF SettleEnd
  <2>. QED BY <2>1, RestoringKeeps DEF Idle, RestorePc
<1>. QED BY <1>2, <1>3, <1>4

\* Store steps that add no block to the table.
LEMMA StoreKeeps ==
  ASSUME Control, Counted(Held, refCount), NoDuplicate \/ AllocFails \/ Register
  PROVE  Counted(Held, refCount)'
<1> USE DEF poolVars
<1>1. PICK p \in {"alloc", "publish", "dedup"} : Set("work", [Work EXCEPT !.pc = p])
  BY DEF NoDuplicate, AllocFails, Register
<1>2. Work.pc \in {"dedup", "alloc", "register"} /\ UNCHANGED <<poolVars, tableVars>>
  BY DEF NoDuplicate, AllocFails, Register
<1>3. [Work EXCEPT !.pc = p].pc = p /\ [Work EXCEPT !.pc = p].req = Work.req
  BY CallIs DEF Calls
<1>. QED BY <1>1, <1>2, <1>3, StoringKeeps

\* A published table is owned by its registration.
LEMMA PublishKeeps ==
  ASSUME Control, Counted(Held, refCount), Publish
  PROVE  Counted(Held, refCount)'
<1> USE DEF poolVars
<1> DEFINE rec == [Work EXCEPT !.pc = "stored"]
           r == Work.req
<1>1. /\ Work.pc \in {"publish", "dedup"} /\ Set("work", rec)
      /\ entries' = entries \cup {r} /\ UNCHANGED <<poolVars, tbl, paged>>
  BY DEF Publish
<1>2. rec.pc = "stored" /\ rec.req = r /\ rec.goal = Work.goal
  BY CallIs DEF Calls
<1> HIDE DEF rec
<1>3. Work' = rec /\ Loop' = Loop
  BY <1>1, SetFacts DEF Control, CacheTypes, Loop, Work, Thread
<1>4. r \in Req /\ stage[r] \in {"storing", "salvage"}
  BY <1>1 DEF Control, WorkTurn, At, Work, StorePc
<1>5. ~Backs(Loop, r)
  BY <1>4, WorkAt DEF Backs
<1>6. WalkedBy(rec) = WalkedBy(Work) /\ \A q \in Req : ~Backs(rec, q) /\ ~Backs(Work, q) /\ ~Fills(rec, q)
  BY <1>1, <1>2 DEF WalkedBy, Backs, Fills
<1>7. \A q \in Req : Fills(Work, q) <=> q = r
  BY <1>1 DEF Fills
<1>8. \A q \in Req : Owns(Loop, rec, paged' \cup entries', q)
                       <=> Owns(Loop, Work, paged \cup entries, q)
  BY <1>1, <1>5, <1>6, <1>7 DEF Owns
<1>. QED BY <1>1, <1>3, <1>6, <1>8, SameHolders

\* Evictions and L2 writes move no reference.
LEMMA EnvironmentKeeps ==
  ASSUME Control, Counted(Held, refCount), Environment
  PROVE  Counted(Held, refCount)'
<1>1. UNCHANGED <<refCount, tableVars, job>>
  BY DEF Environment, EvictPayload, PublishWrite, LoseWrite, EvictL2, poolVars
<1>. QED BY <1>1, SameHolders DEF Loop, Work, Owns, tableVars

\* A finished walk holds nothing.
LEMMA WalkEndKeeps ==
  ASSUME Control, Counted(Held, refCount), NEW a \in Thread, WalkEnd(a)
  PROVE  Counted(Held, refCount)'
<1> USE DEF poolVars
<1> DEFINE rec == [job[a] EXCEPT !.pc = job[a].then, !.then = "idle"]
<1>1. /\ job[a].pc \in {"release", "free"} /\ job[a].ids = <<>> /\ Set(a, rec)
      /\ UNCHANGED <<poolVars, tableVars>>
  BY DEF WalkEnd
<1>2. job[a] \in Calls
  BY DEF Control, CacheTypes
<1>3. /\ rec.got = job[a].got /\ rec.best = job[a].best /\ rec.pc = job[a].then
      /\ rec.req = job[a].req /\ rec.goal = job[a].goal /\ rec.ids = <<>>
  BY <1>1, <1>2 DEF Calls
<1> HIDE DEF rec
<1>4. WalkedBy(rec) = WalkedBy(job[a])
  BY <1>1, <1>3 DEF WalkedBy
<1>5. job[a].goal # "none" => job[a].pc = "release" /\ job[a].then = "detach"
  BY <1>1 DEF Control, LoopTurn, WorkTurn, At, Loop, Work, Thread, FetchPc, RestorePc, StorePc
<1>6. \A r \in Req : (Backs(rec, r) <=> Backs(job[a], r))
  BY <1>1, <1>3, <1>5 DEF Backs
<1>7. a = "work" => \A r \in Req : (Fills(rec, r) <=> Fills(job[a], r))
  BY <1>1, <1>3 DEF Fills, Control, WorkTurn, Work
<1>8. CASE a = "loop"
  BY <1>1, <1>3, <1>4, <1>6, <1>8, LoopKeeps DEF Loop
<1>9. CASE a = "work"
  BY <1>1, <1>4, <1>6, <1>7, <1>9, WorkKeeps DEF Work
<1>. QED BY <1>8, <1>9 DEF Thread

\* A detached table is one nobody owned any more.
LEMMA DetachKeeps ==
  ASSUME Control, Counted(Held, refCount), NEW a \in Thread, Detach(a)
  PROVE  Counted(Held, refCount)'
<1> DEFINE r == job[a].req
           goal == job[a].goal
           filling == [Idle EXCEPT !.pc = "dedup", !.req = r]
           rec == IF goal = "store" THEN filling ELSE Idle
<1>1. /\ job[a].pc = "detach"
      /\ tbl' = [tbl EXCEPT ![r] = <<>>] /\ entries' = entries \ {r}
      /\ paged' = IF goal = "store" THEN paged \cup {r} ELSE paged \ {r}
      /\ Set(a, rec) /\ refCount' = refCount
  BY DEF Detach, poolVars
<1>2. At(a) = "detach"
  BY <1>1 DEF At
<1>3. /\ r \in Req /\ goal # "none"
      /\ a = "loop" => stage[r] = "fetching" /\ goal = "reject"
  BY <1>2 DEF Control, LoopTurn, WorkTurn, Loop, Work, Thread
<1>4. Backs(job[a], r) /\ ~Fills(job[a], r)
  BY <1>1, <1>3 DEF Backs, Fills
<1>5. Held[r] = <<>>
  <2>1. Describes(Held, Loop, Work, tbl, paged \cup entries)
    BY HeldNow
  <2>2. a = "loop" => Work.req # r
    BY <1>3, WorkAt
  <2>3. ~Owns(Loop, Work, paged \cup entries, r)
    BY <1>4, <2>2 DEF Owns, Fills, Loop, Work, Thread
  <2>. QED BY <1>3, <2>1, <2>3 DEF Describes
<1>6. /\ rec.got = <<>> /\ rec.best = <<>> /\ WalkedBy(rec) = <<>>
      /\ \A q \in Req : ~Backs(rec, q) /\ (q # r => ~Fills(rec, q))
  BY CacheAssumption DEF Idle, WalkedBy, Backs, Fills, NoReq
<1>7. /\ tbl'[r] = <<>> /\ \A q \in Req : q # r => tbl'[q] = tbl[q]
      /\ \A q \in Req : q # r => (q \in paged' \cup entries' <=> q \in paged \cup entries)
  BY <1>1, <1>3 DEF Control, CacheTypes
<1>8. \A q \in Req : q # r => ~Backs(job[a], q) /\ ~Fills(job[a], q)
  BY DEF Backs, Fills
<1>9. WalkedBy(job[a]) = <<>> /\ (a = "loop" => job[a].got = <<>> /\ job[a].best = <<>>)
  BY <1>1, <1>2 DEF WalkedBy, Control, LoopTurn, FetchPc, Loop
<1> HIDE DEF r, goal, rec
<1>10. /\ job'[a] = rec /\ \A c \in Thread : c # a => job'[c] = job[c]
  BY <1>1, SetFacts DEF Control, CacheTypes
<1>11. ASSUME NEW l, NEW w, Loop' = l, Work' = w, l.got = Loop.got, l.best = Loop.best,
              WalkedBy(l) = WalkedBy(Loop), WalkedBy(w) = WalkedBy(Work),
              \A q \in Req : q # r => /\ Backs(l, q) <=> Backs(Loop, q)
                                      /\ Backs(w, q) <=> Backs(Work, q)
                                      /\ Fills(w, q) <=> Fills(Work, q)
       PROVE  Counted(Held, refCount)'
  <2>1. Describes(Held, Loop, Work, tbl, paged \cup entries) /\ Held \in Lists
    BY HeldNow
  <2>2. Describes(Held, l, w, tbl', paged' \cup entries')
    BY <1>5, <1>7, <1>11, <2>1 DEF Describes, Owns
  <2>3. Held' = Held
    BY <1>11, <2>1, <2>2, HeldNext
  <2>. QED BY <1>1, <2>3, CountedNext
<1>12. CASE a = "loop"
  <2>1. Loop' = rec /\ Work' = Work /\ job[a] = Loop
    BY <1>10, <1>12 DEF Loop, Work, Thread
  <2>2. Loop' = rec /\ Work' = Work /\ rec.got = Loop.got /\ rec.best = Loop.best
        /\ WalkedBy(rec) = WalkedBy(Loop)
    BY <1>6, <1>9, <1>12, <2>1
  <2>3. \A q \in Req : q # r => (Backs(rec, q) <=> Backs(Loop, q))
    BY <1>6, <1>8, <2>1
  <2>. QED BY <1>11, <2>2, <2>3
<1>13. CASE a = "work"
  <2>1. Work' = rec /\ Loop' = Loop /\ job[a] = Work
    BY <1>10, <1>13 DEF Loop, Work, Thread
  <2>2. \A q \in Req : q # r => /\ Backs(rec, q) <=> Backs(Work, q)
                                /\ Fills(rec, q) <=> Fills(Work, q)
    BY <1>6, <1>8, <2>1
  <2>3. WalkedBy(rec) = WalkedBy(Work)
    BY <1>6, <1>9, <2>1
  <2>. QED BY <1>11, <2>1, <2>2, <2>3
<1>. QED BY <1>12, <1>13 DEF Thread

\* The worker starts to give a table back: what its request held, the walk
\* over the table holds.
LEMMA GiveBackCounts ==
  ASSUME Control, Counted(Held, refCount), refCount' = refCount, UNCHANGED tableVars,
         NEW r \in Req, NEW goal \in {"cold", "store", "done"}, NEW rec,
         Set("work", rec), GivesBack(rec, r, goal), Work.pc \in {"idle", "settle", "stored"},
         Held[r] = IF rec.pc = "release" THEN tbl[r] ELSE <<>>
  PROVE  Counted(Held, refCount)'
<1>1. rec.req = r /\ rec.goal = goal /\ rec.pc \in {"release", "detach"}
  BY GiveBackRec
<1>2. rec.pc = "release" => rec.ids = tbl[r]
  BY DEF GivesBack, Idle
<1>3. Work' = rec /\ Loop' = Loop
  BY SetFacts DEF Control, CacheTypes, Loop, Work, Thread
<1>4. /\ WalkedBy(Work) = <<>> /\ WalkedBy(rec) = Held[r]
      /\ \A q \in Req : /\ ~Backs(Work, q) /\ ~Fills(Work, q) /\ ~Fills(rec, q)
                        /\ Backs(rec, q) <=> q = r
  BY <1>1, <1>2 DEF WalkedBy, Backs, Fills
<1>5. Describes(Held, Loop, Work, tbl, paged \cup entries) /\ Held \in Lists
  BY HeldNow
<1> DEFINE G == Moved(Held, r, "work")
<1>6. r \in Label /\ "work" \in Label /\ r # "work" /\ Held["work"] = <<>>
  BY <1>4, <1>5, CacheAssumption DEF Label, Thread, Describes
<1>7. Counted(G, refCount)
  BY <1>5, <1>6, MovedCount
<1>8. /\ G \in Lists /\ G[r] = <<>> /\ G["work"] = Held[r]
      /\ \A x \in Label : x # r /\ x # "work" => G[x] = Held[x]
  BY <1>5, <1>6, MovedIs
<1> HIDE DEF G
<1>9. Describes(G, Loop, rec, tbl', paged' \cup entries')
  <2>1. /\ G["got"] = Loop.got /\ G["best"] = Loop.best /\ G["loop"] = WalkedBy(Loop)
        /\ G["work"] = WalkedBy(rec)
    BY <1>4, <1>5, <1>8, CacheAssumption DEF Describes, Label, Thread
  <2>2. \A q \in Req : q # r => G[q] = Held[q]
    BY <1>8, CacheAssumption DEF Label
  <2>. QED BY <1>4, <1>5, <1>8, <2>1, <2>2 DEF Describes, Owns, tableVars
<1>10. Held' = G
  BY <1>3, <1>8, <1>9, HeldNext
<1>. QED BY <1>7, <1>10, CountedNext

\* What a registered request holds while nobody gives it back.
LEMMA HeldByRegistered ==
  ASSUME Control, NEW r \in Req, stage[r] # "fetching", ~Backs(Work, r)
  PROVE  /\ r \in paged \cup entries => Held[r] = tbl[r]
         /\ r \notin paged \cup entries /\ ~Fills(Work, r) => Held[r] = <<>>
<1>1. ~Backs(Loop, r)
  BY WorkAt DEF Backs
<1>2. Describes(Held, Loop, Work, tbl, paged \cup entries)
  BY HeldNow
<1>. QED BY <1>1, <1>2 DEF Describes, Owns

\* Giving a table back moves its references to the walk.
LEMMA GiveBackKeeps ==
  ASSUME Control, Counted(Held, refCount), refCount' = refCount, UNCHANGED tableVars,
         NEW r \in Req, NEW goal \in {"cold", "store", "done"}, GiveBack(r, goal),
         Work.pc \in {"idle", "stored"}, stage[r] # "fetching", r \in entries \/ Held[r] = <<>>
  PROVE  Counted(Held, refCount)'
<1> DEFINE base == [Idle EXCEPT !.req = r, !.goal = goal]
<1>1. ~Backs(Work, r)
  BY DEF Backs
<1>2. CASE r \in entries
  <2> DEFINE rec == [base EXCEPT !.pc = "release", !.ids = tbl[r], !.then = "detach"]
  <2>1. Set("work", rec)
    BY <1>2 DEF GiveBack, Walking
  <2>2. rec.pc = "release" /\ GivesBack(rec, r, goal)
    BY DEF Idle, GivesBack
  <2>3. Held[r] = tbl[r]
    BY <1>1, <1>2, HeldByRegistered
  <2> HIDE DEF rec
  <2>. QED BY <2>1, <2>2, <2>3, GiveBackCounts
<1>3. CASE r \notin entries
  <2> DEFINE rec == [base EXCEPT !.pc = "detach"]
  <2>1. Set("work", rec)
    BY <1>3 DEF GiveBack
  <2>2. rec.pc = "detach" /\ GivesBack(rec, r, goal)
    BY DEF Idle, GivesBack
  <2> HIDE DEF rec
  <2>. QED BY <1>3, <2>1, <2>2, GiveBackCounts
<1>. QED BY <1>2, <1>3

\* A store, or a salvage, starts.
LEMMA StartStoreKeeps ==
  ASSUME Control, Counted(Held, refCount), NEW r \in Req, StartStore(r) \/ StartSalvage(r)
  PROVE  Counted(Held, refCount)'
<1>1. Work.pc = "idle" /\ refCount' = refCount /\ UNCHANGED tableVars
  BY DEF StartStore, StartSalvage, poolVars
<1>2. stage[r] \in {"running", "ghost", "salvage"}
  BY DEF StartStore, StartSalvage
<1>3. Work.req # r /\ ~Backs(Work, r) /\ ~Fills(Work, r) /\ ~Backs(Loop, r)
  <2>1. Work.req = NoReq /\ r # NoReq
    BY <1>1, WorkAt DEF Control, WorkTurn, At, Work
  <2>2. Loop.req # r
    BY <1>2, WorkAt
  <2>. QED BY <2>1, <2>2 DEF Backs, Fills
<1>4. stage[r] = "running" => (r \in paged <=> r \in entries)
  BY DEF Control, Placed
<1>5. stage[r] = "salvage" => r \notin paged \cup entries
  BY <1>3 DEF Control, Placed
<1>6. stage[r] # "ghost"
  BY DEF Control, Placed
<1>7. r \notin paged \cup entries => Held[r] = <<>>
  BY <1>2, <1>3, HeldByRegistered
<1>8. CASE StartStore(r)
  <2>1. GiveBack(r, "store") /\ stage[r] = "running"
    BY <1>6, <1>8 DEF StartStore
  <2>. QED BY <1>1, <1>4, <1>7, <2>1, GiveBackKeeps
<1>9. CASE StartSalvage(r)
  <2> DEFINE rec == [Idle EXCEPT !.pc = "detach", !.req = r, !.goal = "store"]
  <2>1. stage[r] = "salvage" /\ Set("work", rec)
    BY <1>9 DEF StartSalvage
  <2>2. rec.pc = "detach" /\ rec = [[Idle EXCEPT !.req = r, !.goal = "store"] EXCEPT !.pc = "detach"]
    BY DEF Idle
  <2>3. GivesBack(rec, r, "store")
    BY <2>2 DEF GivesBack
  <2> HIDE DEF rec
  <2>. QED BY <1>1, <1>5, <1>7, <2>1, <2>2, <2>3, GiveBackCounts
<1>. QED BY <1>8, <1>9

\* The stored table is given back.
LEMMA PostStoreKeeps ==
  ASSUME Control, Counted(Held, refCount), PostStore
  PROVE  Counted(Held, refCount)'
<1>1. /\ Work.pc = "stored" /\ GiveBack(Work.req, "done") /\ refCount' = refCount
      /\ UNCHANGED tableVars
  BY DEF PostStore, poolVars
<1>2. /\ Work.req \in Req /\ stage[Work.req] \in {"storing", "salvage"}
      /\ Work.req \in entries \/ tbl[Work.req] = <<>>
  BY <1>1 DEF Control, WorkTurn, At, Work, StorePc
<1>3. ~Backs(Work, Work.req) /\ ~Fills(Work, Work.req)
  BY <1>1 DEF Backs, Fills
<1>4. tbl[Work.req] = <<>> => Held[Work.req] = <<>>
  BY <1>2, <1>3, HeldByRegistered
<1>. QED BY <1>1, <1>2, <1>4, GiveBackKeeps

\* A restore ends.
LEMMA SettleEndKeeps ==
  ASSUME Control, Counted(Held, refCount), SettleEnd
  PROVE  Counted(Held, refCount)'
<1> DEFINE r == Work.req
           rec == [[Idle EXCEPT !.req = r, !.goal = "cold"] EXCEPT !.pc = "release",
                                              !.ids = tbl[r], !.then = "detach"]
<1>1. CASE Restored
  BY <1>1, RestoreKeeps
<1>2. CASE ~Restored
  <2>1. Work.pc = "settle" /\ Set("work", rec) /\ refCount' = refCount /\ UNCHANGED tableVars
    BY <1>2 DEF SettleEnd, Walking, poolVars
  <2>2. r \in Req /\ stage[r] = "restoring"
    BY <2>1 DEF Control, WorkTurn, At, Work, RestorePc
  <2>3. ~Backs(Work, r) /\ ~Fills(Work, r) /\ ~Backs(Loop, r)
    BY <2>1, <2>2, WorkAt DEF Backs, Fills
  <2>4. r \in paged \/ tbl[r] = <<>>
    BY <2>2, <2>3, GivingBackIs DEF Control, Placed
  <2>5. Held[r] = tbl[r]
    BY <2>2, <2>3, <2>4, HeldByRegistered
  <2>6. rec.pc = "release" /\ GivesBack(rec, r, "cold")
    BY DEF Idle, GivesBack
  <2> HIDE DEF rec, r
  <2>. QED BY <2>1, <2>2, <2>5, <2>6, GiveBackCounts
<1>. QED BY <1>1, <1>2

-----------------------------------------------------------------------------
(* Steps after which somebody else holds what a request or a fetch held.   *)

\* An abort moves its table's references to the walk that frees them.
LEMMA AbortKeeps ==
  ASSUME Control, Counted(Held, refCount), NEW r \in Req, Abort(r)
  PROVE  Counted(Held, refCount)'
<1> DEFINE rec == [Idle EXCEPT !.pc = "free", !.ids = tbl[r]]
<1>1. /\ Loop.pc = "idle" /\ stage[r] \in {"waiting", "running"}
      /\ entries' = entries \ {r} /\ paged' = paged \ {r} /\ tbl' = [tbl EXCEPT ![r] = <<>>]
      /\ refCount' = refCount
      /\ r \in paged => Set("loop", rec)
      /\ r \notin paged => UNCHANGED job
  BY DEF Abort, FreeTables, poolVars
<1>2. Work.req # r /\ Loop.got = <<>> /\ Loop.best = <<>> /\ Loop.goal = "none"
  <2>1. At("loop") = "idle"
    BY <1>1 DEF At, Loop
  <2>. QED BY <1>1, <2>1, WorkAt DEF Control, LoopTurn, FetchPc
<1>3. /\ ~Backs(Work, r) /\ ~Fills(Work, r) /\ WalkedBy(Loop) = <<>>
      /\ \A q \in Req : ~Backs(Loop, q)
  BY <1>1, <1>2 DEF Backs, Fills, WalkedBy
<1>4. Held[r] = IF r \in paged THEN tbl[r] ELSE <<>>
  BY <1>1, <1>3, HeldByRegistered DEF Control, Placed
<1>5. /\ tbl'[r] = <<>> /\ \A q \in Req : q # r => tbl'[q] = tbl[q]
      /\ \A q \in Req : q # r => (q \in paged' \cup entries' <=> q \in paged \cup entries)
  BY <1>1 DEF Control, CacheTypes
<1>6. Describes(Held, Loop, Work, tbl, paged \cup entries) /\ Held \in Lists
  BY HeldNow
<1>7. CASE r \notin paged
  <2>1. Loop' = Loop /\ Work' = Work
    BY <1>1, <1>7 DEF Loop, Work
  <2>2. Describes(Held, Loop, Work, tbl', paged' \cup entries')
    BY <1>4, <1>5, <1>6, <1>7 DEF Describes, Owns
  <2>3. Held' = Held
    BY <1>6, <2>1, <2>2, HeldNext
  <2>. QED BY <1>1, <2>3, CountedNext
<1>8. CASE r \in paged
  <2>1. /\ WalkedBy(rec) = tbl[r] /\ rec.got = <<>> /\ rec.best = <<>> /\ rec.goal = "none"
    BY DEF Idle, WalkedBy
  <2>2. \A q \in Req : ~Backs(rec, q)
    BY <2>1 DEF Backs
  <2> HIDE DEF rec
  <2>3. Loop' = rec /\ Work' = Work
    BY <1>1, <1>8, SetFacts DEF Control, CacheTypes, Loop, Work, Thread
  <2> DEFINE G == Moved(Held, r, "loop")
  <2>4. r \in Label /\ "loop" \in Label /\ r # "loop" /\ Held["loop"] = <<>>
    BY <1>3, <1>6, CacheAssumption DEF Label, Thread, Describes
  <2>5. Counted(G, refCount)
    BY <1>6, <2>4, MovedCount
  <2>6. /\ G \in Lists /\ G[r] = <<>> /\ G["loop"] = Held[r]
        /\ \A x \in Label : x # r /\ x # "loop" => G[x] = Held[x]
    BY <1>6, <2>4, MovedIs
  <2> HIDE DEF G
  <2>7. /\ G["got"] = <<>> /\ G["best"] = <<>> /\ G["loop"] = tbl[r]
        /\ G["work"] = WalkedBy(Work) /\ \A q \in Req : q # r => G[q] = Held[q]
    BY <1>2, <1>4, <1>6, <1>8, <2>6, CacheAssumption DEF Describes, Label, Thread
  <2>8. Describes(G, rec, Work, tbl', paged' \cup entries')
    BY <1>3, <1>5, <1>6, <2>1, <2>2, <2>6, <2>7 DEF Describes, Owns
  <2>9. Held' = G
    BY <2>3, <2>6, <2>8, HeldNext
  <2>. QED BY <1>1, <2>5, <2>9, CountedNext
<1>. QED BY <1>7, <1>8

\* A commit moves the candidate's references to the table, or to the walk that
\* rejects it.
LEMMA CommitFetchKeeps ==
  ASSUME Control, Counted(Held, refCount), CommitFetch
  PROVE  Counted(Held, refCount)'
<1> DEFINE r == Loop.req
           hit == IF Loop.best = <<>> THEN {} ELSE {r}
           giving == [Idle EXCEPT !.req = r, !.goal = "reject"]
           rec == [giving EXCEPT !.pc = "release", !.ids = Loop.best, !.then = "detach"]
<1>1. /\ Loop.pc = "decide" /\ tbl' = [tbl EXCEPT ![r] = Loop.best]
      /\ paged' = paged \cup hit /\ entries' = entries \cup hit
      /\ refCount' = refCount
      /\ Set("loop", Idle) \/ Set("loop", rec)
  BY DEF CommitFetch, Walking, poolVars
<1>2. /\ r \in Req /\ stage[r] = "fetching" /\ r \notin paged \cup entries
      /\ Loop.goal = "none" /\ Loop.got = <<>>
  BY <1>1 DEF At, Loop, Control, LoopTurn, FetchPc
<1>3. Work.req # r
  BY <1>2, OtherRequest
<1>4. /\ ~Backs(Work, r) /\ ~Fills(Work, r) /\ WalkedBy(Loop) = <<>>
      /\ \A q \in Req : ~Backs(Loop, q)
  BY <1>1, <1>2, <1>3 DEF Backs, Fills, WalkedBy
<1>5. Describes(Held, Loop, Work, tbl, paged \cup entries) /\ Held \in Lists
  BY HeldNow
<1>6. Held[r] = <<>> /\ Held["best"] = Loop.best /\ Held["got"] = <<>> /\ Held["loop"] = <<>>
      /\ Held["work"] = WalkedBy(Work)
  BY <1>2, <1>4, <1>5 DEF Describes, Owns
<1>7. /\ tbl'[r] = Loop.best /\ \A q \in Req : q # r => tbl'[q] = tbl[q]
      /\ \A q \in Req : q # r => (q \in paged' \cup entries' <=> q \in paged \cup entries)
      /\ r \in paged' \cup entries' <=> Loop.best # <<>>
  BY <1>1, <1>2 DEF Control, CacheTypes, hit
<1>8. r \in Label /\ "best" \in Label /\ "loop" \in Label /\ r # "best"
  BY <1>2, CacheAssumption DEF Label, Thread
<1>9. CASE Set("loop", Idle)
  <2>1. Loop' = Idle /\ Work' = Work
    BY <1>9, SetFacts DEF Control, CacheTypes, Loop, Work, Thread
  <2>2. WalkedBy(Idle) = <<>> /\ \A q \in Req : ~Backs(Idle, q)
    BY DEF WalkedBy, Idle, Backs
  <2> DEFINE G == Moved(Held, "best", r)
  <2>3. Counted(G, refCount)
    BY <1>5, <1>6, <1>8, MovedCount
  <2>4. /\ G \in Lists /\ G["best"] = <<>> /\ G[r] = Held["best"]
        /\ \A x \in Label : x # r /\ x # "best" => G[x] = Held[x]
    BY <1>5, <1>8, MovedIs
  <2> HIDE DEF G
  <2>5. /\ G["got"] = <<>> /\ G["loop"] = <<>> /\ G["work"] = WalkedBy(Work)
        /\ \A q \in Req : q # r => G[q] = Held[q]
    BY <1>2, <1>6, <2>4, CacheAssumption DEF Label, Thread
  <2> HIDE DEF r
  <2>6. /\ G["got"] = Idle.got /\ G["best"] = Idle.best /\ G["loop"] = WalkedBy(Idle)
        /\ G["work"] = WalkedBy(Work)
    BY <2>2, <2>4, <2>5 DEF Idle
  <2>7. ASSUME NEW q \in Req
        PROVE  G[q] = IF Owns(Idle, Work, paged' \cup entries', q) THEN tbl'[q] ELSE <<>>
    <3>1. CASE q = r
      BY <1>4, <1>6, <1>7, <2>2, <2>4, <3>1 DEF Owns
    <3>2. CASE q # r
      BY <1>4, <1>5, <1>7, <2>2, <2>5, <3>2 DEF Describes, Owns
    <3>. QED BY <3>1, <3>2
  <2>8. Describes(G, Idle, Work, tbl', paged' \cup entries')
    BY <2>6, <2>7 DEF Describes
  <2>9. Held' = G
    BY <2>1, <2>4, <2>8, HeldNext
  <2>. QED BY <1>1, <2>3, <2>9, CountedNext
<1>10. CASE Set("loop", rec)
  <2>1. rec.req = r /\ rec.got = <<>> /\ rec.best = <<>> /\ rec.pc = "release"
        /\ rec.ids = Loop.best /\ rec.goal = "reject"
    BY DEF Idle
  <2> HIDE DEF rec, giving
  <2>2. Loop' = rec /\ Work' = Work
    BY <1>10, SetFacts DEF Control, CacheTypes, Loop, Work, Thread
  <2>3. WalkedBy(rec) = Loop.best /\ \A q \in Req : Backs(rec, q) <=> q = r
    BY <2>1 DEF WalkedBy, Backs
  <2> DEFINE G == Moved(Held, "best", "loop")
  <2>4. Counted(G, refCount)
    BY <1>5, <1>6, <1>8, MovedCount
  <2>5. /\ G \in Lists /\ G["best"] = <<>> /\ G["loop"] = Held["best"]
        /\ \A x \in Label : x # "loop" /\ x # "best" => G[x] = Held[x]
    BY <1>5, <1>8, MovedIs
  <2> HIDE DEF G
  <2>6. /\ G["got"] = <<>> /\ G["work"] = WalkedBy(Work)
        /\ \A q \in Req : G[q] = Held[q]
    BY <1>6, <2>5, CacheAssumption DEF Label, Thread
  <2> HIDE DEF r
  <2>7. ASSUME NEW q \in Req
        PROVE  G[q] = IF Owns(rec, Work, paged' \cup entries', q) THEN tbl'[q] ELSE <<>>
    <3>1. CASE q = r
      BY <1>4, <1>6, <2>3, <2>6, <3>1 DEF Owns
    <3>2. CASE q # r
      BY <1>4, <1>5, <1>7, <2>3, <2>6, <3>2 DEF Describes, Owns
    <3>. QED BY <3>1, <3>2
  <2>8. Describes(G, rec, Work, tbl', paged' \cup entries')
    BY <1>6, <2>1, <2>3, <2>5, <2>6, <2>7 DEF Describes
  <2>9. Held' = G
    BY <2>2, <2>5, <2>8, HeldNext
  <2>. QED BY <1>1, <2>4, <2>9, CountedNext
<1>. QED BY <1>1, <1>9, <1>10

\* The comparison moves the winner's references to best and the loser's to the
\* walk.
LEMMA CompareKeeps ==
  ASSUME Control, Counted(Held, refCount), CompareCandidates
  PROVE  Counted(Held, refCount)'
<1> DEFINE probes == Len(Probes[Loop.req])
           longer == Len(Loop.got) > Len(Loop.best)
           winner == IF longer THEN Loop.got ELSE Loop.best
           loser == IF longer THEN Loop.best ELSE Loop.got
           then == IF Loop.n < probes THEN "probe"
                   ELSE IF Loop.n = probes THEN "match" ELSE "decide"
           mid == [Loop EXCEPT !.got = <<>>, !.best = winner, !.n = @ + 1]
           rec == [mid EXCEPT !.pc = "release", !.ids = loser, !.then = then]
<1>1. /\ Loop.pc = "compare" /\ Set("loop", rec) /\ refCount' = refCount /\ UNCHANGED tableVars
  BY DEF CompareCandidates, Walking, poolVars
<1> HIDE DEF longer, then, probes
<1>2. rec.got = <<>> /\ rec.best = winner /\ rec.pc = "release" /\ rec.ids = loser
      /\ rec.goal = Loop.goal /\ rec.req = Loop.req
  <2>1. mid.got = <<>> /\ mid.best = winner /\ mid.goal = Loop.goal /\ mid.req = Loop.req
        /\ mid = [mid EXCEPT !.pc = mid.pc]
    BY CallIs DEF Calls
  <2>2. DOMAIN mid = {"pc", "req", "n", "got", "best", "ids", "then", "goal", "pay", "seen"}
    BY CallIs DEF Calls
  <2> HIDE DEF mid
  <2>. QED BY <2>1, <2>2
<1> HIDE DEF rec, mid
<1>3. Loop.goal = "none" /\ WalkedBy(Loop) = <<>> /\ WalkedBy(rec) = loser
  BY <1>1, <1>2 DEF Control, LoopTurn, At, Loop, FetchPc, WalkedBy
<1>4. \A q \in Req : Backs(rec, q) <=> Backs(Loop, q)
  BY <1>2, <1>3 DEF Backs
<1>5. Loop' = rec /\ Work' = Work
  BY <1>1, SetFacts DEF Control, CacheTypes, Loop, Work, Thread
<1>6. Describes(Held, Loop, Work, tbl, paged \cup entries) /\ Held \in Lists
  BY HeldNow
<1>7. Held["got"] = Loop.got /\ Held["best"] = Loop.best /\ Held["loop"] = <<>>
  BY <1>3, <1>6 DEF Describes
<1>8. {"got", "best", "loop"} \subseteq Label
  BY DEF Label, Thread
<1> DEFINE G == [Held EXCEPT !["got"] = rec.got, !["best"] = rec.best, !["loop"] = WalkedBy(rec)]
<1>9. G \in Lists
  <2>1. <<>> \in Seq(Block) /\ winner \in Seq(Block) /\ loser \in Seq(Block)
    BY CallIs
  <2>. QED BY <1>2, <1>3, <1>6, <2>1 DEF Lists
<1>10. Counted(G, refCount)
  <2>1. CASE longer
    <3> DEFINE K == Moved(Held, "best", "loop")
    <3>1. Counted(K, refCount)
      BY <1>6, <1>7, <1>8, MovedCount
    <3>2. K \in Lists /\ K["best"] = <<>> /\ K["got"] = Held["got"]
      BY <1>6, <1>8, MovedIs
    <3>3. G = Moved(K, "got", "best")
      BY <1>2, <1>3, <1>6, <1>7, <1>8, <2>1 DEF Lists, Moved
    <3> HIDE DEF K
    <3>. QED BY <1>8, <3>1, <3>2, <3>3, MovedCount
  <2>2. CASE ~longer
    <3>1. G = Moved(Held, "got", "loop")
      BY <1>2, <1>3, <1>6, <1>7, <1>8, <2>2 DEF Lists, Moved
    <3>. QED BY <1>6, <1>7, <1>8, <3>1, MovedCount
  <2>. QED BY <2>1, <2>2
<1>11. Held' = G
  BY <1>1, <1>4, <1>5, <1>9, LoopHolds
<1>. QED BY <1>1, <1>10, <1>11, CountedNext

-----------------------------------------------------------------------------
(* Steps that take a reference, or give one back.                          *)

\* One more reference for one more place.
LEMMA PushCounts ==
  ASSUME Control, Counted(Held, refCount), NEW x \in Label, NEW b \in Block,
         refCount' = [refCount EXCEPT ![b] = @ + 1], Held' = Pushed(Held, x, b)
  PROVE  Counted(Held, refCount)'
<1>1. Held \in Lists
  BY HeldNow
<1>2. refCount \in [Block -> Int]
  BY MaxRefAssumption DEF Control, CacheTypes, PagedTypeOK, PoolTypeOK
<1>3. Counted(Pushed(Held, x, b), [refCount EXCEPT ![b] = @ + 1])
  BY <1>1, <1>2, PushedCount
<1>. QED BY <1>3, CountedNext

\* The fetch gets a block.
LEMMA GotCounts ==
  ASSUME Control, Counted(Held, refCount), NEW b \in Block,
         refCount' = [refCount EXCEPT ![b] = @ + 1], UNCHANGED tableVars,
         NEW rec, Set("loop", rec), rec.got = Append(Loop.got, b), rec.best = Loop.best,
         WalkedBy(rec) = WalkedBy(Loop), \A r \in Req : Backs(rec, r) <=> Backs(Loop, r)
  PROVE  Counted(Held, refCount)'
<1>1. Loop' = rec /\ Work' = Work
  BY SetFacts DEF Control, CacheTypes, Loop, Work, Thread
<1>2. Describes(Held, Loop, Work, tbl, paged \cup entries) /\ Held \in Lists
  BY HeldNow
<1> DEFINE G == Pushed(Held, "got", b)
<1>3. "got" \in Label
  BY DEF Label
<1>4. G \in Lists /\ G["got"] = Append(Held["got"], b) /\ \A x \in Label : x # "got" => G[x] = Held[x]
  BY <1>2, <1>3, PushedIs
<1> HIDE DEF G
<1>5. /\ G["got"] = rec.got /\ G["best"] = rec.best /\ G["loop"] = WalkedBy(rec)
      /\ G["work"] = WalkedBy(Work) /\ \A r \in Req : G[r] = Held[r]
  BY <1>2, <1>4, CacheAssumption DEF Describes, Label, Thread
<1>6. Describes(G, rec, Work, tbl', paged' \cup entries')
  BY <1>2, <1>5 DEF Describes, Owns, tableVars
<1>7. Held' = G
  BY <1>1, <1>4, <1>6, HeldNext
<1>. QED BY <1>3, <1>7, PushCounts DEF G

\* The table being stored gets a block.
LEMMA StoredCounts ==
  ASSUME Control, Counted(Held, refCount), NEW b \in Block,
         refCount' = [refCount EXCEPT ![b] = @ + 1], Appended(b), UNCHANGED <<paged, entries>>,
         NEW rec, Work' = rec, Loop' = Loop, rec.req = Work.req,
         Work.pc \in {"dedup", "alloc"}, rec.pc \in {"dedup", "register"}
  PROVE  Counted(Held, refCount)'
<1> DEFINE r == Work.req
<1>1. r \in Req
  BY DEF Control, WorkTurn, At, Work
<1>2. /\ tbl' = [tbl EXCEPT ![r] = Append(@, b)]
      /\ tbl'[r] = Append(tbl[r], b) /\ \A q \in Req : q # r => tbl'[q] = tbl[q]
  BY <1>1 DEF Appended, Control, CacheTypes
<1>3. Describes(Held, Loop, Work, tbl, paged \cup entries) /\ Held \in Lists
  BY HeldNow
<1>4. /\ Fills(Work, r) /\ Fills(rec, r) /\ WalkedBy(rec) = <<>> /\ WalkedBy(Work) = <<>>
      /\ \A q \in Req : ~Backs(Work, q) /\ ~Backs(rec, q) /\ (Fills(rec, q) <=> Fills(Work, q))
  BY DEF Fills, Backs, WalkedBy
<1>5. Held[r] = tbl[r]
  BY <1>1, <1>3, <1>4 DEF Describes, Owns
<1> HIDE DEF r
<1>6. r \in Label
  BY <1>1 DEF Label
<1> DEFINE G == Pushed(Held, r, b)
<1>7. G \in Lists /\ G[r] = Append(Held[r], b) /\ \A x \in Label : x # r => G[x] = Held[x]
  BY <1>3, <1>6, PushedIs
<1> HIDE DEF G
<1>8. /\ G["got"] = Loop.got /\ G["best"] = Loop.best /\ G["loop"] = WalkedBy(Loop)
      /\ G["work"] = WalkedBy(rec) /\ \A q \in Req : q # r => G[q] = Held[q]
  BY <1>1, <1>3, <1>4, <1>7, CacheAssumption DEF Describes, Label, Thread
<1>9. Describes(G, Loop, rec, tbl', paged' \cup entries')
  BY <1>2, <1>3, <1>4, <1>5, <1>7, <1>8 DEF Describes, Owns
<1>10. Held' = G
  BY <1>7, <1>9, HeldNext
<1>. QED BY <1>6, <1>10, PushCounts DEF G

\* A touch is one more reference.
LEMMA TouchCounts ==
  ASSUME NEW b, Touch(b)
  PROVE  refCount' = [refCount EXCEPT ![b] = @ + 1]
BY DEF Touch

\* The block taken had no reference.
LEMMA TakeCounts ==
  ASSUME PoolInv, NEW k \in 0..(Len(queue) - 1), NEW h, NEW payload, NEW fromDisk,
         NEW transient, TakeFor(k, h, payload, fromDisk, transient)
  PROVE  /\ queue[k + 1] \in Block /\ refCount[queue[k + 1]] = 0
         /\ refCount' = [refCount EXCEPT ![queue[k + 1]] = @ + 1]
<1> DEFINE b == queue[k + 1]
<1>1. queue \in Seq(Block) /\ refCount \in [Block -> 0..MaxRef]
  BY DEF PoolInv, PoolTypeOK
<1>2. b \in Block /\ Linked(b)
  BY <1>1 DEF Linked, Members
<1>3. refCount[b] = 0
  BY <1>2 DEF PoolInv, FreeIffUnreferenced
<1>4. refCount' = [refCount EXCEPT ![b] = 1]
  BY DEF TakeFor, Take
<1>. QED BY <1>1, <1>2, <1>3, <1>4

\* Fetch steps that take a reference keep the block in got.
LEMMA FetchCounts ==
  ASSUME PoolInv, Control, Counted(Held, refCount), LookupHit \/ Promote \/ PinNext
  PROVE  Counted(Held, refCount)'
<1>1. Loop \in Calls
  BY CallIs
<1>2. CASE LookupHit
  <2>1. PICK b \in Find(Wanted) : Touch(b) /\ Set("loop", [Loop EXCEPT !.got = Append(@, b)])
    BY <1>2 DEF LookupHit
  <2> DEFINE rec == [Loop EXCEPT !.got = Append(@, b)]
  <2>2. b \in Block /\ UNCHANGED tableVars
    BY <1>2 DEF LookupHit, Find
  <2>3. rec.got = Append(Loop.got, b) /\ rec.best = Loop.best /\ rec.pc = Loop.pc
        /\ rec.ids = Loop.ids /\ rec.req = Loop.req /\ rec.goal = Loop.goal
    BY <1>1 DEF Calls
  <2>4. Set("loop", rec)
    BY <2>1
  <2> HIDE DEF rec
  <2>5. WalkedBy(rec) = WalkedBy(Loop) /\ \A r \in Req : Backs(rec, r) <=> Backs(Loop, r)
    BY <2>3 DEF WalkedBy, Backs
  <2>. QED BY <2>1, <2>2, <2>3, <2>4, <2>5, TouchCounts, GotCounts
<1>3. ASSUME NEW b \in Block, refCount' = [refCount EXCEPT ![b] = @ + 1],
             Set("loop", [Loop EXCEPT !.pc = "probe", !.pay = <<>>, !.got = Append(@, b)]),
             Loop.pc = "promote", UNCHANGED tableVars
      PROVE  Counted(Held, refCount)'
  <2> DEFINE rec == [Loop EXCEPT !.pc = "probe", !.pay = <<>>, !.got = Append(@, b)]
  <2>1. rec.got = Append(Loop.got, b) /\ rec.best = Loop.best /\ rec.pc = "probe"
    BY <1>1 DEF Calls
  <2>2. Set("loop", rec)
    BY <1>3
  <2> HIDE DEF rec
  <2>3. WalkedBy(rec) = WalkedBy(Loop) /\ \A r \in Req : Backs(rec, r) <=> Backs(Loop, r)
    BY <1>3, <2>1 DEF WalkedBy, Backs
  <2>. QED BY <1>3, <2>1, <2>2, <2>3, GotCounts
<1>4. CASE Promote
  <2>1. Loop.pc = "promote" /\ UNCHANGED tableVars
    BY <1>4 DEF Promote
  <2>2. CASE \E b \in Find(Wanted) :
               /\ Touch(b)
               /\ Set("loop", [Loop EXCEPT !.pc = "probe", !.pay = <<>>, !.got = Append(@, b)])
    BY <1>3, <2>1, <2>2, TouchCounts DEF Find
  <2>3. CASE UNCHANGED poolVars /\ Set("loop", [Loop EXCEPT !.pc = "compare", !.pay = <<>>])
    BY <2>1, <2>3, StopKeeps
  <2>4. CASE \E k \in 0..(Len(queue) - 1), transient \in BOOLEAN :
               /\ TakeFor(k, Wanted, Loop.pay[1], TRUE, transient)
               /\ Set("loop", [Loop EXCEPT !.pc = "probe", !.pay = <<>>,
                                           !.got = Append(@, queue[k + 1])])
    <3>1. PICK k \in 0..(Len(queue) - 1), transient \in BOOLEAN :
               /\ TakeFor(k, Wanted, Loop.pay[1], TRUE, transient)
               /\ Set("loop", [Loop EXCEPT !.pc = "probe", !.pay = <<>>,
                                           !.got = Append(@, queue[k + 1])])
      BY <2>4
    <3>2. queue[k + 1] \in Block /\ refCount' = [refCount EXCEPT ![queue[k + 1]] = @ + 1]
      BY <3>1, TakeCounts
    <3>. QED BY <1>3, <2>1, <3>1, <3>2
  <2>. QED BY <1>4, <2>2, <2>3, <2>4 DEF Promote
<1>5. CASE PinNext
  <2> DEFINE b == Head(Loop.ids)
             rec == [Loop EXCEPT !.ids = Tail(@), !.got = Append(@, b)]
  <2>1. Loop.pc = "pin" /\ Loop.ids # <<>> /\ Set("loop", rec) /\ UNCHANGED tableVars
        /\ refCount' = [refCount EXCEPT ![b] = @ + 1]
    BY <1>5 DEF PinNext, IncrementRef
  <2>2. b \in Block
    <3>1. Loop.ids \in Seq(Block)
      BY CallIs
    <3>. QED BY <2>1, <3>1
  <2> HIDE DEF b
  <2>3. rec.got = Append(Loop.got, b) /\ rec.best = Loop.best /\ rec.pc = "pin"
    BY <1>1, <2>1 DEF Calls
  <2> HIDE DEF rec
  <2>4. WalkedBy(rec) = WalkedBy(Loop) /\ \A r \in Req : Backs(rec, r) <=> Backs(Loop, r)
    BY <2>1, <2>3 DEF WalkedBy, Backs
  <2>. QED BY <2>1, <2>2, <2>3, <2>4, GotCounts
<1>. QED BY <1>2, <1>4, <1>5

\* Store steps that take a reference keep the block in the table.
LEMMA StoreCounts ==
  ASSUME PoolInv, Control, Counted(Held, refCount), Dedup \/ Alloc
  PROVE  Counted(Held, refCount)'
<1>1. CASE Dedup
  <2>1. PICK b \in Find(NextHash) : Touch(b) /\ Appended(b)
    BY <1>1 DEF Dedup
  <2>2. Work' = Work /\ Loop' = Loop /\ b \in Block /\ Work.pc = "dedup"
        /\ UNCHANGED <<paged, entries>>
    BY <1>1 DEF Dedup, Work, Loop, Find
  <2>. QED BY <2>1, <2>2, TouchCounts, StoredCounts
<1>2. CASE Alloc
  <2>1. PICK k \in 0..(Len(queue) - 1) :
          /\ TakeFor(k, NextHash, IF frugal THEN NoHash ELSE NextHash, FALSE, FALSE)
          /\ Appended(queue[k + 1])
    BY <1>2 DEF Alloc
  <2> DEFINE rec == [Work EXCEPT !.pc = "register"]
  <2>2. Work.pc = "alloc" /\ Set("work", rec) /\ UNCHANGED <<paged, entries>>
    BY <1>2 DEF Alloc
  <2>3. rec.pc = "register" /\ rec.req = Work.req
    BY CallIs DEF Calls
  <2> HIDE DEF rec
  <2>4. Work' = rec /\ Loop' = Loop
    BY <2>2, SetFacts DEF Control, CacheTypes, Loop, Work, Thread
  <2>5. queue[k + 1] \in Block /\ refCount' = [refCount EXCEPT ![queue[k + 1]] = @ + 1]
    BY <2>1, TakeCounts
  <2>. QED BY <2>1, <2>2, <2>3, <2>4, <2>5, StoredCounts
<1>. QED BY <1>1, <1>2

\* A walk gives one block back: it is one that has a reference.
LEMMA WalkCounts ==
  ASSUME PoolInv, Control, Counted(Held, refCount), NEW a \in Thread,
         ReleaseNext(a) \/ (a = "loop" /\ FreeNext)
  PROVE  Counted(Held, refCount)'
<1> DEFINE b == Head(job[a].ids)
           rec == [job[a] EXCEPT !.ids = Tail(@)]
<1>1. /\ job[a].pc \in {"release", "free"} /\ job[a].ids # <<>> /\ Set(a, rec)
      /\ UNCHANGED tableVars /\ (ReleaseOne(b) \/ FreeOne(b))
  BY DEF ReleaseNext, FreeNext, Loop
<1>2. job[a] \in Calls /\ job[a].ids \in Seq(Block) /\ b \in Block /\ b = job[a].ids[1]
      /\ 1 \in 1..Len(job[a].ids)
  <2>1. job[a] \in Calls /\ job[a].ids \in Seq(Block)
    BY DEF Control, CacheTypes, Calls
  <2>. QED BY <1>1, <2>1
<1>3. rec.ids = Tail(job[a].ids) /\ rec.got = job[a].got /\ rec.best = job[a].best
      /\ rec.pc = job[a].pc /\ rec.req = job[a].req /\ rec.goal = job[a].goal
  BY <1>2 DEF Calls
<1> HIDE DEF rec
<1>4. /\ WalkedBy(job[a]) = job[a].ids /\ WalkedBy(rec) = Tail(job[a].ids)
      /\ \A r \in Req : /\ Backs(rec, r) <=> Backs(job[a], r)
                        /\ Fills(rec, r) <=> Fills(job[a], r)
  BY <1>1, <1>3 DEF WalkedBy, Backs, Fills
<1>5. Describes(Held, Loop, Work, tbl, paged \cup entries) /\ Held \in Lists
  BY HeldNow
<1>6. a \in Label /\ Held[a] = job[a].ids
  BY <1>4, <1>5 DEF Label, Describes, Loop, Work, Thread
<1>7. refCount[b] > 0
  BY <1>2, <1>5, <1>6, HeldIsReferenced
<1>8. refCount' = [refCount EXCEPT ![b] = @ - 1]
  BY <1>1, <1>2, <1>7
     DEF ReleaseOne, FreeOne, ReleaseRef, FreeBlock, PoolInv, ReferencedIsAllocated
<1> DEFINE G == Popped(Held, a)
<1>9. G \in Lists /\ G[a] = Tail(Held[a]) /\ \A x \in Label : x # a => G[x] = Held[x]
  BY <1>1, <1>5, <1>6, PoppedIs
<1>10. Counted(G, [refCount EXCEPT ![b] = @ - 1])
  <2>1. refCount \in [Block -> Int]
    BY MaxRefAssumption DEF PoolInv, PoolTypeOK
  <2>2. Held[a] # <<>> /\ b = Head(Held[a])
    BY <1>1, <1>6
  <2> HIDE DEF b
  <2>. QED BY <1>5, <1>6, <2>1, <2>2, PoppedCount
<1> HIDE DEF G, b
<1>11. Held' = G
  <2>1. G["got"] = Held["got"] /\ G["best"] = Held["best"] /\ \A r \in Req : G[r] = Held[r]
    BY <1>9, CacheAssumption DEF Label, Thread
  <2>2. CASE a = "loop"
    <3>1. Loop' = rec /\ Work' = Work
      BY <1>1, <2>2, SetFacts DEF Control, CacheTypes, Loop, Work, Thread
    <3>2. G["work"] = Held["work"]
      BY <1>9, <2>2 DEF Label, Thread
    <3>3. Describes(G, rec, Work, tbl', paged' \cup entries')
      <4>1. job[a] = Loop
        BY <2>2 DEF Loop
      <4>2. /\ G["got"] = rec.got /\ G["best"] = rec.best /\ G["loop"] = WalkedBy(rec)
            /\ G["work"] = WalkedBy(Work)
        BY <1>3, <1>4, <1>5, <1>6, <1>9, <2>1, <2>2, <3>2, <4>1 DEF Describes
      <4>3. \A r \in Req : Owns(rec, Work, paged \cup entries, r)
                            <=> Owns(Loop, Work, paged \cup entries, r)
        BY <1>4, <4>1 DEF Owns
      <4>4. /\ tbl' = tbl /\ paged' \cup entries' = paged \cup entries
            /\ Describes(Held, Loop, Work, tbl, paged \cup entries)
        BY <1>1, <1>5 DEF tableVars
      <4>. QED BY <2>1, <4>2, <4>3, <4>4 DEF Describes
    <3>. QED BY <1>9, <3>1, <3>3, HeldNext
  <2>3. CASE a = "work"
    <3>1. Work' = rec /\ Loop' = Loop
      BY <1>1, <2>3, SetFacts DEF Control, CacheTypes, Loop, Work, Thread
    <3>2. G["loop"] = Held["loop"]
      BY <1>9, <2>3 DEF Label, Thread
    <3>3. Describes(G, Loop, rec, tbl', paged' \cup entries')
      <4>1. job[a] = Work
        BY <2>3 DEF Work
      <4>2. /\ G["got"] = Loop.got /\ G["best"] = Loop.best /\ G["loop"] = WalkedBy(Loop)
            /\ G["work"] = WalkedBy(rec)
        BY <1>3, <1>4, <1>5, <1>6, <1>9, <2>1, <2>3, <3>2, <4>1 DEF Describes
      <4>3. \A r \in Req : Owns(Loop, rec, paged \cup entries, r)
                            <=> Owns(Loop, Work, paged \cup entries, r)
        BY <1>4, <4>1 DEF Owns
      <4>4. /\ tbl' = tbl /\ paged' \cup entries' = paged \cup entries
            /\ Describes(Held, Loop, Work, tbl, paged \cup entries)
        BY <1>1, <1>5 DEF tableVars
      <4>. QED BY <2>1, <4>2, <4>3, <4>4 DEF Describes
    <3>. QED BY <1>9, <3>1, <3>3, HeldNext
  <2>. QED BY <2>2, <2>3 DEF Thread
<1>. QED BY <1>8, <1>10, <1>11, CountedNext

-----------------------------------------------------------------------------
(* Every step keeps every reference held.                                  *)

\* Where nothing is held, every count is zero.
LEMMA EmptyCounts ==
  ASSUME NEW H \in Lists, \A x \in Label : H[x] = <<>>
  PROVE  Counted(H, [b \in Block |-> 0])
<1>1. \A b \in Block : Uses(H, b) = {}
  BY DEF Uses
<1>2. IsFiniteSet({}) /\ Cardinality({}) = 0
  BY FS_EmptySet
<1>. QED BY <1>1, <1>2 DEF Counted

\* When no block is referenced, nobody holds one.
LEMMA NobodyHolds ==
  ASSUME PoolInv, Control, Counted(Held, refCount), ~InUse
  PROVE  /\ \A x \in Label : Held[x] = <<>>
         /\ \A r \in Owners : tbl[r] = <<>>
<1>1. Describes(Held, Loop, Work, tbl, paged \cup entries) /\ Held \in Lists
  BY HeldNow
<1>2. ASSUME NEW x \in Label, Held[x] # <<>>
      PROVE  FALSE
  <2>1. Held[x] \in Seq(Block)
    BY <1>1 DEF Lists
  <2>2. 1 \in 1..Len(Held[x])
    BY <1>2, <2>1
  <2>3. Held[x][1] \in Block /\ refCount[Held[x][1]] > 0
    BY <1>1, <2>2, HeldIsReferenced
  <2>. QED BY <2>3 DEF InUse, PoolInv, ReferencedIsAllocated
<1>3. \A r \in Owners : r \in Req /\ Held[r] = tbl[r]
  BY <1>1, GivingBackIs DEF Describes, Owners, Owns, Filling, Fills
<1>. QED BY <1>2, <1>3 DEF Label

\* A clear finds nothing held, and leaves nothing held.
LEMMA ClearCounts ==
  ASSUME PoolInv, Control, Counted(Held, refCount), Clear
  PROVE  Counted(Held, refCount)'
<1>1. ~InUse /\ UNCHANGED <<tbl, job>> /\ paged' = {} /\ entries' = {}
      /\ refCount' = [b \in Block |-> 0]
  BY DEF Clear, ResetCache, Rebuild
<1>2. Describes(Held, Loop, Work, tbl, paged \cup entries) /\ Held \in Lists
  BY HeldNow
<1>3. \A x \in Label : Held[x] = <<>>
  BY <1>1, NobodyHolds
<1>4. Loop' = Loop /\ Work' = Work
  BY <1>1 DEF Loop, Work
<1>5. ASSUME NEW r \in Req
      PROVE  Held[r] = IF Owns(Loop, Work, {}, r) THEN tbl[r] ELSE <<>>
  BY <1>2, <1>3 DEF Describes, Owns, Label
<1>6. Describes(Held, Loop, Work, tbl', paged' \cup entries')
  BY <1>1, <1>2, <1>5 DEF Describes
<1>7. Held' = Held
  BY <1>2, <1>4, <1>6, HeldNext
<1>. QED BY <1>1, <1>2, <1>3, <1>7, EmptyCounts, CountedNext

\* Initially nothing is held.
LEMMA CountedInit ==
  ASSUME CacheInit
  PROVE  Counted(Held, refCount)
<1>1. Control
  BY ControlInit
<1>2. Describes(Held, Loop, Work, tbl, paged \cup entries) /\ Held \in Lists
  BY <1>1, HeldNow
<1>3. Loop = Idle /\ Work = Idle /\ paged \cup entries = {} /\ refCount = [b \in Block |-> 0]
  BY DEF CacheInit, Loop, Work, Thread, PoolInit, FreshPool
<1>4. WalkedBy(Idle) = <<>> /\ Idle.got = <<>> /\ Idle.best = <<>> /\ \A r \in Req : ~Fills(Idle, r)
  BY DEF WalkedBy, Idle, Fills
<1>5. \A x \in Label : Held[x] = <<>>
  BY <1>2, <1>3, <1>4 DEF Describes, Owns, Label, Thread
<1>. QED BY <1>2, <1>3, <1>5, EmptyCounts

\* Every step keeps the count of every block the number of its holders.
LEMMA CountedStep ==
  ASSUME PoolInv, Control, Counted(Held, refCount), [CacheNext]_vars
  PROVE  Counted(Held, refCount)'
<1>1. CASE UNCHANGED vars
  BY <1>1, SameHolders DEF vars, poolVars, tableVars, Loop, Work
<1>2. CASE Fetching
  BY <1>2, FetchKeeps, FetchCounts, CompareKeeps, CommitFetchKeeps DEF Fetching
<1>3. CASE Ending
  BY <1>3, AbortKeeps, WalkCounts, WalkEndKeeps, DetachKeeps DEF Ending, Thread
<1>4. CASE RestoringSteps
  BY <1>4, RestoreKeeps, SettleEndKeeps DEF RestoringSteps
<1>5. CASE StoringSteps
  BY <1>5, StartStoreKeeps, StoreKeeps, PublishKeeps, StoreCounts, PostStoreKeeps DEF StoringSteps
<1>6. CASE Environment
  BY <1>6, EnvironmentKeeps
<1>7. CASE Clear
  BY <1>7, ClearCounts
<1>. QED BY <1>1, <1>2, <1>3, <1>4, <1>5, <1>6, <1>7 DEF CacheNext, Serving

-----------------------------------------------------------------------------
(* No step changes the hash of a block somebody holds.                     *)

\* Only an unreferenced block is given a new hash.
LEMMA TakeKeepsHash ==
  ASSUME PoolInv, NEW k \in 0..(Len(queue) - 1), NEW h, NEW payload, NEW fromDisk,
         NEW transient, TakeFor(k, h, payload, fromDisk, transient), hash \in [Block -> Payload]
  PROVE  \A b \in Block : refCount[b] > 0 => hash'[b] = hash[b]
<1>1. refCount[queue[k + 1]] = 0 /\ queue[k + 1] \in Block
  BY TakeCounts
<1>2. hash' = [hash EXCEPT ![queue[k + 1]] = h]
  BY DEF TakeFor
<1>. QED BY <1>1, <1>2

\* No step changes the hash of a referenced block, and none changes any while a
\* call holds the lock across steps.
LEMMA HashKept ==
  ASSUME PoolInv, Control, [CacheNext]_vars
  PROVE  /\ \A b \in Block : refCount[b] > 0 => hash'[b] = hash[b]
         /\ lock # "free" => hash' = hash
<1> USE DEF blockVars
<1>0. hash \in [Block -> Payload]
  BY DEF Control, CacheTypes, PagedTypeOK
<1>1. CASE UNCHANGED vars
  BY <1>1 DEF vars
<1>2. CASE Fetching
  <2>1. CASE Promote
    <3>1. CASE \E k \in 0..(Len(queue) - 1), transient \in BOOLEAN :
                 TakeFor(k, Wanted, Loop.pay[1], TRUE, transient)
      BY <1>0, <2>1, <3>1, TakeKeepsHash DEF Promote
    <3>. QED BY <2>1, <3>1 DEF Promote
  <2>. QED BY <1>2, <2>1 DEF Fetching, StartFetch, LookupHit, LookupMiss, CompareCandidates,
                             MatchIndex, PinNext, Pinned, CommitFetch
<1>3. CASE Ending
  <2>1. UNCHANGED hash
    BY <1>3 DEF Ending, Abort, FreeNext, FreeOne, ReleaseNext, ReleaseOne, WalkEnd, Detach
  <2>. QED BY <2>1
<1>4. CASE RestoringSteps
  BY <1>4 DEF RestoringSteps, StartRestore, RestoreHit, RestoreRead, Hydrate, RestoreDone,
              SettleNext, SettleEnd
<1>5. CASE StoringSteps
  <2>1. CASE Alloc
    <3>1. \E k \in 0..(Len(queue) - 1) :
            TakeFor(k, NextHash, IF frugal THEN NoHash ELSE NextHash, FALSE, FALSE)
      BY <2>1 DEF Alloc
    <3>. QED BY <1>0, <2>1, <3>1, TakeKeepsHash DEF Alloc
  <2>. QED BY <1>5, <2>1 DEF StoringSteps, StartStore, StartSalvage, Dedup, NoDuplicate,
                             AllocFails, Register, Publish, PostStore
<1>6. CASE Environment
  <2>1. ASSUME NEW b \in Block, EvictPayload(b)
        PROVE  /\ \A c \in Block : refCount[c] > 0 => hash'[c] = hash[c]
               /\ lock = "free"
    BY <1>0, <2>1 DEF EvictPayload
  <2>. QED BY <1>6, <2>1 DEF Environment, PublishWrite, LoseWrite, EvictL2
<1>7. CASE Clear
  BY <1>7 DEF Clear, InUse, PoolInv, ReferencedIsAllocated
<1>. QED BY <1>1, <1>2, <1>3, <1>4, <1>5, <1>6, <1>7 DEF CacheNext, Serving

-----------------------------------------------------------------------------
(* What fits now and next.                                                 *)

Kept(ids) == \A i \in 1..Len(ids) : hash'[ids[i]] = hash[ids[i]]
NextFits(ids, chain) ==
  Len(ids) <= Len(chain) /\ \A i \in 1..Len(ids) : hash'[ids[i]] = chain[i]
NextFound(r, ids) == \E chain \in Members(Probes[r]) : NextFits(ids, chain)

\* Blocks that keep their hashes fit the chain they fitted.
LEMMA KeptFits ==
  ASSUME NEW ids, NEW chain, Kept(ids), Fits(ids, chain)
  PROVE  NextFits(ids, chain)
BY DEF Kept, Fits, NextFits

\* So do those of a candidate.
LEMMA KeptFound ==
  ASSUME NEW ids, NEW r, Kept(ids), Found(r, ids)
  PROVE  NextFound(r, ids)
BY KeptFits DEF Found, NextFound

\* The lists whose blocks keep their hashes: those that hold them.
LEMMA HeldKept ==
  ASSUME PoolInv, Control, Counted(Held, refCount), [CacheNext]_vars
  PROVE  /\ Kept(Loop.got) /\ Kept(Loop.best)
         /\ \A r \in Req : Owns(Loop, Work, paged \cup entries, r) => Kept(tbl[r])
<1>1. Describes(Held, Loop, Work, tbl, paged \cup entries) /\ Held \in Lists
  BY HeldNow
<1>2. ASSUME NEW x \in Label
      PROVE  Kept(Held[x])
  <2>1. \A i \in 1..Len(Held[x]) : Held[x][i] \in Block /\ refCount[Held[x][i]] > 0
    BY <1>1, HeldIsReferenced
  <2>. QED BY <2>1, HashKept DEF Kept
<1>3. Kept(Held["got"]) /\ Kept(Held["best"]) /\ \A r \in Req : Kept(Held[r])
  BY <1>2 DEF Label
<1>. QED BY <1>1, <1>3 DEF Describes

\* A table that is matched or filled is one of them, or empty.
LEMMA TablesKept ==
  ASSUME PoolInv, Control, Counted(Held, refCount), [CacheNext]_vars, NEW r \in Req
  PROVE  /\ Filling(r) => Kept(tbl[r])
         /\ stage[r] \in {"waiting", "restoring"} /\ ~GivingBack(r) => Kept(tbl[r])
         /\ Work.pc \in RestorePc /\ Work.req = r => Kept(tbl[r])
<1>1. Owns(Loop, Work, paged \cup entries, r) => Kept(tbl[r])
  BY HeldKept
<1>2. Kept(<<>>)
  BY DEF Kept
<1>3. Filling(r) => Owns(Loop, Work, paged \cup entries, r)
  BY DEF Filling, Fills, Owns
<1>4. ASSUME stage[r] \in {"waiting", "restoring"}, ~GivingBack(r)
      PROVE  Kept(tbl[r])
  <2>1. r \in paged \/ tbl[r] = <<>>
    BY <1>4 DEF Control, Placed
  <2>2. r \in paged => Owns(Loop, Work, paged \cup entries, r)
    BY <1>4, GivingBackIs DEF Owns
  <2>. QED BY <1>1, <1>2, <2>1, <2>2
<1>5. ASSUME Work.pc \in RestorePc, Work.req = r
      PROVE  Kept(tbl[r])
  <2>1. stage[r] = "restoring"
    BY <1>5 DEF Control, WorkTurn, At, Work, RestorePc
  <2>2. ~Backs(Loop, r) /\ ~Backs(Work, r)
    BY <1>5, <2>1, WorkAt DEF Backs, RestorePc
  <2>. QED BY <1>4, <2>1, <2>2, GivingBackIs
<1>. QED BY <1>1, <1>3, <1>4, <1>5

-----------------------------------------------------------------------------
(* Chains, from a step to the next.                                        *)

Where(l) == IF l.pc = "release" THEN l.then ELSE l.pc
LoopFits(l) ==
  /\ Where(l) \in FetchPc => NextFound(l.req, l.best)
  /\ Where(l) \in {"probe", "promote"} => NextFits(l.got, Probes[l.req][l.n])
  /\ l.pc = "promote" => l.pay[1] = Probes[l.req][l.n][Len(l.got) + 1]
  /\ l.pc = "compare" => NextFound(l.req, l.got)
  /\ l.pc = "pin" => NextFound(l.req, l.got \o l.ids)
WorkFits(w) ==
  w.pc \in RestorePc => \A i \in 1..Len(w.pay) : w.pay[i] = hash'[tbl'[w.req][i]]

\* LoopChains, of the next call of the event loop.
LEMMA LoopFitsNext ==
  ASSUME NEW l, Loop' = l, LoopFits(l)
  PROVE  LoopChains'
BY ZenonT(90)
   DEF LoopChains, LoopFits, Where, At, Loop, Found, Fits, NextFound, NextFits, Probe, Wanted

\* WorkChains, of the next call of the worker.
LEMMA WorkFitsNext ==
  ASSUME NEW w, Work' = w, WorkFits(w)
  PROVE  WorkChains'
BY DEF WorkChains, WorkFits

\* TableFits, of the next table.
LEMMA TableFitsNext ==
  ASSUME NEW r, (stage[r] \in {"waiting", "restoring"})' /\ ~GivingBack(r)' => NextFound(r, tbl'[r]),
         Filling(r)' => NextFits(tbl'[r], StoreChain[r])
  PROVE  TableFits(r)'
BY DEF TableFits, Found, Fits, NextFound, NextFits

\* A table that is neither changed nor put to a new use still fits.
LEMMA TableStays ==
  ASSUME CacheInv, [CacheNext]_vars, NEW r \in Req, tbl'[r] = tbl[r],
         (stage[r] \in {"waiting", "restoring"})' => stage[r] \in {"waiting", "restoring"},
         GivingBack(r) => GivingBack(r)' \/ ~(stage[r] \in {"waiting", "restoring"})',
         Filling(r)' => Filling(r)
  PROVE  TableFits(r)'
<1>1. TableFits(r)
  BY DEF CacheInv, Chains
<1>2. /\ Filling(r) => Kept(tbl[r])
      /\ stage[r] \in {"waiting", "restoring"} /\ ~GivingBack(r) => Kept(tbl[r])
  BY TablesKept DEF CacheInv
<1>3. /\ Filling(r) => NextFits(tbl[r], StoreChain[r])
      /\ stage[r] \in {"waiting", "restoring"} /\ ~GivingBack(r) => NextFound(r, tbl[r])
  BY <1>1, <1>2, KeptFits, KeptFound DEF TableFits
<1>. QED BY <1>3, TableFitsNext

\* What the event loop holds still fits.
LEMMA LoopStays ==
  ASSUME CacheInv, [CacheNext]_vars
  PROVE  LoopFits(Loop)
<1>1. LoopChains
  BY DEF CacheInv, Chains
<1>2. Kept(Loop.got) /\ Kept(Loop.best)
  BY HeldKept DEF CacheInv
<1>3. Loop.pc = "pin" => Kept(Loop.got \o Loop.ids)
  <2>1. Loop.pc = "pin" => lock = "loop"
    BY DEF CacheInv, Control, LoopTurn
  <2>2. lock = "loop" => hash' = hash
    BY HashKept DEF CacheInv
  <2>. QED BY <2>1, <2>2 DEF Kept
<1>4. Where(Loop) = At("loop")
  BY DEF Where, At, Loop
<1>5. Where(Loop) \in FetchPc => NextFound(Loop.req, Loop.best)
  BY <1>1, <1>2, <1>4, KeptFound DEF LoopChains
<1>6. Where(Loop) \in {"probe", "promote"} => NextFits(Loop.got, Probes[Loop.req][Loop.n])
  BY <1>1, <1>2, <1>4, KeptFits DEF LoopChains, Probe
<1>7. Loop.pc = "promote" => Loop.pay[1] = Probes[Loop.req][Loop.n][Len(Loop.got) + 1]
  BY <1>1 DEF LoopChains, Wanted, Probe
<1>8. Loop.pc = "compare" => NextFound(Loop.req, Loop.got)
  BY <1>1, <1>2, KeptFound DEF LoopChains
<1>9. Loop.pc = "pin" => NextFound(Loop.req, Loop.got \o Loop.ids)
  BY <1>1, <1>3, KeptFound DEF LoopChains
<1>. QED BY <1>5, <1>6, <1>7, <1>8, <1>9 DEF LoopFits

\* What the worker has read still fits.
LEMMA WorkStays ==
  ASSUME CacheInv, [CacheNext]_vars, Work.req \in Req => tbl'[Work.req] = tbl[Work.req]
  PROVE  WorkFits(Work)
<1>1. SUFFICES ASSUME Work.pc \in RestorePc
               PROVE  \A i \in 1..Len(Work.pay) : Work.pay[i] = hash'[tbl'[Work.req][i]]
  BY DEF WorkFits
<1>2. At("work") = Work.pc
  BY <1>1 DEF At, Work, RestorePc
<1>3. Work.req \in Req /\ Len(Work.pay) <= Len(tbl[Work.req])
  BY <1>1, <1>2 DEF CacheInv, Control, WorkTurn, RestorePc
<1>4. Kept(tbl[Work.req])
  BY <1>1, <1>3, TablesKept DEF CacheInv
<1>5. \A i \in 1..Len(Work.pay) : Work.pay[i] = hash[tbl[Work.req][i]]
  BY <1>1 DEF CacheInv, Chains, WorkChains
<1>6. Work.pay \in Seq(Payload) /\ tbl[Work.req] \in Seq(Block)
  BY <1>3, CallIs DEF CacheInv, Control, CacheTypes
<1>7. \A i \in 1..Len(Work.pay) : i \in 1..Len(tbl[Work.req])
  BY <1>3, <1>6
<1>. QED BY <1>3, <1>4, <1>5, <1>7 DEF Kept

\* A step of the event loop's call alone.
LEMMA LoopOnly ==
  ASSUME CacheInv, [CacheNext]_vars, NEW rec, Set("loop", rec), UNCHANGED <<stage, tableVars>>,
         \A r \in Req : Backs(Loop, r) => Backs(rec, r), LoopFits(rec)
  PROVE  Chains'
<1>1. Loop' = rec /\ Work' = Work
  BY SetFacts DEF CacheInv, Control, CacheTypes, Loop, Work, Thread
<1>2. \A r \in Req : /\ GivingBack(r) => GivingBack(r)'
                     /\ Filling(r)' => Filling(r)
  BY <1>1, GivingBackIs DEF Filling
<1>3. \A r \in Req : TableFits(r)'
  BY <1>2, TableStays DEF tableVars
<1>4. WorkChains'
  BY <1>1, WorkStays, WorkFitsNext DEF tableVars
<1>5. LoopChains'
  BY <1>1, LoopFitsNext
<1>. QED BY <1>3, <1>4, <1>5 DEF Chains

\* A step of the worker's call alone.
LEMMA WorkOnly ==
  ASSUME CacheInv, [CacheNext]_vars, NEW rec, Set("work", rec), UNCHANGED <<stage, tableVars>>,
         \A r \in Req : Backs(Work, r) => Backs(rec, r),
         \A r \in Req : Fills(rec, r) => Fills(Work, r), WorkFits(rec)
  PROVE  Chains'
<1>1. Work' = rec /\ Loop' = Loop
  BY SetFacts DEF CacheInv, Control, CacheTypes, Loop, Work, Thread
<1>2. \A r \in Req : /\ GivingBack(r) => GivingBack(r)'
                     /\ Filling(r)' => Filling(r)
  BY <1>1, GivingBackIs DEF Filling, Fills
<1>3. \A r \in Req : TableFits(r)'
  BY <1>2, TableStays DEF tableVars
<1>4. LoopChains'
  BY <1>1, LoopStays, LoopFitsNext
<1>5. WorkChains'
  BY <1>1, WorkFitsNext
<1>. QED BY <1>3, <1>4, <1>5 DEF Chains

\* A step of neither.
LEMMA NeitherCall ==
  ASSUME CacheInv, [CacheNext]_vars, UNCHANGED <<stage, tbl, job>>
  PROVE  Chains'
<1>1. Work' = Work /\ Loop' = Loop
  BY DEF Work, Loop
<1>2. \A r \in Req : /\ GivingBack(r) => GivingBack(r)'
                     /\ Filling(r)' => Filling(r)
  BY <1>1, GivingBackIs DEF Filling
<1>3. \A r \in Req : TableFits(r)'
  BY <1>2, TableStays
<1>4. LoopChains' /\ WorkChains'
  BY <1>1, LoopStays, LoopFitsNext, WorkStays, WorkFitsNext
<1>. QED BY <1>3, <1>4 DEF Chains

-----------------------------------------------------------------------------
(* Chains, action by action: a fetch.                                      *)

\* The lookup's position.
LEMMA ProbeAt ==
  ASSUME Control, At("loop") \in FetchPc
  PROVE  /\ Loop.req \in Req /\ Loop.goal = "none"
         /\ Probes[Loop.req] \in Seq(Seq(Hash)) /\ Len(Probes[Loop.req]) \in Nat \ {0}
         /\ \A r \in Req : ~Backs(Loop, r)
BY CacheAssumption DEF Control, LoopTurn, Backs

\* An empty list fits every chain.
LEMMA EmptyFits ==
  ASSUME NEW r \in Req
  PROVE  /\ NextFound(r, <<>>)
         /\ \A n \in 1..Len(Probes[r]) : NextFits(<<>>, Probes[r][n])
         /\ NextFits(<<>>, StoreChain[r])
<1>1. /\ Probes[r] \in Seq(Seq(Hash)) /\ Probes[r] # <<>> /\ StoreChain[r] \in Seq(Hash)
      /\ Len(Probes[r]) \in Nat \ {0}
  BY CacheAssumption
<1>2. \A c \in Seq(Hash) : NextFits(<<>>, c)
  BY DEF NextFits
<1>3. \A n \in 1..Len(Probes[r]) : Probes[r][n] \in Seq(Hash)
  BY <1>1
<1>4. Probes[r][1] \in Members(Probes[r])
  BY <1>1 DEF Members
<1>. QED BY <1>1, <1>2, <1>3, <1>4 DEF NextFound

\* A fetch starts with empty candidates.
LEMMA StartFetchChains ==
  ASSUME CacheInv, [CacheNext]_vars, NEW r \in Req, StartFetch(r)
  PROVE  Chains'
<1> DEFINE rec == [Idle EXCEPT !.pc = "probe", !.req = r, !.n = 1]
<1>1. Loop.pc = "idle" /\ Set("loop", rec) /\ stage[r] = "idle"
      /\ stage' = [stage EXCEPT ![r] = "fetching"] /\ UNCHANGED tableVars
  BY DEF StartFetch
<1>2. Loop' = rec /\ Work' = Work
  BY <1>1, SetFacts DEF CacheInv, Control, CacheTypes, Loop, Work, Thread
<1>3. LoopFits(rec)
  <2>1. Len(Probes[r]) \in Nat \ {0}
    BY CacheAssumption
  <2>2. NextFound(r, <<>>) /\ NextFits(<<>>, Probes[r][1])
    BY <2>1, EmptyFits
  <2>3. rec.pc = "probe" /\ rec.req = r /\ rec.n = 1 /\ rec.got = <<>> /\ rec.best = <<>>
    BY DEF Idle
  <2> HIDE DEF rec
  <2>. QED BY <2>2, <2>3 DEF LoopFits, Where
<1>4. \A q \in Req : (GivingBack(q) => GivingBack(q)') /\ (Filling(q)' => Filling(q))
  BY <1>1, <1>2, GivingBackIs DEF Filling, Backs
<1>5. \A q \in Req : (stage[q] \in {"waiting", "restoring"})' => stage[q] \in {"waiting", "restoring"}
  BY <1>1 DEF CacheInv, Control, CacheTypes, PagedTypeOK
<1>6. \A q \in Req : TableFits(q)'
  BY <1>1, <1>4, <1>5, TableStays DEF tableVars
<1>7. WorkChains'
  BY <1>1, <1>2, WorkStays, WorkFitsNext DEF tableVars
<1>8. LoopChains'
  BY <1>2, <1>3, LoopFitsNext
<1>. QED BY <1>6, <1>7, <1>8 DEF Chains

\* A block with the wanted hash goes with the candidate.
LEMMA GotFits ==
  ASSUME CacheInv, [CacheNext]_vars, At("loop") \in {"probe", "promote"}, Loop.pc # "release",
         ~ProbeDone, NEW b \in Block, hash'[b] = Wanted
  PROVE  NextFits(Append(Loop.got, b), Probe) /\ NextFound(Loop.req, Loop.best)
<1> DEFINE g == Append(Loop.got, b)
           m == Len(Loop.got)
<1>1. Len(g) = m + 1 /\ m + 1 <= Len(Probe) /\ Loop.got \in Seq(Block) /\ m \in Nat
  BY GotOneMore, WantedIsHash, CallIs DEF CacheInv
<1>2. g[m + 1] = b /\ \A i \in 1..m : g[i] = Loop.got[i]
  BY <1>1, AppendProperties
<1>3. Where(Loop) = At("loop")
  BY DEF Where, At, Loop
<1>4. NextFits(Loop.got, Probe) /\ NextFound(Loop.req, Loop.best)
  BY <1>3, LoopStays DEF LoopFits, Probe, FetchPc
<1>5. hash'[b] = Probe[m + 1]
  BY DEF Wanted
<1> HIDE DEF g, m
<1>6. \A i \in 1..m : hash'[g[i]] = Probe[i]
  BY <1>2, <1>4 DEF NextFits, m
<1>7. \A i \in 1..Len(g) : i \in 1..m \/ i = m + 1
  BY <1>1
<1>8. NextFits(g, Probe)
  BY <1>1, <1>2, <1>5, <1>6, <1>7 DEF NextFits
<1>. QED BY <1>4, <1>8 DEF g

\* The block found has the wanted hash, since the index is sound.
LEMMA LookupHitChains ==
  ASSUME CacheInv, [CacheNext]_vars, LookupHit
  PROVE  Chains'
<1>1. PICK b \in Find(Wanted) : Set("loop", [Loop EXCEPT !.got = Append(@, b)])
  BY DEF LookupHit
<1> DEFINE rec == [Loop EXCEPT !.got = Append(@, b)]
<1>2. /\ Loop.pc = "probe" /\ ~ProbeDone /\ b \in Block /\ hash' = hash
      /\ UNCHANGED <<stage, tableVars>> /\ b \in index[Wanted]
  BY DEF LookupHit, Find, blockVars
<1>3. At("loop") = "probe"
  BY <1>2 DEF At, Loop
<1>4. hash'[b] = Wanted
  BY <1>2, <1>3, WantedIsHash DEF CacheInv, IndexInv, IndexSound
<1>5. NextFits(Append(Loop.got, b), Probe) /\ NextFound(Loop.req, Loop.best)
  BY <1>2, <1>3, <1>4, GotFits
<1>6. rec.got = Append(Loop.got, b) /\ rec.best = Loop.best /\ rec.pc = "probe"
      /\ rec.req = Loop.req /\ rec.n = Loop.n /\ Set("loop", rec)
  BY <1>1, <1>2, CallIs DEF Calls, CacheInv
<1> HIDE DEF rec
<1>7. LoopFits(rec)
  BY <1>5, <1>6 DEF LoopFits, Where, Probe
<1>8. \A r \in Req : Backs(Loop, r) => Backs(rec, r)
  BY <1>2 DEF Backs
<1>. QED BY <1>2, <1>6, <1>7, <1>8, LoopOnly

\* A lookup that has come to its end: the candidate is for that probe.
LEMMA StopChains ==
  ASSUME CacheInv, [CacheNext]_vars, NEW rec, Set("loop", rec), UNCHANGED <<stage, tableVars>>,
         Loop.pc \in {"probe", "promote"}, rec.pc = "compare", rec.req = Loop.req,
         rec.got = Loop.got, rec.best = Loop.best
  PROVE  Chains'
<1>1. At("loop") = Loop.pc /\ Where(Loop) = Loop.pc
  BY DEF At, Loop, Where
<1>2. NextFits(Loop.got, Probe) /\ NextFound(Loop.req, Loop.best)
  BY <1>1, LoopStays DEF LoopFits, Probe, FetchPc
<1>3. Probe \in Members(Probes[Loop.req])
  BY <1>1 DEF CacheInv, Control, LoopTurn, Probe, Members
<1>4. LoopFits(rec)
  BY <1>2, <1>3 DEF LoopFits, Where, NextFound
<1>5. \A r \in Req : Backs(Loop, r) => Backs(rec, r)
  BY DEF Backs
<1>. QED BY <1>4, <1>5, LoopOnly

\* What is read from L2 is the wanted payload.
LEMMA LookupMissChains ==
  ASSUME CacheInv, [CacheNext]_vars, LookupMiss
  PROVE  Chains'
<1>1. Loop.pc = "probe" /\ UNCHANGED <<stage, tableVars>> /\ Loop \in Calls
  BY CallIs DEF LookupMiss, CacheInv
<1>2. CASE ~ProbeDone /\ Readable(Wanted)
  <2> DEFINE rec == [Loop EXCEPT !.pc = "promote", !.pay = <<l2[Wanted]>>]
  <2>1. Set("loop", rec)
    BY <1>2 DEF LookupMiss
  <2>2. rec.pc = "promote" /\ rec.pay = <<l2[Wanted]>> /\ rec.req = Loop.req /\ rec.n = Loop.n
        /\ rec.got = Loop.got /\ rec.best = Loop.best
    BY <1>1 DEF Calls
  <2> HIDE DEF rec
  <2>3. At("loop") = "probe" /\ Where(Loop) = "probe"
    BY <1>1 DEF At, Loop, Where
  <2>4. NextFits(Loop.got, Probe) /\ NextFound(Loop.req, Loop.best)
    BY <2>3, LoopStays DEF LoopFits, Probe, FetchPc
  <2>5. l2[Wanted] = Wanted
    BY <1>2, <2>3, WantedIsHash DEF CacheInv, PayloadMatchesHash, Readable
  <2>6. rec.pay[1] = Probes[rec.req][rec.n][Len(rec.got) + 1]
    BY <2>2, <2>5 DEF Wanted, Probe
  <2>7. LoopFits(rec)
    BY <2>2, <2>4, <2>6 DEF LoopFits, Where, Probe
  <2>8. \A r \in Req : Backs(Loop, r) => Backs(rec, r)
    BY <1>1 DEF Backs
  <2>. QED BY <1>1, <2>1, <2>7, <2>8, LoopOnly
<1>3. CASE ~(~ProbeDone /\ Readable(Wanted))
  <2> DEFINE rec == [Loop EXCEPT !.pc = "compare"]
  <2>1. Set("loop", rec)
    BY <1>3 DEF LookupMiss
  <2>2. rec.pc = "compare" /\ rec.req = Loop.req /\ rec.got = Loop.got /\ rec.best = Loop.best
    BY <1>1 DEF Calls
  <2> HIDE DEF rec
  <2>. QED BY <1>1, <2>1, <2>2, StopChains
<1>. QED BY <1>2, <1>3

\* The block promoted gets the wanted hash.
LEMMA PromoteChains ==
  ASSUME CacheInv, [CacheNext]_vars, Promote
  PROVE  Chains'
<1>1. /\ Loop.pc = "promote" /\ UNCHANGED <<stage, tableVars>> /\ Loop \in Calls
      /\ hash \in [Block -> Payload]
  BY CallIs DEF Promote, CacheInv, Control, CacheTypes, PagedTypeOK
<1>2. At("loop") = "promote" /\ ~ProbeDone
  BY <1>1 DEF At, Loop, CacheInv, Control, LoopTurn
<1>3. ASSUME NEW b \in Block, hash'[b] = Wanted,
             Set("loop", [Loop EXCEPT !.pc = "probe", !.pay = <<>>, !.got = Append(@, b)])
      PROVE  Chains'
  <2> DEFINE rec == [Loop EXCEPT !.pc = "probe", !.pay = <<>>, !.got = Append(@, b)]
  <2>1. NextFits(Append(Loop.got, b), Probe) /\ NextFound(Loop.req, Loop.best)
    BY <1>1, <1>2, <1>3, GotFits
  <2>2. rec.got = Append(Loop.got, b) /\ rec.best = Loop.best /\ rec.pc = "probe"
        /\ rec.req = Loop.req /\ rec.n = Loop.n /\ Set("loop", rec)
    BY <1>1, <1>3 DEF Calls
  <2> HIDE DEF rec
  <2>3. LoopFits(rec)
    BY <2>1, <2>2 DEF LoopFits, Where, Probe
  <2>4. \A r \in Req : Backs(Loop, r) => Backs(rec, r)
    BY <1>1 DEF Backs
  <2>. QED BY <1>1, <2>2, <2>3, <2>4, LoopOnly
<1>4. CASE \E b \in Find(Wanted) :
             /\ Set("loop", [Loop EXCEPT !.pc = "probe", !.pay = <<>>, !.got = Append(@, b)])
             /\ UNCHANGED blockVars
  <2>1. PICK b \in Find(Wanted) :
             /\ Set("loop", [Loop EXCEPT !.pc = "probe", !.pay = <<>>, !.got = Append(@, b)])
             /\ UNCHANGED blockVars
    BY <1>4
  <2>2. b \in Block /\ hash'[b] = Wanted
    BY <1>2, <2>1, WantedIsHash DEF Find, CacheInv, IndexInv, IndexSound, blockVars
  <2>. QED BY <1>3, <2>1, <2>2
<1>5. CASE Set("loop", [Loop EXCEPT !.pc = "compare", !.pay = <<>>])
  <2> DEFINE rec == [Loop EXCEPT !.pc = "compare", !.pay = <<>>]
  <2>1. rec.pc = "compare" /\ rec.req = Loop.req /\ rec.got = Loop.got /\ rec.best = Loop.best
        /\ Set("loop", rec)
    BY <1>1, <1>5 DEF Calls
  <2> HIDE DEF rec
  <2>. QED BY <1>1, <2>1, StopChains
<1>6. CASE \E k \in 0..(Len(queue) - 1), transient \in BOOLEAN :
             /\ TakeFor(k, Wanted, Loop.pay[1], TRUE, transient)
             /\ Set("loop", [Loop EXCEPT !.pc = "probe", !.pay = <<>>,
                                         !.got = Append(@, queue[k + 1])])
  <2>1. PICK k \in 0..(Len(queue) - 1), transient \in BOOLEAN :
             /\ TakeFor(k, Wanted, Loop.pay[1], TRUE, transient)
             /\ Set("loop", [Loop EXCEPT !.pc = "probe", !.pay = <<>>,
                                         !.got = Append(@, queue[k + 1])])
    BY <1>6
  <2>2. queue[k + 1] \in Block
    BY <2>1, TakeCounts DEF CacheInv
  <2>3. hash' = [hash EXCEPT ![queue[k + 1]] = Wanted]
    BY <2>1 DEF TakeFor
  <2>4. hash'[queue[k + 1]] = Wanted
    BY <1>1, <2>2, <2>3
  <2>. QED BY <1>3, <2>1, <2>2, <2>4
<1>. QED BY <1>4, <1>5, <1>6 DEF Promote

\* Whichever candidate wins fits a probe.
LEMMA CompareChains ==
  ASSUME CacheInv, [CacheNext]_vars, CompareCandidates
  PROVE  Chains'
<1> DEFINE probes == Len(Probes[Loop.req])
           longer == Len(Loop.got) > Len(Loop.best)
           winner == IF longer THEN Loop.got ELSE Loop.best
           loser == IF longer THEN Loop.best ELSE Loop.got
           then == IF Loop.n < probes THEN "probe"
                   ELSE IF Loop.n = probes THEN "match" ELSE "decide"
           mid == [Loop EXCEPT !.got = <<>>, !.best = winner, !.n = @ + 1]
           rec == [mid EXCEPT !.pc = "release", !.ids = loser, !.then = then]
<1>1. Loop.pc = "compare" /\ Set("loop", rec) /\ UNCHANGED <<stage, tableVars>>
  BY DEF CompareCandidates, Walking
<1>2. At("loop") = "compare" /\ Where(Loop) = "compare"
  BY <1>1 DEF At, Loop, Where
<1>3. Loop.n \in 1..(probes + 1) /\ Loop.req \in Req /\ probes \in Nat /\ ~Backs(Loop, Loop.req)
      /\ \A r \in Req : ~Backs(Loop, r)
  BY <1>2, ProbeAt DEF CacheInv, Control, LoopTurn, FetchPc
<1>4. NextFound(Loop.req, winner)
  BY <1>1, <1>2, LoopStays DEF LoopFits, FetchPc
<1>5. then = "probe" => NextFits(<<>>, Probes[Loop.req][Loop.n + 1])
  BY <1>3, EmptyFits
<1> HIDE DEF winner, loser, then
<1>6. rec.got = <<>> /\ rec.best = winner /\ rec.pc = "release" /\ rec.then = then
      /\ rec.n = Loop.n + 1 /\ rec.req = Loop.req
  <2>1. mid.got = <<>> /\ mid.best = winner /\ mid.req = Loop.req /\ mid.n = Loop.n + 1
        /\ mid = [mid EXCEPT !.pc = mid.pc]
    BY CallIs DEF Calls, CacheInv
  <2>2. DOMAIN mid = {"pc", "req", "n", "got", "best", "ids", "then", "goal", "pay", "seen"}
    BY CallIs DEF Calls, CacheInv
  <2> HIDE DEF mid
  <2>. QED BY <2>1, <2>2
<1> HIDE DEF rec, mid
<1>7. then # "promote"
  BY DEF then
<1>8. LoopFits(rec)
  BY <1>4, <1>5, <1>6, <1>7 DEF LoopFits, Where
<1>. QED BY <1>1, <1>3, <1>8, LoopOnly

\* The ids the index names carry the hashes of a chain, under the lock.
LEMMA MatchIndexChains ==
  ASSUME CacheInv, [CacheNext]_vars, MatchIndex
  PROVE  Chains'
<1>1. /\ Loop.pc = "match" /\ UNCHANGED <<stage, tableVars>> /\ Loop \in Calls /\ hash' = hash
  BY CallIs DEF MatchIndex, CacheInv, blockVars
<1>2. At("loop") = "match" /\ Where(Loop) = "match"
  BY <1>1 DEF At, Loop, Where
<1>3. Loop.got = <<>> /\ \A r \in Req : ~Backs(Loop, r)
  BY <1>2, ProbeAt DEF CacheInv, Control, LoopTurn, FetchPc
<1>4. NextFound(Loop.req, Loop.best)
  BY <1>2, LoopStays DEF LoopFits, FetchPc
<1>5. PICK chain \in Members(Probes[Loop.req]) : \E n \in 0..Len(chain) :
        \E ids \in [1..n -> Block] :
          Current(ids, chain) /\ Set("loop", [Loop EXCEPT !.pc = "pin", !.ids = ids])
  BY DEF MatchIndex
<1>6. PICK n \in 0..Len(chain) : \E ids \in [1..n -> Block] :
        Current(ids, chain) /\ Set("loop", [Loop EXCEPT !.pc = "pin", !.ids = ids])
  BY <1>5
<1>7. PICK ids \in [1..n -> Block] :
        Current(ids, chain) /\ Set("loop", [Loop EXCEPT !.pc = "pin", !.ids = ids])
  BY <1>6
<1> DEFINE rec == [Loop EXCEPT !.pc = "pin", !.ids = ids]
<1>8. /\ rec.pc = "pin" /\ rec.got = <<>> /\ rec.ids = ids /\ rec.best = Loop.best
      /\ rec.req = Loop.req
  BY <1>1, <1>3 DEF Calls
<1>9. Len(chain) \in Nat
  <2>1. Probes[Loop.req] \in Seq(Seq(Hash))
    BY <1>2, ProbeAt DEF CacheInv, FetchPc
  <2>. QED BY <2>1 DEF Members
<1>10. Set("loop", rec)
  BY <1>7
<1> HIDE DEF rec
<1>11. ids \in Seq(Block) /\ Len(ids) = n
  BY <1>9
<1>12. NextFits(ids, chain)
  BY <1>1, <1>7, <1>9, <1>11 DEF Current, NextFits
<1>13. rec.got \o rec.ids = ids
  BY <1>8, <1>11
<1>14. LoopFits(rec)
  BY <1>4, <1>8, <1>12, <1>13 DEF LoopFits, Where, NextFound
<1>. QED BY <1>1, <1>3, <1>10, <1>14, LoopOnly

\* Moving the head of the second to the end of the first.
LEMMA ShiftHead ==
  ASSUME NEW S, NEW s \in Seq(S), NEW t \in Seq(S), t # <<>>
  PROVE  Append(s, Head(t)) \o Tail(t) = s \o t
<1> DEFINE u == Append(s, Head(t)) \o Tail(t)
           v == s \o t
           m == Len(s)
           k == Len(t)
<1>1. /\ Head(t) \in S /\ Tail(t) \in Seq(S) /\ m \in Nat /\ k \in Nat \ {0}
      /\ Len(Tail(t)) = k - 1 /\ Head(t) = t[1]
      /\ \A i \in 1..(k - 1) : Tail(t)[i] = t[i + 1]
  BY HeadTailProperties, EmptySeq, LenProperties
<1>2. /\ Append(s, Head(t)) \in Seq(S) /\ Len(Append(s, Head(t))) = m + 1
      /\ Append(s, Head(t))[m + 1] = t[1] /\ \A i \in 1..m : Append(s, Head(t))[i] = s[i]
  BY <1>1, AppendProperties
<1>3. u \in Seq(S) /\ v \in Seq(S) /\ Len(u) = m + k /\ Len(v) = m + k
  BY <1>1, <1>2, ConcatProperties
<1>4. ASSUME NEW i \in 1..(m + k)
      PROVE  u[i] = v[i]
  <2>1. CASE i <= m
    BY <1>1, <1>2, <2>1, ConcatProperties
  <2>2. CASE i = m + 1
    BY <1>1, <1>2, <2>2, ConcatProperties
  <2>3. CASE i > m + 1
    <3>1. u[i] = Tail(t)[i - (m + 1)]
      BY <1>1, <1>2, <2>3, ConcatProperties
    <3>2. v[i] = t[i - m]
      BY <1>1, <2>3, ConcatProperties
    <3>3. i - (m + 1) \in 1..(k - 1) /\ i - (m + 1) + 1 = i - m
      BY <1>1, <2>3
    <3>. QED BY <1>1, <3>1, <3>2, <3>3
  <2>. QED BY <1>1, <2>1, <2>2, <2>3
<1> HIDE DEF u, v
<1>5. u = v
  BY <1>1, <1>3, <1>4, SeqEqual
<1>. QED BY <1>5 DEF u, v

\* Pinning moves a validated id from one list to the other.
LEMMA PinNextChains ==
  ASSUME CacheInv, [CacheNext]_vars, PinNext
  PROVE  Chains'
<1> DEFINE rec == [Loop EXCEPT !.ids = Tail(@), !.got = Append(@, Head(Loop.ids))]
<1>1. /\ Loop.pc = "pin" /\ UNCHANGED <<stage, tableVars>> /\ Loop \in Calls
      /\ Loop.ids # <<>> /\ Set("loop", rec) /\ Loop.got \in Seq(Block) /\ Loop.ids \in Seq(Block)
  BY CallIs DEF PinNext, CacheInv
<1>2. rec.pc = "pin" /\ rec.got = Append(Loop.got, Head(Loop.ids)) /\ rec.ids = Tail(Loop.ids)
      /\ rec.best = Loop.best /\ rec.req = Loop.req
  BY <1>1 DEF Calls
<1> HIDE DEF rec
<1>3. rec.got \o rec.ids = Loop.got \o Loop.ids
  BY <1>1, <1>2, ShiftHead
<1>4. NextFound(Loop.req, Loop.best) /\ NextFound(Loop.req, Loop.got \o Loop.ids)
  BY <1>1, LoopStays DEF LoopFits, Where, FetchPc
<1>5. LoopFits(rec)
  BY <1>2, <1>3, <1>4 DEF LoopFits, Where
<1>6. \A r \in Req : Backs(Loop, r) => Backs(rec, r)
  BY <1>1 DEF Backs
<1>. QED BY <1>1, <1>5, <1>6, LoopOnly

\* All validated ids are pinned: they are the candidate.
LEMMA PinnedChains ==
  ASSUME CacheInv, [CacheNext]_vars, Pinned
  PROVE  Chains'
<1> DEFINE rec == [Loop EXCEPT !.pc = "compare"]
<1>1. /\ Loop.pc = "pin" /\ UNCHANGED <<stage, tableVars>> /\ Loop \in Calls
      /\ Loop.ids = <<>> /\ Set("loop", rec) /\ Loop.got \in Seq(Block)
  BY CallIs DEF Pinned, CacheInv
<1>2. rec.pc = "compare" /\ rec.got = Loop.got /\ rec.best = Loop.best /\ rec.req = Loop.req
  BY <1>1 DEF Calls
<1> HIDE DEF rec
<1>3. Loop.got \o Loop.ids = Loop.got
  BY <1>1
<1>4. NextFound(Loop.req, Loop.best) /\ NextFound(Loop.req, Loop.got)
  BY <1>1, <1>3, LoopStays DEF LoopFits, Where, FetchPc
<1>5. LoopFits(rec)
  BY <1>2, <1>4 DEF LoopFits, Where
<1>6. \A r \in Req : Backs(Loop, r) => Backs(rec, r)
  BY <1>1 DEF Backs
<1>. QED BY <1>1, <1>5, <1>6, LoopOnly

\* Request q is not what a step is about.
Aside(q) ==
  /\ tbl'[q] = tbl[q] /\ stage'[q] = stage[q]
  /\ GivingBack(q) => GivingBack(q)'
  /\ Filling(q)' => Filling(q)

\* The tables of the other requests still fit.
LEMMA OthersStay ==
  ASSUME CacheInv, [CacheNext]_vars
  PROVE  \A q \in Req : Aside(q) => TableFits(q)'
BY TableStays DEF Aside

\* The table committed is the best candidate.
LEMMA CommitFetchChains ==
  ASSUME CacheInv, [CacheNext]_vars, CommitFetch
  PROVE  Chains'
<1>0. PICK r : r = Loop.req
  OBVIOUS
<1> DEFINE giving == [Idle EXCEPT !.req = r, !.goal = "reject"]
           walk == [giving EXCEPT !.pc = "release", !.ids = Loop.best, !.then = "detach"]
<1>1. /\ Loop.pc = "decide" /\ tbl' = [tbl EXCEPT ![r] = Loop.best]
      /\ \/ stage' = [stage EXCEPT ![r] = "waiting"] /\ Set("loop", Idle)
         \/ Set("loop", walk) /\ UNCHANGED stage
  BY <1>0 DEF CommitFetch, Walking
<1>2. At("loop") = "decide" /\ Where(Loop) = "decide"
  BY <1>1 DEF At, Loop, Where
<1>3. r \in Req /\ stage[r] = "fetching" /\ (\A q \in Req : ~Backs(Loop, q)) /\ Work.req # r
  BY <1>0, <1>2, ProbeAt, OtherRequest DEF CacheInv, Control, LoopTurn, FetchPc
<1>4. NextFound(r, Loop.best)
  BY <1>0, <1>2, LoopStays DEF LoopFits, FetchPc
<1>5. PICK rec : /\ Set("loop", rec) /\ rec \in {Idle, walk}
                 /\ stage' = IF rec = Idle THEN [stage EXCEPT ![r] = "waiting"] ELSE stage
  <2>1. walk # Idle
    BY DEF Idle
  <2>. QED BY <1>1, <2>1
<1>6. rec.pc \in {"idle", "release"} /\ rec.then \in {"idle", "detach"}
  <2>1. walk.pc = "release" /\ walk.then = "detach" /\ Idle.pc = "idle" /\ Idle.then = "idle"
    BY DEF Idle
  <2> HIDE DEF walk
  <2>. QED BY <1>5, <2>1
<1> HIDE DEF giving, walk
<1>7. Loop' = rec /\ Work' = Work
  BY <1>5, SetFacts DEF CacheInv, Control, CacheTypes, Loop, Work, Thread
<1>8. LoopChains'
  BY <1>6, <1>7, LoopFitsNext DEF LoopFits, Where, FetchPc
<1>9. /\ tbl'[r] = Loop.best /\ stage'[r] \in Stages /\ \A q \in Req : q # r => tbl'[q] = tbl[q]
      /\ \A q \in Req : q # r => stage'[q] = stage[q]
  BY <1>1, <1>3, <1>5 DEF CacheInv, Control, CacheTypes, PagedTypeOK, Stages
<1>10. \A q \in Req : (GivingBack(q) => GivingBack(q)') /\ (Filling(q)' => Filling(q))
  BY <1>3, <1>7, GivingBackIs DEF Filling
<1>11. TableFits(r)'
  <2>1. ~Filling(r)'
    BY <1>3, <1>7 DEF Filling
  <2>2. NextFound(r, tbl'[r])
    BY <1>4, <1>9
  <2>. QED BY <2>1, <2>2, TableFitsNext
<1>12. \A q \in Req : q # r => TableFits(q)'
  BY <1>9, <1>10, OthersStay DEF Aside
<1>13. WorkChains'
  BY <1>3, <1>7, <1>9, WorkStays, WorkFitsNext
<1>. QED BY <1>8, <1>11, <1>12, <1>13 DEF Chains

\* An empty table fits whatever it is for.
LEMMA EmptyTable ==
  ASSUME NEW r \in Req, tbl'[r] = <<>>
  PROVE  TableFits(r)'
BY EmptyFits, TableFitsNext

\* An aborted request has no table, and the worker is not reading it.
LEMMA AbortChains ==
  ASSUME CacheInv, [CacheNext]_vars, NEW r \in Req, Abort(r)
  PROVE  Chains'
<1> DEFINE rec == [Idle EXCEPT !.pc = "free", !.ids = tbl[r]]
<1>1. /\ Loop.pc = "idle" /\ stage[r] \in {"waiting", "running"}
      /\ tbl' = [tbl EXCEPT ![r] = <<>>]
      /\ \/ UNCHANGED job
         \/ Set("loop", rec)
  BY DEF Abort, FreeTables
<1>2. PICK s \in {"idle", "salvage"} : stage' = [stage EXCEPT ![r] = s]
  BY DEF Abort
<1>3. rec.pc = "free" /\ rec.goal = "none"
  BY DEF Idle
<1> HIDE DEF rec
<1>4. Work' = Work /\ (Loop' = Loop \/ Loop' = rec)
  BY <1>1, SetFacts DEF CacheInv, Control, CacheTypes, Loop, Work, Thread
<1>5. Work.req # r
  BY <1>1, WorkAt DEF CacheInv
<1>6. tbl'[r] = <<>> /\ \A q \in Req : q # r => tbl'[q] = tbl[q] /\ stage'[q] = stage[q]
  BY <1>1, <1>2 DEF CacheInv, Control, CacheTypes, PagedTypeOK
<1>7. \A q \in Req : (GivingBack(q) => GivingBack(q)') /\ (Filling(q)' => Filling(q))
  BY <1>1, <1>3, <1>4, GivingBackIs DEF Filling, Backs
<1>8. \A q \in Req : TableFits(q)'
  BY <1>6, <1>7, EmptyTable, OthersStay DEF Aside
<1>9. WorkChains'
  BY <1>4, <1>5, <1>6, WorkStays, WorkFitsNext
<1>10. LoopFits(rec)
  BY <1>3 DEF LoopFits, Where, FetchPc
<1>11. LoopChains'
  BY <1>4, <1>10, LoopStays, LoopFitsNext
<1>. QED BY <1>8, <1>9, <1>11 DEF Chains

\* A detached table is empty: it fits what the request does next.
LEMMA DetachChains ==
  ASSUME CacheInv, [CacheNext]_vars, NEW a \in Thread, Detach(a)
  PROVE  Chains'
<1>0. PICK r : r = job[a].req
  OBVIOUS
<1> DEFINE goal == job[a].goal
           rec == IF goal = "store" THEN [Idle EXCEPT !.pc = "dedup", !.req = r] ELSE Idle
<1>1. /\ job[a].pc = "detach" /\ Set(a, rec) /\ tbl' = [tbl EXCEPT ![r] = <<>>]
      /\ \E s : stage' = [stage EXCEPT ![r] = s]
  BY <1>0 DEF Detach
<1>2. rec.pc \in {"idle", "dedup"} /\ (rec.pc = "dedup" => rec.req = r)
  BY DEF Idle
<1> HIDE DEF rec, goal
<1>3. At(a) = "detach"
  BY <1>1 DEF At
<1>4. r \in Req /\ (a = "loop" => stage[r] = "fetching")
  BY <1>0, <1>3 DEF CacheInv, Control, LoopTurn, WorkTurn, Loop, Work, Thread
<1>5. /\ tbl'[r] = <<>>
      /\ \A q \in Req : q # r => tbl'[q] = tbl[q] /\ stage'[q] = stage[q]
  BY <1>1, <1>4 DEF CacheInv, Control, CacheTypes, PagedTypeOK
<1>6. /\ job'[a] = rec /\ \A c \in Thread : c # a => job'[c] = job[c]
  BY <1>1, SetFacts DEF CacheInv, Control, CacheTypes
<1>7. \A q \in Req : q # r => ~Backs(job[a], q)
  BY <1>0 DEF Backs
<1>8. CASE a = "loop"
  <2>1. Loop' = rec /\ Work' = Work /\ Loop = job[a] /\ Work.req # r
    BY <1>4, <1>6, <1>8, WorkAt DEF Loop, Work, Thread, CacheInv
  <2>2. \A q \in Req : q # r => (GivingBack(q) => GivingBack(q)') /\ (Filling(q)' => Filling(q))
    BY <1>7, <2>1, GivingBackIs DEF Filling
  <2>3. \A q \in Req : TableFits(q)'
    BY <1>5, <2>2, EmptyTable, OthersStay DEF Aside
  <2>4. LoopChains'
    BY <1>2, <2>1, LoopFitsNext DEF LoopFits, Where, FetchPc
  <2>5. WorkChains'
    BY <1>5, <2>1, WorkStays, WorkFitsNext
  <2>. QED BY <2>3, <2>4, <2>5 DEF Chains
<1>9. CASE a = "work"
  <2>1. Work' = rec /\ Loop' = Loop /\ Work = job[a]
    BY <1>6, <1>9 DEF Loop, Work, Thread
  <2>2. \A q \in Req : q # r => (GivingBack(q) => GivingBack(q)') /\ (Filling(q)' => Filling(q))
    BY <1>2, <1>7, <2>1, GivingBackIs DEF Filling
  <2>3. \A q \in Req : TableFits(q)'
    BY <1>5, <2>2, EmptyTable, OthersStay DEF Aside
  <2>4. LoopChains'
    BY <2>1, LoopStays, LoopFitsNext
  <2>5. WorkChains'
    BY <1>2, <2>1, WorkFitsNext DEF WorkFits, RestorePc
  <2>. QED BY <2>3, <2>4, <2>5 DEF Chains
<1>. QED BY <1>8, <1>9 DEF Thread

\* A walk takes a step.
LEMMA WalkChains ==
  ASSUME CacheInv, [CacheNext]_vars, FreeNext \/ \E a \in Thread : ReleaseNext(a)
  PROVE  Chains'
<1>1. PICK a \in Thread :
        /\ job[a].pc \in {"release", "free"}
        /\ Set(a, [job[a] EXCEPT !.ids = Tail(@)]) /\ UNCHANGED <<tableVars, stage>>
  BY DEF FreeNext, ReleaseNext, Thread, Loop
<1> DEFINE rec == [job[a] EXCEPT !.ids = Tail(@)]
<1>2. /\ rec.pc = job[a].pc /\ rec.req = job[a].req /\ rec.goal = job[a].goal
      /\ rec.then = job[a].then /\ rec.got = job[a].got /\ rec.best = job[a].best
      /\ rec.n = job[a].n /\ rec.pay = job[a].pay
  <2>1. job[a] \in Calls
    BY DEF CacheInv, Control, CacheTypes
  <2>. QED BY <2>1 DEF Calls
<1>3. Set(a, rec)
  BY <1>1
<1> HIDE DEF rec
<1>4. \A r \in Req : Backs(job[a], r) => Backs(rec, r)
  BY <1>2 DEF Backs
<1>5. CASE a = "loop"
  <2>1. LoopFits(rec)
    BY <1>1, <1>2, <1>5, LoopStays DEF LoopFits, Where, Loop
  <2>. QED BY <1>1, <1>3, <1>4, <1>5, <2>1, LoopOnly DEF Loop
<1>6. CASE a = "work"
  <2>1. WorkFits(rec) /\ \A r \in Req : Fills(rec, r) => Fills(job[a], r)
    BY <1>1, <1>2 DEF WorkFits, RestorePc, Fills
  <2>. QED BY <1>1, <1>3, <1>4, <1>6, <2>1, WorkOnly DEF Work
<1>. QED BY <1>5, <1>6 DEF Thread

\* A finished walk leads to a lookup, a match, a decision or a detach.
LEMMA WalkEndChains ==
  ASSUME CacheInv, [CacheNext]_vars, NEW a \in Thread, WalkEnd(a)
  PROVE  Chains'
<1> DEFINE rec == [job[a] EXCEPT !.pc = job[a].then, !.then = "idle"]
<1>1. /\ job[a].pc \in {"release", "free"} /\ Set(a, rec) /\ UNCHANGED <<stage, tableVars>>
  BY DEF WalkEnd
<1>2. job[a] \in Calls
  BY DEF CacheInv, Control, CacheTypes
<1>3. /\ rec.pc = job[a].then /\ rec.req = job[a].req /\ rec.goal = job[a].goal
      /\ rec.got = job[a].got /\ rec.best = job[a].best /\ rec.n = job[a].n
      /\ rec.pay = job[a].pay
  BY <1>2 DEF Calls
<1> HIDE DEF rec
<1>4. /\ job[a].then \in {"idle", "probe", "match", "decide", "detach"}
      /\ job[a].goal # "none" => job[a].pc = "release" /\ job[a].then = "detach"
      /\ job[a].pc = "free" => job[a].then = "idle"
  BY <1>1, <1>2 DEF CacheInv, Control, LoopTurn, WorkTurn, At, Loop, Work, Thread, FetchPc,
                    RestorePc, StorePc, Calls
<1>5. \A r \in Req : Backs(job[a], r) => Backs(rec, r)
  BY <1>3, <1>4 DEF Backs
<1>6. CASE a = "loop"
  <2>1. Loop = job[a] /\ rec.pc \in {"idle", "probe", "match", "decide", "detach"}
    BY <1>3, <1>4, <1>6 DEF Loop
  <2>2. Where(rec) \in FetchPc => Where(rec) = Where(Loop)
    BY <1>1, <1>3, <1>4, <2>1 DEF Where, FetchPc
  <2>3. LoopFits(rec)
    BY <1>3, <2>1, <2>2, LoopStays DEF LoopFits, FetchPc
  <2>. QED BY <1>1, <1>5, <1>6, <2>1, <2>3, LoopOnly
<1>7. CASE a = "work"
  <2>1. WorkFits(rec) /\ \A r \in Req : Fills(rec, r) => Fills(job[a], r)
    BY <1>3, <1>4 DEF WorkFits, RestorePc, Fills
  <2>. QED BY <1>1, <1>5, <1>7, <2>1, WorkOnly DEF Work
<1>. QED BY <1>6, <1>7 DEF Thread

-----------------------------------------------------------------------------
(* The worker.                                                             *)

\* The worker's call goes on, or a new one starts.
LEMMA WorkMoves ==
  ASSUME CacheInv, [CacheNext]_vars, NEW rec, Set("work", rec), tbl' = tbl, WorkFits(rec),
         \A r \in Req : (stage[r] \in {"waiting", "restoring"})'
                          => stage[r] \in {"waiting", "restoring"},
         \A r \in Req : Backs(Work, r) => Backs(rec, r),
         \A r \in Req : Fills(rec, r) => Fills(Work, r)
  PROVE  Chains'
<1>1. Work' = rec /\ Loop' = Loop
  BY SetFacts DEF CacheInv, Control, CacheTypes, Loop, Work, Thread
<1>2. \A r \in Req : /\ GivingBack(r) => GivingBack(r)'
                     /\ Filling(r)' => Filling(r)
  BY <1>1, GivingBackIs DEF Filling, Fills
<1>3. \A r \in Req : TableFits(r)'
  BY <1>2, TableStays
<1>4. LoopChains'
  BY <1>1, LoopStays, LoopFitsNext
<1>5. WorkChains'
  BY <1>1, WorkFitsNext
<1>. QED BY <1>3, <1>4, <1>5 DEF Chains

\* A restore starts with nothing read.
LEMMA StartRestoreChains ==
  ASSUME CacheInv, [CacheNext]_vars, NEW r \in Req, StartRestore(r)
  PROVE  Chains'
<1> DEFINE rec == [Idle EXCEPT !.pc = "restore", !.req = r]
<1>1. /\ Work.pc = "idle" /\ stage[r] = "waiting" /\ tbl' = tbl
      /\ \/ stage' = [stage EXCEPT ![r] = "running"] /\ UNCHANGED job
         \/ stage' = [stage EXCEPT ![r] = "restoring"] /\ Set("work", rec)
  BY DEF StartRestore, tableVars
<1>2. rec.pc = "restore" /\ rec.pay = <<>>
  BY DEF Idle
<1>3. WorkFits(rec)
  BY <1>2 DEF WorkFits
<1>4. \A q \in Req : (stage[q] \in {"waiting", "restoring"})'
                       => stage[q] \in {"waiting", "restoring"}
  BY <1>1 DEF CacheInv, Control, CacheTypes, PagedTypeOK
<1> HIDE DEF rec
<1>5. CASE Set("work", rec)
  BY <1>1, <1>2, <1>3, <1>4, <1>5, WorkMoves DEF Backs, Fills
<1>6. CASE UNCHANGED job
  <2>1. Work' = Work /\ Loop' = Loop
    BY <1>6 DEF Work, Loop
  <2>2. \A q \in Req : (GivingBack(q) => GivingBack(q)') /\ (Filling(q)' => Filling(q))
    BY <2>1, GivingBackIs DEF Filling
  <2>3. \A q \in Req : TableFits(q)'
    BY <1>1, <1>4, <2>2, TableStays
  <2>. QED BY <1>1, <2>1, <2>3, LoopStays, LoopFitsNext, WorkStays, WorkFitsNext DEF Chains
<1>. QED BY <1>1, <1>5, <1>6

\* The next block of the table is one a lookup matched.
LEMMA RestoringHash ==
  ASSUME CacheInv, Work.pc = "restore", ~Restored
  PROVE  /\ hash[Restoring] \in Hash /\ Restoring \in Block
         /\ Work.pay \in Seq(Payload) /\ Restoring = tbl[Work.req][Len(Work.pay) + 1]
<1>1. At("work") = "restore"
  BY DEF At, Work
<1>2. /\ Work.req \in Req /\ stage[Work.req] = "restoring"
      /\ Len(Work.pay) <= Len(tbl[Work.req]) /\ NoReq \notin Req
  BY <1>1, WorkAt DEF CacheInv, Control, WorkTurn, RestorePc
<1>3. ~GivingBack(Work.req)
  <2>1. ~Backs(Work, Work.req)
    BY DEF Backs
  <2>2. Loop.req # Work.req
    BY <1>2, WorkAt DEF CacheInv
  <2>. QED BY <2>1, <2>2, GivingBackIs DEF Backs
<1>4. Found(Work.req, tbl[Work.req])
  BY <1>2, <1>3 DEF CacheInv, Chains, TableFits
<1>5. PICK chain \in Members(Probes[Work.req]) : Fits(tbl[Work.req], chain)
  BY <1>4 DEF Found
<1>6. chain \in Seq(Hash)
  <2>1. Probes[Work.req] \in Seq(Seq(Hash))
    BY <1>2, CacheAssumption
  <2>. QED BY <2>1 DEF Members
<1>7. Work.pay \in Seq(Payload) /\ tbl[Work.req] \in Seq(Block)
  BY <1>2, CallIs DEF CacheInv, Control, CacheTypes
<1>8. Len(Work.pay) + 1 \in 1..Len(tbl[Work.req])
  BY <1>2, <1>7 DEF Restored
<1>9. hash[Restoring] = chain[Len(Work.pay) + 1] /\ Len(Work.pay) + 1 \in 1..Len(chain)
  BY <1>5, <1>6, <1>8 DEF Fits, Restoring
<1>. QED BY <1>6, <1>7, <1>8, <1>9 DEF Restoring

\* Its payload goes with the ones read so far.
LEMMA RestoredMore ==
  ASSUME CacheInv, [CacheNext]_vars, Work.pc = "restore", ~Restored,
         UNCHANGED <<hash, tbl, stage, tableVars>>, NEW rec, Set("work", rec),
         rec.pay = Append(Work.pay, hash[Restoring]), rec.req = Work.req,
         rec.pc \in RestorePc
  PROVE  Chains'
<1> DEFINE m == Len(Work.pay)
           p == Append(Work.pay, hash[Restoring])
<1>1. /\ m \in Nat /\ Len(p) = m + 1 /\ p[m + 1] = hash[Restoring]
      /\ \A i \in 1..m : p[i] = Work.pay[i]
      /\ Restoring = tbl[Work.req][m + 1]
  <2>1. /\ Work.pay \in Seq(Payload) /\ hash[Restoring] \in Payload
        /\ Restoring = tbl[Work.req][m + 1]
    BY RestoringHash DEF Payload
  <2>. QED BY <2>1, AppendProperties, LenProperties
<1>2. \A i \in 1..m : Work.pay[i] = hash'[tbl'[Work.req][i]]
  BY WorkStays DEF WorkFits, RestorePc
<1>3. rec.pay = p
  OBVIOUS
<1> HIDE DEF m, p
<1>4. \A i \in 1..Len(p) : i \in 1..m \/ i = m + 1
  BY <1>1
<1>5. p[m + 1] = hash'[tbl'[Work.req][m + 1]]
  BY <1>1
<1>6. \A i \in 1..Len(p) : p[i] = hash'[tbl'[Work.req][i]]
  BY <1>1, <1>2, <1>4, <1>5
<1>7. WorkFits(rec)
  BY <1>3, <1>6 DEF WorkFits
<1>8. /\ \A r \in Req : Backs(Work, r) => Backs(rec, r)
      /\ \A r \in Req : Fills(rec, r) => Fills(Work, r)
  BY DEF Backs, Fills, RestorePc
<1>. QED BY <1>7, <1>8, WorkOnly

\* A payload in RAM belongs to its block's hash.
LEMMA RestoreHitChains ==
  ASSUME CacheInv, [CacheNext]_vars, RestoreHit
  PROVE  Chains'
<1>1. /\ Work.pc = "restore" /\ ~Restored /\ data[Restoring] # NoHash
      /\ UNCHANGED <<hash, stage, tableVars, tbl>>
  BY DEF RestoreHit, blockVars, tableVars
<1>2. data[Restoring] = hash[Restoring]
  BY <1>1, RestoringHash, CacheAssumption DEF CacheInv, PayloadMatchesHash
<1>3. PICK S : Set("work", [Work EXCEPT !.pay = Append(@, data[Restoring]), !.seen = S])
  BY DEF RestoreHit
<1> DEFINE rec == [Work EXCEPT !.pay = Append(@, data[Restoring]), !.seen = S]
<1>4. rec.pay = Append(Work.pay, data[Restoring]) /\ rec.req = Work.req /\ rec.pc = Work.pc
  BY CallIs DEF Calls, CacheInv
<1>5. Set("work", rec)
  BY <1>3
<1> HIDE DEF rec
<1>. QED BY <1>1, <1>2, <1>4, <1>5, RestoredMore DEF RestorePc

\* A payload in L2 belongs to the hash it is read by.
LEMMA RestoreReadChains ==
  ASSUME CacheInv, [CacheNext]_vars, RestoreRead
  PROVE  Chains'
<1> DEFINE rec == [Work EXCEPT !.pc = "hydrate", !.pay = Append(@, l2[hash[Restoring]])]
<1>1. /\ Work.pc = "restore" /\ ~Restored /\ Readable(hash[Restoring])
      /\ UNCHANGED <<hash, stage, tableVars, tbl>> /\ Set("work", rec)
  BY DEF RestoreRead, blockVars, tableVars
<1>2. l2[hash[Restoring]] = hash[Restoring]
  BY <1>1, RestoringHash DEF CacheInv, PayloadMatchesHash, Readable
<1>3. rec.pay = Append(Work.pay, l2[hash[Restoring]]) /\ rec.req = Work.req /\ rec.pc = "hydrate"
  BY CallIs DEF Calls, CacheInv
<1> HIDE DEF rec
<1>. QED BY <1>1, <1>2, <1>3, RestoredMore DEF RestorePc

\* Steps that keep what has been read.
LEMMA RestoringChains ==
  ASSUME CacheInv, [CacheNext]_vars, Hydrate \/ RestoreDone \/ SettleNext
  PROVE  Chains'
<1>1. Work.pc \in RestorePc /\ UNCHANGED <<stage, tableVars, tbl>>
  BY DEF Hydrate, RestoreDone, SettleNext, RestorePc, tableVars
<1>2. PICK p, S : p \in RestorePc /\ Set("work", [Work EXCEPT !.pc = p, !.seen = S])
  <2>2. CASE Hydrate
    <3>1. PICK S : Set("work", [Work EXCEPT !.pc = "restore", !.seen = S])
      BY <2>2 DEF Hydrate
    <3>2. "restore" \in RestorePc
      BY DEF RestorePc
    <3>. QED BY <3>1, <3>2
  <2>3. CASE RestoreDone
    <3>1. [Work EXCEPT !.pc = "settle"] = [Work EXCEPT !.pc = "settle", !.seen = Work.seen]
      BY CallIs DEF Calls, CacheInv
    <3>2. Set("work", [Work EXCEPT !.pc = "settle", !.seen = Work.seen])
      BY <2>3, <3>1 DEF RestoreDone
    <3>3. "settle" \in RestorePc
      BY DEF RestorePc
    <3>. QED BY <3>2, <3>3
  <2>4. CASE SettleNext
    <3>1. PICK S : Set("work", [Work EXCEPT !.seen = S])
      BY <2>4 DEF SettleNext
    <3>2. [Work EXCEPT !.seen = S] = [Work EXCEPT !.pc = Work.pc, !.seen = S]
      BY CallIs DEF Calls, CacheInv
    <3>. QED BY <1>1, <3>1, <3>2
  <2>. QED BY <2>2, <2>3, <2>4
<1> DEFINE rec == [Work EXCEPT !.pc = p, !.seen = S]
<1>3. rec.pay = Work.pay /\ rec.req = Work.req /\ rec.pc = p
  BY CallIs DEF Calls, CacheInv
<1>4. Set("work", rec)
  BY <1>2
<1> HIDE DEF rec
<1>5. WorkFits(rec)
  BY <1>1, <1>3, WorkStays DEF WorkFits
<1>6. /\ \A r \in Req : Backs(Work, r) => Backs(rec, r)
      /\ \A r \in Req : Fills(rec, r) => Fills(Work, r)
  BY <1>1, <1>2, <1>3 DEF Backs, Fills, RestorePc
<1>. QED BY <1>1, <1>4, <1>5, <1>6, WorkOnly

\* The worker leaves a call, or starts to give a table back.
LEMMA WorkLeaves ==
  ASSUME CacheInv, [CacheNext]_vars, NEW rec, Set("work", rec), tbl' = tbl,
         rec.pc \in {"idle", "release", "detach"}, Work.pc \notin {"release", "detach"},
         \A r \in Req : (stage[r] \in {"waiting", "restoring"})'
                          => stage[r] \in {"waiting", "restoring"}
  PROVE  Chains'
<1>1. WorkFits(rec)
  BY DEF WorkFits, RestorePc
<1>2. /\ \A r \in Req : Backs(Work, r) => Backs(rec, r)
      /\ \A r \in Req : Fills(rec, r) => Fills(Work, r)
  BY DEF Backs, Fills
<1>. QED BY <1>1, <1>2, WorkMoves

\* A restore ends.
LEMMA SettleEndChains ==
  ASSUME CacheInv, [CacheNext]_vars, SettleEnd
  PROVE  Chains'
<1> DEFINE r == Work.req
           walk == [[Idle EXCEPT !.req = r, !.goal = "cold"] EXCEPT
                       !.pc = "release", !.ids = tbl[r], !.then = "detach"]
<1>1. Work.pc = "settle" /\ tbl' = tbl
  BY DEF SettleEnd, tableVars
<1>2. CASE Restored
  <2>1. Set("work", Idle) /\ \E s \in {"ghost", "running"} : stage' = [stage EXCEPT ![r] = s]
    BY <1>2 DEF SettleEnd
  <2>2. \A q \in Req : (stage[q] \in {"waiting", "restoring"})'
                         => stage[q] \in {"waiting", "restoring"}
    BY <2>1 DEF CacheInv, Control, CacheTypes, PagedTypeOK
  <2>3. Idle.pc = "idle"
    BY DEF Idle
  <2>. QED BY <1>1, <2>1, <2>2, <2>3, WorkLeaves
<1>3. CASE ~Restored
  <2>1. Set("work", walk) /\ UNCHANGED stage
    BY <1>3 DEF SettleEnd, Walking
  <2>2. walk.pc = "release"
    BY DEF Idle
  <2> HIDE DEF walk
  <2>. QED BY <1>1, <2>1, <2>2, WorkLeaves
<1>. QED BY <1>2, <1>3

\* A store starts or ends by giving a table back.
LEMMA StoreEndsChains ==
  ASSUME CacheInv, [CacheNext]_vars,
         (\E r \in Req : StartStore(r) \/ StartSalvage(r)) \/ PostStore
  PROVE  Chains'
<1>1. PICK rec : Set("work", rec) /\ rec.pc \in {"release", "detach"}
  <2>1. ASSUME NEW r, NEW goal, GiveBack(r, goal)
        PROVE  \E rec : Set("work", rec) /\ rec.pc \in {"release", "detach"}
    <3> DEFINE walk == [[Idle EXCEPT !.req = r, !.goal = goal] EXCEPT
                          !.pc = "release", !.ids = tbl[r], !.then = "detach"]
               at == [[Idle EXCEPT !.req = r, !.goal = goal] EXCEPT !.pc = "detach"]
    <3>1. Set("work", walk) \/ Set("work", at)
      BY <2>1 DEF GiveBack, Walking
    <3>2. walk.pc = "release" /\ at.pc = "detach"
      BY DEF Idle
    <3> HIDE DEF walk, at
    <3>. QED BY <3>1, <3>2
  <2>2. ASSUME NEW r, StartSalvage(r)
        PROVE  \E rec : Set("work", rec) /\ rec.pc \in {"release", "detach"}
    <3>1. [Idle EXCEPT !.pc = "detach", !.req = r, !.goal = "store"].pc = "detach"
      BY DEF Idle
    <3>. QED BY <2>2, <3>1 DEF StartSalvage
  <2>. QED BY <2>1, <2>2 DEF StartStore, PostStore
<1>2. /\ Work.pc \in {"idle", "stored"} /\ tbl' = tbl
      /\ \/ UNCHANGED stage
         \/ \E r \in Req : stage' = [stage EXCEPT ![r] = "storing"]
  BY DEF StartStore, StartSalvage, PostStore, tableVars
<1>3. \A q \in Req : (stage[q] \in {"waiting", "restoring"})'
                       => stage[q] \in {"waiting", "restoring"}
  BY <1>2 DEF CacheInv, Control, CacheTypes, PagedTypeOK
<1>. QED BY <1>1, <1>2, <1>3, WorkLeaves

\* A block of the next hash joins the table being stored.
LEMMA StoredFits ==
  ASSUME CacheInv, [CacheNext]_vars, NEW b \in Block, hash'[b] = NextHash, ~StoreDone,
         Work.pc \in {"dedup", "alloc"}, Appended(b), stage' = stage, Loop' = Loop,
         NEW rec, Work' = rec, rec.req = Work.req, rec.pc \in {"dedup", "register"}
  PROVE  Chains'
<1>1. PICK r : r = Work.req
  OBVIOUS
<1>2. PICK chain : chain = StoreChain[r]
  OBVIOUS
<1>3. /\ r \in Req /\ stage[r] \in {"storing", "salvage"} /\ tbl[r] \in Seq(Block)
      /\ Len(tbl[r]) \in Nat /\ Len(chain) \in Nat /\ Len(tbl[r]) + 1 <= Len(chain)
  BY <1>1, <1>2, StoreAt DEF CacheInv
<1>4. /\ tbl'[r] = Append(tbl[r], b) /\ hash'[b] = chain[Len(tbl[r]) + 1]
      /\ \A q \in Req : q # r => tbl'[q] = tbl[q]
  BY <1>1, <1>2, <1>3 DEF Appended, NextHash, CacheInv, Control, CacheTypes
<1>5. NextFits(tbl[r], chain)
  <2>1. Filling(r)
    BY <1>1 DEF Filling
  <2>2. Kept(tbl[r]) /\ Fits(tbl[r], chain)
    BY <1>2, <1>3, <2>1, TablesKept DEF CacheInv, Chains, TableFits
  <2>. QED BY <2>2, KeptFits
<1>6. NextFits(Append(tbl[r], b), chain)
  <2> DEFINE t == Append(tbl[r], b)
             m == Len(tbl[r])
  <2>1. Len(t) = m + 1 /\ t[m + 1] = b /\ (\A i \in 1..m : t[i] = tbl[r][i])
    BY <1>3, AppendProperties
  <2>2. hash'[b] = chain[m + 1] /\ m \in Nat /\ Len(chain) \in Nat /\ m + 1 <= Len(chain)
    BY <1>3, <1>4
  <2>3. \A i \in 1..m : hash'[tbl[r][i]] = chain[i]
    BY <1>5 DEF NextFits
  <2> HIDE DEF t, m
  <2>4. \A i \in 1..Len(t) : i \in 1..m \/ i = m + 1
    BY <2>1, <2>2
  <2>5. NextFits(t, chain)
    BY <2>1, <2>2, <2>3, <2>4 DEF NextFits
  <2>. QED BY <2>5 DEF t
<1>7. TableFits(r)'
  <2>1. (stage[r] \in {"waiting", "restoring"})' => FALSE
    BY <1>3
  <2>2. NextFits(tbl'[r], StoreChain[r])
    BY <1>2, <1>4, <1>6
  <2>. QED BY <2>1, <2>2, TableFitsNext
<1>8. \A q \in Req : /\ GivingBack(q) => GivingBack(q)'
                     /\ Filling(q)' => Filling(q)
  BY GivingBackIs DEF Backs, Filling
<1>9. \A q \in Req : TableFits(q)'
  BY <1>4, <1>7, <1>8, OthersStay DEF Aside
<1>10. WorkChains'
  BY WorkFitsNext DEF WorkFits, RestorePc
<1>11. LoopChains'
  BY LoopStays, LoopFitsNext
<1>. QED BY <1>9, <1>10, <1>11 DEF Chains

\* The block shared has the next hash, since the index is sound.
LEMMA DedupChains ==
  ASSUME CacheInv, [CacheNext]_vars, Dedup
  PROVE  Chains'
<1>1. /\ Work.pc = "dedup" /\ ~StoreDone /\ hash' = hash /\ stage' = stage
      /\ Work' = Work /\ Loop' = Loop
  BY DEF Dedup, blockVars, Work, Loop
<1>2. PICK b \in Find(NextHash) : Appended(b)
  BY DEF Dedup
<1>3. b \in Block /\ hash'[b] = NextHash
  BY <1>1, StoreAt DEF Find, CacheInv, IndexInv, IndexSound
<1>. QED BY <1>1, <1>2, <1>3, StoredFits

\* The block allocated gets the next hash.
LEMMA AllocChains ==
  ASSUME CacheInv, [CacheNext]_vars, Alloc
  PROVE  Chains'
<1> DEFINE rec == [Work EXCEPT !.pc = "register"]
<1>1. Work.pc = "alloc" /\ Set("work", rec) /\ stage' = stage
  BY DEF Alloc
<1>2. PICK k \in 0..(Len(queue) - 1) :
        /\ TakeFor(k, NextHash, IF frugal THEN NoHash ELSE NextHash, FALSE, FALSE)
        /\ Appended(queue[k + 1])
  BY DEF Alloc
<1>3. queue[k + 1] \in Block
  BY <1>2, TakeCounts DEF CacheInv
<1>4. hash' = [hash EXCEPT ![queue[k + 1]] = NextHash] /\ hash \in [Block -> Payload]
  BY <1>2 DEF TakeFor, CacheInv, Control, CacheTypes, PagedTypeOK
<1>5. hash'[queue[k + 1]] = NextHash
  BY <1>3, <1>4
<1>6. ~StoreDone
  BY <1>1 DEF CacheInv, Control, WorkTurn, At, Work
<1>7. Work' = rec /\ Loop' = Loop
  BY <1>1, SetFacts DEF CacheInv, Control, CacheTypes, Loop, Work, Thread
<1>8. rec.req = Work.req /\ rec.pc = "register"
  BY CallIs DEF Calls, CacheInv
<1> HIDE DEF rec
<1>. QED BY <1>1, <1>2, <1>3, <1>5, <1>6, <1>7, <1>8, StoredFits

\* Steps of a store that leave the table as it is.
LEMMA StoreGoesOnChains ==
  ASSUME CacheInv, [CacheNext]_vars, NoDuplicate \/ AllocFails \/ Register \/ Publish
  PROVE  Chains'
<1>1. PICK p \in {"alloc", "publish", "dedup", "stored"} : Set("work", [Work EXCEPT !.pc = p])
  BY DEF NoDuplicate, AllocFails, Register, Publish
<1>2. Work.pc \in {"dedup", "alloc", "register", "publish"} /\ UNCHANGED <<stage, tbl>>
  BY DEF NoDuplicate, AllocFails, Register, Publish, tableVars
<1> DEFINE rec == [Work EXCEPT !.pc = p]
<1>3. rec.pc = p /\ rec.req = Work.req /\ rec.goal = Work.goal /\ Set("work", rec)
  BY <1>1, CallIs DEF Calls, CacheInv
<1> HIDE DEF rec
<1>4. WorkFits(rec)
  BY <1>3 DEF WorkFits, RestorePc
<1>5. /\ \A r \in Req : Backs(Work, r) => Backs(rec, r)
      /\ \A r \in Req : Fills(rec, r) => Fills(Work, r)
  BY <1>2, <1>3 DEF Backs, Fills
<1>. QED BY <1>2, <1>3, <1>4, <1>5, WorkMoves

\* Initially nothing is held and nothing is read.
LEMMA ChainsInit ==
  ASSUME CacheInit
  PROVE  Chains
<1>1. Loop = Idle /\ Work = Idle
  BY DEF CacheInit, Loop, Work, Thread
<1>2. Idle.pc = "idle" /\ At("loop") = "idle"
  BY <1>1 DEF Idle, At, Loop
<1>. QED BY <1>1, <1>2
     DEF Chains, LoopChains, TableFits, WorkChains, Filling, CacheInit, FetchPc, RestorePc

\* What blocks and payloads belong to is kept by every step.
LEMMA ChainsStep ==
  ASSUME CacheInv, [CacheNext]_vars
  PROVE  Chains'
<1>1. CASE UNCHANGED vars \/ Environment \/ Clear
  BY <1>1, NeitherCall DEF vars, tableVars, Environment, EvictPayload, PublishWrite, LoseWrite,
                           EvictL2, Clear
<1>2. CASE Fetching
  BY <1>2, StartFetchChains, LookupHitChains, LookupMissChains, PromoteChains, CompareChains,
     MatchIndexChains, PinNextChains, PinnedChains, CommitFetchChains DEF Fetching
<1>3. CASE Ending
  BY <1>3, AbortChains, WalkChains, WalkEndChains, DetachChains DEF Ending
<1>4. CASE RestoringSteps
  BY <1>4, StartRestoreChains, RestoreHitChains, RestoreReadChains, RestoringChains,
     SettleEndChains DEF RestoringSteps
<1>5. CASE StoringSteps
  BY <1>5, StoreEndsChains, DedupChains, AllocChains, StoreGoesOnChains DEF StoringSteps
<1>. QED BY <1>1, <1>2, <1>3, <1>4, <1>5 DEF CacheNext, Serving

-----------------------------------------------------------------------------
(* Payloads belong to the hashes they are kept under.                      *)

\* What is written through to L2 belongs to the hash it is written under.
LEMMA WriteThroughFits ==
  ASSUME Control, PayloadMatchesHash, NEW b \in Block
  PROVE  \A h \in Hash : WriteThrough(b)[h] \in {NoHash, h}
<1>1. /\ hash[b] # NoHash => hash[b] \in Hash /\ data[b] \in {NoHash, hash[b]}
      /\ flight \in [Hash -> Payload] /\ \A h \in Hash : flight[h] \in {NoHash, h}
  BY DEF Control, CacheTypes, PagedTypeOK, Payload, PayloadMatchesHash
<1>. QED BY <1>1 DEF WriteThrough, MayRefuse

\* A step that touches no hash and no payload.
LEMMA PayloadStays ==
  ASSUME PayloadMatchesHash, UNCHANGED <<hash, data, flight, l2>>
  PROVE  PayloadMatchesHash'
BY DEF PayloadMatchesHash

\* A block given a new hash gets that hash's payload, or none; its old one is
\* written through under the old hash.
LEMMA TakePayload ==
  ASSUME PoolInv, Control, PayloadMatchesHash, NEW k \in 0..(Len(queue) - 1), NEW h \in Hash,
         NEW payload \in {NoHash, h}, NEW fromDisk, NEW transient,
         TakeFor(k, h, payload, fromDisk, transient), l2' = l2
  PROVE  PayloadMatchesHash'
<1>0. PICK b : b = queue[k + 1]
  OBVIOUS
<1>1. b \in Block
  BY <1>0, TakeCounts
<1>2. /\ hash' = [hash EXCEPT ![b] = h] /\ data' = [data EXCEPT ![b] = payload]
      /\ flight' = WriteThrough(b)
  BY <1>0 DEF TakeFor
<1>3. hash \in [Block -> Payload] /\ data \in [Block -> Payload]
  BY DEF Control, CacheTypes, PagedTypeOK
<1>4. \A c \in Block : hash'[c] # NoHash => data'[c] \in {NoHash, hash'[c]}
  BY <1>1, <1>2, <1>3 DEF PayloadMatchesHash
<1>5. \A g \in Hash : flight'[g] \in {NoHash, g}
  BY <1>1, <1>2, WriteThroughFits
<1>. QED BY <1>4, <1>5 DEF PayloadMatchesHash

\* A dropped payload is nobody's.
LEMMA DropFits ==
  ASSUME PayloadMatchesHash, NEW S, DropPayloads(S), UNCHANGED <<hash, flight, l2>>
  PROVE  PayloadMatchesHash'
BY DEF PayloadMatchesHash, DropPayloads

\* A fetch promotes only the wanted payload.
LEMMA FetchPayload ==
  ASSUME CacheInv, Fetching
  PROVE  PayloadMatchesHash'
<1> USE DEF blockVars
<1>0. PayloadMatchesHash
  BY DEF CacheInv
<1>1. CASE Promote
  <2>1. Loop.pc = "promote" /\ At("loop") = "promote" /\ ~ProbeDone
    BY <1>1 DEF Promote, CacheInv, Control, LoopTurn, At, Loop
  <2>2. Wanted \in Hash /\ Loop.pay[1] = Wanted
    BY <2>1, WantedIsHash DEF CacheInv, Chains, LoopChains
  <2>3. CASE UNCHANGED blockVars
    BY <1>0, <1>1, <2>3, PayloadStays DEF Promote
  <2>4. CASE \E k \in 0..(Len(queue) - 1), transient \in BOOLEAN :
               TakeFor(k, Wanted, Loop.pay[1], TRUE, transient)
    BY <1>0, <1>1, <2>2, <2>4, TakePayload DEF Promote, CacheInv
  <2>. QED BY <1>1, <2>3, <2>4 DEF Promote
<1>2. CASE ~Promote
  <2>1. UNCHANGED <<hash, data, flight, l2>>
    BY <1>2 DEF Fetching, StartFetch, LookupHit, LookupMiss, CompareCandidates, MatchIndex,
                PinNext, Pinned, CommitFetch
  <2>. QED BY <1>0, <2>1, PayloadStays
<1>. QED BY <1>1, <1>2

\* A release drops payloads and writes none.
LEMMA EndPayload ==
  ASSUME CacheInv, Ending
  PROVE  PayloadMatchesHash'
<1> USE DEF blockVars
<1>0. PayloadMatchesHash
  BY DEF CacheInv
<1>1. CASE \E a \in Thread : ReleaseNext(a)
  <2>1. PICK a \in Thread : ReleaseOne(Head(job[a].ids)) /\ l2' = l2
    BY <1>1 DEF ReleaseNext
  <2>2. CASE UNCHANGED blockVars
    BY <1>0, <2>1, <2>2, PayloadStays
  <2>3. CASE \E S : DropPayloads(S) /\ UNCHANGED <<hash, flight>>
    BY <1>0, <2>1, <2>3, DropFits
  <2>. QED BY <2>1, <2>2, <2>3 DEF ReleaseOne
<1>2. CASE ~\E a \in Thread : ReleaseNext(a)
  <2>1. UNCHANGED <<hash, data, flight, l2>>
    BY <1>2 DEF Ending, Abort, FreeNext, FreeOne, WalkEnd, Detach
  <2>. QED BY <1>0, <2>1, PayloadStays
<1>. QED BY <1>1, <1>2

\* A restored block is filled with the payload of the hash it still has: its
\* request has held it since the read.
LEMMA RestorePayload ==
  ASSUME CacheInv, RestoringSteps
  PROVE  PayloadMatchesHash'
<1> USE DEF blockVars
<1>0. PayloadMatchesHash /\ data \in [Block -> Payload]
  BY DEF CacheInv, Control, CacheTypes, PagedTypeOK
<1>1. CASE Hydrate
  <2> DEFINE n == Len(Work.pay)
             b == tbl[Work.req][n]
  <2>1. data' = [data EXCEPT ![b] = Work.pay[n]] /\ UNCHANGED <<hash, flight, l2>>
    BY <1>1 DEF Hydrate
  <2>2. Work.pc = "hydrate" /\ At("work") = "hydrate"
    BY <1>1 DEF Hydrate, At, Work
  <2>3. n \in 1..n
    <3>1. Work.pay \in Seq(Payload) /\ Work.pay # <<>>
      BY <2>2, CallIs DEF CacheInv, Control, WorkTurn
    <3>. QED BY <3>1
  <2>4. Work.pay[n] = hash[b]
    BY <2>2, <2>3 DEF CacheInv, Chains, WorkChains, RestorePc
  <2> HIDE DEF b, n
  <2>5. \A c \in Block : hash'[c] # NoHash => data'[c] \in {NoHash, hash'[c]}
    BY <1>0, <2>1, <2>4 DEF PayloadMatchesHash
  <2>. QED BY <1>0, <2>1, <2>5 DEF PayloadMatchesHash
<1>2. CASE SettleNext
  <2>1. CASE data' = data
    BY <1>0, <1>2, <2>1, PayloadStays DEF SettleNext
  <2>2. CASE \E b : DropPayloads({b})
    BY <1>0, <1>2, <2>2, DropFits DEF SettleNext
  <2>. QED BY <1>2, <2>1, <2>2 DEF SettleNext
<1>3. CASE ~Hydrate /\ ~SettleNext
  <2>1. UNCHANGED <<hash, data, flight, l2>>
    BY <1>3 DEF RestoringSteps, StartRestore, RestoreHit, RestoreRead, RestoreDone, SettleEnd
  <2>. QED BY <1>0, <2>1, PayloadStays
<1>. QED BY <1>1, <1>2, <1>3

\* A store writes a block's payload under the hash it computed it for.
LEMMA StorePayload ==
  ASSUME CacheInv, StoringSteps
  PROVE  PayloadMatchesHash'
<1> USE DEF blockVars
<1>0. PayloadMatchesHash /\ flight \in [Hash -> Payload]
  BY DEF CacheInv, Control, CacheTypes, PagedTypeOK
<1>1. CASE Alloc
  <2>1. Work.pc = "alloc" /\ ~StoreDone /\ l2' = l2
    BY <1>1 DEF Alloc, CacheInv, Control, WorkTurn, At, Work
  <2>2. NextHash \in Hash
    BY <2>1, StoreAt DEF CacheInv
  <2>3. PICK k \in 0..(Len(queue) - 1) :
          TakeFor(k, NextHash, IF frugal THEN NoHash ELSE NextHash, FALSE, FALSE)
    BY <1>1 DEF Alloc
  <2>. QED BY <1>0, <2>1, <2>2, <2>3, TakePayload DEF CacheInv
<1>2. CASE Register
  <2> DEFINE b == tbl[Work.req][Len(tbl[Work.req])]
             h == hash[b]
  <2>1. /\ flight' = flight \/ flight' = [flight EXCEPT ![h] = h]
        /\ UNCHANGED <<hash, data, l2>> /\ Work.pc = "register"
    BY <1>2 DEF Register
  <2>2. \A g \in Hash : flight'[g] \in {NoHash, g}
    BY <1>0, <2>1 DEF PayloadMatchesHash
  <2>. QED BY <1>0, <2>1, <2>2 DEF PayloadMatchesHash
<1>3. CASE ~Alloc /\ ~Register
  <2>1. UNCHANGED <<hash, data, flight, l2>>
    BY <1>3 DEF StoringSteps, StartStore, StartSalvage, Dedup, NoDuplicate, AllocFails,
                Publish, PostStore
  <2>. QED BY <1>0, <2>1, PayloadStays
<1>. QED BY <1>1, <1>2, <1>3

\* Evictions, L2 writes and clear.
LEMMA EnvironmentPayload ==
  ASSUME CacheInv, Environment \/ Clear
  PROVE  PayloadMatchesHash'
<1>0. /\ PayloadMatchesHash /\ flight \in [Hash -> Payload] /\ l2 \in [Hash -> Payload]
      /\ hash \in [Block -> Payload]
  BY DEF CacheInv, Control, CacheTypes, PagedTypeOK
<1>1. ASSUME NEW b \in Block, EvictPayload(b)
      PROVE  PayloadMatchesHash'
  <2>1. /\ hash' = [hash EXCEPT ![b] = NoHash] /\ l2' = l2
        /\ data' = [c \in Block |-> IF c \in {b} THEN NoHash ELSE data[c]]
        /\ flight' \in {WriteThrough(b), flight}
    BY <1>1 DEF EvictPayload, DropPayloads
  <2>2. \A h \in Hash : WriteThrough(b)[h] \in {NoHash, h}
    BY <1>0, WriteThroughFits DEF CacheInv
  <2>3. \A h \in Hash : flight'[h] \in {NoHash, h}
    BY <1>0, <2>1, <2>2 DEF PayloadMatchesHash
  <2>. QED BY <1>0, <2>1, <2>3 DEF PayloadMatchesHash
<1>2. ASSUME NEW h \in Hash, PublishWrite(h) \/ LoseWrite(h) \/ EvictL2(h)
      PROVE  PayloadMatchesHash'
  BY <1>0, <1>2 DEF PublishWrite, LoseWrite, EvictL2, blockVars, PayloadMatchesHash
<1>3. CASE Clear
  BY <1>0, <1>3 DEF Clear, ResetCache, PayloadMatchesHash
<1>. QED BY <1>1, <1>2, <1>3 DEF Environment

\* Every step keeps payloads under their hashes.
LEMMA PayloadStep ==
  ASSUME CacheInv, [CacheNext]_vars
  PROVE  PayloadMatchesHash'
<1>1. CASE UNCHANGED vars
  BY <1>1, PayloadStays DEF CacheInv, vars, blockVars
<1>. QED BY <1>1, FetchPayload, EndPayload, RestorePayload, StorePayload, EnvironmentPayload
         DEF CacheNext, Serving

-----------------------------------------------------------------------------
(* The invariant.                                                          *)

\* The invariant holds initially ...
LEMMA CacheStarts == CacheInit => CacheInv
<1> SUFFICES ASSUME CacheInit PROVE CacheInv
  OBVIOUS
<1>1. PoolInv
  BY FreshInv DEF CacheInit
<1>2. IndexInv
  BY DEF CacheInit, IndexInv, IndexSound
<1>3. PayloadMatchesHash
  BY DEF CacheInit, PayloadMatchesHash
<1>. QED BY <1>1, <1>2, <1>3, ControlInit, CountedInit, ChainsInit DEF CacheInv

\* ... and every step keeps it.
LEMMA CacheSteps == CacheInv /\ [CacheNext]_vars => CacheInv'
<1> SUFFICES ASSUME CacheInv, [CacheNext]_vars PROVE CacheInv'
  OBVIOUS
<1>0. PoolInv /\ IndexInv /\ Control /\ Counted(Held, refCount)
  BY DEF CacheInv
<1>1. PoolInv'
  BY <1>0, CacheStepIsPoolStep, PoolStep
<1>2. IndexInv'
  BY <1>0, CacheStepKeepsIndex
<1>3. Clear => \A r \in Owners : tbl[r] = <<>>
  BY <1>0, NobodyHolds DEF Clear
<1>4. Control'
  BY <1>0, <1>1, <1>3, ControlStep
<1>5. Counted(Held, refCount)'
  BY <1>0, CountedStep
<1>. QED BY <1>1, <1>2, <1>4, <1>5, ChainsStep, PayloadStep DEF CacheInv

(* The pool, the index, the control of both threads, the reference counts, *)
(* the chains and the payloads are right together, in every reachable      *)
(* state.                                                                  *)
THEOREM CacheInvariant == CacheSpec => []CacheInv
BY CacheStarts, CacheSteps, PTL DEF CacheSpec

(* Every variable of the paged cache keeps its type.                       *)
THEOREM PagedTypes == CacheSpec => []PagedTypeOK
<1>1. CacheInv => PagedTypeOK
  BY DEF CacheInv, Control, CacheTypes
<1>. QED BY <1>1, CacheInvariant, PTL

(* No KV is cached in a block, queued for L2 or readable in L2 under the   *)
(* hash of other tokens, whatever is recycled, promoted, restored, evicted *)
(* or cleared between.                                                     *)
THEOREM PayloadMatches == CacheSpec => []PayloadMatchesHash
<1>1. CacheInv => PayloadMatchesHash
  BY DEF CacheInv
<1>. QED BY <1>1, CacheInvariant, PTL

(* From fetch_cache to the end of reconstruct_cache, and while store_cache *)
(* fills it, the blocks of a request's table keep the hashes they were     *)
(* matched or stored for.                                                  *)
THEOREM TablesKeep == CacheSpec => []TablesKeepChain
<1>1. ASSUME CacheInv, NEW r \in Req
      PROVE  /\ stage[r] \in {"waiting", "restoring"} /\ ~GivingBack(r) =>
                  \E chain \in Members(Probes[r]) :
                    \A i \in 1..Len(tbl[r]) : i <= Len(chain) /\ hash[tbl[r][i]] = chain[i]
             /\ Filling(r) => \A i \in 1..Len(tbl[r]) : hash[tbl[r][i]] = StoreChain[r][i]
  <2>1. TableFits(r)
    BY <1>1 DEF CacheInv, Chains
  <2>2. tbl[r] \in Seq(Block) /\ Probes[r] \in Seq(Seq(Hash))
    BY <1>1, CacheAssumption DEF CacheInv, Control, CacheTypes
  <2>3. ASSUME stage[r] \in {"waiting", "restoring"}, ~GivingBack(r)
        PROVE  \E chain \in Members(Probes[r]) :
                 \A i \in 1..Len(tbl[r]) : i <= Len(chain) /\ hash[tbl[r][i]] = chain[i]
    <3>1. PICK chain \in Members(Probes[r]) : Fits(tbl[r], chain)
      BY <2>1, <2>3 DEF TableFits, Found
    <3>2. chain \in Seq(Hash)
      BY <2>2 DEF Members
    <3>. QED BY <2>2, <3>1, <3>2 DEF Fits
  <2>4. Filling(r) => \A i \in 1..Len(tbl[r]) : hash[tbl[r][i]] = StoreChain[r][i]
    BY <2>1 DEF TableFits, Fits
  <2>. QED BY <2>3, <2>4
<1>2. CacheInv => TablesKeepChain
  BY <1>1 DEF TablesKeepChain
<1>. QED BY <1>2, CacheInvariant, PTL

(* reconstruct_cache hands a request the KV of a prefix of its own tokens, *)
(* although it reads blocks and L2 without the lock.                       *)
THEOREM ServedOwn == CacheSpec => []ServedOwnPrefix
<1>1. ASSUME CacheInv, Work.pc \in {"restore", "hydrate", "settle"}, Work.req \in Req
      PROVE  \E chain \in Members(Probes[Work.req]) :
               \A i \in 1..Len(Work.pay) : i <= Len(chain) /\ Work.pay[i] = chain[i]
  <2>1. At("work") \in RestorePc /\ Work.pc \in RestorePc
    BY <1>1 DEF At, Work, RestorePc
  <2>2. stage[Work.req] = "restoring" /\ Len(Work.pay) <= Len(tbl[Work.req])
    BY <1>1, <2>1 DEF CacheInv, Control, WorkTurn
  <2>3. ~GivingBack(Work.req)
    <3>1. Loop.req # Work.req
      BY <1>1, <2>2, WorkAt DEF CacheInv
    <3>. QED BY <1>1, <3>1, GivingBackIs DEF Backs
  <2>4. Found(Work.req, tbl[Work.req])
    BY <1>1, <2>2, <2>3 DEF CacheInv, Chains, TableFits
  <2>5. PICK chain \in Members(Probes[Work.req]) : Fits(tbl[Work.req], chain)
    BY <2>4 DEF Found
  <2>6. /\ chain \in Seq(Hash) /\ tbl[Work.req] \in Seq(Block) /\ Work.pay \in Seq(Payload)
    <3>1. Probes[Work.req] \in Seq(Seq(Hash))
      BY <1>1, CacheAssumption
    <3>. QED BY <1>1, <3>1, CallIs DEF Members, CacheInv, Control, CacheTypes
  <2>7. \A i \in 1..Len(Work.pay) : Work.pay[i] = hash[tbl[Work.req][i]]
    BY <1>1, <2>1 DEF CacheInv, Chains, WorkChains
  <2>8. ASSUME NEW i \in 1..Len(Work.pay)
        PROVE  i <= Len(chain) /\ Work.pay[i] = chain[i]
    <3>1. i \in 1..Len(tbl[Work.req])
      BY <2>2, <2>6
    <3>. QED BY <2>5, <2>6, <2>7, <3>1 DEF Fits
  <2>. QED BY <2>8
<1>2. CacheInv => ServedOwnPrefix
  BY <1>1 DEF ServedOwnPrefix
<1>. QED BY <1>2, CacheInvariant, PTL

\* Where block b occurs in what c holds.
Places(c, b) == {<<c[1], i>> : i \in {j \in 1..Len(c[2]) : c[2][j] = b}}

\* Holding names the holders, and Held what they hold.
LEMMA HoldingIs ==
  ASSUME Control
  PROVE  /\ \A c \in Holding : c = <<c[1], Held[c[1]]>> /\ c[1] \in Label
         /\ \A x \in Label : Held[x] # <<>> => <<x, Held[x]>> \in Holding
<1>1. Describes(Held, Loop, Work, tbl, paged \cup entries) /\ Held \in Lists
  BY HeldNow
<1>2. \A r \in Req : r \in Owners <=> Owns(Loop, Work, paged \cup entries, r)
  BY GivingBackIs DEF Owners, Owns, Filling, Fills
<1>3. Walked("loop") = WalkedBy(Loop) /\ Walked("work") = WalkedBy(Work)
  BY DEF Walked, WalkedBy, Loop, Work
<1>4. /\ \A r \in Req : Held[r] = IF r \in Owners THEN tbl[r] ELSE <<>>
      /\ Held["got"] = Loop.got /\ Held["best"] = Loop.best
      /\ \A a \in Thread : Held[a] = Walked(a)
  BY <1>1, <1>2, <1>3 DEF Describes, Thread
<1>5. Owners \subseteq Req
  BY DEF Owners
<1>6. Holding = {<<r, Held[r]>> : r \in Owners} \cup {<<x, Held[x]>> : x \in {"got", "best"}}
                \cup {<<a, Held[a]>> : a \in Thread}
  BY <1>4, <1>5 DEF Holding
<1>7. \A c \in Holding : c = <<c[1], Held[c[1]]>> /\ c[1] \in Label
  BY <1>5, <1>6 DEF Label
<1>8. \A x \in Label : Held[x] # <<>> => <<x, Held[x]>> \in Holding
  BY <1>4, <1>6 DEF Label
<1>. QED BY <1>7, <1>8

\* The places counted by RefsAreHeld are those counted by Counted.
LEMMA UsesAre ==
  ASSUME Control, NEW b \in Block
  PROVE  UNION {Places(c, b) : c \in Holding} = Uses(Held, b)
<1>0. Held \in Lists
  BY HeldNow
<1>1. ASSUME NEW c \in Holding, NEW u \in Places(c, b)
      PROVE  u \in Uses(Held, b)
  <2>1. c[2] = Held[c[1]] /\ c[1] \in Label
    <3>1. c = <<c[1], Held[c[1]]>> /\ c[1] \in Label
      BY HoldingIs
    <3>. QED BY <3>1
  <2>2. PICK i \in 1..Len(c[2]) : u = <<c[1], i>> /\ c[2][i] = b
    BY <1>1 DEF Places
  <2>3. i \in Nat
    BY <1>0, <2>1, <2>2 DEF Lists
  <2>. QED BY <2>1, <2>2, <2>3 DEF Uses
<1>2. ASSUME NEW u \in Uses(Held, b)
      PROVE  \E c \in Holding : u \in Places(c, b)
  <2>1. PICK x \in Label, i \in Nat : u = <<x, i>>
    BY DEF Uses
  <2>2. i \in 1..Len(Held[x]) /\ Held[x][i] = b
    BY <2>1 DEF Uses
  <2>3. <<x, Held[x]>> \in Holding
    <3>1. Held[x] # <<>>
      BY <2>2
    <3>. QED BY <3>1, HoldingIs
  <2>4. u \in Places(<<x, Held[x]>>, b)
    BY <2>1, <2>2 DEF Places
  <2>. QED BY <2>3, <2>4
<1>. QED BY <1>1, <1>2

(* A block's reference count is exactly the number of places that will     *)
(* give a reference back: tables that own it, candidates of a fetch, walks *)
(* in progress.                                                            *)
THEOREM RefsHeld == CacheSpec => []RefsAreHeld
<1>1. ASSUME CacheInv, NEW b \in Block
      PROVE  refCount[b] = Cardinality(UNION {Places(c, b) : c \in Holding})
  BY <1>1, UsesAre DEF CacheInv, Counted
<1>2. CacheInv => RefsAreHeld
  BY <1>1 DEF RefsAreHeld, Places
<1>. QED BY <1>2, CacheInvariant, PTL
=============================================================================
