-------------------------- MODULE DiskStore_proofs --------------------------
(***************************************************************************)
(* The invariants of DiskStore hold for every set of store calls, chains,  *)
(* payload sizes, budget and length of the queue.                          *)
(***************************************************************************)
EXTENDS DiskStore, FiniteSetTheorems, TLAPS

-----------------------------------------------------------------------------
(* Sums.                                                                   *)

\* The named units that Bytes counts.
Units(f) == UNION {{h} \X (1..f[h]) : h \in DOMAIN f}

\* Finitely many holders hold finitely many units.
LEMMA UnitsFinite ==
  ASSUME NEW D, IsFiniteSet(D), NEW f \in [D -> Nat]
  PROVE  IsFiniteSet(Units(f))
<1> DEFINE g == [h \in D |-> {h} \X (1..f[h])]
           S == {{h} \X (1..f[h]) : h \in D}
<1>1. g \in Surjection(D, S)
  BY DEF Surjection
<1>2. IsFiniteSet(S)
  BY <1>1, FS_Surjection
<1>3. ASSUME NEW h \in D PROVE IsFiniteSet({h} \X (1..f[h]))
  <2> HIDE DEF g, S
  <2>1. f[h] \in Nat
    OBVIOUS
  <2>2. IsFiniteSet({h})
    BY FS_Singleton
  <2>3. IsFiniteSet(1..f[h])
    BY <2>1, FS_Interval
  <2>4. QED BY <2>2, <2>3, FS_Product
<1>4. \A T \in S : IsFiniteSet(T)
  BY <1>3
<1>5. IsFiniteSet(UNION S)
  BY <1>2, <1>4, FS_UNION
<1>6. QED BY <1>5 DEF Units

\* A sum is a number.
LEMMA BytesType ==
  ASSUME NEW D, IsFiniteSet(D), NEW f \in [D -> Nat]
  PROVE  Bytes(f) \in Nat
BY UnitsFinite, FS_CardinalityType DEF Bytes, Units

\* What one holder has comes on top of what the others have.
LEMMA BytesSplit ==
  ASSUME NEW D, IsFiniteSet(D), NEW f \in [D -> Nat], NEW k \in D
  PROVE  LET rest == [h \in D \ {k} |-> f[h]]
         IN  Bytes(rest) \in Nat /\ Bytes(f) = Bytes(rest) + f[k]
<1> DEFINE rest == [h \in D \ {k} |-> f[h]]
           own == {k} \X (1..f[k])
<1>1. IsFiniteSet(D \ {k}) /\ rest \in [D \ {k} -> Nat]
  BY FS_RemoveElement
<1>2. IsFiniteSet(Units(rest)) /\ Bytes(rest) \in Nat
  BY <1>1, UnitsFinite, BytesType
<1>3. IsFiniteSet(own) /\ Cardinality(own) = f[k]
  <2>1. IsFiniteSet({k}) /\ Cardinality({k}) = 1
    BY FS_Singleton
  <2>2. IsFiniteSet(1..f[k]) /\ Cardinality(1..f[k]) = f[k]
    BY FS_Interval
  <2>3. Cardinality(own) = 1 * f[k] /\ IsFiniteSet(own)
    BY <2>1, <2>2, FS_Product, ZenonT(60)
  <2>4. QED BY <2>3
<1>4. Units(f) = Units(rest) \cup own
  BY DEF Units
<1>5. Units(rest) \cap own = {}
  BY DEF Units
<1>6. Cardinality(Units(f)) = Cardinality(Units(rest)) + f[k]
  <2>1. Cardinality(Units(rest) \cap own) = 0
    BY <1>5, FS_EmptySet
  <2>2. Cardinality(Units(rest)) \in Nat
    BY <1>2, FS_CardinalityType
  <2>3. f[k] \in Nat
    OBVIOUS
  <2> HIDE DEF rest, own
  <2>4. Cardinality(Units(rest) \cup own) =
           Cardinality(Units(rest)) + Cardinality(own) - Cardinality(Units(rest) \cap own)
    BY <1>2, <1>3, FS_Union
  <2>5. QED BY <1>3, <1>4, <2>1, <2>2, <2>3, <2>4
<1>7. QED BY <1>2, <1>6 DEF Bytes, Units

\* One holder changes what it has.
LEMMA BytesChange ==
  ASSUME NEW D, IsFiniteSet(D), NEW f \in [D -> Nat], NEW g \in [D -> Nat],
         NEW k \in D, \A h \in D \ {k} : g[h] = f[h]
  PROVE  Bytes(g) = Bytes(f) - f[k] + g[k]
<1> DEFINE rest == [h \in D \ {k} |-> f[h]]
<1>1. rest = [h \in D \ {k} |-> g[h]]
  OBVIOUS
<1>2. Bytes(rest) \in Nat /\ Bytes(f) = Bytes(rest) + f[k]
  BY BytesSplit
<1>3. Bytes(g) = Bytes(rest) + g[k]
  BY <1>1, BytesSplit
<1>4. QED BY <1>2, <1>3

\* A sequence of holders gets another one.
LEMMA BytesAppend ==
  ASSUME NEW n \in Nat, NEW f \in [1..n -> Nat], NEW g \in [1..(n + 1) -> Nat],
         \A h \in 1..n : g[h] = f[h]
  PROVE  Bytes(g) = Bytes(f) + g[n + 1]
<1> DEFINE D == 1..(n + 1)
           rest == [h \in D \ {n + 1} |-> g[h]]
<1>1. IsFiniteSet(D) /\ n + 1 \in D
  BY FS_Interval
<1>2. D \ {n + 1} = 1..n
  OBVIOUS
<1>3. rest = f
  BY <1>2
<1>4. Bytes(g) = Bytes(rest) + g[n + 1]
  BY <1>1, BytesSplit
<1>5. QED BY <1>3, <1>4

\* Nothing is held where each holds nothing.
LEMMA BytesZero ==
  ASSUME NEW D, NEW f \in [D -> Nat], \A h \in D : f[h] = 0
  PROVE  Bytes(f) = 0
<1>1. Units(f) = {}
  BY DEF Units
<1>2. QED BY <1>1, FS_EmptySet DEF Bytes, Units

\* Nobody has more than all, nor two of them together.
LEMMA BytesBound ==
  ASSUME NEW D, IsFiniteSet(D), NEW f \in [D -> Nat], NEW k \in D
  PROVE  /\ f[k] <= Bytes(f)
         /\ \A h \in D \ {k} : f[h] + f[k] <= Bytes(f)
<1> DEFINE rest == [h \in D \ {k} |-> f[h]]
<1>1. Bytes(rest) \in Nat /\ Bytes(f) = Bytes(rest) + f[k]
  BY BytesSplit
<1>2. f[k] <= Bytes(f)
  BY <1>1
<1>3. ASSUME NEW h \in D \ {k} PROVE f[h] + f[k] <= Bytes(f)
  <2> DEFINE rest2 == [j \in (D \ {k}) \ {h} |-> rest[j]]
  <2>1. IsFiniteSet(D \ {k}) /\ rest \in [D \ {k} -> Nat] /\ rest[h] = f[h]
    BY FS_RemoveElement
  <2>2. Bytes(rest2) \in Nat /\ Bytes(rest) = Bytes(rest2) + rest[h]
    BY <2>1, BytesSplit
  <2>3. QED BY <1>1, <2>1, <2>2
<1>4. QED BY <1>2, <1>3

-----------------------------------------------------------------------------
(* The inductive invariant, in parts.                                      *)

Outcomes == {"none", "queued", "dropped", "failed"}
Working == {"admit", "freeze", "enqueue", "settle"}
Jobs ==
  [pc : Working \cup {"new", "next", "skip", "seal", "sentinel", "mark", "unpin", "done"},
   i : Nat \ {0}, res : Nat, out : Outcomes, born : Nat]
Items ==
  {it \in [kind : {"block", "fence", "access", "cleanup", "spent"},
           store : Store \cup {NoStore}, block : Block \cup {NoBlock}, size : Nat,
           final : Nat, born : Nat] :
     /\ it.kind \in {"block", "fence"} => it.store \in Store
     /\ it.kind \in {"block", "cleanup"} => it.block \in Block
     /\ it.kind # "block" => it.size = 0}
Works ==
  [pc : {"idle", "encode", "publish", "stuck", "finalize", "settled", "dead"},
   batch : Seq(Items), i : Nat \ {0}, touch : BOOLEAN, final : SUBSET Store,
   owe : Store \cup {NoStore}]
Fences ==
  [expected : Nat, active : Nat, queued : Nat, failed : Nat, dropped : Nat,
   processed : Nat, sealed : BOOLEAN, enq : BOOLEAN, sfail : BOOLEAN, done : BOOLEAN,
   err : BOOLEAN]

Types ==
  /\ accepting \in BOOLEAN /\ shutting \in BOOLEAN /\ stopped \in BOOLEAN
  /\ finalized \in BOOLEAN
  /\ producers \in Int /\ pending \in Int /\ bytes \in Int /\ upsets \in Nat
  /\ cut \subseteq Block
  /\ fence \in [Store -> Fences] /\ kept \subseteq Fenced
  /\ rows \in [Block -> Nat] /\ pins \subseteq Store \X Block
  /\ clearing \in {"idle", "quiescing", "failing", "reopening"}
  /\ era \in 1..MaxEra /\ (clearing = "quiescing" => era < MaxEra)

\* A call at work is at a block of its chain; only what it has admitted and
\* not yet handed over is reserved, and what became of it is known at the end.
JobFits(s, j) ==
  /\ j \in Jobs
  /\ j.i <= Len(Chain[s]) + 1
  /\ j.pc \in Working => j.i <= Len(Chain[s])
  /\ j.res > 0 => j.pc \in {"freeze", "enqueue"}
  /\ j.out # "none" => j.pc = "settle"

JobsFit == job \in [Store -> Jobs] /\ \A s \in Store : JobFits(s, job[s])

\* Up to its position, and altogether once it has left the root lock, the
\* writer has dealt with its batch.
WorkFits ==
  /\ queue \in Seq(Items) /\ w \in Works
  /\ w.pc \in {"idle", "dead"} => w.batch = <<>> /\ w.owe = NoStore
  /\ w.pc \in {"publish", "stuck"} =>
       \A i \in 1..Len(w.batch) : i < w.i => w.batch[i].kind = "spent"
  /\ w.pc \in {"finalize", "settled"} =>
       \A i \in 1..Len(w.batch) : w.batch[i].kind = "spent"
  /\ root \in {"free", "writer"}
  /\ root = "writer" <=> w.pc \in {"publish", "stuck"}

Shape == Types /\ JobsFit /\ WorkFits

\* Stopping closes the store in this order.
StopOrder ==
  /\ shutting => ~accepting
  /\ stopped => shutting /\ producers = 0
  /\ w.pc = "dead" => stopped /\ queue = <<>>
  /\ finalized => w.pc = "dead" /\ pins = {}

\* Whatever is on its way to the index was admitted in the present era.
SameEra ==
  /\ \A s \in Store : job[s].pc \in Working => job[s].born = era
  /\ \A i \in DOMAIN queue : queue[i].kind = "block" => queue[i].born = era
  /\ \A i \in DOMAIN w.batch : w.batch[i].kind = "block" => w.batch[i].born = era

\* The blocks of call s among the items.
Weight(s, it) == IF it.kind = "block" /\ it.store = s THEN 1 ELSE 0
BlocksOf(s, items) == Bytes([i \in DOMAIN items |-> Weight(s, items[i])])
OnTheWay(s) == BlocksOf(s, queue) + BlocksOf(s, w.batch)

\* A fence is sealed after the last write of its call, and whatever is to
\* settle it comes after that.
Closed == {"sentinel", "mark", "unpin", "done"}
SealOrder ==
  /\ \A s \in Store : /\ fence[s].sealed => job[s].pc \in Closed
                      /\ job[s].pc = "sentinel" => fence[s].sealed
  /\ \A i \in DOMAIN queue : queue[i].kind = "fence" => fence[queue[i].store].sealed
  /\ \A i \in DOMAIN w.batch : w.batch[i].kind = "fence" => fence[w.batch[i].store].sealed
  /\ w.owe # NoStore => fence[w.owe].sealed
  /\ \A s \in w.final : fence[s].sealed

\* Until it is done a fence knows of every block on its way, and when it is
\* done without an error there is none.
Fresh(s) ==
  /\ s \notin kept /\ OnTheWay(s) = 0 /\ fence[s].processed = 0
  /\ fence[s].done => fence[s].err
Known(s) ==
  OnTheWay(s) + fence[s].processed <=
    fence[s].queued + (IF job[s].out = "queued" THEN 1 ELSE 0)
Awaited ==
  /\ \A s \in Fenced : job[s].pc = "new" => Fresh(s)
  /\ \A s \in kept : ~fence[s].done => Known(s)
  /\ \A s \in kept : fence[s].done /\ ~fence[s].err => fence[s].sealed /\ OnTheWay(s) = 0

DiskInv ==
  /\ Shape /\ CountersExact /\ BytesExact /\ StopOrder
  /\ SameEra /\ NothingSurvivesClear /\ IndexRestorable /\ PinsHold
  /\ SealOrder /\ Awaited

-----------------------------------------------------------------------------
(* Types.                                                                  *)

\* What the three operators on fences return is a fence again.
LEMMA CountedType ==
  ASSUME fence \in [Store -> Fences], NEW s \in Store, NEW out \in Outcomes
  PROVE  Counted(s, out) \in [Store -> Fences]
<1> DEFINE f == fence[s]
           n == IF f.active > 0 THEN f.active - 1 ELSE 0
<1>1. f \in Fences /\ n \in Nat
  BY DEF Fences
<1>2. /\ f.queued + 1 \in Nat /\ f.dropped + 1 \in Nat /\ f.failed + 1 \in Nat
      /\ f.queued \in Nat /\ f.dropped \in Nat /\ f.failed \in Nat
  BY <1>1 DEF Fences
<1>3. CASE out = "none" \/ s \notin kept \/ f.done
  BY <1>3 DEF Counted
<1>4. ASSUME out # "none", s \in kept, ~f.done
      PROVE  Counted(s, out) =
               [fence EXCEPT ![s] =
                  [f EXCEPT !.queued = IF out = "queued" THEN f.queued + 1 ELSE f.queued,
                            !.dropped = IF out = "dropped" THEN f.dropped + 1 ELSE f.dropped,
                            !.failed = IF out = "failed" THEN f.failed + 1 ELSE f.failed,
                            !.active = n]]
  <2>1. CASE out = "queued"
    BY <1>1, <1>4, <2>1 DEF Counted, Fences
  <2>2. CASE out = "dropped"
    BY <1>1, <1>4, <2>2 DEF Counted, Fences
  <2>3. CASE out = "failed"
    BY <1>1, <1>4, <2>3 DEF Counted, Fences
  <2>4. QED BY <1>4, <2>1, <2>2, <2>3 DEF Outcomes
<1> HIDE DEF f, n
<1>5. [f EXCEPT !.queued = IF out = "queued" THEN f.queued + 1 ELSE f.queued,
                !.dropped = IF out = "dropped" THEN f.dropped + 1 ELSE f.dropped,
                !.failed = IF out = "failed" THEN f.failed + 1 ELSE f.failed,
                !.active = n] \in Fences
  BY <1>1, <1>2 DEF Fences
<1>6. QED BY <1>3, <1>4, <1>5

\* A completion leaves a fence.
LEMMA CompletedType ==
  ASSUME fence \in [Store -> Fences], NEW s, NEW failed \in BOOLEAN
  PROVE  Completed(s, failed) \in [Store -> Fences]
<1>1. SUFFICES ASSUME s \in kept, s \in Store
               PROVE  Completed(s, failed) \in [Store -> Fences]
  BY DEF Completed
<1> DEFINE f == fence[s]
<1>2. /\ f \in Fences /\ f.processed + 1 \in Nat /\ f.failed + 1 \in Nat
      /\ f.failed \in Nat
  BY <1>1 DEF Fences
<1>3. Completed(s, failed) =
        [fence EXCEPT ![s] = [f EXCEPT !.processed = f.processed + 1,
                                       !.failed = IF failed THEN f.failed + 1 ELSE f.failed]]
  BY <1>1 DEF Completed
<1> HIDE DEF f
<1>4. [f EXCEPT !.processed = f.processed + 1,
                !.failed = IF failed THEN f.failed + 1 ELSE f.failed] \in Fences
  BY <1>2 DEF Fences
<1>5. QED BY <1>1, <1>3, <1>4

\* A failure leaves a fence.
LEMMA FailedType ==
  ASSUME fence \in [Store -> Fences], NEW S
  PROVE  Failed(S) \in [Store -> Fences]
BY DEF Failed, Fences

\* What the writer owes is a call or nothing.
LEMMA OwedType ==
  ASSUME kept \subseteq Store, NEW s, NEW failed \in BOOLEAN
  PROVE  Owed(s, failed) \in Store \cup {NoStore}
BY DEF Owed

-----------------------------------------------------------------------------
(* What the actors leave alone.                                            *)

\* A store call leaves the index, the writer and the life cycle alone.
LEMMA WriteFrame ==
  ASSUME NEW s \in Store, Write(s) \/ Forget(s)
  PROVE  UNCHANGED <<accepting, rows, root, w, clearing, era, shutting, stopped, finalized>>
BY DEF Write, BeginFence, StartWrite, Admit, Freeze, Enqueue, Settle, Skip, StoreRaises, Seal,
   Sentinel, Mark, Unpin, Forget, Post, lifeVars, rootVars, stopVars

\* The writer leaves the calls and the life cycle alone.
LEMMA WriterFrame ==
  ASSUME Writer
  PROVE  UNCHANGED <<accepting, producers, cut, kept, job, clearing, era, shutting, stopped,
                     finalized>>
BY DEF Writer, TakeBatch, Encode, EnterRoot, PublishBlock, PublishOther, WriterSeals, Account,
   BatchRaises, FinalizeFence, CompleteBatch, WriterExits, Post, lifeVars, fenceVars, stopVars

\* clear and shutdown leave the calls, the queue and the writer alone.
LEMMA StopFrame ==
  ASSUME Clearing \/ Shutdown \/ Stopping
  PROVE  UNCHANGED <<producers, pending, queue, bytes, cut, kept, root, job, w, upsets>>
BY DEF Clearing, StartClear, Wipe, FailUnsettled, EndClear, Shutdown, Stopping, StopWriter,
   FinalizeShutdown, lifeVars, fenceVars, rootVars

\* Readers and evictions leave all but the queue and the rows alone.
LEMMA OtherFrame ==
  ASSUME NEW b \in Block, Touch(b) \/ Evict(b)
  PROVE  UNCHANGED <<accepting, producers, bytes, cut, fence, kept, pins, root, job, w,
                     clearing, era, shutting, stopped, finalized>>
BY DEF Touch, Evict, Post, lifeVars, fenceVars, rootVars, stopVars

-----------------------------------------------------------------------------
(* Store calls.                                                            *)

\* At each of its positions a call has a block and the sizes of its payload.
LEMMA ChainLength ==
  ASSUME NEW s \in Store
  PROVE  /\ Len(Chain[s]) \in Nat
         /\ \A i \in 1..Len(Chain[s]) :
              /\ Chain[s][i] \in Block
              /\ Size[s][i].estimate \in Nat /\ Size[s][i].frozen \in Nat
              /\ Size[s][i].encoded \in Nat
<1>1. Chain[s] \in Seq(Block) /\ Len(Size[s]) = Len(Chain[s])
  BY DiskAssumption
<1> DEFINE R == [estimate : Nat \ {0}, frozen : Nat \ {0}, encoded : Nat \ {0}]
<1>2. Size[s] \in Seq(R)
  BY DiskAssumption
<1>3. \A i \in 1..Len(Chain[s]) : Size[s][i] \in R
  <2> HIDE DEF R
  <2>1. QED BY <1>1, <1>2
<1>4. QED BY <1>1, <1>3

\* A call moves on within its chain, or learns what became of a block.
LEMMA MovesFit ==
  ASSUME NEW s \in Store, NEW j \in Jobs, JobFits(s, j)
  PROVE  /\ j.pc \notin {"freeze", "enqueue", "settle"} =>
              \A pc \in {"next", "skip", "seal", "sentinel", "mark", "unpin", "done"} :
                JobFits(s, [j EXCEPT !.pc = pc])
         /\ j.pc \in Working => \A out \in Outcomes \ {"none"} :
              JobFits(s, [j EXCEPT !.pc = "settle", !.res = 0, !.out = out])
<1>1. Len(Chain[s]) \in Nat
  BY ChainLength
<1>2. ASSUME NEW pc \in {"next", "skip", "seal", "sentinel", "mark", "unpin", "done"},
             j.pc \notin {"freeze", "enqueue", "settle"}
      PROVE  JobFits(s, [j EXCEPT !.pc = pc])
  BY <1>2 DEF JobFits, Jobs, Working
<1>3. ASSUME NEW out \in Outcomes \ {"none"}, j.pc \in Working
      PROVE  JobFits(s, [j EXCEPT !.pc = "settle", !.res = 0, !.out = out])
  <2> DEFINE k == [j EXCEPT !.pc = "settle", !.res = 0, !.out = out]
  <2>1. k.pc = "settle" /\ k.res = 0 /\ k.out = out /\ k.i = j.i /\ k.born = j.born
    BY DEF Jobs
  <2>2. k \in Jobs
    BY DEF Jobs, Working, Outcomes
  <2> HIDE DEF k
  <2>3. JobFits(s, k)
    BY <1>1, <1>3, <2>1, <2>2 DEF JobFits, Working
  <2>4. QED BY <2>3 DEF k
<1>4. QED BY <1>2, <1>3

\* A call at its next block, or at its end, holds nothing.
LEMMA FreshFits ==
  ASSUME NEW s \in Store, NEW i \in 1..(Len(Chain[s]) + 1), NEW pc \in {"next", "skip", "done"}
  PROVE  /\ JobFits(s, [NoJob EXCEPT !.pc = pc, !.i = i])
         /\ JobFits(s, [NoJob EXCEPT !.pc = pc])
         /\ JobFits(s, NoJob)
<1>1. Len(Chain[s]) \in Nat
  BY ChainLength
<1>2. /\ NoJob \in Jobs /\ NoJob.pc = "new" /\ NoJob.i = 1 /\ NoJob.res = 0
      /\ NoJob.out = "none"
  BY DEF NoJob, Jobs, Outcomes
<1>3. ASSUME NEW j \in Jobs, j.pc = "new", j.i = 1, j.res = 0, j.out = "none"
      PROVE  /\ JobFits(s, [j EXCEPT !.pc = pc, !.i = i])
             /\ JobFits(s, [j EXCEPT !.pc = pc])
             /\ JobFits(s, j)
  <2> DEFINE k == [j EXCEPT !.pc = pc, !.i = i]
  <2>1. k.pc = pc /\ k.i = i /\ k.res = 0 /\ k.out = "none" /\ k.born = j.born
    BY <1>3 DEF Jobs
  <2>2. k \in Jobs
    <3>1. i \in Nat \ {0}
      BY <1>1
    <3>2. QED BY <3>1 DEF Jobs, Working
  <2>3. JobFits(s, k)
    <3> HIDE DEF k
    <3>1. QED BY <1>1, <2>1, <2>2 DEF JobFits, Working
  <2>4. JobFits(s, [j EXCEPT !.pc = pc])
    BY <1>1, <1>3 DEF JobFits, Jobs, Working
  <2>5. JobFits(s, j)
    BY <1>1, <1>3 DEF JobFits, Jobs, Working
  <2>6. QED BY <2>3, <2>4, <2>5
<1>4. QED BY <1>2, <1>3

\* No step takes a call out of its shape.
LEMMA JobStep ==
  ASSUME JobsFit, era \in Nat, Next
  PROVE  JobsFit'
<1>0. \A s \in Store : Len(Chain[s]) \in Nat
  BY ChainLength
<1>1. ASSUME NEW s \in Store, NEW j, job' = [job EXCEPT ![s] = j], JobFits(s, j)
      PROVE  JobsFit'
  BY <1>1 DEF JobsFit, JobFits
<1>2. ASSUME NEW s \in Store, NEW pc, To(s, pc), 
             job[s].pc \notin {"freeze", "enqueue", "settle"},
             pc \in {"next", "skip", "seal", "sentinel", "mark", "unpin", "done"}
      PROVE  JobsFit'
  <2>1. job' = [job EXCEPT ![s] = [job[s] EXCEPT !.pc = pc]]
    BY <1>2 DEF To
  <2>2. JobFits(s, [job[s] EXCEPT !.pc = pc])
    BY <1>2, MovesFit DEF JobsFit
  <2>3. QED BY <1>1, <2>1, <2>2
<1>3. ASSUME NEW s \in Store, NEW out \in Outcomes \ {"none"}, Told(s, out),
             job[s].pc \in Working
      PROVE  JobsFit'
  <2>1. job' = [job EXCEPT ![s] = [job[s] EXCEPT !.pc = "settle", !.res = 0, !.out = out]]
    BY <1>3 DEF Told
  <2>2. JobFits(s, [job[s] EXCEPT !.pc = "settle", !.res = 0, !.out = out])
    BY <1>3, MovesFit DEF JobsFit
  <2>3. QED BY <1>1, <2>1, <2>2
<1>4. ASSUME NEW s \in Store, Done(s)
      PROVE  JobsFit'
  <2>1. 1 \in 1..(Len(Chain[s]) + 1)
    BY <1>0
  <2>2. JobFits(s, [NoJob EXCEPT !.pc = "done"])
    BY <2>1, FreshFits
  <2>3. QED BY <1>1, <1>4, <2>2 DEF Done
<1>5. ASSUME NEW s \in Store, NEW admitted \in BOOLEAN, Over(s, admitted),
             job[s].i <= Len(Chain[s])
      PROVE  JobsFit'
  <2>1. PICK pc \in {"next", "skip"} :
          job' = [job EXCEPT ![s] = [NoJob EXCEPT !.pc = pc, !.i = job[s].i + 1]]
    BY <1>5 DEF Over
  <2>2. job[s].i + 1 \in 1..(Len(Chain[s]) + 1)
    BY <1>0, <1>5 DEF JobsFit, JobFits, Jobs
  <2>3. JobFits(s, [NoJob EXCEPT !.pc = pc, !.i = job[s].i + 1])
    BY <2>2, FreshFits
  <2>4. QED BY <1>1, <2>1, <2>3
<1>6. ASSUME NEW s \in Store, BeginFence(s) PROVE JobsFit'
  BY <1>2, <1>6 DEF BeginFence
<1>7. ASSUME NEW s \in Store, StartWrite(s) PROVE JobsFit'
  <2>1. job[s].pc \in {"new", "next"} /\ job[s].i <= Len(Chain[s])
    BY <1>7 DEF StartWrite
  <2>2. CASE Over(s, FALSE)
    BY <1>5, <2>1, <2>2
  <2>3. CASE \E pc \in {"settle", "admit"} : job' = [job EXCEPT ![s].pc = pc, ![s].born = era]
    <3>1. PICK pc \in {"settle", "admit"} :
            job' = [job EXCEPT ![s] = [job[s] EXCEPT !.pc = pc, !.born = era]]
      BY <2>3
    <3>2. JobFits(s, [job[s] EXCEPT !.pc = pc, !.born = era])
      BY <1>0, <2>1 DEF JobsFit, JobFits, Jobs, Working
    <3>3. QED BY <1>1, <3>1, <3>2
  <2>4. QED BY <1>7, <2>2, <2>3 DEF StartWrite
<1>8. ASSUME NEW s \in Store, Admit(s) PROVE JobsFit'
  <2>1. job[s].pc = "admit"
    BY <1>8 DEF Admit
  <2>2. CASE Told(s, "dropped")
    BY <1>3, <2>1, <2>2 DEF Outcomes, Working
  <2>3. ASSUME NEW n, n = Size[s][job[s].i].estimate,
               job' = [job EXCEPT ![s] = [job[s] EXCEPT !.pc = "freeze", !.res = n]]
        PROVE  JobsFit'
    <3>1. n \in Nat
      BY <2>1, <2>3, ChainLength DEF JobsFit, JobFits, Jobs, Working
    <3>2. JobFits(s, [job[s] EXCEPT !.pc = "freeze", !.res = n])
      BY <1>0, <2>1, <3>1 DEF JobsFit, JobFits, Jobs, Working
    <3>3. QED BY <1>1, <2>3, <3>2
  <2>4. QED BY <1>8, <2>2, <2>3 DEF Admit
<1>9. ASSUME NEW s \in Store, Freeze(s) PROVE JobsFit'
  <2>1. job[s].pc = "freeze"
    BY <1>9 DEF Freeze
  <2>2. ASSUME NEW out \in {"failed", "dropped"}, Told(s, out) PROVE JobsFit'
    BY <1>3, <2>1, <2>2 DEF Outcomes, Working
  <2>3. ASSUME NEW n, n = Size[s][job[s].i].frozen,
               job' = [job EXCEPT ![s] = [job[s] EXCEPT !.pc = "enqueue", !.res = n]]
        PROVE  JobsFit'
    <3>1. n \in Nat
      BY <2>1, <2>3, ChainLength DEF JobsFit, JobFits, Jobs, Working
    <3>2. JobFits(s, [job[s] EXCEPT !.pc = "enqueue", !.res = n])
      BY <1>0, <2>1, <3>1 DEF JobsFit, JobFits, Jobs, Working
    <3>3. QED BY <1>1, <2>3, <3>2
  <2>4. QED BY <1>9, <2>2, <2>3 DEF Freeze
<1>10. ASSUME NEW s \in Store, Enqueue(s) PROVE JobsFit'
  BY <1>3, <1>10 DEF Enqueue, Outcomes, Working
<1>11. ASSUME NEW s \in Store, Settle(s) PROVE JobsFit'
  <2>1. job[s].i <= Len(Chain[s])
    BY <1>11 DEF Settle, JobsFit, JobFits, Working
  <2>2. QED BY <1>5, <1>11, <2>1 DEF Settle
<1>12. ASSUME NEW s \in Store, Skip(s) \/ StoreRaises(s) \/ Sentinel(s) PROVE JobsFit'
  BY <1>2, <1>12 DEF Skip, StoreRaises, Sentinel
<1>13. ASSUME NEW s \in Store, Seal(s) PROVE JobsFit'
  BY <1>2, <1>4, <1>13 DEF Seal
<1>14. ASSUME NEW s \in Store, Mark(s) \/ Unpin(s) PROVE JobsFit'
  BY <1>4, <1>14 DEF Mark, Unpin
<1>15. CASE job' = job
  BY <1>15 DEF JobsFit
<1>16. (\E s \in Store : Forget(s)) \/ Writer \/ Clearing \/ Shutdown \/ Stopping
         \/ (\E b \in Block : Touch(b) \/ Evict(b)) => job' = job
  <2>1. Writer => job' = job
    BY DEF Writer, TakeBatch, Encode, EnterRoot, PublishBlock, PublishOther, WriterSeals,
           Account, BatchRaises, FinalizeFence, CompleteBatch, WriterExits
  <2>2. QED BY <2>1 DEF Forget, Clearing, StartClear, Wipe, FailUnsettled, EndClear,
           Shutdown, Stopping, StopWriter, FinalizeShutdown, Touch, Evict
<1>17. QED BY <1>6, <1>7, <1>8, <1>9, <1>10, <1>11, <1>12, <1>13, <1>14, <1>15, <1>16
           DEF Next, Write

\* What the items of a sequence have reserved.
LEMMA BytesOfType ==
  ASSUME NEW items \in Seq(Items)
  PROVE  /\ [i \in DOMAIN items |-> items[i].size] \in [1..Len(items) -> Nat]
         /\ IsFiniteSet(1..Len(items)) /\ Len(items) \in Nat
         /\ BytesOf(items) \in Nat
<1>1. Len(items) \in Nat /\ DOMAIN items = 1..Len(items)
  OBVIOUS
<1>2. \A i \in 1..Len(items) : items[i] \in Items
  OBVIOUS
<1>3. \A it \in Items : it.size \in Nat
  BY DEF Items
<1>4. [i \in DOMAIN items |-> items[i].size] \in [1..Len(items) -> Nat]
  BY <1>1, <1>2, <1>3
<1>5. IsFiniteSet(1..Len(items))
  BY <1>1, FS_Interval
<1>6. QED BY <1>1, <1>4, <1>5, BytesType DEF BytesOf

-----------------------------------------------------------------------------
(* The queue and the writer.                                               *)

\* Items that are made, and items that change their size.
LEMMA ItemsFit ==
  /\ Spent \in Items /\ Spent.kind = "spent" /\ Spent.size = 0
  /\ \A s \in Store : Item("fence", s, NoBlock) \in Items
  /\ \A b \in Block, kind \in {"access", "cleanup"} : Item(kind, NoStore, b) \in Items
  /\ \A it \in Items, n \in Nat : it.kind = "block" => [it EXCEPT !.size = n] \in Items
  /\ \A it \in Items : it.size \in Nat /\ it.final \in Nat /\ it.born \in Nat
BY DEF Items, Spent, Item

\* What a call enqueues is an item.
LEMMA BlockItemFits ==
  ASSUME NEW s \in Store, JobFits(s, job[s]), job[s].pc = "enqueue"
  PROVE  BlockItem(s) \in Items
<1>1. job[s].i \in 1..Len(Chain[s]) /\ job[s].res \in Nat /\ job[s].born \in Nat
  BY ChainLength DEF JobFits, Jobs, Working
<1>2. Chain[s][job[s].i] \in Block /\ Size[s][job[s].i].encoded \in Nat
  BY <1>1, ChainLength
<1>3. QED BY <1>1, <1>2 DEF BlockItem, Items

\* A posted item joins the queue and nothing else happens to the writer.
LEMMA PostFits ==
  ASSUME WorkFits, NEW it \in Items, Post(it)
  PROVE  queue' \in Seq(Items)
BY DEF WorkFits, Post

\* The queue, the batch and the root lock stay consistent.
LEMMA WorkStep ==
  ASSUME Shape, Next
  PROVE  WorkFits'
<1> USE DEF Shape
<1>0. /\ kept \subseteq Store
      /\ \A i \in 1..Len(queue) : queue[i] \in Items
      /\ \A i \in 1..Len(w.batch) : w.batch[i] \in Items
      /\ Len(w.batch) \in Nat /\ w.i \in Nat \ {0}
      /\ w.i + 1 \in Nat \ {0} /\ 1 \in Nat \ {0}
  BY DiskAssumption DEF Types, WorkFits, Works
<1>1. CASE UNCHANGED <<queue, w, root>>
  BY <1>1 DEF WorkFits
<1>2. ASSUME NEW it \in Items, Post(it), UNCHANGED <<w, root>>,
             w.pc # "dead"
      PROVE  WorkFits'
  BY <1>2, PostFits DEF WorkFits
\* A step of the writer that stays in its place.
<1>3. ASSUME NEW s \in Store, Enqueue(s) PROVE WorkFits'
  <2>1. BlockItem(s) \in Items
    BY <1>3, BlockItemFits DEF Enqueue, JobsFit
  <2>2. QED BY <1>1, <1>2, <1>3, <2>1 DEF Enqueue, CanPost, Alive, lifeVars, rootVars
<1>4. ASSUME NEW s \in Store, Sentinel(s) PROVE WorkFits'
  <2>1. Item("fence", s, NoBlock) \in Items
    BY ItemsFit
  <2>2. QED BY <1>1, <1>2, <1>4, <2>1 DEF Sentinel, CanPost, Alive, lifeVars, rootVars
<1>5. ASSUME NEW b \in Block, Touch(b) PROVE WorkFits'
  <2>1. PICK kind \in {"access", "cleanup"} : Post(Item(kind, NoStore, b))
    BY <1>5 DEF Touch
  <2>2. Item(kind, NoStore, b) \in Items
    BY ItemsFit
  <2>3. QED BY <1>2, <1>5, <2>1, <2>2 DEF Touch, CanPost, Alive, rootVars
<1>6. CASE TakeBatch
  <2>1. queue' = <<>> /\ UNCHANGED root /\ w.pc = "idle" /\ queue \in Seq(Items)
    BY <1>6 DEF TakeBatch, AtWork, WorkFits, rootVars
  <2>2. w'.pc = "encode" /\ w' \in Works
    <3>1. PICK touch \in BOOLEAN :
            w' = [w EXCEPT !.pc = "encode", !.batch = queue, !.i = 1, !.touch = touch]
      BY <1>6 DEF TakeBatch
    <3>2. QED BY <1>0, <2>1, <3>1 DEF WorkFits, Works
  <2>3. QED BY <2>1, <2>2 DEF WorkFits
<1>7. CASE Encode
  <2>1. /\ Current \in Items /\ w.i \in 1..Len(w.batch) /\ w.pc = "encode"
        /\ UNCHANGED <<queue, root>>
    BY <1>0, <1>7 DEF Encode, Current, AtWork, lifeVars, rootVars
  <2>2. CASE w' = [w EXCEPT !.i = @ + 1]
    BY <2>1, <2>2 DEF WorkFits, Works
  <2>3. CASE w' = [w EXCEPT !.batch[w.i] = Spent, !.i = @ + 1,
                            !.owe = Owed(Current.store, TRUE)]
    <3>1. Owed(Current.store, TRUE) \in Store \cup {NoStore}
      BY <1>0, OwedType
    <3>2. [w.batch EXCEPT ![w.i] = Spent] \in Seq(Items)
      BY <2>1, ItemsFit DEF WorkFits, Works
    <3>3. w'.pc = "encode" /\ w' \in Works
      BY <1>0, <2>1, <2>3, <3>1, <3>2 DEF WorkFits, Works
    <3>4. QED BY <2>1, <3>3 DEF WorkFits
  <2>4. CASE /\ Current.kind = "block"
             /\ w' = [w EXCEPT !.batch[w.i].size = Current.final, !.i = @ + 1]
    <3>1. [Current EXCEPT !.size = Current.final] \in Items
      BY <2>1, <2>4, ItemsFit
    <3>2. [w.batch EXCEPT ![w.i] = [Current EXCEPT !.size = Current.final]] \in Seq(Items)
      BY <2>1, <3>1 DEF WorkFits, Works
    <3>3. w' = [w EXCEPT !.batch = [w.batch EXCEPT
                                      ![w.i] = [Current EXCEPT !.size = Current.final]],
                         !.i = w.i + 1]
      BY <2>4 DEF Current
    <3>4. w'.pc = "encode" /\ w' \in Works
      BY <1>0, <2>1, <3>2, <3>3 DEF WorkFits, Works
    <3>5. QED BY <2>1, <3>4 DEF WorkFits
  <2>5. QED BY <1>7, <2>2, <2>3, <2>4 DEF Encode
<1>8. CASE EnterRoot
  <2>1. /\ w' = [w EXCEPT !.pc = "publish", !.i = 1]
        /\ UNCHANGED queue /\ root' = "writer"
    BY <1>8 DEF EnterRoot, lifeVars
  <2>2. w' \in Works /\ w'.pc = "publish" /\ w'.i = 1
    BY <1>0, <2>1 DEF WorkFits, Works
  <2>3. QED BY <2>1, <2>2 DEF WorkFits
\* In the root lock, one item after the other is spent.
<1>9. ASSUME NEW final \in SUBSET Store, NEW owe \in Store \cup {NoStore},
             w.pc = "publish", w.i \in 1..Len(w.batch), UNCHANGED <<queue, root>>,
             w' = [w EXCEPT !.batch = [w.batch EXCEPT ![w.i] = Spent], !.i = w.i + 1,
                            !.final = final, !.owe = owe]
      PROVE  WorkFits'
  <2>1. [w.batch EXCEPT ![w.i] = Spent] \in Seq(Items)
    BY <1>9, ItemsFit DEF WorkFits, Works
  <2>2. /\ w'.pc = "publish" /\ w'.i = w.i + 1 /\ w' \in Works
        /\ w'.batch = [w.batch EXCEPT ![w.i] = Spent]
    BY <1>0, <1>9, <2>1 DEF WorkFits, Works
  <2>3. \A i \in 1..Len(w'.batch) : i < w'.i => w'.batch[i].kind = "spent"
    BY <1>0, <1>9, <2>2, ItemsFit DEF WorkFits, Works
  <2>4. QED BY <1>9, <2>2, <2>3 DEF WorkFits
<1>10. CASE PublishBlock
  <2>1. PICK failed \in BOOLEAN : w' = [Settled(w.i) EXCEPT !.owe = Owed(Current.store, failed)]
    BY <1>10 DEF PublishBlock
  <2>2. Owed(Current.store, failed) \in Store \cup {NoStore}
    BY <1>0, OwedType
  <2>3. w' = [w EXCEPT !.batch = [w.batch EXCEPT ![w.i] = Spent], !.i = w.i + 1,
                       !.final = w.final, !.owe = Owed(Current.store, failed)]
    BY <2>1 DEF Settled, WorkFits, Works
  <2>4. w.final \in SUBSET Store
    BY DEF WorkFits, Works
  <2>5. w.pc = "publish" /\ w.i \in 1..Len(w.batch) /\ UNCHANGED <<queue, root>>
    BY <1>0, <1>10 DEF PublishBlock, AtWork, lifeVars
  <2>6. QED BY <1>9, <2>2, <2>3, <2>4, <2>5
<1>11. CASE PublishOther
  <2>1. Current \in Items
    BY <1>0, <1>11 DEF PublishOther, Current
  <2> DEFINE final == IF Current.kind = "fence" THEN w.final \cup {Current.store} ELSE w.final
  <2>2. final \in SUBSET Store
    BY <1>0, <2>1 DEF WorkFits, Works, Items
  <2>3. w' = [w EXCEPT !.batch = [w.batch EXCEPT ![w.i] = Spent], !.i = w.i + 1,
                       !.final = final, !.owe = w.owe]
    BY <1>11 DEF PublishOther, Settled, WorkFits, Works
  <2>4. w.owe \in Store \cup {NoStore}
    BY DEF WorkFits, Works
  <2>5. w.pc = "publish" /\ w.i \in 1..Len(w.batch) /\ UNCHANGED <<queue, root>>
    BY <1>0, <1>11 DEF PublishOther, AtWork, lifeVars
  <2> HIDE DEF final
  <2>6. QED BY <1>9, <2>2, <2>3, <2>4, <2>5
<1>12. CASE WriterSeals
  <2>1. w.owe \in Store /\ w.pc \notin {"stuck", "idle", "dead"}
    BY <1>12 DEF WriterSeals, WorkFits, Works
  <2>2. Item("fence", w.owe, NoBlock) \in Items
    BY <2>1, ItemsFit
  <2>3. CASE w' = [w EXCEPT !.owe = NoStore] /\ queue' \in Seq(Items)
    BY <1>12, <2>1, <2>3 DEF WriterSeals, WorkFits, Works
  <2>4. CASE w' = [w EXCEPT !.pc = "stuck"] /\ root # "free" /\ UNCHANGED queue
    BY <1>12, <2>1, <2>4 DEF WriterSeals, WorkFits, Works
  <2>5. queue \in Seq(Items)
    BY DEF WorkFits
  <2>6. Post(Item("fence", w.owe, NoBlock)) => queue' \in Seq(Items)
    BY <2>2, PostFits
  <2>7. QED BY <1>12, <2>3, <2>4, <2>5, <2>6 DEF WriterSeals, lifeVars
<1>13. CASE Account
  <2>1. w.pc = "publish" /\ \A i \in 1..Len(w.batch) : w.batch[i].kind = "spent"
    BY <1>0, <1>13 DEF Account, AtWork, WorkFits
  <2>2. PICK pc \in {"settled", "finalize"}, final \in SUBSET Store :
          w' = [w EXCEPT !.pc = pc, !.final = final]
    BY <1>0, <1>13 DEF Account, WorkFits, Works
  <2>3. QED BY <1>13, <2>1, <2>2 DEF Account, WorkFits, Works, lifeVars
<1>14. CASE BatchRaises
  <2> DEFINE spent == [i \in DOMAIN w.batch |-> Spent]
  <2>0. w.batch \in Seq(Items)
    BY DEF WorkFits, Works
  <2>1. spent \in Seq(Items) /\ \A i \in 1..Len(spent) : spent[i].kind = "spent"
    <3>1. Spent \in Items /\ Spent.kind = "spent"
      BY ItemsFit
    <3>2. DOMAIN w.batch = 1..Len(w.batch) /\ Len(w.batch) \in Nat
      BY <2>0
    <3>3. QED BY <3>1, <3>2
  <2>2. w' = [w EXCEPT !.pc = "settled", !.batch = spent]
    BY <1>14 DEF BatchRaises
  <2> HIDE DEF spent
  <2>3. w'.pc = "settled" /\ w' \in Works /\ w'.batch = spent
    BY <2>1, <2>2 DEF WorkFits, Works
  <2>4. root' = "free" /\ UNCHANGED queue
    BY <1>14 DEF BatchRaises, lifeVars
  <2>5. QED BY <2>1, <2>3, <2>4 DEF WorkFits
<1>15. ASSUME NEW s \in Store, FinalizeFence(s) PROVE WorkFits'
  BY <1>15 DEF FinalizeFence, AtWork, WorkFits, Works, lifeVars, rootVars
<1>16. CASE CompleteBatch
  BY <1>16 DEF CompleteBatch, AtWork, WorkFits, Works, NoWork, rootVars
<1>17. CASE WriterExits
  BY <1>17 DEF WriterExits, AtWork, WorkFits, Works, lifeVars, rootVars
<1>18. (\E s \in Store : (Write(s) /\ ~Enqueue(s) /\ ~Sentinel(s)) \/ Forget(s))
         \/ Clearing \/ Shutdown \/ Stopping \/ (\E b \in Block : Evict(b))
       => UNCHANGED <<queue, w, root>>
  BY ZenonT(60) DEF Write, BeginFence, StartWrite, Admit, Freeze, Settle, Skip, StoreRaises, Seal, Mark,
     Unpin, Forget, Clearing, StartClear, Wipe, FailUnsettled, EndClear, Shutdown, Stopping,
     StopWriter, FinalizeShutdown, Evict, lifeVars, rootVars
<1>19. QED BY <1>1, <1>3, <1>4, <1>5, <1>6, <1>7, <1>8, <1>10, <1>11, <1>12, <1>13, <1>14,
              <1>15, <1>16, <1>17, <1>18 DEF Next, Writer

-----------------------------------------------------------------------------
(* The rest of the types.                                                  *)

\* Fences stay fences.
LEMMA FenceStep ==
  ASSUME Shape, Next
  PROVE  fence' \in [Store -> Fences] /\ kept' \subseteq Fenced
<1> USE DEF Shape, Types
<1>0. /\ kept \subseteq Store
      /\ \A s \in Store : fence[s] \in Fences
  BY DiskAssumption
<1>1. CASE UNCHANGED <<fence, kept>>
  BY <1>1
<1>2. ASSUME NEW s \in Store, BeginFence(s) \/ Forget(s)
      PROVE  fence' \in [Store -> Fences] /\ kept' \subseteq Fenced
  BY <1>2 DEF BeginFence, Forget
<1>3. ASSUME NEW s \in Store, StartWrite(s)
      PROVE  fence' \in [Store -> Fences] /\ kept' \subseteq Fenced
  <2>1. PICK failed \in BOOLEAN :
          fence' \in {fence, [fence EXCEPT ![s].expected = @ + 1,
                                      ![s].failed = IF failed THEN @ + 1 ELSE @,
                                      ![s].active = IF failed THEN @ ELSE @ + 1]}
    BY <1>3 DEF StartWrite
  <2>2. UNCHANGED kept
    BY <1>3 DEF StartWrite
  <2>3. QED BY <1>0, <2>1, <2>2 DEF Fences
<1>4. ASSUME NEW s \in Store, Settle(s)
      PROVE  fence' \in [Store -> Fences] /\ kept' \subseteq Fenced
  <2>1. job[s].out \in Outcomes
    BY DEF JobsFit, Jobs
  <2>2. QED BY <1>4, <2>1, CountedType DEF Settle
<1>5. ASSUME NEW s \in Store, Skip(s)
      PROVE  fence' \in [Store -> Fences] /\ kept' \subseteq Fenced
  <2> DEFINE n == Len(Chain[s]) + 1 - job[s].i
  <2>1. n \in Nat
    BY ChainLength DEF JobsFit, JobFits, Jobs
  <2>2. /\ UNCHANGED kept
        /\ fence' \in {fence, [fence EXCEPT ![s].expected = @ + n, ![s].dropped = @ + n]}
    BY <1>5 DEF Skip
  <2> HIDE DEF n
  <2>3. QED BY <1>0, <2>1, <2>2 DEF Fences
<1>6. ASSUME NEW s \in Store, Seal(s) \/ Mark(s) \/ FinalizeFence(s)
      PROVE  fence' \in [Store -> Fences] /\ kept' \subseteq Fenced
  <2>0. \A f \in Fences : /\ [f EXCEPT !.sealed = TRUE] \in Fences
                         /\ [f EXCEPT !.enq = TRUE] \in Fences
                         /\ [f EXCEPT !.enq = FALSE] \in Fences
                         /\ [f EXCEPT !.done = TRUE] \in Fences
    BY DEF Fences
  <2>1. CASE Seal(s)
    <3>1. fence' \in {fence, [fence EXCEPT ![s].sealed = TRUE]} /\ UNCHANGED kept
      BY <2>1 DEF Seal
    <3>2. QED BY <1>0, <2>0, <3>1
  <2>2. CASE Mark(s)
    BY <1>0, <2>0, <2>2 DEF Mark
  <2>3. CASE FinalizeFence(s)
    BY <1>0, <2>0, <2>3 DEF FinalizeFence
  <2>4. QED BY <1>6, <2>1, <2>2, <2>3
<1>7. ASSUME NEW s, NEW failed \in BOOLEAN, fence' = Completed(s, failed), UNCHANGED kept
      PROVE  fence' \in [Store -> Fences] /\ kept' \subseteq Fenced
  BY <1>7, CompletedType
<1>8. ASSUME NEW s \in Store, NEW S, UNCHANGED kept,
             fence' = Failed(S) \/ fence' = [Failed(S) EXCEPT ![s].sfail = TRUE]
      PROVE  fence' \in [Store -> Fences] /\ kept' \subseteq Fenced
  <2>1. Failed(S) \in [Store -> Fences] /\ Failed(S)[s] \in Fences
    BY FailedType
  <2>2. \A f \in Fences : [f EXCEPT !.sfail = TRUE] \in Fences
    BY DEF Fences
  <2>3. QED BY <1>8, <2>1, <2>2
<1>9. ASSUME NEW s \in Store, Sentinel(s)
      PROVE  fence' \in [Store -> Fences] /\ kept' \subseteq Fenced
  BY <1>1, <1>8, <1>9 DEF Sentinel
<1>10. CASE Encode
  BY <1>1, <1>7, <1>10 DEF Encode
<1>11. CASE PublishBlock
  BY <1>7, <1>11 DEF PublishBlock
<1>12. CASE WriterSeals
  <2>1. w.owe \in Store
    BY <1>12 DEF WriterSeals, WorkFits, Works
  <2>2. CASE fence' = [fence EXCEPT ![w.owe].enq = TRUE]
    BY <1>0, <1>12, <2>1, <2>2, ZenonT(60) DEF WriterSeals, Fences
  <2>3. QED BY <1>8, <1>12, <2>1, <2>2 DEF WriterSeals
<1>13. CASE Account \/ FailUnsettled
  <2>1. PICK S : fence' = fence \/ fence' = Failed(S)
    BY <1>13 DEF Account, FailUnsettled
  <2>2. UNCHANGED kept
    BY <1>13 DEF Account, FailUnsettled
  <2>3. QED BY <2>1, <2>2, FailedType
<1>14. TakeBatch \/ EnterRoot \/ PublishOther \/ BatchRaises \/ CompleteBatch \/ WriterExits
         \/ StartClear \/ Wipe \/ EndClear \/ Shutdown \/ Stopping
         \/ (\E s \in Store : \/ Admit(s) \/ Freeze(s) \/ Enqueue(s) \/ StoreRaises(s)
                              \/ Unpin(s))
         \/ (\E b \in Block : Touch(b) \/ Evict(b))
       => UNCHANGED <<fence, kept>>
  BY DEF TakeBatch, EnterRoot, PublishOther, BatchRaises, CompleteBatch, WriterExits,
     StartClear, Wipe, EndClear, Shutdown, Stopping, StopWriter, FinalizeShutdown, Admit,
     Freeze, Enqueue, StoreRaises, Unpin, Touch, Evict, fenceVars
<1>15. QED BY <1>1, <1>2, <1>3, <1>4, <1>5, <1>6, <1>9, <1>10, <1>11, <1>12, <1>13, <1>14
           DEF Next, Write, Writer, Clearing

\* The index: nothing but the blocks of items gets a row or a pin.
LEMMA IndexTypeStep ==
  ASSUME Shape, Next
  PROVE  rows' \in [Block -> Nat] /\ pins' \subseteq Store \X Block
<1> USE DEF Shape, Types
<1>1. CASE UNCHANGED <<rows, pins>>
  BY <1>1
<1>2. ASSUME NEW s \in Store, Unpin(s)
      PROVE  rows' \in [Block -> Nat] /\ pins' \subseteq Store \X Block
  BY <1>2 DEF Unpin
<1>3. CASE EnterRoot \/ WriterSeals \/ Account \/ Wipe \/ FinalizeShutdown
  BY <1>3 DEF EnterRoot, WriterSeals, Account, Wipe, FinalizeShutdown, fenceVars, rootVars
<1>4. CASE PublishBlock
  <2>1. Current \in Items /\ Current.kind = "block"
    BY <1>4 DEF PublishBlock, Current, WorkFits, Works
  <2>2. Current.block \in Block /\ Current.store \in Store /\ Current.born \in Nat
    BY <2>1 DEF Items
  <2>3. rows' \in {rows, [rows EXCEPT ![Current.block] = Current.born]}
    BY <1>4 DEF PublishBlock
  <2>4. pins' \in {pins, pins \cup {<<Current.store, Current.block>>}}
    BY <1>4 DEF PublishBlock
  <2>5. QED BY <2>2, <2>3, <2>4
<1>5. CASE PublishOther
  BY <1>5 DEF PublishOther, Cleaned
<1>6. ASSUME NEW b \in Block, Evict(b)
      PROVE  rows' \in [Block -> Nat] /\ pins' \subseteq Store \X Block
  BY <1>6 DEF Evict
<1>7. \/ TakeBatch \/ Encode \/ BatchRaises \/ CompleteBatch \/ WriterExits \/ StartClear
      \/ FailUnsettled \/ EndClear \/ Shutdown \/ StopWriter
      \/ (\E s \in Store : Forget(s) \/ FinalizeFence(s) \/ (Write(s) /\ ~Unpin(s)))
      \/ (\E b \in Block : Touch(b))
      => UNCHANGED <<rows, pins>>
  BY ZenonT(60) DEF TakeBatch, Encode, BatchRaises, CompleteBatch, WriterExits, StartClear,
     FailUnsettled, EndClear, Shutdown, StopWriter, Forget, FinalizeFence, Write, BeginFence,
     StartWrite, Admit, Freeze, Enqueue, Settle, Skip, StoreRaises, Seal, Sentinel, Mark,
     Touch, rootVars
<1>8. QED BY <1>1, <1>2, <1>3, <1>4, <1>5, <1>6, <1>7 DEF Next, Writer, Clearing, Stopping

\* Lengths, counters and flags.
LEMMA TypesStep ==
  ASSUME Shape, Next
  PROVE  Types'
<1> USE DEF Types
<1>1. \A s \in Store : /\ job[s].pc \in Working => Writing(s) \in Block
                       /\ job[s].res \in Int
                       /\ job[s].i \in 1..Len(Chain[s]) =>
                            /\ Size[s][job[s].i].estimate \in Int
                            /\ Size[s][job[s].i].frozen \in Int
  BY ChainLength DEF Shape, JobsFit, JobFits, Jobs, Writing, Working
<1> DEFINE T1 == /\ accepting \in BOOLEAN /\ shutting \in BOOLEAN /\ stopped \in BOOLEAN
                 /\ finalized \in BOOLEAN
                 /\ clearing \in {"idle", "quiescing", "failing", "reopening"}
                 /\ era \in 1..MaxEra /\ (clearing = "quiescing" => era < MaxEra)
           T2 == upsets \in Nat /\ producers \in Int /\ pending \in Int
           T3 == bytes \in Int /\ cut \subseteq Block
<1>2. T1'
  <2>1. CASE UNCHANGED <<accepting, clearing, era, shutting, stopped, finalized>>
    BY <2>1 DEF Shape
  <2>2. CASE StartClear \/ FailUnsettled \/ EndClear \/ Shutdown \/ Stopping
    BY <2>2 DEF Shape, StartClear, FailUnsettled, EndClear, Shutdown, Stopping, StopWriter,
       FinalizeShutdown, lifeVars, stopVars
  <2>3. CASE Wipe
    <3>1. era' \in 1..MaxEra
      BY <2>3, DiskAssumption DEF Shape, Wipe
    <3>2. QED BY <2>3, <3>1 DEF Shape, Wipe, lifeVars
  <2>4. QED BY <2>1, <2>2, <2>3, WriteFrame, WriterFrame, OtherFrame DEF Next, Clearing
<1>3. T2'
  <2>1. upsets' \in Nat
    <3>1. \A s \in Store : Write(s) \/ Forget(s) => upsets' \in {upsets, upsets + 1}
      BY ZenonT(40) DEF Write, BeginFence, StartWrite, Admit, Freeze, Enqueue, Settle, Skip,
         StoreRaises, Seal, Sentinel, Mark, Unpin, Forget, Upset
    <3>2. Writer => upsets' \in {upsets, upsets + 1}
      BY DEF Writer, TakeBatch, Encode, EnterRoot, PublishBlock, PublishOther, WriterSeals,
         Account, BatchRaises, FinalizeFence, CompleteBatch, WriterExits, Upset
    <3>3. \A b \in Block : Touch(b) \/ Evict(b) => upsets' \in {upsets, upsets + 1}
      BY DEF Touch, Evict, Upset
    <3>4. upsets' \in {upsets, upsets + 1}
      BY <3>1, <3>2, <3>3, StopFrame DEF Next
    <3>5. QED BY <3>4 DEF Shape
  <2>2. producers' \in Int
    <3>1. \A s \in Store : Write(s) \/ Forget(s) =>
            producers' \in {producers, producers + 1, producers - 1}
      BY ZenonT(40) DEF Write, BeginFence, StartWrite, Admit, Freeze, Enqueue, Settle, Skip,
         StoreRaises, Seal, Sentinel, Mark, Unpin, Forget, Post, lifeVars
    <3>2. producers' \in {producers, producers + 1, producers - 1}
      BY <3>1, StopFrame, WriterFrame, OtherFrame DEF Next
    <3>3. QED BY <3>2 DEF Shape
  <2>3. pending' \in Int
    <3>1. \A s \in Store : Write(s) \/ Forget(s) => pending' \in {pending, pending + 1}
      BY ZenonT(40) DEF Write, BeginFence, StartWrite, Admit, Freeze, Enqueue, Settle, Skip,
         StoreRaises, Seal, Sentinel, Mark, Unpin, Forget, Post, lifeVars
    <3>2. Writer => pending' \in {pending, pending + 1, pending - Len(w.batch)}
      BY DEF Writer, TakeBatch, Encode, EnterRoot, PublishBlock, PublishOther, WriterSeals,
         Account, BatchRaises, FinalizeFence, CompleteBatch, WriterExits, Post, lifeVars
    <3>3. \A b \in Block : Touch(b) \/ Evict(b) => pending' \in {pending, pending + 1}
      BY DEF Touch, Evict, Post, lifeVars
    <3>4. pending' \in {pending, pending + 1, pending - Len(w.batch)}
      BY <3>1, <3>2, <3>3, StopFrame DEF Next
    <3>5. Len(w.batch) \in Nat
      BY DEF Shape, WorkFits, Works
    <3>6. QED BY <3>4, <3>5 DEF Shape
  <2>4. QED BY <2>1, <2>2, <2>3
<1>4. T3'
  <2>1. ASSUME NEW s \in Store, Write(s) \/ Forget(s) PROVE T3'
    <3>1. CASE Admit(s)
      BY <1>1, <3>1 DEF Shape, JobsFit, JobFits, Jobs, Admit, Working
    <3>2. CASE Freeze(s)
      <4>1. job[s].res \in Int /\ Size[s][job[s].i].frozen \in Int
        BY <1>1, <3>2 DEF Shape, JobsFit, JobFits, Jobs, Freeze, Working
      <4>2. QED BY <3>2, <4>1 DEF Shape, Freeze
    <3>3. CASE Enqueue(s)
      BY <1>1, <3>3 DEF Shape, Enqueue
    <3>4. QED BY <2>1, <3>1, <3>2, <3>3
         DEF Shape, Write, BeginFence, StartWrite, Settle, Skip, StoreRaises, Seal, Sentinel,
             Mark, Unpin, Forget
  <2>2. ASSUME Writer PROVE T3'
    <3>1. CASE Encode
      <4>1. Current \in Items
        BY <3>1 DEF Encode, Current, Shape, WorkFits, Works
      <4>2. Current.size \in Int /\ Current.final \in Int
        BY <4>1, ItemsFit
      <4>3. /\ UNCHANGED cut
            /\ bytes' \in {bytes, bytes - Current.size, bytes - Current.size + Current.final}
        BY <3>1 DEF Encode
      <4>4. QED BY <4>2, <4>3 DEF Shape
    <3>2. CASE PublishBlock
      <4>1. Current \in Items
        BY <3>2 DEF PublishBlock, Current, Shape, WorkFits, Works
      <4>2. QED BY <3>2, <4>1, ItemsFit DEF Shape, PublishBlock
    <3>3. CASE BatchRaises
      <4>1. BytesOf(w.batch) \in Nat
        BY BytesOfType DEF Shape, WorkFits, Works
      <4>2. QED BY <3>3, <4>1 DEF Shape, BatchRaises
    <3>4. QED BY <2>2, <3>1, <3>2, <3>3
         DEF Shape, Writer, TakeBatch, EnterRoot, PublishOther, WriterSeals, Account,
             FinalizeFence, CompleteBatch, WriterExits
  <2>3. \A b \in Block : Touch(b) \/ Evict(b) => T3'
    BY DEF Shape, Touch, Evict
  <2>4. Clearing \/ Shutdown \/ Stopping => T3'
    BY StopFrame DEF Shape
  <2>5. QED BY <2>1, <2>2, <2>3, <2>4 DEF Next
<1>5. QED BY <1>2, <1>3, <1>4, FenceStep, IndexTypeStep

\* The shape is inductive on its own.
LEMMA ShapeStep ==
  ASSUME Shape, [Next]_vars
  PROVE  Shape'
<1>1. CASE Next
  <2>1. era \in Nat
    BY DiskAssumption DEF Shape, Types
  <2>2. QED BY <1>1, <2>1, JobStep, WorkStep, TypesStep DEF Shape
<1>2. CASE UNCHANGED vars
  BY <1>2 DEF Shape, Types, JobsFit, WorkFits, vars, lifeVars, fenceVars, rootVars, stopVars
<1>3. QED BY <1>1, <1>2

\* It holds at the start.
LEMMA ShapeInit == Init => Shape
<1>1. SUFFICES ASSUME Init PROVE Shape
  OBVIOUS
<1>2. Types
  <2>1. NoFence \in Fences
    BY DEF NoFence, Fences
  <2>2. 1 \in 1..MaxEra
    BY DiskAssumption
  <2>3. fence \in [Store -> Fences] /\ rows \in [Block -> Nat]
    BY <1>1, <2>1 DEF Init
  <2>4. kept \subseteq Fenced /\ cut \subseteq Block /\ pins \subseteq Store \X Block
    BY <1>1 DEF Init
  <2>5. /\ clearing = "idle" /\ era \in 1..MaxEra
        /\ accepting = TRUE /\ shutting = FALSE /\ stopped = FALSE /\ finalized = FALSE
        /\ producers = 0 /\ pending = 0 /\ bytes = 0 /\ upsets = 0
    BY <1>1, <2>2 DEF Init
  <2>6. /\ accepting \in BOOLEAN /\ shutting \in BOOLEAN /\ stopped \in BOOLEAN
        /\ finalized \in BOOLEAN
    BY <2>5
  <2>7. producers \in Int /\ pending \in Int /\ bytes \in Int /\ upsets \in Nat
    BY <2>5
  <2>8. /\ clearing \in {"idle", "quiescing", "failing", "reopening"}
        /\ clearing = "quiescing" => era < MaxEra
    BY <2>5
  <2>9. QED BY <2>3, <2>4, <2>5, <2>6, <2>7, <2>8 DEF Types
<1>3. JobsFit
  <2>1. ASSUME NEW s \in Store PROVE JobFits(s, NoJob)
    <3>1. 1 \in 1..(Len(Chain[s]) + 1)
      BY ChainLength
    <3>2. QED BY <3>1, FreshFits
  <2>2. QED BY <1>1, <2>1 DEF Init, JobsFit, JobFits
<1>4. WorkFits
  <2>1. NoWork \in Works /\ NoWork.pc = "idle" /\ NoWork.batch = <<>> /\ NoWork.owe = NoStore
    BY DEF NoWork, Works
  <2>2. QED BY <1>1, <2>1 DEF Init, WorkFits
<1>5. QED BY <1>2, <1>3, <1>4 DEF Shape

-----------------------------------------------------------------------------
(* The two counters, and the order of the end.                             *)

\* The calls at work, after one call has moved.
LEMMA InWriteMoves ==
  ASSUME NEW s \in Store, job \in [Store -> Jobs], NEW j, job' = [job EXCEPT ![s] = j]
  PROVE  /\ job[s].pc \notin Working /\ j.pc \in Working =>
              Cardinality(InWrite') = Cardinality(InWrite) + 1
         /\ job[s].pc \in Working /\ j.pc \notin Working =>
              Cardinality(InWrite') = Cardinality(InWrite) - 1
         /\ (job[s].pc \in Working <=> j.pc \in Working) => InWrite' = InWrite
<1>1. IsFiniteSet(InWrite)
  BY DiskAssumption, FS_Subset DEF InWrite
<1>2. \A t \in Store : job'[t] = IF t = s THEN j ELSE job[t]
  OBVIOUS
<1>3. InWrite = {t \in Store : job[t].pc \in Working}
  BY DEF InWrite, Working
<1>4. InWrite' = {t \in Store : job'[t].pc \in Working}
  BY DEF InWrite, Working
<1>5. ASSUME job[s].pc \notin Working, j.pc \in Working
      PROVE  Cardinality(InWrite') = Cardinality(InWrite) + 1
  <2>1. InWrite' = InWrite \cup {s} /\ s \notin InWrite
    BY <1>2, <1>3, <1>4, <1>5
  <2>2. QED BY <1>1, <2>1, FS_AddElement
<1>6. ASSUME job[s].pc \in Working, j.pc \notin Working
      PROVE  Cardinality(InWrite') = Cardinality(InWrite) - 1
  <2>1. InWrite' = InWrite \ {s} /\ s \in InWrite
    BY <1>2, <1>3, <1>4, <1>6
  <2>2. QED BY <1>1, <2>1, FS_RemoveElement
<1>7. ASSUME job[s].pc \in Working <=> j.pc \in Working
      PROVE  InWrite' = InWrite
  BY <1>2, <1>3, <1>4, <1>7
<1>8. QED BY <1>5, <1>6, <1>7

\* Both counters follow what they count.
LEMMA CountersStep ==
  ASSUME Shape, CountersExact, [Next]_vars
  PROVE  CountersExact'
<1> DEFINE Queued == pending = Len(queue) + Len(w.batch)
           Busy == producers = Cardinality(InWrite)
<1> USE DEF Shape
<1>0. /\ queue \in Seq(Items) /\ w.batch \in Seq(Items)
      /\ Len(queue) \in Nat /\ Len(w.batch) \in Nat
  BY DEF WorkFits, Works
<1>1. Queued'
  <2>1. CASE UNCHANGED <<pending, queue, w>>
    BY <2>1 DEF CountersExact
  <2>2. ASSUME NEW it, Post(it), Len(w'.batch) = Len(w.batch) PROVE Queued'
    <3>1. Len(Append(queue, it)) = Len(queue) + 1
      <4>1. queue \in Seq(Items \cup {it})
        BY <1>0
      <4>2. QED BY <4>1
    <3>2. Len(queue') = Len(queue) + 1 /\ pending' = pending + 1
      BY <2>2, <3>1 DEF Post
    <3> DEFINE m == Len(w.batch)
               n == Len(w'.batch)
    <3>3. pending = Len(queue) + m /\ m \in Nat /\ n = m /\ Len(queue) \in Nat
      BY <1>0, <2>2 DEF CountersExact
    <3>4. SUFFICES pending' = Len(queue') + n
      OBVIOUS
    <3> HIDE DEF m, n
    <3>5. QED BY <3>2, <3>3
  <2>3. CASE UNCHANGED <<pending, queue>> /\ Len(w'.batch) = Len(w.batch)
    BY <2>3 DEF CountersExact
  <2>4. CASE TakeBatch
    <3>1. w.batch = <<>> /\ queue' = <<>> /\ w'.batch = queue /\ UNCHANGED pending
      BY <2>4 DEF TakeBatch, AtWork, WorkFits, Works
    <3>2. QED BY <1>0, <3>1 DEF CountersExact
  <2>5. CASE CompleteBatch
    BY <1>0, <2>5 DEF CompleteBatch, CountersExact, NoWork
  <2>6. ASSUME NEW s \in Store, Write(s) \/ Forget(s) PROVE Queued'
    BY <2>1, <2>2, <2>6, WriteFrame DEF Write, BeginFence, StartWrite, Admit, Freeze, Enqueue,
       Settle, Skip, StoreRaises, Seal, Sentinel, Mark, Unpin, Forget, lifeVars
  <2>7. Encode \/ PublishBlock \/ PublishOther \/ EnterRoot \/ Account \/ BatchRaises
          \/ WriterExits \/ (\E s \in Store : FinalizeFence(s))
        => UNCHANGED <<pending, queue>> /\ Len(w'.batch) = Len(w.batch)
    <3>1. w \in Works /\ w.batch \in Seq(Items)
      BY <1>0 DEF WorkFits
    <3>2. ASSUME Encode \/ PublishBlock \/ PublishOther \/ BatchRaises
          PROVE  Len(w'.batch) = Len(w.batch)
      <4>1. /\ \A x : Len([w.batch EXCEPT ![w.i] = x]) = Len(w.batch)
            /\ Len([i \in DOMAIN w.batch |-> Spent]) = Len(w.batch)
        BY <3>1
      <4>2. \/ w'.batch \in {w.batch, [i \in DOMAIN w.batch |-> Spent]}
            \/ \E x : w'.batch = [w.batch EXCEPT ![w.i] = x]
        <5>1. CASE Encode
          BY <3>1, <5>1 DEF Encode, Works
        <5>2. CASE PublishBlock \/ PublishOther
          <6>1. PICK owe, final :
                  \/ w' = [Settled(w.i) EXCEPT !.owe = owe]
                  \/ w' = [Settled(w.i) EXCEPT !.final = final]
            BY <5>2 DEF PublishBlock, PublishOther
          <6>2. w'.batch = [w.batch EXCEPT ![w.i] = Spent]
            BY <3>1, <6>1 DEF Settled, Works
          <6>3. QED BY <6>2
        <5>3. CASE BatchRaises
          BY <3>1, <5>3 DEF BatchRaises, Works
        <5>4. QED BY <3>2, <5>1, <5>2, <5>3
      <4>3. QED BY <4>1, <4>2
    <3>3. QED BY <3>1, <3>2 DEF Encode, PublishBlock, PublishOther, EnterRoot, Account,
               BatchRaises, WriterExits, FinalizeFence, Works, lifeVars
  <2>8. CASE WriterSeals
    <3>1. Len(w'.batch) = Len(w.batch)
      BY <2>8 DEF WriterSeals, WorkFits, Works
    <3>2. QED BY <2>2, <2>3, <2>8, <3>1 DEF WriterSeals, lifeVars
  <2>9. ASSUME NEW b \in Block, Touch(b) \/ Evict(b) PROVE Queued'
    BY <2>1, <2>2, <2>9, OtherFrame DEF Touch, Evict, lifeVars
  <2>10. QED BY <2>1, <2>3, <2>4, <2>5, <2>6, <2>7, <2>8, <2>9, StopFrame
             DEF Next, Writer, vars, lifeVars
<1>2. Busy'
  <2>1. CASE UNCHANGED <<producers, job>>
    BY <2>1 DEF CountersExact, InWrite
  <2>2. ASSUME NEW s \in Store, NEW j, job' = [job EXCEPT ![s] = j], UNCHANGED producers,
               job[s].pc \in Working <=> j.pc \in Working
        PROVE  Busy'
    BY <2>2, InWriteMoves DEF CountersExact, JobsFit
  <2>3. ASSUME NEW s \in Store, NEW pc, To(s, pc), UNCHANGED producers,
               job[s].pc \notin Working, pc \notin Working
        PROVE  Busy'
    <3>1. /\ job' = [job EXCEPT ![s] = [job[s] EXCEPT !.pc = pc]]
          /\ [job[s] EXCEPT !.pc = pc].pc = pc
      BY <2>3 DEF To, JobsFit, Jobs
    <3>2. QED BY <2>2, <2>3, <3>1
  <2>4. ASSUME NEW s \in Store, Done(s), UNCHANGED producers, job[s].pc \notin Working
        PROVE  Busy'
    <3>1. [NoJob EXCEPT !.pc = "done"].pc \notin Working
      BY DEF NoJob, Working
    <3>2. QED BY <2>2, <2>4, <3>1 DEF Done
  <2>5. ASSUME NEW s \in Store, NEW out, Told(s, out), UNCHANGED producers,
               job[s].pc \in Working
        PROVE  Busy'
    <3>1. /\ job' = [job EXCEPT ![s] = [job[s] EXCEPT !.pc = "settle", !.res = 0, !.out = out]]
          /\ [job[s] EXCEPT !.pc = "settle", !.res = 0, !.out = out].pc \in Working
      BY <2>5 DEF Told, JobsFit, Jobs, Working
    <3>2. QED BY <2>2, <2>5, <3>1
  <2>6. ASSUME NEW s \in Store, NEW admitted, Over(s, admitted)
        PROVE  \E j : job' = [job EXCEPT ![s] = j] /\ j.pc \notin Working
    <3>1. PICK pc \in {"next", "skip"} :
            job' = [job EXCEPT ![s] = [NoJob EXCEPT !.pc = pc, !.i = job[s].i + 1]]
      BY <2>6 DEF Over
    <3>2. [NoJob EXCEPT !.pc = pc, !.i = job[s].i + 1].pc \notin Working
      BY DEF NoJob, Working
    <3>3. QED BY <3>1, <3>2
  <2>7. ASSUME NEW s \in Store, StartWrite(s) PROVE Busy'
    <3>1. job[s].pc \notin Working
      BY <2>7 DEF StartWrite, Working
    <3>2. CASE UNCHANGED producers /\ Over(s, FALSE)
      BY <2>2, <2>6, <3>1, <3>2
    <3>3. CASE /\ producers' = producers + 1
               /\ \E pc \in {"settle", "admit"} : job' = [job EXCEPT ![s].pc = pc, ![s].born = era]
      <4>1. PICK pc \in {"settle", "admit"} :
              job' = [job EXCEPT ![s] = [job[s] EXCEPT !.pc = pc, !.born = era]]
        BY <3>3
      <4>2. [job[s] EXCEPT !.pc = pc, !.born = era].pc \in Working
        BY DEF JobsFit, Jobs, Working
      <4>3. QED BY <3>1, <3>3, <4>1, <4>2, InWriteMoves DEF CountersExact, JobsFit
    <3>4. QED BY <2>7, <3>2, <3>3 DEF StartWrite
  <2>8. ASSUME NEW s \in Store, Settle(s) PROVE Busy'
    <3>1. job[s].pc \in Working /\ producers' = producers - 1
      BY <2>8 DEF Settle, Working
    <3>2. PICK j : job' = [job EXCEPT ![s] = j] /\ j.pc \notin Working
      BY <2>6, <2>8 DEF Settle
    <3>3. QED BY <3>1, <3>2, InWriteMoves DEF CountersExact, JobsFit
  <2>9. ASSUME NEW s \in Store, Admit(s) \/ Freeze(s) \/ Enqueue(s) PROVE Busy'
    <3>1. job[s].pc \in Working /\ UNCHANGED producers
      BY <2>9 DEF Admit, Freeze, Enqueue, Post, Working, lifeVars
    <3>2. CASE \E out : Told(s, out)
      BY <2>5, <3>1, <3>2
    <3>3. ASSUME NEW n, NEW pc \in {"freeze", "enqueue"},
                 job' = [job EXCEPT ![s] = [job[s] EXCEPT !.pc = pc, !.res = n]]
          PROVE  Busy'
      <4>1. [job[s] EXCEPT !.pc = pc, !.res = n].pc \in Working
        BY DEF JobsFit, Jobs, Working
      <4>2. QED BY <2>2, <3>1, <3>3, <4>1
    <3>4. QED BY <2>9, <3>2, <3>3 DEF Admit, Freeze, Enqueue
  <2>10. ASSUME NEW s \in Store, BeginFence(s) \/ Skip(s) \/ StoreRaises(s) \/ Sentinel(s)
         PROVE  Busy'
    BY <2>3, <2>10 DEF BeginFence, Skip, StoreRaises, Sentinel, Post, Working, lifeVars
  <2>11. ASSUME NEW s \in Store, Seal(s) \/ Mark(s) \/ Unpin(s) PROVE Busy'
    BY <2>3, <2>4, <2>11 DEF Seal, Mark, Unpin, Working, lifeVars
  <2>12. ASSUME NEW s \in Store, Forget(s) PROVE Busy'
    BY <2>1, <2>12 DEF Forget, lifeVars
  <2>13. QED BY <2>1, <2>7, <2>8, <2>9, <2>10, <2>11, <2>12, WriterFrame, StopFrame, OtherFrame
             DEF Next, Write, vars, lifeVars
<1>3. QED BY <1>1, <1>2 DEF CountersExact

\* No producer, no call at work.
LEMMA NobodyInWrite ==
  ASSUME CountersExact
  PROVE  producers \in Nat /\ (producers = 0 => InWrite = {})
<1>1. IsFiniteSet(InWrite)
  BY DiskAssumption, FS_Subset DEF InWrite
<1>2. QED BY <1>1, FS_CardinalityType, FS_EmptySet DEF CountersExact

\* The order of the end is kept.
LEMMA StopStep ==
  ASSUME Shape, CountersExact, StopOrder, [Next]_vars
  PROVE  StopOrder'
<1> USE DEF StopOrder
<1>1. ASSUME NEW s \in Store, Write(s) \/ Forget(s) PROVE StopOrder'
  <2>1. UNCHANGED <<accepting, w, shutting, stopped, finalized>>
    BY <1>1, WriteFrame
  <2>2. stopped => UNCHANGED producers
    <3>1. CASE Settle(s)
      BY <3>1, NobodyInWrite DEF Settle, InWrite
    <3>2. CASE StartWrite(s)
      BY <3>2 DEF StartWrite, Open
    <3>3. QED BY <1>1, <3>1, <3>2 DEF Write, BeginFence, Admit, Freeze, Enqueue, Skip,
             StoreRaises, Seal, Sentinel, Mark, Unpin, Forget, Post, lifeVars
  <2>3. w.pc = "dead" => UNCHANGED queue
    BY <1>1 DEF Write, BeginFence, StartWrite, Admit, Freeze, Enqueue, Settle, Skip,
       StoreRaises, Seal, Sentinel, Mark, Unpin, Forget, CanPost, Alive, lifeVars
  <2>4. pins' \subseteq pins
    BY <1>1 DEF Write, BeginFence, StartWrite, Admit, Freeze, Enqueue, Settle, Skip,
       StoreRaises, Seal, Sentinel, Mark, Unpin, Forget, rootVars
  <2>5. QED BY <2>1, <2>2, <2>3, <2>4
<1>2. CASE Writer
  <2>1. UNCHANGED <<accepting, producers, shutting, stopped, finalized>>
    BY <1>2, WriterFrame
  <2>2. w.pc # "dead"
    BY <1>2 DEF Writer, TakeBatch, Encode, EnterRoot, PublishBlock, PublishOther, WriterSeals,
       Account, BatchRaises, FinalizeFence, CompleteBatch, WriterExits, AtWork, Shape, WorkFits
  <2>3. w'.pc = "dead" => stopped /\ queue' = <<>>
    <3>1. w \in Works /\ w.batch \in Seq(Items) /\ w.pc # "dead"
      BY <2>2 DEF Shape, WorkFits, Works
    <3>2. CASE WriterExits
      BY <3>2 DEF WriterExits, lifeVars
    <3>3. ASSUME Writer, ~WriterExits PROVE w'.pc # "dead"
      <4>1. CASE Encode \/ PublishBlock \/ PublishOther
        BY <3>1, <4>1 DEF Encode, PublishBlock, PublishOther, AtWork, Settled, Works
      <4>2. CASE CompleteBatch
        BY <4>2 DEF CompleteBatch, NoWork
      <4>3. CASE TakeBatch \/ EnterRoot \/ WriterSeals \/ Account \/ BatchRaises
                   \/ (\E s \in Store : FinalizeFence(s))
        BY <3>1, <4>3 DEF TakeBatch, EnterRoot, WriterSeals, Account, BatchRaises,
           FinalizeFence, Works
      <4>4. QED BY <3>3, <4>1, <4>2, <4>3 DEF Writer
    <3>4. QED BY <1>2, <3>2, <3>3
  <2>4. QED BY <2>1, <2>2, <2>3
<1>3. CASE Clearing \/ Shutdown \/ Stopping
  <2>1. UNCHANGED <<producers, queue, w>>
    BY <1>3, StopFrame
  <2>2. pins' \subseteq pins
    BY <1>3 DEF Clearing, StartClear, Wipe, FailUnsettled, EndClear, Shutdown, Stopping,
       StopWriter, FinalizeShutdown, rootVars
  <2>3. QED BY <1>3, <2>1, <2>2 DEF Clearing, StartClear, Wipe, FailUnsettled, EndClear,
           Shutdown, Stopping, StopWriter, FinalizeShutdown, Alive, lifeVars, Shape, Types
<1>4. ASSUME NEW b \in Block, Touch(b) \/ Evict(b) PROVE StopOrder'
  <2>1. UNCHANGED <<accepting, producers, pins, w, shutting, stopped, finalized>>
    BY <1>4, OtherFrame
  <2>2. w.pc = "dead" => UNCHANGED queue
    BY <1>4 DEF Touch, Evict, CanPost, Alive, lifeVars
  <2>3. QED BY <2>1, <2>2
<1>5. CASE UNCHANGED vars
  BY <1>5 DEF vars, lifeVars, rootVars, stopVars
<1>6. QED BY <1>1, <1>2, <1>3, <1>4, <1>5 DEF Next

-----------------------------------------------------------------------------
(* Where items come from.                                                  *)

\* One that is posted in this step.
Posted(it) ==
  \/ \E s \in Store : job[s].pc = "enqueue" /\ Enqueue(s) /\ it = BlockItem(s)
  \/ \E s \in Store : Sentinel(s) /\ it = Item("fence", s, NoBlock)
  \/ w.owe \in Store /\ it = Item("fence", w.owe, NoBlock)
  \/ \E b \in Block, kind \in {"access", "cleanup"} : it = Item(kind, NoStore, b)

\* One that was there, but for its size.
Same(it, old) ==
  it.kind = old.kind /\ it.store = old.store /\ it.block = old.block /\ it.born = old.born

\* What is in the queue was there, or is posted in this step.
LEMMA QueueMoves ==
  ASSUME Shape, Next
  PROVE  \A i \in DOMAIN queue' :
           (i \in DOMAIN queue /\ queue'[i] = queue[i]) \/ Posted(queue'[i])
<1> DEFINE Goal == \A i \in DOMAIN queue' :
                     (i \in DOMAIN queue /\ queue'[i] = queue[i]) \/ Posted(queue'[i])
<1>1. CASE UNCHANGED queue
  BY <1>1
<1>2. ASSUME NEW it \in Items, Post(it), Posted(it) PROVE Goal
  <2>1. /\ queue \in Seq(Items) /\ queue' = Append(queue, it)
    BY <1>2 DEF Shape, WorkFits, Post
  <2>2. \A i \in DOMAIN queue' : (i \in DOMAIN queue /\ queue'[i] = queue[i]) \/ queue'[i] = it
    BY <2>1
  <2>3. QED BY <1>2, <2>2
<1>3. ASSUME NEW s \in Store, Enqueue(s) PROVE Goal
  <2>1. job[s].pc = "enqueue" /\ BlockItem(s) \in Items
    BY <1>3, BlockItemFits DEF Enqueue, Shape, JobsFit
  <2>2. Posted(BlockItem(s))
    BY <1>3, <2>1 DEF Posted
  <2>3. QED BY <1>1, <1>2, <1>3, <2>1, <2>2 DEF Enqueue, lifeVars
<1>4. ASSUME NEW s \in Store, Sentinel(s) PROVE Goal
  <2>1. Item("fence", s, NoBlock) \in Items
    BY ItemsFit
  <2>2. Posted(Item("fence", s, NoBlock))
    BY <1>4 DEF Posted
  <2>3. QED BY <1>1, <1>2, <1>4, <2>1, <2>2 DEF Sentinel, lifeVars
<1>5. CASE WriterSeals
  <2>1. w.owe \in Store
    BY <1>5 DEF WriterSeals, Shape, WorkFits, Works
  <2>2. Item("fence", w.owe, NoBlock) \in Items
    BY <2>1, ItemsFit
  <2>3. Posted(Item("fence", w.owe, NoBlock))
    BY <2>1 DEF Posted
  <2>4. QED BY <1>1, <1>2, <1>5, <2>2, <2>3 DEF WriterSeals, lifeVars
<1>6. ASSUME NEW b \in Block, Touch(b) PROVE Goal
  <2>1. PICK kind \in {"access", "cleanup"} : Post(Item(kind, NoStore, b))
    BY <1>6 DEF Touch
  <2>2. Item(kind, NoStore, b) \in Items
    BY ItemsFit
  <2>3. Posted(Item(kind, NoStore, b))
    BY DEF Posted
  <2>4. QED BY <1>2, <2>1, <2>2, <2>3
<1>7. CASE TakeBatch
  BY <1>7 DEF TakeBatch
<1>8. \/ Encode \/ EnterRoot \/ PublishBlock \/ PublishOther \/ Account \/ BatchRaises
      \/ CompleteBatch \/ WriterExits \/ Clearing \/ Shutdown \/ Stopping
      \/ (\E s \in Store : \/ Forget(s) \/ FinalizeFence(s)
                           \/ (Write(s) /\ ~Enqueue(s) /\ ~Sentinel(s)))
      \/ (\E b \in Block : Evict(b))
      => UNCHANGED queue
  BY StopFrame, ZenonT(60) DEF Encode, EnterRoot, PublishBlock, PublishOther, Account, BatchRaises,
     CompleteBatch, WriterExits, Forget, FinalizeFence, Write, BeginFence, StartWrite, Admit,
     Freeze, Settle, Skip, StoreRaises, Seal, Mark, Unpin, Evict, lifeVars
<1>9. QED BY <1>1, <1>3, <1>4, <1>5, <1>6, <1>7, <1>8 DEF Next, Writer

\* What is in the batch was in it, or in the queue, or is spent.
LEMMA BatchMoves ==
  ASSUME Shape, Next
  PROVE  \/ TakeBatch /\ w'.batch = queue
         \/ /\ DOMAIN w'.batch \subseteq DOMAIN w.batch
            /\ \A i \in DOMAIN w'.batch :
                 Same(w'.batch[i], w.batch[i]) \/ w'.batch[i].kind = "spent"
<1> DEFINE Goal == \/ TakeBatch /\ w'.batch = queue
                   \/ /\ DOMAIN w'.batch \subseteq DOMAIN w.batch
                      /\ \A i \in DOMAIN w'.batch :
                           Same(w'.batch[i], w.batch[i]) \/ w'.batch[i].kind = "spent"
<1>0. w \in Works /\ w.batch \in Seq(Items) /\ \A i \in DOMAIN w.batch : w.batch[i] \in Items
  BY DEF Shape, WorkFits, Works
<1>1. CASE w'.batch = w.batch
  BY <1>1 DEF Same
<1>2. CASE w'.batch = [w.batch EXCEPT ![w.i] = Spent]
  <2>1. Spent.kind = "spent"
    BY ItemsFit
  <2>2. QED BY <1>0, <1>2, <2>1 DEF Same
<1>3. CASE Encode
  <2>1. CASE /\ Current.kind = "block"
             /\ w' = [w EXCEPT !.batch[w.i].size = Current.final, !.i = @ + 1]
    <3>1. w'.batch = [w.batch EXCEPT ![w.i] = [@ EXCEPT !.size = Current.final]]
      BY <1>0, <2>1 DEF Works
    <3>2. \A it \in Items : \A n : Same([it EXCEPT !.size = n], it)
      BY DEF Same, Items
    <3>3. QED BY <1>0, <3>1, <3>2 DEF Same
  <2>2. CASE w'.batch \in {w.batch, [w.batch EXCEPT ![w.i] = Spent]}
    BY <1>1, <1>2, <2>2
  <2>3. QED BY <1>0, <1>3, <2>1, <2>2 DEF Encode, Works
<1>4. CASE PublishBlock \/ PublishOther
  <2>1. w'.batch = [w.batch EXCEPT ![w.i] = Spent]
    BY <1>0, <1>4 DEF PublishBlock, PublishOther, Settled, Works
  <2>2. QED BY <1>2, <2>1
<1>5. CASE BatchRaises
  <2>1. w'.batch = [i \in DOMAIN w.batch |-> Spent] /\ Spent.kind = "spent"
    BY <1>0, <1>5, ItemsFit DEF BatchRaises, Works
  <2>2. QED BY <2>1
<1>6. CASE CompleteBatch
  BY <1>6 DEF CompleteBatch, NoWork
<1>7. CASE TakeBatch
  BY <1>0, <1>7 DEF TakeBatch, Works
<1>8. CASE EnterRoot \/ WriterSeals \/ Account \/ WriterExits
             \/ (\E s \in Store : FinalizeFence(s))
  BY <1>0, <1>1, <1>8 DEF EnterRoot, WriterSeals, Account, WriterExits, FinalizeFence, Works
<1>9. QED BY <1>1, <1>3, <1>4, <1>5, <1>6, <1>7, <1>8, WriteFrame, StopFrame, OtherFrame
          DEF Next, Writer

-----------------------------------------------------------------------------
(* Eras and the index.                                                     *)

\* The wipe finds nothing of its era on the way.
LEMMA EraStep ==
  ASSUME Shape, CountersExact, SameEra, NothingSurvivesClear, [Next]_vars
  PROVE  SameEra' /\ NothingSurvivesClear'
<1> USE DEF NothingSurvivesClear
<1>1. CASE UNCHANGED vars
  BY <1>1 DEF vars, lifeVars, rootVars, stopVars, SameEra
<1>2. CASE Wipe
  <2>1. \A s \in Store : job[s].pc \notin Working
    BY <1>2, NobodyInWrite DEF Wipe, InWrite, Working
  <2>2. queue = <<>> /\ w.batch = <<>>
    <3>1. queue \in Seq(Items) /\ w.batch \in Seq(Items)
      BY DEF Shape, WorkFits, Works
    <3>2. Len(queue) = 0 /\ Len(w.batch) = 0
      BY <1>2, <3>1 DEF Wipe, CountersExact
    <3>3. QED BY <3>1, <3>2
  <2>3. QED BY <1>2, <2>1, <2>2 DEF Wipe, SameEra, lifeVars
<1>3. ASSUME Next, ~Wipe PROVE SameEra' /\ NothingSurvivesClear'
  <2>1. era' = era
    BY <1>3, WriteFrame, WriterFrame, OtherFrame DEF Next, Clearing, StartClear, FailUnsettled,
       EndClear, Shutdown, Stopping, StopWriter, FinalizeShutdown
  <2>2. ASSUME NEW s \in Store, job'[s].pc \in Working PROVE job'[s].born = era
    <3>1. CASE job'[s].pc = job[s].pc /\ job'[s].born = job[s].born
      BY <2>2, <3>1 DEF SameEra
    <3>2. ASSUME NEW t \in Store, Write(t) PROVE job'[s].born = era
      <4>1. job \in [Store -> Jobs]
        BY DEF Shape, JobsFit
      <4>2. CASE StartWrite(t)
        <5>1. CASE Over(t, FALSE)
          BY <2>2, <3>1, <4>1, <5>1 DEF Over, NoJob, Working, Jobs
        <5>2. CASE \E pc \in {"settle", "admit"} :
                     job' = [job EXCEPT ![t].pc = pc, ![t].born = era]
          BY <2>2, <3>1, <4>1, <5>2 DEF Jobs
        <5>3. QED BY <4>2, <5>1, <5>2 DEF StartWrite
      <4>3. CASE Admit(t)
        BY <2>2, <3>1, <4>1, <4>3 DEF Admit, Told, Working, Jobs, SameEra
      <4>4. CASE Freeze(t) \/ Enqueue(t)
        BY <2>2, <3>1, <4>1, <4>4 DEF Freeze, Enqueue, Told, Working, Jobs, SameEra
      <4>5. CASE Settle(t)
        BY <2>2, <3>1, <4>1, <4>5 DEF Settle, Over, NoJob, Working, Jobs
      <4>6. CASE BeginFence(t) \/ Skip(t) \/ StoreRaises(t) \/ Sentinel(t)
        BY <2>2, <3>1, <4>1, <4>6, ZenonT(60) DEF BeginFence, Skip, StoreRaises, Sentinel, To, Working, Jobs
      <4>7. CASE Seal(t) \/ Mark(t) \/ Unpin(t)
        BY <2>2, <3>1, <4>1, <4>7, ZenonT(60) DEF Seal, Mark, Unpin, To, Done, NoJob, Working, Jobs
      <4>8. QED BY <3>2, <4>2, <4>3, <4>4, <4>5, <4>6, <4>7 DEF Write
    <3>3. CASE UNCHANGED job
      BY <3>1, <3>3
    <3>4. \A t \in Store : Forget(t) => UNCHANGED job
      BY DEF Forget
    <3>5. QED BY <1>3, <3>2, <3>3, <3>4, WriterFrame, StopFrame, OtherFrame DEF Next
  <2>3. ASSUME NEW i \in DOMAIN queue', queue'[i].kind = "block" PROVE queue'[i].born = era
    <3>1. CASE i \in DOMAIN queue /\ queue'[i] = queue[i]
      BY <2>3, <3>1 DEF SameEra
    <3>2. CASE Posted(queue'[i])
      <4>1. PICK s \in Store : job[s].pc = "enqueue" /\ queue'[i] = BlockItem(s)
        BY <2>3, <3>2 DEF Posted, Item
      <4>2. QED BY <4>1 DEF SameEra, BlockItem, Working
    <3>3. QED BY <1>3, <3>1, <3>2, QueueMoves
  <2>4. ASSUME NEW i \in DOMAIN w'.batch, w'.batch[i].kind = "block"
        PROVE  w'.batch[i].born = era
    BY <1>3, <2>4, BatchMoves DEF SameEra, Same
  <2>5. ASSUME NEW b \in Block PROVE rows'[b] \in {0, era}
    <3>1. rows \in [Block -> Nat]
      BY DEF Shape, Types
    <3>2. CASE PublishBlock
      <4>1. Current.born = era
        BY <3>2 DEF PublishBlock, Current, SameEra, Shape, WorkFits, Works
      <4>2. rows' \in {rows, [rows EXCEPT ![Current.block] = Current.born]}
        BY <3>2 DEF PublishBlock
      <4>3. QED BY <3>1, <4>1, <4>2
    <3>3. CASE PublishOther
      BY <3>1, <3>3 DEF PublishOther, Cleaned
    <3>4. ASSUME NEW c \in Block, Evict(c) PROVE rows'[b] \in {0, era}
      BY <3>1, <3>4 DEF Evict
    <3>5. CASE UNCHANGED rows
      BY <3>5
    <3>6. Next /\ ~PublishBlock /\ ~PublishOther /\ ~Wipe /\ ~(\E c \in Block : Evict(c))
          => UNCHANGED rows
      BY WriteFrame DEF Next, Writer, TakeBatch, Encode, EnterRoot, WriterSeals, Account,
         BatchRaises, FinalizeFence, CompleteBatch, WriterExits, Clearing, StartClear,
         FailUnsettled, EndClear, Shutdown, Stopping, StopWriter, FinalizeShutdown, Touch,
         rootVars
    <3>7. QED BY <1>3, <3>2, <3>3, <3>4, <3>5, <3>6
  <2>6. QED BY <2>1, <2>2, <2>3, <2>4, <2>5 DEF SameEra
<1>4. QED BY <1>1, <1>2, <1>3

\* What is chained to a member of a subtree is a member of it.
LEMMA SubtreeClosed ==
  ASSUME NEW b, NEW c \in Block, Parent[c] \in Subtree(b)
  PROVE  c \in Subtree(b)
BY DEF Subtree

\* Rows keep their parents, and pins their rows.
LEMMA IndexStep ==
  ASSUME Shape, SameEra, IndexRestorable, PinsHold, [Next]_vars
  PROVE  IndexRestorable' /\ PinsHold'
<1> USE DEF IndexRestorable, PinsHold
<1>0. /\ rows \in [Block -> Nat] /\ pins \subseteq Store \X Block
      /\ \A b \in Block : Parent[b] # NoBlock => Parent[b] \in Block
  BY DiskAssumption DEF Shape, Types
<1>1. CASE rows' = rows /\ pins' \subseteq pins
  BY <1>1
<1>2. CASE PublishBlock
  <2> DEFINE b == Current.block
             s == Current.store
  <2>1. b \in Block /\ s \in Store /\ Current.born \in Nat \ {0}
    <3>1. Current \in Items /\ Current.kind = "block" /\ Current.born = era
      BY <1>2 DEF PublishBlock, Current, SameEra, Shape, WorkFits, Works
    <3>2. era \in Nat \ {0}
      BY DiskAssumption DEF Shape, Types
    <3>3. QED BY <3>1, <3>2 DEF Items
  <2>2. CASE rows' = rows /\ pins' = pins
    BY <1>1, <2>2
  <2>3. CASE /\ HasParent(b)
             /\ rows' = IF rows[b] = 0 THEN [rows EXCEPT ![b] = Current.born] ELSE rows
             /\ pins' \in {pins, pins \cup {<<s, b>>}}
    <3>1. rows'[b] # 0 /\ \A c \in Block : c # b => rows'[c] = rows[c]
      BY <1>0, <2>1, <2>3
    <3>2. IndexRestorable'
      BY <1>0, <2>1, <2>3, <3>1 DEF HasParent
    <3>3. PinsHold'
      <4>1. \A p \in pins : p[2] \in Block
        BY <1>0
      <4>2. QED BY <2>3, <3>1, <4>1
    <3>4. QED BY <3>2, <3>3
  <2>4. QED BY <1>2, <2>2, <2>3 DEF PublishBlock
<1>3. CASE PublishOther
  <2>1. CASE UNCHANGED <<rows, pins>>
    BY <1>1, <2>1
  <2>2. CASE /\ rows' = Cleaned(Current.block)
             /\ pins' = {p \in pins : p[2] \notin Subtree(Current.block)}
    <3> DEFINE T == Subtree(Current.block)
    <3>1. \A c \in Block : rows'[c] = IF c \in T THEN 0 ELSE rows[c]
      BY <2>2 DEF Cleaned
    <3>2. \A c \in Block : Parent[c] \in T => c \in T
      BY SubtreeClosed
    <3> HIDE DEF T
    <3>3. IndexRestorable'
      BY <1>0, <3>1, <3>2
    <3>4. PinsHold'
      BY <1>0, <2>2, <3>1 DEF T
    <3>5. QED BY <3>3, <3>4
  <2>3. QED BY <1>3, <2>1, <2>2 DEF PublishOther
<1>4. CASE Wipe
  BY <1>0, <1>4 DEF Wipe
<1>5. ASSUME NEW b \in Block, Evict(b) PROVE IndexRestorable' /\ PinsHold'
  BY <1>0, <1>5 DEF Evict
<1>6. Next /\ ~PublishBlock /\ ~PublishOther /\ ~Wipe /\ ~(\E b \in Block : Evict(b))
      => rows' = rows /\ pins' \subseteq pins
  <2>1. \A s \in Store : Write(s) \/ Forget(s) => pins' \subseteq pins
    BY ZenonT(60) DEF Write, BeginFence, StartWrite, Admit, Freeze, Enqueue, Settle, Skip, StoreRaises,
       Seal, Sentinel, Mark, Unpin, Forget, rootVars
  <2>2. QED BY <2>1, WriteFrame DEF Next, Writer, TakeBatch, Encode, EnterRoot, WriterSeals,
           Account, BatchRaises, FinalizeFence, CompleteBatch, WriterExits, Clearing,
           StartClear, FailUnsettled, EndClear, Shutdown, Stopping, StopWriter,
           FinalizeShutdown, Touch, rootVars
<1>7. CASE UNCHANGED vars
  BY <1>1, <1>7 DEF vars, rootVars
<1>8. QED BY <1>1, <1>2, <1>3, <1>4, <1>5, <1>6, <1>7

-----------------------------------------------------------------------------
(* The byte budget.                                                        *)

JobBytes == Bytes([s \in Store |-> job[s].res])

\* A call changes its reservation.
LEMMA JobBytesChange ==
  ASSUME JobsFit, NEW s \in Store, NEW j, j.res \in Nat, job' = [job EXCEPT ![s] = j]
  PROVE  JobBytes' = JobBytes - job[s].res + j.res
<1> DEFINE f == [t \in Store |-> job[t].res]
           g == [t \in Store |-> IF t = s THEN j.res ELSE job[t].res]
<1>1. \A t \in Store : job[t].res \in Nat
  BY DEF JobsFit, Jobs
<1>2. f \in [Store -> Nat] /\ g \in [Store -> Nat] /\ \A t \in Store \ {s} : g[t] = f[t]
  BY <1>1
<1>3. [t \in Store |-> job'[t].res] = g
  BY DEF JobsFit
<1>4. Bytes(g) = Bytes(f) - f[s] + g[s]
  <2>1. IsFiniteSet(Store)
    BY DiskAssumption
  <2> HIDE DEF f, g
  <2>2. QED BY <1>2, <2>1, BytesChange
<1>5. QED BY <1>3, <1>4 DEF JobBytes

\* An item changes its reservation.
LEMMA ItemBytesChange ==
  ASSUME NEW items \in Seq(Items), NEW k \in 1..Len(items), NEW it \in Items
  PROVE  BytesOf([items EXCEPT ![k] = it]) = BytesOf(items) - items[k].size + it.size
<1> DEFINE D == 1..Len(items)
           changed == [items EXCEPT ![k] = it]
           f == [i \in DOMAIN items |-> items[i].size]
           g == [i \in DOMAIN changed |-> changed[i].size]
<1>1. changed \in Seq(Items) /\ DOMAIN changed = D /\ DOMAIN items = D
  OBVIOUS
<1>2. f \in [D -> Nat] /\ IsFiniteSet(D)
  BY BytesOfType
<1>3. g \in [D -> Nat]
  <2>1. Len(changed) = Len(items)
    OBVIOUS
  <2>2. QED BY <1>1, <2>1, BytesOfType
<1>4. f[k] = items[k].size /\ g[k] = it.size /\ \A i \in D \ {k} : g[i] = f[i]
  BY <1>1
<1> HIDE DEF f, g, D
<1>5. Bytes(g) = Bytes(f) - f[k] + g[k]
  BY <1>2, <1>3, <1>4, BytesChange, ZenonT(60) DEF D
<1>6. QED BY <1>4, <1>5 DEF BytesOf, f, g

\* An item joins.
LEMMA ItemBytesAppend ==
  ASSUME NEW items \in Seq(Items), NEW it \in Items
  PROVE  BytesOf(Append(items, it)) = BytesOf(items) + it.size
<1> DEFINE n == Len(items)
           longer == Append(items, it)
           f == [i \in DOMAIN items |-> items[i].size]
           g == [i \in DOMAIN longer |-> longer[i].size]
<1>1. /\ longer \in Seq(Items) /\ Len(longer) = n + 1 /\ n \in Nat
      /\ DOMAIN longer = 1..(n + 1) /\ DOMAIN items = 1..n
      /\ longer[n + 1] = it /\ \A i \in 1..n : longer[i] = items[i]
  OBVIOUS
<1>2. f \in [1..n -> Nat]
  BY BytesOfType
<1>3. g \in [1..(n + 1) -> Nat]
  BY <1>1, BytesOfType
<1>4. g[n + 1] = it.size /\ \A i \in 1..n : g[i] = f[i]
  BY <1>1
<1> HIDE DEF f, g, n
<1>5. Bytes(g) = Bytes(f) + g[n + 1]
  BY <1>1, <1>2, <1>3, <1>4, BytesAppend
<1>6. QED BY <1>4, <1>5 DEF BytesOf, f, g

\* Items that have nothing reserved.
LEMMA ItemBytesZero ==
  ASSUME NEW items \in Seq(Items), \A i \in 1..Len(items) : items[i].size = 0
  PROVE  BytesOf(items) = 0
<1>1. [i \in DOMAIN items |-> items[i].size] \in [1..Len(items) -> Nat]
  BY BytesOfType
<1>2. \A i \in 1..Len(items) : [k \in DOMAIN items |-> items[k].size][i] = 0
  OBVIOUS
<1>3. QED BY <1>1, <1>2, BytesZero DEF BytesOf

\* Nobody has more than all, nor two of them together.
LEMMA ItemBytesBound ==
  ASSUME NEW items \in Seq(Items), NEW k \in 1..Len(items)
  PROVE  /\ items[k].size <= BytesOf(items)
         /\ \A i \in 1..Len(items) \ {k} : items[i].size + items[k].size <= BytesOf(items)
<1> DEFINE D == 1..Len(items)
           f == [i \in DOMAIN items |-> items[i].size]
<1>1. f \in [D -> Nat] /\ IsFiniteSet(D) /\ \A i \in D : f[i] = items[i].size
  BY BytesOfType
<1> HIDE DEF f, D
<1>2. k \in D
  BY DEF D
<1>3. f[k] <= Bytes(f) /\ \A i \in D \ {k} : f[i] + f[k] <= Bytes(f)
  BY <1>1, <1>2, BytesBound
<1>4. QED BY <1>1, <1>2, <1>3 DEF BytesOf, f, D

\* Who has everything leaves nothing to the others.
LEMMA Shares ==
  ASSUME Shape
  PROVE  /\ JobBytes \in Nat /\ BytesOf(queue) \in Nat /\ BytesOf(w.batch) \in Nat
         /\ \A s \in Store : /\ job[s].res \in Nat /\ job[s].res <= JobBytes
                             /\ \A t \in Store \ {s} : job[t].res + job[s].res <= JobBytes
         /\ \A i \in DOMAIN queue : queue[i].size \in Nat /\ queue[i].size <= BytesOf(queue)
         /\ \A i \in DOMAIN w.batch :
              /\ w.batch[i].size \in Nat /\ w.batch[i].size <= BytesOf(w.batch)
              /\ \A k \in DOMAIN w.batch \ {i} :
                   w.batch[k].size + w.batch[i].size <= BytesOf(w.batch)
<1>1. queue \in Seq(Items) /\ w.batch \in Seq(Items)
  BY DEF Shape, WorkFits, Works
<1>2. BytesOf(queue) \in Nat /\ BytesOf(w.batch) \in Nat
  BY <1>1, BytesOfType
<1> DEFINE f == [t \in Store |-> job[t].res]
<1>3. f \in [Store -> Nat] /\ \A s \in Store : f[s] = job[s].res
  BY DEF Shape, JobsFit, Jobs
<1> HIDE DEF f
<1>4. JobBytes \in Nat
  BY <1>3, DiskAssumption, BytesType DEF JobBytes, f
<1>5. \A s \in Store : f[s] <= Bytes(f) /\ \A t \in Store \ {s} : f[t] + f[s] <= Bytes(f)
  BY <1>3, DiskAssumption, BytesBound
<1>6. \A it \in Items : it.size \in Nat
  BY DEF Items
<1>7. \A i \in DOMAIN queue : queue[i].size \in Nat /\ queue[i].size <= BytesOf(queue)
  BY <1>1, <1>6, ItemBytesBound
<1>8. \A i \in DOMAIN w.batch :
        /\ w.batch[i].size \in Nat /\ w.batch[i].size <= BytesOf(w.batch)
        /\ \A k \in DOMAIN w.batch \ {i} :
             w.batch[k].size + w.batch[i].size <= BytesOf(w.batch)
  BY <1>1, <1>6, ItemBytesBound
<1>9. QED BY <1>2, <1>3, <1>4, <1>5, <1>7, <1>8 DEF JobBytes, f

\* One holder, with everything there is.
AllWith(n) ==
  \/ \E s \in Store : job[s].res = n
  \/ \E i \in DOMAIN queue : queue[i].size = n
  \/ \E i \in DOMAIN w.batch : w.batch[i].size = n

\* The budget, taken apart.
LEMMA BytesFacts ==
  ASSUME Shape, BytesExact
  PROVE  /\ bytes = JobBytes + BytesOf(queue) + BytesOf(w.batch)
         /\ bytes > Budget => AllWith(bytes)
         /\ JobBytes \in Nat /\ BytesOf(queue) \in Nat /\ BytesOf(w.batch) \in Nat
         /\ bytes \in Nat /\ Budget \in Nat /\ Budget > 0
<1>1. JobBytes \in Nat /\ BytesOf(queue) \in Nat /\ BytesOf(w.batch) \in Nat
  BY Shares
<1>2. bytes = JobBytes + BytesOf(queue) + BytesOf(w.batch)
  BY DEF BytesExact, Reserved, JobBytes
<1>3. bytes > Budget => AllWith(bytes)
  BY DEF BytesExact, AllWith
<1>4. Budget \in Nat \ {0}
  BY DiskAssumption
<1>5. QED BY <1>1, <1>2, <1>3, <1>4

\* What has to be shown of the state after a step.
LEMMA BytesGoal ==
  ASSUME bytes' = JobBytes' + BytesOf(queue)' + BytesOf(w.batch)',
         bytes' > Budget => AllWith(bytes)'
  PROVE  BytesExact'
BY DEF BytesExact, Reserved, JobBytes, AllWith

\* A step that moves no bytes, whatever it does to the calls and to items
\* that hold none.
LEMMA NoBytesMove ==
  ASSUME Shape, BytesExact, UNCHANGED bytes,
         JobBytes' = JobBytes, BytesOf(queue)' = BytesOf(queue),
         BytesOf(w.batch)' = BytesOf(w.batch),
         AllWith(bytes) /\ bytes > 0 => AllWith(bytes)'
  PROVE  BytesExact'
BY BytesFacts, BytesGoal

\* A call reserves more, or something, or gives everything back.
LEMMA CallBytes ==
  ASSUME Shape, BytesExact, NEW s \in Store, NEW j, j.res \in Nat,
         job' = [job EXCEPT ![s] = j], UNCHANGED <<queue, w>>,
         bytes' = bytes - job[s].res + j.res,
         j.res = 0 \/ bytes' <= Budget \/ bytes' = j.res
  PROVE  BytesExact'
<1>1. JobsFit /\ job \in [Store -> Jobs]
  BY DEF Shape, JobsFit
<1>2. JobBytes' = JobBytes - job[s].res + j.res
  BY <1>1, JobBytesChange
<1>3. bytes' = JobBytes' + BytesOf(queue)' + BytesOf(w.batch)'
  BY <1>2, BytesFacts, Shares
<1>4. \A t \in Store : job'[t] = IF t = s THEN j ELSE job[t]
  BY <1>1
<1>5. ASSUME bytes' > Budget PROVE AllWith(bytes)'
  <2>1. CASE bytes' = j.res
    <3>1. job'[s].res = bytes'
      BY <1>4, <2>1
    <3>2. QED BY <3>1 DEF AllWith
  <2>2. CASE j.res = 0
    <3>1. bytes > Budget /\ AllWith(bytes)
      BY <1>5, <2>2, BytesFacts, Shares
    <3>2. job[s].res # bytes
      BY <1>5, <2>2, BytesFacts, Shares
    <3>3. CASE \E t \in Store : job[t].res = bytes
      <4>1. PICK t \in Store : job[t].res = bytes
        BY <3>3
      <4>2. t # s /\ job[s].res = 0
        BY <3>2, <4>1, BytesFacts, Shares
      <4>3. job'[t].res = bytes'
        BY <1>4, <2>2, <4>1, <4>2, BytesFacts
      <4>4. QED BY <4>3 DEF AllWith
    <3>4. CASE \E i \in DOMAIN queue : queue[i].size = bytes
      <4>1. job[s].res = 0
        BY <3>4, BytesFacts, Shares
      <4>2. bytes' = bytes
        BY <2>2, <4>1, BytesFacts
      <4>3. QED BY <3>4, <4>2 DEF AllWith
    <3>5. CASE \E i \in DOMAIN w.batch : w.batch[i].size = bytes
      <4>1. job[s].res = 0
        BY <3>5, BytesFacts, Shares
      <4>2. bytes' = bytes
        BY <2>2, <4>1, BytesFacts
      <4>3. QED BY <3>5, <4>2 DEF AllWith
    <3>6. QED BY <3>1, <3>3, <3>4, <3>5 DEF AllWith
  <2>3. QED BY <1>5, <2>1, <2>2, BytesFacts
<1>6. QED BY <1>3, <1>5, BytesGoal

\* Beside one that holds everything an item of the batch holds nothing.
LEMMA BesideAll ==
  ASSUME Shape, BytesExact, NEW k \in DOMAIN w.batch
  PROVE  /\ \A s \in Store : job[s].res = bytes => w.batch[k].size = 0
         /\ \A i \in DOMAIN queue : queue[i].size = bytes => w.batch[k].size = 0
         /\ \A i \in DOMAIN w.batch \ {k} : w.batch[i].size = bytes => w.batch[k].size = 0
<1> DEFINE jb == JobBytes
           qb == BytesOf(queue)
           wb == BytesOf(w.batch)
           c == w.batch[k].size
<1>1. /\ jb \in Nat /\ qb \in Nat /\ wb \in Nat /\ c \in Nat
      /\ bytes = jb + qb + wb /\ c <= wb
  BY BytesFacts, Shares
<1>2. ASSUME NEW s \in Store, job[s].res = bytes PROVE c = 0
  <2>1. job[s].res \in Nat /\ job[s].res <= jb
    BY Shares
  <2> HIDE DEF jb, qb, wb, c
  <2>2. QED BY <1>1, <1>2, <2>1
<1>3. ASSUME NEW i \in DOMAIN queue, queue[i].size = bytes PROVE c = 0
  <2> DEFINE d == queue[i].size
  <2>1. d \in Nat /\ d <= qb /\ d = bytes
    BY <1>3, Shares
  <2> HIDE DEF jb, qb, wb, c, d
  <2>2. QED BY <1>1, <2>1
<1>4. ASSUME NEW i \in DOMAIN w.batch \ {k}, w.batch[i].size = bytes PROVE c = 0
  <2> DEFINE d == w.batch[i].size
  <2>1. d \in Nat /\ c + d <= wb /\ d = bytes
    BY <1>4, Shares
  <2> HIDE DEF jb, qb, wb, c, d
  <2>2. QED BY <1>1, <2>1
<1>5. QED BY <1>2, <1>3, <1>4

\* An item of the batch reserves more, or gives everything back.
LEMMA BatchBytes ==
  ASSUME Shape, BytesExact, NEW it \in Items, w.i \in 1..Len(w.batch),
         w'.batch = [w.batch EXCEPT ![w.i] = it], UNCHANGED <<queue, job>>,
         bytes' = bytes - Current.size + it.size,
         it.size = 0 \/ bytes' <= Budget \/ bytes' = it.size
  PROVE  BytesExact'
<1>1. w.batch \in Seq(Items) /\ it.size \in Nat
  BY DEF Shape, WorkFits, Works, Items
<1>2. BytesOf(w.batch)' = BytesOf(w.batch) - Current.size + it.size
  BY <1>1, ItemBytesChange DEF Current
<1>3. /\ DOMAIN w'.batch = DOMAIN w.batch /\ w.i \in DOMAIN w.batch
      /\ \A i \in DOMAIN w.batch : w'.batch[i] = IF i = w.i THEN it ELSE w.batch[i]
  BY <1>1
<1>4. JobBytes' = JobBytes
  BY DEF JobBytes
<1>5. /\ Current.size \in Nat /\ bytes' \in Int
      /\ bytes' = JobBytes' + BytesOf(queue)' + BytesOf(w.batch)'
  <2> DEFINE jb == JobBytes
             qb == BytesOf(queue)
             wb == BytesOf(w.batch)
             wb2 == BytesOf(w.batch)'
             c == Current.size
             n == it.size
  <2>1. c \in Nat
    BY <1>3, Shares DEF Current
  <2>2. /\ BytesOf(queue)' = qb /\ JobBytes' = jb
        /\ jb \in Nat /\ qb \in Nat /\ wb \in Nat /\ n \in Nat /\ bytes \in Nat
        /\ bytes = jb + qb + wb /\ bytes' = bytes - c + n /\ wb2 = wb - c + n
    BY <1>1, <1>2, <1>4, BytesFacts
  <2> HIDE DEF jb, qb, wb, wb2, c, n
  <2>3. bytes' \in Int /\ bytes' = jb + qb + wb2
    BY <2>1, <2>2
  <2>4. QED BY <2>1, <2>2, <2>3 DEF c, wb2
<1>6. ASSUME bytes' > Budget PROVE AllWith(bytes)'
  <2>1. CASE bytes' = it.size
    <3>1. w'.batch[w.i].size = bytes'
      BY <1>3, <2>1
    <3>2. QED BY <1>3, <3>1 DEF AllWith
  <2>2. CASE it.size = 0
    <3>0. Current.size \in Nat /\ Current = w.batch[w.i]
      BY <1>5 DEF Current
    <3>1. bytes > Budget /\ AllWith(bytes)
      <4> DEFINE c == Current.size
      <4>1. c \in Nat /\ bytes \in Nat /\ Budget \in Nat /\ bytes' = bytes - c
        BY <2>2, <3>0, BytesFacts
      <4>2. bytes' > Budget
        BY <1>6
      <4> HIDE DEF c
      <4>3. bytes > Budget
        BY <4>1, <4>2
      <4>4. QED BY <4>3, BytesFacts
    <3>2. Current.size # bytes
      <4> DEFINE c == Current.size
      <4>1. c \in Nat /\ bytes \in Nat /\ Budget \in Nat /\ bytes' = bytes - c
        BY <2>2, <3>0, BytesFacts
      <4>2. bytes' > Budget
        BY <1>6
      <4> HIDE DEF c
      <4>3. c # bytes
        BY <4>1, <4>2
      <4>4. QED BY <4>3 DEF c
    <3>3. CASE \E i \in DOMAIN w.batch : w.batch[i].size = bytes
      <4>1. PICK i \in DOMAIN w.batch : w.batch[i].size = bytes
        BY <3>3
      <4>2. i # w.i
        BY <3>0, <3>2, <4>1
      <4>3. bytes' = bytes
        <5>1. Current.size = 0
          BY <1>3, <3>0, <4>1, <4>2, BesideAll
        <5>2. QED BY <2>2, <5>1, BytesFacts
      <4>4. w'.batch[i] = w.batch[i]
        BY <1>3, <4>1, <4>2
      <4>5. QED BY <1>3, <4>1, <4>3, <4>4 DEF AllWith
    <3>4. CASE \/ \E s \in Store : job[s].res = bytes
               \/ \E i \in DOMAIN queue : queue[i].size = bytes
      <4>1. Current.size = 0
        BY <1>3, <3>0, <3>4, BesideAll
      <4>2. bytes' = bytes
        BY <2>2, <4>1, BytesFacts
      <4>3. QED BY <3>4, <4>2 DEF AllWith
    <3>5. QED BY <3>1, <3>3, <3>4 DEF AllWith
  <2>3. QED BY <1>5, <1>6, <2>1, <2>2, BytesFacts
<1>7. QED BY <1>5, <1>6, BytesGoal

\* A new item that holds nothing joins the queue.
LEMMA PostBytes ==
  ASSUME Shape, BytesExact, NEW it \in Items, it.size = 0, Post(it),
         UNCHANGED <<bytes, w>>, JobBytes' = JobBytes,
         \A s \in Store : job'[s].res = job[s].res
  PROVE  BytesExact'
<1>1. queue \in Seq(Items) /\ queue' = Append(queue, it)
  BY DEF Shape, WorkFits, Post
<1>2. BytesOf(queue)' = BytesOf(queue)
  BY <1>1, ItemBytesAppend, BytesFacts
<1>3. \A i \in DOMAIN queue : i \in DOMAIN queue' /\ queue'[i] = queue[i]
  BY <1>1
<1>4. AllWith(bytes) => AllWith(bytes)'
  BY <1>3 DEF AllWith
<1>5. QED BY <1>2, <1>4, NoBytesMove

\* A step of a call that leaves its reservation alone.
LEMMA CallIdle ==
  ASSUME Shape, BytesExact, NEW s \in Store, NEW j, job' = [job EXCEPT ![s] = j],
         j.res = job[s].res
  PROVE  JobBytes' = JobBytes /\ \A t \in Store : job'[t].res = job[t].res
<1>1. JobsFit /\ job \in [Store -> Jobs] /\ job[s].res \in Nat
  BY DEF Shape, JobsFit, Jobs
<1>2. JobBytes \in Nat /\ j.res \in Nat /\ JobBytes' = JobBytes - job[s].res + j.res
  BY <1>1, JobBytesChange, BytesFacts
<1>3. JobBytes' = JobBytes
  BY <1>1, <1>2
<1>4. QED BY <1>1, <1>3

\* The counter follows the reservations.
LEMMA BytesStep ==
  ASSUME Shape, BytesExact, [Next]_vars
  PROVE  BytesExact'
<1>0. /\ queue \in Seq(Items) /\ w.batch \in Seq(Items) /\ w \in Works
      /\ job \in [Store -> Jobs] /\ JobsFit /\ \A s \in Store : JobFits(s, job[s])
      /\ \A s \in Store : job[s] \in Jobs /\ job[s].res \in Nat
  BY DEF Shape, WorkFits, Works, JobsFit, Jobs
\* Steps that leave every reservation where it is.
<1>1. CASE UNCHANGED <<bytes, queue, job>> /\ w'.batch = w.batch
  <2>1. JobBytes' = JobBytes /\ BytesOf(w.batch)' = BytesOf(w.batch)
    BY <1>1 DEF JobBytes
  <2>2. AllWith(bytes) => AllWith(bytes)'
    BY <1>1 DEF AllWith
  <2>3. QED BY <1>1, <2>1, <2>2, NoBytesMove
<1>2. ASSUME NEW s \in Store, NEW j, job' = [job EXCEPT ![s] = j], j.res = job[s].res,
             UNCHANGED <<bytes, queue, w>>
      PROVE  BytesExact'
  <2>1. JobBytes' = JobBytes /\ \A t \in Store : job'[t].res = job[t].res
    BY <1>2, CallIdle
  <2>2. AllWith(bytes) => AllWith(bytes)'
    BY <1>2, <2>1 DEF AllWith
  <2>3. QED BY <1>2, <2>1, <2>2, NoBytesMove
<1>3. ASSUME NEW s \in Store, NEW pc, To(s, pc)
      PROVE  \E j : job' = [job EXCEPT ![s] = j] /\ j.res = job[s].res
  <2>1. job' = [job EXCEPT ![s] = [job[s] EXCEPT !.pc = pc]]
    BY <1>3 DEF To
  <2>2. [job[s] EXCEPT !.pc = pc].res = job[s].res
    BY <1>0 DEF Jobs
  <2>3. QED BY <2>1, <2>2
<1>4. ASSUME NEW s \in Store, job[s].res = 0,
             Done(s) \/ (\E admitted \in BOOLEAN : Over(s, admitted))
      PROVE  \E j : job' = [job EXCEPT ![s] = j] /\ j.res = job[s].res
  <2>1. PICK pc, i : job' \in {[job EXCEPT ![s] = [NoJob EXCEPT !.pc = pc]],
                               [job EXCEPT ![s] = [NoJob EXCEPT !.pc = pc, !.i = i]]}
    BY <1>4 DEF Done, Over
  <2>2. /\ [NoJob EXCEPT !.pc = pc].res = 0
        /\ [NoJob EXCEPT !.pc = pc, !.i = i].res = 0
    BY DEF NoJob
  <2>3. QED BY <1>4, <2>1, <2>2
<1>5. ASSUME NEW s \in Store, NEW out, Told(s, out)
      PROVE  \E j : job' = [job EXCEPT ![s] = j] /\ j.res = 0
  <2>1. job' = [job EXCEPT ![s] = [job[s] EXCEPT !.pc = "settle", !.res = 0, !.out = out]]
    BY <1>5 DEF Told
  <2>2. [job[s] EXCEPT !.pc = "settle", !.res = 0, !.out = out].res = 0
    BY <1>0 DEF Jobs
  <2>3. QED BY <2>1, <2>2
<1>6. \A s \in Store : job[s].pc \notin {"freeze", "enqueue"} => job[s].res = 0
  BY <1>0 DEF JobFits
<1>7. ASSUME NEW s \in Store, StartWrite(s) PROVE BytesExact'
  <2>1. job[s].res = 0 /\ UNCHANGED <<bytes, queue, w>>
    BY <1>6, <1>7 DEF StartWrite
  <2>2. CASE Over(s, FALSE)
    BY <1>2, <1>4, <2>1, <2>2
  <2>3. CASE \E pc \in {"settle", "admit"} : job' = [job EXCEPT ![s].pc = pc, ![s].born = era]
    <3>1. PICK pc \in {"settle", "admit"} :
            job' = [job EXCEPT ![s] = [job[s] EXCEPT !.pc = pc, !.born = era]]
      BY <2>3
    <3>2. [job[s] EXCEPT !.pc = pc, !.born = era].res = job[s].res
      BY <1>0 DEF Jobs
    <3>3. QED BY <1>2, <2>1, <3>1, <3>2
  <2>4. QED BY <1>7, <2>2, <2>3 DEF StartWrite
<1>8. ASSUME NEW s \in Store, Admit(s) PROVE BytesExact'
  <2> DEFINE n == Size[s][job[s].i].estimate
  <2>1. job[s].res = 0 /\ UNCHANGED <<queue, w>> /\ job[s].i \in 1..Len(Chain[s])
    BY <1>0, <1>6, <1>8, ChainLength DEF Admit, JobFits, Jobs, Working, lifeVars
  <2>2. CASE UNCHANGED bytes /\ Told(s, "dropped")
    BY <1>2, <1>5, <2>1, <2>2
  <2>3. CASE /\ CanReserve(n) /\ bytes' = bytes + n
             /\ job' = [job EXCEPT ![s].pc = "freeze", ![s].res = n]
    <3>1. n \in Nat
      BY <2>1, ChainLength
    <3>2. /\ job' = [job EXCEPT ![s] = [job[s] EXCEPT !.pc = "freeze", !.res = n]]
          /\ [job[s] EXCEPT !.pc = "freeze", !.res = n].res = n
      BY <1>0, <2>3 DEF Jobs
    <3>0. CanReserve(n) /\ bytes' = bytes + n
      BY <2>3
    <3> HIDE DEF n
    <3>3. bytes' = bytes - job[s].res + n /\ (bytes' <= Budget \/ bytes' = n)
      BY <2>1, <3>0, <3>1, BytesFacts DEF CanReserve
    <3>4. QED BY <2>1, <3>1, <3>2, <3>3, CallBytes
  <2>4. QED BY <1>8, <2>2, <2>3 DEF Admit
<1>9. ASSUME NEW s \in Store, Freeze(s) PROVE BytesExact'
  <2> DEFINE n == Size[s][job[s].i].frozen
  <2>1. UNCHANGED <<queue, w>> /\ job[s].i \in 1..Len(Chain[s])
    BY <1>0, <1>9, ChainLength DEF Freeze, JobFits, Jobs, Working, lifeVars
  <2>2. CASE bytes' = bytes - job[s].res /\ \E out : Told(s, out)
    <3>1. bytes' = bytes - job[s].res + 0
      BY <1>0, <2>2, BytesFacts
    <3>2. PICK j : job' = [job EXCEPT ![s] = j] /\ j.res = 0
      BY <1>5, <2>2
    <3>3. j.res \in Nat /\ bytes' = bytes - job[s].res + j.res
      BY <3>1, <3>2
    <3>4. QED BY <2>1, <2>2, <3>2, <3>3, CallBytes
  <2>3. CASE /\ CanResize(job[s].res, n) /\ bytes' = bytes - job[s].res + n
             /\ job' = [job EXCEPT ![s].pc = "enqueue", ![s].res = n]
    <3>1. n \in Nat
      BY <2>1, ChainLength
    <3>2. /\ job' = [job EXCEPT ![s] = [job[s] EXCEPT !.pc = "enqueue", !.res = n]]
          /\ [job[s] EXCEPT !.pc = "enqueue", !.res = n].res = n
      BY <1>0, <2>3 DEF Jobs
    <3> HIDE DEF n
    <3>3. bytes' <= Budget \/ bytes' = n
      <4> DEFINE old == job[s].res
      <4>1. old \in Nat /\ bytes \in Nat /\ Budget \in Nat
        BY <1>0, BytesFacts
      <4>2. CanResize(old, n) /\ bytes' = bytes - old + n
        BY <2>3
      <4> HIDE DEF old
      <4>3. QED BY <3>1, <4>1, <4>2 DEF CanResize
    <3>4. QED BY <2>1, <2>3, <3>1, <3>2, <3>3, CallBytes
  <2>4. QED BY <1>9, <2>2, <2>3 DEF Freeze
<1>10. ASSUME NEW s \in Store, Enqueue(s) PROVE BytesExact'
  <2>1. UNCHANGED w /\ job[s].pc = "enqueue"
    BY <1>10 DEF Enqueue
  <2>2. CASE /\ bytes' = bytes - job[s].res /\ UNCHANGED queue
             /\ \E out : Told(s, out)
    <3>1. bytes' = bytes - job[s].res + 0
      BY <1>0, <2>2, BytesFacts
    <3>2. PICK j : job' = [job EXCEPT ![s] = j] /\ j.res = 0
      BY <1>5, <2>2
    <3>3. j.res \in Nat /\ bytes' = bytes - job[s].res + j.res
      BY <3>1, <3>2
    <3>4. QED BY <2>1, <2>2, <3>2, <3>3, CallBytes
  <2>3. CASE Post(BlockItem(s)) /\ Told(s, "queued") /\ UNCHANGED bytes
    <3> DEFINE it == BlockItem(s)
    <3>1. it \in Items /\ it.size = job[s].res
      BY <1>0, <2>1, BlockItemFits DEF BlockItem
    <3>2. queue' = Append(queue, it)
      BY <2>3 DEF Post
    <3> HIDE DEF it
    <3>3. PICK j : job' = [job EXCEPT ![s] = j] /\ j.res = 0
      BY <1>5, <2>3
    <3>4. JobBytes' = JobBytes - job[s].res
      <4>1. j.res \in Nat /\ JobBytes \in Nat /\ job[s].res \in Nat
        BY <1>0, <3>3, BytesFacts
      <4>2. JobBytes' = JobBytes - job[s].res + j.res
        BY <1>0, <3>3, <4>1, JobBytesChange
      <4>3. QED BY <3>3, <4>1, <4>2
    <3>5. BytesOf(queue)' = BytesOf(queue) + job[s].res
      BY <1>0, <3>1, <3>2, ItemBytesAppend
    <3>6. bytes' = JobBytes' + BytesOf(queue)' + BytesOf(w.batch)'
      BY <1>0, <2>1, <2>3, <3>4, <3>5, BytesFacts
    <3>7. /\ queue'[Len(queue) + 1] = it /\ Len(queue) + 1 \in DOMAIN queue'
          /\ \A i \in DOMAIN queue : i \in DOMAIN queue' /\ queue'[i] = queue[i]
      BY <1>0, <3>1, <3>2
    <3>8. \A t \in Store : t = s \/ job'[t] = job[t]
      BY <1>0, <3>3
    <3>9. AllWith(bytes) => AllWith(bytes)'
      BY <2>1, <2>3, <3>1, <3>7, <3>8 DEF AllWith
    <3>10. QED BY <2>3, <3>6, <3>9, BytesFacts, BytesGoal
  <2>4. QED BY <1>10, <2>2, <2>3 DEF Enqueue, lifeVars
<1>11. ASSUME NEW s \in Store, Settle(s) \/ BeginFence(s) \/ Skip(s) \/ StoreRaises(s)
                               \/ Seal(s) \/ Mark(s) \/ Unpin(s)
       PROVE  BytesExact'
  <2>1. UNCHANGED <<bytes, queue, w>> /\ job[s].res = 0
    BY <1>6, <1>11 DEF Settle, BeginFence, Skip, StoreRaises, Seal, Mark, Unpin, lifeVars
  <2>2. \/ \E pc : To(s, pc)
        \/ Done(s)
        \/ \E admitted \in BOOLEAN : Over(s, admitted)
    BY <1>11 DEF Settle, BeginFence, Skip, StoreRaises, Seal, Mark, Unpin
  <2>3. QED BY <1>2, <1>3, <1>4, <2>1, <2>2
<1>12. ASSUME NEW s \in Store, Sentinel(s) PROVE BytesExact'
  <2>1. UNCHANGED <<bytes, w>> /\ \E pc : To(s, pc)
    BY <1>12 DEF Sentinel
  <2>2. PICK j : job' = [job EXCEPT ![s] = j] /\ j.res = job[s].res
    BY <1>3, <2>1
  <2>3. CASE UNCHANGED queue
    BY <1>2, <2>1, <2>2, <2>3
  <2>4. CASE Post(Item("fence", s, NoBlock))
    <3>1. Item("fence", s, NoBlock) \in Items /\ Item("fence", s, NoBlock).size = 0
      BY ItemsFit DEF Item
    <3>2. QED BY <2>1, <2>2, <2>4, <3>1, CallIdle, PostBytes
  <2>5. QED BY <1>12, <2>3, <2>4 DEF Sentinel, lifeVars
<1>13. CASE TakeBatch
  <2>1. /\ w.batch = <<>> /\ w'.batch = queue /\ queue' = <<>> /\ UNCHANGED <<bytes, job>>
    BY <1>0, <1>13 DEF TakeBatch, AtWork, Shape, WorkFits, Works
  <2>2. BytesOf(<<>>) = 0
    <3>1. <<>> \in Seq(Items) /\ \A i \in 1..Len(<<>>) : <<>>[i].size = 0
      OBVIOUS
    <3>2. QED BY <3>1, ItemBytesZero
  <2>3. JobBytes' = JobBytes
    BY <2>1 DEF JobBytes
  <2>4. bytes' = JobBytes' + BytesOf(queue)' + BytesOf(w.batch)'
    BY <2>1, <2>2, <2>3, BytesFacts
  <2>5. AllWith(bytes) => AllWith(bytes)'
    BY <2>1 DEF AllWith
  <2>6. QED BY <2>1, <2>4, <2>5, BytesFacts, BytesGoal
<1>14. CASE Encode
  <2>1. /\ w.i \in 1..Len(w.batch) /\ UNCHANGED <<queue, job>>
        /\ Current \in Items /\ Current.size \in Nat /\ Current.final \in Nat
    BY <1>0, <1>14, ItemsFit DEF Encode, Current, Works, lifeVars
  <2>2. CASE UNCHANGED bytes /\ w' = [w EXCEPT !.i = @ + 1]
    <3>1. w'.batch = w.batch
      BY <1>0, <2>2 DEF Works
    <3>2. QED BY <1>1, <2>1, <2>2, <3>1
  <2>3. CASE /\ bytes' = bytes - Current.size
             /\ \E owe : w' = [w EXCEPT !.batch[w.i] = Spent, !.i = @ + 1, !.owe = owe]
    <3>1. w'.batch = [w.batch EXCEPT ![w.i] = Spent]
      BY <1>0, <2>3 DEF Works
    <3>2. Spent \in Items /\ Spent.size = 0
      BY ItemsFit
    <3>3. bytes' = bytes - Current.size + Spent.size
      BY <2>1, <2>3, <3>2, BytesFacts
    <3>4. QED BY <2>1, <3>1, <3>2, <3>3, BatchBytes
  <2>4. CASE /\ Current.kind = "block" /\ CanResize(Current.size, Current.final)
             /\ bytes' = bytes - Current.size + Current.final
             /\ w' = [w EXCEPT !.batch[w.i].size = Current.final, !.i = @ + 1]
    <3> DEFINE it == [Current EXCEPT !.size = Current.final]
    <3>1. w'.batch = [w.batch EXCEPT ![w.i] = it]
      BY <1>0, <2>4 DEF Works, Current
    <3>2. it \in Items /\ it.size = Current.final
      BY <2>1, <2>4, ItemsFit DEF Items
    <3>3. bytes' <= Budget \/ bytes' = Current.final
      BY <2>1, <2>4, BytesFacts DEF CanResize
    <3> HIDE DEF it
    <3>4. QED BY <2>1, <2>4, <3>1, <3>2, <3>3, BatchBytes
  <2>5. QED BY <1>14, <2>2, <2>3, <2>4 DEF Encode
<1>15. CASE PublishBlock \/ PublishOther
  <2>0. w.i <= Len(w.batch) /\ UNCHANGED <<queue, job>>
    BY <1>15 DEF PublishBlock, PublishOther, lifeVars
  <2>1. w.i \in 1..Len(w.batch) /\ Current \in Items /\ Current.size \in Nat
    BY <1>0, <2>0, ItemsFit DEF Current, Works
  <2>2. w'.batch = [w.batch EXCEPT ![w.i] = Spent]
    BY <1>0, <1>15 DEF PublishBlock, PublishOther, Settled, Works
  <2>3. bytes' = bytes - Current.size
    <3>1. CASE PublishBlock
      BY <3>1 DEF PublishBlock
    <3>2. CASE PublishOther
      <4>1. Current.size = 0 /\ UNCHANGED bytes
        BY <2>1, <3>2 DEF PublishOther, Items
      <4>2. QED BY <4>1, BytesFacts
    <3>3. QED BY <1>15, <3>1, <3>2
  <2>4. Spent \in Items /\ Spent.size = 0
    BY ItemsFit
  <2>5. bytes' = bytes - Current.size + Spent.size
    BY <2>1, <2>3, <2>4, BytesFacts
  <2>6. QED BY <2>0, <2>1, <2>2, <2>4, <2>5, BatchBytes
<1>16. CASE WriterSeals
  <2>1. w.owe \in Store /\ UNCHANGED <<bytes, job>> /\ w'.batch = w.batch
    BY <1>0, <1>16 DEF WriterSeals, Works
  <2>2. CASE UNCHANGED queue
    BY <1>1, <2>1, <2>2
  <2>3. CASE Post(Item("fence", w.owe, NoBlock))
    <3> DEFINE it == Item("fence", w.owe, NoBlock)
    <3>1. it \in Items /\ it.size = 0
      BY <2>1, ItemsFit DEF Item
    <3>2. queue' = Append(queue, it)
      BY <2>3 DEF Post
    <3> HIDE DEF it
    <3>3. BytesOf(queue)' = BytesOf(queue)
      BY <1>0, <3>1, <3>2, ItemBytesAppend, BytesFacts
    <3>4. \A i \in DOMAIN queue : i \in DOMAIN queue' /\ queue'[i] = queue[i]
      BY <1>0, <3>1, <3>2
    <3>5. AllWith(bytes) => AllWith(bytes)'
      BY <2>1, <3>4 DEF AllWith
    <3>6. JobBytes' = JobBytes /\ BytesOf(w.batch)' = BytesOf(w.batch)
      BY <2>1 DEF JobBytes
    <3>7. QED BY <2>1, <3>3, <3>5, <3>6, NoBytesMove
  <2>4. QED BY <1>16, <2>2, <2>3 DEF WriterSeals, lifeVars
<1>17. CASE BatchRaises
  <2>1. /\ w'.batch = [i \in DOMAIN w.batch |-> Spent] /\ UNCHANGED <<queue, job>>
        /\ bytes' = bytes - BytesOf(w.batch)
    BY <1>0, <1>17 DEF BatchRaises, Works, lifeVars
  <2>2. BytesOf(w.batch)' = 0
    <3>1. Spent \in Items /\ Spent.size = 0
      BY ItemsFit
    <3>2. w'.batch \in Seq(Items) /\ \A i \in 1..Len(w'.batch) : w'.batch[i].size = 0
      BY <1>0, <2>1, <3>1
    <3>3. QED BY <3>2, ItemBytesZero
  <2>3. JobBytes' = JobBytes
    BY <2>1 DEF JobBytes
  <2>4. bytes' = JobBytes' + BytesOf(queue)' + BytesOf(w.batch)'
    BY <2>1, <2>2, <2>3, BytesFacts
  <2>5. ASSUME bytes' > Budget PROVE AllWith(bytes)'
    <3>1. bytes > Budget /\ AllWith(bytes)
      BY <2>1, <2>5, BytesFacts
    <3>2. ~\E i \in DOMAIN w.batch : w.batch[i].size = bytes
      BY <2>1, <2>5, BytesFacts, Shares
    <3>3. bytes' = bytes
      BY <2>1, <3>1, <3>2, BytesFacts, Shares DEF AllWith
    <3>4. QED BY <2>1, <3>1, <3>2, <3>3 DEF AllWith
  <2>6. QED BY <2>4, <2>5, BytesGoal
<1>18. CASE CompleteBatch
  <2>1. /\ w'.batch = <<>> /\ UNCHANGED <<bytes, queue, job>>
        /\ \A i \in 1..Len(w.batch) : w.batch[i].size = 0
    BY <1>0, <1>18 DEF CompleteBatch, NoWork, AtWork, Shape, WorkFits, Items
  <2>2. BytesOf(w.batch) = 0 /\ BytesOf(w.batch)' = 0
    <3>1. <<>> \in Seq(Items) /\ \A i \in 1..Len(<<>>) : <<>>[i].size = 0
      OBVIOUS
    <3>2. QED BY <1>0, <2>1, <3>1, ItemBytesZero
  <2>3. JobBytes' = JobBytes
    BY <2>1 DEF JobBytes
  <2>4. ASSUME AllWith(bytes), bytes > 0 PROVE AllWith(bytes)'
    <3>1. \A i \in DOMAIN w.batch : w.batch[i].size # bytes
      BY <1>0, <2>1, <2>4
    <3>2. \/ \E s \in Store : job[s].res = bytes
          \/ \E i \in DOMAIN queue : queue[i].size = bytes
      BY <2>4, <3>1 DEF AllWith
    <3>3. QED BY <2>1, <3>2 DEF AllWith
  <2>5. QED BY <2>1, <2>2, <2>3, <2>4, NoBytesMove
<1>19. CASE EnterRoot \/ Account \/ WriterExits \/ (\E s \in Store : FinalizeFence(s))
  BY <1>0, <1>1, <1>19 DEF EnterRoot, Account, WriterExits, FinalizeFence, Works, lifeVars
<1>20. ASSUME NEW b \in Block, Touch(b) PROVE BytesExact'
  <2>1. PICK kind \in {"access", "cleanup"} : Post(Item(kind, NoStore, b))
    BY <1>20 DEF Touch
  <2>2. Item(kind, NoStore, b) \in Items /\ Item(kind, NoStore, b).size = 0
    BY ItemsFit DEF Item
  <2>3. UNCHANGED <<bytes, w, job>> /\ JobBytes' = JobBytes
    BY <1>20 DEF Touch, JobBytes
  <2>4. QED BY <2>1, <2>2, <2>3, PostBytes
<1>21. ASSUME (\E b \in Block : Evict(b)) \/ (\E s \in Store : Forget(s)) \/ Clearing
                \/ Shutdown \/ Stopping \/ UNCHANGED vars
       PROVE  BytesExact'
  <2>1. UNCHANGED <<bytes, queue, w, job>>
    BY <1>21, StopFrame DEF Evict, Forget, vars, lifeVars
  <2>2. QED BY <1>1, <2>1
<1>22. QED BY <1>7, <1>8, <1>9, <1>10, <1>11, <1>12, <1>13, <1>14, <1>15, <1>16, <1>17, <1>18,
              <1>19, <1>20, <1>21 DEF Next, Write, Writer

-----------------------------------------------------------------------------
(* The blocks on their way.                                                *)

\* The blocks of a call among the items are a number.
LEMMA BlocksType ==
  ASSUME NEW s, NEW items \in Seq(Items)
  PROVE  /\ [i \in DOMAIN items |-> Weight(s, items[i])] \in [1..Len(items) -> Nat]
         /\ BlocksOf(s, items) \in Nat
<1>1. Len(items) \in Nat /\ DOMAIN items = 1..Len(items)
  OBVIOUS
<1>2. [i \in DOMAIN items |-> Weight(s, items[i])] \in [1..Len(items) -> Nat]
  BY <1>1 DEF Weight
<1>3. IsFiniteSet(1..Len(items))
  BY <1>1, FS_Interval
<1>4. QED BY <1>2, <1>3, BytesType DEF BlocksOf

\* An item changes.
LEMMA BlocksChange ==
  ASSUME NEW s, NEW items \in Seq(Items), NEW k \in 1..Len(items), NEW it \in Items
  PROVE  BlocksOf(s, [items EXCEPT ![k] = it])
           = BlocksOf(s, items) - Weight(s, items[k]) + Weight(s, it)
<1> DEFINE D == 1..Len(items)
           changed == [items EXCEPT ![k] = it]
           f == [i \in DOMAIN items |-> Weight(s, items[i])]
           g == [i \in DOMAIN changed |-> Weight(s, changed[i])]
<1>1. /\ changed \in Seq(Items) /\ Len(changed) = Len(items)
      /\ DOMAIN changed = D /\ DOMAIN items = D
  OBVIOUS
<1>2. f \in [D -> Nat] /\ g \in [D -> Nat]
  BY <1>1, BlocksType, ZenonT(60)
<1>3. IsFiniteSet(D)
  BY FS_Interval
<1>4. f[k] = Weight(s, items[k]) /\ g[k] = Weight(s, it) /\ \A i \in D \ {k} : g[i] = f[i]
  BY <1>1
<1> HIDE DEF f, g, D
<1>5. Bytes(g) = Bytes(f) - f[k] + g[k]
  BY <1>2, <1>3, <1>4, BytesChange DEF D
<1>6. QED BY <1>4, <1>5 DEF BlocksOf, f, g

\* An item joins.
LEMMA BlocksAppend ==
  ASSUME NEW s, NEW items \in Seq(Items), NEW it \in Items
  PROVE  BlocksOf(s, Append(items, it)) = BlocksOf(s, items) + Weight(s, it)
<1> DEFINE n == Len(items)
           longer == Append(items, it)
           f == [i \in DOMAIN items |-> Weight(s, items[i])]
           g == [i \in DOMAIN longer |-> Weight(s, longer[i])]
<1>1. /\ longer \in Seq(Items) /\ Len(longer) = n + 1 /\ n \in Nat
      /\ DOMAIN longer = 1..(n + 1) /\ DOMAIN items = 1..n
      /\ longer[n + 1] = it /\ \A i \in 1..n : longer[i] = items[i]
  OBVIOUS
<1>2. f \in [1..n -> Nat]
  BY BlocksType
<1>3. g \in [1..(n + 1) -> Nat]
  BY <1>1, BlocksType
<1>4. g[n + 1] = Weight(s, it) /\ \A i \in 1..n : g[i] = f[i]
  BY <1>1
<1> HIDE DEF f, g, n
<1>5. Bytes(g) = Bytes(f) + g[n + 1]
  BY <1>1, <1>2, <1>3, <1>4, BytesAppend
<1>6. QED BY <1>4, <1>5 DEF BlocksOf, f, g

\* There is none where no item is a block of the call, and only there.
LEMMA BlocksZero ==
  ASSUME NEW s, NEW items \in Seq(Items)
  PROVE  BlocksOf(s, items) = 0 <=> \A i \in 1..Len(items) : Weight(s, items[i]) = 0
<1> DEFINE f == [i \in DOMAIN items |-> Weight(s, items[i])]
           D == 1..Len(items)
<1>1. f \in [D -> Nat] /\ \A i \in D : f[i] = Weight(s, items[i])
  BY BlocksType
<1>2. IsFiniteSet(D)
  BY FS_Interval
<1> HIDE DEF f, D
<1>3. ASSUME \A i \in D : f[i] = 0 PROVE Bytes(f) = 0
  BY <1>1, <1>3, BytesZero
<1>4. ASSUME Bytes(f) = 0, NEW i \in D PROVE f[i] = 0
  <2>1. f[i] <= Bytes(f) /\ f[i] \in Nat
    BY <1>1, <1>2, BytesBound
  <2>2. QED BY <1>4, <2>1
<1>5. QED BY <1>1, <1>3, <1>4 DEF BlocksOf, f, D

\* The queue and the batch move together, and only a call that hands a block
\* over adds one.
LEMMA WayMoves ==
  ASSUME Shape, Next, NEW s \in Store, ~Enqueue(s)
  PROVE  OnTheWay(s)' <= OnTheWay(s) /\ OnTheWay(s)' \in Nat /\ OnTheWay(s) \in Nat
<1> DEFINE q == BlocksOf(s, queue)
           b == BlocksOf(s, w.batch)
           q2 == BlocksOf(s, queue')
           b2 == BlocksOf(s, w'.batch)
<1>0. /\ queue \in Seq(Items) /\ w.batch \in Seq(Items) /\ w \in Works
      /\ queue' \in Seq(Items) /\ w'.batch \in Seq(Items)
  BY ShapeStep DEF Shape, WorkFits, Works
<1>1. q \in Nat /\ b \in Nat /\ q2 \in Nat /\ b2 \in Nat
  BY <1>0, BlocksType
<1>2. OnTheWay(s) = q + b /\ OnTheWay(s)' = q2 + b2
  BY DEF OnTheWay
<1>3. SUFFICES q2 + b2 <= q + b
  <2> HIDE DEF q, b, q2, b2
  <2>1. QED BY <1>1, <1>2
<1>4. CASE TakeBatch
  <2>1. w.batch = <<>> /\ queue' = <<>> /\ w'.batch = queue
    BY <1>0, <1>4 DEF TakeBatch, AtWork, Shape, WorkFits, Works
  <2>2. BlocksOf(s, <<>>) = 0
    <3>1. <<>> \in Seq(Items) /\ 1..Len(<<>>) = {}
      OBVIOUS
    <3>2. QED BY <3>1, BlocksZero
  <2>3. q2 = 0 /\ b = 0 /\ b2 = q
    BY <2>1, <2>2
  <2> HIDE DEF q, b, q2, b2
  <2>4. QED BY <1>1, <2>3
<1>5. ASSUME ~TakeBatch PROVE q2 <= q
  <2>1. CASE UNCHANGED queue
    BY <1>1, <2>1
  <2>2. ASSUME NEW it \in Items, Post(it), Weight(s, it) = 0 PROVE q2 <= q
    <3>1. queue' = Append(queue, it)
      BY <2>2 DEF Post
    <3>2. q2 = q + 0
      BY <1>0, <2>2, <3>1, BlocksAppend
    <3> HIDE DEF q, q2
    <3>3. QED BY <1>1, <3>2
  <2>3. ASSUME NEW t \in Store, Enqueue(t) PROVE q2 <= q
    <3>1. t # s /\ BlockItem(t) \in Items
      BY <2>3, BlockItemFits DEF Enqueue, Shape, JobsFit
    <3>2. Weight(s, BlockItem(t)) = 0
      BY <3>1 DEF Weight, BlockItem
    <3>3. QED BY <2>1, <2>2, <2>3, <3>1, <3>2 DEF Enqueue, lifeVars
  <2>4. /\ \A t \in Store : Weight(s, Item("fence", t, NoBlock)) = 0
        /\ \A c \in Block, kind \in {"access", "cleanup"} : Weight(s, Item(kind, NoStore, c)) = 0
    BY DEF Weight, Item
  <2>5. ASSUME NEW t \in Store, Sentinel(t) PROVE q2 <= q
    BY <2>1, <2>2, <2>4, <2>5, ItemsFit DEF Sentinel, lifeVars
  <2>6. CASE WriterSeals
    <3>1. w.owe \in Store
      BY <1>0, <2>6 DEF WriterSeals, Works
    <3>2. QED BY <2>1, <2>2, <2>4, <2>6, <3>1, ItemsFit DEF WriterSeals, lifeVars
  <2>7. ASSUME NEW c \in Block, Touch(c) PROVE q2 <= q
    BY <2>2, <2>4, <2>7, ItemsFit DEF Touch
  <2>8. \/ Encode \/ EnterRoot \/ PublishBlock \/ PublishOther \/ Account \/ BatchRaises
        \/ CompleteBatch \/ WriterExits \/ Clearing \/ Shutdown \/ Stopping
        \/ (\E t \in Store : \/ Forget(t) \/ FinalizeFence(t)
                             \/ (Write(t) /\ ~Enqueue(t) /\ ~Sentinel(t)))
        \/ (\E c \in Block : Evict(c))
        => UNCHANGED queue
    BY StopFrame, ZenonT(60) DEF Encode, EnterRoot, PublishBlock, PublishOther, Account, BatchRaises,
       CompleteBatch, WriterExits, Forget, FinalizeFence, Write, BeginFence, StartWrite, Admit,
       Freeze, Settle, Skip, StoreRaises, Seal, Mark, Unpin, Evict, lifeVars
  <2>9. QED BY <1>5, <2>1, <2>3, <2>5, <2>6, <2>7, <2>8 DEF Next, Writer
<1>6. ASSUME ~TakeBatch PROVE b2 <= b
  <2>1. CASE w'.batch = w.batch
    BY <1>1, <2>1
  <2>2. ASSUME NEW it \in Items, w.i \in 1..Len(w.batch),
               w'.batch = [w.batch EXCEPT ![w.i] = it],
               Weight(s, it) <= Weight(s, w.batch[w.i])
        PROVE  b2 <= b
    <3> DEFINE x == Weight(s, it)
               y == Weight(s, w.batch[w.i])
    <3>1. b2 = b - y + x
      BY <1>0, <2>2, BlocksChange
    <3>2. x \in Nat /\ y \in Nat /\ x <= y
      BY <2>2 DEF Weight
    <3> HIDE DEF b, b2, x, y
    <3>3. QED BY <1>1, <3>1, <3>2
  <2>3. Weight(s, Spent) = 0 /\ Spent \in Items
    BY ItemsFit DEF Weight
  <2>4. \A it : Weight(s, it) \in Nat
    BY DEF Weight
  <2>5. CASE Encode
    <3>1. w.i \in 1..Len(w.batch) /\ Current \in Items
      BY <1>0, <2>5 DEF Encode, Current, Works
    <3>2. CASE /\ Current.kind = "block"
               /\ w' = [w EXCEPT !.batch[w.i].size = Current.final, !.i = @ + 1]
      <4> DEFINE it == [Current EXCEPT !.size = Current.final]
      <4>1. w'.batch = [w.batch EXCEPT ![w.i] = it]
        BY <1>0, <3>2 DEF Works, Current
      <4>2. it \in Items /\ it.kind = Current.kind /\ it.store = Current.store
        BY <3>1, <3>2, ItemsFit DEF Items
      <4> HIDE DEF it
      <4>3. Weight(s, it) = Weight(s, w.batch[w.i])
        BY <4>2 DEF Weight, Current
      <4>4. QED BY <2>2, <2>4, <3>1, <4>1, <4>2, <4>3
    <3>3. CASE w'.batch \in {w.batch, [w.batch EXCEPT ![w.i] = Spent]}
      BY <2>1, <2>2, <2>3, <2>4, <3>1, <3>3
    <3>4. QED BY <1>0, <2>5, <3>2, <3>3 DEF Encode, Works
  <2>6. CASE PublishBlock \/ PublishOther
    <3>1. w.i <= Len(w.batch) /\ w.i \in Nat \ {0}
      BY <1>0, <2>6 DEF PublishBlock, PublishOther, Works
    <3>2. w'.batch = [w.batch EXCEPT ![w.i] = Spent]
      BY <1>0, <2>6 DEF PublishBlock, PublishOther, Settled, Works
    <3>3. w.i \in 1..Len(w.batch)
      BY <1>0, <3>1
    <3>4. QED BY <2>2, <2>3, <2>4, <3>2, <3>3
  <2>7. ASSUME \A i \in 1..Len(w'.batch) : Weight(s, w'.batch[i]) = 0 PROVE b2 <= b
    <3>1. b2 = 0
      BY <1>0, <2>7, BlocksZero
    <3> HIDE DEF b, b2
    <3>2. QED BY <1>1, <3>1
  <2>8. CASE BatchRaises
    <3>1. w'.batch = [i \in DOMAIN w.batch |-> Spent]
      BY <1>0, <2>8 DEF BatchRaises, Works
    <3>2. QED BY <1>0, <2>3, <2>7, <3>1
  <2>9. CASE CompleteBatch
    <3>1. w'.batch = <<>>
      BY <2>9 DEF CompleteBatch, NoWork
    <3>2. QED BY <2>7, <3>1
  <2>10. CASE EnterRoot \/ WriterSeals \/ Account \/ WriterExits
                \/ (\E t \in Store : FinalizeFence(t))
    BY <1>0, <2>1, <2>10 DEF EnterRoot, WriterSeals, Account, WriterExits, FinalizeFence, Works
  <2>11. QED BY <1>6, <2>1, <2>5, <2>6, <2>8, <2>9, <2>10, WriteFrame, StopFrame, OtherFrame
             DEF Next, Writer
<1> HIDE DEF q, b, q2, b2
<1>7. QED BY <1>1, <1>4, <1>5, <1>6

-----------------------------------------------------------------------------
(* What fences know.                                                       *)

\* A fence that learned of no write and of no block, and did not settle.
Quiet(f, g) ==
  /\ g.queued = f.queued /\ g.processed = f.processed /\ (g.sealed <=> f.sealed)
  /\ f.done => g.done
  /\ g.done /\ ~g.err => f.done /\ ~f.err

\* A block of call s leaves the batch.
Leaves(s) ==
  /\ w.i \in 1..Len(w.batch) /\ Weight(s, Current) = 1
  /\ w'.batch = [w.batch EXCEPT ![w.i] = Spent] /\ UNCHANGED queue

\* A failure is quiet.
LEMMA QuietFailed ==
  ASSUME fence \in [Store -> Fences], NEW s \in Store, NEW S
  PROVE  /\ Quiet(fence[s], Failed(S)[s])
         /\ \A t \in Store : Quiet(fence[s], [Failed(S) EXCEPT ![t].sfail = TRUE][s])
<1> DEFINE f == fence[s]
           g == Failed(S)[s]
<1>1. f \in Fences /\ Failed(S) \in [Store -> Fences]
  BY FailedType
<1>2. g = f \/ (~f.done /\ g = [f EXCEPT !.done = TRUE, !.err = TRUE])
  BY DEF Failed
<1>3. g \in Fences /\ Quiet(f, g)
  <2> HIDE DEF f
  <2>1. QED BY <1>1, <1>2 DEF Quiet, Fences
<1>4. ASSUME NEW t \in Store PROVE Quiet(f, [Failed(S) EXCEPT ![t].sfail = TRUE][s])
  <2> DEFINE h == [Failed(S) EXCEPT ![t].sfail = TRUE][s]
  <2>1. h = g \/ h = [g EXCEPT !.sfail = TRUE]
    BY <1>1
  <2> HIDE DEF f, g, h
  <2>2. h.queued = g.queued /\ h.processed = g.processed /\ h.sealed = g.sealed
        /\ h.done = g.done /\ h.err = g.err
    BY <1>3, <2>1 DEF Fences
  <2>3. Quiet(f, h)
    BY <1>3, <2>2 DEF Quiet
  <2>4. QED BY <2>3 DEF h
<1>5. QED BY <1>3, <1>4

\* How a step changes a fence.
LEMMA FenceMoves ==
  ASSUME Shape, Next, NEW s \in Store
  PROVE  \/ Quiet(fence[s], fence'[s])
         \/ Seal(s) /\ s \in kept /\ fence' = [fence EXCEPT ![s].sealed = TRUE]
         \/ Settle(s) /\ s \in kept /\ ~fence[s].done /\ fence' = Counted(s, job[s].out)
         \/ \E failed \in BOOLEAN :
              s \in kept /\ Leaves(s) /\ fence' = Completed(s, failed)
         \/ FinalizeFence(s) /\ s \in kept /\ Published(fence[s])
              /\ fence' = [fence EXCEPT ![s].done = TRUE]
<1> DEFINE Goal ==
      \/ Quiet(fence[s], fence'[s])
      \/ Seal(s) /\ s \in kept /\ fence' = [fence EXCEPT ![s].sealed = TRUE]
      \/ Settle(s) /\ s \in kept /\ ~fence[s].done /\ fence' = Counted(s, job[s].out)
      \/ \E failed \in BOOLEAN :
           s \in kept /\ Leaves(s) /\ fence' = Completed(s, failed)
      \/ FinalizeFence(s) /\ s \in kept /\ Published(fence[s])
           /\ fence' = [fence EXCEPT ![s].done = TRUE]
<1>0. /\ fence \in [Store -> Fences] /\ fence[s] \in Fences /\ kept \subseteq Store
      /\ \A t \in Store : fence[t] \in Fences
      /\ w \in Works /\ w.batch \in Seq(Items)
  BY DiskAssumption DEF Shape, Types, WorkFits, Works
<1>1. CASE fence'[s] = fence[s]
  BY <1>1 DEF Quiet
<1>2. ASSUME NEW t \in Store, StartWrite(t) PROVE Goal
  <2>1. CASE t # s
    BY <1>0, <1>1, <1>2, <2>1 DEF StartWrite
  <2>2. PICK failed \in BOOLEAN :
          fence' \in {fence, [fence EXCEPT ![t].expected = @ + 1,
                                      ![t].failed = IF failed THEN @ + 1 ELSE @,
                                      ![t].active = IF failed THEN @ ELSE @ + 1]}
    BY <1>2 DEF StartWrite
  <2>3. CASE t = s
    BY <1>0, <2>2, <2>3 DEF Quiet, Fences
  <2>4. QED BY <2>1, <2>3
<1>3. ASSUME NEW t \in Store, Settle(t) PROVE Goal
  <2>1. CASE t = s
    BY <1>1, <1>3, <2>1 DEF Settle, Counted
  <2>2. CASE t # s
    BY <1>0, <1>1, <1>3, <2>2 DEF Settle, Counted
  <2>3. QED BY <2>1, <2>2
<1>4. ASSUME NEW t \in Store, Skip(t) PROVE Goal
  <2>1. PICK n : fence' \in {fence, [fence EXCEPT ![t].expected = @ + n, ![t].dropped = @ + n]}
    BY <1>4 DEF Skip
  <2> DEFINE f == fence[s]
             g == [f EXCEPT !.expected = f.expected + n, !.dropped = f.dropped + n]
  <2>2. fence'[s] = f \/ fence'[s] = g
    BY <1>0, <2>1
  <2>3. /\ g.queued = f.queued /\ g.processed = f.processed /\ g.sealed = f.sealed
        /\ g.done = f.done /\ g.err = f.err
    BY <1>0 DEF Fences
  <2> HIDE DEF f, g
  <2>4. QED BY <2>2, <2>3 DEF Quiet, f
<1>5. ASSUME NEW t \in Store, Seal(t) PROVE Goal
  <2>1. CASE t # s
    BY <1>0, <1>1, <1>5, <2>1 DEF Seal
  <2>2. CASE t = s
    BY <1>1, <1>5, <2>2 DEF Seal
  <2>3. QED BY <2>1, <2>2
<1>6. ASSUME NEW t \in Store, fence' = [fence EXCEPT ![t].enq = TRUE]
      PROVE  Quiet(fence[s], fence'[s])
  BY <1>0, <1>6 DEF Quiet, Fences
<1>7. ASSUME NEW t \in Store, Sentinel(t) \/ Mark(t) PROVE Goal
  BY <1>0, <1>1, <1>6, <1>7, QuietFailed DEF Sentinel, Mark
<1>8. ASSUME NEW failed \in BOOLEAN, fence' = Completed(Current.store, failed),
             Current.kind = "block", w.i \in 1..Len(w.batch),
             w'.batch = [w.batch EXCEPT ![w.i] = Spent], UNCHANGED queue
      PROVE  Goal
  <2>1. CASE Current.store = s /\ s \in kept
    BY <1>8, <2>1 DEF Leaves, Weight
  <2>2. CASE Current.store # s \/ s \notin kept
    BY <1>0, <1>1, <1>8, <2>2 DEF Completed
  <2>3. QED BY <2>1, <2>2
<1>9. CASE Encode
  <2>1. w.i \in 1..Len(w.batch) /\ UNCHANGED queue
    BY <1>0, <1>9 DEF Encode, Works, lifeVars
  <2>2. CASE UNCHANGED fence
    BY <1>1, <2>2
  <2>3. CASE /\ Current.kind = "block" /\ fence' = Completed(Current.store, TRUE)
             /\ w' = [w EXCEPT !.batch[w.i] = Spent, !.i = @ + 1,
                               !.owe = Owed(Current.store, TRUE)]
    <3>1. w'.batch = [w.batch EXCEPT ![w.i] = Spent]
      BY <1>0, <2>3 DEF Works
    <3>2. QED BY <1>8, <2>1, <2>3, <3>1
  <2>4. QED BY <1>9, <2>2, <2>3 DEF Encode
<1>10. CASE PublishBlock
  <2>1. w.i <= Len(w.batch) /\ UNCHANGED queue /\ Current.kind = "block"
    BY <1>10 DEF PublishBlock, lifeVars
  <2>2. w.i \in 1..Len(w.batch) /\ w'.batch = [w.batch EXCEPT ![w.i] = Spent]
    <3>1. PICK owe : w' = [Settled(w.i) EXCEPT !.owe = owe]
      BY <1>10 DEF PublishBlock
    <3>2. w'.batch = [w.batch EXCEPT ![w.i] = Spent]
      BY <1>0, <3>1 DEF Settled, Works
    <3>3. w.i \in 1..Len(w.batch)
      BY <1>0, <2>1 DEF Works
    <3>4. QED BY <3>2, <3>3
  <2>3. \E failed \in BOOLEAN : fence' = Completed(Current.store, failed)
    BY <1>10 DEF PublishBlock
  <2>4. QED BY <1>8, <2>1, <2>2, <2>3
<1>11. CASE WriterSeals
  <2>1. w.owe \in Store
    BY <1>0, <1>11 DEF WriterSeals, Works
  <2>2. QED BY <1>0, <1>6, <1>11, <2>1, QuietFailed DEF WriterSeals
<1>12. CASE Account \/ FailUnsettled
  BY <1>0, <1>1, <1>12, QuietFailed DEF Account, FailUnsettled
<1>13. ASSUME NEW t \in Store, FinalizeFence(t) PROVE Goal
  <2>1. CASE t # s
    BY <1>0, <1>1, <1>13, <2>1 DEF FinalizeFence
  <2>2. CASE t = s /\ fence' = [fence EXCEPT ![s].enq = FALSE]
    BY <1>0, <2>2 DEF Quiet, Fences
  <2>3. QED BY <1>1, <1>13, <2>1, <2>2 DEF FinalizeFence
<1>14. TakeBatch \/ EnterRoot \/ PublishOther \/ BatchRaises \/ CompleteBatch \/ WriterExits
         \/ StartClear \/ Wipe \/ EndClear \/ Shutdown \/ Stopping
         \/ (\E t \in Store : \/ Admit(t) \/ Freeze(t) \/ Enqueue(t) \/ StoreRaises(t)
                              \/ Unpin(t) \/ BeginFence(t) \/ Forget(t))
         \/ (\E b \in Block : Touch(b) \/ Evict(b))
       => UNCHANGED fence
  BY DEF TakeBatch, EnterRoot, PublishOther, BatchRaises, CompleteBatch, WriterExits,
     StartClear, Wipe, EndClear, Shutdown, Stopping, StopWriter, FinalizeShutdown, Admit,
     Freeze, Enqueue, StoreRaises, Unpin, BeginFence, Forget, Touch, Evict, fenceVars
<1>15. QED BY <1>1, <1>2, <1>3, <1>4, <1>5, <1>7, <1>9, <1>10, <1>11, <1>12, <1>13, <1>14
           DEF Next, Write, Writer, Clearing

\* A call on its way: it is new only at its start, and what it has sealed it
\* does not write to again.
LEMMA CallMoves ==
  ASSUME Shape, Next, NEW s \in Store
  PROVE  /\ job'[s].pc = "new" => job[s].pc = "new"
         /\ job[s].pc \in Closed => job'[s].pc \in Closed
         /\ job'[s].pc = "sentinel" => job[s].pc = "sentinel" \/ fence'[s].sealed
         /\ job[s].out = "queued" => job'[s].out = "queued" \/ Settle(s)
<1> DEFINE Goal ==
         /\ job'[s].pc = "new" => job[s].pc = "new"
         /\ job[s].pc \in Closed => job'[s].pc \in Closed
         /\ job'[s].pc = "sentinel" => job[s].pc = "sentinel" \/ fence'[s].sealed
         /\ job[s].out = "queued" => job'[s].out = "queued" \/ Settle(s)
<1>0. /\ job \in [Store -> Jobs] /\ job[s] \in Jobs
      /\ fence \in [Store -> Fences] /\ fence[s] \in Fences
      /\ job[s].out # "none" => job[s].pc = "settle"
  BY DEF Shape, Types, JobsFit, JobFits
<1>1. CASE job'[s] = job[s]
  BY <1>1
<1>2. ASSUME NEW t \in Store, Write(t), t # s PROVE Goal
  <2>1. job'[s] = job[s]
    BY <1>0, <1>2 DEF Write, BeginFence, StartWrite, Admit, Freeze, Enqueue, Settle, Skip,
       StoreRaises, Seal, Sentinel, Mark, Unpin, To, Told, Over, Done
  <2>2. QED BY <1>1, <2>1
<1>3. ASSUME NEW pc, To(s, pc), job[s].pc # "new", job[s].pc \in Closed => pc \in Closed,
             pc # "new", pc = "sentinel" => fence'[s].sealed
      PROVE  Goal
  <2>1. job'[s] = [job[s] EXCEPT !.pc = pc]
    BY <1>0, <1>3 DEF To
  <2>2. job'[s].pc = pc /\ job'[s].out = job[s].out
    BY <1>0, <2>1 DEF Jobs
  <2>3. QED BY <1>3, <2>2
<1>4. ASSUME Done(s), job[s].pc # "settle" PROVE Goal
  <2>1. job'[s] = [NoJob EXCEPT !.pc = "done"]
    BY <1>0, <1>4 DEF Done
  <2>2. job'[s].pc = "done"
    BY <2>1 DEF NoJob
  <2>3. QED BY <1>0, <1>4, <2>2 DEF Closed
<1>5. ASSUME NEW out, Told(s, out), job[s].pc \in Working \ {"settle"} PROVE Goal
  <2>1. job'[s] = [job[s] EXCEPT !.pc = "settle", !.res = 0, !.out = out]
    BY <1>0, <1>5 DEF Told
  <2>2. job'[s].pc = "settle"
    BY <1>0, <2>1 DEF Jobs
  <2>3. QED BY <1>0, <1>5, <2>2 DEF Working, Closed
<1>6. ASSUME NEW admitted \in BOOLEAN, Over(s, admitted), job[s].pc \notin Closed,
             job[s].out = "none" \/ Settle(s)
      PROVE  Goal
  <2>1. PICK pc \in {"next", "skip"} :
          job' = [job EXCEPT ![s] = [NoJob EXCEPT !.pc = pc, !.i = job[s].i + 1]]
    BY <1>6 DEF Over
  <2>2. job'[s].pc = pc
    BY <1>0, <2>1 DEF NoJob
  <2>3. QED BY <1>6, <2>2
<1>7. CASE StartWrite(s)
  <2>1. job[s].pc \in {"next", "new"}
    BY <1>7 DEF StartWrite
  <2>2. CASE Over(s, FALSE)
    BY <1>0, <1>6, <2>1, <2>2 DEF Closed
  <2>3. CASE \E pc \in {"settle", "admit"} : job' = [job EXCEPT ![s].pc = pc, ![s].born = era]
    <3>1. PICK pc \in {"settle", "admit"} : job'[s] = [job[s] EXCEPT !.pc = pc, !.born = era]
      BY <1>0, <2>3
    <3>2. job'[s].pc = pc
      BY <1>0, <3>1 DEF Jobs
    <3>3. QED BY <1>0, <2>1, <3>2 DEF Closed
  <2>4. QED BY <1>7, <2>2, <2>3 DEF StartWrite
<1>8. CASE Admit(s)
  <2>1. job[s].pc = "admit"
    BY <1>8 DEF Admit
  <2>2. CASE \E n : job' = [job EXCEPT ![s].pc = "freeze", ![s].res = n]
    <3>1. PICK n : job'[s] = [job[s] EXCEPT !.pc = "freeze", !.res = n]
      BY <1>0, <2>2
    <3>2. job'[s].pc = "freeze"
      BY <1>0, <3>1 DEF Jobs
    <3>3. QED BY <1>0, <2>1, <3>2 DEF Closed
  <2>3. QED BY <1>5, <1>8, <2>1, <2>2 DEF Admit, Working
<1>9. CASE Freeze(s)
  <2>1. job[s].pc = "freeze"
    BY <1>9 DEF Freeze
  <2>2. CASE \E n : job' = [job EXCEPT ![s].pc = "enqueue", ![s].res = n]
    <3>1. PICK n : job'[s] = [job[s] EXCEPT !.pc = "enqueue", !.res = n]
      BY <1>0, <2>2
    <3>2. job'[s].pc = "enqueue"
      BY <1>0, <3>1 DEF Jobs
    <3>3. QED BY <1>0, <2>1, <3>2 DEF Closed
  <2>3. QED BY <1>5, <1>9, <2>1, <2>2 DEF Freeze, Working
<1>10. CASE Enqueue(s)
  BY <1>5, <1>10 DEF Enqueue, Working
<1>11. CASE Settle(s)
  <2>1. job[s].pc \notin Closed /\ Over(s, job[s].out = "queued")
    BY <1>11 DEF Settle, Closed
  <2>2. QED BY <1>6, <1>11, <2>1
<1>12. CASE Seal(s)
  <2>1. job[s].pc \in {"seal", "next"}
    BY <1>12 DEF Seal
  <2>2. CASE To(s, "sentinel") /\ fence' = [fence EXCEPT ![s].sealed = TRUE]
    <3>1. fence'[s].sealed
      BY <1>0, <2>2 DEF Fences
    <3>2. QED BY <1>3, <2>1, <2>2, <3>1 DEF Closed
  <2>3. CASE Done(s)
    BY <1>4, <2>1, <2>3
  <2>4. QED BY <1>12, <2>2, <2>3 DEF Seal
<1>13. CASE Mark(s) \/ Unpin(s)
  BY <1>4, <1>13 DEF Mark, Unpin
<1>14. CASE Sentinel(s)
  BY <1>3, <1>14 DEF Sentinel, Closed
<1>15. CASE Skip(s) \/ StoreRaises(s)
  BY <1>3, <1>15 DEF Skip, StoreRaises, Closed
<1>16. CASE BeginFence(s)
  <2>1. job[s].pc = "new" /\ job'[s] = [job[s] EXCEPT !.pc = "next"]
    BY <1>0, <1>16 DEF BeginFence, To
  <2>2. job'[s].pc = "next"
    BY <1>0, <2>1 DEF Jobs
  <2>3. QED BY <1>0, <2>1, <2>2 DEF Closed
<1>17. \A t \in Store : Forget(t) => UNCHANGED job
  BY DEF Forget
<1>18. ASSUME NEW t \in Store, Write(t) PROVE Goal
  BY <1>2, <1>7, <1>8, <1>9, <1>10, <1>11, <1>12, <1>13, <1>14, <1>15, <1>16, <1>18 DEF Write
<1>19. QED BY <1>1, <1>17, <1>18, WriterFrame, StopFrame, OtherFrame DEF Next

\* What was sealed stays so.
LEMMA SealedStays ==
  ASSUME Shape, SealOrder, Next, NEW s \in Store, fence[s].sealed
  PROVE  fence'[s].sealed
<1>0. fence \in [Store -> Fences] /\ kept \subseteq Store
  BY DiskAssumption DEF Shape, Types
<1>01. job[s].pc \in Closed
  BY DEF SealOrder
<1>1. CASE Quiet(fence[s], fence'[s])
  BY <1>1 DEF Quiet
<1>2. CASE fence' = [fence EXCEPT ![s].sealed = TRUE]
            \/ fence' = [fence EXCEPT ![s].done = TRUE]
  BY <1>0, <1>2 DEF Fences
<1>3. CASE Settle(s)
  <2>1. job[s].pc = "settle" /\ job[s].pc \in Closed
    BY <1>01, <1>3 DEF Settle
  <2>2. QED BY <2>1 DEF Closed
<1>4. ASSUME NEW failed \in BOOLEAN, fence' = Completed(s, failed) PROVE fence'[s].sealed
  BY <1>0, <1>4 DEF Completed, Fences
<1>5. QED BY <1>1, <1>2, <1>3, <1>4, FenceMoves

\* Seals only ever follow the last write.
LEMMA SealStep ==
  ASSUME Shape, SealOrder, [Next]_vars
  PROVE  SealOrder'
<1>1. CASE UNCHANGED vars
  BY <1>1 DEF SealOrder, vars, lifeVars, fenceVars
<1>2. ASSUME Next PROVE SealOrder'
  <2>0. /\ fence \in [Store -> Fences] /\ kept \subseteq Store /\ w \in Works
        /\ queue \in Seq(Items) /\ w.batch \in Seq(Items) /\ w'.batch \in Seq(Items)
    BY <1>2, ShapeStep, DiskAssumption DEF Shape, Types, WorkFits, Works
  <2>01. /\ \A s \in Store : fence[s].sealed => job[s].pc \in Closed
         /\ w.final \in SUBSET Store /\ \A s \in w.final : fence[s].sealed
    <3>1. \A s \in Store : fence[s].sealed => job[s].pc \in Closed
      BY Zenon DEF SealOrder
    <3>2. \A s \in w.final : fence[s].sealed
      BY Zenon DEF SealOrder
    <3>3. w.final \in SUBSET Store
      BY <2>0 DEF Works
    <3>4. QED BY <3>1, <3>2, <3>3
  <2>1. ASSUME NEW s \in Store, fence[s].sealed PROVE fence'[s].sealed
    BY <1>2, <2>1, SealedStays
  <2>2. ASSUME NEW s \in Store, fence'[s].sealed PROVE job'[s].pc \in Closed
    <3>1. CASE fence[s].sealed
      BY <1>2, <2>01, <3>1, CallMoves
    <3>2. ASSUME ~fence[s].sealed PROVE job'[s].pc \in Closed
      <4>1. CASE Quiet(fence[s], fence'[s])
        BY <2>2, <3>2, <4>1 DEF Quiet
      <4>2. CASE Seal(s)
        <5>1. job' = [job EXCEPT ![s].pc = "sentinel"] \/ Done(s)
          BY <4>2 DEF Seal, To
        <5>2. job \in [Store -> Jobs]
          BY DEF Shape, JobsFit
        <5>3. job'[s].pc \in {"sentinel", "done"}
          BY <5>1, <5>2 DEF Done, NoJob, Jobs
        <5>4. QED BY <5>3 DEF Closed
      <4>3. CASE fence' = [fence EXCEPT ![s].done = TRUE]
        BY <2>0, <2>2, <3>2, <4>3 DEF Fences
      <4>4. CASE s \in kept /\ ~fence[s].done /\ fence' = Counted(s, job[s].out)
        <5>1. job[s].out \in Outcomes
          BY DEF Shape, JobsFit, Jobs
        <5>2. fence'[s].sealed = fence[s].sealed
          BY <2>0, <4>4, <5>1 DEF Counted, Fences, Outcomes
        <5>3. QED BY <2>2, <3>2, <5>2
      <4>5. ASSUME NEW failed \in BOOLEAN, fence' = Completed(s, failed)
            PROVE  job'[s].pc \in Closed
        BY <2>0, <2>2, <3>2, <4>5 DEF Completed, Fences
      <4>6. QED BY <1>2, <4>1, <4>2, <4>3, <4>4, <4>5, FenceMoves
    <3>3. QED BY <3>1, <3>2
  <2>3. ASSUME NEW s \in Store, job'[s].pc = "sentinel" PROVE fence'[s].sealed
    BY <1>2, <2>1, <2>3, CallMoves DEF SealOrder
  <2>4. ASSUME NEW i \in DOMAIN queue', queue'[i].kind = "fence"
        PROVE  fence'[queue'[i].store].sealed
    <3>1. CASE i \in DOMAIN queue /\ queue'[i] = queue[i]
      <4>1. queue[i].store \in Store /\ fence[queue[i].store].sealed
        BY <2>0, <2>4, <3>1 DEF SealOrder, Items
      <4>2. QED BY <2>1, <3>1, <4>1
    <3>2. CASE Posted(queue'[i])
      <4>1. PICK s \in Store : /\ job[s].pc = "sentinel" \/ s = w.owe
                               /\ queue'[i] = Item("fence", s, NoBlock)
        <5>1. \A s : BlockItem(s).kind = "block"
          BY DEF BlockItem
        <5>2. \A kind, s, b : Item(kind, s, b).kind = kind
          BY DEF Item
        <5>3. \A s : Sentinel(s) => job[s].pc = "sentinel"
          BY DEF Sentinel
        <5>4. QED BY <2>4, <3>2, <5>1, <5>2, <5>3 DEF Posted
      <4>2. queue'[i].store = s
        BY <4>1 DEF Item
      <4>3. fence[s].sealed
        BY <4>1, DiskAssumption DEF SealOrder
      <4>4. QED BY <2>1, <4>2, <4>3
    <3>3. QED BY <1>2, <3>1, <3>2, QueueMoves
  <2>5. ASSUME NEW i \in DOMAIN w'.batch, w'.batch[i].kind = "fence"
        PROVE  fence'[w'.batch[i].store].sealed
    <3>1. CASE w'.batch = queue
      <4>1. queue[i].store \in Store /\ fence[queue[i].store].sealed
        BY <2>0, <2>5, <3>1 DEF SealOrder, Items
      <4>2. QED BY <2>1, <3>1, <4>1
    <3>2. CASE i \in DOMAIN w.batch /\ Same(w'.batch[i], w.batch[i])
      <4>1. w.batch[i].kind = "fence" /\ w'.batch[i].store = w.batch[i].store
        BY <2>5, <3>2 DEF Same
      <4>2. w.batch[i].store \in Store /\ fence[w.batch[i].store].sealed
        BY <2>0, <3>2, <4>1 DEF SealOrder, Items
      <4>3. QED BY <2>1, <4>1, <4>2
    <3>3. QED BY <1>2, <2>5, <3>1, <3>2, BatchMoves
  <2>6. ASSUME w'.owe # NoStore PROVE fence'[w'.owe].sealed
    <3>1. CASE w'.owe = w.owe
      <4>1. w.owe \in Store /\ fence[w.owe].sealed
        BY <2>0, <2>6, <3>1 DEF SealOrder, Works
      <4>2. QED BY <2>1, <3>1, <4>1
    <3>2. ASSUME NEW s \in Store, NEW failed \in BOOLEAN, w'.owe = Owed(s, failed)
          PROVE  fence'[w'.owe].sealed
      <4>1. w'.owe = s /\ s \in kept /\ Completed(s, failed)[s].sealed
        BY <2>6, <3>2 DEF Owed
      <4>2. Completed(s, failed)[s].sealed = fence[s].sealed
        BY <2>0, <4>1 DEF Completed, Fences
      <4>3. QED BY <2>1, <4>1, <4>2
    <3>3. CASE Encode \/ PublishBlock
      <4>1. CASE w'.owe = w.owe
        BY <3>1, <4>1
      <4>2. ASSUME Current.kind = "block", NEW failed \in BOOLEAN,
                   w'.owe = Owed(Current.store, failed), w.i <= Len(w.batch)
            PROVE  fence'[w'.owe].sealed
        <5>1. Current.store \in Store
          BY <2>0, <4>2 DEF Current, Works, Items
        <5>2. QED BY <3>2, <4>2, <5>1
      <4>3. CASE Encode
        <5>1. w' = [w EXCEPT !.i = @ + 1]
                \/ w' = [w EXCEPT !.batch[w.i].size = Current.final, !.i = @ + 1]
                \/ (Current.kind = "block" /\
                     w' = [w EXCEPT !.batch[w.i] = Spent, !.i = @ + 1,
                                   !.owe = Owed(Current.store, TRUE)])
          BY <4>3 DEF Encode
        <5>2. w'.owe = w.owe \/ (Current.kind = "block" /\ w'.owe = Owed(Current.store, TRUE))
          BY <2>0, <5>1 DEF Works
        <5>3. w.i <= Len(w.batch)
          BY <4>3 DEF Encode
        <5>4. QED BY <4>1, <4>2, <5>2, <5>3
      <4>4. CASE PublishBlock
        <5>1. PICK failed \in BOOLEAN :
                w' = [Settled(w.i) EXCEPT !.owe = Owed(Current.store, failed)]
          BY <4>4 DEF PublishBlock
        <5>2. w'.owe = Owed(Current.store, failed)
          BY <2>0, <5>1 DEF Settled, Works
        <5>3. QED BY <4>2, <4>4, <5>2 DEF PublishBlock
      <4>5. QED BY <3>3, <4>3, <4>4
    <3>4. CASE TakeBatch \/ EnterRoot \/ BatchRaises \/ CompleteBatch \/ WriterExits
                 \/ (\E s \in Store : FinalizeFence(s))
      <4>1. w'.owe \in {w.owe, NoStore}
        <5>1. CASE TakeBatch \/ EnterRoot \/ WriterExits
          BY <2>0, <5>1 DEF TakeBatch, EnterRoot, WriterExits, Works
        <5>2. CASE BatchRaises
          BY <2>0, <5>2 DEF BatchRaises, Works
        <5>3. CASE CompleteBatch
          BY <5>3 DEF CompleteBatch, NoWork
        <5>4. CASE \E t \in Store : FinalizeFence(t)
          BY <2>0, <5>4 DEF FinalizeFence, Works
        <5>5. QED BY <3>4, <5>1, <5>2, <5>3, <5>4
      <4>2. QED BY <2>6, <3>1, <4>1
    <3>41. CASE PublishOther \/ WriterSeals \/ Account
      <4>1. w'.owe \in {w.owe, NoStore}
        <5>1. CASE PublishOther
          BY <2>0, <5>1 DEF PublishOther, Settled, Works
        <5>2. CASE WriterSeals
          BY <2>0, <5>2 DEF WriterSeals, Works
        <5>3. CASE Account
          BY <2>0, <5>3 DEF Account, Works
        <5>4. QED BY <3>41, <5>1, <5>2, <5>3
      <4>2. QED BY <2>6, <3>1, <4>1
    <3>5. QED BY <1>2, <3>1, <3>3, <3>4, <3>41, WriteFrame, StopFrame, OtherFrame DEF Next, Writer
  <2>7. ASSUME NEW s \in w'.final PROVE fence'[s].sealed
    <3>1. CASE s \in w.final
      BY <2>01, <2>1, <3>1
    <3>2. CASE PublishOther /\ s \notin w.final
      <4>1. Current.kind = "fence" /\ s = Current.store
        BY <2>0, <2>7, <3>2 DEF PublishOther, Settled, Works
      <4>2. w.i \in DOMAIN w.batch
        BY <2>0, <3>2 DEF PublishOther, Works
      <4>3. s \in Store /\ fence[s].sealed
        BY <2>0, <4>1, <4>2 DEF SealOrder, Current, Items
      <4>4. QED BY <2>1, <4>3
    <3>3. CASE Account /\ s \notin w.final
      <4>1. s \in kept /\ fence[s].sealed
        <5>1. PICK pc, left :
                /\ w' = [w EXCEPT !.pc = pc, !.final = left]
                /\ left \subseteq w.final \cup {t \in kept : fence[t].sealed}
          <6> DEFINE all == w.final \cup {t \in kept : /\ fence[t].sealed /\ fence[t].enq
                                          /\ ~fence[t].sfail /\ ~fence[t].done
                                          /\ Published(fence[t])}
          <6>2. /\ {} \subseteq w.final \cup {t \in kept : fence[t].sealed}
                /\ all \subseteq w.final \cup {t \in kept : fence[t].sealed}
            OBVIOUS
          <6>3. \E pc, left : w' = [w EXCEPT !.pc = pc, !.final = left] /\ left \in {{}, all}
            BY <3>3 DEF Account
          <6> HIDE DEF all
          <6>4. QED BY <6>2, <6>3
        <5>2. w'.final = left
          BY <2>0, <5>1 DEF Works
        <5>3. QED BY <2>7, <3>3, <5>1, <5>2
      <4>2. QED BY <2>0, <2>1, <4>1
    <3>4. CASE TakeBatch \/ EnterRoot \/ BatchRaises \/ CompleteBatch \/ WriterExits
                 \/ (\E t \in Store : FinalizeFence(t))
      <4>1. w'.final \subseteq w.final
        <5>1. CASE TakeBatch \/ EnterRoot \/ WriterExits
          BY <2>0, <5>1, ZenonT(60) DEF TakeBatch, EnterRoot, WriterExits, Works
        <5>2. CASE BatchRaises
          BY <2>0, <5>2 DEF BatchRaises, Works
        <5>3. CASE CompleteBatch
          BY <5>3 DEF CompleteBatch, NoWork
        <5>4. CASE \E t \in Store : FinalizeFence(t)
          BY <2>0, <5>4 DEF FinalizeFence, Works
        <5>5. QED BY <3>4, <5>1, <5>2, <5>3, <5>4
      <4>2. QED BY <2>7, <3>1, <4>1
    <3>41. CASE Encode \/ PublishBlock \/ WriterSeals
      <4>1. w'.final = w.final
        <5>1. CASE Encode
          BY <2>0, <5>1 DEF Encode, Works
        <5>2. CASE PublishBlock
          <6>1. PICK owe : w' = [Settled(w.i) EXCEPT !.owe = owe]
            BY <5>2 DEF PublishBlock
          <6>2. QED BY <2>0, <6>1 DEF Settled, Works
        <5>3. CASE WriterSeals
          BY <2>0, <5>3 DEF WriterSeals, Works
        <5>4. QED BY <3>41, <5>1, <5>2, <5>3
      <4>2. QED BY <2>7, <3>1, <4>1
    <3>5. QED BY <1>2, <2>7, <3>1, <3>2, <3>3, <3>4, <3>41, WriteFrame, StopFrame, OtherFrame
              DEF Next, Writer
  <2>8. QED BY <2>2, <2>3, <2>4, <2>5, <2>6, <2>7 DEF SealOrder
<1>3. QED BY <1>1, <1>2

\* A call hands its block over, or loses it.
LEMMA EnqueueWay ==
  ASSUME Shape, NEW s \in Store, Enqueue(s)
  PROVE  /\ OnTheWay(s)' = OnTheWay(s) + (IF job'[s].out = "queued" THEN 1 ELSE 0)
         /\ job[s].out = "none" /\ UNCHANGED <<fence, kept>>
<1>0. /\ job \in [Store -> Jobs] /\ job[s].out = "none" /\ job[s] \in Jobs
      /\ queue \in Seq(Items) /\ w.batch \in Seq(Items)
  BY DEF Shape, JobsFit, JobFits, WorkFits, Works, Enqueue
<1>1. ASSUME NEW out, Told(s, out) PROVE job'[s].out = out
  <2>1. job'[s] = [job[s] EXCEPT !.pc = "settle", !.res = 0, !.out = out]
    BY <1>0, <1>1 DEF Told
  <2>2. QED BY <1>0, <2>1 DEF Jobs
<1>2. UNCHANGED <<w, fence, kept>>
  BY DEF Enqueue, fenceVars
<1>3. CASE Post(BlockItem(s)) /\ Told(s, "queued")
  <2>1. BlockItem(s) \in Items
    BY BlockItemFits DEF Enqueue, Shape, JobsFit
  <2>2. Weight(s, BlockItem(s)) = 1
    BY DEF Weight, BlockItem
  <2>3. BlocksOf(s, queue)' = BlocksOf(s, queue) + 1
    BY <1>0, <1>3, <2>1, <2>2, BlocksAppend DEF Post
  <2>4. BlocksOf(s, w.batch)' = BlocksOf(s, w.batch)
    BY <1>2
  <2>5. BlocksOf(s, queue) \in Nat /\ BlocksOf(s, w.batch) \in Nat
    BY <1>0, BlocksType
  <2>6. job'[s].out = "queued"
    BY <1>1, <1>3
  <2>7. QED BY <1>0, <1>2, <2>3, <2>4, <2>5, <2>6 DEF OnTheWay
<1>4. CASE UNCHANGED queue /\ Told(s, "dropped")
  <2>1. BlocksOf(s, queue)' = BlocksOf(s, queue) /\ BlocksOf(s, w.batch)' = BlocksOf(s, w.batch)
    BY <1>2, <1>4
  <2>2. BlocksOf(s, queue) \in Nat /\ BlocksOf(s, w.batch) \in Nat
    BY <1>0, BlocksType
  <2>3. job'[s].out = "dropped"
    BY <1>1, <1>4
  <2>4. QED BY <1>0, <1>2, <2>1, <2>2, <2>3 DEF OnTheWay
<1>5. QED BY <1>3, <1>4 DEF Enqueue, lifeVars

\* The writer is done with a block of the call.
LEMMA LeavesWay ==
  ASSUME Shape, NEW s \in Store, Leaves(s)
  PROVE  OnTheWay(s)' = OnTheWay(s) - 1
<1>1. queue \in Seq(Items) /\ w.batch \in Seq(Items) /\ w.i \in 1..Len(w.batch)
  BY DEF Shape, WorkFits, Works, Leaves
<1>2. Spent \in Items /\ Weight(s, Spent) = 0 /\ Weight(s, w.batch[w.i]) = 1
  BY ItemsFit DEF Weight, Leaves, Current
<1>3. BlocksOf(s, w'.batch) = BlocksOf(s, w.batch) - 1 + 0
  BY <1>1, <1>2, BlocksChange DEF Leaves
<1>4. BlocksOf(s, queue') = BlocksOf(s, queue)
  BY DEF Leaves
<1>5. BlocksOf(s, queue) \in Nat /\ BlocksOf(s, w.batch) \in Nat
  BY <1>1, BlocksType
<1>6. OnTheWay(s)' = BlocksOf(s, queue') + BlocksOf(s, w'.batch)
  BY DEF OnTheWay
<1>7. QED BY <1>3, <1>4, <1>5, <1>6 DEF OnTheWay

\* A fence learns of a block before the block is gone.
LEMMA AwaitedStep ==
  ASSUME Shape, SealOrder, Awaited, [Next]_vars
  PROVE  Awaited'
<1>1. CASE UNCHANGED vars
  BY <1>1 DEF Awaited, Fresh, Known, OnTheWay, vars, lifeVars, fenceVars
<1>2. ASSUME Next PROVE Awaited'
  <2>0. /\ fence \in [Store -> Fences] /\ kept \subseteq Fenced /\ Fenced \subseteq Store
        /\ kept' \subseteq Fenced
        /\ \A s \in Store : /\ fence[s] \in Fences /\ fence[s].queued \in Nat
                            /\ fence[s].processed \in Nat
        /\ \A s \in Store : job[s] \in Jobs /\ (job[s].out # "none" => job[s].pc = "settle")
    BY <1>2, FenceStep, DiskAssumption DEF Shape, Types, JobsFit, JobFits, Fences
  <2>1. ASSUME NEW s \in kept' PROVE s \in Store /\ (s \in kept \/ BeginFence(s))
    <3>1. \/ kept' = kept
          \/ \E t \in Store : BeginFence(t) /\ kept' = kept \cup {t}
          \/ \E t \in Store : kept' = kept \ {t}
      <4>1. ASSUME NEW t \in Store, Write(t)
            PROVE  kept' = kept \/ (BeginFence(t) /\ kept' = kept \cup {t})
        BY <4>1 DEF Write, BeginFence, StartWrite, Admit, Freeze, Enqueue, Settle, Skip,
           StoreRaises, Seal, Sentinel, Mark, Unpin, fenceVars
      <4>2. \A t \in Store : Forget(t) => kept' = kept \ {t}
        BY DEF Forget
      <4>3. QED BY <1>2, <4>1, <4>2, WriterFrame, StopFrame, OtherFrame DEF Next
    <3>2. QED BY <2>0, <3>1
  <2>2. ASSUME NEW s \in Store, BeginFence(s)
        PROVE  /\ s \in Fenced /\ Fresh(s) /\ UNCHANGED fence /\ ~Enqueue(s)
               /\ job'[s].pc # "new"
    <3>1. s \in Fenced /\ job[s].pc = "new" /\ UNCHANGED fence /\ To(s, "next")
      BY <2>2 DEF BeginFence
    <3>2. job \in [Store -> Jobs]
      BY DEF Shape, JobsFit
    <3>3. job'[s].pc = "next"
      BY <3>1, <3>2 DEF To, Jobs
    <3>4. QED BY <3>1, <3>3 DEF Awaited, Enqueue
  <2>3. ASSUME NEW s \in Store, Settle(s), s \in kept, ~fence[s].done
        PROVE  /\ fence'[s].processed = fence[s].processed /\ fence'[s].done = fence[s].done
               /\ fence'[s].queued = fence[s].queued + (IF job[s].out = "queued" THEN 1 ELSE 0)
               /\ job'[s].out = "none"
    <3>1. fence' = Counted(s, job[s].out) /\ job[s].out \in Outcomes
      BY <2>0, <2>3 DEF Settle, Jobs
    <3>2. /\ fence'[s].processed = fence[s].processed /\ fence'[s].done = fence[s].done
          /\ fence'[s].queued = fence[s].queued + (IF job[s].out = "queued" THEN 1 ELSE 0)
      <4>1. CASE job[s].out = "none"
        BY <2>0, <3>1, <4>1 DEF Counted
      <4>2. CASE job[s].out = "queued"
        BY <2>0, <2>3, <3>1, <4>2 DEF Counted, Fences
      <4>3. CASE job[s].out = "dropped"
        BY <2>0, <2>3, <3>1, <4>3 DEF Counted, Fences
      <4>4. CASE job[s].out = "failed"
        BY <2>0, <2>3, <3>1, <4>4 DEF Counted, Fences
      <4>5. QED BY <3>1, <4>1, <4>2, <4>3, <4>4 DEF Outcomes
    <3>3. PICK pc : job' = [job EXCEPT ![s] = [NoJob EXCEPT !.pc = pc, !.i = job[s].i + 1]]
      BY <2>3 DEF Settle, Over
    <3>4. job'[s].out = "none"
      BY <3>3 DEF NoJob, Shape, JobsFit
    <3>5. QED BY <3>2, <3>4
  <2>4. ASSUME NEW s \in Store, NEW failed \in BOOLEAN, s \in kept, fence' = Completed(s, failed)
        PROVE  /\ fence'[s].processed = fence[s].processed + 1
               /\ fence'[s].queued = fence[s].queued
               /\ fence'[s].done = fence[s].done /\ fence'[s].err = fence[s].err
    BY <2>0, <2>4 DEF Completed, Fences
  <2>5. ASSUME NEW s \in Store
        PROVE  /\ fence' = [fence EXCEPT ![s].sealed = TRUE] =>
                    /\ fence'[s].processed = fence[s].processed
                    /\ fence'[s].queued = fence[s].queued
                    /\ fence'[s].done = fence[s].done /\ fence'[s].err = fence[s].err
               /\ fence' = [fence EXCEPT ![s].done = TRUE] =>
                    fence'[s].done /\ fence'[s].err = fence[s].err
    BY <2>0 DEF Fences
  <2>6. ASSUME NEW s \in Fenced, job'[s].pc = "new" PROVE Fresh(s)'
    <3>1. s \in Store /\ job[s].pc = "new" /\ Fresh(s)
      BY <1>2, <2>0, <2>6, CallMoves DEF Awaited
    <3>2. s \notin kept'
      BY <2>1, <2>2, <2>6, <3>1 DEF Fresh
    <3>3. Quiet(fence[s], fence'[s])
      BY <1>2, <3>1, FenceMoves DEF Fresh
    <3>4. OnTheWay(s)' = 0
      <4>1. ~Enqueue(s)
        BY <3>1 DEF Enqueue
      <4>2. OnTheWay(s)' <= OnTheWay(s) /\ OnTheWay(s)' \in Nat
        BY <1>2, <3>1, <4>1, WayMoves
      <4>3. QED BY <3>1, <4>2 DEF Fresh
    <3>5. QED BY <3>1, <3>2, <3>3, <3>4 DEF Fresh, Quiet
  <2>7. ASSUME NEW s \in kept', ~fence'[s].done PROVE Known(s)'
    <3> DEFINE a == OnTheWay(s)
               a2 == OnTheWay(s)'
               p == fence[s].processed
               p2 == fence'[s].processed
               q == fence[s].queued
               q2 == fence'[s].queued
               o == IF job[s].out = "queued" THEN 1 ELSE 0
               o2 == IF job'[s].out = "queued" THEN 1 ELSE 0
    <3>0. s \in Store /\ p \in Nat /\ q \in Nat /\ o \in {0, 1} /\ o2 \in {0, 1}
      BY <2>0, <2>1
    <3>1. SUFFICES a2 + p2 <= q2 + o2
      BY DEF Known
    <3>2. CASE BeginFence(s)
      <4>1. Fresh(s) /\ p2 = p /\ q2 = q /\ p = 0 /\ a = 0
        BY <2>2, <3>0, <3>2 DEF Fresh
      <4>2. a2 <= a /\ a2 \in Nat
        BY <1>2, <2>2, <3>0, <3>2, WayMoves
      <4> HIDE DEF a, a2, p, p2, q, q2, o, o2
      <4>3. QED BY <3>0, <4>1, <4>2
    <3>3. ASSUME s \in kept, ~fence[s].done PROVE a2 + p2 <= q2 + o2
      <4>0. a + p <= q + o
        BY <3>3 DEF Awaited, Known
      <4>1. CASE Enqueue(s)
        <5>1. a2 = a + o2 /\ o = 0 /\ p2 = p /\ q2 = q
          BY <3>0, <4>1, EnqueueWay
        <5>2. a \in Nat
          <6>1. queue \in Seq(Items) /\ w.batch \in Seq(Items)
            BY DEF Shape, WorkFits, Works
          <6>2. BlocksOf(s, queue) \in Nat /\ BlocksOf(s, w.batch) \in Nat
            BY <6>1, BlocksType
          <6>3. QED BY <6>2 DEF OnTheWay
        <5> HIDE DEF a, a2, p, p2, q, q2, o, o2
        <5>3. QED BY <3>0, <4>0, <5>1, <5>2
      <4>2. ASSUME ~Enqueue(s) PROVE a2 + p2 <= q2 + o2
        <5>0. a2 <= a /\ a2 \in Nat /\ a \in Nat
          BY <1>2, <3>0, <4>2, WayMoves
        <5>1. CASE Settle(s)
          <6>1. p2 = p /\ q2 = q + o /\ o2 = 0
            BY <2>3, <3>0, <3>3, <5>1
          <6> HIDE DEF a, a2, p, p2, q, q2, o, o2
          <6>2. QED BY <3>0, <4>0, <5>0, <6>1
        <5>2. ASSUME ~Settle(s), p2 = p, q2 = q PROVE a2 + p2 <= q2 + o2
          <6>1. o <= o2
            BY <1>2, <3>0, <5>2, CallMoves
          <6> HIDE DEF a, a2, p, p2, q, q2, o, o2
          <6>2. QED BY <3>0, <4>0, <5>0, <5>2, <6>1
        <5>3. ASSUME ~Settle(s), Leaves(s), p2 = p + 1, q2 = q PROVE a2 + p2 <= q2 + o2
          <6>1. o <= o2
            BY <1>2, <3>0, <5>3, CallMoves
          <6>2. a2 = a - 1
            BY <3>0, <5>3, LeavesWay
          <6> HIDE DEF a, a2, p, p2, q, q2, o, o2
          <6>3. QED BY <3>0, <4>0, <5>0, <5>3, <6>1, <6>2
        <5>4. CASE Quiet(fence[s], fence'[s])
          BY <5>1, <5>2, <5>4 DEF Quiet
        <5>5. CASE fence' = [fence EXCEPT ![s].sealed = TRUE]
          BY <2>5, <3>0, <5>1, <5>2, <5>5
        <5>6. CASE \E failed \in BOOLEAN : Leaves(s) /\ fence' = Completed(s, failed)
          BY <2>4, <3>0, <3>3, <5>1, <5>3, <5>6
        <5>7. CASE fence' = [fence EXCEPT ![s].done = TRUE]
          BY <2>5, <2>7, <3>0, <5>7
        <5>8. QED BY <1>2, <3>0, <5>1, <5>4, <5>5, <5>6, <5>7, FenceMoves
      <4>3. QED BY <4>1, <4>2
    <3>4. ASSUME s \in kept, fence[s].done PROVE FALSE
      <4>1. CASE Quiet(fence[s], fence'[s])
        BY <2>7, <3>4, <4>1 DEF Quiet
      <4>2. QED BY <1>2, <2>4, <2>5, <2>7, <3>0, <3>4, <4>1, FenceMoves
    <3>5. QED BY <2>1, <3>2, <3>3, <3>4
  <2>8. ASSUME NEW s \in kept', fence'[s].done, ~fence'[s].err
        PROVE  fence'[s].sealed /\ OnTheWay(s)' = 0
    <3>0. s \in Store
      BY <2>1
    <3>1. CASE BeginFence(s)
      BY <2>2, <2>8, <3>0, <3>1 DEF Fresh
    <3>2. ASSUME s \in kept PROVE fence[s].sealed /\ OnTheWay(s) = 0
      <4>1. CASE fence[s].done /\ ~fence[s].err
        BY <3>2, <4>1 DEF Awaited
      <4>2. CASE /\ FinalizeFence(s) /\ Published(fence[s]) /\ ~fence[s].done
        <5>1. fence[s].sealed /\ job[s].out = "none"
          <6>1. s \in w.final
            BY <4>2 DEF FinalizeFence
          <6>2. fence[s].sealed /\ job[s].pc \in Closed
            BY <3>0, <6>1 DEF SealOrder
          <6>3. QED BY <2>0, <3>0, <6>2 DEF Closed
        <5>2. OnTheWay(s) + fence[s].processed <= fence[s].queued
          BY <2>0, <3>0, <3>2, <4>2, <5>1 DEF Awaited, Known
        <5>3. fence[s].processed >= fence[s].queued
          BY <4>2 DEF Published
        <5>4. OnTheWay(s) \in Nat
          <6>1. queue \in Seq(Items) /\ w.batch \in Seq(Items)
            BY DEF Shape, WorkFits, Works
          <6>2. BlocksOf(s, queue) \in Nat /\ BlocksOf(s, w.batch) \in Nat
            BY <6>1, BlocksType
          <6>3. QED BY <6>2 DEF OnTheWay
        <5> DEFINE a == OnTheWay(s)
                   p == fence[s].processed
                   q == fence[s].queued
        <5>5. a \in Nat /\ p \in Nat /\ q \in Nat /\ a + p <= q /\ p >= q
          BY <2>0, <3>0, <5>2, <5>3, <5>4
        <5> HIDE DEF a, p, q
        <5>6. a = 0
          BY <5>5
        <5>7. QED BY <5>1, <5>6 DEF a
      <4>3. CASE Quiet(fence[s], fence'[s])
        BY <2>8, <4>1, <4>3 DEF Quiet
      <4>4. CASE fence' = [fence EXCEPT ![s].sealed = TRUE]
        BY <2>5, <2>8, <3>0, <4>1, <4>4
      <4>5. CASE Settle(s) /\ ~fence[s].done
        BY <2>3, <2>8, <3>0, <3>2, <4>5
      <4>6. CASE \E failed \in BOOLEAN : fence' = Completed(s, failed)
        BY <2>4, <2>8, <3>0, <3>2, <4>1, <4>6
      <4>7. CASE /\ FinalizeFence(s) /\ Published(fence[s])
                 /\ fence' = [fence EXCEPT ![s].done = TRUE]
        BY <2>5, <2>8, <3>0, <4>1, <4>2, <4>7
      <4>8. QED BY <1>2, <3>0, <4>3, <4>4, <4>5, <4>6, <4>7, FenceMoves
    <3>3. ASSUME s \in kept PROVE fence'[s].sealed /\ OnTheWay(s)' = 0
      <4>1. fence'[s].sealed
        BY <1>2, <3>0, <3>2, <3>3, SealedStays
      <4>2. ~Enqueue(s)
        BY <3>0, <3>2, <3>3 DEF SealOrder, Closed, Enqueue
      <4>3. OnTheWay(s)' <= OnTheWay(s) /\ OnTheWay(s)' \in Nat
        BY <1>2, <3>0, <4>2, WayMoves
      <4>4. QED BY <3>2, <3>3, <4>1, <4>3
    <3>4. QED BY <2>1, <3>1, <3>3
  <2>9. QED BY <2>6, <2>7, <2>8 DEF Awaited
<1>3. QED BY <1>1, <1>2

-----------------------------------------------------------------------------
(* The invariant holds, and what follows from it.                          *)

\* The invariant holds at the start.
LEMMA DiskInit == Init => DiskInv
<1> SUFFICES ASSUME Init PROVE DiskInv
  OBVIOUS
<1>0. /\ job = [s \in Store |-> NoJob] /\ fence = [s \in Store |-> NoFence] /\ queue = <<>>
      /\ w.batch = <<>> /\ w.pc = "idle" /\ w.owe = NoStore /\ w.final = {}
      /\ kept = {} /\ pending = 0 /\ producers = 0 /\ bytes = 0
  BY DEF Init, NoWork
<1>1. /\ <<>> \in Seq(Items) /\ Len(<<>>) = 0 /\ 1..Len(<<>>) = {} /\ DOMAIN <<>> = {}
  OBVIOUS
<1>2. Shape
  BY ShapeInit
<1>3. CountersExact
  <2>1. InWrite = {}
    BY <1>0 DEF InWrite, NoJob
  <2>2. Cardinality(InWrite) = 0
    BY <2>1, FS_EmptySet
  <2>3. QED BY <1>0, <1>1, <2>2 DEF CountersExact
<1>4. BytesExact
  <2>1. BytesOf(<<>>) = 0
    BY <1>1, ItemBytesZero
  <2>2. JobBytes = 0
    <3> DEFINE f == [s \in Store |-> job[s].res]
    <3>1. f \in [Store -> Nat] /\ \A s \in Store : f[s] = 0
      BY <1>0 DEF NoJob
    <3> HIDE DEF f
    <3>2. Bytes(f) = 0
      BY <3>1, BytesZero
    <3>3. QED BY <3>2 DEF f, JobBytes
  <2>3. Budget \in Nat
    BY DiskAssumption
  <2>4. QED BY <1>0, <2>1, <2>2, <2>3 DEF BytesExact, Reserved, JobBytes
<1>5. StopOrder
  BY <1>0 DEF StopOrder, Init
<1>6. SameEra /\ NothingSurvivesClear /\ IndexRestorable /\ PinsHold
  <2>1. \A b \in Block : rows[b] = 0
    BY DEF Init
  <2>2. pins = {} /\ \A s \in Store : job[s].pc = "new"
    BY <1>0 DEF Init, NoJob
  <2>3. SameEra
    BY <1>0, <1>1, <2>2 DEF SameEra, Working
  <2>4. QED BY <2>1, <2>2, <2>3 DEF NothingSurvivesClear, IndexRestorable, PinsHold
<1>7. \A s \in Store : /\ job[s].pc = "new" /\ fence[s].sealed = FALSE
                       /\ fence[s].processed = 0 /\ fence[s].done = FALSE
  BY <1>0 DEF NoJob, NoFence
<1>8. SealOrder
  BY <1>0, <1>1, <1>7 DEF SealOrder
<1>9. Awaited
  <2>1. ASSUME NEW s \in Store PROVE OnTheWay(s) = 0
    <3>1. BlocksOf(s, <<>>) = 0
      BY <1>1, BlocksZero
    <3>2. QED BY <1>0, <3>1 DEF OnTheWay
  <2>2. Fenced \subseteq Store
    BY DiskAssumption
  <2>3. QED BY <1>0, <1>7, <2>1, <2>2 DEF Awaited, Fresh
<1>10. QED BY <1>2, <1>3, <1>4, <1>5, <1>6, <1>8, <1>9 DEF DiskInv

\* It is inductive.
LEMMA DiskStep == DiskInv /\ [Next]_vars => DiskInv'
<1> SUFFICES ASSUME DiskInv, [Next]_vars PROVE DiskInv'
  OBVIOUS
<1> USE DEF DiskInv
<1>1. Shape' /\ CountersExact' /\ StopOrder'
  BY ShapeStep, CountersStep, StopStep
<1>2. BytesExact'
  BY BytesStep
<1>3. SameEra' /\ NothingSurvivesClear' /\ IndexRestorable' /\ PinsHold'
  BY EraStep, IndexStep
<1>4. SealOrder' /\ Awaited'
  BY SealStep, AwaitedStep
<1>5. QED BY <1>1, <1>2, <1>3, <1>4

\* The inductive invariant.
THEOREM DiskInvariant == Spec => []DiskInv
<1>1. Init => DiskInv
  BY DiskInit
<1>2. DiskInv /\ [Next]_vars => DiskInv'
  BY DiskStep
<1>3. QED BY <1>1, <1>2, PTL DEF Spec

\* Whatever the store calls, the writer, clear, shutdown and the readers do,
\* the variables keep their types: no counter falls below zero, and the root
\* lock is held exactly while the writer publishes.
THEOREM DiskTypes == Spec => []DiskTypeOK
<1>1. DiskInv => DiskTypeOK
  <2> SUFFICES ASSUME DiskInv PROVE DiskTypeOK
    OBVIOUS
  <2>1. bytes \in Nat
    BY BytesFacts DEF DiskInv
  <2>2. pending \in Nat
    <3>1. queue \in Seq(Items) /\ w.batch \in Seq(Items)
      BY DEF DiskInv, Shape, WorkFits, Works
    <3>2. Len(queue) \in Nat /\ Len(w.batch) \in Nat
      BY <3>1
    <3>3. pending = Len(queue) + Len(w.batch)
      BY DEF DiskInv, CountersExact
    <3> DEFINE m == Len(w.batch)
    <3>4. m \in Nat /\ pending = Len(queue) + m
      BY <3>2, <3>3
    <3> HIDE DEF m
    <3>5. QED BY <3>2, <3>4
  <2>3. producers \in Nat
    <3>1. IsFiniteSet(InWrite)
      BY DiskAssumption, FS_Subset DEF InWrite
    <3>2. QED BY <3>1, FS_CardinalityType DEF DiskInv, CountersExact
  <2>4. w.owe \in Store \cup {NoStore} /\ w.final \subseteq Store
        /\ root \in {"free", "writer"} /\ (root = "writer" <=> w.pc \in {"publish", "stuck"})
    BY DEF DiskInv, Shape, WorkFits, Works
  <2>5. QED BY <2>1, <2>2, <2>3, <2>4 DEF DiskInv, Shape, Types, DiskTypeOK
<1>2. QED BY <1>1, DiskInvariant, PTL

\* The byte counter is what the calls, the queue and the batch have reserved,
\* on every error path of the calls and of the writer, and is above the
\* budget only for one payload that holds all of it.
THEOREM BudgetIsExact == Spec => []BytesExact
<1>1. DiskInv => BytesExact
  BY DEF DiskInv
<1>2. QED BY <1>1, DiskInvariant, PTL

\* What clear and shutdown wait for, producers and pending items, counts the
\* calls between _begin_write_producer and _end_write_producer and the items
\* in the queue and in the batch.
THEOREM CountersAreExact == Spec => []CountersExact
<1>1. DiskInv => CountersExact
  BY DEF DiskInv
<1>2. QED BY <1>1, DiskInvariant, PTL

\* A fence that settles without an error settles after the last write of its
\* call: the seal is refused to late writes, and the writer's count of what
\* it processed catches up with the calls' count of what they queued only
\* when nothing of the call is on its way.
THEOREM FencesSettleLast == Spec => []SettlesLast
<1>1. DiskInv => SettlesLast
  <2> SUFFICES ASSUME DiskInv, NEW s \in kept, fence[s].done, ~fence[s].err
               PROVE  /\ s \notin InWrite
                      /\ \A i \in DOMAIN queue :
                           ~(queue[i].kind = "block" /\ queue[i].store = s)
                      /\ s \notin Owners
    BY DEF SettlesLast
  <2>0. s \in Store /\ queue \in Seq(Items) /\ w.batch \in Seq(Items)
    BY DiskAssumption DEF DiskInv, Shape, Types, WorkFits, Works
  <2>1. fence[s].sealed /\ OnTheWay(s) = 0
    BY DEF DiskInv, Awaited
  <2>2. s \notin InWrite
    <3>1. job[s].pc \in Closed
      BY <2>0, <2>1 DEF DiskInv, SealOrder
    <3>2. QED BY <3>1 DEF Closed, InWrite
  <2>3. BlocksOf(s, queue) = 0 /\ BlocksOf(s, w.batch) = 0
    <3>1. BlocksOf(s, queue) \in Nat /\ BlocksOf(s, w.batch) \in Nat
      BY <2>0, BlocksType
    <3>2. QED BY <2>1, <3>1 DEF OnTheWay
  <2>4. \A i \in DOMAIN queue : Weight(s, queue[i]) = 0
    BY <2>0, <2>3, BlocksZero
  <2>5. \A i \in DOMAIN w.batch : Weight(s, w.batch[i]) = 0
    BY <2>0, <2>3, BlocksZero
  <2>6. QED BY <2>2, <2>4, <2>5 DEF Weight, Owners
<1>2. QED BY <1>1, DiskInvariant, PTL

\* Whatever is indexed has its parent indexed: publication checks the parent
\* under the root lock, a clean-up takes the whole subtree and eviction takes
\* leaves.
THEOREM IndexStaysRestorable == Spec => []IndexRestorable
<1>1. DiskInv => IndexRestorable
  BY DEF DiskInv
<1>2. QED BY <1>1, DiskInvariant, PTL

\* No row is older than the last clear: the wipe waits until no call is at
\* work and no item is pending, and so nothing admitted before it is
\* published after it.
THEOREM ClearIsFinal == Spec => []NothingSurvivesClear
<1>1. DiskInv => NothingSurvivesClear
  BY DEF DiskInv
<1>2. QED BY <1>1, DiskInvariant, PTL

\* A pinned block is indexed, whoever cleans up, evicts or clears.
THEOREM PinsAlwaysHold == Spec => []PinsHold
<1>1. DiskInv => PinsHold
  BY DEF DiskInv
<1>2. QED BY <1>1, DiskInvariant, PTL

\* The lease is given up after everything else: the writer has drained its
\* queue, no call is at work, no byte is reserved and no pin is left.
THEOREM LeaseGoesLast == Spec => []LeaseLast
<1>1. DiskInv => LeaseLast
  <2> SUFFICES ASSUME DiskInv, finalized
               PROVE  /\ bytes = 0 /\ producers = 0 /\ pending = 0 /\ queue = <<>>
                      /\ pins = {} /\ root = "free"
    BY DEF LeaseLast
  <2>1. /\ w.pc = "dead" /\ pins = {} /\ queue = <<>> /\ producers = 0
    BY DEF DiskInv, StopOrder
  <2>2. w.batch = <<>> /\ root = "free"
    BY <2>1 DEF DiskInv, Shape, WorkFits
  <2>3. pending = 0
    BY <2>1, <2>2 DEF DiskInv, CountersExact
  <2>4. BytesOf(<<>>) = 0
    <3>1. <<>> \in Seq(Items) /\ 1..Len(<<>>) = {}
      OBVIOUS
    <3>2. QED BY <3>1, ItemBytesZero
  <2>5. JobBytes = 0
    <3> DEFINE f == [s \in Store |-> job[s].res]
    <3>1. \A s \in Store : job[s].pc \notin Working
      BY <2>1, NobodyInWrite DEF DiskInv, InWrite, Working
    <3>2. \A s \in Store : job[s].res \in Nat /\ (job[s].res > 0 => job[s].pc \in Working)
      BY DEF DiskInv, Shape, JobsFit, JobFits, Jobs, Working
    <3>3. \A s \in Store : job[s].res = 0
      BY <3>1, <3>2
    <3>4. f \in [Store -> Nat] /\ \A s \in Store : f[s] = 0
      BY <3>3
    <3> HIDE DEF f
    <3>5. Bytes(f) = 0
      BY <3>4, BytesZero
    <3>6. QED BY <3>5 DEF f, JobBytes
  <2>6. bytes = 0
    BY <2>1, <2>2, <2>4, <2>5 DEF DiskInv, BytesExact, Reserved, JobBytes
  <2>7. QED BY <2>1, <2>2, <2>3, <2>6
<1>2. QED BY <1>1, DiskInvariant, PTL

=============================================================================
