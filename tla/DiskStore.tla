----------------------------- MODULE DiskStore -----------------------------
(***************************************************************************)
(* The L2 block disk store (BlockDiskStore, block_disk_store.py): threads  *)
(* that store the blocks of a request, the writer thread, clear, shutdown, *)
(* readers that leave index updates in the queue, and other processes that *)
(* evict under the same root budget.                                       *)
(*                                                                         *)
(* A step is one hold of one lock: the life-cycle lock (accepting,         *)
(* producers, pending, queue), the byte condition (bytes), the statistics  *)
(* lock (fence, kept), or one SQLite mutation under the root's file lock   *)
(* (rows, pins).  A wait with a deadline is a step that is taken when its  *)
(* condition holds, and another, at any earlier time, that gives up.       *)
(***************************************************************************)
EXTENDS Integers, Sequences, FiniteSets

CONSTANTS
  Block,     \* chained block hashes
  NoBlock,   \* the parent of a root
  Parent,    \* Parent[b]: the hash b's hash was chained to
  Store,     \* store calls
  NoStore,
  Fenced,    \* those of store_cache, which the one model worker makes in
             \* turn; the others are single writes of the paged cache
  Chain,     \* Chain[s]: the blocks call s writes, in order
  QueueCap,  \* maxsize of the write queue
  Budget,    \* _max_pending_write_bytes
  Size,      \* Size[s][i]: what the payload of the i-th of them is estimated,
             \* frozen and encoded to
  Read,      \* the blocks that are read in the meantime
  MaxEra,    \* bound on the clears
  MaxUpset   \* bound on the unlikely events

ASSUME DiskAssumption ==
  /\ IsFiniteSet(Store) /\ Fenced \subseteq Store /\ NoStore \notin Store
  /\ NoBlock \notin Block /\ Parent \in [Block -> Block \cup {NoBlock}]
  /\ Chain \in [Store -> Seq(Block)]
  /\ \A s \in Store : \A i \in 2..Len(Chain[s]) : Parent[Chain[s][i]] = Chain[s][i - 1]
  /\ Size \in [Store -> Seq([estimate : Nat \ {0}, frozen : Nat \ {0}, encoded : Nat \ {0}])]
  /\ \A s \in Store : Len(Size[s]) = Len(Chain[s])
  /\ Read \subseteq Block /\ {QueueCap, Budget} \subseteq Nat \ {0}
  /\ MaxEra \in Nat \ {0} /\ MaxUpset \in Nat

VARIABLES
  accepting, \* _accepting_writes
  producers, \* _active_write_producers
  pending,   \* _pending_write_items
  queue,     \* _write_queue
  bytes,     \* _pending_write_bytes
  cut,       \* _session_dropped_hashes
  fence,     \* the fields of each store's fence
  kept,      \* keys of _write_fences
  rows,      \* per block, the era of its index row and file, 0 for none
  pins,      \* rows of block_write_pins
  root,      \* holder of the root's exclusive lock between two steps
  job,       \* where each store call is
  w,         \* where the writer is
  clearing,  \* where clear is; _clear_in_progress unless "idle"
  era,       \* 1 + the wipes so far
  shutting,  \* _shutdown_started
  stopped,   \* _stop_event
  finalized, \* _shutdown_finalized
  upsets     \* unlikely events so far: failures, index updates, evictions

lifeVars == <<accepting, producers, pending, queue>>
fenceVars == <<fence, kept>>
rootVars == <<rows, pins, root>>
stopVars == <<clearing, era, shutting, stopped, finalized>>
vars == <<lifeVars, bytes, cut, fenceVars, rootVars, job, w, stopVars, upsets>>

NoFence == [expected |-> 0, active |-> 0, queued |-> 0, failed |-> 0,
            dropped |-> 0, processed |-> 0, sealed |-> FALSE, enq |-> FALSE,
            sfail |-> FALSE, done |-> FALSE, err |-> FALSE]

\* i: the chain position being written; res: bytes it has reserved; out: what
\* became of it; born: the era it was admitted in.
NoJob == [pc |-> "new", i |-> 1, res |-> 0, out |-> "none", born |-> 0]

\* i: the batch position; touch: nothing but accesses; final: fences to
\* finalize; owe: a fence whose sentinel the writer itself has to enqueue.
NoWork == [pc |-> "idle", batch |-> <<>>, i |-> 1, touch |-> FALSE,
           final |-> {}, owe |-> NoStore]

\* size: the bytes an item has reserved; final: what it will be encoded to.
Item(kind, s, b) ==
  [kind |-> kind, store |-> s, block |-> b, size |-> 0, final |-> 0, born |-> 0]
BlockItem(s) ==
  [kind |-> "block", store |-> s, block |-> Chain[s][job[s].i], size |-> job[s].res,
   final |-> Size[s][job[s].i].encoded, born |-> job[s].born]
Spent == Item("spent", NoStore, NoBlock)

Init ==
  /\ accepting = TRUE /\ producers = 0 /\ pending = 0 /\ queue = <<>>
  /\ bytes = 0 /\ cut = {}
  /\ fence = [s \in Store |-> NoFence] /\ kept = {}
  /\ rows = [b \in Block |-> 0] /\ pins = {} /\ root = "free"
  /\ job = [s \in Store |-> NoJob]
  /\ w = NoWork
  /\ clearing = "idle" /\ era = 1
  /\ shutting = FALSE /\ stopped = FALSE /\ finalized = FALSE
  /\ upsets = 0

-----------------------------------------------------------------------------
(* The queue and the byte budget.                                          *)

Alive == w.pc # "dead"
Open == accepting /\ ~shutting /\ Alive
Full == Len(queue) >= QueueCap

Upset == upsets < MaxUpset /\ upsets' = upsets + 1

\* _try_enqueue_write_item: "queued", "full", or refused.
CanPost == accepting /\ Alive /\ ~Full
Refused == ~accepting \/ ~Alive
Post(item) == queue' = Append(queue, item) /\ pending' = pending + 1
              /\ UNCHANGED <<accepting, producers>>

\* The bytes of several reservations: each byte is named by its holder.
Bytes(held) == Cardinality(UNION {{h} \X (1..held[h]) : h \in DOMAIN held})
BytesOf(items) == Bytes([i \in DOMAIN items |-> items[i].size])

\* _reserve_pending_write_bytes: a payload above the whole budget goes alone.
CanReserve(n) == IF n > Budget THEN bytes = 0 ELSE bytes + n <= Budget

\* _resize_pending_write_reservation, of a reservation of old bytes.
CanResize(old, n) ==
  n > Budget \/ bytes - old + n > Budget => bytes = old

-----------------------------------------------------------------------------
(* Fences.                                                                 *)

Ready(f) == f.active <= 0 /\ f.queued + f.failed + f.dropped >= f.expected
\* Fault: what is queued counts as published.
PublishedEarly(f) == Ready(f)

Published(f) == Ready(f) /\ f.processed >= f.queued

\* _write_fence_queue_result.
Counted(s, out) ==
  IF s \notin kept \/ fence[s].done \/ out = "none" THEN fence
  ELSE [fence EXCEPT ![s][out] = @ + 1,
                     ![s].active = IF @ > 0 THEN @ - 1 ELSE 0]

\* _write_fence_completion, and the sentinel it finds that nobody enqueued.
Completed(s, failed) ==
  IF s \notin kept THEN fence
  ELSE [fence EXCEPT ![s].processed = @ + 1,
                     ![s].failed = IF failed THEN @ + 1 ELSE @]

Owed(s, failed) ==
  LET f == Completed(s, failed)[s]
  IN IF s \in kept /\ f.sealed /\ ~f.enq /\ ~f.sfail /\ ~f.done /\ Published(f)
       THEN s ELSE NoStore

\* _mark_write_fence_failed, of several fences.
Failed(S) ==
  [s \in Store |-> IF s \in S \cap kept /\ ~fence[s].done
                     THEN [fence[s] EXCEPT !.done = TRUE, !.err = TRUE] ELSE fence[s]]

-----------------------------------------------------------------------------
(* A store call.                                                           *)

To(s, pc) == job' = [job EXCEPT ![s].pc = pc]
Told(s, out) == job' = [job EXCEPT ![s].pc = "settle", ![s].res = 0, ![s].out = out]
Writing(s) == Chain[s][job[s].i]

\* begin_write_fence; with too many unfinished fences about it raises, and
\* the call goes on without one.
BeginFence(s) ==
  /\ s \in Fenced /\ job[s].pc = "new"
  /\ \A t \in Fenced : job[t].pc \in {"new", "done"}
  /\ \/ kept' = kept \cup {s} /\ UNCHANGED upsets
     \/ Upset /\ UNCHANGED kept
  /\ To(s, "next")
  /\ UNCHANGED <<lifeVars, bytes, cut, fence, rootVars, w, stopVars>>

\* A later call's begin_write_fence makes room.
Forget(s) ==
  /\ s \in kept /\ job[s].pc = "done" /\ (fence[s].done \/ fence[s].sfail)
  /\ Upset
  /\ kept' = kept \ {s}
  /\ UNCHANGED <<lifeVars, bytes, cut, fence, rootVars, job, w, stopVars>>

\* The write of one block is over.  After a refusal a native chain stops, an
\* ordinary one goes on.
Over(s, admitted) ==
  \E pc \in IF admitted \/ s \notin Fenced THEN {"next"} ELSE {"next", "skip"} :
    job' = [job EXCEPT ![s] = [NoJob EXCEPT !.pc = pc, !.i = job[s].i + 1]]

\* _begin_write_producer, then _write_fence_expected; the budget may be
\* unhealthy.  (Only this call looks at the second between the two.)
StartWrite(s) ==
  LET f == fence[s]
      expect(failed) == [fence EXCEPT ![s].expected = @ + 1,
                                      ![s].failed = IF failed THEN @ + 1 ELSE @,
                                      ![s].active = IF failed THEN @ ELSE @ + 1]
      closed == s \in kept /\ (f.sealed \/ f.done \/ f.sfail)
      enter(pc) == job' = [job EXCEPT ![s].pc = pc, ![s].born = era]
  IN
  /\ job[s].pc = "next" \/ (job[s].pc = "new" /\ s \notin Fenced)
  /\ job[s].i <= Len(Chain[s])
  /\ \/ ~Open /\ Over(s, FALSE) /\ UNCHANGED <<producers, fence, upsets>>
     \/ /\ Open /\ producers' = producers + 1
        /\ \/ closed /\ enter("settle") /\ UNCHANGED <<fence, upsets>>
           \/ /\ ~closed /\ enter("admit") /\ UNCHANGED upsets
              /\ fence' = IF s \in kept THEN expect(FALSE) ELSE fence
           \/ /\ ~closed /\ Upset /\ enter("settle")
              /\ fence' = IF s \in kept THEN expect(TRUE) ELSE fence
  /\ UNCHANGED <<accepting, pending, queue, bytes, cut, kept, rootVars, w, stopVars>>

\* What is checked before anything is serialized, and the reservation.  A
\* block is dropped with its parent.
Admit(s) ==
  LET b == Writing(s)
      n == Size[s][job[s].i].estimate
      drop(c) == Told(s, "dropped") /\ cut' = c /\ UNCHANGED bytes
  IN
  /\ job[s].pc = "admit"
  /\ \/ (~Open \/ Full) /\ drop(cut)
     \/ Open /\ ~Full /\ (Parent[b] \in cut \/ ~CanReserve(n)) /\ drop(cut \cup {b})
     \/ /\ Open /\ ~Full /\ Parent[b] \notin cut /\ CanReserve(n)
        /\ bytes' = bytes + n
        /\ cut' = cut \ {b}
        /\ job' = [job EXCEPT ![s].pc = "freeze", ![s].res = n]
  /\ UNCHANGED <<lifeVars, fenceVars, rootVars, w, stopVars, upsets>>

\* Serialize and freeze: the true size replaces the estimate, or it fails.
Freeze(s) ==
  LET old == job[s].res
      n == Size[s][job[s].i].frozen
  IN
  /\ job[s].pc = "freeze"
  /\ \/ /\ IF CanResize(old, n)
             THEN /\ bytes' = bytes - old + n
                  /\ job' = [job EXCEPT ![s].pc = "enqueue", ![s].res = n]
             ELSE /\ bytes' = bytes - old
                  /\ Told(s, "dropped")
        /\ UNCHANGED upsets
     \/ /\ Upset
        /\ bytes' = bytes - old
        /\ Told(s, "failed")
  /\ UNCHANGED <<lifeVars, cut, fenceVars, rootVars, w, stopVars>>

\* Fault: a refused item keeps its reservation.
EnqueueKeeping(s) ==
  /\ job[s].pc = "enqueue"
  /\ IF CanPost
       THEN Post(BlockItem(s)) /\ Told(s, "queued")
       ELSE Told(s, "dropped") /\ UNCHANGED lifeVars
  /\ UNCHANGED <<bytes, cut, fenceVars, rootVars, w, stopVars, upsets>>

\* The reservation passes to the queued item.
Enqueue(s) ==
  /\ job[s].pc = "enqueue"
  /\ IF CanPost
       THEN /\ Post(BlockItem(s))
            /\ Told(s, "queued")
            /\ UNCHANGED bytes
       ELSE /\ bytes' = bytes - job[s].res
            /\ Told(s, "dropped")
            /\ UNCHANGED lifeVars
  /\ UNCHANGED <<cut, fenceVars, rootVars, w, stopVars, upsets>>

\* The fence is told, and _end_write_producer follows at once: who waits for
\* the second does not look at the fence before it.
Settle(s) ==
  /\ job[s].pc = "settle"
  /\ fence' = Counted(s, job[s].out)
  /\ producers' = producers - 1
  /\ Over(s, job[s].out = "queued")
  /\ UNCHANGED <<accepting, pending, queue, bytes, cut, kept, rootVars, w, stopVars,
                 upsets>>

\* record_write_fence_unadmitted, for what is left of a native chain.
Skip(s) ==
  LET n == Len(Chain[s]) + 1 - job[s].i IN
  /\ job[s].pc = "skip"
  /\ fence' = IF s \in kept /\ ~fence[s].done /\ ~fence[s].sfail
                THEN [fence EXCEPT ![s].expected = @ + n, ![s].dropped = @ + n]
                ELSE fence
  /\ To(s, "seal")
  /\ UNCHANGED <<lifeVars, bytes, cut, kept, rootVars, w, stopVars, upsets>>

\* store_cache raises between two blocks; its finally clause seals.
StoreRaises(s) ==
  /\ s \in Fenced /\ job[s].pc = "next" /\ job[s].i <= Len(Chain[s])
  /\ Upset
  /\ To(s, "seal")
  /\ UNCHANGED <<lifeVars, bytes, cut, fenceVars, rootVars, w, stopVars>>

Done(s) == job' = [job EXCEPT ![s] = [NoJob EXCEPT !.pc = "done"]]

\* seal_write_fence, for a call that has one.
Seal(s) ==
  /\ job[s].pc = "seal" \/ (job[s].pc = "next" /\ job[s].i > Len(Chain[s]))
  /\ IF s \in kept /\ ~fence[s].sealed
       THEN /\ fence' = [fence EXCEPT ![s].sealed = TRUE]
            /\ IF Ready(fence[s]) THEN To(s, "sentinel") ELSE Done(s)
       ELSE UNCHANGED fence /\ Done(s)
  /\ UNCHANGED <<lifeVars, bytes, cut, kept, rootVars, w, stopVars, upsets>>

\* _enqueue_write_fence_sentinel: queued or full, and then marked so; or
\* refused, and then the fence fails.
Sentinel(s) ==
  /\ job[s].pc = "sentinel"
  /\ \/ CanPost /\ Post(Item("fence", s, NoBlock)) /\ To(s, "mark") /\ UNCHANGED fence
     \/ ~Refused /\ Full /\ To(s, "mark") /\ UNCHANGED <<lifeVars, fence>>
     \/ /\ Refused
        /\ fence' = [Failed({s}) EXCEPT ![s].sfail = TRUE]
        /\ To(s, "unpin")
        /\ UNCHANGED lifeVars
  /\ UNCHANGED <<bytes, cut, kept, rootVars, w, stopVars, upsets>>

Mark(s) ==
  /\ job[s].pc = "mark"
  /\ fence' = [fence EXCEPT ![s].enq = TRUE]
  /\ Done(s)
  /\ UNCHANGED <<lifeVars, bytes, cut, kept, rootVars, w, stopVars, upsets>>

\* _release_write_fence_pins.
Unpin(s) ==
  /\ job[s].pc = "unpin" /\ root = "free"
  /\ pins' = {p \in pins : p[1] # s}
  /\ Done(s)
  /\ UNCHANGED <<lifeVars, bytes, cut, fenceVars, rows, root, w, stopVars, upsets>>

Write(s) ==
  \/ BeginFence(s) \/ StartWrite(s) \/ Admit(s) \/ Freeze(s) \/ Enqueue(s) \/ Settle(s) \/ Skip(s)
  \/ StoreRaises(s) \/ Seal(s) \/ Sentinel(s) \/ Mark(s) \/ Unpin(s)

-----------------------------------------------------------------------------
(* The index.                                                              *)

Rows == {b \in Block : rows[b] # 0}
HasParent(b) == Parent[b] # NoBlock => rows[Parent[b]] # 0

\* Fault: only the block itself.
SubtreeAlone(b) == {b}

\* Block b and everything chained to it.
Subtree(b) ==
  {c \in Block : \A S \in SUBSET Block :
     b \in S /\ (\A x \in Block : Parent[x] \in S => x \in S) => c \in S}

\* _cleanup_entry.
Cleaned(b) == [c \in Block |-> IF c \in Subtree(b) THEN 0 ELSE rows[c]]

-----------------------------------------------------------------------------
(* The writer.                                                             *)

AtWork(pc) == w.pc = pc /\ w.owe = NoStore
Current == w.batch[w.i]
Owners == {w.batch[i].store : i \in {j \in DOMAIN w.batch : w.batch[j].kind = "block"}}

\* The first item and everything behind it.
TakeBatch ==
  /\ AtWork("idle") /\ queue # <<>>
  /\ queue' = <<>>
  /\ w' = [w EXCEPT !.pc = "encode", !.batch = queue, !.i = 1,
                    !.touch = \A i \in DOMAIN queue : queue[i].kind = "access"]
  /\ UNCHANGED <<accepting, producers, pending, bytes, cut, fenceVars, rootVars, job,
                 stopVars, upsets>>

\* Encode in place: a block that fails or grows out of the budget leaves the
\* batch, and its reservation ends there.
Encode ==
  /\ AtWork("encode") /\ w.i <= Len(w.batch)
  /\ LET it == Current
         lost == /\ bytes' = bytes - it.size
                 /\ fence' = Completed(it.store, TRUE)
                 /\ w' = [w EXCEPT !.batch[w.i] = Spent, !.i = @ + 1,
                                   !.owe = Owed(it.store, TRUE)]
     IN \/ /\ it.kind # "block"
           /\ w' = [w EXCEPT !.i = @ + 1]
           /\ UNCHANGED <<bytes, fence, upsets>>
        \/ /\ it.kind = "block"
           /\ IF CanResize(it.size, it.final)
                THEN /\ bytes' = bytes - it.size + it.final
                     /\ w' = [w EXCEPT !.batch[w.i].size = it.final, !.i = @ + 1]
                     /\ UNCHANGED fence
                ELSE lost
           /\ UNCHANGED upsets
        \/ /\ it.kind = "block" /\ lost
           /\ Upset
  /\ UNCHANGED <<lifeVars, cut, kept, rootVars, job, stopVars>>

\* exclusive_mutation_guard; pins of fences that are done go first.
EnterRoot ==
  /\ AtWork("encode") /\ w.i > Len(w.batch) /\ root = "free"
  /\ root' = "writer"
  /\ pins' = {p \in pins : ~(p[1] \in kept /\ fence[p[1]].done)}
  /\ w' = [w EXCEPT !.pc = "publish", !.i = 1]
  /\ UNCHANGED <<lifeVars, bytes, cut, fenceVars, rows, job, stopVars, upsets>>

Settled(i) == [w EXCEPT !.batch[i] = Spent, !.i = @ + 1]

\* _write_block, pin, completion, release of the reservation.
PublishBlock ==
  /\ AtWork("publish") /\ w.i <= Len(w.batch) /\ Current.kind = "block"
  /\ LET it == Current
         b == it.block
     IN /\ \/ /\ HasParent(b)
              /\ rows' = IF rows[b] = 0 THEN [rows EXCEPT ![b] = it.born] ELSE rows
              /\ pins' = IF it.store \in kept /\ ~fence[it.store].done
                           THEN pins \cup {<<it.store, b>>} ELSE pins
              /\ fence' = Completed(it.store, FALSE)
              /\ w' = [Settled(w.i) EXCEPT !.owe = Owed(it.store, FALSE)]
              /\ UNCHANGED upsets
           \/ /\ \/ ~HasParent(b) /\ UNCHANGED upsets
                 \/ Upset
              /\ fence' = Completed(it.store, TRUE)
              /\ w' = [Settled(w.i) EXCEPT !.owe = Owed(it.store, TRUE)]
              /\ UNCHANGED <<rows, pins>>
        /\ bytes' = bytes - it.size
  /\ UNCHANGED <<lifeVars, cut, kept, root, job, stopVars>>

\* A sentinel, an access or a cleanup.
PublishOther ==
  /\ AtWork("publish") /\ w.i <= Len(w.batch) /\ Current.kind # "block"
  /\ w' = [Settled(w.i) EXCEPT
             !.final = IF Current.kind = "fence" THEN @ \cup {Current.store} ELSE @]
  /\ IF Current.kind = "cleanup"
       THEN /\ rows' = Cleaned(Current.block)
            /\ pins' = {p \in pins : p[2] \notin Subtree(Current.block)}
       ELSE UNCHANGED <<rows, pins>>
  /\ UNCHANGED <<lifeVars, bytes, cut, fenceVars, root, job, stopVars, upsets>>

\* _enqueue_write_fence_sentinel on the writer's own thread.  If the store is
\* closing, the fence fails and its pins are released under the root lock:
\* which the writer may hold, and waits for.
WriterSeals ==
  /\ w.owe # NoStore /\ w.pc # "stuck"
  /\ \/ /\ CanPost /\ Post(Item("fence", w.owe, NoBlock))
        /\ fence' = [fence EXCEPT ![w.owe].enq = TRUE]
        /\ w' = [w EXCEPT !.owe = NoStore] /\ UNCHANGED pins
     \/ /\ ~Refused /\ Full
        /\ fence' = [fence EXCEPT ![w.owe].enq = TRUE]
        /\ w' = [w EXCEPT !.owe = NoStore] /\ UNCHANGED <<lifeVars, pins>>
     \/ /\ Refused
        /\ fence' = [Failed({w.owe}) EXCEPT ![w.owe].sfail = TRUE]
        /\ IF root = "free"
             THEN pins' = {p \in pins : p[1] # w.owe} /\ w' = [w EXCEPT !.owe = NoStore]
             ELSE w' = [w EXCEPT !.pc = "stuck"] /\ UNCHANGED pins
        /\ UNCHANGED lifeVars
  /\ UNCHANGED <<bytes, cut, kept, rows, root, job, stopVars, upsets>>

\* The batch is published: collect deferred fences, give up their pins,
\* account for the bytes.  An access-only batch ends before that.  Over
\* budget, every fence with a pin, in the batch or about to settle fails.
Account ==
  LET final == w.final \cup {s \in kept : /\ fence[s].sealed /\ fence[s].enq
                                          /\ ~fence[s].sfail /\ ~fence[s].done
                                          /\ Published(fence[s])}
      leave(pc, left) == w' = [w EXCEPT !.pc = pc, !.final = left]
  IN
  /\ AtWork("publish") /\ w.i > Len(w.batch)
  /\ root' = "free"
  /\ \/ /\ pins' = {p \in pins : p[1] \notin final}
        /\ IF w.touch THEN leave("settled", {}) ELSE leave("finalize", final)
        /\ UNCHANGED <<fence, upsets>>
     \/ /\ ~w.touch /\ Upset
        /\ pins' = {}
        /\ fence' = Failed({p[1] : p \in pins} \cup Owners \cup final)
        /\ leave("settled", {})
  /\ UNCHANGED <<lifeVars, bytes, cut, kept, rows, job, stopVars>>

\* Fault: the root lock is not released on the way out.
BatchRaisesHolding ==
  /\ AtWork("publish") /\ w.i = 1 /\ Owners # {}
  /\ Upset
  /\ bytes' = 0
  /\ w' = [w EXCEPT !.pc = "settled", !.batch = [i \in DOMAIN @ |-> Spent]]
  /\ UNCHANGED <<lifeVars, cut, fenceVars, rootVars, job, stopVars>>

\* The batch raises outside its per-item handlers; the writer logs it and
\* serves on.  Only the reservations are given back.
BatchRaises ==
  /\ AtWork("publish") /\ w.i = 1 /\ Owners # {}
  /\ Upset
  /\ root' = "free"
  /\ bytes' = bytes - BytesOf(w.batch)
  /\ w' = [w EXCEPT !.pc = "settled", !.batch = [i \in DOMAIN @ |-> Spent]]
  /\ UNCHANGED <<lifeVars, cut, fenceVars, rows, pins, job, stopVars>>

\* _finalize_write_fence, outside the root lock.
FinalizeFence(s) ==
  /\ AtWork("finalize") /\ s \in w.final
  /\ fence' = IF s \notin kept THEN fence
              ELSE IF Published(fence[s]) THEN [fence EXCEPT ![s].done = TRUE]
              ELSE [fence EXCEPT ![s].enq = FALSE]
  /\ w' = [w EXCEPT !.final = @ \ {s}]
  /\ UNCHANGED <<lifeVars, bytes, cut, kept, rootVars, job, stopVars, upsets>>

\* Fault: one item is counted off, whatever the batch held.
CompleteOne ==
  /\ AtWork("settled") \/ (AtWork("finalize") /\ w.final = {})
  /\ pending' = pending - 1
  /\ w' = NoWork
  /\ UNCHANGED <<accepting, producers, queue, bytes, cut, fenceVars, rootVars, job,
                 stopVars, upsets>>

\* _complete_write_items.
CompleteBatch ==
  /\ AtWork("settled") \/ (AtWork("finalize") /\ w.final = {})
  /\ pending' = pending - Len(w.batch)
  /\ w' = NoWork
  /\ UNCHANGED <<accepting, producers, queue, bytes, cut, fenceVars, rootVars, job,
                 stopVars, upsets>>

\* Fault: the stop event alone ends the loop.
WriterExitsEarly ==
  /\ AtWork("idle") /\ stopped
  /\ w' = [w EXCEPT !.pc = "dead"]
  /\ UNCHANGED <<lifeVars, bytes, cut, fenceVars, rootVars, job, stopVars, upsets>>

\* The loop ends when it was stopped and has drained its queue.
WriterExits ==
  /\ AtWork("idle") /\ stopped /\ queue = <<>>
  /\ w' = [w EXCEPT !.pc = "dead"]
  /\ UNCHANGED <<lifeVars, bytes, cut, fenceVars, rootVars, job, stopVars, upsets>>

Writer ==
  \/ TakeBatch \/ Encode \/ EnterRoot \/ PublishBlock \/ PublishOther \/ WriterSeals
  \/ Account \/ BatchRaises \/ (\E s \in Store : FinalizeFence(s)) \/ CompleteBatch
  \/ WriterExits

-----------------------------------------------------------------------------
(* clear, shutdown and the others.                                         *)

StartClear ==
  /\ clearing = "idle" /\ ~shutting /\ era < MaxEra
  /\ clearing' = "quiescing" /\ accepting' = FALSE
  /\ UNCHANGED <<producers, pending, queue, bytes, cut, fenceVars, rootVars, job, w,
                 era, shutting, stopped, finalized, upsets>>

\* Fault: the wipe does not wait for admitted writers.
WipeEarly ==
  /\ clearing = "quiescing" /\ pending = 0 /\ root = "free"
  /\ rows' = [b \in Block |-> 0] /\ pins' = {}
  /\ era' = era + 1
  /\ clearing' = "failing"
  /\ UNCHANGED <<lifeVars, bytes, cut, fenceVars, root, job, w, shutting, stopped,
                 finalized, upsets>>

\* Nothing is being written any more: files, rows and pins go.
Wipe ==
  /\ clearing = "quiescing" /\ producers = 0 /\ pending = 0 /\ root = "free"
  /\ rows' = [b \in Block |-> 0] /\ pins' = {}
  /\ era' = era + 1
  /\ clearing' = "failing"
  /\ UNCHANGED <<lifeVars, bytes, cut, fenceVars, root, job, w, shutting, stopped,
                 finalized, upsets>>

FailUnsettled ==
  /\ clearing = "failing"
  /\ fence' = Failed({s \in kept : fence[s].sealed})
  /\ clearing' = "reopening"
  /\ UNCHANGED <<lifeVars, bytes, cut, kept, rootVars, job, w, era, shutting, stopped,
                 finalized, upsets>>

\* The finally clause, at the end or after five seconds of waiting.
EndClear ==
  /\ \/ clearing = "reopening"
     \/ clearing = "quiescing" /\ (producers > 0 \/ pending > 0)
  /\ clearing' = "idle"
  /\ accepting' = ~shutting
  /\ UNCHANGED <<producers, pending, queue, bytes, cut, fenceVars, rootVars, job, w,
                 era, shutting, stopped, finalized, upsets>>

Shutdown ==
  /\ ~shutting
  /\ shutting' = TRUE /\ accepting' = FALSE
  /\ UNCHANGED <<producers, pending, queue, bytes, cut, fenceVars, rootVars, job, w,
                 clearing, era, stopped, finalized, upsets>>

\* By shutdown itself or, after five seconds, by the thread it leaves behind.
StopWriter ==
  /\ shutting /\ ~stopped /\ producers = 0 /\ clearing = "idle"
  /\ stopped' = TRUE
  /\ UNCHANGED <<lifeVars, bytes, cut, fenceVars, rootVars, job, w, clearing, era,
                 shutting, finalized, upsets>>

\* Fault: the lease is kept while pins are left.
FinalizeUnpinned ==
  /\ ~Alive /\ ~finalized /\ root = "free" /\ pins = {}
  /\ finalized' = TRUE
  /\ UNCHANGED <<lifeVars, bytes, cut, fenceVars, rootVars, job, w, clearing, era,
                 shutting, stopped, upsets>>

\* _finalize_shutdown_after_writer_stop: the writer left the queue empty, so
\* what remains is to give up the pins and the lease.
FinalizeShutdown ==
  /\ ~Alive /\ ~finalized /\ root = "free"
  /\ pins' = {}
  /\ finalized' = TRUE
  /\ UNCHANGED <<lifeVars, bytes, cut, fenceVars, rows, root, job, w, clearing, era,
                 shutting, stopped, upsets>>

\* A read leaves an access time, or the removal of an unreadable entry, to
\* the writer; it is lost when the queue does not take it.
Touch(b) ==
  /\ b \in Read /\ rows[b] # 0 /\ CanPost
  /\ \E kind \in {"access", "cleanup"} : Post(Item(kind, NoStore, b))
  /\ Upset
  /\ UNCHANGED <<bytes, cut, fenceVars, rootVars, job, w, stopVars>>

\* Fault: pins are not looked at.
EvictPinned(b) ==
  /\ rows[b] # 0 /\ root = "free" /\ Upset
  /\ \A c \in Block : Parent[c] = b => rows[c] = 0
  /\ rows' = [rows EXCEPT ![b] = 0]
  /\ UNCHANGED <<lifeVars, bytes, cut, fenceVars, pins, root, job, w, stopVars>>

\* Root-global eviction, in any process: leaves without a pin.
Evict(b) ==
  /\ rows[b] # 0 /\ root = "free" /\ Upset
  /\ b \notin {p[2] : p \in pins}
  /\ \A c \in Block : Parent[c] = b => rows[c] = 0
  /\ rows' = [rows EXCEPT ![b] = 0]
  /\ UNCHANGED <<lifeVars, bytes, cut, fenceVars, pins, root, job, w, stopVars>>

Clearing == StartClear \/ Wipe \/ FailUnsettled \/ EndClear
Stopping == StopWriter \/ FinalizeShutdown

Next ==
  \/ \E s \in Store : Write(s) \/ Forget(s)
  \/ Writer \/ Clearing \/ Shutdown \/ Stopping
  \/ \E b \in Block : Touch(b) \/ Evict(b)

Spec == Init /\ [][Next]_vars

\* Of the threads that have something to do, one gets to do it.  Nobody has
\* to start a store, to clear or to shut down, and nothing has to happen to
\* the index.
Progress ==
  \/ Writer \/ Stopping \/ Wipe \/ FailUnsettled \/ EndClear
  \/ \E s \in Store : job[s].pc # "new" /\ Write(s)

FairSpec == Spec /\ WF_vars(Progress)

-----------------------------------------------------------------------------
InWrite == {s \in Store : job[s].pc \in {"admit", "freeze", "enqueue", "settle"}}

(* Type invariant. *)
DiskTypeOK ==
  /\ {accepting, shutting, stopped, finalized} \subseteq BOOLEAN
  /\ {producers, pending, bytes, upsets} \subseteq Nat
  /\ era \in 1..MaxEra
  /\ cut \subseteq Block /\ kept \subseteq Fenced
  /\ rows \in [Block -> Nat] /\ pins \subseteq Store \X Block
  /\ root \in {"free", "writer"}
  /\ clearing \in {"idle", "quiescing", "failing", "reopening"}
  /\ w.owe \in Store \cup {NoStore} /\ w.final \subseteq Store
  /\ root = "writer" <=> w.pc \in {"publish", "stuck"}

\* The reservations somebody still has to give back.
Reserved == Bytes([s \in Store |-> job[s].res]) + BytesOf(queue) + BytesOf(w.batch)

(* Every byte of the budget is reserved by a call, a queued item or an     *)
(* item of the batch, on every error path: a leak would one day stop all   *)
(* writes, a double release would void the ceiling.  And "keeps the        *)
(* aggregate bounded by max(budget, one payload)"                          *)
(* (_reserve_pending_write_bytes): above the budget one payload holds all  *)
(* of it.                                                                  *)
BytesExact ==
  /\ bytes = Reserved
  /\ bytes > Budget =>
       \/ \E s \in Store : job[s].res = bytes
       \/ \E i \in DOMAIN queue : queue[i].size = bytes
       \/ \E i \in DOMAIN w.batch : w.batch[i].size = bytes

(* clear and shutdown wait for these two counters: they count what is      *)
(* there.                                                                  *)
CountersExact ==
  /\ pending = Len(queue) + Len(w.batch)
  /\ producers = Cardinality(InWrite)

(* A fence that settles without an error settles after its last write: no  *)
(* block of it is still to be admitted, queued or published.               *)
SettlesLast ==
  \A s \in kept : fence[s].done /\ ~fence[s].err =>
    /\ s \notin InWrite
    /\ \A i \in DOMAIN queue : ~(queue[i].kind = "block" /\ queue[i].store = s)
    /\ s \notin Owners

(* Whatever is indexed can be restored: a block's parent is on disk.       *)
IndexRestorable ==
  \A b \in Block : rows[b] # 0 /\ Parent[b] # NoBlock => rows[Parent[b]] # 0

(* A block that was admitted before a clear never survives it.             *)
NothingSurvivesClear == \A b \in Block : rows[b] \in {0, era}

(* A pin holds a block that is there, so that eviction has to spare it.    *)
PinsHold == \A p \in pins : rows[p[2]] # 0

(* The lease goes last: nothing reserved, queued, pinned or being written. *)
LeaseLast ==
  finalized => /\ bytes = 0 /\ producers = 0 /\ pending = 0 /\ queue = <<>>
               /\ pins = {} /\ root = "free"

(* "A dead writer costs the whole L2 tier": the writer never waits for the *)
(* root lock it holds itself.                                              *)
WriterServes == w.pc # "stuck"

(* A shutdown ends, unless the writer is locked out by itself.  (Neither   *)
(* side is ever taken back, so that this says the same as a leads-to.)     *)
ShutdownEnds == []<>(shutting => finalized \/ ~WriterServes)
=============================================================================
