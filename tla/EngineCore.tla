----------------------------- MODULE EngineCore -----------------------------
(***************************************************************************)
(* The engine loop and its clients: EngineCore (engine_core.py), its       *)
(* output collectors (output_collector.py) and the request registries of   *)
(* the Scheduler it drives (scheduler.py).                                 *)
(*                                                                         *)
(* Client coroutines and the engine loop share the event-loop thread: what *)
(* they do between two awaits is one step.  Scheduler.step and the cleanup *)
(* of finished requests run on the single model worker, between whose      *)
(* steps any coroutine may run, abort_request included.                    *)
(*                                                                         *)
(* The n-th token of a request is the number n.  A step that only prefills *)
(* emits nothing and is part of the step that emits the next token.        *)
(***************************************************************************)
EXTENDS Integers, Sequences, FiniteSets, Queues

CONSTANTS
  Req,         \* request ids
  Json,        \* those awaited by generate(); the others by stream_outputs()
  MaxTok,      \* max_tokens of every request
  Interval,    \* EngineConfig.stream_interval
  MaxSeqs,     \* SchedulerConfig.max_num_seqs
  OrphanLimit, \* _ORPHAN_ABORT_THRESHOLD
  MaxFaults,   \* bound on the failures of a behaviour
  None         \* no request

ASSUME EngineAssumption ==
  /\ IsFiniteSet(Req) /\ Json \subseteq Req /\ None \notin Req
  /\ {MaxTok, Interval, MaxSeqs, OrphanLimit} \subseteq Nat \ {0}
  /\ MaxFaults \in Nat

VARIABLES
  phase,    \* where the client's coroutine is
  outcome,  \* what the client was told last
  got,      \* the tokens the client was given
  held,     \* the terminal output it holds at the persistence fence
  cols,     \* keys of _output_collectors (and of the two dicts beside it)
  buf,      \* RequestOutputCollector.output
  pend,     \* RequestStreamState.pending_new_token_ids
  sent,     \* RequestStreamState.sent_tokens
  orphans,  \* orphan_counts
  fence,    \* _terminal_cleanup_complete is set
  lpc,      \* where the engine loop is
  sreqs,    \* keys of Scheduler.requests
  status,   \* Request.status
  waiting,  \* Scheduler.waiting
  running,  \* keys of Scheduler.running
  uids,     \* keys of request_id_to_uid: rows of the batch generator
  aborts,   \* _pending_aborts
  count,    \* Request.num_output_tokens, since the last restart
  made,     \* Request.total_output_tokens
  wpc,      \* where the worker is
  cur,      \* the request _schedule_waiting is inserting
  outs,     \* the requests that have an output in the last step
  toStore,  \* finished requests whose cleanup has not settled
  faults    \* failures so far

clientVars == <<phase, outcome, got, held>>
streamVars == <<buf, pend, sent>>
loopVars == <<cols, orphans, fence, lpc>>
schedVars == <<sreqs, status, waiting, running, uids, aborts>>
workVars == <<count, made, wpc, cur, outs, toStore>>
vars == <<clientVars, streamVars, loopVars, schedVars, workVars, faults>>

Terminal == {"stop", "aborted", "error"}
Empty == [toks |-> <<>>, fin |-> "none"]
Finished(r) == status[r] \in {"FINISHED", "ABORTED"}
InWaiting == Members(waiting)

EngineInit ==
  /\ phase = [r \in Req |-> "new"] /\ outcome = [r \in Req |-> "open"]
  /\ got = [r \in Req |-> <<>>] /\ held = [r \in Req |-> Empty]
  /\ cols = {} /\ orphans = [r \in Req |-> 0] /\ fence = TRUE /\ lpc = "top"
  /\ buf = [r \in Req |-> Empty] /\ pend = [r \in Req |-> <<>>]
  /\ sent = [r \in Req |-> 0]
  /\ sreqs = {} /\ status = [r \in Req |-> "WAITING"] /\ waiting = <<>>
  /\ running = {} /\ uids = {} /\ aborts = {}
  /\ count = [r \in Req |-> 0] /\ made = [r \in Req |-> 0]
  /\ wpc = "idle" /\ cur = None /\ outs = {} /\ toStore = {}
  /\ faults = 0

-----------------------------------------------------------------------------
(* Shared by several handlers.                                             *)

\* Scheduler.abort_request of every request in S, in one block of the loop:
\* an id the registry does not know is ignored; a generator row is only
\* marked, the worker removes it at its next step.
Aborted(S) ==
  LET A == S \cap sreqs
  IN /\ sreqs' = sreqs \ A
     /\ waiting' = Without(waiting, {r \in A : status[r] = "WAITING"})
     /\ aborts' = aborts \cup (A \cap uids)
     /\ running' = running \ A
     /\ status' = [r \in Req |-> IF r \in A THEN "ABORTED" ELSE status[r]]
     /\ UNCHANGED uids

\* Fault: an unread output is replaced.
PutReplacing(out, toks, fin) == [toks |-> toks, fin |-> fin]

\* RequestOutputCollector.put: merged into what has not been read yet.
Put(out, toks, fin) == [toks |-> out.toks \o toks, fin |-> fin]

\* Fault: the collector is dropped without a last output.
CleanupRequestSilent(r) ==
  /\ cols' = cols \ {r}
  /\ Aborted(IF r \in sreqs /\ Finished(r) THEN {} ELSE {r})
  /\ UNCHANGED <<streamVars, orphans, fence, lpc, workVars, faults>>

\* _cleanup_request: the collector gets a last output that carries what was
\* accumulated, and the scheduler aborts a request that has not finished.
CleanupRequest(r) ==
  /\ IF r \in cols
       THEN /\ buf' = [buf EXCEPT ![r] = Put(@, pend[r], "aborted")]
            /\ pend' = [pend EXCEPT ![r] = <<>>]
       ELSE UNCHANGED <<buf, pend>>
  /\ cols' = cols \ {r}
  /\ Aborted(IF r \in sreqs /\ Finished(r) THEN {} ELSE {r})
  /\ UNCHANGED <<sent, orphans, fence, lpc, workVars, faults>>

-----------------------------------------------------------------------------
(* Clients.                                                                *)

\* add_request after the fence: register, look the prefix up, queue.
Admit(r) ==
  /\ phase' = [phase EXCEPT ![r] = "active"]
  /\ cols' = cols \cup {r}
  /\ sreqs' = sreqs \cup {r}
  /\ waiting' = Append(waiting, r)
  /\ UNCHANGED <<outcome, got, held, streamVars, orphans, fence, lpc, status,
                 running, uids, aborts, workVars, faults>>

\* add_request up to the wait at the fence, which an open fence skips.
Enter(r) ==
  /\ phase[r] = "new"
  /\ IF fence THEN Admit(r)
     ELSE /\ phase' = [phase EXCEPT ![r] = "gated"]
          /\ UNCHANGED <<outcome, got, held, streamVars, loopVars, schedVars,
                         workVars, faults>>

Resume(r) == phase[r] = "gated" /\ fence /\ Admit(r)

\* The scheduler refuses the request (validation): the bookkeeping goes too.
Refuse(r) ==
  /\ phase[r] \in {"new", "gated"} /\ fence
  /\ phase' = [phase EXCEPT ![r] = "done"]
  /\ outcome' = [outcome EXCEPT ![r] = "refused"]
  /\ UNCHANGED <<got, held, streamVars, loopVars, schedVars, workVars, faults>>

\* stream_outputs reads whatever is in its collector; generate waits for the
\* finished event and needs the collector still registered.
Take(r) ==
  /\ phase[r] = "active" /\ buf[r].fin # "none"
  /\ r \in Json => buf[r].fin \in Terminal /\ r \in cols
  /\ buf' = [buf EXCEPT ![r] = Empty]
  /\ IF buf[r].fin = "no"
       THEN /\ got' = [got EXCEPT ![r] = @ \o buf[r].toks]
            /\ UNCHANGED <<phase, held>>
       ELSE /\ held' = [held EXCEPT ![r] = buf[r]]
            /\ phase' = [phase EXCEPT ![r] = "held"]
            /\ UNCHANGED got
  /\ UNCHANGED <<outcome, pend, sent, loopVars, schedVars, workVars, faults>>

\* Fault: the terminal output is passed on without waiting for the fence.
DeliverEarly(r) ==
  /\ phase[r] = "held"
  /\ phase' = [phase EXCEPT ![r] = "done"]
  /\ got' = [got EXCEPT ![r] = @ \o held[r].toks]
  /\ outcome' = [outcome EXCEPT ![r] = held[r].fin]
  /\ held' = [held EXCEPT ![r] = Empty]
  /\ CleanupRequest(r)

\* The fence is open: the terminal output reaches the client.
Deliver(r) ==
  /\ phase[r] = "held" /\ fence
  /\ phase' = [phase EXCEPT ![r] = "done"]
  /\ got' = [got EXCEPT ![r] = @ \o held[r].toks]
  /\ outcome' = [outcome EXCEPT ![r] = held[r].fin]
  /\ held' = [held EXCEPT ![r] = Empty]
  /\ CleanupRequest(r)

\* The worker is between the two registrations of the request.
HalfInserted(r) == wpc = "inserted" /\ cur = r

\* The client goes away, or its read times out: the finally clause runs.
Leave(r) ==
  /\ phase[r] \in {"active", "held"}
  /\ phase' = [phase EXCEPT ![r] = "done"]
  /\ outcome' = [outcome EXCEPT ![r] = "dropped"]
  /\ CleanupRequest(r)
  /\ UNCHANGED <<got, held>>

\* (A departure while its request is half inserted is left out: it leaves a
\* row behind that nothing removes, and the engine never drains.)
Disconnect(r) == Leave(r) /\ ~HalfInserted(r)

\* The client goes away while add_request waits: nothing is registered yet.
GiveUp(r) ==
  /\ phase[r] = "gated"
  /\ phase' = [phase EXCEPT ![r] = "done"]
  /\ outcome' = [outcome EXCEPT ![r] = "dropped"]
  /\ UNCHANGED <<got, held, streamVars, loopVars, schedVars, workVars, faults>>

\* abort_request by another coroutine. A stream reads the last output from
\* the collector it still has; generate finds no collector and raises.
Cancel(r) ==
  /\ r \in cols /\ phase[r] \in {"active", "held"} /\ ~HalfInserted(r)
  /\ CleanupRequest(r)
  /\ IF r \in Json /\ phase[r] = "active"
       THEN /\ phase' = [phase EXCEPT ![r] = "done"]
            /\ outcome' = [outcome EXCEPT ![r] = "dropped"]
       ELSE UNCHANGED <<phase, outcome>>
  /\ UNCHANGED <<got, held>>

-----------------------------------------------------------------------------
(* The engine loop.                                                        *)

\* Fault: a marked row alone is not work.
HasRequestsUnmarked == waiting # <<>> \/ running # {}

HasRequests == waiting # <<>> \/ running # {} \/ aborts # {}

SubmitStep ==
  /\ lpc = "top" /\ HasRequests
  /\ lpc' = "await" /\ wpc' = "aborts"
  /\ UNCHANGED <<clientVars, streamVars, cols, orphans, fence, schedVars, count,
                 made, cur, outs, toStore, faults>>

\* Event.set queues its waiters before anything the loop awaits afterwards,
\* so they have run when the loop resumes.
WaitersRan == fence => \A r \in Req : phase[r] \notin {"gated", "held"}

\* RequestStreamState.should_send.
ShouldSend(r, fin) == fin \/ sent[r] = 0 \/ count[r] - sent[r] >= Interval

\* Fault: what was accumulated is not merged into the output that is sent.
DistributeBare(fin) ==
  LET wanted == outs \cap cols
      Send(r) == r \in wanted /\ ShouldSend(r, r \in fin)
  IN /\ buf' = [r \in Req |->
          IF Send(r) THEN Put(buf[r], <<made[r]>>, IF r \in fin THEN "stop" ELSE "no")
                     ELSE buf[r]]
     /\ pend' = [r \in Req |-> IF r \in wanted /\ ~Send(r)
                               THEN Append(pend[r], made[r]) ELSE pend[r]]
     /\ sent' = [r \in Req |-> IF Send(r) THEN count[r] ELSE sent[r]]
     /\ Aborted({}) /\ UNCHANGED orphans

\* Fault: the count of a reaped request is not reset.
DistributeRecount(fin) ==
  LET wanted == outs \cap cols
      Send(r) == r \in wanted /\ ShouldSend(r, r \in fin)
      lost == outs \ cols
  IN /\ buf' = [r \in Req |->
          IF Send(r) THEN Put(buf[r], pend[r] \o <<made[r]>>,
                              IF r \in fin THEN "stop" ELSE "no")
                     ELSE buf[r]]
     /\ pend' = [r \in Req |-> IF Send(r) THEN <<>>
                               ELSE IF r \in wanted THEN Append(pend[r], made[r])
                               ELSE pend[r]]
     /\ sent' = [r \in Req |-> IF Send(r) THEN count[r] ELSE sent[r]]
     /\ Aborted({r \in lost : orphans[r] + 1 >= OrphanLimit})
     /\ orphans' = [r \in Req |-> IF r \in wanted \cup fin THEN 0
                                  ELSE IF r \in lost THEN orphans[r] + 1
                                  ELSE orphans[r]]

\* The outputs of a step reach the collectors that want them, or wait for the
\* next output that is sent; those nobody collects are counted, and their
\* requests aborted at the limit (or after 30 s). Every 50th step also aborts
\* the requests that run without a collector.
Distribute(fin) ==
  LET wanted == outs \cap cols
      Send(r) == r \in wanted /\ ShouldSend(r, r \in fin)
      lost == outs \ cols
  IN /\ buf' = [r \in Req |->
          IF Send(r) THEN Put(buf[r], pend[r] \o <<made[r]>>,
                              IF r \in fin THEN "stop" ELSE "no")
                     ELSE buf[r]]
     /\ pend' = [r \in Req |-> IF Send(r) THEN <<>>
                               ELSE IF r \in wanted THEN Append(pend[r], made[r])
                               ELSE pend[r]]
     /\ sent' = [r \in Req |-> IF Send(r) THEN count[r] ELSE sent[r]]
     /\ \E ghosts \in {{}, running \ cols}, old \in SUBSET lost :
          LET reaped == {r \in lost : orphans[r] + 1 >= OrphanLimit} \cup old
          IN /\ Aborted(ghosts \cup reaped)
             /\ orphans' = [r \in Req |->
                  IF r \in wanted \cup reaped \cup fin THEN 0
                  ELSE IF r \in lost THEN orphans[r] + 1 ELSE orphans[r]]

\* Fault: the fence goes down only when the cleanup is submitted.
DispatchUnfenced ==
  /\ lpc = "await" /\ wpc = "returned" /\ WaitersRan
  /\ Distribute(toStore)
  /\ lpc' = IF toStore = {} THEN "top" ELSE "dispatched"
  /\ wpc' = "idle" /\ outs' = {}
  /\ UNCHANGED <<clientVars, cols, fence, count, made, cur, toStore, faults>>

\* A step came back. The fence goes down before a terminal output is visible.
Dispatch ==
  /\ lpc = "await" /\ wpc = "returned" /\ WaitersRan
  /\ Distribute(toStore)
  /\ fence' = (fence /\ toStore = {})
  /\ lpc' = IF toStore = {} THEN "top" ELSE "dispatched"
  /\ wpc' = "idle" /\ outs' = {}
  /\ UNCHANGED <<clientVars, cols, count, made, cur, toStore, faults>>

\* After one turn of the event loop the cleanup goes to the worker ...
StartCleanup ==
  /\ lpc = "dispatched"
  /\ lpc' = "cleanup" /\ wpc' = "storing"
  /\ UNCHANGED <<clientVars, streamVars, cols, orphans, fence, schedVars, count,
                 made, cur, outs, toStore, faults>>

\* ... and when it is back the fence opens.
FinishCleanup ==
  /\ lpc = "cleanup" /\ wpc = "stored"
  /\ fence' = TRUE /\ lpc' = "top" /\ wpc' = "idle"
  /\ UNCHANGED <<clientVars, streamVars, cols, orphans, schedVars, count, made,
                 cur, outs, toStore, faults>>

\* _fail_active_requests, after the fence has been opened.
LoopError ==
  /\ lpc \in {"await", "cleanup"} /\ wpc = "raised"
  /\ fence' = TRUE /\ lpc' = "top" /\ wpc' = "idle"
  /\ buf' = [r \in Req |-> IF r \in cols THEN Put(buf[r], <<>>, "error") ELSE buf[r]]
  /\ Aborted(running \cup InWaiting)
  /\ orphans' = [r \in Req |-> 0]
  /\ toStore' = {} /\ outs' = {}
  /\ UNCHANGED <<clientVars, pend, sent, cols, count, made, cur, faults>>

-----------------------------------------------------------------------------
(* The worker: Scheduler.step, then the cleanup of what it finished.       *)

Working(from, to) == wpc = from /\ wpc' = to

\* _process_pending_aborts: the marked rows leave the generator.
ProcessAborts ==
  /\ Working("aborts", "schedule")
  /\ uids' = uids \ aborts
  /\ aborts' = {}
  /\ UNCHANGED <<clientVars, streamVars, loopVars, sreqs, status, waiting, running,
                 count, made, cur, outs, toStore, faults>>

\* _schedule_waiting, one request: out of the queue ...
Pop ==
  /\ Working("schedule", "inserting")
  /\ waiting # <<>> /\ Cardinality(running) < MaxSeqs
  /\ cur' = Head(waiting) /\ waiting' = Tail(waiting)
  /\ UNCHANGED <<clientVars, streamVars, loopVars, sreqs, status, running, uids,
                 aborts, count, made, outs, toStore, faults>>

\* ... into the generator ...
InsertUid ==
  /\ Working("inserting", "inserted")
  /\ uids' = uids \cup {cur}
  /\ status' = [status EXCEPT ![cur] = "RUNNING"]
  /\ UNCHANGED <<clientVars, streamVars, loopVars, sreqs, waiting, running, aborts,
                 count, made, cur, outs, toStore, faults>>

\* ... and into the registry.
InsertRunning ==
  /\ Working("inserted", "schedule")
  /\ running' = running \cup {cur} /\ cur' = None
  /\ UNCHANGED <<clientVars, streamVars, loopVars, sreqs, status, waiting, uids,
                 aborts, count, made, outs, toStore, faults>>

\* The insertion fails twice: back to the head of the queue.
InsertFails ==
  /\ Working("inserting", "generate") /\ faults < MaxFaults
  /\ waiting' = <<cur>> \o waiting /\ cur' = None
  /\ faults' = faults + 1
  /\ UNCHANGED <<clientVars, streamVars, loopVars, sreqs, status, running, uids,
                 aborts, count, made, outs, toStore>>

\* Nothing more to admit; memory pressure may say so only beside others.
EndSchedule ==
  /\ Working("schedule", "generate")
  /\ waiting = <<>> \/ running # {}
  /\ UNCHANGED <<clientVars, streamVars, loopVars, schedVars, count, made, cur,
                 outs, toStore, faults>>

\* BatchGenerator.next and _process_batch_responses: one token per row whose
\* request is still registered as running; some are the last.
Generate ==
  /\ Working("generate", "returned")
  /\ outs' = running \cap uids
  /\ made' = [r \in Req |-> IF r \in outs' THEN made[r] + 1 ELSE made[r]]
  /\ count' = [r \in Req |-> IF r \in outs' THEN count[r] + 1 ELSE count[r]]
  /\ \E last \in SUBSET outs' :
       /\ \A r \in outs' : made'[r] >= MaxTok => r \in last
       /\ toStore' = last
       /\ status' = [r \in Req |-> IF r \in last THEN "FINISHED" ELSE status[r]]
  /\ UNCHANGED <<clientVars, streamVars, loopVars, sreqs, waiting, running, uids,
                 aborts, cur, faults>>

\* _recover_from_cache_error and _reschedule_running_requests: the generator
\* is thrown away, whatever ran starts over from the head of the queue.
Restart ==
  /\ Working("generate", "schedule") /\ running # {} /\ faults < MaxFaults
  /\ uids' = {} /\ running' = {}
  /\ \E order \in [1..Cardinality(running) -> running] :
       /\ \A r \in running : \E i \in DOMAIN order : order[i] = r
       /\ waiting' = order \o waiting
  /\ status' = [r \in Req |-> IF r \in running THEN "WAITING" ELSE status[r]]
  /\ count' = [r \in Req |-> IF r \in running THEN 0 ELSE count[r]]
  /\ faults' = faults + 1
  /\ UNCHANGED <<clientVars, streamVars, loopVars, sreqs, aborts, made, cur, outs,
                 toStore>>

\* step, or the cleanup, raises into the engine loop.
Raise ==
  /\ wpc \in {"schedule", "generate", "storing"} /\ faults < MaxFaults
  /\ wpc' = "raised" /\ faults' = faults + 1
  /\ UNCHANGED <<clientVars, streamVars, loopVars, schedVars, count, made, cur,
                 outs, toStore>>

\* Fault: the row of a finished request keeps its uid.
StoreRetained ==
  /\ wpc = "storing"
  /\ \E r \in toStore :
       /\ toStore' = toStore \ {r}
       /\ running' = running \ {r}
       /\ sreqs' = sreqs \ {r}
  /\ UNCHANGED <<clientVars, streamVars, loopVars, status, waiting, uids, aborts,
                 count, made, wpc, cur, outs, faults>>

\* _cleanup_finished, one request: stored, then forgotten everywhere.
Store ==
  /\ wpc = "storing"
  /\ \E r \in toStore :
       /\ toStore' = toStore \ {r}
       /\ running' = running \ {r}
       /\ sreqs' = sreqs \ {r}
       /\ uids' = uids \ {r}
  /\ UNCHANGED <<clientVars, streamVars, loopVars, status, waiting, aborts, count,
                 made, wpc, cur, outs, faults>>

Stored ==
  /\ Working("storing", "stored") /\ toStore = {}
  /\ UNCHANGED <<clientVars, streamVars, loopVars, schedVars, count, made, cur,
                 outs, toStore, faults>>

-----------------------------------------------------------------------------
Client(r) ==
  \/ Enter(r) \/ Resume(r) \/ Refuse(r) \/ Take(r) \/ Deliver(r)
  \/ Disconnect(r) \/ GiveUp(r) \/ Cancel(r)

EngineLoop == SubmitStep \/ Dispatch \/ StartCleanup \/ FinishCleanup \/ LoopError

Worker ==
  \/ ProcessAborts \/ Pop \/ InsertUid \/ InsertRunning \/ InsertFails
  \/ EndSchedule \/ Generate \/ Restart \/ Raise \/ Store \/ Stored

EngineNext == EngineLoop \/ Worker \/ \E r \in Req : Client(r)

EngineSpec == EngineInit /\ [][EngineNext]_vars

\* The event loop runs every ready coroutine, the executor every task it was
\* given. Nothing obliges a client to come, to leave or to cancel.
EngineFairness ==
  /\ WF_vars(EngineLoop)
  /\ WF_vars(Worker)
  /\ \A r \in Req : WF_vars(Resume(r)) /\ WF_vars(Take(r)) /\ WF_vars(Deliver(r))

FairSpec == EngineSpec /\ EngineFairness

-----------------------------------------------------------------------------
Numbers(n) == [i \in 1..n |-> i]

(* Type invariant. *)
EngineTypeOK ==
  /\ phase \in [Req -> {"new", "gated", "active", "held", "done"}]
  /\ outcome \in [Req -> Terminal \cup {"open", "refused", "dropped"}]
  /\ cols \subseteq Req /\ sreqs \subseteq Req /\ running \subseteq Req
  /\ uids \subseteq Req /\ aborts \subseteq Req /\ outs \subseteq Req
  /\ toStore \subseteq Req
  /\ waiting \in Seq(Req)
  /\ status \in [Req -> {"WAITING", "RUNNING", "FINISHED", "ABORTED"}]
  /\ fence \in BOOLEAN
  /\ lpc \in {"top", "await", "dispatched", "cleanup"}
  /\ wpc \in {"idle", "aborts", "schedule", "inserting", "inserted", "generate",
              "returned", "raised", "storing", "stored"}
  /\ cur \in Req \cup {None}
  /\ \A r \in Req : orphans[r] \in 0..(OrphanLimit - 1)

(* Whatever batching, merging and slow readers do, the tokens a client     *)
(* has, holds or will read are those that were made, each once and in      *)
(* order (the stream_interval accumulation and _merge_outputs).  They are  *)
(* numbered as total_output_tokens counts them, which a restart does not   *)
(* reset: that the text begins anew after one does not show here.          *)
TokensInOrder ==
  \A r \in cols :
    got[r] \o held[r].toks \o buf[r].toks \o pend[r] =
      Numbers(made[r] - IF r \in outs THEN 1 ELSE 0)

(* For its client a request is what RequestStream says: a prefix in order, *)
(* one end, and after "stop" nothing missing and nothing more.             *)
Stream == INSTANCE RequestStream
ImplementsStream == Stream!StreamSpec

\* Dispatched as finished, cleanup not settled.
Unsettled == IF lpc = "await" THEN {} ELSE toStore

(* A terminal output reaches its client only when no finished request's    *)
(* cleanup is outstanding (_wait_for_terminal_persistence).                *)
TerminalAfterStores ==
  [][\A r \in Req : outcome[r] = "open" /\ outcome'[r] \in Terminal =>
       Unsettled = {} /\ (outcome'[r] = "stop" => r \notin toStore)]_vars

(* No request looks its prefix up while a finished one is being stored     *)
(* (the comment on _terminal_cleanup_complete in __init__).                *)
AdmittedAfterStores ==
  [][\A r \in Req : r \notin sreqs /\ r \in sreqs' => Unsettled = {}]_vars

(* When the loop goes idle the generator holds no row, so no native cache  *)
(* of an aborted request is retained (the docstring of has_requests).      *)
IdleIsClean == lpc = "top" /\ ~HasRequests => uids = {}

(* Every request that got as far as add_request ends for its client.       *)
EveryRequestEnds ==
  \A r \in Req : phase[r] \in {"gated", "active", "held"} ~> phase[r] = "done"

(* When the clients are gone the scheduler lets go of everything: no ghost *)
(* keeps the loop spinning (the docstring of _cleanup_request).            *)
AllGone == \A r \in Req : phase[r] \in {"new", "done"}
EngineDrains ==
  AllGone ~> (~AllGone \/ (sreqs = {} /\ running = {} /\ uids = {} /\ ~HasRequests))
=============================================================================
