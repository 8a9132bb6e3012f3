----------------------------- MODULE WorkerLink -----------------------------
(***************************************************************************)
(* Distributed inference: the generate loop of the coordinator             *)
(* (distributed/engine.py), its connections to the workers                 *)
(* (distributed/coordinator.py), the heartbeat that shares them            *)
(* (distributed/mesh_manager.py) and the workers' cache slots              *)
(* (distributed/worker.py).                                                *)
(*                                                                         *)
(* The coordinator is one event loop: a step is what runs between two      *)
(* awaits.  A connection is two streams of whole messages.                 *)
(***************************************************************************)
EXTENDS LayerAssign, Queues

CONSTANTS
  Node,      \* the nodes, in the order they were connected, as a sequence
  Self,      \* the coordinator, one of them
  Layers,    \* layers of the model
  Overhead,  \* gigabytes of a node that are not for layers
  Req,
  NoReq,
  Chat,      \* requests whose caller names them by an id the loop never learns
  Beat,      \* the heartbeat
  Rams,      \* what the nodes may have of memory
  MaxTok,    \* tokens of a request
  MaxBeat,   \* bound on the heartbeats
  MaxUpset   \* bound on the unlikely events

Worker == Members(Node) \ {Self}

ASSUME LinkAssumption ==
  /\ Node \in Seq(Members(Node)) /\ NoRepeats(Node) /\ Self \in Members(Node)
  /\ Layers \in Nat \ {0} /\ Overhead \in Nat /\ Rams \subseteq [1..Len(Node) -> Nat]
  /\ NoReq \notin Req /\ Beat \notin Req /\ Chat \subseteq Req /\ \A r \in Chat : <<r>> \notin Req
  /\ MaxTok \in Nat \ {0} /\ MaxBeat \in Nat /\ MaxUpset \in Nat

VARIABLES
  pipe,      \* assignments
  req,       \* per request: where its generate loop is
  lock,      \* _generation_lock: who holds it, then who waits
  current,   \* _current_request_id
  aborting,  \* _abort_requested, and whose id it was requested with
  reader,    \* per request and for the heartbeat: its read of a connection
  link,      \* per worker: the connection
  slot,      \* per worker: cache, as the number of passes a slot has seen
  touched,   \* per worker: _cache_last_touched
  beat,      \* the heartbeat: the workers it still has to ask, how many there were
  upsets,
  shaken     \* history: connections that two read at once, or that somebody gave up on

loop == <<req, lock, current, aborting>>
wire == <<reader, link, shaken>>
cache == <<slot, touched>>
vars == <<pipe, loop, wire, cache, beat, upsets>>

Party == Req \cup {Beat}

\* at: its stage of the pipeline; pos: the pass; pass: what the hidden states
\* went through; todo: the workers still to be told that it ended; stalled:
\* its client did not read for as long as a slot lives.
NoRun == [pc |-> "new", at |-> 0, pos |-> 0, pass |-> <<>>, todo |-> {}, ended |-> FALSE,
          stalled |-> FALSE]
NoRead == [st |-> "idle", at |-> Self]

\* The id the loop runs a request under: the caller's or one of its own.
Inner(r) == IF r \in Chat THEN <<r>> ELSE r

Init ==
  /\ \E ram \in Rams : pipe = Assign(Node, ram, Layers, Overhead)
  /\ req = [r \in Req |-> NoRun]
  /\ lock = <<>> /\ current = NoReq /\ aborting = NoReq
  /\ reader = [x \in Party |-> NoRead]
  /\ link = [w \in Worker |-> [open |-> TRUE, out |-> <<>>, in |-> <<>>]]
  /\ slot = [w \in Worker |-> <<>>] /\ touched = [w \in Worker |-> {}]
  /\ beat = [todo |-> {}, count |-> 0]
  /\ upsets = 0
  /\ shaken = {}

-----------------------------------------------------------------------------
Upset == upsets < MaxUpset /\ upsets' = upsets + 1

Message(kind, r, pos) == [kind |-> kind, req |-> r, pos |-> pos]

Idle(x) == reader[x].st = "idle"
Reading(w) == {x \in Party : ~Idle(x) /\ reader[x].at = w}

\* Write, then read; while the buffers of the connection are full, drain first.
Post(x, w, m) ==
  /\ link' = [link EXCEPT ![w].out = Append(@, m)]
  /\ \E st \in {"draining", "sent"} : reader' = [reader EXCEPT ![x] = [st |-> st, at |-> w]]
  /\ shaken' = IF Reading(w) = {} THEN shaken ELSE shaken \cup {w}

\* On every way out the workers are told.
Leaves(r, ended) ==
  req' = [req EXCEPT ![r].pc = "release", ![r].todo = Worker, ![r].ended = ended]

\* What a failed read means to the one who read.
Fails(x) ==
  IF x \in Req /\ req[x].pc = "forward" THEN Leaves(x, FALSE) ELSE UNCHANGED req

-----------------------------------------------------------------------------
(* The generate loop.                                                      *)

\* stream_chat notes the caller's id before it has the lock.
Arrive(r) ==
  /\ req[r].pc = "new"
  /\ req' = [req EXCEPT ![r].pc = "queued"]
  /\ lock' = Append(lock, r)
  /\ current' = IF r \in Chat THEN r ELSE current
  /\ UNCHANGED <<pipe, aborting, wire, cache, beat, upsets>>

\* A task that waits for the lock is cancelled.
Cancel(r) ==
  /\ req[r].pc = "queued" /\ Upset
  /\ req' = [req EXCEPT ![r].pc = "done"]
  /\ lock' = Without(lock, {r})
  /\ UNCHANGED <<pipe, current, aborting, wire, cache, beat>>

\* Fault: a flag of an earlier request is kept.
BeginFlagged(r) ==
  /\ req[r].pc = "queued" /\ Head(lock) = r
  /\ req' = [req EXCEPT ![r].pc = "forward", ![r].at = 1]
  /\ current' = Inner(r)
  /\ UNCHANGED <<pipe, lock, aborting, wire, cache, beat, upsets>>

Begin(r) ==
  /\ req[r].pc = "queued" /\ Head(lock) = r
  /\ req' = [req EXCEPT ![r].pc = "forward", ![r].at = 1]
  /\ current' = Inner(r) /\ aborting' = NoReq
  /\ UNCHANGED <<pipe, lock, wire, cache, beat, upsets>>

\* abort_request.
Abort(r) ==
  /\ current = r
  /\ aborting' = r
  /\ UNCHANGED <<pipe, req, lock, current, wire, cache, beat, upsets>>

\* The hidden states come back from a stage; after the last a token is sampled
\* and given to the client.
Through(r, stage) ==
  req' = [req EXCEPT ![r].pass = Append(@, stage),
                     ![r].at = @ + 1,
                     ![r].pc = IF req[r].at = Len(pipe) THEN "yield" ELSE @]

At(r) == pipe[req[r].at]

\* The coordinator's own stage runs the layers it has loaded.
Local(r) ==
  /\ req[r].pc = "forward" /\ At(r).node = Self
  /\ Through(r, [req |-> r, pos |-> req[r].pos, lo |-> pipe[1].lo, hi |-> pipe[1].hi])
  /\ UNCHANGED <<pipe, lock, current, aborting, wire, cache, beat, upsets>>

Forward(r) ==
  LET w == At(r).node IN
  /\ req[r].pc = "forward" /\ w # Self /\ Idle(r)
  /\ IF link[w].open
       THEN Post(r, w, Message("forward", r, req[r].pos)) /\ UNCHANGED req
       ELSE Leaves(r, FALSE) /\ UNCHANGED wire
  /\ UNCHANGED <<pipe, lock, current, aborting, cache, beat, upsets>>

\* Fault: one pass too many.
ResumeBeyond(r) ==
  LET more == req[r].pos < MaxTok IN
  /\ req[r].pc = "yield"
  /\ \/ /\ more /\ aborting = NoReq
        /\ req' = [req EXCEPT ![r].pc = "forward", ![r].at = 1, ![r].pos = @ + 1, ![r].pass = <<>>]
     \/ Leaves(r, TRUE)
  /\ UNCHANGED <<pipe, lock, current, aborting, wire, cache, beat, upsets>>

\* The client asks for more.  Whether the token ends the text is the model's choice.
Resume(r) ==
  LET more == req[r].pos + 1 < MaxTok IN
  /\ req[r].pc = "yield"
  /\ \/ /\ more /\ aborting = NoReq
        /\ req' = [req EXCEPT ![r].pc = "forward", ![r].at = 1, ![r].pos = @ + 1, ![r].pass = <<>>]
     \/ Leaves(r, TRUE)
  /\ UNCHANGED <<pipe, lock, current, aborting, wire, cache, beat, upsets>>

\* The client goes away.
Close(r) ==
  /\ req[r].pc = "yield" /\ Upset
  /\ Leaves(r, FALSE)
  /\ UNCHANGED <<pipe, lock, current, aborting, wire, cache, beat>>

\* release_request: one worker after the other, whatever they answer.
Release(r) ==
  /\ req[r].pc = "release" /\ Idle(r)
  /\ \E w \in req[r].todo :
       /\ req' = [req EXCEPT ![r].todo = @ \ {w}]
       /\ IF link[w].open THEN Post(r, w, Message("release", r, 0)) ELSE UNCHANGED wire
  /\ UNCHANGED <<pipe, lock, current, aborting, cache, beat, upsets>>

\* stream_chat, when it ended by itself, forgets whatever id is noted.
Finish(r) ==
  /\ req[r].pc = "release" /\ Idle(r) /\ req[r].todo = {}
  /\ req' = [req EXCEPT ![r].pc = "done", ![r].pass = <<>>]
  /\ lock' = Tail(lock)
  /\ current' = IF current = Inner(r) \/ (r \in Chat /\ req[r].ended) THEN NoReq ELSE current
  /\ UNCHANGED <<pipe, aborting, wire, cache, beat, upsets>>

-----------------------------------------------------------------------------
(* Writing to a connection, and reading it.                                *)

\* The buffers take the rest of the message.  Nothing bounds this wait.
Drained(x) ==
  /\ reader[x].st = "draining" /\ link[reader[x].at].open
  /\ reader' = [reader EXCEPT ![x].st = "sent"]
  /\ UNCHANGED <<pipe, loop, link, shaken, cache, beat, upsets>>

\* Nobody looks which message an answer is to.
Takes(x, w) ==
  LET m == Head(link[w].in) IN
  /\ link' = [link EXCEPT ![w].in = Tail(@)]
  /\ reader' = [reader EXCEPT ![x] = NoRead]
  /\ UNCHANGED shaken
  /\ IF x \in Req /\ req[x].pc = "forward" /\ m.kind = "result"
       THEN Through(x, [req |-> m.req, pos |-> m.pos, lo |-> At(x).lo, hi |-> At(x).hi])
       ELSE Fails(x)

\* What was read already is taken; else one waits, unless somebody else waits
\* (asyncio refuses a second) or nothing can come any more.
Read(x) ==
  LET w == reader[x].at
      refused == \/ ~link[w].open
                 \/ \E y \in Reading(w) \ {x} : reader[y].st = "waiting" /\ reader[x].st = "sent"
  IN
  /\ reader[x].st \in {"sent", "waiting"}
  /\ \/ link[w].in # <<>> /\ Takes(x, w)
     \/ /\ link[w].in = <<>> /\ refused
        /\ reader' = [reader EXCEPT ![x] = NoRead]
        /\ shaken' = shaken \cup {w}
        /\ Fails(x) /\ UNCHANGED link
     \/ /\ link[w].in = <<>> /\ ~refused /\ reader[x].st = "sent"
        /\ reader' = [reader EXCEPT ![x].st = "waiting"]
        /\ UNCHANGED <<link, shaken, req>>
  /\ UNCHANGED <<pipe, lock, current, aborting, cache, beat, upsets>>

\* Fault: only a lost connection ends a wait.
RunsOutClosed(x) == reader[x].st = "waiting" /\ ~link[reader[x].at].open

RunsOut(x) == reader[x].st = "waiting"

\* Of a lost connection the rest of a message is not taken any more.
Broken(x) == reader[x].st = "draining" /\ ~link[reader[x].at].open

Drops(x) ==
  /\ reader' = [reader EXCEPT ![x] = NoRead]
  /\ shaken' = shaken \cup {reader[x].at}
  /\ Fails(x)
  /\ UNCHANGED <<pipe, lock, current, aborting, link, cache, beat>>

\* wait_for runs out, or the waiting task is cancelled: the answer still comes.
GiveUp(x) == (RunsOut(x) \/ Broken(x)) /\ Drops(x) /\ UNCHANGED upsets

\* So it does when a request is cancelled while its write waits.
Quit(r) == reader[r].st = "draining" /\ req[r].pc = "forward" /\ Upset /\ Drops(r)

\* _heartbeat_loop.
Beats ==
  /\ Idle(Beat) /\ beat.todo = {} /\ beat.count < MaxBeat
  /\ beat' = [todo |-> Worker, count |-> beat.count + 1]
  /\ UNCHANGED <<pipe, loop, wire, cache, upsets>>

CheckHealth(w) ==
  /\ Idle(Beat) /\ w \in beat.todo
  /\ beat' = [beat EXCEPT !.todo = @ \ {w}]
  /\ IF link[w].open THEN Post(Beat, w, Message("health", NoReq, 0)) ELSE UNCHANGED wire
  /\ UNCHANGED <<pipe, loop, cache, upsets>>

-----------------------------------------------------------------------------
(* A worker.                                                               *)

Freed(f, r) == [s \in DOMAIN f \ {r} |-> f[s]]
Passes(w, r) == IF r \in DOMAIN slot[w] THEN slot[w][r] ELSE 0
With(f, r, n) == [s \in DOMAIN f \cup {r} |-> IF s = r THEN n ELSE f[s]]

\* Of a lost connection it may still read what has arrived.
Answers(w, m) ==
  IF link[w].open
    THEN link' = [link EXCEPT ![w].out = Tail(@), ![w].in = Append(@, m)]
    ELSE link' = [link EXCEPT ![w].out = Tail(@)]

\* Fault: the slot is not touched.
TouchNever(w, r) == UNCHANGED touched

Touch(w, r) == touched' = [touched EXCEPT ![w] = @ \cup {r}]

\* One message after the other: _handle_forward, _handle_cache_op, _handle_health.
Handle(w) ==
  LET m == Head(link[w].out) IN
  /\ link[w].out # <<>>
  /\ \/ /\ m.kind = "forward"
        /\ slot' = [slot EXCEPT ![w] = With(@, m.req, Passes(w, m.req) + 1)]
        /\ Touch(w, m.req)
        /\ Answers(w, Message("result", m.req, m.pos))
     \/ /\ m.kind = "release"
        /\ slot' = [slot EXCEPT ![w] = Freed(@, m.req)]
        /\ touched' = [touched EXCEPT ![w] = @ \ {m.req}]
        /\ Answers(w, Message("released", m.req, 0))
     \/ /\ m.kind = "health"
        /\ UNCHANGED cache
        /\ Answers(w, m)
  /\ UNCHANGED <<pipe, loop, reader, shaken, beat, upsets>>

\* A handler raises: an error goes back and the connection is closed.
HandlerRaises(w) ==
  LET m == Head(link[w].out) IN
  /\ link[w].open /\ link[w].out # <<>> /\ m.kind = "forward" /\ Upset
  /\ slot' = [slot EXCEPT ![w] = With(@, m.req, Passes(w, m.req))]
  /\ Touch(w, m.req)
  /\ link' = [link EXCEPT ![w] = [open |-> FALSE, out |-> <<>>,
                                  in |-> Append(@.in, Message("error", NoReq, 0))]]
  /\ UNCHANGED <<pipe, loop, reader, shaken, beat>>

\* The connection is lost, with what is on its way or without; or the worker
\* crashes.  Nobody connects again.
Lost(w) ==
  /\ link[w].open /\ Upset
  /\ \E out \in {<<>>, link[w].out}, in \in {<<>>, link[w].in} :
       link' = [link EXCEPT ![w] = [open |-> FALSE, out |-> out, in |-> in]]
  /\ UNCHANGED <<pipe, loop, reader, shaken, cache, beat>>

Crash(w) ==
  /\ link[w].open /\ Upset
  /\ slot' = [slot EXCEPT ![w] = <<>>] /\ touched' = [touched EXCEPT ![w] = {}]
  /\ link' = [link EXCEPT ![w] = [@ EXCEPT !.open = FALSE, !.out = <<>>]]
  /\ UNCHANGED <<pipe, loop, reader, shaken, beat>>

\* _cache_sweeper: a slot nobody touched for ten minutes, which is longer than
\* any pass takes, and as long as the client likes.
Reaps(w, r) ==
  /\ r \in touched[w]
  /\ slot' = [slot EXCEPT ![w] = Freed(@, r)]
  /\ touched' = [touched EXCEPT ![w] = @ \ {r}]
  /\ UNCHANGED <<pipe, lock, current, aborting, wire, beat>>

\* Fault: a slot is reaped while its request is at it.
SweepSoon(w, r) == req[r].pc \in {"forward", "done"} /\ Reaps(w, r) /\ UNCHANGED <<req, upsets>>

Sweep(w, r) == req[r].pc = "done" /\ Reaps(w, r) /\ UNCHANGED <<req, upsets>>
SweepStalled(w, r) ==
  /\ req[r].pc = "yield" /\ Upset
  /\ req' = [req EXCEPT ![r].stalled = TRUE]
  /\ Reaps(w, r)

-----------------------------------------------------------------------------
Loop(r) ==
  \/ Begin(r) \/ Local(r) \/ Forward(r) \/ Resume(r) \/ Release(r) \/ Finish(r)

Coordinator ==
  \/ \E r \in Req : Loop(r)
  \/ \E x \in Party : Read(x) \/ GiveUp(x)
  \/ \E w \in Worker : CheckHealth(w)

Next ==
  \/ Coordinator
  \/ \E r \in Req : Arrive(r) \/ Cancel(r) \/ Abort(r) \/ Close(r) \/ Quit(r)
  \/ \E x \in Party : Drained(x)
  \/ Beats
  \/ \E w \in Worker : Handle(w) \/ HandlerRaises(w) \/ Lost(w) \/ Crash(w)
  \/ \E w \in Worker, r \in Req : Sweep(w, r) \/ SweepStalled(w, r)

Spec == Init /\ [][Next]_vars

\* The coordinator goes on: its clients read or go away, its waits for answers
\* run out.  The sweepers go on.  A connection takes what is written to it, or
\* is lost; the code relies on that.  Of the rest of a worker nothing is assumed.
FairSpec ==
  /\ Spec
  /\ WF_vars(Coordinator)
  /\ WF_vars(\E x \in Party : Drained(x))
  /\ WF_vars(\E w \in Worker, r \in Req : Sweep(w, r))

-----------------------------------------------------------------------------
(* Type invariant. *)
LinkTypeOK ==
  /\ \A r \in Req : /\ req[r].pc \in {"new", "queued", "forward", "yield", "release", "done"}
                    /\ req[r].at \in 0..(Len(pipe) + 1) /\ req[r].pos \in 0..(MaxTok - 1)
                    /\ req[r].todo \subseteq Worker
  /\ \A i, j \in DOMAIN lock : lock[i] = lock[j] => i = j
  /\ current \in Req \cup {NoReq} \cup {<<r>> : r \in Chat} /\ aborting \in Req \cup {NoReq}
  /\ \A w \in Worker : DOMAIN slot[w] \subseteq Req /\ touched[w] \subseteq Req

\* The pass ran every layer of the model once, in order, and for this token.
Complete(r) ==
  /\ \A i \in DOMAIN req[r].pass : req[r].pass[i].req = r /\ req[r].pass[i].pos = req[r].pos
  /\ Partition(req[r].pass, Layers)

(* "Pipeline through each node's layer range in assignment order": a token *)
(* is sampled from hidden states that every layer of the model has seen.   *)
EveryLayerOnce == \A r \in Req : req[r].pc = "yield" => Complete(r)

(* So it is at least when the coordinator's range is the first, or it has  *)
(* none, and no read of a connection was given up, refused or shared       *)
(* before.                                                                 *)
TokensAreOwn ==
  shaken = {} /\ (\A i \in DOMAIN pipe : pipe[i].node = Self => i = 1) => EveryLayerOnce

(* A pass of a request that goes on finds in a worker's slot exactly the   *)
(* passes before it, whatever was given up and whoever read which answer,  *)
(* unless the client let the slot die of age.                              *)
SlotHoldsPrefix ==
  \A w \in Worker :
    LET m == Head(link[w].out) IN
    link[w].open /\ link[w].out # <<>> /\ m.kind = "forward" =>
      \/ m.pos = Passes(w, m.req)
      \/ req[m.req].pc \in {"release", "done"} \/ req[m.req].stalled

(* An abort stops the request it names, or it names a chat.                *)
AbortAims ==
  aborting # NoReq =>
    \/ aborting \in Chat
    \/ req[aborting].pc \in {"forward", "yield", "release", "done"} /\
       \A r \in Req \ {aborting} : req[r].pc \notin {"forward", "yield", "release"}

(* "a wedged worker can't hang the coordinator forever": every request     *)
(* ends, and gives the lock back, even if no worker ever answers again, as *)
(* long as the connections take what is written to them.                   *)
EveryRequestEnds == \A r \in Req : (req[r].pc = "queued") ~> (req[r].pc = "done")

(* No slot outlives its request for ever, however the connection ended.    *)
SlotsFreed == \A r \in Req : <>[](req[r].pc = "done" => \A w \in Worker : r \notin DOMAIN slot[w])
=============================================================================
