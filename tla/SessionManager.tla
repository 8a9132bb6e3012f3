--------------------------- MODULE SessionManager ---------------------------
(***************************************************************************)
(* The desktop panel's sessions and the engine processes behind them       *)
(* (SessionManager, panel/src/main/sessions.ts): start, stop, restart,     *)
(* delete, sleep and wake, the health monitor, and the callbacks of child  *)
(* processes.  Local sessions only.                                        *)
(*                                                                         *)
(* The main process is single-threaded: a step is what runs between two    *)
(* awaits.  The answer of an engine, or of a scan for engines, is taken in *)
(* one step and acted upon in a later one.                                 *)
(***************************************************************************)
EXTENDS Queues

CONSTANTS
  Session,
  NoSession,
  Call,      \* requests of the user or the gateway
  Foreign,   \* sessions whose engine somebody else may start
  Plan,      \* the single-model setting, what each request asks of whom, and
             \* what an earlier run of the panel left behind
  MaxPid,    \* bound on the engine processes: the first may be of an earlier
             \* run, the last by hand or still loading, the panel spawns the others
  MaxUpset   \* bound on the unlikely events

Pid == 1..MaxPid
Op == {"start", "stop", "restart", "delete", "sleep", "wake"}

\* The engine process that was left, if any, and whether the panel adopts it at
\* startup (detectAndAdoptAll) or missed it, as it does one that is loading; a
\* session in error keeps the pid it had.
Left == {e \in [of : Foreign \cup {NoSession}, st : {"booting", "up", "asleep", "gone"},
                how : {"missed", "error", "adopted"}] :
           e.how = "adopted" => e.st \in {"up", "asleep"}}

ASSUME SessionAssumption ==
  /\ IsFiniteSet(Session) /\ IsFiniteSet(Call)
  /\ NoSession \notin Session /\ Foreign \subseteq Session
  /\ Plan \subseteq [single : BOOLEAN, asks : [Call -> Op \X Session], left : Left]
  /\ MaxPid \in Nat \ (0..2) /\ MaxUpset \in Nat

VARIABLES
  single,  \* the single-model setting
  row,     \* per session, status and pid of its database row
  managed, \* processes: what this Electron knows of the session's engine
  engine,  \* the engine processes of the machine
  epoch,   \* lifecycleEpochs
  fence,   \* intentionalStops
  lock,    \* operationLocks: who holds the session's lock, then who waits
  gate,    \* singleModelStartTransitionPending: likewise
  waking,  \* wakePending
  call,    \* where each request is
  mon,     \* where the health monitor is
  upsets   \* unlikely events so far

known == <<row, managed>>
stopVars == <<epoch, fence>>
queues == <<lock, gate>>
vars == <<single, known, engine, stopVars, queues, waking, call, mon, upsets>>

Unmanaged == [kind |-> "none", pid |-> 0, intentional |-> FALSE]
Owns(kind, p) == [kind |-> kind, pid |-> p, intentional |-> FALSE]

\* of: whose model and port it serves; child: spawned by this Electron; told:
\* its exit was reported; since: the epoch of the start that spawned it; swept:
\* handleSessionDown is about to terminate what it detected.
NoEngine == [of |-> NoSession, st |-> "none", child |-> FALSE, told |-> FALSE, since |-> 0,
             swept |-> "no"]

\* op, s: its operation and session; entry: entryEpoch; victim: whom it stops; then: what
\* follows that; pid: the engine it is at; reply: what that answered; found,
\* todo: the engines and sessions it still has to stop.
NoCall == [pc |-> "new", op |-> "start", s |-> NoSession, entry |-> 0, victim |-> NoSession,
           then |-> "done", pid |-> 0, reply |-> "none", found |-> {}, todo |-> {}]

\* s: the session it is at; was: that row as the tick began.
NoTick == [pc |-> "idle", s |-> NoSession, todo |-> {}, rows |-> <<>>, reply |-> "none",
           pid |-> 0]

Live(p) == engine[p].st \in {"booting", "up", "asleep", "waking"}
Present(p) == Live(p) \/ engine[p].st = "dying"
Of(s) == {p \in Pid : engine[p].of = s /\ Present(p)}

\* An engine binds its port once its model is loaded, and answers from then on.
Serves(p) == engine[p].st \in {"up", "asleep", "waking"}
Serving(s) == {p \in Of(s) : Serves(p)}
StatusOf(reply) == IF reply = "up" THEN "running" ELSE "standby"

\* So far no engine was started by hand, none of an earlier run was still
\* loading when the panel started, and handleSessionDown had a pid to signal.
Ordinary == engine[MaxPid].st = "none" /\ \A p \in Pid : engine[p].swept = "no"

Init ==
  /\ \E plan \in Plan :
       LET e == plan.left
           p == IF e.st = "booting" THEN MaxPid ELSE 1
       IN
       /\ single = plan.single
       /\ call = [c \in Call |-> [NoCall EXCEPT !.op = plan.asks[c][1],
                                                 !.s = plan.asks[c][2]]]
       /\ engine = [q \in Pid |-> IF q = p /\ e.of # NoSession
                                    THEN [NoEngine EXCEPT !.of = e.of, !.st = e.st] ELSE NoEngine]
       /\ row = [s \in Session |->
                   IF s # e.of \/ e.how = "missed" THEN [status |-> "stopped", pid |-> 0]
                   ELSE [status |-> IF e.how = "error" THEN "error" ELSE StatusOf(e.st),
                         pid |-> p]]
       /\ managed = [s \in Session |-> IF s = e.of /\ e.how = "adopted" THEN Owns("adopted", p)
                                        ELSE Unmanaged]
  /\ epoch = [s \in Session |-> 0] /\ fence = [s \in Session |-> 0]
  /\ lock = [s \in Session |-> <<>>] /\ gate = <<>>
  /\ waking = {}
  /\ mon = NoTick
  /\ upsets = 0

-----------------------------------------------------------------------------
Upset == upsets < MaxUpset /\ upsets' = upsets + 1

\* db.updateSession; the row of a deleted session is not there.
Update(s, status, p) ==
  row' = IF row[s].status = "deleted" THEN row
         ELSE [row EXCEPT ![s] = [status |-> status, pid |-> p]]
Mark(s, status) == Update(s, status, row[s].pid)
Manage(s, m) == managed' = [managed EXCEPT ![s] = m]

Term(p) == [engine EXCEPT ![p].st = IF Live(p) THEN "dying" ELSE @]
Kill(p) == [engine EXCEPT ![p].st = IF Present(p) THEN "gone" ELSE @]

\* Fault: a process one is not allowed to ask about counted as alive.
AliveByPid(s, p) == {p, managed[s].pid} # {0}

\* isProcessAlive.
Alive(s, p) == \E q \in {p, managed[s].pid} \ {0} : Present(q)

\* A request to the port of a session is answered, or not: that a serving
\* engine does not answer in time is unlikely.
Answers(s, q) ==
  \/ q \in Serving(s) /\ UNCHANGED upsets
  \/ q = 0 /\ Serving(s) = {} /\ UNCHANGED upsets
  \/ q = 0 /\ Serving(s) # {} /\ Upset
ReplyOf(q) == IF q = 0 THEN "none" ELSE engine[q].st

\* detect: whatever process of the session it lists counts as healthy when the
\* session's port answers; its callers take the first.
Detects(s, p, q) == Answers(s, q) /\ p \in IF q = 0 THEN {0} ELSE Of(s)

Asks(c, op) == call[c].pc = "new" /\ call[c].op = op
Goes(c, pc) == call' = [call EXCEPT ![c].pc = pc]
Superseded(c) == call[c].entry # epoch[call[c].s]
Busy(s) == managed[s].kind \in {"child", "adopted"}

\* The call ends, and so does its hold of the transition gate.
Ends(c) ==
  /\ call' = [call EXCEPT ![c] = [NoCall EXCEPT !.pc = "done"]]
  /\ gate' = Without(gate, {c})

Release(s) == lock' = [lock EXCEPT ![s] = Tail(@)]
Holds(c, s) == lock[s] # <<>> /\ Head(lock[s]) = c

-----------------------------------------------------------------------------
(* startSession.                                                           *)

\* From its entry to the first wait.
Enter(c, r) ==
  IF single
    THEN /\ gate' = Append(gate, c) /\ UNCHANGED lock
         /\ call' = [call EXCEPT ![c] = [r EXCEPT !.pc = "gate"]]
  ELSE IF r.entry # epoch[r.s]
    THEN Ends(c) /\ UNCHANGED lock
  ELSE /\ lock' = [lock EXCEPT ![r.s] = Append(@, c)] /\ UNCHANGED gate
       /\ call' = [call EXCEPT ![c] = [r EXCEPT !.pc = "lock"]]

AskStart(c) ==
  LET s == call[c].s IN
  /\ Asks(c, "start")
  /\ Enter(c, [call[c] EXCEPT !.entry = epoch[s]])
  /\ UNCHANGED <<single, known, engine, stopVars, waking, mon, upsets>>

\* Fault: the gate of a later start opened while an earlier one is in transition.
PassGateAtOnce(c) ==
  LET s == call[c].s IN
  /\ call[c].pc = "gate"
  /\ IF Superseded(c) THEN Ends(c) /\ UNCHANGED upsets
     ELSE /\ \E q \in Pid \cup {0} :
               /\ Answers(s, q)
               /\ call' = [call EXCEPT ![c].pc = "prune",
                     ![c].found = {p \in Pid : Present(p)} \ IF q = 0 THEN {} ELSE Of(s)]
          /\ UNCHANGED gate
  /\ UNCHANGED <<single, known, engine, stopVars, lock, waking, mon>>

\* Single-model mode: whatever is detected but the session's own healthy
\* engine has to go.
PassGate(c) ==
  LET s == call[c].s IN
  /\ call[c].pc = "gate" /\ Head(gate) = c
  /\ IF Superseded(c) THEN Ends(c) /\ UNCHANGED upsets
     ELSE /\ \E q \in Pid \cup {0} :
               /\ Answers(s, q)
               /\ call' = [call EXCEPT ![c].pc = "prune",
                     ![c].found = {p \in Pid : Present(p)} \ IF q = 0 THEN {} ELSE Of(s)]
          /\ UNCHANGED gate
  /\ UNCHANGED <<single, known, engine, stopVars, lock, waking, mon>>

\* terminateDetectedLocalEngine: SIGTERM,
Signal(c) ==
  /\ call[c].pc \in {"prune", "port", "purge"} /\ call[c].pid = 0
  /\ \E p \in call[c].found :
       /\ engine' = Term(p)
       /\ call' = [call EXCEPT ![c].pid = p, ![c].found = @ \ {p}]
  /\ UNCHANGED <<single, known, stopVars, queues, waking, mon, upsets>>

\* and 1.5 s later SIGKILL, whatever the owner is doing.
Remove(c) ==
  LET p == call[c].pid IN
  /\ call[c].pc \in {"prune", "port", "purge"} /\ p # 0
  /\ engine' = Kill(p)
  /\ Manage(engine[p].of, Unmanaged)
  /\ Update(engine[p].of, "stopped", 0)
  /\ call' = [call EXCEPT ![c].pid = 0]
  /\ UNCHANGED <<single, stopVars, queues, waking, mon, upsets>>

AtEnd(c, pc) == call[c].pc = pc /\ call[c].found = {} /\ call[c].pid = 0

\* assertNotSuperseded, then adoption scans once more.
Scan(c) ==
  /\ AtEnd(c, "prune")
  /\ IF Superseded(c) THEN Ends(c) /\ UNCHANGED upsets
     ELSE /\ \E p, q \in Pid \cup {0} :
               /\ Detects(call[c].s, p, q)
               /\ call' = [call EXCEPT ![c].pc = "adopt", ![c].pid = p, ![c].reply = ReplyOf(q)]
          /\ UNCHANGED gate
  /\ UNCHANGED <<single, known, engine, stopVars, lock, waking, mon>>

\* adoptDetectedTargetProcessForStart, once it has its answer.
Adopt(c) ==
  LET s == call[c].s
      p == call[c].pid
  IN
  /\ call[c].pc = "adopt"
  /\ IF p # 0
       THEN /\ Update(s, StatusOf(call[c].reply), p) /\ Manage(s, Owns("adopted", p))
            /\ Ends(c)
       ELSE /\ call' = [call EXCEPT ![c].pc = "others",
                          ![c].todo = {t \in Session \ {s} :
                                         row[t].status \in {"running", "loading", "standby"}}]
            /\ UNCHANGED <<known, gate>>
  /\ UNCHANGED <<single, engine, stopVars, lock, waking, mon, upsets>>

\* Fault: a stop that does not raise its fence.
StoppingUnfenced(c, r, s, then) ==
  /\ UNCHANGED fence
  /\ epoch' = [epoch EXCEPT ![s] = @ + 1]
  /\ lock' = [lock EXCEPT ![s] = Append(@, c)]
  /\ call' = [call EXCEPT ![c] = [r EXCEPT !.pc = "stop", !.victim = s, !.then = then,
                                           !.pid = row[s].pid]]

\* stopSession, up to its wait for the lock.  A deleted session throws.
Stopping(c, r, s, then) ==
  /\ fence' = [fence EXCEPT ![s] = @ + 1]
  /\ epoch' = [epoch EXCEPT ![s] = @ + 1]
  /\ lock' = [lock EXCEPT ![s] = Append(@, c)]
  /\ call' = [call EXCEPT ![c] = [r EXCEPT !.pc = "stop", !.victim = s, !.then = then,
                                           !.pid = row[s].pid]]

\* The other sessions are stopped in turn.
StopOthers(c) ==
  /\ call[c].pc = "others"
  /\ \/ \E s \in call[c].todo :
          /\ row[s].status # "deleted"
          /\ Stopping(c, [call[c] EXCEPT !.todo = @ \ {s}], s, "others")
          /\ UNCHANGED gate
     \/ /\ \E s \in call[c].todo : row[s].status = "deleted"
        /\ Ends(c) /\ UNCHANGED <<stopVars, lock>>
     \/ /\ call[c].todo = {}
        /\ Goes(c, "lock") /\ lock' = [lock EXCEPT ![call[c].s] = Append(@, c)]
        /\ UNCHANGED <<stopVars, gate>>
  /\ UNCHANGED <<single, known, engine, waking, mon, upsets>>

\* isPortFree: a dying engine may hold its port to the end, or not.
PortIs(s, free) == IF free THEN Serving(s) = {} ELSE \E p \in Of(s) : engine[p].st # "booting"

\* ensureOwnedSessionPortAvailable: only of a port in use the holder is looked
\* for among the processes, the first of the session; it may be gone by then.
FreePort(c) ==
  LET s == call[c].s IN
  \/ PortIs(s, TRUE) /\ Goes(c, "spawn") /\ UNCHANGED queues
  \/ /\ PortIs(s, FALSE)
     /\ \E p \in Of(s) : call' = [call EXCEPT ![c].pc = "port", ![c].found = {p}]
     /\ UNCHANGED queues
  \/ /\ PortIs(s, FALSE) /\ Serving(s) = {}
     /\ Ends(c) /\ Release(s)

\* Fault: the epoch is not checked again under the lock.
PrepareSuperseded(c) ==
  LET s == call[c].s IN
  /\ call[c].pc = "lock" /\ Holds(c, s)
  /\ IF row[s].status = "deleted" \/ Busy(s)
       THEN Ends(c) /\ Release(s)
       ELSE FreePort(c)
  /\ UNCHANGED <<single, known, engine, stopVars, waking, mon, upsets>>

\* Under the lock: nothing to start, or the port has to be free.
Prepare(c) ==
  LET s == call[c].s IN
  /\ call[c].pc = "lock" /\ Holds(c, s)
  /\ IF Superseded(c) \/ row[s].status = "deleted" \/ Busy(s)
       THEN Ends(c) /\ Release(s)
       ELSE FreePort(c)
  /\ UNCHANGED <<single, known, engine, stopVars, waking, mon, upsets>>

\* Once the holder is terminated the port is tried again.
Recheck(c) ==
  /\ AtEnd(c, "port")
  /\ \/ PortIs(call[c].s, TRUE) /\ Goes(c, "spawn") /\ UNCHANGED queues
     \/ PortIs(call[c].s, FALSE) /\ Ends(c) /\ Release(call[c].s)
  /\ UNCHANGED <<single, known, engine, stopVars, waking, mon, upsets>>

\* The next process, if the bound leaves one.
Fresh == {p \in 2..(MaxPid - 1) : /\ engine[p].st = "none"
                                 /\ \A q \in 2..(p - 1) : engine[q].st # "none"}

\* The engine is spawned, or that fails, or the port was somebody else's.
Spawn(c) ==
  LET s == call[c].s IN
  /\ call[c].pc = "spawn"
  /\ \/ /\ \E p \in Fresh :
             /\ engine' = [engine EXCEPT ![p] = [NoEngine EXCEPT !.of = s, !.st = "booting",
                                                !.child = TRUE, !.since = call[c].entry]]
             /\ Update(s, "loading", p) /\ Manage(s, Owns("child", p))
        /\ Goes(c, "ready")
        /\ UNCHANGED <<queues, upsets>>
     \/ /\ Upset
        /\ \/ Update(s, "error", 0) /\ Manage(s, Unmanaged)
           \/ UNCHANGED known
        /\ Ends(c) /\ Release(s)
        /\ UNCHANGED engine
  /\ UNCHANGED <<single, stopVars, waking, mon>>

\* It was put to sleep before it answered, or its exit was ignored.
Hopeless(s) ==
  \A p \in Pid : engine[p].of = s =>
    /\ engine[p].st \notin {"booting", "up", "dying"}
    /\ engine[p].st = "gone" /\ engine[p].child => engine[p].told

\* Fault: a start that fails keeps the lock.
PollHolding(c) ==
  LET s == call[c].s
      fails == Mark(s, "error") /\ Ends(c) /\ UNCHANGED lock
  IN
  /\ call[c].pc = "ready"
  /\ \/ ~Busy(s) /\ fails /\ UNCHANGED upsets
     \/ /\ Busy(s) /\ \E p \in Of(s) : engine[p].st = "up"
        /\ Goes(c, "answered") /\ UNCHANGED <<row, queues, upsets>>
     \/ Busy(s) /\ Hopeless(s) /\ fails /\ UNCHANGED upsets
     \/ Busy(s) /\ (\A p \in Of(s) : engine[p].st # "dying") /\ Upset /\ fails
  /\ UNCHANGED <<single, managed, engine, stopVars, waking, mon>>

\* waitForReady: the engine is gone, it answered that it is healthy, or the two
\* minutes or more are up (one that was being killed is gone long before).  The
\* engine of a start that ran out of time is left alone.
Poll(c) ==
  LET s == call[c].s
      fails == Mark(s, "error") /\ Ends(c) /\ Release(s)
  IN
  /\ call[c].pc = "ready"
  /\ \/ ~Busy(s) /\ fails /\ UNCHANGED upsets
     \/ /\ Busy(s) /\ \E p \in Of(s) : engine[p].st = "up"
        /\ Goes(c, "answered") /\ UNCHANGED <<row, queues, upsets>>
     \/ Busy(s) /\ Hopeless(s) /\ fails /\ UNCHANGED upsets
     \/ Busy(s) /\ (\A p \in Of(s) : engine[p].st # "dying") /\ Upset /\ fails
  /\ UNCHANGED <<single, managed, engine, stopVars, waking, mon>>

Started(c) ==
  LET s == call[c].s IN
  /\ call[c].pc = "answered"
  /\ Mark(s, "running") /\ Ends(c) /\ Release(s)
  /\ UNCHANGED <<single, managed, engine, stopVars, waking, mon, upsets>>

-----------------------------------------------------------------------------
(* stopSession, restartSession, deleteSession.                             *)

AskStop(c) ==
  LET s == call[c].s IN
  /\ Asks(c, "stop") /\ row[s].status # "deleted"
  /\ Stopping(c, call[c], s, "done")
  /\ UNCHANGED <<single, known, engine, gate, waking, mon, upsets>>

\* The generation of a restart is the epoch its own stop makes.
AskRestart(c) ==
  LET s == call[c].s IN
  /\ Asks(c, "restart") /\ row[s].status # "deleted"
  /\ Stopping(c, [call[c] EXCEPT !.entry = epoch[s] + 1], s, "restart")
  /\ UNCHANGED <<single, known, engine, gate, waking, mon, upsets>>

\* Only a session that is up is stopped first.
AskDelete(c) ==
  LET s == call[c].s IN
  /\ Asks(c, "delete")
  /\ IF row[s].status \in {"running", "loading", "standby"}
       THEN Stopping(c, call[c], s, "delete")
       ELSE /\ call' = [call EXCEPT ![c].pc = "delete"]
            /\ UNCHANGED <<stopVars, lock>>
  /\ UNCHANGED <<single, known, engine, gate, waking, mon, upsets>>

\* Under the lock: the engine it knows, the one the row named when the stop
\* was asked for, or what a scan finds.
StopEngine(c) ==
  LET s == call[c].victim
      p == IF Busy(s) THEN managed[s].pid ELSE call[c].pid
  IN
  /\ call[c].pc = "stop" /\ Holds(c, s)
  /\ managed' = [managed EXCEPT ![s].intentional = managed[s].kind # "none"]
  /\ IF p # 0
       THEN /\ engine' = Term(p)
            /\ call' = [call EXCEPT ![c].pid = p,
                                    ![c].pc = IF Busy(s) THEN managed[s].kind ELSE "leftover"]
       ELSE /\ \E q \in Of(s) \cup {0} :
                 /\ q = 0 => Of(s) = {}
                 /\ call' = [call EXCEPT ![c].pc = "purge", ![c].found = {q} \ {0}]
            /\ UNCHANGED engine
  /\ UNCHANGED <<single, row, stopVars, queues, waking, mon, upsets>>

Stopped(c) ==
  LET s == call[c].victim IN
  /\ Update(s, "stopped", 0)
  /\ fence' = [fence EXCEPT ![s] = @ - 1]
  /\ Release(s)
  /\ call' = [call EXCEPT ![c].pc = call[c].then, ![c].victim = NoSession, ![c].pid = 0]

\* killChildProcess waits for the exit, and no longer than 15 s; of an adopted
\* engine, or one only the row names, there is the signal, and SIGKILL 1.5 s later.
StopKilled(c) ==
  LET s == call[c].victim
      p == call[c].pid
  IN
  /\ call[c].pc \in {"child", "adopted", "leftover"}
  /\ IF call[c].pc = "child"
       THEN /\ \/ engine[p].told /\ UNCHANGED upsets
               \/ ~engine[p].told /\ Upset
            /\ UNCHANGED engine
       ELSE engine' = Kill(p) /\ UNCHANGED upsets
  /\ IF call[c].pc = "leftover" THEN UNCHANGED managed ELSE Manage(s, Unmanaged)
  /\ Stopped(c)
  /\ UNCHANGED <<single, epoch, gate, waking, mon>>

StopPurged(c) ==
  /\ AtEnd(c, "purge")
  /\ Stopped(c)
  /\ UNCHANGED <<single, managed, engine, epoch, gate, waking, mon, upsets>>

Again(c) ==
  /\ call[c].pc = "restart"
  /\ Enter(c, call[c])
  /\ UNCHANGED <<single, known, engine, stopVars, waking, mon, upsets>>

QueueDelete(c) ==
  /\ call[c].pc = "delete"
  /\ Goes(c, "deleting") /\ lock' = [lock EXCEPT ![call[c].s] = Append(@, c)]
  /\ UNCHANGED <<single, known, engine, stopVars, gate, waking, mon, upsets>>

Delete(c) ==
  LET s == call[c].s IN
  /\ call[c].pc = "deleting" /\ Holds(c, s)
  /\ Manage(s, Unmanaged)
  /\ row' = [row EXCEPT ![s] = [status |-> "deleted", pid |-> 0]]
  /\ Ends(c) /\ Release(s)
  /\ UNCHANGED <<single, engine, stopVars, waking, mon, upsets>>

-----------------------------------------------------------------------------
(* softSleep and deepSleep, wakeSession: no lock, no epoch, no fence.      *)

AskSleep(c) ==
  LET s == call[c].s IN
  /\ Asks(c, "sleep")
  /\ row[s].status \in {"running", "standby"}
  /\ call' = [call EXCEPT ![c].pc = "sleep"]
  /\ UNCHANGED <<single, known, engine, stopVars, queues, waking, mon, upsets>>

AskWake(c) ==
  LET s == call[c].s IN
  /\ Asks(c, "wake") /\ row[s].status = "standby"
  /\ waking' = waking \cup {s}
  /\ Mark(s, "loading")
  /\ call' = [call EXCEPT ![c].pc = "wake"]
  /\ UNCHANGED <<single, managed, engine, stopVars, queues, mon, upsets>>

\* The request fails: the engine is not there, refuses or is too slow.
Refused(s) == \/ Serving(s) = {} /\ UNCHANGED upsets
              \/ Upset

Served(c) ==
  LET s == call[c].s IN
  \/ /\ call[c].pc = "sleep"
     /\ \E p \in Of(s) : /\ engine[p].st \in {"up", "asleep"}
                         /\ engine' = [engine EXCEPT ![p].st = "asleep"]
     /\ Goes(c, "slept") /\ UNCHANGED <<queues, upsets>>
  \/ /\ call[c].pc = "sleep" /\ Ends(c) /\ UNCHANGED <<lock, engine>>
     /\ Refused(s)
  \/ /\ call[c].pc = "wake"
     /\ \E p \in Of(s) : /\ engine[p].st = "asleep"
                         /\ engine' = [engine EXCEPT ![p].st = "waking"]
     /\ UNCHANGED <<call, queues, upsets>>
  \/ /\ call[c].pc = "wake" /\ Goes(c, "woken")
     /\ \E p \in Of(s) : engine[p].st = "up"
     /\ UNCHANGED <<engine, queues, upsets>>
  \/ /\ call[c].pc = "wake" /\ Goes(c, "unwoken") /\ UNCHANGED <<engine, queues>>
     /\ Refused(s)

Serve(c) == Served(c) /\ UNCHANGED <<single, known, stopVars, waking, mon>>

\* The answer is acted upon, whatever has become of the session.
Slept(c) ==
  /\ call[c].pc = "slept"
  /\ Mark(call[c].s, "standby") /\ Ends(c)
  /\ UNCHANGED <<single, managed, engine, stopVars, lock, waking, mon, upsets>>

Woken(c) ==
  /\ call[c].pc \in {"woken", "unwoken"}
  /\ waking' = waking \ {call[c].s}
  /\ IF call[c].pc = "woken" THEN UNCHANGED row ELSE Mark(call[c].s, "standby")
  /\ Ends(c)
  /\ UNCHANGED <<single, managed, engine, stopVars, lock, mon, upsets>>

-----------------------------------------------------------------------------
(* The health monitor.  It looks at the rows as they were when its tick    *)
(* began, one after the other, with a request to each engine in between.   *)

Was(s) == mon.rows[s].status
Passed(s) ==
  mon' = IF mon.todo \subseteq {s} THEN NoTick
         ELSE [NoTick EXCEPT !.pc = "next", !.todo = mon.todo \ {s},
                               !.rows = [t \in mon.todo \ {s} |-> mon.rows[t]]]

Tick ==
  LET todo == {s \in Session : row[s].status \in {"running", "loading", "standby"}} IN
  /\ mon.pc = "idle" /\ todo # {}
  /\ mon' = [NoTick EXCEPT !.pc = "next", !.todo = todo, !.rows = [s \in todo |-> row[s]]]
  /\ UNCHANGED <<single, known, engine, stopVars, queues, waking, call, upsets>>

\* Of a session in standby the process is looked for first.
Examine(s) ==
  LET p == mon.rows[s].pid IN
  /\ mon.pc = "next" /\ s \in mon.todo
  /\ IF Was(s) = "standby" /\ (p = 0 \/ ~Alive(s, p))
       THEN /\ IF p = 0 THEN UNCHANGED row ELSE Mark(s, "stopped")
            /\ Passed(s) /\ UNCHANGED upsets
       ELSE /\ \E q \in Pid \cup {0} :
                 Answers(s, q) /\ mon' = [mon EXCEPT !.pc = "answered", !.s = s,
                                                     !.reply = ReplyOf(q)]
            /\ UNCHANGED row
  /\ UNCHANGED <<single, managed, engine, stopVars, queues, waking, call>>

\* What the answer makes of the row.
Healthy ==
  LET s == mon.s
      was == Was(s)
      reply == mon.reply
  IN
  /\ mon.pc = "answered" /\ (reply # "none" \/ was = "standby")
  /\ CASE reply = "up" /\ was # "running" -> Mark(s, "running")
       [] reply = "waking" /\ was = "standby" -> Mark(s, "loading")
       [] reply = "asleep" /\ was = "loading" /\ s \notin waking -> Mark(s, "standby")
       [] reply = "asleep" /\ was = "running" -> Mark(s, "standby")
       [] OTHER -> UNCHANGED row
  /\ Passed(s)
  /\ UNCHANGED <<single, managed, engine, stopVars, queues, waking, call, upsets>>

Fenced(s) == fence[s] > 0 \/ managed[s].intentional

\* Fault: the unresponsive engine is not signalled.
DownOnly(s) ==
  IF ~Fenced(s) /\ row[s].status \in {"running", "loading"}
    THEN /\ UNCHANGED engine
         /\ Manage(s, Unmanaged)
         /\ Update(s, "error", 0)
    ELSE UNCHANGED <<known, engine>>

\* handleSessionDown.  Without a pid it does not wait for the termination of
\* what is detected.
Down(s) ==
  LET p == IF managed[s].pid # 0 THEN managed[s].pid ELSE row[s].pid IN
  IF ~Fenced(s) /\ row[s].status \in {"running", "loading"}
    THEN /\ \/ p # 0 /\ engine' = Term(p)
            \/ /\ p = 0
               /\ \E q \in Of(s) : engine' = [engine EXCEPT ![q].swept = "due"]
            \/ p = 0 /\ Of(s) = {} /\ UNCHANGED engine
         /\ Manage(s, Unmanaged)
         /\ Update(s, "error", 0)
    ELSE UNCHANGED <<known, engine>>

\* No answer: a live engine is given time, until there was none for too long;
\* for a dead one a replacement is looked for (incrementFailAndCheck).
Unhealthy ==
  LET s == mon.s IN
  /\ mon.pc = "answered" /\ mon.reply = "none" /\ Was(s) # "standby"
  /\ \/ /\ \/ Fenced(s) \/ Alive(s, row[s].pid) \/ Alive(s, mon.rows[s].pid)
           \/ row[s].status = "deleted"
        /\ Passed(s) /\ UNCHANGED <<known, engine, upsets>>
     \/ /\ Alive(s, row[s].pid)
        /\ Upset /\ Down(s) /\ Passed(s)
     \/ /\ ~Fenced(s) /\ ~Alive(s, row[s].pid) /\ row[s].status # "deleted"
        /\ \E p, q \in Pid \cup {0} :
             /\ Detects(s, p, q)
             /\ mon' = [mon EXCEPT !.pc = "adopt", !.pid = p, !.reply = ReplyOf(q)]
        /\ UNCHANGED <<known, engine>>
  /\ UNCHANGED <<single, stopVars, queues, waking, call>>

\* adoptHealthyReplacementForSession; without one the session is down, unless
\* it is being stopped by now.
Replace ==
  LET s == mon.s IN
  /\ mon.pc = "adopt"
  /\ IF mon.pid # 0
       THEN /\ Update(s, StatusOf(mon.reply), mon.pid)
            /\ Manage(s, Owns("adopted", mon.pid))
            /\ UNCHANGED engine
       ELSE Down(s)
  /\ Passed(s)
  /\ UNCHANGED <<single, stopVars, queues, waking, call, upsets>>

Monitor ==
  Tick \/ (\E s \in Session : Examine(s)) \/ Healthy \/ Unhealthy \/ Replace

-----------------------------------------------------------------------------
(* Engine processes and what they tell.                                    *)

\* An engine has loaded: it binds its port, or ends when another holds that.
\* (One that is being killed is gone long before.)
Boots(p) ==
  LET others == Of(engine[p].of) \ {p} IN
  /\ engine[p].st = "booting" /\ \A q \in others : engine[q].st # "dying"
  /\ engine' = [engine EXCEPT ![p].st = IF \E q \in others : Serves(q) THEN "gone" ELSE "up"]
  /\ UNCHANGED <<single, known, stopVars, queues, waking, call, mon, upsets>>

\* It finishes waking, or wakes for somebody's request.
Wakes(p) ==
  /\ \/ /\ engine[p].st = "waking" /\ UNCHANGED upsets
        /\ engine' = [engine EXCEPT ![p].st = "up"]
     \/ /\ engine[p].st = "asleep" /\ Upset
        /\ engine' = [engine EXCEPT ![p].st = "waking"]
  /\ UNCHANGED <<single, known, stopVars, queues, waking, call, mon>>

\* Somebody starts an engine by hand, for the model and port of an idle session.
ByHand(s) ==
  /\ s \in Foreign /\ Of(s) = {} /\ lock[s] = <<>>
  /\ engine[1].st = "none" /\ engine[MaxPid].st = "none" /\ Upset
  /\ engine' = [engine EXCEPT ![MaxPid] = [NoEngine EXCEPT !.of = s, !.st = "booting"]]
  /\ UNCHANGED <<single, known, stopVars, queues, waking, call, mon>>

\* It follows its SIGTERM, at the latest when SIGKILL comes, or crashes.
Dies(p) ==
  /\ \/ engine[p].st = "dying" /\ UNCHANGED upsets
     \/ Live(p) /\ Upset
  /\ engine' = [engine EXCEPT ![p].st = "gone"]
  /\ UNCHANGED <<single, known, stopVars, queues, waking, call, mon>>

\* handleSessionDown has detected it: SIGTERM, and 1.5 s later SIGKILL.
Reap(p) ==
  LET s == engine[p].of IN
  /\ engine[p].swept = "due"
  /\ IF Live(p)
       THEN engine' = Term(p) /\ UNCHANGED known
       ELSE /\ engine' = [Kill(p) EXCEPT ![p].swept = "done"]
            /\ Manage(s, Unmanaged)
            /\ Update(s, "stopped", 0)
  /\ UNCHANGED <<single, stopVars, queues, waking, call, mon, upsets>>

\* proc.on('exit'): ignored when somebody else owns the session by now.
Exit(p) ==
  LET s == engine[p].of
      m == managed[s]
      stale == \/ row[s].pid \notin {0, p}
               \/ m.kind # "none" /\ ~(m.kind = "child" /\ m.pid = p)
  IN
  /\ engine[p].child /\ engine[p].st = "gone" /\ ~engine[p].told
  /\ engine' = [engine EXCEPT ![p].told = TRUE]
  /\ IF stale
       THEN UNCHANGED known
       ELSE /\ \E status \in IF Fenced(s) THEN {"stopped"} ELSE {"stopped", "error"} :
                 Update(s, status, 0)
            /\ Manage(s, [Unmanaged EXCEPT !.kind = "exited"])
  /\ UNCHANGED <<single, stopVars, queues, waking, call, mon, upsets>>

\* Five seconds after an exit.
Forget(s) ==
  /\ managed[s].kind = "exited"
  /\ Manage(s, Unmanaged)
  /\ UNCHANGED <<single, row, engine, stopVars, queues, waking, call, mon, upsets>>

-----------------------------------------------------------------------------
Ask(c) ==
  \/ AskStart(c) \/ AskStop(c) \/ AskRestart(c) \/ AskDelete(c)
  \/ AskSleep(c) \/ AskWake(c)

Step(c) ==
  \/ PassGate(c) \/ Signal(c) \/ Remove(c) \/ Scan(c) \/ Adopt(c) \/ StopOthers(c)
  \/ Prepare(c) \/ Recheck(c) \/ Spawn(c) \/ Poll(c) \/ Started(c)
  \/ StopEngine(c) \/ StopKilled(c) \/ StopPurged(c) \/ Again(c)
  \/ QueueDelete(c) \/ Delete(c) \/ Serve(c) \/ Slept(c) \/ Woken(c)

Next ==
  \/ \E c \in Call : Ask(c) \/ Step(c)
  \/ Monitor
  \/ \E p \in Pid : Boots(p) \/ Wakes(p) \/ Dies(p) \/ Reap(p) \/ Exit(p)
  \/ \E s \in Session : Forget(s) \/ ByHand(s)

Spec == Init /\ [][Next]_vars

\* What a request, an engine or a callback does next without anything
\* unlikely happening.
Work ==
  /\ \/ \E c \in Call : Step(c)
     \/ \E p \in Pid : Boots(p) \/ Wakes(p) \/ Dies(p) \/ Reap(p) \/ Exit(p)
     \/ \E s \in Session : Forget(s)
  /\ UNCHANGED upsets

\* Waits end, and the monitor's timer goes on ticking.
FairSpec == Spec /\ WF_vars(Work) /\ WF_vars(Monitor)

-----------------------------------------------------------------------------
Status == {"stopped", "error", "loading", "running", "standby", "deleted"}

(* Type invariant. *)
SessionTypeOK ==
  /\ single \in BOOLEAN
  /\ row \in [Session -> [status : Status, pid : 0..MaxPid]]
  /\ managed \in [Session -> [kind : {"none", "child", "adopted", "exited"}, pid : 0..MaxPid,
                              intentional : BOOLEAN]]
  /\ epoch \in [Session -> Nat] /\ fence \in [Session -> Nat]
  /\ waking \subseteq Session /\ upsets \in 0..MaxUpset

(* An explicit stop wins: when no stop of a session is under way, whatever *)
(* engine was spawned for it belongs to a start asked for after the last.  *)
(* (When engines are started by hand too, the monitor can adopt one in     *)
(* place of a child it took for dead, and the next stop signals that one.) *)
StopWins ==
  Ordinary =>
    \A p \in Pid : LET s == engine[p].of IN
      Live(p) /\ engine[p].child /\ fence[s] = 0 /\ row[s].status # "deleted" =>
        engine[p].since = epoch[s]

(* "a RAM/process contract": in single-model mode the panel never has two  *)
(* engines loaded at once, not even for two sessions started together; and *)
(* no session ever has two, but for those already told to end.  (A start   *)
(* does not see an engine of its session that has not bound its port yet:  *)
(* one by hand, one of an earlier run, one spawned while the monitor is    *)
(* about to terminate what it detected.)                                   *)
OneModel ==
  Ordinary =>
    /\ single => Cardinality({p \in Pid : Live(p)}) <= 1
    /\ \A s \in Session : Cardinality({p \in Of(s) : Live(p)}) <= 1

(* No orphans: the panel knows of every engine it spawned, as long as      *)
(* there is a session to ask it through, and in the ordinary case.         *)
Tracked ==
  Ordinary =>
    \A p \in Pid : LET s == engine[p].of IN
      Live(p) /\ engine[p].child /\ row[s].status # "deleted" =>
        p \in {managed[s].pid, row[s].pid}

(* "A superseded start must do nothing at all": adoption does not mark a   *)
(* session running that was stopped after the start was asked for.         *)
SupersededStartIdle ==
  [][\A c \in Call : call[c].pc = "adopt" /\ call'[c].pc = "done" => ~Superseded(c)]_vars

(* Nobody waits for ever: at the gate, at a lock, for an exit or an answer. *)
EveryCallEnds == []<>(\A c \in Call : call[c].pc \in {"new", "done"})

(* A session that is shown as running or loading has an engine, or will be *)
(* found out.                                                              *)
RowsSettle ==
  []<>(\A s \in Session : row[s].status \in {"running", "loading"} =>
         \E p \in Of(s) : Live(p))
=============================================================================
