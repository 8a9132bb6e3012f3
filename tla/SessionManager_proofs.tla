------------------------ MODULE SessionManager_proofs ------------------------
(***************************************************************************)
(* The panel's promises, for any sessions and requests, any number of      *)
(* engine processes and of upsets: an explicit stop wins, no engine that   *)
(* the panel spawned is lost track of, no session has two engines and in   *)
(* single-model mode no two are loaded at once.                            *)
(***************************************************************************)
EXTENDS SessionManager, Queues_proofs

-----------------------------------------------------------------------------
(* The turns of the requests: who has which lock and who the gate.         *)

StopPc == {"stop", "purge", "child", "adopted", "leftover"}
LockPc == {"lock", "port", "spawn", "ready", "answered", "deleting"}
HoldPc == {"port", "spawn", "ready", "answered", "purge", "child", "adopted", "leftover"}
TransitPc == {"prune", "adopt", "others", "lock", "port", "spawn", "ready", "answered"}
Pc == StopPc \cup LockPc \cup TransitPc
      \cup {"new", "done", "gate", "restart", "delete",
             "sleep", "slept", "wake", "woken", "unwoken"}

EngineSt == {"none", "booting", "up", "asleep", "waking", "dying", "gone"}

CallType == [pc : Pc, op : Op, s : Session \cup {NoSession}, entry : Nat,
             victim : Session \cup {NoSession}, then : {"done", "others", "restart", "delete"},
             pid : 0..MaxPid, reply : EngineSt, found : SUBSET Pid, todo : SUBSET Session]

\* The session whose lock a request has or waits for.
At(r) == IF r.pc \in LockPc THEN r.s ELSE IF r.pc \in StopPc THEN r.victim ELSE NoSession

\* In single-model mode a start is at the gate until it ends, also while it
\* stops another session.
InGate(r) == single /\ (r.pc \in TransitPc \cup {"gate"} \/ (r.pc \in StopPc /\ r.then = "others"))
Transit(r) == InGate(r) /\ r.pc # "gate"

\* A request by itself; m is the setting, ep the epochs.
Shape(r, m, ep) ==
  /\ r.pc # "done" => r.s \in Session /\ r.entry <= ep[r.s]
  /\ r.pc \in StopPc => r.victim \in Session
  /\ ~m => r.pc \notin {"gate", "prune", "adopt", "others"} /\ r.then # "others"
  /\ r.pc \in {"new", "gate", "others", "lock", "restart"} => r.pid = 0

CallsShaped == call \in [Call -> CallType] /\ \A c \in Call : Shape(call[c], single, epoch)

Locks ==
  /\ lock \in [Session -> Seq(Call)]
  /\ \A s \in Session : NoRepeats(lock[s]) /\ Members(lock[s]) = {c \in Call : At(call[c]) = s}
  /\ \A c \in Call : call[c].pc \in HoldPc => lock[At(call[c])][1] = c

Gates ==
  /\ gate \in Seq(Call) /\ NoRepeats(gate)
  /\ Members(gate) = {c \in Call : InGate(call[c])}
  /\ \A c \in Call : Transit(call[c]) => gate[1] = c

StopsOf(s) == {c \in Call : call[c].pc \in StopPc /\ call[c].victim = s}
Fences == \A s \in Session : fence[s] = Cardinality(StopsOf(s))

\* A start that nothing has superseded is behind every stop of its session.
Order ==
  \A s \in Session : \A i, j \in 1..Len(lock[s]) :
    /\ call[lock[s][i]].pc = "lock" /\ call[lock[s][i]].entry = epoch[s]
    /\ call[lock[s][j]].pc \in StopPc
    => j < i

\* What supersedes a start that is past its last check has its fence up.
PortFenced ==
  \A c \in Call : call[c].pc \in {"port", "spawn"} =>
                   call[c].entry = epoch[call[c].s] \/ fence[call[c].s] > 0

TurnInv ==
  /\ single \in BOOLEAN /\ epoch \in [Session -> Nat] /\ fence \in [Session -> Nat]
  /\ CallsShaped /\ Locks /\ Gates /\ Fences /\ Order /\ PortFenced

\* The request c is now as r says.
Moves(c, r) == call' = [call EXCEPT ![c] = r] /\ r \in CallType /\ single' = single
               /\ Shape(r, single', epoch')
LockJoins(c, s) == lock' = [lock EXCEPT ![s] = Append(@, c)]
LockLeaves(s) == lock' = [lock EXCEPT ![s] = Tail(@)]

\* Removing what is not there changes nothing.
LEMMA WithoutAbsent ==
  ASSUME NEW S, NEW q \in Seq(S), NEW c, c \notin Members(q)
  PROVE  Without(q, {c}) = q
<1> DEFINE n == Len(q)
           kept == {i \in 1..n : q[i] \notin {c}}
<1>1. n \in Nat /\ kept = 1..n
  BY DEF Members
<1>2. Cardinality(1..n) = n
  <2>1. n \in Int /\ 1 \in Int
    BY <1>1
  <2>2. Cardinality(1..n) = IF 1 > n THEN 0 ELSE n - 1 + 1
    BY <2>1, FS_Interval, Zenon
  <2>. QED  BY <1>1, <2>2
<1>3. ASSUME NEW k \in 1..n  PROVE Nth(1..n, k) = k
  <2> DEFINE m == Nth(1..n, k)
  <2>1. m \in 1..n /\ Cardinality({j \in 1..n : j <= m}) = k
    BY <1>1, <1>2, NthIsThere
  <2> HIDE DEF m
  <2>2. {j \in 1..n : j <= m} = 1..m
    BY <2>1, <1>1
  <2>3. m \in Int /\ 1 \in Int /\ m >= 1
    BY <2>1
  <2>4. Cardinality(1..m) = IF 1 > m THEN 0 ELSE m - 1 + 1
    BY <2>3, FS_Interval, Zenon
  <2>5. Cardinality(1..m) = m
    BY <2>3, <2>4
  <2>6. Cardinality({j \in 1..n : j <= m}) = k
    BY <2>1
  <2>7. m = k
    BY <2>2, <2>5, <2>6
  <2>. QED  BY <2>7 DEF m
<1>4. Without(q, {c}) = [k \in 1..n |-> q[Nth(1..n, k)]]
  BY <1>1, <1>2 DEF Without
<1>5. Without(q, {c}) = [k \in 1..n |-> q[k]]
  BY <1>3, <1>4
<1>. QED  BY <1>5

\* Where a queue is not empty the members find a place.
LEMMA QueueHead ==
  ASSUME NEW S, NEW q \in Seq(S), q # <<>>, NoRepeats(q)
  PROVE  /\ Head(q) = q[1] /\ q[1] \in S /\ q[1] \in Members(q) /\ 1 \in 1..Len(q)
         /\ Tail(q) \in Seq(S) /\ NoRepeats(Tail(q)) /\ Members(Tail(q)) = Members(q) \ {q[1]}
         /\ Len(Tail(q)) = Len(q) - 1 /\ \A i \in 1..(Len(q) - 1) : Tail(q)[i] = q[i + 1]
<1>1. Head(q) = q[1] /\ 1 \in 1..Len(q) /\ Len(Tail(q)) = Len(q) - 1
      /\ \A i \in 1..(Len(q) - 1) : Tail(q)[i] = q[i + 1]
  BY HeadTailProperties, EmptySeq
<1>2. /\ Head(q) \in S /\ Tail(q) \in Seq(S)
      /\ Members(q) = Members(Tail(q)) \cup {Head(q)}
      /\ NoRepeats(Tail(q)) /\ Head(q) \notin Members(Tail(q))
  BY HeadMembers
<1>. QED  BY <1>1, <1>2

\* A lock that one more waits for.
LEMMA LocksJoin ==
  ASSUME Locks, NEW c \in Call, NEW r, NEW s \in Session,
         call' = [call EXCEPT ![c] = r], call \in [Call -> CallType], LockJoins(c, s),
         At(call[c]) = NoSession, At(r) = s, r.pc \notin HoldPc
  PROVE  Locks'
<1>1. lock \in [Session -> Seq(Call)] /\ lock'[s] = Append(lock[s], c)
      /\ lock' \in [Session -> Seq(Call)]
      /\ \A t \in Session \ {s} : lock'[t] = lock[t]
  BY AppendMembers DEF Locks, LockJoins
<1>2. call'[c] = r /\ \A d \in Call \ {c} : call'[d] = call[d]
  OBVIOUS
<1>3. NoSession \notin Session
  BY SessionAssumption
<1>4. c \notin Members(lock[s])
  BY <1>3 DEF Locks
<1>5. /\ Members(lock'[s]) = Members(lock[s]) \cup {c} /\ NoRepeats(lock'[s])
  BY <1>1, <1>4, AppendMembers DEF Locks
<1>6. ASSUME NEW t \in Session
      PROVE  NoRepeats(lock'[t]) /\ Members(lock'[t]) = {d \in Call : At(call'[d]) = t}
  <2>1. CASE t = s
    BY <2>1, <1>2, <1>5 DEF Locks
  <2>2. CASE t # s
    BY <2>2, <1>1, <1>2, <1>3 DEF Locks
  <2>. QED  BY <2>1, <2>2
<1>7. ASSUME NEW d \in Call, call'[d].pc \in HoldPc  PROVE lock'[At(call'[d])][1] = d
  <2>1. d # c /\ call'[d] = call[d]
    BY <1>2, <1>7
  <2>2. lock[At(call[d])][1] = d
    BY <2>1, <1>7 DEF Locks
  <2> DEFINE t == At(call[d])
  <2>3. CASE t # s
    <3>1. lock'[t] = lock[t]
      BY <2>3 DEF LockJoins, Locks
    <3>. QED  BY <2>1, <2>2, <3>1
  <2>4. CASE t = s
    <3>1. d \in Members(lock[s])
      BY <2>4 DEF Locks
    <3>2. lock[s] \in Seq(Call) /\ Len(lock[s]) # 0
      BY <3>1, <1>1 DEF Members
    <3>3. Append(lock[s], c)[1] = lock[s][1]
      BY <3>2
    <3>. QED  BY <2>1, <2>2, <2>4, <3>3, <1>1
  <2>. QED  BY <2>3, <2>4
<1>. QED  BY <1>1, <1>6, <1>7 DEF Locks

\* A lock that its holder releases.
LEMMA LocksLeave ==
  ASSUME Locks, NEW c \in Call, NEW r, NEW s \in Session,
         call' = [call EXCEPT ![c] = r], call \in [Call -> CallType], LockLeaves(s),
         lock[s] # <<>>, lock[s][1] = c, At(r) = NoSession, r.pc \notin HoldPc
  PROVE  Locks'
<1>1. /\ lock \in [Session -> Seq(Call)] /\ NoRepeats(lock[s])
  BY DEF Locks
<1>2. /\ lock'[s] = Tail(lock[s]) /\ Tail(lock[s]) \in Seq(Call) /\ NoRepeats(lock'[s])
      /\ Members(lock'[s]) = Members(lock[s]) \ {c} /\ c \in Members(lock[s])
      /\ \A t \in Session \ {s} : lock'[t] = lock[t]
  BY <1>1, QueueHead DEF LockLeaves
<1>3. lock' \in [Session -> Seq(Call)]
  BY <1>1, <1>2 DEF LockLeaves
<1>4. call'[c] = r /\ \A d \in Call \ {c} : call'[d] = call[d]
  OBVIOUS
<1>5. NoSession \notin Session /\ At(call[c]) = s
  BY <1>2, SessionAssumption DEF Locks
<1>6. ASSUME NEW t \in Session
      PROVE  NoRepeats(lock'[t]) /\ Members(lock'[t]) = {d \in Call : At(call'[d]) = t}
  <2>1. CASE t = s
    BY <2>1, <1>2, <1>4, <1>5 DEF Locks
  <2>2. CASE t # s
    BY <2>2, <1>2, <1>4, <1>5 DEF Locks
  <2>. QED  BY <2>1, <2>2
<1>7. ASSUME NEW d \in Call, call'[d].pc \in HoldPc  PROVE lock'[At(call'[d])][1] = d
  <2>1. d # c /\ call'[d] = call[d]
    BY <1>4, <1>7
  <2>2. lock[At(call[d])][1] = d
    BY <2>1, <1>7 DEF Locks
  <2>3. At(call[d]) # s
    BY <2>1, <2>2
  <2>4. lock'[At(call[d])] = lock[At(call[d])]
    BY <2>3 DEF LockLeaves, Locks
  <2>. QED  BY <2>1, <2>2, <2>4
<1>. QED  BY <1>3, <1>6, <1>7 DEF Locks

\* Nobody joins or leaves a lock.
LEMMA LocksStay ==
  ASSUME Locks, NEW c \in Call, NEW r, call' = [call EXCEPT ![c] = r], call \in [Call -> CallType],
         lock' = lock, At(r) = At(call[c]), r.pc \in HoldPc => lock[At(r)][1] = c
  PROVE  Locks'
<1>1. call'[c] = r /\ \A d \in Call \ {c} : call'[d] = call[d]
  OBVIOUS
<1>2. \A d \in Call : At(call'[d]) = At(call[d])
  BY <1>1
<1>. QED  BY <1>1, <1>2 DEF Locks

\* The gate: nobody comes or goes,
LEMMA GatesStay ==
  ASSUME Gates, NEW c \in Call, NEW r, call' = [call EXCEPT ![c] = r], call \in [Call -> CallType],
         single' = single, gate' = gate, InGate(r) <=> InGate(call[c]), Transit(r) => gate[1] = c
  PROVE  Gates'
<1>1. call'[c] = r /\ \A d \in Call \ {c} : call'[d] = call[d]
  OBVIOUS
<1>2. \A d \in Call : InGate(call'[d]) <=> InGate(call[d])
  BY <1>1
<1>3. \A d \in Call : Transit(call'[d]) => gate[1] = d
  BY <1>1 DEF Gates
<1>4. \A x : InGate(x)' <=> single' /\ (\/ x.pc \in TransitPc \cup {"gate"}
                                        \/ x.pc \in StopPc /\ x.then = "others")
  BY DEF InGate
<1>. QED  BY <1>2, <1>3 DEF Gates, InGate, Transit

\* one more waits,
LEMMA GatesEnter ==
  ASSUME Gates, NEW c \in Call, NEW r, call' = [call EXCEPT ![c] = r], call \in [Call -> CallType],
         single' = single, gate' = Append(gate, c), ~InGate(call[c]), InGate(r), r.pc = "gate"
  PROVE  Gates'
<1>1. call'[c] = r /\ \A d \in Call \ {c} : call'[d] = call[d]
  OBVIOUS
<1>2. gate \in Seq(Call) /\ NoRepeats(gate) /\ c \notin Members(gate)
  BY DEF Gates
<1>3. /\ gate' \in Seq(Call) /\ NoRepeats(gate') /\ Members(gate') = Members(gate) \cup {c}
  BY <1>2, AppendMembers
<1>4. \A d \in Call : InGate(call'[d]) <=> d = c \/ InGate(call[d])
  BY <1>1
<1>5. ASSUME NEW d \in Call, Transit(call'[d])  PROVE gate'[1] = d
  <2>1. d # c /\ Transit(call[d]) /\ d \in Members(gate)
    BY <1>1, <1>5 DEF Gates, Transit
  <2>2. gate[1] = d /\ Len(gate) # 0
    BY <2>1, <1>2 DEF Gates, Members
  <2>. QED  BY <2>2, <1>2
<1>. QED  BY <1>3, <1>4, <1>5 DEF Gates, InGate, Transit

\* or the first goes, if the one that ends is in it at all.
LEMMA GatesEnd ==
  ASSUME Gates, NEW c \in Call, NEW r, call' = [call EXCEPT ![c] = r], call \in [Call -> CallType],
         single' = single, gate' = Without(gate, {c}), InGate(call[c]) => gate[1] = c, ~InGate(r)
  PROVE  Gates'
<1>1. call'[c] = r /\ \A d \in Call \ {c} : call'[d] = call[d]
  OBVIOUS
<1>2. gate \in Seq(Call) /\ NoRepeats(gate)
  BY DEF Gates
<1>3. gate' \in Seq(Call) /\ NoRepeats(gate') /\ Members(gate') = Members(gate) \ {c}
  BY <1>2, WithoutKeeps
<1>4. \A d \in Call : InGate(call'[d]) <=> d # c /\ InGate(call[d])
  BY <1>1
<1>5. ASSUME NEW d \in Call, Transit(call'[d])  PROVE gate'[1] = d
  <2>1. d # c /\ Transit(call[d])
    BY <1>1, <1>5 DEF Transit
  <2>2. gate[1] = d /\ ~InGate(call[c])
    BY <2>1 DEF Gates
  <2>3. c \notin Members(gate)
    BY <2>2 DEF Gates
  <2>. QED  BY <2>2, <2>3, <1>2, WithoutAbsent
<1>. QED  BY <1>3, <1>4, <1>5 DEF Gates, InGate, Transit

\* The fence counts the stops: none comes or goes,
LEMMA FencesStay ==
  ASSUME Fences, NEW c \in Call, NEW r, call' = [call EXCEPT ![c] = r], call \in [Call -> CallType],
         fence' = fence, r.pc \in StopPc <=> call[c].pc \in StopPc,
         r.pc \in StopPc => r.victim = call[c].victim
  PROVE  Fences'
<1>1. call'[c] = r /\ \A d \in Call \ {c} : call'[d] = call[d]
  OBVIOUS
<1>2. \A s \in Session : StopsOf(s)' = StopsOf(s)
  BY <1>1 DEF StopsOf
<1>. QED  BY <1>2 DEF Fences

\* one more is asked for,
LEMMA FencesUp ==
  ASSUME Fences, NEW c \in Call, NEW r, NEW s \in Session,
         call' = [call EXCEPT ![c] = r], call \in [Call -> CallType], fence \in [Session -> Nat],
         fence' = [fence EXCEPT ![s] = @ + 1], call[c].pc \notin StopPc, r.pc \in StopPc,
         r.victim = s
  PROVE  Fences'
<1>1. call'[c] = r /\ \A d \in Call \ {c} : call'[d] = call[d]
  OBVIOUS
<1>2. StopsOf(s)' = StopsOf(s) \cup {c} /\ c \notin StopsOf(s)
      /\ \A t \in Session \ {s} : StopsOf(t)' = StopsOf(t)
  BY <1>1 DEF StopsOf
<1>3. IsFiniteSet(StopsOf(s))
  BY SessionAssumption, FS_Subset DEF StopsOf
<1>4. Cardinality(StopsOf(s) \cup {c}) = Cardinality(StopsOf(s)) + 1
  BY <1>2, <1>3, FS_AddElement
<1>5. fence'[s] = fence[s] + 1 /\ \A t \in Session \ {s} : fence'[t] = fence[t]
  OBVIOUS
<1>6. fence'[s] = Cardinality(StopsOf(s)')
  BY <1>2, <1>4, <1>5 DEF Fences
<1>7. \A t \in Session \ {s} : fence'[t] = Cardinality(StopsOf(t)')
  BY <1>2, <1>5 DEF Fences
<1>. QED  BY <1>6, <1>7 DEF Fences

\* or one is done.
LEMMA FencesDown ==
  ASSUME Fences, NEW c \in Call, NEW r, NEW s \in Session,
         call' = [call EXCEPT ![c] = r], call \in [Call -> CallType], fence \in [Session -> Nat],
         fence' = [fence EXCEPT ![s] = @ - 1], call[c].pc \in StopPc, call[c].victim = s,
         r.pc \notin StopPc
  PROVE  Fences' /\ fence' \in [Session -> Nat]
<1>1. call'[c] = r /\ \A d \in Call \ {c} : call'[d] = call[d]
  OBVIOUS
<1>2. StopsOf(s)' = StopsOf(s) \ {c} /\ c \in StopsOf(s)
      /\ \A t \in Session \ {s} : StopsOf(t)' = StopsOf(t)
  BY <1>1 DEF StopsOf
<1>3. IsFiniteSet(StopsOf(s))
  BY SessionAssumption, FS_Subset DEF StopsOf
<1>4. Cardinality(StopsOf(s) \ {c}) = Cardinality(StopsOf(s)) - 1
      /\ Cardinality(StopsOf(s) \ {c}) \in Nat
  <2>1. IsFiniteSet(StopsOf(s) \ {c}) /\ Cardinality(StopsOf(s) \ {c}) = Cardinality(StopsOf(s)) - 1
    BY <1>2, <1>3, FS_RemoveElement
  <2>. QED  BY <2>1, FS_CardinalityType
<1>5. fence'[s] = fence[s] - 1 /\ \A t \in Session \ {s} : fence'[t] = fence[t]
  OBVIOUS
<1>6. Fences'
  <2>1. fence'[s] = Cardinality(StopsOf(s)')
    BY <1>2, <1>4, <1>5 DEF Fences
  <2>2. \A t \in Session \ {s} : fence'[t] = Cardinality(StopsOf(t)')
    BY <1>2, <1>5 DEF Fences
  <2>. QED  BY <2>1, <2>2 DEF Fences
<1>7. fence'[s] \in Nat
  BY <1>4, <1>5 DEF Fences
<1>. QED  BY <1>5, <1>6, <1>7

\* The order at the locks, when nobody starts to wait,
LEMMA OrderStay ==
  ASSUME Order, NEW c \in Call, NEW r, call' = [call EXCEPT ![c] = r], call \in [Call -> CallType],
         Locks, lock' = lock, epoch' = epoch, r.pc # "lock",
         r.pc \in StopPc => call[c].pc \in StopPc
  PROVE  Order'
<1>1. call'[c] = r /\ \A d \in Call \ {c} : call'[d] = call[d]
  OBVIOUS
<1>2. \A d \in Call : /\ call'[d].pc = "lock" => call'[d] = call[d]
                      /\ call'[d].pc \in StopPc => call[d].pc \in StopPc
  BY <1>1
<1>3. \A s \in Session : \A i \in 1..Len(lock[s]) : lock[s][i] \in Call
  BY DEF Locks
<1>. QED  BY <1>2, <1>3 DEF Order

\* one goes,
LEMMA OrderLeave ==
  ASSUME Order, NEW c \in Call, NEW r, NEW s \in Session,
         call' = [call EXCEPT ![c] = r], call \in [Call -> CallType],
         Locks, LockLeaves(s), lock[s] # <<>>, epoch' = epoch, r.pc # "lock", r.pc \notin StopPc
  PROVE  Order'
<1>1. call'[c] = r /\ \A d \in Call \ {c} : call'[d] = call[d]
  OBVIOUS
<1>2. \A d \in Call : /\ call'[d].pc = "lock" => call'[d] = call[d]
                      /\ call'[d].pc \in StopPc => call[d].pc \in StopPc
  BY <1>1
<1>3. \A t \in Session : \A i \in 1..Len(lock[t]) : lock[t][i] \in Call
  BY DEF Locks
<1>4. lock[s] \in Seq(Call) /\ NoRepeats(lock[s]) /\ lock'[s] = Tail(lock[s])
      /\ \A t \in Session \ {s} : lock'[t] = lock[t]
  BY DEF Locks, LockLeaves
<1>5. Len(lock'[s]) = Len(lock[s]) - 1
      /\ \A i \in 1..(Len(lock[s]) - 1) : lock'[s][i] = lock[s][i + 1]
  BY <1>4, QueueHead
<1>6. SUFFICES ASSUME NEW t \in Session, NEW i \in 1..Len(lock'[t]), NEW j \in 1..Len(lock'[t]),
                      call'[lock'[t][i]].pc = "lock", call'[lock'[t][i]].entry = epoch[t],
                      call'[lock'[t][j]].pc \in StopPc
               PROVE  j < i
  BY DEF Order
<1>7. CASE t # s
  BY <1>7, <1>6, <1>4, <1>2, <1>3 DEF Order
<1>8. CASE t = s
  <2>1. Len(lock[s]) \in Nat
    BY <1>4
  <2>2. i + 1 \in 1..Len(lock[s]) /\ j + 1 \in 1..Len(lock[s])
        /\ lock'[s][i] = lock[s][i + 1] /\ lock'[s][j] = lock[s][j + 1] /\ i \in Int /\ j \in Int
    BY <1>5, <1>6, <1>8, <2>1
  <2>3. lock[s][i + 1] \in Call /\ lock[s][j + 1] \in Call
    BY <2>2, <1>3
  <2>4. call[lock[s][i + 1]].pc = "lock" /\ call[lock[s][i + 1]].entry = epoch[s]
        /\ call[lock[s][j + 1]].pc \in StopPc
    BY <1>2, <1>6, <1>8, <2>2, <2>3
  <2>5. j + 1 < i + 1
    BY <2>2, <2>4 DEF Order
  <2>. QED  BY <2>2, <2>5
<1>. QED  BY <1>7, <1>8

\* one comes that is not a stop,
LEMMA OrderJoin ==
  ASSUME Order, NEW c \in Call, NEW r, NEW s \in Session,
         call' = [call EXCEPT ![c] = r], call \in [Call -> CallType],
         Locks, LockJoins(c, s), At(call[c]) = NoSession, epoch' = epoch, r.pc \notin StopPc
  PROVE  Order'
<1>1. call'[c] = r /\ \A d \in Call \ {c} : call'[d] = call[d]
  OBVIOUS
<1>2. NoSession \notin Session
  BY SessionAssumption
<1>3. \A t \in Session : \A i \in 1..Len(lock[t]) : lock[t][i] \in Call /\ lock[t][i] # c
  BY <1>2 DEF Locks, Members
<1>4. lock[s] \in Seq(Call) /\ lock'[s] = Append(lock[s], c)
      /\ \A t \in Session \ {s} : lock'[t] = lock[t]
  BY DEF Locks, LockJoins
<1>5. /\ Len(lock[s]) \in Nat /\ Len(lock'[s]) = Len(lock[s]) + 1 /\ lock'[s][Len(lock[s]) + 1] = c
      /\ \A i \in 1..Len(lock[s]) : lock'[s][i] = lock[s][i]
  BY <1>4
<1>6. SUFFICES ASSUME NEW t \in Session, NEW i \in 1..Len(lock'[t]), NEW j \in 1..Len(lock'[t]),
                      call'[lock'[t][i]].pc = "lock", call'[lock'[t][i]].entry = epoch[t],
                      call'[lock'[t][j]].pc \in StopPc
               PROVE  j < i
  BY DEF Order
<1>7. CASE t # s
  BY <1>7, <1>6, <1>4, <1>1, <1>3 DEF Order
<1>8. CASE t = s
  <2>1. j \in 1..Len(lock[s]) /\ lock'[s][j] = lock[s][j] /\ j \in Int /\ i \in Int
    BY <1>1, <1>5, <1>6, <1>8
  <2>2. CASE i = Len(lock[s]) + 1
    BY <2>1, <2>2, <1>5
  <2>3. CASE i \in 1..Len(lock[s])
    <3>1. call[lock[s][i]].pc = "lock" /\ call[lock[s][i]].entry = epoch[s]
          /\ call[lock[s][j]].pc \in StopPc
      BY <2>1, <2>3, <1>1, <1>3, <1>5, <1>6, <1>8, SMTT(40)
    <3>. QED  BY <2>1, <2>3, <3>1 DEF Order
  <2>. QED  BY <2>2, <2>3, <1>5, <1>6, <1>8
<1>. QED  BY <1>7, <1>8

\* or a stop, which supersedes all that wait.
LEMMA OrderStop ==
  ASSUME Order, NEW c \in Call, NEW r, NEW s \in Session,
         call' = [call EXCEPT ![c] = r], call \in [Call -> CallType], CallsShaped,
         Locks, LockJoins(c, s), At(call[c]) = NoSession, r.pc \in StopPc,
         epoch \in [Session -> Nat], epoch' = [epoch EXCEPT ![s] = @ + 1]
  PROVE  Order'
<1>1. call'[c] = r /\ \A d \in Call \ {c} : call'[d] = call[d]
  OBVIOUS
<1>2. NoSession \notin Session
  BY SessionAssumption
<1>3. \A t \in Session : \A i \in 1..Len(lock[t]) : /\ lock[t][i] \in Call /\ lock[t][i] # c
                                                    /\ At(call[lock[t][i]]) = t
  BY <1>2, SMTT(40) DEF Locks, Members
<1>4. lock[s] \in Seq(Call) /\ lock'[s] = Append(lock[s], c)
      /\ \A t \in Session \ {s} : lock'[t] = lock[t]
  BY DEF Locks, LockJoins
<1>5. /\ Len(lock[s]) \in Nat /\ Len(lock'[s]) = Len(lock[s]) + 1 /\ lock'[s][Len(lock[s]) + 1] = c
      /\ \A i \in 1..Len(lock[s]) : lock'[s][i] = lock[s][i]
  BY <1>4
<1>6. SUFFICES ASSUME NEW t \in Session, NEW i \in 1..Len(lock'[t]), NEW j \in 1..Len(lock'[t]),
                      call'[lock'[t][i]].pc = "lock", call'[lock'[t][i]].entry = epoch'[t],
                      call'[lock'[t][j]].pc \in StopPc
               PROVE  j < i
  BY DEF Order
<1>7. CASE t # s
  BY <1>7, <1>6, <1>4, <1>1, <1>3, SMTT(40) DEF Order
<1>8. CASE t = s
  <2>1. i \in 1..Len(lock[s]) /\ lock'[s][i] = lock[s][i]
    BY <1>1, <1>5, <1>6, <1>8 DEF StopPc
  <2> DEFINE d == lock[s][i]
  <2>2. d \in Call /\ d # c /\ At(call[d]) = s /\ call[d].pc = "lock"
    BY <2>1, <1>1, <1>3, <1>6, <1>8
  <2>3. call[d].s = s /\ call[d].entry <= epoch[s] /\ call[d].entry \in Nat
    BY <2>2 DEF At, LockPc, CallsShaped, Shape, CallType
  <2>4. call[d].entry = epoch[s] + 1
    BY <2>1, <2>2, <1>1, <1>6, <1>8
  <2>. QED  BY <2>3, <2>4
<1>. QED  BY <1>7, <1>8

\* Requests stay well-formed when one of them moves and the epochs grow.
LEMMA ShapesKeep ==
  ASSUME TurnInv, NEW c \in Call, NEW r, Moves(c, r),
         \A s \in Session : epoch[s] <= epoch'[s], epoch' \in [Session -> Nat]
  PROVE  CallsShaped'
<1>1. call'[c] = r /\ \A d \in Call \ {c} : call'[d] = call[d]
  BY DEF Moves, TurnInv, CallsShaped
<1>2. call' \in [Call -> CallType]
  BY DEF Moves, TurnInv, CallsShaped
<1>3. ASSUME NEW d \in Call \ {c}  PROVE Shape(call'[d], single', epoch')
  <2>1. Shape(call[d], single, epoch) /\ call[d] \in CallType
    BY DEF TurnInv, CallsShaped
  <2>2. call[d].pc # "done" => call[d].entry <= epoch'[call[d].s]
    <3> SUFFICES ASSUME call[d].pc # "done"  PROVE call[d].entry <= epoch'[call[d].s]
      OBVIOUS
    <3>1. call[d].s \in Session /\ call[d].entry <= epoch[call[d].s] /\ call[d].entry \in Nat
      BY <2>1 DEF Shape, CallType
    <3>2. epoch[call[d].s] \in Nat /\ epoch'[call[d].s] \in Nat
          /\ epoch[call[d].s] <= epoch'[call[d].s]
      BY <3>1 DEF TurnInv
    <3>. QED  BY <3>1, <3>2
  <2>. QED  BY <1>1, <2>1, <2>2 DEF Shape, Moves
<1>4. Shape(call'[c], single', epoch')
  BY <1>1 DEF Moves
<1>. QED  BY <1>2, <1>3, <1>4 DEF CallsShaped

\* A step of a request that stays where it is in every queue.
LEMMA TurnStays ==
  ASSUME TurnInv, NEW c \in Call, NEW r, Moves(c, r),
         UNCHANGED <<epoch, fence, lock, gate>>,
         At(r) = At(call[c]), r.pc \in HoldPc => lock[At(r)][1] = c,
         InGate(r) <=> InGate(call[c]), Transit(r) => gate[1] = c,
         r.pc \in StopPc <=> call[c].pc \in StopPc, r.pc # "lock",
         r.pc \in {"port", "spawn"} => r.entry = epoch[r.s] \/ fence[r.s] > 0
  PROVE  TurnInv'
<1>1. call'[c] = r /\ (\A d \in Call \ {c} : call'[d] = call[d])
      /\ call' = [call EXCEPT ![c] = r] /\ call \in [Call -> CallType] /\ single' = single
  BY DEF Moves, TurnInv, CallsShaped
<1>2. CallsShaped'
  BY ShapesKeep DEF TurnInv
<1>3. Locks'
  BY <1>1, LocksStay DEF TurnInv
<1>4. Gates'
  BY <1>1, GatesStay DEF TurnInv
<1>5. Fences'
  BY <1>1, FencesStay DEF TurnInv, At, StopPc, LockPc
<1>6. Order'
  BY <1>1, OrderStay DEF TurnInv
<1>7. PortFenced'
  BY <1>1 DEF TurnInv, PortFenced
<1>. QED  BY <1>2, <1>3, <1>4, <1>5, <1>6, <1>7 DEF TurnInv, Moves

\* A request that has or waits for no lock ends.
LEMMA TurnEnds ==
  ASSUME TurnInv, NEW c \in Call, Ends(c), UNCHANGED <<single, epoch, fence, lock>>,
         At(call[c]) = NoSession, call[c].pc \notin StopPc, InGate(call[c]) => gate[1] = c
  PROVE  TurnInv'
<1> DEFINE r == [NoCall EXCEPT !.pc = "done"]
<1>1. r \in CallType /\ r.pc = "done" /\ r.then = "done"
  BY SessionAssumption DEF NoCall, CallType, Pc, Op, EngineSt
<1>2. Shape(r, single', epoch') /\ At(r) = NoSession /\ ~InGate(r)
  BY <1>1 DEF Shape, At, InGate, LockPc, StopPc, TransitPc
<1>3. call' = [call EXCEPT ![c] = r] /\ gate' = Without(gate, {c})
  BY DEF Ends
<1> HIDE DEF r
<1>4. Moves(c, r) /\ call \in [Call -> CallType] /\ single' = single
      /\ call'[c] = r /\ \A d \in Call \ {c} : call'[d] = call[d]
  BY <1>1, <1>2, <1>3 DEF Moves, TurnInv, CallsShaped
<1>5. CallsShaped'
  BY <1>4, ShapesKeep DEF TurnInv
<1>6. Locks'
  BY <1>1, <1>2, <1>3, <1>4, LocksStay DEF TurnInv, HoldPc
<1>7. Gates'
  BY <1>2, <1>3, <1>4, GatesEnd DEF TurnInv
<1>8. Fences'
  BY <1>1, <1>3, <1>4, FencesStay DEF TurnInv, StopPc
<1>9. Order'
  BY <1>1, <1>3, <1>4, OrderStay DEF TurnInv, StopPc
<1>10. PortFenced'
  BY <1>1, <1>4 DEF TurnInv, PortFenced
<1>. QED  BY <1>5, <1>6, <1>7, <1>8, <1>9, <1>10 DEF TurnInv

\* The holder of a lock leaves it: one that ends, or that goes on from a stop.
LEMMA TurnLeaves ==
  ASSUME TurnInv, NEW c \in Call, NEW r, NEW s \in Session, Moves(c, r), Release(s),
         UNCHANGED epoch,
         lock[s] # <<>>, lock[s][1] = c, At(r) = NoSession,
         r.pc \notin HoldPc \cup StopPc \cup {"lock"},
         \/ /\ call[c].pc \notin StopPc /\ fence' = fence
            /\ gate' = Without(gate, {c}) /\ ~InGate(r)
         \/ /\ call[c].pc \in StopPc /\ fence' = [fence EXCEPT ![s] = @ - 1]
            /\ gate' = gate /\ (InGate(r) <=> InGate(call[c]))
            /\ Transit(r) => gate[1] = c
  PROVE  TurnInv'
<1>1. call'[c] = r /\ (\A d \in Call \ {c} : call'[d] = call[d])
      /\ call' = [call EXCEPT ![c] = r] /\ call \in [Call -> CallType] /\ single' = single
  BY DEF Moves, TurnInv, CallsShaped
<1>2. CallsShaped'
  BY ShapesKeep DEF TurnInv
<1>3. LockLeaves(s) /\ lock[s] \in Seq(Call) /\ At(call[c]) = s
  <2>1. LockLeaves(s) /\ lock[s] \in Seq(Call) /\ NoRepeats(lock[s])
    BY DEF Release, LockLeaves, TurnInv, Locks
  <2>2. c \in Members(lock[s])
    BY <2>1, QueueHead
  <2>. QED  BY <2>1, <2>2 DEF TurnInv, Locks
<1>4. Locks'
  BY <1>1, <1>3, LocksLeave DEF TurnInv
<1>5. Order'
  BY <1>1, <1>3, OrderLeave DEF TurnInv
<1>6. call[c].pc \in StopPc => call[c].victim = s
  BY <1>3 DEF At, StopPc, LockPc
<1>7. Gates' /\ Fences' /\ fence' \in [Session -> Nat]
  <2>1. CASE call[c].pc \notin StopPc
    <3>1. InGate(call[c]) => gate[1] = c
      <4> SUFFICES ASSUME InGate(call[c])  PROVE gate[1] = c
        OBVIOUS
      <4>1. call[c].pc # "gate"
        BY <1>3, SessionAssumption DEF At, LockPc, StopPc
      <4>. QED  BY <4>1 DEF TurnInv, Gates, Transit
    <3>. QED  BY <2>1, <3>1, <1>1, GatesEnd, FencesStay, ZenonT(90) DEF TurnInv
  <2>2. CASE call[c].pc \in StopPc
    BY <2>2, <1>1, <1>6, GatesStay, FencesDown, ZenonT(90) DEF TurnInv
  <2>. QED  BY <2>1, <2>2
<1>8. PortFenced'
  <2> SUFFICES ASSUME NEW d \in Call, call'[d].pc \in {"port", "spawn"}
               PROVE  call'[d].entry = epoch[call'[d].s] \/ fence'[call'[d].s] > 0
    BY DEF PortFenced
  <2>1. d # c /\ call'[d] = call[d]
    BY <1>1 DEF HoldPc
  <2>2. At(call[d]) = call[d].s /\ lock[At(call[d])][1] = d
    BY <2>1 DEF At, LockPc, TurnInv, Locks, HoldPc
  <2>3. call[d].s # s
    BY <2>1, <2>2
  <2>4. call[d].s \in Session
    BY <2>1 DEF TurnInv, CallsShaped, Shape
  <2>5. fence'[call[d].s] = fence[call[d].s]
    BY <2>3, <2>4 DEF TurnInv
  <2>. QED  BY <2>1, <2>5 DEF TurnInv, PortFenced
<1>. QED  BY <1>2, <1>4, <1>5, <1>7, <1>8 DEF TurnInv, Moves

\* One starts to wait for a lock, not to stop a session,
LEMMA TurnJoins ==
  ASSUME TurnInv, NEW c \in Call, NEW r, NEW s \in Session, Moves(c, r), LockJoins(c, s),
         UNCHANGED <<epoch, fence, gate>>,
         At(call[c]) = NoSession, At(r) = s, r.pc \in {"lock", "deleting"},
         call[c].pc \notin StopPc,
         InGate(r) <=> InGate(call[c]), Transit(r) => gate[1] = c
  PROVE  TurnInv'
<1>1. call'[c] = r /\ (\A d \in Call \ {c} : call'[d] = call[d])
      /\ call' = [call EXCEPT ![c] = r] /\ call \in [Call -> CallType] /\ single' = single
      /\ r.pc \notin HoldPc \cup StopPc \cup {"port", "spawn"}
  BY DEF Moves, TurnInv, CallsShaped, HoldPc, StopPc
<1>2. CallsShaped'
  BY ShapesKeep DEF TurnInv
<1>3. Locks'
  BY <1>1, LocksJoin DEF TurnInv
<1>4. Gates'
  BY <1>1, GatesStay DEF TurnInv
<1>5. Fences'
  BY <1>1, FencesStay DEF TurnInv
<1>6. Order'
  BY <1>1, OrderJoin DEF TurnInv
<1>7. PortFenced'
  BY <1>1 DEF TurnInv, PortFenced
<1>. QED  BY <1>2, <1>3, <1>4, <1>5, <1>6, <1>7 DEF TurnInv, Moves

\* or to stop one,
LEMMA TurnStops ==
  ASSUME TurnInv, NEW c \in Call, NEW r, NEW s \in Session, Moves(c, r), LockJoins(c, s),
         epoch' = [epoch EXCEPT ![s] = @ + 1], fence' = [fence EXCEPT ![s] = @ + 1], gate' = gate,
         At(call[c]) = NoSession, r.pc = "stop", r.victim = s, call[c].pc \notin StopPc,
         InGate(r) <=> InGate(call[c]), Transit(r) => gate[1] = c
  PROVE  TurnInv'
<1>1. call'[c] = r /\ (\A d \in Call \ {c} : call'[d] = call[d])
      /\ call' = [call EXCEPT ![c] = r] /\ call \in [Call -> CallType] /\ single' = single
      /\ r.pc \notin HoldPc /\ r.pc \in StopPc /\ At(r) = s
  BY DEF Moves, TurnInv, CallsShaped, HoldPc, StopPc, At, LockPc
<1>2. /\ epoch' \in [Session -> Nat] /\ fence' \in [Session -> Nat]
      /\ epoch'[s] = epoch[s] + 1 /\ fence'[s] = fence[s] + 1 /\ epoch[s] \in Nat
      /\ fence[s] \in Nat
      /\ \A t \in Session \ {s} : epoch'[t] = epoch[t] /\ fence'[t] = fence[t] /\ epoch[t] \in Nat
  BY DEF TurnInv
<1>3. CallsShaped'
  <2>1. \A t \in Session : epoch[t] <= epoch'[t]
    BY <1>2
  <2>. QED  BY <1>2, <2>1, ShapesKeep
<1>4. Locks'
  BY <1>1, LocksJoin DEF TurnInv
<1>5. Gates'
  BY <1>1, GatesStay DEF TurnInv
<1>6. Fences'
  BY <1>1, FencesUp DEF TurnInv
<1>7. Order'
  BY <1>1, OrderStop DEF TurnInv
<1>8. PortFenced'
  <2> SUFFICES ASSUME NEW d \in Call, call'[d].pc \in {"port", "spawn"}
               PROVE  call'[d].entry = epoch'[call'[d].s] \/ fence'[call'[d].s] > 0
    BY DEF PortFenced
  <2>1. d # c /\ call'[d] = call[d]
    BY <1>1
  <2>2. call[d].s \in Session /\ (call[d].entry = epoch[call[d].s] \/ fence[call[d].s] > 0)
    BY <2>1 DEF TurnInv, CallsShaped, Shape, PortFenced
  <2>. QED  BY <2>1, <2>2, <1>2
<1>. QED  BY <1>2, <1>3, <1>4, <1>5, <1>6, <1>7, <1>8 DEF TurnInv, Moves

\* or at the gate.
LEMMA TurnEnters ==
  ASSUME TurnInv, NEW c \in Call, NEW r, Moves(c, r), gate' = Append(gate, c),
         UNCHANGED <<epoch, fence, lock>>, single,
         At(call[c]) = NoSession, r.pc = "gate", call[c].pc \notin StopPc, ~InGate(call[c])
  PROVE  TurnInv'
<1>1. call'[c] = r /\ (\A d \in Call \ {c} : call'[d] = call[d])
      /\ call' = [call EXCEPT ![c] = r] /\ call \in [Call -> CallType] /\ single' = single
      /\ r.pc \notin HoldPc \cup StopPc /\ InGate(r) /\ At(r) = NoSession
  BY DEF Moves, TurnInv, CallsShaped, HoldPc, StopPc, InGate, At, LockPc
<1>2. CallsShaped'
  BY ShapesKeep DEF TurnInv
<1>3. Locks'
  BY <1>1, LocksStay DEF TurnInv
<1>4. Gates'
  BY <1>1, GatesEnter DEF TurnInv
<1>5. Fences'
  BY <1>1, FencesStay DEF TurnInv
<1>6. Order'
  BY <1>1, OrderStay DEF TurnInv
<1>7. PortFenced'
  BY <1>1 DEF TurnInv, PortFenced
<1>. QED  BY <1>2, <1>3, <1>4, <1>5, <1>6, <1>7 DEF TurnInv, Moves

\* Nothing of the turns changes.
LEMMA TurnIdle ==
  ASSUME TurnInv, UNCHANGED <<single, epoch, fence, lock, gate, call>>
  PROVE  TurnInv'
<1>1. CallsShaped' /\ PortFenced' /\ Fences'
  BY DEF TurnInv, CallsShaped, Shape, PortFenced, Fences, StopsOf
<1>2. Locks' /\ Gates' /\ Order'
  BY DEF TurnInv, Locks, Gates, Order, InGate, Transit
<1>. QED  BY <1>1, <1>2 DEF TurnInv

EngineType == [of : Session \cup {NoSession}, st : EngineSt, child : BOOLEAN, told : BOOLEAN,
               since : Nat, swept : {"no", "due", "done"}]

Spawned == 2..(MaxPid - 1)

EnginesShaped ==
  /\ engine \in [Pid -> EngineType]
  /\ \A p \in Pid : /\ engine[p].st # "none" <=> engine[p].of \in Session
                    /\ engine[p].child <=> p \in Spawned /\ engine[p].st # "none"
                    /\ engine[p].st = "none" => engine[p].swept = "no"
  /\ engine[1].st # "booting"

MonShaped ==
  /\ mon = [pc |-> mon.pc, s |-> mon.s, todo |-> mon.todo, rows |-> mon.rows, reply |-> mon.reply,
            pid |-> mon.pid]
  /\ mon.pc \in {"idle", "next", "answered", "adopt"}
  /\ mon.pc # "idle" => /\ mon.todo \subseteq Session
                        /\ mon.rows \in [mon.todo -> [status : Status, pid : 0..MaxPid]]
  /\ mon.pc \in {"answered", "adopt"} => mon.s \in mon.todo
  /\ mon.pid \in 0..MaxPid /\ mon.reply \in EngineSt

Typed == SessionTypeOK /\ EnginesShaped /\ MonShaped

\* The numbers of processes: the first, the spawned ones, the last.
LEMMA Pids ==
  /\ Pid \cup {0} = 0..MaxPid /\ 0 \notin Pid /\ 1 \in Pid /\ MaxPid \in Pid
  /\ MaxPid \notin Spawned
  /\ Spawned \subseteq Pid /\ 1 \notin Spawned /\ MaxPid # 1
  BY SessionAssumption DEF Pid, Spawned

\* Who holds a lock is the first in its queue,
LEMMA HoldsFirst ==
  ASSUME TurnInv, NEW c \in Call, NEW s \in Session, Holds(c, s)
  PROVE  lock[s] # <<>> /\ lock[s][1] = c
  BY QueueHead DEF Holds, TurnInv, Locks

\* and so is who is at a place behind the lock.
LEMMA HoldingFirst ==
  ASSUME TurnInv, NEW c \in Call, NEW s \in Session, call[c].pc \in HoldPc, At(call[c]) = s
  PROVE  lock[s] # <<>> /\ lock[s][1] = c
<1>1. lock[s][1] = c /\ c \in Members(lock[s])
  BY DEF TurnInv, Locks
<1>. QED  BY <1>1 DEF Members

\* Who may pass the gate is the first in its queue,
LEMMA GateFirst ==
  ASSUME TurnInv, NEW c \in Call, call[c].pc = "gate", Head(gate) = c
  PROVE  gate[1] = c /\ InGate(call[c])
<1>1. single /\ InGate(call[c])
  BY DEF TurnInv, CallsShaped, Shape, InGate
<1>2. c \in Members(gate) /\ gate \in Seq(Call) /\ NoRepeats(gate)
  BY <1>1 DEF TurnInv, Gates
<1>3. gate # <<>>
  BY <1>2 DEF Members
<1>. QED  BY <1>1, <1>2, <1>3, QueueHead

\* and so is a start on its way to the others' stops, which happens in single-
\* model mode only.
LEMMA TransitFirst ==
  ASSUME TurnInv, NEW c \in Call, call[c].pc \in {"prune", "adopt", "others"}
  PROVE  gate[1] = c /\ InGate(call[c]) /\ single /\ call[c].s \in Session
  BY DEF TurnInv, CallsShaped, Shape, InGate, Transit, Gates, TransitPc

\* What a request is.
LEMMA CallFacts ==
  ASSUME TurnInv, NEW c \in Call
  PROVE  call[c] \in CallType /\ Shape(call[c], single, epoch) /\ call \in [Call -> CallType]
  BY DEF TurnInv, CallsShaped

\* What an engine answers, if one does.
LEMMA ReplyType ==
  ASSUME Typed, NEW q \in Pid \cup {0}  PROVE ReplyOf(q) \in EngineSt
<1>1. CASE q = 0
  BY <1>1 DEF ReplyOf, EngineSt
<1>2. CASE q \in Pid
  BY <1>2, Pids DEF ReplyOf, Typed, EnginesShaped, EngineType
<1>. QED  BY <1>1, <1>2

\* The turns are kept by every step, one lemma for each. First those of a start:
\* it joins the gate or its session's lock,
LEMMA EnterTurn ==
  ASSUME TurnInv, NEW c \in Call, NEW r, UNCHANGED <<single, epoch, fence>>, Enter(c, r),
         r \in CallType, call[c].pc \in {"new", "restart"}, r.pc = call[c].pc, r.s \in Session,
         r.then = call[c].then, r.entry <= epoch[r.s], r.pid = 0
  PROVE  TurnInv'
<1>1. At(call[c]) = NoSession /\ ~InGate(call[c]) /\ call[c].pc \notin StopPc
  BY DEF At, InGate, StopPc, LockPc, TransitPc
<1>2. CASE single
  <2> DEFINE x == [r EXCEPT !.pc = "gate"]
  <2>1. Moves(c, x) /\ x.pc = "gate"
    BY <1>2 DEF Enter, Moves, CallType, Pc, Shape, StopPc
  <2> HIDE DEF x
  <2>. QED  BY <1>1, <1>2, <2>1, TurnEnters DEF Enter
<1>3. CASE ~single /\ r.entry # epoch[r.s]
  BY <1>1, <1>3, TurnEnds DEF Enter
<1>4. CASE ~single /\ r.entry = epoch[r.s]
  <2> DEFINE x == [r EXCEPT !.pc = "lock"]
  <2>1. Moves(c, x)
    BY <1>4, CallFacts, ZenonT(90) DEF Enter, Moves, CallType, Pc, Shape, StopPc, LockPc
  <2>2. x.pc = "lock" /\ At(x) = r.s /\ ~InGate(x)
    BY <1>4 DEF At, InGate, LockPc, CallType
  <2>3. LockJoins(c, r.s) /\ gate' = gate
    BY <1>4 DEF Enter, LockJoins
  <2> HIDE DEF x
  <2>4. ~Transit(x)
    BY <2>2 DEF Transit
  <2>. QED  BY <1>1, <2>1, <2>2, <2>3, <2>4, TurnJoins
<1>. QED  BY <1>2, <1>3, <1>4

\* when it is asked for,
LEMMA AskStartTurn ==
  ASSUME TurnInv, NEW c \in Call, AskStart(c)  PROVE TurnInv'
<1> DEFINE r == [call[c] EXCEPT !.entry = epoch[call[c].s]]
<1>1. call[c].s \in Session /\ epoch[call[c].s] \in Nat /\ call[c].pc = "new" /\ call[c].pid = 0
  BY CallFacts DEF AskStart, Asks, Shape, TurnInv
<1>2. r \in CallType /\ r.pc = "new" /\ r.s = call[c].s /\ r.entry = epoch[call[c].s] /\ r.pid = 0
      /\ r.then = call[c].then
  BY <1>1, CallFacts DEF CallType
<1>3. Enter(c, r) /\ UNCHANGED <<single, epoch, fence>>
  BY DEF AskStart, stopVars
<1> HIDE DEF r
<1>. QED  BY <1>1, <1>2, <1>3, EnterTurn

\* or as the second half of a restart;
LEMMA AgainTurn ==
  ASSUME TurnInv, NEW c \in Call, Again(c)  PROVE TurnInv'
<1>1. /\ call[c] \in CallType /\ call[c].pc = "restart" /\ call[c].s \in Session
      /\ call[c].entry <= epoch[call[c].s] /\ call[c].pid = 0
      /\ Enter(c, call[c]) /\ UNCHANGED <<single, epoch, fence>>
  BY CallFacts DEF Again, Shape, stopVars
<1>. QED  BY <1>1, EnterTurn

\* it passes the gate,
LEMMA PassGateTurn ==
  ASSUME TurnInv, NEW c \in Call, PassGate(c)  PROVE TurnInv'
<1>1. gate[1] = c /\ InGate(call[c]) /\ call[c].pc = "gate" /\ call[c].pc \notin StopPc
      /\ At(call[c]) = NoSession /\ single /\ UNCHANGED <<single, epoch, fence, lock>>
  BY GateFirst DEF PassGate, StopPc, At, LockPc, InGate, stopVars
<1>2. CASE Superseded(c)
  BY <1>1, <1>2, TurnEnds DEF PassGate
<1>3. CASE ~Superseded(c)
  <2>1. PICK found \in SUBSET Pid :
          /\ call' = [call EXCEPT ![c].pc = "prune", ![c].found = found]
          /\ gate' = gate
    <3>1. PICK q \in Pid \cup {0} :
            call' = [call EXCEPT ![c].pc = "prune",
                       ![c].found = {p \in Pid : Present(p)} \ IF q = 0 THEN {} ELSE Of(call[c].s)]
      BY <1>3 DEF PassGate
    <3> DEFINE found == {p \in Pid : Present(p)} \ IF q = 0 THEN {} ELSE Of(call[c].s)
    <3>2. found \in SUBSET Pid
      OBVIOUS
    <3>3. call' = [call EXCEPT ![c].pc = "prune", ![c].found = found] /\ gate' = gate
      BY <1>3, <3>1 DEF PassGate
    <3> HIDE DEF found
    <3>. QED  BY <3>2, <3>3
  <2> DEFINE r == [call[c] EXCEPT !.pc = "prune", !.found = found]
  <2>2. Moves(c, r)
    <3>1. r \in CallType
      <4>1. call[c] \in CallType
        BY CallFacts
      <4>2. {"prune", "adopt", "others"} \subseteq Pc
        BY DEF Pc, TransitPc
      <4>. QED  BY <4>1, <4>2, <1>1, <2>1 DEF CallType
    <3>2. call' = [call EXCEPT ![c] = r]
      BY <1>1, <2>1
    <3>3. Shape(r, single', epoch')
      BY <1>1, <3>1, CallFacts DEF CallType, Shape, StopPc
    <3>. QED  BY <1>1, <3>1, <3>2, <3>3 DEF Moves
  <2>3. r.pc = "prune" /\ At(r) = NoSession /\ InGate(r)
    BY <1>1, CallFacts DEF At, InGate, LockPc, StopPc, TransitPc, CallType
  <2> HIDE DEF r
  <2>. QED  BY <1>1, <2>1, <2>2, <2>3, TurnStays DEF HoldPc, StopPc
<1>. QED  BY <1>2, <1>3

\* signals an engine,
LEMMA SignalTurn ==
  ASSUME TurnInv, NEW c \in Call, Signal(c)  PROVE TurnInv'
<1>1. PICK p \in call[c].found : call' = [call EXCEPT ![c].pid = p, ![c].found = @ \ {p}]
  BY DEF Signal
<1>2. UNCHANGED <<single, epoch, fence, lock, gate>> /\ call[c].pc \in {"prune", "port", "purge"}
  BY DEF Signal, stopVars, queues
<1>3. p \in Pid
  BY CallFacts DEF CallType
<1> DEFINE r == [call[c] EXCEPT !.pid = p, !.found = @ \ {p}]
<1>4. Moves(c, r) /\ r.pc = call[c].pc /\ r.s = call[c].s /\ r.victim = call[c].victim
      /\ r.entry = call[c].entry /\ r.then = call[c].then
  BY <1>1, <1>2, <1>3, Pids, CallFacts DEF Moves, CallType, Shape
<1> HIDE DEF r
<1>5. At(r) = At(call[c]) /\ (InGate(r) <=> InGate(call[c])) /\ (Transit(r) <=> Transit(call[c]))
  BY <1>4 DEF At, InGate, Transit
<1>. QED  BY <1>2, <1>4, <1>5, TurnStays DEF TurnInv, Locks, Gates, PortFenced

\* removes it,
LEMMA RemoveTurn ==
  ASSUME TurnInv, NEW c \in Call, Remove(c)  PROVE TurnInv'
<1>1. call' = [call EXCEPT ![c].pid = 0]
  BY DEF Remove
<1>2. UNCHANGED <<single, epoch, fence, lock, gate>> /\ call[c].pc \in {"prune", "port", "purge"}
  BY DEF Remove, stopVars, queues
<1> DEFINE r == [call[c] EXCEPT !.pid = 0]
<1>4. Moves(c, r) /\ r.pc = call[c].pc /\ r.s = call[c].s /\ r.victim = call[c].victim
      /\ r.entry = call[c].entry /\ r.then = call[c].then
  BY <1>1, <1>2, Pids, CallFacts DEF Moves, CallType, Shape
<1> HIDE DEF r
<1>5. At(r) = At(call[c]) /\ (InGate(r) <=> InGate(call[c])) /\ (Transit(r) <=> Transit(call[c]))
  BY <1>4 DEF At, InGate, Transit
<1>. QED  BY <1>2, <1>4, <1>5, TurnStays DEF TurnInv, Locks, Gates, PortFenced

\* looks for its own,
LEMMA ScanTurn ==
  ASSUME TurnInv, Typed, NEW c \in Call, Scan(c)  PROVE TurnInv'
<1>1. gate[1] = c /\ InGate(call[c]) /\ call[c].pc = "prune" /\ call[c].pc \notin StopPc
      /\ At(call[c]) = NoSession /\ single /\ UNCHANGED <<single, epoch, fence, lock>>
  BY TransitFirst DEF Scan, AtEnd, StopPc, At, LockPc, stopVars
<1>2. CASE Superseded(c)
  BY <1>1, <1>2, TurnEnds DEF Scan
<1>3. CASE ~Superseded(c)
  <2>1. PICK p \in Pid \cup {0}, e \in EngineSt :
          /\ call' = [call EXCEPT ![c].pc = "adopt", ![c].pid = p, ![c].reply = e]
          /\ gate' = gate
    <3>1. PICK p, q \in Pid \cup {0} :
            call' = [call EXCEPT ![c].pc = "adopt", ![c].pid = p, ![c].reply = ReplyOf(q)]
      BY <1>3 DEF Scan
    <3>2. ReplyOf(q) \in EngineSt
      BY ReplyType
    <3>. QED  BY <1>3, <3>1, <3>2 DEF Scan
  <2> DEFINE r == [call[c] EXCEPT !.pc = "adopt", !.pid = p, !.reply = e]
  <2>2. Moves(c, r)
    <3>1. r \in CallType
      <4>1. call[c] \in CallType
        BY CallFacts
      <4>2. {"prune", "adopt", "others"} \subseteq Pc
        BY DEF Pc, TransitPc
      <4>. QED  BY <4>1, <4>2, <1>1, <2>1, Pids, ZenonT(60) DEF CallType
    <3>2. call' = [call EXCEPT ![c] = r]
      BY <1>1, <2>1, Pids
    <3>3. Shape(r, single', epoch')
      BY <1>1, <3>1, CallFacts DEF CallType, Shape, StopPc
    <3>. QED  BY <1>1, <3>1, <3>2, <3>3 DEF Moves
  <2>3. r.pc = "adopt" /\ At(r) = NoSession /\ InGate(r)
    BY <1>1, CallFacts DEF At, InGate, LockPc, StopPc, TransitPc, CallType
  <2> HIDE DEF r
  <2>. QED  BY <1>1, <2>1, <2>2, <2>3, TurnStays DEF HoldPc, StopPc
<1>. QED  BY <1>2, <1>3

\* and adopts that one, or turns to the others.
LEMMA AdoptTurn ==
  ASSUME TurnInv, NEW c \in Call, Adopt(c)  PROVE TurnInv'
<1>1. gate[1] = c /\ InGate(call[c]) /\ call[c].pc = "adopt" /\ call[c].pc \notin StopPc
      /\ At(call[c]) = NoSession /\ single /\ UNCHANGED <<single, epoch, fence, lock>>
  BY TransitFirst DEF Adopt, StopPc, At, LockPc, stopVars
<1>2. CASE call[c].pid # 0
  BY <1>1, <1>2, TurnEnds DEF Adopt
<1>3. CASE call[c].pid = 0
  <2> DEFINE todo == {t \in Session \ {call[c].s} :
                        row[t].status \in {"running", "loading", "standby"}}
  <2>1. call' = [call EXCEPT ![c].pc = "others", ![c].todo = todo] /\ gate' = gate
    BY <1>3 DEF Adopt
  <2>2. todo \in SUBSET Session
    OBVIOUS
  <2> DEFINE r == [call[c] EXCEPT !.pc = "others", !.todo = todo]
  <2> HIDE DEF todo
  <2>3. Moves(c, r)
    <3>1. r \in CallType
      <4>1. call[c] \in CallType
        BY CallFacts
      <4>2. {"prune", "adopt", "others"} \subseteq Pc
        BY DEF Pc, TransitPc
      <4>. QED  BY <4>1, <4>2, <1>1, <1>3, <2>1, <2>2 DEF CallType
    <3>2. call' = [call EXCEPT ![c] = r]
      BY <1>1, <1>3, <2>1, <2>2
    <3>3. Shape(r, single', epoch')
      BY <1>1, <1>3, <3>1, CallFacts DEF CallType, Shape, StopPc
    <3>. QED  BY <1>1, <3>1, <3>2, <3>3 DEF Moves
  <2>4. r.pc = "others" /\ At(r) = NoSession /\ InGate(r)
    BY <1>1, CallFacts DEF At, InGate, LockPc, StopPc, TransitPc, CallType
  <2> HIDE DEF r
  <2>. QED  BY <1>1, <2>1, <2>3, <2>4, TurnStays DEF HoldPc, StopPc
<1>. QED  BY <1>2, <1>3

\* A stop is asked for, by itself or by a start.
LEMMA StoppingTurn ==
  ASSUME TurnInv, Typed, NEW c \in Call, NEW r, NEW s \in Session, NEW then,
         Stopping(c, r, s, then), UNCHANGED <<single, gate>>, r \in CallType,
         r.pc = call[c].pc,
         \/ call[c].pc = "new" /\ then \in {"done", "restart", "delete"}
         \/ call[c].pc = "others" /\ then = "others",
         r.s \in Session, r.entry <= epoch'[r.s]
  PROVE  TurnInv'
<1>1. At(call[c]) = NoSession /\ call[c].pc \notin StopPc
  BY DEF At, StopPc, LockPc
<1> DEFINE x == [r EXCEPT !.pc = "stop", !.victim = s, !.then = then, !.pid = row[s].pid]
<1>2. row[s].pid \in 0..MaxPid
  BY DEF Typed, SessionTypeOK
<1>3. ~single => call[c].pc # "others"
  BY CallFacts DEF Shape
<1>4. Moves(c, x) /\ x.pc = "stop" /\ x.victim = s /\ x.then = then /\ x.pc \in StopPc
  BY <1>2, <1>3, CallFacts DEF Stopping, Moves, CallType, Pc, Shape, StopPc
<1>5. /\ LockJoins(c, s) /\ epoch' = [epoch EXCEPT ![s] = @ + 1]
      /\ fence' = [fence EXCEPT ![s] = @ + 1]
  BY DEF Stopping, LockJoins
<1> HIDE DEF x
<1>6. CASE call[c].pc = "new" /\ then \in {"done", "restart", "delete"}
  <2>1. ~InGate(call[c]) /\ ~InGate(x)
    BY <1>4, <1>6 DEF InGate, StopPc, TransitPc
  <2>. QED  BY <1>1, <1>4, <1>5, <2>1, TurnStops DEF Transit
<1>7. CASE call[c].pc = "others" /\ then = "others"
  <2>1. InGate(call[c]) /\ InGate(x) /\ gate[1] = c
    BY <1>3, <1>4, <1>7, TransitFirst DEF InGate, StopPc, TransitPc
  <2>. QED  BY <1>1, <1>4, <1>5, <2>1, TurnStops DEF Transit
<1>. QED  BY <1>6, <1>7

\* Places a request can be that has one place after another by itself.
LEMMA Places == Pc = {"new", "done", "gate", "prune", "adopt", "others", "lock", "port", "spawn",
                      "ready", "answered", "stop", "purge", "child", "adopted", "leftover",
                      "restart",
                      "delete",
                      "deleting", "sleep", "slept", "wake", "woken", "unwoken"}
  BY DEF Pc, StopPc, LockPc, TransitPc

\* The holder of a lock ends.
LEMMA EndsReleasing ==
  ASSUME TurnInv, NEW c \in Call, NEW s \in Session, Ends(c), Release(s),
         UNCHANGED <<single, epoch, fence>>, lock[s] # <<>>, lock[s][1] = c,
         call[c].pc \notin StopPc
  PROVE  TurnInv'
<1> DEFINE r == [NoCall EXCEPT !.pc = "done"]
<1>1. r \in CallType /\ r.pc = "done" /\ r.then = "done"
  BY SessionAssumption DEF NoCall, CallType, Pc, Op, EngineSt
<1>2. call' = [call EXCEPT ![c] = r] /\ gate' = Without(gate, {c})
  BY DEF Ends
<1> HIDE DEF r
<1>3. Moves(c, r) /\ At(r) = NoSession /\ ~InGate(r)
  BY <1>1, <1>2 DEF Moves, Shape, At, InGate, LockPc, StopPc, TransitPc
<1>. QED  BY <1>1, <1>2, <1>3, TurnLeaves DEF HoldPc, StopPc

\* A start stops another session, or comes to its own lock,
LEMMA StopOthersTurn ==
  ASSUME TurnInv, Typed, NEW c \in Call, StopOthers(c)  PROVE TurnInv'
<1>1. /\ call[c].pc = "others" /\ single' = single
      /\ \/ \E s \in call[c].todo :
              /\ Stopping(c, [call[c] EXCEPT !.todo = @ \ {s}], s, "others") /\ gate' = gate
         \/ Ends(c) /\ UNCHANGED <<epoch, fence, lock>>
         \/ /\ call' = [call EXCEPT ![c].pc = "lock"]
            /\ lock' = [lock EXCEPT ![call[c].s] = Append(@, c)]
            /\ UNCHANGED <<epoch, fence, gate>>
  BY DEF StopOthers, Goes, stopVars
<1>2. /\ gate[1] = c /\ InGate(call[c]) /\ single /\ call[c].s \in Session
      /\ At(call[c]) = NoSession /\ call[c].pc \notin StopPc /\ call[c] \in CallType
      /\ call[c].entry <= epoch[call[c].s] /\ call[c].pid = 0
  BY <1>1, TransitFirst, CallFacts DEF At, LockPc, StopPc, Shape
<1>3. ASSUME NEW s \in call[c].todo,
             Stopping(c, [call[c] EXCEPT !.todo = @ \ {s}], s, "others"), gate' = gate
      PROVE  TurnInv'
  <2> DEFINE r == [call[c] EXCEPT !.todo = @ \ {s}]
  <2>1. s \in Session /\ r \in CallType /\ r.pc = call[c].pc /\ r.s = call[c].s
        /\ r.entry = call[c].entry
    BY <1>2 DEF CallType
  <2>2. r.entry <= epoch'[r.s]
    <3>1. epoch' = [epoch EXCEPT ![s] = @ + 1] /\ epoch \in [Session -> Nat]
          /\ call[c].entry \in Nat
      BY <1>2, <1>3 DEF Stopping, TurnInv, CallType
    <3>2. epoch'[call[c].s] \in Nat /\ epoch[call[c].s] \in Nat
          /\ epoch[call[c].s] <= epoch'[call[c].s]
      BY <1>2, <2>1, <3>1
    <3>. QED  BY <1>2, <2>1, <3>1, <3>2
  <2>3. Stopping(c, r, s, "others")
    BY <1>3
  <2> HIDE DEF r
  <2>. QED  BY <1>1, <1>2, <1>3, <2>1, <2>2, <2>3, StoppingTurn
<1>4. CASE Ends(c) /\ UNCHANGED <<epoch, fence, lock>>
  BY <1>1, <1>2, <1>4, TurnEnds
<1>5. CASE /\ call' = [call EXCEPT ![c].pc = "lock"]
           /\ lock' = [lock EXCEPT ![call[c].s] = Append(@, c)]
           /\ UNCHANGED <<epoch, fence, gate>>
  <2> DEFINE r == [call[c] EXCEPT !.pc = "lock"]
  <2>1. /\ r \in CallType /\ call' = [call EXCEPT ![c] = r] /\ r.pc = "lock" /\ r.s = call[c].s
        /\ r.entry = call[c].entry /\ r.pid = 0
    BY <1>2, <1>5, Places DEF CallType
  <2> HIDE DEF r
  <2>2. Moves(c, r) /\ At(r) = call[c].s /\ InGate(r) /\ LockJoins(c, call[c].s)
    BY <1>1, <1>2, <1>5, <2>1 DEF Moves, Shape, At, InGate, LockPc, StopPc, TransitPc, LockJoins
  <2>. QED  BY <1>2, <1>5, <2>1, <2>2, TurnJoins
<1>. QED  BY <1>1, <1>3, <1>4, <1>5

\* gets it,
LEMMA PrepareTurn ==
  ASSUME TurnInv, NEW c \in Call, Prepare(c)  PROVE TurnInv'
<1> DEFINE s == call[c].s
<1>1. /\ call[c].pc = "lock" /\ Holds(c, s) /\ UNCHANGED <<single, epoch, fence>>
      /\ \/ Ends(c) /\ Release(s)
         \/ ~Superseded(c) /\ FreePort(c)
  BY DEF Prepare, stopVars
<1>2. s \in Session /\ call[c] \in CallType /\ call[c].pid = 0 /\ Of(s) \subseteq Pid
  BY <1>1, CallFacts DEF Shape, Of
<1>3. lock[s] # <<>> /\ lock[s][1] = c /\ call[c].pc \notin StopPc /\ At(call[c]) = s
  BY <1>1, <1>2, HoldsFirst DEF StopPc, At, LockPc
<1>4. CASE Ends(c) /\ Release(s)
  BY <1>1, <1>2, <1>3, <1>4, EndsReleasing
<1>5. ASSUME NEW r \in CallType, ~Superseded(c), call' = [call EXCEPT ![c] = r], UNCHANGED queues,
             r.pc \in {"port", "spawn"}, r.s = s, r.entry = call[c].entry, r.then = call[c].then
      PROVE  TurnInv'
  <2>1. Moves(c, r) /\ At(r) = s /\ (InGate(r) <=> single) /\ (InGate(call[c]) <=> single)
    BY <1>1, <1>2, <1>5, CallFacts DEF Moves, Shape, At, InGate, LockPc, StopPc, TransitPc
  <2>2. single => gate[1] = c
    BY <1>1, <2>1 DEF TurnInv, Gates, Transit
  <2>3. r.entry = epoch[r.s] /\ UNCHANGED <<lock, gate>>
    BY <1>5 DEF Superseded, queues
  <2>. QED  BY <1>1, <1>3, <1>5, <2>1, <2>2, <2>3, TurnStays DEF StopPc, Transit
<1>6. CASE ~Superseded(c) /\ FreePort(c)
  <2>1. CASE Goes(c, "spawn") /\ UNCHANGED queues
    <3> DEFINE r == [call[c] EXCEPT !.pc = "spawn"]
    <3>1. /\ r \in CallType /\ call' = [call EXCEPT ![c] = r] /\ r.pc = "spawn" /\ r.s = s
          /\ r.entry = call[c].entry /\ r.then = call[c].then
      BY <1>2, <2>1, Places DEF CallType, Goes
    <3> HIDE DEF r
    <3>. QED  BY <1>5, <1>6, <2>1, <3>1
  <2>2. ASSUME NEW p \in Of(s), call' = [call EXCEPT ![c].pc = "port", ![c].found = {p}],
               UNCHANGED queues
        PROVE  TurnInv'
    <3> DEFINE r == [call[c] EXCEPT !.pc = "port", !.found = {p}]
    <3>1. {p} \in SUBSET Pid
      BY <1>2, <2>2
    <3>2. /\ r \in CallType /\ call' = [call EXCEPT ![c] = r] /\ r.pc = "port" /\ r.s = s
          /\ r.entry = call[c].entry /\ r.then = call[c].then
      BY <1>2, <2>2, <3>1, Places DEF CallType
    <3> HIDE DEF r
    <3>. QED  BY <1>5, <1>6, <2>2, <3>2
  <2>. QED  BY <1>4, <1>6, <2>1, <2>2 DEF FreePort
<1>. QED  BY <1>1, <1>4, <1>6

\* A request that holds its lock goes on, without leaving it.
LEMMA HolderTurn ==
  ASSUME TurnInv, NEW c \in Call, NEW r \in CallType, call' = [call EXCEPT ![c] = r],
         UNCHANGED <<single, epoch, fence, lock, gate>>, r.s = call[c].s, r.entry = call[c].entry,
         r.then = call[c].then, r.victim = call[c].victim,
         \/ call[c].pc \in {"spawn", "ready"} /\ r.pc \in {"ready", "answered"}
         \/ call[c].pc = "port" /\ r.pc = "spawn"
         \/ /\ call[c].pc = "stop" /\ lock[call[c].victim][1] = c
            /\ r.pc \in {"purge", "child", "adopted", "leftover"}
  PROVE  TurnInv'
<1>1. Shape(r, single', epoch') /\ Moves(c, r)
  BY CallFacts DEF Shape, Moves, StopPc
<1>2. At(r) = At(call[c]) /\ (r.pc \in StopPc <=> call[c].pc \in StopPc)
      /\ (InGate(r) <=> InGate(call[c]))
      /\ r.pc \notin {"lock", "port"} /\ (r.pc = "spawn" => call[c].pc = "port")
      /\ (Transit(r) <=> Transit(call[c]))
  BY DEF At, LockPc, StopPc, InGate, TransitPc, Transit
<1>3. lock[At(r)][1] = c
  BY <1>2 DEF TurnInv, Locks, HoldPc, At, LockPc, StopPc
<1>4. Transit(r) => gate[1] = c
  BY <1>2 DEF TurnInv, Gates
<1>5. r.pc = "spawn" => r.entry = epoch[r.s] \/ fence[r.s] > 0
  BY <1>2 DEF TurnInv, PortFenced
<1>. QED  BY <1>1, <1>2, <1>3, <1>4, <1>5, TurnStays

\* tries the port again,
LEMMA RecheckTurn ==
  ASSUME TurnInv, NEW c \in Call, Recheck(c)  PROVE TurnInv'
<1> DEFINE s == call[c].s
<1>1. /\ call[c].pc = "port" /\ UNCHANGED <<single, epoch, fence>>
      /\ \/ call' = [call EXCEPT ![c].pc = "spawn"] /\ UNCHANGED <<lock, gate>>
         \/ Ends(c) /\ Release(s)
  BY DEF Recheck, AtEnd, Goes, stopVars, queues
<1>2. /\ s \in Session /\ call[c] \in CallType /\ lock[s] # <<>> /\ lock[s][1] = c
      /\ call[c].pc \notin StopPc
  <2>1. s \in Session /\ call[c] \in CallType /\ At(call[c]) = s /\ call[c].pc \in HoldPc
    BY <1>1, CallFacts DEF Shape, At, LockPc, HoldPc
  <2>. QED  BY <1>1, <2>1, HoldingFirst DEF StopPc
<1>3. CASE call' = [call EXCEPT ![c].pc = "spawn"] /\ UNCHANGED <<lock, gate>>
  <2> DEFINE r == [call[c] EXCEPT !.pc = "spawn"]
  <2>1. /\ r \in CallType /\ call' = [call EXCEPT ![c] = r] /\ r.pc = "spawn" /\ r.s = call[c].s
        /\ r.entry = call[c].entry /\ r.then = call[c].then /\ r.victim = call[c].victim
    BY <1>2, <1>3, Places DEF CallType
  <2> HIDE DEF r
  <2>. QED  BY <1>1, <1>3, <2>1, HolderTurn
<1>4. CASE Ends(c) /\ Release(s)
  BY <1>1, <1>2, <1>4, EndsReleasing
<1>. QED  BY <1>1, <1>3, <1>4

\* spawns the engine,
LEMMA SpawnTurn ==
  ASSUME TurnInv, NEW c \in Call, Spawn(c)  PROVE TurnInv'
<1> DEFINE s == call[c].s
<1>1. /\ call[c].pc = "spawn" /\ UNCHANGED <<single, epoch, fence>>
      /\ \/ call' = [call EXCEPT ![c].pc = "ready"] /\ UNCHANGED <<lock, gate>>
         \/ Ends(c) /\ Release(s)
  BY DEF Spawn, Goes, stopVars, queues
<1>2. /\ s \in Session /\ call[c] \in CallType /\ lock[s] # <<>> /\ lock[s][1] = c
      /\ call[c].pc \notin StopPc
  <2>1. s \in Session /\ call[c] \in CallType /\ At(call[c]) = s /\ call[c].pc \in HoldPc
    BY <1>1, CallFacts DEF Shape, At, LockPc, HoldPc
  <2>. QED  BY <1>1, <2>1, HoldingFirst DEF StopPc
<1>3. CASE call' = [call EXCEPT ![c].pc = "ready"] /\ UNCHANGED <<lock, gate>>
  <2> DEFINE r == [call[c] EXCEPT !.pc = "ready"]
  <2>1. /\ r \in CallType /\ call' = [call EXCEPT ![c] = r] /\ r.pc = "ready" /\ r.s = call[c].s
        /\ r.entry = call[c].entry /\ r.then = call[c].then /\ r.victim = call[c].victim
    BY <1>2, <1>3, Places DEF CallType
  <2> HIDE DEF r
  <2>. QED  BY <1>1, <1>3, <2>1, HolderTurn
<1>4. CASE Ends(c) /\ Release(s)
  BY <1>1, <1>2, <1>4, EndsReleasing
<1>. QED  BY <1>1, <1>3, <1>4

\* waits for it,
LEMMA PollTurn ==
  ASSUME TurnInv, NEW c \in Call, Poll(c)  PROVE TurnInv'
<1> DEFINE s == call[c].s
<1>1. /\ call[c].pc = "ready" /\ UNCHANGED <<single, epoch, fence>>
      /\ \/ call' = [call EXCEPT ![c].pc = "answered"] /\ UNCHANGED <<lock, gate>>
         \/ Ends(c) /\ Release(s)
  BY DEF Poll, Goes, stopVars, queues
<1>2. /\ s \in Session /\ call[c] \in CallType /\ lock[s] # <<>> /\ lock[s][1] = c
      /\ call[c].pc \notin StopPc
  <2>1. s \in Session /\ call[c] \in CallType /\ At(call[c]) = s /\ call[c].pc \in HoldPc
    BY <1>1, CallFacts DEF Shape, At, LockPc, HoldPc
  <2>. QED  BY <1>1, <2>1, HoldingFirst DEF StopPc
<1>3. CASE call' = [call EXCEPT ![c].pc = "answered"] /\ UNCHANGED <<lock, gate>>
  <2> DEFINE r == [call[c] EXCEPT !.pc = "answered"]
  <2>1. /\ r \in CallType /\ call' = [call EXCEPT ![c] = r] /\ r.pc = "answered" /\ r.s = call[c].s
        /\ r.entry = call[c].entry /\ r.then = call[c].then /\ r.victim = call[c].victim
    BY <1>2, <1>3, Places DEF CallType
  <2> HIDE DEF r
  <2>. QED  BY <1>1, <1>3, <2>1, HolderTurn
<1>4. CASE Ends(c) /\ Release(s)
  BY <1>1, <1>2, <1>4, EndsReleasing
<1>. QED  BY <1>1, <1>3, <1>4

\* and is done.
LEMMA StartedTurn ==
  ASSUME TurnInv, NEW c \in Call, Started(c)  PROVE TurnInv'
<1> DEFINE s == call[c].s
<1>1. call[c].pc = "answered" /\ UNCHANGED <<single, epoch, fence>> /\ Ends(c) /\ Release(s)
  BY DEF Started, stopVars
<1>2. s \in Session /\ At(call[c]) = s /\ call[c].pc \in HoldPc /\ call[c].pc \notin StopPc
  BY <1>1, CallFacts DEF Shape, At, LockPc, HoldPc, StopPc
<1>. QED  BY <1>1, <1>2, HoldingFirst, EndsReleasing

\* A new request begins with a stop:
LEMMA AskStopTurn ==
  ASSUME TurnInv, Typed, NEW c \in Call, NEW r \in CallType,
         NEW then \in {"done", "restart", "delete"},
         call[c].pc = "new", Stopping(c, r, call[c].s, then), UNCHANGED <<single, gate>>,
         r.pc = "new", r.then = call[c].then, r.s = call[c].s,
         r.entry = call[c].entry \/ r.entry = epoch[call[c].s] + 1
  PROVE  TurnInv'
<1>1. call[c].s \in Session /\ call[c].entry <= epoch[call[c].s] /\ call[c].entry \in Nat
  BY CallFacts DEF Shape, CallType
<1>2. epoch'[call[c].s] = epoch[call[c].s] + 1 /\ epoch[call[c].s] \in Nat
  BY <1>1 DEF Stopping, TurnInv
<1>3. r.entry <= epoch'[r.s]
  BY <1>1, <1>2
<1>. QED  BY <1>1, <1>3, StoppingTurn

\* a stop, a restart, or a delete, which may also go without.
LEMMA AsksTurn ==
  ASSUME TurnInv, Typed, NEW c \in Call, AskStop(c) \/ AskRestart(c) \/ AskDelete(c)  PROVE TurnInv'
<1>0. call[c].pc = "new" /\ call[c].s \in Session /\ call[c] \in CallType
      /\ epoch[call[c].s] \in Nat
  BY CallFacts DEF AskStop, AskRestart, AskDelete, Asks, Shape, TurnInv
<1>1. CASE AskStop(c)
  BY <1>0, <1>1, AskStopTurn DEF AskStop
<1>2. CASE AskRestart(c)
  <2> DEFINE r == [call[c] EXCEPT !.entry = epoch[call[c].s] + 1]
  <2>1. r \in CallType /\ r.pc = "new" /\ r.then = call[c].then /\ r.s = call[c].s
        /\ r.entry = epoch[call[c].s] + 1
    BY <1>0 DEF CallType
  <2>2. Stopping(c, r, call[c].s, "restart") /\ UNCHANGED <<single, gate>>
    BY <1>2 DEF AskRestart
  <2> HIDE DEF r
  <2>. QED  BY <1>0, <2>1, <2>2, AskStopTurn
<1>3. CASE AskDelete(c)
  <2>1. CASE Stopping(c, call[c], call[c].s, "delete")
    BY <1>0, <1>3, <2>1, AskStopTurn DEF AskDelete
  <2>2. CASE call' = [call EXCEPT ![c].pc = "delete"] /\ UNCHANGED <<stopVars, lock>>
    <3> DEFINE r == [call[c] EXCEPT !.pc = "delete"]
    <3>1. r \in CallType /\ call' = [call EXCEPT ![c] = r] /\ r.pc = "delete" /\ r.s = call[c].s
          /\ r.entry = call[c].entry /\ r.then = call[c].then
      BY <1>0, <2>2, Places DEF CallType
    <3> HIDE DEF r
    <3>2. Moves(c, r) /\ At(r) = NoSession /\ At(call[c]) = NoSession /\ ~InGate(r)
          /\ ~InGate(call[c])
          /\ UNCHANGED <<single, epoch, fence, lock, gate>>
      BY <1>0, <1>3, <2>2, <3>1, CallFacts
         DEF AskDelete, stopVars, Moves, Shape, At, InGate, LockPc, StopPc, TransitPc
    <3>. QED  BY <1>0, <3>1, <3>2, TurnStays DEF Transit, StopPc, HoldPc
  <2>. QED  BY <1>3, <2>1, <2>2 DEF AskDelete
<1>. QED  BY <1>1, <1>2, <1>3

\* A stop gets the lock,
LEMMA StopEngineTurn ==
  ASSUME TurnInv, Typed, NEW c \in Call, StopEngine(c)  PROVE TurnInv'
<1> DEFINE s == call[c].victim
           p == IF Busy(s) THEN managed[s].pid ELSE call[c].pid
           q == IF Busy(s) THEN managed[s].kind ELSE "leftover"
<1>1. /\ call[c].pc = "stop" /\ Holds(c, s) /\ UNCHANGED <<single, epoch, fence, lock, gate>>
      /\ \/ call' = [call EXCEPT ![c].pid = p, ![c].pc = q]
         \/ \E found \in SUBSET Pid : call' = [call EXCEPT ![c].pc = "purge", ![c].found = found]
  <2>1. \A x \in Of(s) \cup {0} : {x} \ {0} \in SUBSET Pid
    BY DEF Of
  <2>. QED  BY <2>1 DEF StopEngine, stopVars, queues
<1>2. s \in Session /\ call[c] \in CallType
  BY <1>1, CallFacts DEF Shape, StopPc
<1>3. lock[s][1] = c /\ p \in 0..MaxPid /\ q \in {"child", "adopted", "leftover"}
  BY <1>1, <1>2, HoldsFirst DEF Typed, SessionTypeOK, Busy, CallType
<1> HIDE DEF p, q
<1>4. CASE call' = [call EXCEPT ![c].pid = p, ![c].pc = q]
  <2> DEFINE r == [call[c] EXCEPT !.pid = p, !.pc = q]
  <2>1. /\ r \in CallType /\ call' = [call EXCEPT ![c] = r] /\ r.pc = q /\ r.s = call[c].s
        /\ r.entry = call[c].entry /\ r.then = call[c].then /\ r.victim = s
    BY <1>2, <1>3, <1>4, Places DEF CallType
  <2> HIDE DEF r
  <2>. QED  BY <1>1, <1>3, <2>1, HolderTurn
<1>5. ASSUME NEW found \in SUBSET Pid,
             call' = [call EXCEPT ![c].pc = "purge", ![c].found = found]
      PROVE  TurnInv'
  <2> DEFINE r == [call[c] EXCEPT !.pc = "purge", !.found = found]
  <2>1. /\ r \in CallType /\ call' = [call EXCEPT ![c] = r] /\ r.pc = "purge" /\ r.s = call[c].s
        /\ r.entry = call[c].entry /\ r.then = call[c].then /\ r.victim = s
    BY <1>2, <1>3, <1>5, Places DEF CallType
  <2> HIDE DEF r
  <2>. QED  BY <1>1, <1>3, <2>1, HolderTurn
<1>. QED  BY <1>1, <1>4, <1>5

\* and leaves it.
LEMMA StoppedTurn ==
  ASSUME TurnInv, NEW c \in Call, Stopped(c), UNCHANGED <<single, epoch, gate>>,
         call[c].pc \in {"purge", "child", "adopted", "leftover"}
  PROVE  TurnInv'
<1> DEFINE s == call[c].victim
           r == [call[c] EXCEPT !.pc = call[c].then, !.victim = NoSession, !.pid = 0]
<1>1. /\ s \in Session /\ call[c] \in CallType /\ At(call[c]) = s
  BY CallFacts DEF Shape, StopPc, At, LockPc
<1>2. lock[s] # <<>> /\ lock[s][1] = c
  BY <1>1, HoldingFirst DEF HoldPc
<1>3. /\ r \in CallType /\ call' = [call EXCEPT ![c] = r] /\ r.pc = call[c].then /\ r.s = call[c].s
      /\ r.entry = call[c].entry /\ r.then = call[c].then /\ r.pid = 0
      /\ Release(s) /\ fence' = [fence EXCEPT ![s] = @ - 1]
      /\ call[c].then \in {"done", "others", "restart", "delete"}
  BY <1>1, Places, Pids, ZenonT(90) DEF CallType, Stopped
<1> HIDE DEF r
<1>4. Moves(c, r) /\ At(r) = NoSession /\ (InGate(r) <=> InGate(call[c]))
  BY <1>1, <1>3, CallFacts DEF Moves, Shape, At, InGate, LockPc, StopPc, TransitPc
<1>5. Transit(r) => gate[1] = c
  BY <1>4 DEF TurnInv, Gates, Transit
<1>. QED  BY <1>1, <1>2, <1>3, <1>4, <1>5, TurnLeaves DEF HoldPc, StopPc

\* A delete after its stop.
LEMMA DeletesTurn ==
  ASSUME TurnInv, NEW c \in Call, QueueDelete(c) \/ Delete(c)  PROVE TurnInv'
<1>0. call[c].s \in Session /\ call[c] \in CallType
  BY CallFacts DEF QueueDelete, Delete, Shape
<1>1. CASE QueueDelete(c)
  <2> DEFINE r == [call[c] EXCEPT !.pc = "deleting"]
  <2>1. /\ r \in CallType /\ call' = [call EXCEPT ![c] = r] /\ r.pc = "deleting" /\ r.s = call[c].s
        /\ r.entry = call[c].entry /\ r.then = call[c].then /\ call[c].pc = "delete"
        /\ LockJoins(c, call[c].s) /\ UNCHANGED <<single, epoch, fence, gate>>
    BY <1>0, <1>1, Places DEF CallType, QueueDelete, Goes, LockJoins, stopVars
  <2> HIDE DEF r
  <2>2. Moves(c, r) /\ At(r) = call[c].s /\ At(call[c]) = NoSession /\ ~InGate(r)
        /\ ~InGate(call[c])
    BY <1>0, <2>1, CallFacts DEF Moves, Shape, At, InGate, LockPc, StopPc, TransitPc
  <2>. QED  BY <1>0, <2>1, <2>2, TurnJoins DEF Transit, StopPc
<1>2. CASE Delete(c)
  <2>1. Holds(c, call[c].s) /\ Ends(c) /\ Release(call[c].s) /\ UNCHANGED <<single, epoch, fence>>
        /\ call[c].pc \notin StopPc
    BY <1>2 DEF Delete, stopVars, StopPc
  <2>. QED  BY <1>0, <2>1, HoldsFirst, EndsReleasing
<1>. QED  BY <1>1, <1>2

NapPc == {"sleep", "slept", "wake", "woken", "unwoken"}

\* Sleep and wake take part in no queue.
LEMMA NapsTurn ==
  ASSUME TurnInv, NEW c \in Call,
         AskSleep(c) \/ AskWake(c) \/ Serve(c) \/ Slept(c) \/ Woken(c)
  PROVE  TurnInv'
<1>1. /\ call[c].pc \in {"new"} \cup NapPc /\ UNCHANGED <<single, epoch, fence, lock>>
      /\ \/ \E pc \in NapPc : call' = [call EXCEPT ![c].pc = pc] /\ gate' = gate
         \/ UNCHANGED <<call, gate>>
         \/ Ends(c)
  BY DEF AskSleep, AskWake, Serve, Served, Slept, Woken, Asks, Goes, NapPc, stopVars, queues
<1>2. /\ At(call[c]) = NoSession /\ call[c].pc \notin StopPc /\ ~InGate(call[c])
      /\ call[c].s \in Session /\ call[c] \in CallType
  BY <1>1, CallFacts DEF At, StopPc, LockPc, InGate, TransitPc, NapPc, Shape
<1>3. ASSUME NEW pc \in NapPc, call' = [call EXCEPT ![c].pc = pc], gate' = gate  PROVE TurnInv'
  <2> DEFINE r == [call[c] EXCEPT !.pc = pc]
  <2>1. r \in CallType /\ call' = [call EXCEPT ![c] = r] /\ r.pc = pc /\ r.s = call[c].s
        /\ r.entry = call[c].entry /\ r.then = call[c].then
    BY <1>2, <1>3, Places DEF CallType, NapPc
  <2> HIDE DEF r
  <2>2. Moves(c, r) /\ At(r) = NoSession /\ ~InGate(r)
        /\ r.pc \notin StopPc \cup HoldPc \cup {"lock", "port", "spawn"}
    BY <1>1, <1>2, <2>1, CallFacts
       DEF Moves, Shape, At, InGate, LockPc, StopPc, TransitPc, NapPc, HoldPc
  <2>. QED  BY <1>1, <1>2, <1>3, <2>1, <2>2, TurnStays DEF Transit
<1>4. CASE UNCHANGED <<call, gate>>
  BY <1>1, <1>4, TurnIdle
<1>5. CASE Ends(c)
  BY <1>1, <1>2, <1>5, TurnEnds
<1>. QED  BY <1>1, <1>3, <1>4, <1>5

\* So every step keeps the turns,
LEMMA TurnNext ==
  ASSUME TurnInv, Typed, [Next]_vars  PROVE TurnInv'
<1>1. CASE UNCHANGED vars
  BY <1>1, TurnIdle DEF vars, stopVars, queues
<1>2. ASSUME NEW c \in Call, Ask(c)  PROVE TurnInv'
  BY <1>2, AskStartTurn, AsksTurn, NapsTurn DEF Ask
<1>3. ASSUME NEW c \in Call, Step(c)  PROVE TurnInv'
  <2>1. CASE StopKilled(c) \/ StopPurged(c)
    BY <2>1, StoppedTurn DEF StopKilled, StopPurged, AtEnd
  <2>. QED
    BY <1>3, <2>1, PassGateTurn, SignalTurn, RemoveTurn, ScanTurn, AdoptTurn, StopOthersTurn,
       PrepareTurn, RecheckTurn, SpawnTurn, PollTurn, StartedTurn, StopEngineTurn, AgainTurn,
       DeletesTurn, NapsTurn DEF Step
<1>4. ASSUME \/ Monitor \/ \E p \in Pid : Boots(p) \/ Wakes(p) \/ Dies(p) \/ Reap(p) \/ Exit(p)
             \/ \E s \in Session : Forget(s) \/ ByHand(s)
      PROVE  TurnInv'
  <2>1. UNCHANGED <<single, epoch, fence, lock, gate, call>>
    BY <1>4 DEF Monitor, Tick, Examine, Healthy, Unhealthy, Replace, Boots, Wakes, Dies, Reap, Exit,
                Forget, ByHand, stopVars, queues
  <2>. QED  BY <2>1, TurnIdle
<1>. QED  BY <1>1, <1>2, <1>3, <1>4 DEF Next

\* which hold as the panel comes up.
LEMMA TurnInit ==
  ASSUME Init  PROVE TurnInv
<1>1. /\ epoch = [s \in Session |-> 0] /\ fence = [s \in Session |-> 0]
      /\ lock = [s \in Session |-> <<>>] /\ gate = <<>>
  BY DEF Init
<1>2. PICK plan \in Plan :
        /\ single = plan.single
        /\ call = [c \in Call |-> [NoCall EXCEPT !.op = plan.asks[c][1], !.s = plan.asks[c][2]]]
  BY DEF Init
<1>3. plan.single \in BOOLEAN /\ \A c \in Call : plan.asks[c] \in Op \X Session
  BY SessionAssumption
<1>4. \A c \in Call : plan.asks[c][1] \in Op /\ plan.asks[c][2] \in Session
  BY <1>3
<1>5. \A c \in Call : /\ call[c] \in CallType /\ call[c].pc = "new" /\ call[c].s \in Session
                      /\ call[c].entry = 0
                      /\ call[c].then = "done" /\ call[c].pid = 0
  BY <1>2, <1>4, Places, Pids DEF NoCall, CallType, EngineSt
<1>6. CallsShaped
  <2>1. call \in [Call -> CallType]
    BY <1>2, <1>5
  <2>2. \A c \in Call : Shape(call[c], single, epoch)
    BY <1>1, <1>5 DEF Shape, StopPc
  <2>. QED  BY <2>1, <2>2 DEF CallsShaped
<1>7. \A c \in Call : /\ At(call[c]) = NoSession /\ ~InGate(call[c])
                      /\ call[c].pc \notin StopPc \cup HoldPc
  BY <1>5 DEF At, InGate, StopPc, LockPc, HoldPc, TransitPc
<1>8. <<>> \in Seq(Call) /\ Len(<<>>) = 0 /\ NoSession \notin Session
  BY SessionAssumption
<1>9. Members(<<>>) = {} /\ NoRepeats(<<>>)
  BY <1>8 DEF Members, NoRepeats
<1>10. Locks /\ Gates
  BY <1>1, <1>7, <1>8, <1>9 DEF Locks, Gates, Transit
<1>11. \A s \in Session : StopsOf(s) = {}
  BY <1>7 DEF StopsOf
<1>12. Fences
  BY <1>1, <1>11, FS_EmptySet DEF Fences
<1>13. Order /\ PortFenced
  BY <1>1, <1>5, <1>8 DEF Order, PortFenced
<1>. QED  BY <1>1, <1>2, <1>3, <1>6, <1>10, <1>12, <1>13 DEF TurnInv

-----------------------------------------------------------------------------
(* The engines, and who knows of them.                                     *)

LiveChild(p) == Live(p) /\ engine[p].child

\* The engines a request is yet to signal or to remove.
Reach(r) == (r.found \cup {r.pid}) \ {0}

There(s) == row[s].status # "deleted"

\* A session has one engine loaded, and nothing else once that one serves,
OneEach ==
  Ordinary => \A p, q \in Pid :
                engine[p].of = engine[q].of /\ Live(q)
                /\ (Live(p) \/ (Serves(q) /\ Present(p))) => p = q

\* none of its own beside one of an earlier run,
NotBeside == Ordinary /\ Live(1) => \A p \in Spawned : engine[p].of # engine[1].of

\* and one that is ending only while a start waits for the next.
Waiting(s) == \E c \in Call : call[c].pc = "ready" /\ call[c].s = s
Overlaps(s) ==
  /\ Ordinary /\ There(s)
  /\ \E p, q \in Pid : /\ engine[p].of = s /\ engine[p].st = "dying"
                       /\ engine[q].of = s /\ Live(q)
Replaced(s) == Overlaps(s) => Waiting(s)

\* In single-model mode one is loaded at all.
Solo == Ordinary /\ single => \A p, q \in Pid : Live(p) /\ Live(q) => p = q

\* The engine a request is at serves the session the request is about.
Aims(r) ==
  /\ r.pc = "port" => \A p \in Reach(r) : engine[p].of = r.s
  /\ r.pc = "purge" => \A p \in Reach(r) : engine[p].of = r.victim
  /\ r.pc \in {"stop", "child", "adopted", "leftover"} /\ r.pid # 0 => engine[r.pid].of = r.victim
  /\ r.pc \in {"child", "adopted", "leftover"} => r.pid # 0
  /\ r.pc = "prune" => \A p \in Reach(r) : engine[p].st # "none"
  /\ r.pc = "adopt" /\ r.pid # 0 => engine[r.pid].of = r.s

\* A start spawns where no engine is loaded: only one of an earlier run can have
\* been on the port.
Vacant(r) ==
  Ordinary /\ r.pc \in {"port", "spawn"} =>
    \A p \in Pid : Live(p) /\ engine[p].of = r.s => r.pc = "port" /\ p = 1

\* In single-model mode it leaves no other engine loaded.
Alone(r) ==
  r.pc \in {"adopt", "others", "lock", "port", "spawn"} \/ (r.pc \in StopPc /\ r.then = "others")
Prunes(r) ==
  Ordinary /\ single => \A p \in Pid : Live(p) =>
                          /\ r.pc = "prune" => p \in Reach(r) \cup Of(r.s)
                          /\ Alone(r) => p \in Of(r.s)

\* Removing or adopting an engine, none other of its session is loaded.
Clean(r) ==
  Ordinary /\ r.pc \in {"prune", "port", "purge", "adopt"} =>
    \A p \in Reach(r), q \in Pid :
      Live(q) /\ engine[q].of = engine[p].of /\ There(engine[p].of) => q = p

\* A stop is at every engine of its session.
Covers(r) ==
  Ordinary /\ r.pc \in StopPc /\ There(r.victim) =>
    \A p \in Pid : Live(p) /\ engine[p].of = r.victim =>
      r.pc = "stop" \/ (r.pc = "purge" /\ p \in Reach(r))

Spawns(r) == r.pc \in {"ready", "answered"} => \E p \in Spawned : engine[p].of = r.s

\* An engine of an earlier run was not found when the panel came up.
MissedBy(s) == Ordinary /\ There(s) /\ Live(1) /\ engine[1].of = s /\ managed[s].pid # 1

Wary(r) == r.pc \in NapPc => ~MissedBy(r.s)

RequestOK(r) == Aims(r) /\ Vacant(r) /\ Prunes(r) /\ Clean(r) /\ Covers(r) /\ Spawns(r) /\ Wary(r)

\* The pids in the row and in what is managed are of engines of the session,
Agree(s) ==
  /\ Busy(s) => managed[s].pid \in Pid /\ engine[managed[s].pid].of = s
  /\ ~Busy(s) => managed[s].pid = 0
  /\ row[s].pid # 0 => engine[row[s].pid].of = s /\ There(s)

\* and what is managed is the engine of the session.
Knows(s) ==
  Ordinary /\ There(s) => \A p \in Pid : Live(p) /\ engine[p].of = s =>
                            /\ Busy(s) => managed[s].pid = p
                            /\ engine[p].child => Busy(s)

Todo == IF mon.pc = "idle" THEN {} ELSE mon.todo
Unseen(s) == MissedBy(s) => row[s].status \in {"stopped", "error"} /\ s \notin Todo

Wins(s) ==
  Ordinary /\ There(s) => \A p \in Pid : LiveChild(p) /\ engine[p].of = s /\ fence[s] = 0 =>
                            engine[p].since = epoch[s]

MonFinds == mon.pc = "adopt" /\ mon.pid # 0 => ~Ordinary /\ engine[mon.pid].of = mon.s

SessionOK(s) == Agree(s) /\ Knows(s) /\ Unseen(s) /\ Wins(s) /\ Replaced(s)

Rest ==
  /\ OneEach /\ NotBeside /\ Solo /\ MonFinds
  /\ \A c \in Call : RequestOK(call[c])
  /\ \A s \in Session : SessionOK(s)

PanelInv == TurnInv /\ Typed /\ Rest

\* No engine is started; one comes to serve only where it is the only one.
Wanes ==
  /\ engine' \in [Pid -> EngineType]
  /\ \A p \in Pid : /\ engine'[p].of = engine[p].of /\ engine'[p].child = engine[p].child
                    /\ engine'[p].since = engine[p].since
                    /\ engine'[p].st = "none" <=> engine[p].st = "none"
                    /\ engine'[p].st = "booting" => engine[p].st = "booting"
                    /\ engine'[p].swept = "no" => engine[p].swept = "no"
                    /\ engine[p].st = "none" => engine'[p].swept = engine[p].swept
                    /\ Live(p)' => Live(p)
                    /\ Present(p)' => Present(p)
                    /\ Serves(p)' => \/ Serves(p)
                                     \/ Ordinary => \A q \in Pid \ {p} :
                                          engine[q].of = engine[p].of => ~Present(q)'

\* While no engine starts, no session gets one, and engines stay well-formed.
LEMMA WanesFacts ==
  ASSUME Wanes, EnginesShaped
  PROVE  /\ Ordinary' => Ordinary
         /\ \A p \in Pid : LiveChild(p)' => LiveChild(p)
         /\ \A s \in Session : Of(s)' \subseteq Of(s)
         /\ EnginesShaped'
<1>1. Ordinary' => Ordinary
  BY Pids DEF Wanes, Ordinary
<1>2. \A p \in Pid : LiveChild(p)' => LiveChild(p)
  BY DEF Wanes, LiveChild
<1>3. \A s \in Session : Of(s)' \subseteq Of(s)
  BY DEF Wanes, Of
<1>4. EnginesShaped'
  BY Pids DEF Wanes, EnginesShaped
<1>. QED  BY <1>1, <1>2, <1>3, <1>4

\* A live engine is of a session.
LEMMA LiveOf ==
  ASSUME EnginesShaped, NEW p \in Pid, Present(p) \/ engine[p].st # "none"
  PROVE  engine[p].of \in Session
  BY DEF EnginesShaped, Present, Live

\* A request that stays where it is while engines end, or that removes one.
LEMMA RequestKeeps ==
  ASSUME Wanes, EnginesShaped, NEW c \in Call, call[c] \in CallType, call'[c] \in CallType,
         single' = single,
         call'[c].pc = call[c].pc, call'[c].s = call[c].s, call'[c].victim = call[c].victim,
         call'[c].then = call[c].then, Reach(call'[c]) \subseteq Reach(call[c]),
         \A p \in Reach(call[c]) \ Reach(call'[c]) : ~Present(p)',
         call'[c].pid = call[c].pid \/ call[c].pc \in {"prune", "port", "purge"},
         RequestOK(call[c]), \A s \in Session : MissedBy(s)' => MissedBy(s),
         \A s \in Session : There(s)' => There(s),
         Shape(call[c], single, epoch)
  PROVE  RequestOK(call[c])'
<1> DEFINE r == call[c]
           x == call'[c]
<1>0. /\ r \in CallType /\ Reach(r) \in SUBSET Pid /\ (r.pid # 0 => r.pid \in Pid)
      /\ (r.pc # "done" => r.s \in Session) /\ Reach(r)' = Reach(x)
      /\ (r.pc \in StopPc => r.victim \in Session)
  BY Pids DEF CallType, Reach, Shape
<1>1. Aims(call[c])'
  <2>1. r.pc \in {"stop", "child", "adopted", "leftover", "adopt"} /\ r.pid # 0 =>
          engine'[r.pid].of = engine[r.pid].of /\ x.pid = r.pid
    BY <1>0 DEF Wanes
  <2>2. \A p \in Reach(x) : /\ engine'[p].of = engine[p].of /\ p \in Reach(r)
                            /\ engine'[p].st = "none" <=> engine[p].st = "none"
    BY <1>0 DEF Wanes
  <2>3. r.pc \in {"stop", "child", "adopted", "leftover", "adopt"} => x.pid = r.pid
    OBVIOUS
  <2>. QED  BY <1>0, <2>1, <2>2, <2>3 DEF RequestOK, Aims
<1>2. Vacant(call[c])'
  <2> SUFFICES ASSUME Ordinary, r.pc \in {"port", "spawn"}, NEW p \in Pid, Live(p)',
                      engine'[p].of = r.s
               PROVE  r.pc = "port" /\ p = 1
    BY <1>0, WanesFacts DEF Vacant
  <2>1. Live(p) /\ engine[p].of = r.s
    BY <1>0 DEF Wanes
  <2>. QED  BY <1>0, <2>1 DEF RequestOK, Vacant
<1>3. Prunes(call[c])'
  <2> SUFFICES ASSUME Ordinary, single, NEW p \in Pid, Live(p)'
               PROVE  /\ r.pc = "prune" => p \in Reach(x) \cup Of(r.s)'
                      /\ Alone(r) => p \in Of(r.s)'
    BY <1>0, WanesFacts DEF Prunes, Alone, Of
  <2>1. Live(p) /\ Present(p)'
    BY DEF Present, Wanes
  <2>2. p \in Of(r.s) => p \in Of(r.s)'
    BY <2>1 DEF Of, Wanes
  <2>. QED  BY <1>0, <2>1, <2>2 DEF RequestOK, Prunes
<1>4. Clean(call[c])'
  <2> SUFFICES ASSUME Ordinary, r.pc \in {"prune", "port", "purge", "adopt"},
                      NEW p \in Reach(x), NEW q \in Pid,
                      Live(q)', engine'[q].of = engine'[p].of,
                      row'[engine'[p].of].status # "deleted"
               PROVE  q = p
    BY <1>0, WanesFacts DEF Clean, There
  <2>1. Live(q) /\ engine[q].of = engine[p].of /\ p \in Reach(r) /\ engine'[p].of = engine[p].of
    BY <1>0 DEF Wanes
  <2>2. There(engine[p].of)
    <3>1. engine[p].of \in Session
      BY <2>1, LiveOf DEF Present
    <3>2. row'[engine[p].of].status # "deleted"
      BY <2>1
    <3>. QED  BY <3>1, <3>2 DEF There
  <2>. QED  BY <2>1, <2>2 DEF RequestOK, Clean
<1>5. Covers(call[c])'
  <2> SUFFICES ASSUME Ordinary, r.pc \in StopPc, There(r.victim)', NEW p \in Pid, Live(p)',
                      engine'[p].of = r.victim
               PROVE  r.pc = "stop" \/ (r.pc = "purge" /\ p \in Reach(x))
    BY <1>0, WanesFacts DEF Covers, There
  <2>1. Live(p) /\ engine[p].of = r.victim /\ Present(p)' /\ There(r.victim)
    BY <1>0 DEF Wanes, Present, There
  <2>. QED  BY <1>0, <2>1 DEF RequestOK, Covers
<1>6. Spawns(call[c])'
  BY Pids DEF RequestOK, Spawns, Wanes
<1>7. Wary(call[c])'
  <2> SUFFICES ASSUME r.pc \in NapPc, MissedBy(r.s)'  PROVE FALSE
    BY DEF Wary, MissedBy, NapPc, There
  <2>. QED  BY <1>0 DEF RequestOK, Wary, NapPc
<1>. QED  BY <1>1, <1>2, <1>3, <1>4, <1>5, <1>6, <1>7 DEF RequestOK

\* What a step does to a session: nothing, or what leaves the invariant.
SessionStep(s) ==
  \/ row'[s] = row[s] /\ managed'[s] = managed[s]
  \/ /\ Agree(s)' /\ Knows(s)' /\ (There(s)' => There(s))
     /\ MissedBy(s)' => MissedBy(s) /\ row'[s].status \in {"stopped", "error"}

\* And to a request; a start that ends leaves no engine beside one that is ending.
RequestStep(c) ==
  /\ call'[c] = call[c] \/ RequestOK(call[c])'
  /\ call[c].pc = "ready" /\ call'[c] # call[c] => \A s \in Session : s = call[c].s => ~Overlaps(s)'

\* A session's engine that is ending was so before, beside the same one.
LEMMA OverlapsFade ==
  ASSUME Wanes, EnginesShaped, OneEach, NEW s \in Session, There(s)' => There(s), Overlaps(s)'
  PROVE  Overlaps(s)
<1>1. PICK p \in Pid, q \in Pid : /\ engine'[p].of = s /\ engine'[p].st = "dying"
                                  /\ engine'[q].of = s /\ Live(q)'
  BY DEF Overlaps
<1>2. Ordinary /\ There(s)
  BY WanesFacts DEF Overlaps
<1>3. /\ engine[p].of = s /\ Present(p) /\ engine[q].of = s /\ Live(q) /\ p # q
  BY <1>1 DEF Wanes, Present, Live
<1>4. ~Live(p)
  BY <1>2, <1>3 DEF OneEach
<1>. QED  BY <1>2, <1>3, <1>4 DEF Overlaps, Present

\* A step that starts no engine keeps the invariant, if each session and each
\* request is left alone or left as the invariant wants it, and a stop that
\* lowers its fence leaves no live engine.
LEMMA WanesStep ==
  ASSUME PanelInv, Wanes, single' = single, TurnInv', Typed',
         \A s \in Session : SessionStep(s),
         \A c \in Call : RequestStep(c),
         \A s \in Session : \/ fence'[s] = fence[s] /\ epoch'[s] = epoch[s]
                            \/ fence'[s] # 0
                            \/ Ordinary /\ There(s)' => \A p \in Pid : Live(p)' => engine[p].of # s,
         \A s \in Todo' : s \in Todo \/ row[s].status \notin {"stopped", "error"},
         MonFinds'
  PROVE  PanelInv'
<1>0. /\ TurnInv /\ Typed /\ EnginesShaped
      /\ OneEach /\ NotBeside /\ Solo /\ MonFinds
      /\ \A c \in Call : RequestOK(call[c]) /\ call[c] \in CallType /\ Shape(call[c], single, epoch)
      /\ \A s \in Session : SessionOK(s)
  BY CallFacts DEF PanelInv, Rest, Typed
<1>1. OneEach' /\ NotBeside' /\ Solo'
  <2>1. OneEach'
    <3> SUFFICES ASSUME Ordinary, NEW p \in Pid, NEW q \in Pid, engine'[p].of = engine'[q].of,
                        Live(q)', Live(p)' \/ (Serves(q)' /\ Present(p)')
                 PROVE  p = q
      BY <1>0, WanesFacts DEF OneEach
    <3>1. engine[p].of = engine[q].of /\ Live(q)
      BY DEF Wanes
    <3>2. CASE Live(p)'
      BY <1>0, <3>1, <3>2 DEF OneEach, Wanes
    <3>3. CASE Serves(q)' /\ Present(p)' /\ Serves(q)
      <4>1. Present(p)
        BY <3>3 DEF Wanes
      <4>. QED  BY <1>0, <3>1, <3>3, <4>1 DEF OneEach
    <3>4. CASE Serves(q)' /\ Present(p)' /\ ~Serves(q)
      BY <3>1, <3>4 DEF Wanes
    <3>. QED  BY <3>2, <3>3, <3>4
  <2>2. NotBeside'
    BY <1>0, Pids, WanesFacts DEF NotBeside, Wanes
  <2>3. Solo'
    BY <1>0, WanesFacts DEF Solo, Wanes
  <2>. QED  BY <2>1, <2>2, <2>3
<1>2. \A s \in Session : Agree(s)' /\ Knows(s)' /\ (There(s)' => There(s))
      /\ (MissedBy(s)' => MissedBy(s) /\ row'[s].status \in {"stopped", "error"})
  <2> TAKE s \in Session
  <2>1. CASE row'[s] = row[s] /\ managed'[s] = managed[s]
    <3>0. There(s)' <=> There(s)
      BY <2>1 DEF There
    <3>1. Agree(s)'
      <4>1. row[s].pid # 0 => row[s].pid \in Pid
        BY <1>0, Pids DEF Typed, SessionTypeOK
      <4>. QED  BY <1>0, <2>1, <3>0, <4>1 DEF SessionOK, Agree, Busy, Wanes
    <3>2. Knows(s)'
      BY <1>0, <2>1, <3>0, WanesFacts DEF SessionOK, Knows, Busy, Wanes
    <3>3. MissedBy(s)' => MissedBy(s)
      BY <1>0, <2>1, <3>0, Pids, WanesFacts DEF MissedBy, Wanes
    <3>. QED  BY <1>0, <2>1, <3>0, <3>1, <3>2, <3>3 DEF SessionOK, Unseen
  <2>2. CASE ~(row'[s] = row[s] /\ managed'[s] = managed[s])
    BY <2>2 DEF SessionStep
  <2>. QED  BY <2>1, <2>2
<1>3. \A s \in Session : Unseen(s)'
  BY <1>0, <1>2 DEF SessionOK, Unseen
<1>4. \A s \in Session : Wins(s)'
  <2> TAKE s \in Session
  <2> SUFFICES ASSUME Ordinary, There(s)', NEW p \in Pid, LiveChild(p)', engine'[p].of = s,
                      fence'[s] = 0
               PROVE  engine'[p].since = epoch'[s]
    BY <1>0, WanesFacts DEF Wins
  <2>1. LiveChild(p) /\ engine[p].of = s /\ engine'[p].since = engine[p].since /\ Live(p)'
    BY <1>0, WanesFacts DEF Wanes, LiveChild
  <2>2. fence'[s] = fence[s] /\ epoch'[s] = epoch[s] /\ There(s)
    BY <2>1, <1>2
  <2>. QED  BY <1>0, <2>1, <2>2 DEF SessionOK, Wins
<1>5. \A c \in Call : RequestOK(call[c])'
  <2> TAKE c \in Call
  <2>1. CASE call'[c] = call[c]
    <3>1. Reach(call'[c]) = Reach(call[c])
      BY <2>1
    <3>. QED  BY <1>0, <1>2, <2>1, <3>1, RequestKeeps
  <2>. QED  BY <2>1 DEF RequestStep
<1>6. \A s \in Session : Replaced(s)'
  <2> SUFFICES ASSUME NEW s \in Session, Overlaps(s)'  PROVE Waiting(s)'
    BY DEF Replaced
  <2>1. Overlaps(s)
    BY <1>0, <1>2, OverlapsFade
  <2>2. PICK c \in Call : call[c].pc = "ready" /\ call[c].s = s
    BY <1>0, <2>1 DEF SessionOK, Replaced, Waiting
  <2>3. call'[c] = call[c]
    BY <2>2 DEF RequestStep
  <2>. QED  BY <2>2, <2>3 DEF Waiting
<1>. QED  BY <1>0, <1>1, <1>2, <1>3, <1>4, <1>5, <1>6 DEF PanelInv, Rest, SessionOK

RowType == [status : Status, pid : 0..MaxPid]
ManagedType ==
  [kind : {"none", "child", "adopted", "exited"}, pid : 0..MaxPid, intentional : BOOLEAN]

\* What the invariant says, by its parts.
LEMMA Known ==
  ASSUME PanelInv
  PROVE  /\ TurnInv /\ Typed /\ EnginesShaped /\ MonShaped /\ SessionTypeOK
         /\ row \in [Session -> RowType] /\ managed \in [Session -> ManagedType]
         /\ engine \in [Pid -> EngineType] /\ call \in [Call -> CallType]
         /\ OneEach /\ NotBeside /\ Solo /\ MonFinds
         /\ \A c \in Call : RequestOK(call[c]) /\ call[c] \in CallType
            /\ Shape(call[c], single, epoch)
         /\ \A s \in Session : /\ SessionOK(s) /\ Agree(s) /\ Knows(s) /\ Unseen(s) /\ Wins(s)
                               /\ Replaced(s)
  BY CallFacts DEF PanelInv, Rest, Typed, SessionOK, EnginesShaped, SessionTypeOK, RowType,
     ManagedType, TurnInv, CallsShaped

\* Signals and exits start nothing.
LEMMA TermWanes ==
  ASSUME EnginesShaped, NEW p \in Pid, engine' = Term(p)
  PROVE  Wanes /\ ~Live(p)'
<1>1. /\ engine' = [engine EXCEPT ![p].st = IF Live(p) THEN "dying" ELSE engine[p].st]
      /\ engine \in [Pid -> EngineType]
  BY DEF Term, EnginesShaped
<1>2. engine' \in [Pid -> EngineType]
  BY <1>1 DEF EngineType, EngineSt
<1>3. \A q \in Pid : /\ engine'[q].of = engine[q].of /\ engine'[q].child = engine[q].child
                     /\ engine'[q].since = engine[q].since /\ engine'[q].swept = engine[q].swept
                     /\ engine'[q].st = IF q = p /\ Live(p) THEN "dying" ELSE engine[q].st
  BY <1>1 DEF EngineType
<1>. QED  BY <1>2, <1>3 DEF Wanes, Live, Present, Serves

\* SIGKILL.
LEMMA KillWanes ==
  ASSUME EnginesShaped, NEW p \in Pid, engine' = Kill(p)
  PROVE  Wanes /\ ~Present(p)' /\ ~Live(p)'
<1>1. /\ engine' = [engine EXCEPT ![p].st = IF Present(p) THEN "gone" ELSE engine[p].st]
      /\ engine \in [Pid -> EngineType]
  BY DEF Kill, EnginesShaped
<1>2. engine' \in [Pid -> EngineType]
  BY <1>1 DEF EngineType, EngineSt
<1>3. \A q \in Pid : /\ engine'[q].of = engine[q].of /\ engine'[q].child = engine[q].child
                     /\ engine'[q].since = engine[q].since /\ engine'[q].swept = engine[q].swept
                     /\ engine'[q].st = IF q = p /\ Present(p) THEN "gone" ELSE engine[q].st
  BY <1>1 DEF EngineType
<1>. QED  BY <1>2, <1>3 DEF Wanes, Live, Present, Serves

\* Nothing happens to any engine.
LEMMA SameWanes ==
  ASSUME EnginesShaped, engine' = engine
  PROVE  Wanes /\ (Ordinary' <=> Ordinary)
         /\ (\A p \in Pid : (Live(p)' <=> Live(p)) /\ (Present(p)' <=> Present(p)))
         /\ (\A s \in Session : Of(s)' = Of(s))
  BY DEF Wanes, EnginesShaped, Live, Present, Serves, Of, Ordinary

\* An engine comes to serve, sleeps, wakes or ends.
LEMMA StateWanes ==
  ASSUME EnginesShaped, NEW p \in Pid, NEW st \in EngineSt, engine' = [engine EXCEPT ![p].st = st],
         engine[p].st # "none", st # "none",
         \/ st \in {"up", "asleep", "waking"} /\ Serves(p)
         \/ /\ st = "up" /\ Live(p)
            /\ Ordinary => \A q \in Pid \ {p} : engine[q].of = engine[p].of => ~Present(q)
         \/ st = "gone"
  PROVE  Wanes
<1>1. engine \in [Pid -> EngineType]
  BY DEF EnginesShaped
<1>2. engine' \in [Pid -> EngineType]
  BY <1>1 DEF EngineType
<1>3. \A q \in Pid : /\ engine'[q].of = engine[q].of /\ engine'[q].child = engine[q].child
                     /\ engine'[q].since = engine[q].since /\ engine'[q].swept = engine[q].swept
                     /\ engine'[q].st = IF q = p THEN st ELSE engine[q].st
  BY <1>1 DEF EngineType
<1>. QED  BY <1>2, <1>3 DEF Wanes, Live, Present, Serves

\* Rows and what is managed.
LEMMA UpdateIs ==
  ASSUME row \in [Session -> RowType], NEW s \in Session, NEW status \in Status,
         NEW p \in 0..MaxPid,
         status # "deleted", Update(s, status, p)
  PROVE  /\ row' \in [Session -> RowType]
         /\ \A t \in Session \ {s} : row'[t] = row[t]
         /\ row[s].status = "deleted" => row'[s] = row[s]
         /\ row[s].status # "deleted" => row'[s].status = status /\ row'[s].pid = p
         /\ row'[s].status = "deleted" <=> row[s].status = "deleted"
  BY DEF Update, RowType

\* A new status for a row.
LEMMA MarkIs ==
  ASSUME row \in [Session -> RowType], NEW s \in Session, NEW status \in Status,
         status # "deleted", Mark(s, status)
  PROVE  /\ row' \in [Session -> RowType]
         /\ \A t \in Session \ {s} : row'[t] = row[t]
         /\ row'[s].pid = row[s].pid
         /\ row[s].status # "deleted" => row'[s].status = status
         /\ row'[s].status = "deleted" <=> row[s].status = "deleted"
  BY DEF Mark, Update, RowType

\* What is managed of a session.
LEMMA ManageIs ==
  ASSUME managed \in [Session -> ManagedType], NEW s \in Session, NEW m \in ManagedType,
         Manage(s, m)
  PROVE  /\ managed' \in [Session -> ManagedType] /\ managed'[s] = m
         /\ \A t \in Session \ {s} : managed'[t] = managed[t]
  BY DEF Manage

\* The types of what is managed.
LEMMA Kinds ==
  /\ Unmanaged \in ManagedType /\ [Unmanaged EXCEPT !.kind = "exited"] \in ManagedType
  /\ \A p \in 0..MaxPid : Owns("adopted", p) \in ManagedType /\ Owns("child", p) \in ManagedType
  /\ {"stopped", "error", "loading", "running", "standby"} \subseteq Status /\ "deleted" \in Status
  BY Pids DEF Unmanaged, Owns, ManagedType, Status

\* A row that is marked anew.
LEMMA MarkStep ==
  ASSUME PanelInv, Wanes, NEW s \in Session, NEW status \in Status, status # "deleted",
         Mark(s, status), managed' = managed, status \in {"stopped", "error"} \/ ~MissedBy(s)
  PROVE  \A t \in Session : SessionStep(t)
<1>1. /\ \A t \in Session \ {s} : row'[t] = row[t]
      /\ row'[s].pid = row[s].pid
      /\ row[s].status # "deleted" => row'[s].status = status
      /\ row'[s].status = "deleted" <=> row[s].status = "deleted"
  BY Known, MarkIs
<1>0. There(s)' <=> There(s)
  BY <1>1 DEF There
<1>2. Agree(s)'
  <2>1. row[s].pid # 0 => row[s].pid \in Pid
    BY Known, Pids DEF RowType
  <2>. QED  BY <1>0, <1>1, <2>1, Known DEF Agree, Busy, Wanes
<1>3. Knows(s)'
  BY <1>0, Known, WanesFacts DEF Knows, Busy, Wanes
<1>4. MissedBy(s)' => MissedBy(s)
  BY <1>0, Pids, Known, WanesFacts DEF MissedBy, Wanes
<1>5. MissedBy(s)' => row'[s].status \in {"stopped", "error"}
  BY <1>1, <1>4 DEF MissedBy, There
<1>6. SessionStep(s)
  BY <1>0, <1>2, <1>3, <1>4, <1>5 DEF SessionStep
<1>. QED  BY <1>1, <1>6 DEF SessionStep

\* A session that lets go of its engine, none being left unless its row is
\* deleted or somebody starts engines by hand.
LEMMA DropStep ==
  ASSUME PanelInv, Wanes, NEW s \in Session,
         \A t \in Session \ {s} : row'[t] = row[t] /\ managed'[t] = managed[t],
         row'[s].pid = 0, managed'[s].pid = 0, managed'[s].kind \notin {"child", "adopted"},
         row[s].status = "deleted" => row'[s].status = "deleted",
         Ordinary /\ row'[s].status # "deleted" => \A p \in Pid : engine[p].of = s => ~Live(p)'
  PROVE  \A t \in Session : SessionStep(t)
<1>1. ~Busy(s)'
  BY DEF Busy
<1>2. Agree(s)'
  BY <1>1 DEF Agree
<1>3. Knows(s)'
  BY <1>1, Known, WanesFacts DEF Knows, Wanes, There
<1>4. ~MissedBy(s)'
  BY Known, Pids, WanesFacts DEF MissedBy, Wanes, There
<1>5. SessionStep(s)
  BY <1>1, <1>2, <1>3, <1>4 DEF SessionStep, There
<1>. QED  BY <1>5 DEF SessionStep

\* A session that takes an engine for its own.
LEMMA OwnStep ==
  ASSUME PanelInv, Wanes, NEW s \in Session, NEW p \in Pid, NEW kind \in {"child", "adopted"},
         NEW status \in Status, status # "deleted",
         Update(s, status, p), Manage(s, Owns(kind, p)), engine[p].of = s,
         Ordinary /\ There(s) => \A q \in Pid : Live(q)' /\ engine[q].of = s => q = p
  PROVE  \A t \in Session : SessionStep(t)
<1>0. p \in 0..MaxPid /\ Owns(kind, p) \in ManagedType
  BY Pids, Kinds
<1>1. /\ \A t \in Session \ {s} : row'[t] = row[t]
      /\ row[s].status = "deleted" => row'[s] = row[s]
      /\ row[s].status # "deleted" => row'[s].status = status /\ row'[s].pid = p
      /\ row'[s].status = "deleted" <=> row[s].status = "deleted"
  BY <1>0, Known, UpdateIs
<1>2. managed'[s].pid = p /\ managed'[s].kind = kind
      /\ \A t \in Session \ {s} : managed'[t] = managed[t]
  BY <1>0, Known, ManageIs DEF Owns
<1>3. Busy(s)'
  BY <1>2 DEF Busy
<1>there. There(s)' <=> There(s)
  BY <1>1 DEF There
<1>4. Agree(s)'
  BY <1>there, <1>1, <1>2, <1>3, Known DEF Agree, Wanes, There
<1>5. Knows(s)'
  BY <1>there, <1>2, <1>3, Known, WanesFacts DEF Knows, Wanes
<1>6. ~MissedBy(s)'
  BY <1>there, <1>2, Known, Pids, WanesFacts DEF MissedBy, Wanes
<1>7. SessionStep(s)
  BY <1>there, <1>4, <1>5, <1>6 DEF SessionStep
<1>. QED  BY <1>1, <1>2, <1>7 DEF SessionStep

\* Places where nothing is asked of a request.
LEMMA QuietOK ==
  ASSUME NEW c \in Call,
         \/ call'[c].pc \in {"done", "gate", "restart", "delete", "deleting"}
         \/ call'[c].pc = "lock" /\ ~single'
  PROVE  RequestOK(call[c])'
<1>1. Aims(call[c])' /\ Vacant(call[c])' /\ Clean(call[c])' /\ Covers(call[c])'
      /\ Spawns(call[c])' /\ Wary(call[c])'
  BY DEF Aims, Vacant, Clean, Covers, Spawns, Wary, StopPc, NapPc
<1>2. Prunes(call[c])'
  BY DEF Prunes, Alone, StopPc
<1>. QED  BY <1>1, <1>2 DEF RequestOK

\* Only one request moves.
LEMMA OneMoves ==
  ASSUME call \in [Call -> CallType], NEW c \in Call, NEW r, call' = [call EXCEPT ![c] = r],
         RequestStep(c)
  PROVE  \A d \in Call : RequestStep(d)
  BY DEF RequestStep

\* A request goes where nothing is asked of it,
LEMMA QuietStep ==
  ASSUME call \in [Call -> CallType], NEW c \in Call, NEW r, call' = [call EXCEPT ![c] = r],
         r.pc \in {"done", "gate", "restart", "delete", "deleting"} \/ (r.pc = "lock" /\ ~single'),
         call[c].pc = "ready" => \A s \in Session : s = call[c].s => ~Overlaps(s)'
  PROVE  \A d \in Call : RequestStep(d)
<1>1. call'[c] = r
  OBVIOUS
<1>2. RequestStep(c)
  BY <1>1, QuietOK DEF RequestStep
<1>. QED  BY <1>2, OneMoves

\* or ends.
LEMMA EndsStep ==
  ASSUME PanelInv, NEW c \in Call, Ends(c),
         call[c].pc = "ready" => \A s \in Session : s = call[c].s => ~Overlaps(s)'
  PROVE  \A d \in Call : RequestStep(d) /\ call'[c].pc = "done" /\ (d # c => call'[d] = call[d])
<1> DEFINE r == [NoCall EXCEPT !.pc = "done"]
<1>1. r.pc = "done" /\ call' = [call EXCEPT ![c] = r]
  BY DEF Ends, NoCall
<1> HIDE DEF r
<1>. QED  BY <1>1, Known, QuietStep

\* Steps that leave the sessions, the requests or the monitor alone.
LEMMA SessionsIdle ==
  ASSUME UNCHANGED <<row, managed>>  PROVE \A s \in Session : SessionStep(s)
  BY DEF SessionStep

\* No request moves.
LEMMA RequestsIdle ==
  ASSUME UNCHANGED call  PROVE \A c \in Call : RequestStep(c)
  BY DEF RequestStep

\* The monitor stays where it is.
LEMMA MonIdle ==
  ASSUME PanelInv, Wanes, UNCHANGED mon
  PROVE  (\A s \in Todo' : s \in Todo \/ row[s].status \notin {"stopped", "error"}) /\ MonFinds'
         /\ MonShaped'
  BY Known, Pids, WanesFacts DEF Todo, MonFinds, Wanes, MonShaped

TurnsAlone == \A s \in Session : fence'[s] = fence[s] /\ epoch'[s] = epoch[s]

\* The types of what a step leaves.
LEMMA TypedKeeps ==
  ASSUME Typed, Wanes, TurnInv', single' = single, row' \in [Session -> RowType],
         managed' \in [Session -> ManagedType], waking' \subseteq Session,
         upsets' = upsets \/ Upset, MonShaped'
  PROVE  Typed'
<1>1. EnginesShaped'
  BY WanesFacts DEF Typed
<1>2. upsets' \in 0..MaxUpset
  BY SessionAssumption DEF Typed, SessionTypeOK, Upset
<1>. QED  BY <1>1, <1>2 DEF Typed, SessionTypeOK, RowType, ManagedType, TurnInv

\* The general case of a step that starts no engine.
LEMMA PanelStep ==
  ASSUME PanelInv, TurnInv', Wanes, single' = single, row' \in [Session -> RowType],
         managed' \in [Session -> ManagedType], waking' \subseteq Session,
         upsets' = upsets \/ Upset, MonShaped',
         \A s \in Session : SessionStep(s),
         \A c \in Call : RequestStep(c),
         \A s \in Session : \/ fence'[s] = fence[s] /\ epoch'[s] = epoch[s]
                            \/ fence'[s] # 0
                            \/ Ordinary /\ There(s)' => \A p \in Pid : Live(p)' => engine[p].of # s,
         \A s \in Todo' : s \in Todo \/ row[s].status \notin {"stopped", "error"},
         MonFinds'
  PROVE  PanelInv'
<1>1. Typed'
  BY Known, TypedKeeps
<1>. QED  BY <1>1, WanesStep

\* A request does something; the monitor does not.
LEMMA RequestPanel ==
  ASSUME PanelInv, TurnInv', Wanes, UNCHANGED <<single, epoch, fence, waking, mon>>,
         row' \in [Session -> RowType], managed' \in [Session -> ManagedType],
         upsets' = upsets \/ Upset,
         \A s \in Session : SessionStep(s), \A c \in Call : RequestStep(c)
  PROVE  PanelInv'
<1>1. waking' \subseteq Session
  BY Known DEF SessionTypeOK
<1>. QED  BY <1>1, MonIdle, PanelStep

\* The invariant is kept by every step, one lemma for each. A start is asked
\* for, or follows a restart's stop;
LEMMA EnterPanel ==
  ASSUME PanelInv, TurnInv', NEW c \in Call, AskStart(c) \/ Again(c)
  PROVE  PanelInv'
<1>1. UNCHANGED <<single, row, managed, engine, epoch, fence, waking, mon, upsets>>
      /\ call[c].pc # "ready"
  BY DEF AskStart, Again, Asks, known, stopVars
<1>2. PICK r \in CallType : Enter(c, r)
  <2>1. call[c] \in CallType /\ call[c].s \in Session /\ epoch \in [Session -> Nat]
    BY Known DEF AskStart, Again, Asks, Shape, TurnInv
  <2>2. [call[c] EXCEPT !.entry = epoch[call[c].s]] \in CallType
    BY <2>1 DEF CallType
  <2>. QED  BY <2>1, <2>2 DEF AskStart, Again
<1>3. \A d \in Call : RequestStep(d)
  <2>1. CASE single
    <3> DEFINE x == [r EXCEPT !.pc = "gate"]
    <3>1. call' = [call EXCEPT ![c] = x] /\ x.pc = "gate"
      BY <2>1, <1>2 DEF Enter, CallType
    <3> HIDE DEF x
    <3>. QED  BY <1>1, <3>1, Known, QuietStep
  <2>2. CASE ~single /\ r.entry # epoch[r.s]
    BY <1>1, <1>2, <2>2, EndsStep DEF Enter
  <2>3. CASE ~single /\ r.entry = epoch[r.s]
    <3> DEFINE x == [r EXCEPT !.pc = "lock"]
    <3>1. call' = [call EXCEPT ![c] = x] /\ x.pc = "lock" /\ ~single'
      BY <1>1, <2>3, <1>2 DEF Enter, CallType
    <3> HIDE DEF x
    <3>. QED  BY <1>1, <3>1, Known, QuietStep
  <2>. QED  BY <2>1, <2>2, <2>3
<1>. QED  BY <1>1, <1>3, Known, SameWanes, SessionsIdle, RequestPanel

\* While a start is first at the gate no other waits for its engine.
LEMMA GateQuiet ==
  ASSUME PanelInv, NEW c \in Call, call[c].pc = "gate", Head(gate) = c, NEW s \in Session
  PROVE  ~Overlaps(s)
<1> SUFFICES ASSUME Overlaps(s)  PROVE FALSE
  OBVIOUS
<1>1. gate[1] = c /\ single /\ TurnInv
  BY Known, GateFirst DEF InGate
<1>2. PICK d \in Call : call[d].pc = "ready"
  BY Known DEF Replaced, Waiting
<1>3. gate[1] = d
  BY <1>1, <1>2 DEF TurnInv, Gates, Transit, InGate, TransitPc
<1>. QED  BY <1>1, <1>2, <1>3

\* What answers on a session's port is the only engine it has.
LEMMA AnswersAlone ==
  ASSUME PanelInv, NEW s \in Session, NEW p \in Pid \cup {0}, NEW q \in Pid \cup {0},
         Detects(s, p, q),
         Ordinary
  PROVE  p # 0 => Of(s) = {p} /\ p = q /\ Serves(p)
<1> SUFFICES ASSUME p # 0  PROVE Of(s) = {p} /\ p = q /\ Serves(p)
  OBVIOUS
<1>1. q # 0 /\ q \in Serving(s) /\ p \in Of(s) /\ q \in Pid
  BY DEF Detects, Answers
<1>2. q \in Of(s) /\ Serves(q) /\ Live(q)
  BY <1>1 DEF Serving, Serves, Live
<1>3. \A x \in Of(s) : x = q
  BY <1>1, <1>2, Known DEF OneEach, Of
<1>. QED  BY <1>1, <1>2, <1>3

\* it passes the gate and lists the engines to remove,
LEMMA PassGatePanel ==
  ASSUME PanelInv, TurnInv', NEW c \in Call, PassGate(c)  PROVE PanelInv'
<1> DEFINE s == call[c].s
<1>1. UNCHANGED <<single, row, managed, engine, epoch, fence, waking, mon>> /\ call[c].pc = "gate"
      /\ Head(gate) = c
  BY DEF PassGate, known, stopVars
<1>2. CASE Superseded(c)
  <2>1. Ends(c) /\ upsets' = upsets
    BY <1>2 DEF PassGate
  <2>. QED  BY <1>1, <2>1, Known, SameWanes, EndsStep, SessionsIdle, RequestPanel
<1>3. CASE ~Superseded(c)
  <2>1. PICK q \in Pid \cup {0} :
          /\ Answers(s, q)
          /\ call' = [call EXCEPT ![c].pc = "prune",
                        ![c].found = {p \in Pid : Present(p)} \ IF q = 0 THEN {} ELSE Of(s)]
    BY <1>3 DEF PassGate
  <2>2. upsets' = upsets \/ Upset
    BY <2>1 DEF Answers
  <2>3. s \in Session /\ call[c].pid = 0 /\ call[c] \in CallType
    BY <1>1, Known DEF Shape
  <2> DEFINE found == {p \in Pid : Present(p)} \ IF q = 0 THEN {} ELSE Of(s)
             r == [call[c] EXCEPT !.pc = "prune", !.found = found]
  <2>f. found \subseteq Pid /\ (\A p \in found : Present(p))
        /\ \A p \in Pid : Present(p) => p \in found \cup Of(s)
    OBVIOUS
  <2>4. call' = [call EXCEPT ![c].pc = "prune", ![c].found = found]
    BY <2>1
  <2> HIDE DEF found
  <2>5. /\ call' = [call EXCEPT ![c] = r] /\ r.pc = "prune" /\ r.s = s /\ r.pid = 0
        /\ r.found = found
    BY <2>3, <2>4 DEF CallType
  <2> HIDE DEF r
  <2>6. call'[c] = r /\ Reach(r) = found
    BY <2>5, <2>f, Known, Pids DEF Reach
  <2>7. RequestOK(call[c])'
    <3>1. Aims(call[c])' /\ Vacant(call[c])' /\ Covers(call[c])' /\ Spawns(call[c])'
          /\ Wary(call[c])'
      BY <1>1, <2>5, <2>6, <2>f
         DEF Aims, Vacant, Covers, Spawns, Wary, StopPc, NapPc, Reach, Present, Live
    <3>2. Prunes(call[c])'
      <4>1. \A p \in Pid : Live(p) => p \in Reach(r) \cup Of(s)
        BY <2>6, <2>f DEF Present
      <4>2. \A p \in Pid : Live(p)' <=> Live(p)
        BY <1>1 DEF Live
      <4>3. Of(s)' = Of(s)
        BY <1>1, <2>3, <2>5, <2>6, Known, SameWanes
      <4>. QED  BY <2>5, <2>6, <4>1, <4>2, <4>3 DEF Prunes, Alone, StopPc, Reach
    <3>3. Clean(call[c])'
      <4> SUFFICES ASSUME Ordinary, NEW p \in found, NEW x \in Pid, Live(x),
                          engine[x].of = engine[p].of, There(engine[p].of)
                   PROVE  x = p
        BY <1>1, <2>5, <2>6 DEF Clean, Reach, Ordinary, Live, There
      <4>1. p \in Pid /\ Present(p) /\ engine[p].of \in Session
        BY <2>f, Known, LiveOf
      <4>2. CASE Live(p)
        BY <4>1, <4>2, Known DEF OneEach
      <4>3. CASE ~Live(p)
        <5>1. Overlaps(engine[p].of)
          BY <4>1, <4>3 DEF Overlaps, Present
        <5>. QED  BY <1>1, <4>1, <5>1, GateQuiet
      <4>. QED  BY <4>2, <4>3
    <3>. QED  BY <3>1, <3>2, <3>3 DEF RequestOK
  <2>8. \A d \in Call : RequestStep(d)
    <3>1. RequestStep(c)
      BY <1>1, <2>5, <2>6, <2>7 DEF RequestStep
    <3>. QED  BY <2>5, <3>1, Known, OneMoves
  <2>. QED  BY <1>1, <2>2, <2>8, Known, SameWanes, SessionsIdle, RequestPanel
<1>. QED  BY <1>2, <1>3

\* A request that has engines to remove crosses one off, if that one is gone.
LEMMA ReachStays ==
  ASSUME PanelInv, TurnInv', Wanes, single' = single, NEW c \in Call,
         call[c].pc \in {"prune", "port", "purge"}, NEW r, call' = [call EXCEPT ![c] = r],
         r.pc = call[c].pc, r.s = call[c].s, r.victim = call[c].victim, r.then = call[c].then,
         Reach(r) \subseteq Reach(call[c]), \A q \in Reach(call[c]) \ Reach(r) : ~Present(q)',
         \A s \in Session : SessionStep(s)
  PROVE  \A d \in Call : RequestStep(d)
<1>1. call[c] \in CallType
  BY Known
<1>2. call'[c] = r /\ call'[c] \in CallType
  BY Known DEF TurnInv, CallsShaped
<1>4. \A s \in Session : MissedBy(s)' => MissedBy(s)
  <2> TAKE s \in Session
  <2>1. CASE row'[s] = row[s] /\ managed'[s] = managed[s]
    BY <2>1, Known, Pids, WanesFacts DEF MissedBy, Wanes, There
  <2>. QED  BY <2>1 DEF SessionStep
<1>3. \A s \in Session : There(s)' => There(s)
  BY DEF SessionStep, There
<1>5. RequestOK(call[c])'
  <2>1. Reach(call'[c]) \subseteq Reach(call[c])
    BY <1>2
  <2>2. \A q \in Reach(call[c]) \ Reach(call'[c]) : ~Present(q)'
    BY <1>2
  <2>. QED  BY <1>1, <1>2, <1>3, <1>4, <2>1, <2>2, Known, RequestKeeps
<1>6. RequestStep(c)
  BY <1>1, <1>2, <1>5 DEF RequestStep
<1>. QED  BY <1>6, Known, OneMoves

\* signals one,
LEMMA SignalPanel ==
  ASSUME PanelInv, TurnInv', NEW c \in Call, Signal(c)  PROVE PanelInv'
<1>1. /\ UNCHANGED <<single, row, managed, epoch, fence, waking, mon, upsets>>
      /\ call[c].pc \in {"prune", "port", "purge"} /\ call[c].pid = 0
  BY DEF Signal, known, stopVars
<1>2. PICK p \in call[c].found :
        engine' = Term(p) /\ call' = [call EXCEPT ![c].pid = p, ![c].found = call[c].found \ {p}]
  BY Known DEF Signal
<1>3. p \in Pid /\ call[c].found \subseteq Pid
  BY Known DEF CallType
<1>4. Wanes
  BY <1>2, <1>3, Known, TermWanes
<1>6. \A s \in Session : SessionStep(s)
  BY <1>1, SessionsIdle
<1>7. \A d \in Call : RequestStep(d)
  <2> DEFINE r == [call[c] EXCEPT !.pid = p, !.found = call[c].found \ {p}]
  <2>1. /\ call' = [call EXCEPT ![c] = r] /\ r.pid = p /\ r.found = call[c].found \ {p}
        /\ r.pc = call[c].pc /\ r.s = call[c].s /\ r.victim = call[c].victim
        /\ r.then = call[c].then
    BY <1>2, Known DEF CallType
  <2> HIDE DEF r
  <2>2. Reach(r) = Reach(call[c])
    BY <1>1, <1>2, <2>1 DEF Reach
  <2>. QED  BY <1>1, <1>4, <1>6, <2>1, <2>2, ReachStays
<1>. QED  BY <1>1, <1>4, <1>6, <1>7, Known, RequestPanel

\* The session of an engine that a request is removing.
LEMMA RemovePanel ==
  ASSUME PanelInv, TurnInv', NEW c \in Call, Remove(c)  PROVE PanelInv'
<1>0. call[c] \in CallType /\ call[c].pid \in Pid /\ call[c].pid \in Reach(call[c])
      /\ call[c].found \subseteq Pid
  BY Known, Pids DEF CallType, Reach, Remove
<1>p. PICK p \in Pid : p = call[c].pid
  BY <1>0
<1>s. PICK s \in Session : s = engine[p].of
  <2>1. engine[p].st # "none" \/ engine[p].of \in Session
    BY <1>0, <1>p, Known DEF RequestOK, Aims, Shape, StopPc, Remove
  <2>. QED  BY <2>1, Known DEF EnginesShaped
<1>1. /\ UNCHANGED <<single, epoch, fence, waking, mon, upsets>>
      /\ call[c].pc \in {"prune", "port", "purge"} /\ p # 0
      /\ engine' = Kill(p) /\ Manage(s, Unmanaged) /\ Update(s, "stopped", 0)
      /\ call' = [call EXCEPT ![c].pid = 0]
  BY <1>p, <1>s DEF Remove, stopVars
<1>2. p \in Pid /\ p \in Reach(call[c]) /\ call[c] \in CallType /\ call[c].found \subseteq Pid
  BY <1>0, <1>p
<1>3. s \in Session
  OBVIOUS
<1>4. Wanes /\ ~Present(p)' /\ ~Live(p)'
  BY <1>1, <1>2, Known, KillWanes
<1>5. /\ row' \in [Session -> RowType] /\ managed' \in [Session -> ManagedType]
      /\ \A t \in Session \ {s} : row'[t] = row[t] /\ managed'[t] = managed[t]
      /\ row'[s].pid = 0 /\ managed'[s] = Unmanaged
      /\ row'[s].status = "deleted" <=> row[s].status = "deleted"
  <2>1. row[s].status = "deleted" => row[s].pid = 0
    BY <1>3, Known DEF Agree, There
  <2>. QED  BY <1>1, <1>3, <2>1, Known, Kinds, Pids, UpdateIs, ManageIs
<1>6. Ordinary /\ row'[s].status # "deleted" => \A q \in Pid : engine[q].of = s => ~Live(q)'
  <2> SUFFICES ASSUME Ordinary, There(s), NEW q \in Pid, engine[q].of = s, Live(q)'  PROVE FALSE
    BY <1>5 DEF There
  <2>1. Live(q)
    BY <1>4 DEF Wanes
  <2>2. q = p
    BY <1>1, <1>2, <1>s, <2>1, Known DEF RequestOK, Clean
  <2>. QED  BY <2>2, <1>4
<1>7. \A t \in Session : SessionStep(t)
  BY <1>3, <1>4, <1>5, <1>6, DropStep DEF Unmanaged
<1>8. \A d \in Call : RequestStep(d)
  <2> DEFINE r == [call[c] EXCEPT !.pid = 0]
  <2>1. /\ call' = [call EXCEPT ![c] = r] /\ r.pid = 0 /\ r.found = call[c].found
        /\ r.pc = call[c].pc /\ r.s = call[c].s /\ r.victim = call[c].victim
        /\ r.then = call[c].then
    BY <1>1, <1>2 DEF CallType
  <2> HIDE DEF r
  <2>2. Reach(r) \subseteq Reach(call[c]) /\ \A q \in Reach(call[c]) \ Reach(r) : q = p
    BY <1>2, <1>p, <2>1 DEF Reach
  <2>3. \A q \in Reach(call[c]) \ Reach(r) : ~Present(q)'
    BY <1>4, <2>2
  <2>. QED  BY <1>1, <1>4, <1>7, <2>1, <2>2, <2>3, ReachStays
<1>. QED  BY <1>1, <1>4, <1>5, <1>7, <1>8, RequestPanel

\* The list is done: the start looks for its own engine,
LEMMA ScanPanel ==
  ASSUME PanelInv, TurnInv', NEW c \in Call, Scan(c)  PROVE PanelInv'
<1> DEFINE s == call[c].s
<1>1. /\ UNCHANGED <<single, row, managed, engine, epoch, fence, waking, mon>>
      /\ call[c].pc = "prune" /\ call[c].found = {} /\ call[c].pid = 0
  BY DEF Scan, AtEnd, known, stopVars
<1>2. CASE Superseded(c)
  <2>1. Ends(c) /\ upsets' = upsets
    BY <1>2 DEF Scan
  <2>. QED  BY <1>1, <2>1, Known, SameWanes, EndsStep, SessionsIdle, RequestPanel
<1>3. CASE ~Superseded(c)
  <2>1. PICK p \in Pid \cup {0}, q \in Pid \cup {0} :
          /\ Detects(s, p, q)
          /\ call' = [call EXCEPT ![c].pc = "adopt", ![c].pid = p, ![c].reply = ReplyOf(q)]
    BY <1>3 DEF Scan
  <2>2. upsets' = upsets \/ Upset
    BY <2>1 DEF Detects, Answers
  <2>3. s \in Session /\ call[c] \in CallType
    BY <1>1, Known DEF Shape
  <2> DEFINE r == [call[c] EXCEPT !.pc = "adopt", !.pid = p, !.reply = ReplyOf(q)]
  <2>4. /\ call' = [call EXCEPT ![c] = r] /\ r.pc = "adopt" /\ r.s = s /\ r.pid = p /\ r.found = {}
    BY <1>1, <2>1, <2>3 DEF CallType
  <2> HIDE DEF r
  <2>5. call'[c] = r /\ Reach(r) = {p} \ {0} /\ Reach(call[c]) = {}
    BY <1>1, <2>4, Known DEF Reach
  <2>6. (p # 0 => p \in Of(s)) /\ (p # 0 /\ Ordinary => Of(s) = {p})
    BY <2>1, <2>3, AnswersAlone DEF Detects
  <2>7. RequestOK(call[c])'
    <3>1. Aims(call[c])' /\ Vacant(call[c])' /\ Covers(call[c])' /\ Spawns(call[c])'
          /\ Wary(call[c])'
      BY <1>1, <2>4, <2>5, <2>6 DEF Aims, Vacant, Covers, Spawns, Wary, StopPc, NapPc, Reach,
         Present, Live, Of
    <3>2. Prunes(call[c])'
      <4>1. Ordinary /\ single => \A x \in Pid : Live(x) => x \in Of(s)
        BY <1>1, <2>5, Known DEF RequestOK, Prunes
      <4>. QED  BY <1>1, <2>4, <2>5, <4>1 DEF Prunes, Live, Present, Of, Ordinary
    <3>3. Clean(call[c])'
      BY <1>1, <2>4, <2>5, <2>6 DEF Clean, Present, Live, Reach, Ordinary, Of
    <3>. QED  BY <3>1, <3>2, <3>3 DEF RequestOK
  <2>8. \A d \in Call : RequestStep(d)
    <3>1. RequestStep(c)
      BY <1>1, <2>4, <2>5, <2>7 DEF RequestStep
    <3>. QED  BY <2>4, <3>1, Known, OneMoves
  <2>. QED  BY <1>1, <2>2, <2>8, Known, SameWanes, SessionsIdle, RequestPanel
<1>. QED  BY <1>2, <1>3

\* and adopts it, or turns to the other sessions.
LEMMA AdoptPanel ==
  ASSUME PanelInv, TurnInv', NEW c \in Call, Adopt(c)  PROVE PanelInv'
<1> DEFINE s == call[c].s
           p == call[c].pid
<1>1. /\ UNCHANGED <<single, engine, epoch, fence, waking, mon, upsets>> /\ call[c].pc = "adopt"
  BY DEF Adopt, stopVars
<1>2. s \in Session /\ call[c] \in CallType
  BY <1>1, Known DEF Shape
<1>3. CASE p # 0
  <2>1. p \in Pid /\ engine[p].of = s /\ p \in Reach(call[c]) /\ p \in 0..MaxPid
    BY <1>1, <1>2, <1>3, Known, Pids DEF CallType, RequestOK, Aims, Reach
  <2> DEFINE status == StatusOf(call[c].reply)
  <2>2. Update(s, status, p) /\ Manage(s, Owns("adopted", p)) /\ Ends(c)
    BY <1>3 DEF Adopt
  <2>3. status \in Status /\ status # "deleted"
    BY DEF StatusOf, Status
  <2> HIDE DEF status
  <2>4. Wanes
    BY <1>1, Known, SameWanes
  <2>5. Ordinary /\ There(s) => \A q \in Pid : Live(q)' /\ engine[q].of = s => q = p
    BY <1>1, <2>1, <2>4, Known DEF RequestOK, Clean, Wanes
  <2>7. \A t \in Session : SessionStep(t)
    BY <1>2, <2>1, <2>2, <2>3, <2>4, <2>5, OwnStep
  <2>8. row' \in [Session -> RowType] /\ managed' \in [Session -> ManagedType]
    BY <1>2, <2>1, <2>2, <2>3, Known, Kinds, UpdateIs, ManageIs
  <2>. QED  BY <1>1, <2>2, <2>4, <2>7, <2>8, EndsStep, RequestPanel
<1>4. CASE p = 0
  <2> DEFINE todo == {t \in Session \ {s} : row[t].status \in {"running", "loading", "standby"}}
  <2>1. call' = [call EXCEPT ![c].pc = "others", ![c].todo = todo] /\ UNCHANGED <<row, managed>>
    BY <1>4 DEF Adopt, known
  <2> HIDE DEF todo
  <2> DEFINE r == [call[c] EXCEPT !.pc = "others", !.todo = todo]
  <2>2. call' = [call EXCEPT ![c] = r] /\ r.pc = "others" /\ r.s = s
    BY <1>2, <2>1 DEF CallType
  <2> HIDE DEF r
  <2>3. call'[c] = r
    BY <2>2, Known
  <2>4. RequestOK(call[c])'
    <3>1. Aims(call[c])' /\ Vacant(call[c])' /\ Covers(call[c])' /\ Spawns(call[c])'
          /\ Wary(call[c])' /\ Clean(call[c])'
      BY <2>2, <2>3 DEF Aims, Vacant, Covers, Spawns, Wary, Clean, StopPc, NapPc
    <3>2. Prunes(call[c])'
      <4>1. Ordinary /\ single => \A q \in Pid : Live(q) => q \in Of(s)
        BY <1>1, Known DEF RequestOK, Prunes, Alone
      <4>. QED  BY <1>1, <2>2, <2>3, <4>1 DEF Prunes, Live, Present, Of, Ordinary
    <3>. QED  BY <3>1, <3>2 DEF RequestOK
  <2>5. \A d \in Call : RequestStep(d)
    <3>1. RequestStep(c)
      BY <1>1, <2>2, <2>3, <2>4 DEF RequestStep
    <3>. QED  BY <2>2, <3>1, Known, OneMoves
  <2>. QED  BY <1>1, <2>1, <2>5, Known, SameWanes, SessionsIdle, RequestPanel
<1>. QED  BY <1>3, <1>4

\* A stop is asked for: it notes the engine the row names,
LEMMA StoppingPanel ==
  ASSUME PanelInv, TurnInv', NEW c \in Call, NEW r \in CallType, NEW s \in Session,
         NEW then \in {"done", "restart", "delete", "others"}, Stopping(c, r, s, then),
         UNCHANGED <<single, row, managed, engine, waking, mon, upsets>>,
         call[c].pc # "ready", then = "others" => call[c].pc = "others" /\ r.s = call[c].s
  PROVE  PanelInv'
<1>1. PICK x \in CallType :
      /\ call' = [call EXCEPT ![c] = x] /\ x.pc = "stop" /\ x.victim = s /\ x.then = then
      /\ x.pid = row[s].pid /\ x.s = r.s
      /\ fence' = [fence EXCEPT ![s] = @ + 1] /\ epoch' = [epoch EXCEPT ![s] = @ + 1]
  <2> DEFINE x == [r EXCEPT !.pc = "stop", !.victim = s, !.then = then, !.pid = row[s].pid]
  <2>1. row[s].pid \in 0..MaxPid
    BY Known DEF RowType
  <2>2. x \in CallType /\ x.pc = "stop" /\ x.victim = s /\ x.then = then /\ x.pid = row[s].pid
        /\ x.s = r.s
    BY <2>1, Places DEF CallType
  <2>. QED  BY <2>2 DEF Stopping
<1>2. call'[c] = x /\ \A d \in Call \ {c} : call'[d] = call[d]
  BY <1>1, Known
<1>3. Wanes /\ (Ordinary' <=> Ordinary) /\ \A p \in Pid : Live(p)' <=> Live(p)
  BY Known, SameWanes
<1>4. row[s].pid # 0 => engine[row[s].pid].of = s
  BY Known DEF Agree
<1>5. RequestOK(call[c])'
  <2>1. Aims(call[c])'
    BY <1>1, <1>2, <1>4 DEF Aims
  <2>2. Vacant(call[c])' /\ Clean(call[c])' /\ Spawns(call[c])' /\ Wary(call[c])'
        /\ Covers(call[c])'
    BY <1>1, <1>2 DEF Vacant, Clean, Spawns, Wary, NapPc, Covers
  <2>3. Prunes(call[c])'
    <3> SUFFICES ASSUME Ordinary, single, then = "others", NEW p \in Pid, Live(p)'
                 PROVE  p \in Of(x.s)'
      BY <1>1, <1>2, <1>3 DEF Prunes, Alone, StopPc
    <3>1. Live(p) /\ call[c].pc = "others" /\ x.s = call[c].s
      BY <1>1 DEF Live
    <3>2. p \in Of(x.s)
      BY <3>1, Known DEF RequestOK, Prunes, Alone
    <3>. QED  BY <3>2 DEF Of, Present, Live
  <2>. QED  BY <2>1, <2>2, <2>3 DEF RequestOK
<1>6. RequestStep(c)
  BY <1>5 DEF RequestStep
<1>7. \A d \in Call : RequestStep(d)
  BY <1>1, <1>6, Known, OneMoves
<1>8. \A t \in Session : (fence'[t] = fence[t] /\ epoch'[t] = epoch[t]) \/ fence'[t] # 0
  <2>1. fence \in [Session -> Nat] /\ epoch \in [Session -> Nat]
    BY Known DEF TurnInv
  <2>2. fence'[s] # 0
    BY <1>1, <2>1
  <2>. QED  BY <1>1, <2>1, <2>2
<1>9. waking' \subseteq Session
  BY Known DEF SessionTypeOK
<1>. QED  BY <1>3, <1>7, <1>8, <1>9, Known, SessionsIdle, MonIdle, PanelStep

\* by itself or as the first half of a restart or a delete,
LEMMA AsksPanel ==
  ASSUME PanelInv, TurnInv', NEW c \in Call, AskStop(c) \/ AskRestart(c) \/ AskDelete(c)
  PROVE  PanelInv'
<1>0. /\ call[c].s \in Session /\ call[c] \in CallType /\ epoch[call[c].s] \in Nat
      /\ call[c].pc # "ready"
      /\ UNCHANGED <<single, row, managed, engine, waking, mon, upsets>>
  BY Known DEF AskStop, AskRestart, AskDelete, Asks, Shape, TurnInv, known
<1>1. CASE AskStop(c)
  BY <1>0, <1>1, StoppingPanel DEF AskStop
<1>2. CASE AskRestart(c)
  <2> DEFINE r == [call[c] EXCEPT !.entry = epoch[call[c].s] + 1]
  <2>1. r \in CallType
    BY <1>0 DEF CallType
  <2>2. Stopping(c, r, call[c].s, "restart")
    BY <1>2 DEF AskRestart
  <2> HIDE DEF r
  <2>. QED  BY <1>0, <2>1, <2>2, StoppingPanel
<1>3. CASE AskDelete(c)
  <2>1. CASE Stopping(c, call[c], call[c].s, "delete")
    BY <1>0, <2>1, StoppingPanel
  <2>2. CASE call' = [call EXCEPT ![c].pc = "delete"] /\ UNCHANGED <<stopVars, lock>>
    <3> DEFINE r == [call[c] EXCEPT !.pc = "delete"]
    <3>1. call' = [call EXCEPT ![c] = r] /\ r.pc = "delete"
      BY <1>0, <2>2 DEF CallType
    <3> HIDE DEF r
    <3>2. \A d \in Call : RequestStep(d)
      BY <1>0, <3>1, Known, QuietStep
    <3>. QED  BY <1>0, <2>2, <3>2, Known, SameWanes, SessionsIdle, RequestPanel DEF stopVars
  <2>. QED  BY <1>3, <2>1, <2>2 DEF AskDelete
<1>. QED  BY <1>1, <1>2, <1>3

\* or by a start in single-model mode.
LEMMA StopOthersPanel ==
  ASSUME PanelInv, TurnInv', NEW c \in Call, StopOthers(c)  PROVE PanelInv'
<1>1. /\ call[c].pc = "others" /\ UNCHANGED <<single, row, managed, engine, waking, mon, upsets>>
      /\ \/ \E s \in call[c].todo : Stopping(c, [call[c] EXCEPT !.todo = @ \ {s}], s, "others")
         \/ Ends(c) /\ UNCHANGED <<epoch, fence>>
         \/ call' = [call EXCEPT ![c].pc = "lock"] /\ UNCHANGED <<epoch, fence>>
  BY DEF StopOthers, Goes, stopVars, known
<1>2. call[c] \in CallType /\ call[c].s \in Session
  BY <1>1, Known DEF Shape
<1>3. ASSUME NEW s \in call[c].todo, Stopping(c, [call[c] EXCEPT !.todo = @ \ {s}], s, "others")
      PROVE  PanelInv'
  <2> DEFINE r == [call[c] EXCEPT !.todo = @ \ {s}]
  <2>1. s \in Session /\ r \in CallType /\ r.s = call[c].s
    BY <1>2 DEF CallType
  <2>2. Stopping(c, r, s, "others")
    BY <1>3
  <2> HIDE DEF r
  <2>. QED  BY <1>1, <2>1, <2>2, StoppingPanel
<1>4. CASE Ends(c) /\ UNCHANGED <<epoch, fence>>
  BY <1>1, <1>4, Known, SameWanes, EndsStep, SessionsIdle, RequestPanel
<1>5. CASE call' = [call EXCEPT ![c].pc = "lock"] /\ UNCHANGED <<epoch, fence>>
  <2> DEFINE r == [call[c] EXCEPT !.pc = "lock"]
  <2>1. call' = [call EXCEPT ![c] = r] /\ r.pc = "lock" /\ r.s = call[c].s
    BY <1>2, <1>5 DEF CallType
  <2> HIDE DEF r
  <2>2. call'[c] = r
    BY <2>1, Known
  <2>3. Aims(call[c])' /\ Vacant(call[c])' /\ Covers(call[c])' /\ Spawns(call[c])'
        /\ Wary(call[c])' /\ Clean(call[c])'
    BY <2>1, <2>2 DEF Aims, Vacant, Covers, Spawns, Wary, Clean, StopPc, NapPc
  <2>4. Prunes(call[c])'
    <3>1. Ordinary /\ single => \A q \in Pid : Live(q) => q \in Of(call[c].s)
      BY <1>1, Known DEF RequestOK, Prunes, Alone
    <3>. QED  BY <1>1, <2>1, <2>2, <3>1 DEF Prunes, Live, Present, Of, Ordinary
  <2>5. RequestStep(c)
    BY <1>1, <2>1, <2>2, <2>3, <2>4 DEF RequestStep, RequestOK
  <2>. QED  BY <1>1, <1>5, <2>1, <2>5, Known, OneMoves, SameWanes, SessionsIdle, RequestPanel
<1>. QED  BY <1>1, <1>3, <1>4, <1>5


\* A session that is not managed has an engine of an earlier run alone.
LEMMA Earlier ==
  ASSUME PanelInv, Ordinary, NEW s \in Session, There(s), ~Busy(s),
         NEW p \in Pid, Live(p), engine[p].of = s
  PROVE  p = 1 /\ engine[p].st # "booting" /\ \A q \in Pid : engine[q].of = s => q = 1
<1>1. ~engine[p].child /\ engine[p].st # "none"
  BY Known DEF Knows, Live
<1>2. p \notin Spawned
  BY <1>1, Known DEF EnginesShaped
<1>3. engine[MaxPid].st = "none" /\ engine[MaxPid].of # s
  BY Known, Pids DEF Ordinary, EnginesShaped
<1>4. \A q \in Pid : q = 1 \/ q = MaxPid \/ q \in Spawned
  BY SessionAssumption DEF Pid, Spawned
<1>5. p = 1
  BY <1>1, <1>2, <1>3, <1>4
<1>6. \A q \in Spawned : engine[q].of # s
  BY <1>5, Known DEF NotBeside
<1>. QED  BY <1>3, <1>4, <1>5, <1>6, Known DEF EnginesShaped

\* A start under its lock, single-model mode or not, leaves no other engine.
LEMMA PortPrunes ==
  ASSUME PanelInv, engine' = engine, single' = single, NEW c \in Call, Alone(call[c]),
         call'[c].s = call[c].s, call'[c].pc # "prune"
  PROVE  Prunes(call[c])'
<1>1. Ordinary /\ single => \A q \in Pid : Live(q) => q \in Of(call[c].s)
  BY Known DEF RequestOK, Prunes
<1>. QED  BY <1>1 DEF Prunes, Live, Present, Of, Ordinary

\* It goes on to spawn its engine.
LEMMA ToSpawn ==
  ASSUME PanelInv, TurnInv', NEW c \in Call, call[c].pc \in {"lock", "port"},
         Goes(c, "spawn"), UNCHANGED <<single, row, managed, engine, epoch, fence, waking, mon,
         upsets>>,
         Ordinary => \A p \in Pid : ~(Live(p) /\ engine[p].of = call[c].s)
  PROVE  PanelInv'
<1>1. PICK r : call' = [call EXCEPT ![c] = r] /\ r.pc = "spawn" /\ r.s = call[c].s
  <2>1. [call[c] EXCEPT !.pc = "spawn"].pc = "spawn"
        /\ [call[c] EXCEPT !.pc = "spawn"].s = call[c].s
    BY Known DEF CallType
  <2>. QED  BY <2>1 DEF Goes
<1>2. call'[c] = r
  BY <1>1, Known
<1>3. Aims(call[c])' /\ Clean(call[c])' /\ Covers(call[c])' /\ Spawns(call[c])' /\ Wary(call[c])'
  BY <1>1, <1>2 DEF Aims, Clean, Covers, Spawns, Wary, StopPc, NapPc
<1>4. Vacant(call[c])'
  BY <1>1, <1>2 DEF Vacant, Live, Ordinary
<1>5. Prunes(call[c])'
  <2>1. Alone(call[c])
    BY DEF Alone
  <2>. QED  BY <1>1, <1>2, <2>1, PortPrunes
<1>6. RequestStep(c)
  BY <1>2, <1>3, <1>4, <1>5 DEF RequestStep, RequestOK
<1>. QED  BY <1>1, <1>6, Known, OneMoves, SameWanes, SessionsIdle, RequestPanel

\* A start gets its lock: of a session that is not managed no engine can be
\* loaded but one of an earlier run, and that holds the port.
LEMMA PreparePanel ==
  ASSUME PanelInv, TurnInv', NEW c \in Call, Prepare(c)  PROVE PanelInv'
<1>s. PICK s \in Session : s = call[c].s
  BY Known DEF Prepare, Shape
<1>1. /\ call[c].pc = "lock" /\ Holds(c, s)
      /\ UNCHANGED <<single, row, managed, engine, epoch, fence, waking, mon, upsets>>
      /\ \/ Ends(c)
         \/ There(s) /\ ~Busy(s) /\ PortIs(s, TRUE) /\ Goes(c, "spawn")
         \/ /\ There(s) /\ ~Busy(s)
            /\ \E p \in Of(s) : call' = [call EXCEPT ![c].pc = "port", ![c].found = {p}]
  BY <1>s DEF Prepare, FreePort, stopVars, known, There
<1>2. CASE Ends(c)
  BY <1>1, <1>2, Known, SameWanes, EndsStep, SessionsIdle, RequestPanel
<1>3. CASE There(s) /\ ~Busy(s) /\ PortIs(s, TRUE) /\ Goes(c, "spawn")
  <2>1. ASSUME Ordinary, NEW p \in Pid, Live(p), engine[p].of = s  PROVE FALSE
    <3>1. engine[p].st # "booting" /\ p \in Of(s)
      BY <1>3, <2>1, Earlier DEF Of, Present
    <3>2. p \in Serving(s)
      BY <2>1, <3>1 DEF Serving, Serves, Live
    <3>. QED  BY <1>3, <3>2 DEF PortIs
  <2>. QED  BY <1>s, <1>1, <1>3, <2>1, ToSpawn
<1>4. ASSUME There(s), ~Busy(s), NEW p \in Of(s),
             call' = [call EXCEPT ![c].pc = "port", ![c].found = {p}]
      PROVE  PanelInv'
  <2>1. call[c] \in CallType /\ call[c].pid = 0 /\ p \in Pid /\ engine[p].of = s
    BY <1>1, <1>4, Known DEF Shape, Of
  <2> DEFINE r == [call[c] EXCEPT !.pc = "port", !.found = {p}]
  <2>2. call' = [call EXCEPT ![c] = r] /\ r.pc = "port" /\ r.s = s /\ r.found = {p} /\ r.pid = 0
    BY <1>s, <1>4, <2>1 DEF CallType
  <2> HIDE DEF r
  <2>3. call'[c] = r
    BY <2>2, Known
  <2>4. Reach(r) = {p}
    BY <2>1, <2>2, Pids DEF Reach
  <2>5. /\ Wanes /\ (Ordinary' <=> Ordinary) /\ engine' = engine /\ (There(s)' <=> There(s))
        /\ \A q \in Pid : Live(q)' <=> Live(q)
    BY <1>1, Known, SameWanes DEF There
  <2>6. Reach(call'[c]) = {p} /\ call'[c].pc = "port" /\ call'[c].s = s
    BY <2>2, <2>3, <2>4
  <2>7. Aims(call[c])' /\ Covers(call[c])' /\ Spawns(call[c])' /\ Wary(call[c])'
    BY <2>1, <2>5, <2>6 DEF Aims, Covers, Spawns, Wary, StopPc, NapPc
  <2>8. Vacant(call[c])'
    BY <1>4, <2>5, <2>6, Earlier DEF Vacant
  <2>9. Clean(call[c])'
    <3> SUFFICES ASSUME Ordinary, NEW q \in Pid, Live(q), engine[q].of = s  PROVE q = p
      BY <2>1, <2>5, <2>6 DEF Clean
    <3>. QED  BY <1>4, <2>1, Earlier
  <2>10. Prunes(call[c])'
    <3>1. Alone(call[c])
      BY <1>1 DEF Alone
    <3>. QED  BY <1>s, <1>1, <2>6, <3>1, PortPrunes
  <2>11. RequestStep(c)
    BY <1>1, <2>7, <2>8, <2>9, <2>10 DEF RequestStep, RequestOK
  <2>. QED  BY <1>1, <2>2, <2>5, <2>11, Known, OneMoves, SessionsIdle, RequestPanel
<1>. QED  BY <1>1, <1>2, <1>3, <1>4

\* It tries the port again.
LEMMA RecheckPanel ==
  ASSUME PanelInv, TurnInv', NEW c \in Call, Recheck(c)  PROVE PanelInv'
<1>s. PICK s \in Session : s = call[c].s
  BY Known DEF Recheck, AtEnd, Shape
<1>1. /\ call[c].pc = "port"
      /\ UNCHANGED <<single, row, managed, engine, epoch, fence, waking, mon, upsets>>
      /\ Ends(c) \/ (PortIs(s, TRUE) /\ Goes(c, "spawn"))
  BY <1>s DEF Recheck, AtEnd, stopVars, known
<1>2. CASE Ends(c)
  BY <1>1, <1>2, Known, SameWanes, EndsStep, SessionsIdle, RequestPanel
<1>3. CASE PortIs(s, TRUE) /\ Goes(c, "spawn")
  <2>1. ASSUME Ordinary, NEW p \in Pid, Live(p), engine[p].of = s  PROVE FALSE
    <3>1. p = 1
      BY <1>s, <1>1, <2>1, Known DEF RequestOK, Vacant
    <3>2. p \in Serving(s)
      BY <2>1, <3>1, Known DEF Serving, Serves, Live, Of, Present, EnginesShaped
    <3>. QED  BY <1>3, <3>2 DEF PortIs
  <2>. QED  BY <1>s, <1>1, <1>3, <2>1, ToSpawn
<1>. QED  BY <1>1, <1>2, <1>3

\* An engine is started.
Arrives(p, s) ==
  /\ engine[p].st = "none" /\ p # 1
  /\ engine' \in [Pid -> EngineType]
  /\ \A q \in Pid \ {p} : engine'[q] = engine[q]
  /\ engine'[p].of = s /\ engine'[p].st = "booting" /\ engine'[p].swept = "no"
  /\ engine'[p].child <=> p \in Spawned

\* It is one more:
LEMMA ArrivesFacts ==
  ASSUME EnginesShaped, NEW s \in Session, NEW p \in Pid, Arrives(p, s)
  PROVE  /\ \A q \in Pid \ {p} : /\ engine'[q] = engine[q]
                                 /\ (Live(q)' <=> Live(q)) /\ (Present(q)' <=> Present(q))
                                 /\ (LiveChild(q)' <=> LiveChild(q)) /\ (Serves(q)' <=> Serves(q))
         /\ Live(p)' /\ ~Serves(p)' /\ engine[p].of \notin Session
         /\ engine'[p].of = s /\ engine'[p].st = "booting"
         /\ EnginesShaped'
         /\ Ordinary' => Ordinary /\ p # MaxPid
<1>1. \A q \in Pid \ {p} : /\ (Live(q)' <=> Live(q)) /\ (Present(q)' <=> Present(q))
                           /\ (LiveChild(q)' <=> LiveChild(q)) /\ (Serves(q)' <=> Serves(q))
  BY DEF Arrives, Live, Present, LiveChild, Serves
<1>2. Live(p)' /\ ~Serves(p)' /\ engine[p].of \notin Session
  BY DEF Arrives, Live, Serves, EnginesShaped
<1>3. EnginesShaped'
  BY Pids DEF Arrives, EnginesShaped
<1>4. Ordinary' => Ordinary /\ p # MaxPid
  BY Pids DEF Arrives, Ordinary, EnginesShaped
<1>. QED  BY <1>1, <1>2, <1>3, <1>4 DEF Arrives

\* what becomes of the other requests,
LEMMA ArrivesOther ==
  ASSUME PanelInv, NEW s \in Session, NEW p \in Pid, Arrives(p, s), single' = single,
         NEW d \in Call, call'[d] = call[d],
         \A t \in Session : There(t)' <=> There(t),
         \A t \in Session : MissedBy(t)' => MissedBy(t),
         Ordinary' => /\ call[d].pc \in HoldPc => At(call[d]) # s
                      /\ ~Transit(call[d])
  PROVE  RequestOK(call[d])'
<1> DEFINE r == call[d]
<1>0. /\ r \in CallType /\ Reach(r) \in SUBSET Pid /\ (r.pid # 0 => r.pid \in Pid)
      /\ (r.pc # "done" => r.s \in Session) /\ Reach(r)' = Reach(r)
      /\ (r.pc \in StopPc => r.victim \in Session)
      /\ Shape(r, single, epoch)
      /\ Aims(r) /\ Vacant(r) /\ Prunes(r) /\ Clean(r) /\ Covers(r) /\ Spawns(r) /\ Wary(r)
  BY Known, Pids DEF CallType, Reach, Shape, RequestOK
<1>f. /\ \A q \in Pid \ {p} : engine'[q] = engine[q] /\ (Live(q)' <=> Live(q))
      /\ engine[p].of \notin Session /\ (Ordinary' => Ordinary)
      /\ engine'[p].of = s /\ engine'[p].st = "booting"
  BY Known, ArrivesFacts
<1>h. /\ r.pc \in {"port", "spawn"} => At(r) = r.s /\ r.pc \in HoldPc
      /\ r.pc \in {"purge", "child", "adopted", "leftover"} => At(r) = r.victim /\ r.pc \in HoldPc
      /\ Ordinary' => ~(r.pc \in {"prune", "adopt"})
      /\ Ordinary' /\ single => ~Alone(r)
  BY <1>0 DEF At, LockPc, HoldPc, StopPc, Transit, InGate, TransitPc, Alone, Shape
<1>1. Aims(call[d])'
  <2>1. \A q \in Pid : engine[q].of \in Session => engine'[q].of = engine[q].of
    BY <1>f
  <2>2. \A q \in Pid : engine[q].st # "none" => engine'[q].st # "none"
    BY <1>f
  <2>. QED  BY <1>0, <2>1, <2>2 DEF Aims, StopPc
<1>2. Vacant(call[d])'
  <2> SUFFICES ASSUME Ordinary', r.pc \in {"port", "spawn"}, NEW q \in Pid, Live(q)',
                      engine'[q].of = r.s
               PROVE  r.pc = "port" /\ q = 1
    BY DEF Vacant
  <2>1. q # p /\ Live(q) /\ engine[q].of = r.s
    BY <1>f, <1>h
  <2>. QED  BY <1>0, <1>f, <2>1 DEF Vacant
<1>3. Prunes(call[d])'
  BY <1>h DEF Prunes, Alone
<1>4. Clean(call[d])'
  <2> SUFFICES ASSUME Ordinary', r.pc \in {"port", "purge"}, NEW a \in Reach(r), NEW q \in Pid,
                      Live(q)', engine'[q].of = engine'[a].of,
                      row'[engine'[a].of].status # "deleted"
               PROVE  q = a
    BY <1>0, <1>h DEF Clean, There
  <2>1. engine[a].of \in Session /\ engine[a].of # s /\ a \in Pid
    BY <1>0, <1>h DEF Aims, StopPc
  <2>2. a # p /\ q # p /\ Live(q) /\ engine[q].of = engine[a].of
    BY <1>f, <2>1
  <2>3. There(engine[a].of)
    BY <1>f, <2>1, <2>2 DEF There
  <2>. QED  BY <1>0, <1>f, <2>2, <2>3 DEF Clean
<1>5. Covers(call[d])'
  <2> SUFFICES ASSUME Ordinary', r.pc \in StopPc, There(r.victim)', NEW q \in Pid, Live(q)',
                      engine'[q].of = r.victim, r.pc # "stop"
               PROVE  r.pc = "purge" /\ q \in Reach(r)
    BY <1>0 DEF Covers
  <2>1. r.victim # s
    BY <1>h DEF StopPc
  <2>2. q # p /\ Live(q) /\ engine[q].of = r.victim /\ There(r.victim)
    BY <1>0, <1>f, <2>1
  <2>. QED  BY <1>0, <1>f, <2>2 DEF Covers
<1>6. Spawns(call[d])'
  <2> SUFFICES ASSUME r.pc \in {"ready", "answered"}  PROVE \E q \in Spawned : engine'[q].of = r.s
    BY <1>0 DEF Spawns
  <2>1. PICK q \in Spawned : engine[q].of = r.s
    BY <1>0 DEF Spawns
  <2>. QED  BY <1>0, <1>f, <2>1, Pids
<1>7. Wary(call[d])'
  <2> SUFFICES ASSUME r.pc \in NapPc, MissedBy(r.s)'  PROVE FALSE
    BY DEF Wary, MissedBy, NapPc, There
  <2>. QED  BY <1>0 DEF Wary, NapPc
<1>. QED  BY <1>1, <1>2, <1>3, <1>4, <1>5, <1>6, <1>7 DEF RequestOK

\* A start that spawns its engine keeps the other requests from its session's
\* engines, and in single-model mode the other starts from any.
LEMMA SpawnsAlone ==
  ASSUME PanelInv, NEW c \in Call, call[c].pc = "spawn", NEW d \in Call \ {c}
  PROVE  /\ call[d].pc \in HoldPc => At(call[d]) # call[c].s
         /\ ~Transit(call[d])
<1>1. \A e \in Call : call[e].pc \in HoldPc => lock[At(call[e])][1] = e
  BY Known DEF TurnInv, Locks
<1>2. At(call[c]) = call[c].s /\ call[c].pc \in HoldPc
  BY DEF At, LockPc, HoldPc
<1>3. call[d].pc \in HoldPc => At(call[d]) # call[c].s
  BY <1>1, <1>2
<1>4. ~Transit(call[d])
  <2>1. single => Transit(call[c])
    BY DEF Transit, InGate, TransitPc
  <2>. QED  BY <2>1, Known DEF TurnInv, Gates, Transit, InGate
<1>. QED  BY <1>3, <1>4

\* The panel spawns an engine: none is loaded for the session.
LEMMA SpawnedPanel ==
  ASSUME PanelInv, TurnInv', NEW c \in Call, NEW p \in Fresh, NEW s \in Session, s = call[c].s,
         call[c].pc = "spawn",
         engine' = [engine EXCEPT ![p] = [NoEngine EXCEPT !.of = s, !.st = "booting",
                                            !.child = TRUE, !.since = call[c].entry]],
         Update(s, "loading", p), Manage(s, Owns("child", p)), Goes(c, "ready"),
         UNCHANGED <<single, epoch, fence, waking, mon, upsets>>
  PROVE  PanelInv'
<1>1. p \in Spawned /\ p \in Pid /\ p # 1 /\ p # MaxPid /\ engine[p].st = "none"
      /\ p \in 0..MaxPid /\ p # 0
  BY Pids DEF Fresh, Spawned
<1>2. call[c] \in CallType
  BY Known
<1>3. Ordinary => \A q \in Pid : ~(Live(q) /\ engine[q].of = s)
  BY Known DEF RequestOK, Vacant
<1>4. Arrives(p, s) /\ engine'[p].child /\ engine'[p].since = call[c].entry
  <2> DEFINE e == [NoEngine EXCEPT !.of = s, !.st = "booting", !.child = TRUE,
                  !.since = call[c].entry]
  <2>1. e \in EngineType
    BY <1>2 DEF NoEngine, EngineType, EngineSt, CallType
  <2>2. engine' = [engine EXCEPT ![p] = e]
    OBVIOUS
  <2>3. e.of = s /\ e.st = "booting" /\ e.child /\ e.swept = "no" /\ e.since = call[c].entry
    BY DEF NoEngine
  <2> HIDE DEF e
  <2>4. engine'[p] = e /\ engine' \in [Pid -> EngineType]
        /\ \A q \in Pid \ {p} : engine'[q] = engine[q]
    BY <1>1, <2>1, <2>2, Known
  <2>. QED  BY <1>1, <2>3, <2>4 DEF Arrives
<1>f. /\ \A q \in Pid \ {p} : /\ engine'[q] = engine[q]
                              /\ (Live(q)' <=> Live(q)) /\ (Present(q)' <=> Present(q))
                              /\ (LiveChild(q)' <=> LiveChild(q)) /\ (Serves(q)' <=> Serves(q))
      /\ Live(p)' /\ ~Serves(p)' /\ engine[p].of \notin Session
      /\ engine'[p].of = s /\ engine'[p].st = "booting"
      /\ EnginesShaped'
      /\ Ordinary' => Ordinary
  BY <1>1, <1>4, Known, ArrivesFacts
<1>5. /\ \A t \in Session \ {s} : row'[t] = row[t]
      /\ row[s].status = "deleted" => row'[s] = row[s]
      /\ row[s].status # "deleted" => row'[s].status = "loading" /\ row'[s].pid = p
      /\ row' \in [Session -> RowType]
      /\ row'[s].status = "deleted" <=> row[s].status = "deleted"
  BY <1>1, Known, Kinds, UpdateIs DEF Status
<1>6. /\ managed'[s].pid = p /\ managed'[s].kind = "child"
      /\ \A t \in Session \ {s} : managed'[t] = managed[t]
      /\ managed' \in [Session -> ManagedType]
  <2>1. Owns("child", p) \in ManagedType
    BY <1>1, Kinds
  <2>2. /\ managed' \in [Session -> ManagedType] /\ managed'[s] = Owns("child", p)
        /\ \A t \in Session \ {s} : managed'[t] = managed[t]
    BY <2>1, Known, ManageIs
  <2>. QED  BY <2>2 DEF Owns
<1>7. \A t \in Session : There(t)' <=> There(t)
  BY <1>5 DEF There
<1>8. \A t \in Session : MissedBy(t)' => t # s /\ MissedBy(t)
  <2> SUFFICES ASSUME NEW t \in Session, MissedBy(t)'  PROVE t # s /\ MissedBy(t)
    OBVIOUS
  <2>1. Ordinary /\ Live(1) /\ engine[1].of = t /\ There(t)
    BY <1>1, <1>7, <1>f, Pids DEF MissedBy
  <2>2. t # s
    BY <1>3, <2>1, Pids
  <2>. QED  BY <1>6, <2>1, <2>2 DEF MissedBy
<1>9. OneEach' /\ NotBeside' /\ Solo'
  <2>1. OneEach'
    <3> SUFFICES ASSUME Ordinary, NEW a \in Pid, NEW b \in Pid, engine'[a].of = engine'[b].of,
                        Live(b)', Live(a)' \/ (Serves(b)' /\ Present(a)')
                 PROVE  a = b
      BY <1>f DEF OneEach
    <3>1. CASE a # p /\ b # p
      BY <1>f, <3>1, Known DEF OneEach
    <3>2. CASE b = p /\ a # p
      BY <1>3, <1>f, <3>2
    <3>3. CASE a = p /\ b # p
      BY <1>3, <1>f, <3>3
    <3>. QED  BY <3>1, <3>2, <3>3
  <2>2. NotBeside'
    <3> SUFFICES ASSUME Ordinary, Live(1)', NEW a \in Spawned  PROVE engine'[a].of # engine'[1].of
      BY <1>f DEF NotBeside
    <3>1. Live(1) /\ engine'[1] = engine[1]
      BY <1>1, <1>f, Pids
    <3>2. CASE a = p
      BY <1>3, <1>f, <3>1, <3>2, Pids
    <3>3. CASE a # p
      BY <1>f, <3>1, <3>3, Known, Pids DEF NotBeside
    <3>. QED  BY <3>2, <3>3
  <2>3. Solo'
    <3> SUFFICES ASSUME Ordinary, single, NEW a \in Pid, Live(a)'  PROVE a = p
      BY <1>f DEF Solo
    <3>1. a # p => Live(a) /\ a \in Of(s)
      BY <1>f, Known DEF RequestOK, Prunes, Alone
    <3>. QED  BY <1>3, <3>1 DEF Of
  <2>. QED  BY <2>1, <2>2, <2>3
<1>10. PICK r : call' = [call EXCEPT ![c] = r] /\ r.pc = "ready" /\ r.s = s
  <2>1. [call[c] EXCEPT !.pc = "ready"].pc = "ready" /\ [call[c] EXCEPT !.pc = "ready"].s = s
    BY <1>2 DEF CallType
  <2>. QED  BY <2>1 DEF Goes
<1>11. call'[c] = r /\ \A d \in Call \ {c} : call'[d] = call[d]
  BY <1>10, Known
<1>12. \A t \in Session : Agree(t)' /\ Knows(t)'
  <2> TAKE t \in Session
  <2>1. CASE t = s
    <3>1. Busy(s)'
      BY <1>6 DEF Busy
    <3>2. Agree(s)'
      BY <1>1, <1>5, <1>6, <1>7, <1>f, <3>1, Known DEF Agree, There
    <3>3. Knows(s)'
      BY <1>3, <1>6, <1>f, <3>1 DEF Knows
    <3>. QED  BY <2>1, <3>2, <3>3
  <2>2. CASE t # s
    <3>1. (Busy(t)' <=> Busy(t)) /\ row'[t] = row[t] /\ managed'[t] = managed[t]
      BY <1>5, <1>6, <2>2 DEF Busy
    <3>2. row[t].pid # 0 => row[t].pid \in Pid /\ row[t].pid # p
      BY <1>f, Known, Pids DEF RowType, Agree
    <3>3. Agree(t)'
      BY <1>7, <1>f, <3>1, <3>2, Known DEF Agree
    <3>4. Knows(t)'
      BY <1>7, <1>f, <2>2, <3>1, Known DEF Knows
    <3>. QED  BY <3>3, <3>4
  <2>. QED  BY <2>1, <2>2
<1>13. \A t \in Session : Unseen(t)'
  <2>1. Todo' = Todo
    BY DEF Todo
  <2>. QED  BY <1>5, <1>8, <2>1, Known DEF Unseen
<1>14. \A t \in Session : Wins(t)'
  <2> SUFFICES ASSUME NEW t \in Session, Ordinary, There(t), NEW q \in Pid, LiveChild(q)',
                      engine'[q].of = t, fence[t] = 0
               PROVE  engine'[q].since = epoch[t]
    BY <1>7, <1>f DEF Wins
  <2>1. CASE q = p
    <3>1. call[c].entry = epoch[s] \/ fence[s] > 0
      BY Known DEF TurnInv, PortFenced
    <3>. QED  BY <1>4, <1>f, <2>1, <3>1
  <2>2. CASE q # p
    BY <1>f, <2>2, Known DEF Wins
  <2>. QED  BY <2>1, <2>2
<1>15. \A t \in Session : Replaced(t)'
  <2> SUFFICES ASSUME NEW t \in Session, Overlaps(t)'  PROVE Waiting(t)'
    BY DEF Replaced
  <2>1. CASE t = s
    BY <1>10, <1>11, <2>1 DEF Waiting
  <2>2. CASE t # s
    <3>1. Overlaps(t)
      BY <1>7, <1>f, <2>2 DEF Overlaps
    <3>2. PICK d \in Call : call[d].pc = "ready" /\ call[d].s = t
      BY <3>1, Known DEF Replaced, Waiting
    <3>. QED  BY <1>11, <3>2 DEF Waiting
  <2>. QED  BY <2>1, <2>2
<1>16. \A d \in Call : RequestOK(call[d])'
  <2>1. RequestOK(call[c])'
    <3>1. Spawns(call[c])'
      BY <1>1, <1>10, <1>11, <1>f DEF Spawns
    <3>2. Aims(call[c])' /\ Vacant(call[c])' /\ Covers(call[c])' /\ Wary(call[c])'
          /\ Clean(call[c])' /\ Prunes(call[c])'
      BY <1>10, <1>11 DEF Aims, Vacant, Covers, Wary, Clean, Prunes, Alone, StopPc, NapPc
    <3>. QED  BY <3>1, <3>2 DEF RequestOK
  <2>2. ASSUME NEW d \in Call \ {c}  PROVE RequestOK(call[d])'
    BY <1>1, <1>4, <1>7, <1>8, <1>11, SpawnsAlone, ArrivesOther
  <2>. QED  BY <2>1, <2>2
<1>17. MonFinds'
  <2>1. mon.pc = "adopt" /\ mon.pid # 0 => ~Ordinary /\ engine[mon.pid].of \in Session
        /\ mon.pid \in Pid
    BY Known, Pids DEF MonFinds, MonShaped
  <2>. QED  BY <1>f, <2>1, Known DEF MonFinds
<1>18. Rest'
  BY <1>9, <1>12, <1>13, <1>14, <1>15, <1>16, <1>17 DEF Rest, SessionOK
<1>19. Typed'
  BY <1>f, <1>5, <1>6, Known DEF Typed, SessionTypeOK, MonShaped, RowType, ManagedType, TurnInv
<1>. QED  BY <1>18, <1>19 DEF PanelInv

\* Somebody starts one by hand: from then on less is promised.
LEMMA ByHandPanel ==
  ASSUME PanelInv, TurnInv', NEW s \in Session, ByHand(s)  PROVE PanelInv'
<1>1. /\ engine[MaxPid].st = "none" /\ Upset
      /\ engine' = [engine EXCEPT ![MaxPid] = [NoEngine EXCEPT !.of = s, !.st = "booting"]]
      /\ UNCHANGED <<single, row, managed, epoch, fence, waking, call, mon>>
  BY DEF ByHand, known, stopVars
<1>p. PICK p \in Pid : p = MaxPid
  BY Pids
<1>2. Arrives(p, s)
  <2> DEFINE e == [NoEngine EXCEPT !.of = s, !.st = "booting"]
  <2>1. e \in EngineType
    BY DEF NoEngine, EngineType, EngineSt
  <2>2. engine' = [engine EXCEPT ![p] = e]
    BY <1>1, <1>p
  <2>3. e.of = s /\ e.st = "booting" /\ e.child = FALSE /\ e.swept = "no"
    BY DEF NoEngine
  <2> HIDE DEF e
  <2>4. engine'[p] = e /\ engine' \in [Pid -> EngineType]
        /\ \A q \in Pid \ {p} : engine'[q] = engine[q]
    BY <2>1, <2>2, Known
  <2>. QED  BY <1>1, <1>p, <2>3, <2>4, Pids DEF Arrives
<1>f. /\ \A q \in Pid \ {p} : engine'[q] = engine[q]
      /\ engine[p].of \notin Session /\ engine'[p].of = s
      /\ EnginesShaped' /\ ~Ordinary'
  BY <1>p, <1>2, Known, ArrivesFacts
<1>3. \A t \in Session : There(t)' <=> There(t)
  BY <1>1 DEF There
<1>4. \A t \in Session : ~MissedBy(t)' /\ ~Overlaps(t)'
  BY <1>f DEF MissedBy, Overlaps
<1>5. \A t \in Session : Agree(t)'
  <2> TAKE t \in Session
  <2>1. Agree(t) /\ (Busy(t)' <=> Busy(t))
    BY <1>1, Known DEF Busy
  <2>2. row[t].pid # 0 => row[t].pid \in Pid
    BY Known, Pids DEF RowType
  <2>. QED  BY <1>1, <1>3, <1>f, <2>1, <2>2 DEF Agree
<1>6. \A t \in Session : SessionOK(t)'
  BY <1>4, <1>5, <1>f DEF SessionOK, Knows, Unseen, Wins, Replaced
<1>7. \A d \in Call : RequestOK(call[d])'
  BY <1>1, <1>2, <1>3, <1>4, <1>f, ArrivesOther
<1>8. OneEach' /\ NotBeside' /\ Solo'
  BY <1>f DEF OneEach, NotBeside, Solo
<1>9. MonFinds'
  <2>1. mon.pc = "adopt" /\ mon.pid # 0 => engine[mon.pid].of = mon.s /\ mon.s \in Session
        /\ mon.pid \in Pid
    BY Known, Pids DEF MonFinds, MonShaped
  <2>. QED  BY <1>1, <1>f, <2>1 DEF MonFinds
<1>10. Rest'
  BY <1>6, <1>7, <1>8, <1>9 DEF Rest
<1>11. Typed'
  <2>1. upsets' \in 0..MaxUpset
    BY <1>1, Known, SessionAssumption DEF SessionTypeOK, Upset
  <2>. QED  BY <1>1, <1>f, <2>1, Known DEF Typed, SessionTypeOK, MonShaped, RowType,
               ManagedType, TurnInv
<1>. QED  BY <1>10, <1>11 DEF PanelInv

\* A start spawns its engine, or fails.
LEMMA SpawnPanel ==
  ASSUME PanelInv, TurnInv', NEW c \in Call, Spawn(c)  PROVE PanelInv'
<1>s. PICK s \in Session : s = call[c].s
  BY Known DEF Spawn, Shape
<1>1. call[c].pc = "spawn" /\ UNCHANGED <<single, epoch, fence, waking, mon>>
  BY DEF Spawn, stopVars
<1>2. \/ /\ \E p \in Fresh :
             /\ engine' = [engine EXCEPT ![p] = [NoEngine EXCEPT !.of = s, !.st = "booting",
                                                  !.child = TRUE, !.since = call[c].entry]]
             /\ Update(s, "loading", p) /\ Manage(s, Owns("child", p))
         /\ Goes(c, "ready") /\ upsets' = upsets
      \/ /\ Upset /\ Ends(c) /\ engine' = engine
         /\ \/ Update(s, "error", 0) /\ Manage(s, Unmanaged)
            \/ UNCHANGED <<row, managed>>
  BY <1>s DEF Spawn, known
<1>3. ASSUME NEW p \in Fresh, Goes(c, "ready"), upsets' = upsets,
             engine' = [engine EXCEPT ![p] = [NoEngine EXCEPT !.of = s, !.st = "booting",
                                                !.child = TRUE, !.since = call[c].entry]],
             Update(s, "loading", p), Manage(s, Owns("child", p))
      PROVE  PanelInv'
  BY <1>s, <1>1, <1>3, SpawnedPanel
<1>4. CASE Upset /\ Ends(c) /\ engine' = engine /\ UNCHANGED <<row, managed>>
  BY <1>1, <1>4, Known, SameWanes, EndsStep, SessionsIdle, RequestPanel
<1>5. CASE Upset /\ Ends(c) /\ engine' = engine /\ Update(s, "error", 0) /\ Manage(s, Unmanaged)
  <2>2. Ordinary => \A q \in Pid : engine[q].of = s => ~Live(q)
    BY <1>s, <1>1, Known DEF RequestOK, Vacant
  <2>3. /\ row' \in [Session -> RowType] /\ managed' \in [Session -> ManagedType]
        /\ \A t \in Session \ {s} : row'[t] = row[t] /\ managed'[t] = managed[t]
        /\ row'[s].pid = 0 /\ managed'[s] = Unmanaged
        /\ row'[s].status = "deleted" <=> row[s].status = "deleted"
    <3>1. row[s].status = "deleted" => row[s].pid = 0
      BY Known DEF Agree, There
    <3>. QED  BY <1>5, <3>1, Known, Kinds, Pids, UpdateIs, ManageIs
  <2>4. Wanes /\ \A q \in Pid : Live(q)' <=> Live(q)
    BY <1>5, Known, SameWanes
  <2>5. \A t \in Session : SessionStep(t)
    BY <2>2, <2>3, <2>4, DropStep DEF Unmanaged
  <2>. QED  BY <1>1, <1>5, <2>3, <2>4, <2>5, EndsStep, RequestPanel
<1>. QED  BY <1>2, <1>3, <1>4, <1>5

\* A session that a start has spawned an engine for was not missed.
LEMMA NotMissed ==
  ASSUME PanelInv, NEW c \in Call, call[c].pc \in {"ready", "answered"}
  PROVE  ~MissedBy(call[c].s)
<1>1. PICK p \in Spawned : engine[p].of = call[c].s
  BY Known DEF RequestOK, Spawns
<1>. QED  BY <1>1, Known DEF MissedBy, NotBeside

\* A start that ends with a word on the row.
LEMMA VerdictPanel ==
  ASSUME PanelInv, TurnInv', NEW c \in Call, call[c].pc \in {"ready", "answered"},
         call[c].pc = "ready" => ~Overlaps(call[c].s),
         NEW status \in {"error", "running"}, Mark(call[c].s, status), Ends(c),
         UNCHANGED <<single, managed, engine, epoch, fence, waking, mon>>, upsets' = upsets \/ Upset
  PROVE  PanelInv'
<1>1. call[c].s \in Session /\ status \in Status /\ status # "deleted"
  BY Known, Kinds DEF Shape
<1>2. Wanes
  BY Known, SameWanes
<1>3. \A t \in Session : SessionStep(t)
  BY <1>1, <1>2, NotMissed, MarkStep
<1>4. /\ row' \in [Session -> RowType] /\ managed' \in [Session -> ManagedType]
      /\ \A t \in Session : There(t)' => There(t)
  BY <1>1, Known, MarkIs DEF There
<1>5. call[c].pc = "ready" => \A s \in Session : s = call[c].s => ~Overlaps(s)'
  BY <1>4 DEF Overlaps, Ordinary, Live
<1>. QED  BY <1>2, <1>3, <1>4, <1>5, EndsStep, RequestPanel

\* A start waits for its engine, and no longer when none is ending beside it;
LEMMA PollPanel ==
  ASSUME PanelInv, TurnInv', NEW c \in Call, Poll(c)  PROVE PanelInv'
<1>s. PICK s \in Session : s = call[c].s
  BY Known DEF Poll, Shape
<1>1. /\ call[c].pc = "ready" /\ UNCHANGED <<single, managed, engine, epoch, fence, waking, mon>>
      /\ \/ Mark(call[c].s, "error") /\ Ends(c) /\ (upsets' = upsets \/ Upset)
         \/ Goes(c, "answered") /\ UNCHANGED <<row, upsets>>
      /\ \/ ~Busy(s)
         \/ \E p \in Of(s) : engine[p].st = "up"
         \/ Hopeless(s)
         \/ \A p \in Of(s) : engine[p].st # "dying"
  BY <1>s DEF Poll, stopVars
<1>2. ~Overlaps(s)
  <2> SUFFICES ASSUME Ordinary, There(s), NEW p \in Pid, NEW q \in Pid, engine[p].of = s,
                      engine[p].st = "dying", engine[q].of = s, Live(q)
               PROVE  FALSE
    BY DEF Overlaps
  <2>1. p \in Of(s) /\ Present(p) /\ ~Live(p) /\ p # q
    BY DEF Of, Present, Live
  <2>2. CASE ~Busy(s)
    BY <2>1, <2>2, Earlier
  <2>3. ASSUME NEW x \in Of(s), engine[x].st = "up"  PROVE FALSE
    <3>1. x \in Pid /\ engine[x].of = s /\ Live(x) /\ Serves(x)
      BY <2>3 DEF Of, Live, Serves
    <3>. QED  BY <2>1, <3>1, Known DEF OneEach
  <2>4. CASE Hopeless(s)
    BY <2>4 DEF Hopeless
  <2>. QED  BY <1>1, <2>1, <2>2, <2>3, <2>4
<1>3. CASE Mark(call[c].s, "error") /\ Ends(c) /\ (upsets' = upsets \/ Upset)
  BY <1>s, <1>1, <1>2, <1>3, VerdictPanel
<1>4. CASE Goes(c, "answered") /\ UNCHANGED <<row, upsets>>
  <2>1. PICK r : call' = [call EXCEPT ![c] = r] /\ r.pc = "answered" /\ r.s = call[c].s
    <3>1. [call[c] EXCEPT !.pc = "answered"].pc = "answered"
          /\ [call[c] EXCEPT !.pc = "answered"].s = call[c].s
      BY Known DEF CallType
    <3>. QED  BY <1>4, <3>1 DEF Goes
  <2>2. call'[c] = r
    BY <2>1, Known
  <2>3. RequestOK(call[c])'
    <3>1. Spawns(call[c])'
      BY <1>1, <2>1, <2>2, Known DEF RequestOK, Spawns
    <3>2. Aims(call[c])' /\ Vacant(call[c])' /\ Covers(call[c])' /\ Wary(call[c])'
          /\ Clean(call[c])' /\ Prunes(call[c])'
      BY <2>1, <2>2 DEF Aims, Vacant, Covers, Wary, Clean, Prunes, Alone, StopPc, NapPc
    <3>. QED  BY <3>1, <3>2 DEF RequestOK
  <2>4. ~Overlaps(s)'
    BY <1>1, <1>2, <1>4 DEF Overlaps, Ordinary, Live, There
  <2>5. RequestStep(c)
    BY <1>s, <2>3, <2>4 DEF RequestStep
  <2>. QED  BY <1>1, <1>4, <2>1, <2>5, Known, OneMoves, SameWanes, SessionsIdle, RequestPanel
<1>. QED  BY <1>1, <1>3, <1>4

\* and marks it running.
LEMMA StartedPanel ==
  ASSUME PanelInv, TurnInv', NEW c \in Call, Started(c)  PROVE PanelInv'
  BY VerdictPanel DEF Started, stopVars

\* What the panel knows of an engine, but for whether it means it to end.
LEMMA IntentStep ==
  ASSUME PanelInv, Wanes, row' = row,
         \A t \in Session : managed'[t].kind = managed[t].kind /\ managed'[t].pid = managed[t].pid
  PROVE  \A t \in Session : SessionStep(t)
<1> TAKE t \in Session
<1>0. There(t)' <=> There(t)
  BY DEF There
<1>1. Busy(t)' <=> Busy(t)
  BY DEF Busy
<1>2. Agree(t)'
  <2>1. row[t].pid # 0 => row[t].pid \in Pid
    BY Known, Pids DEF RowType
  <2>. QED  BY <1>0, <1>1, <2>1, Known DEF Agree, Wanes
<1>3. Knows(t)'
  BY <1>0, <1>1, Known, WanesFacts DEF Knows, Wanes
<1>4. MissedBy(t)' => MissedBy(t)
  BY <1>0, Known, Pids, WanesFacts DEF MissedBy, Wanes
<1>5. MissedBy(t)' => row'[t].status \in {"stopped", "error"}
  BY <1>4, Known DEF Unseen
<1>. QED  BY <1>0, <1>2, <1>3, <1>4, <1>5 DEF SessionStep

\* In single-model mode a request that waits for another session's stop.
LEMMA PrunesKeeps ==
  ASSUME PanelInv, Wanes, single' = single, NEW c \in Call, Alone(call[c]), call'[c].s = call[c].s,
         call'[c].pc # "prune"
  PROVE  Prunes(call[c])'
<1> SUFFICES ASSUME Ordinary, single, NEW p \in Pid, Live(p)'  PROVE p \in Of(call[c].s)'
  BY Known, WanesFacts DEF Prunes
<1>1. Live(p) /\ Present(p)' /\ engine'[p].of = engine[p].of
  BY DEF Present, Wanes
<1>2. p \in Of(call[c].s)
  BY <1>1, Known DEF RequestOK, Prunes
<1>. QED  BY <1>1, <1>2 DEF Of

\* A stop gets its lock and signals the engine that is managed, the one it
\* noted, or looks for what there is.
LEMMA StopEnginePanel ==
  ASSUME PanelInv, TurnInv', NEW c \in Call, StopEngine(c)  PROVE PanelInv'
<1>s. PICK s \in Session : s = call[c].victim
  BY Known DEF StopEngine, Shape, StopPc
<1>p. PICK p \in 0..MaxPid : p = IF Busy(s) THEN managed[s].pid ELSE call[c].pid
  BY Known DEF CallType, ManagedType
<1>1. /\ call[c].pc = "stop" /\ UNCHANGED <<single, row, epoch, fence, waking, mon, upsets>>
      /\ managed' = [managed EXCEPT ![s].intentional = managed[s].kind # "none"]
      /\ IF p # 0
           THEN /\ engine' = Term(p)
                /\ call' = [call EXCEPT ![c].pid = p,
                                    ![c].pc = IF Busy(s) THEN managed[s].kind ELSE "leftover"]
           ELSE /\ \E q \in Of(s) \cup {0} :
                     /\ q = 0 => Of(s) = {}
                     /\ call' = [call EXCEPT ![c].pc = "purge", ![c].found = {q} \ {0}]
                /\ engine' = engine
  BY <1>s, <1>p DEF StopEngine, stopVars
<1>2. /\ managed' \in [Session -> ManagedType]
      /\ \A t \in Session : managed'[t].kind = managed[t].kind /\ managed'[t].pid = managed[t].pid
  BY <1>1, Known DEF ManagedType
<1>3. call[c] \in CallType /\ RequestOK(call[c])
  BY Known
<1>4. CASE p # 0
  <2>1. p \in Pid /\ engine[p].of = s
        /\ (Ordinary /\ There(s) => \A q \in Pid : Live(q) /\ engine[q].of = s => q = p)
    <3>1. p \in Pid
      BY <1>4, Pids
    <3>2. CASE Busy(s)
      BY <1>p, <3>1, <3>2, Known DEF Agree, Knows
    <3>3. CASE ~Busy(s)
      <4>1. p = call[c].pid
        BY <1>p, <3>3
      <4>2. engine[p].of = s
        BY <1>1, <1>3, <1>4, <1>s, <4>1 DEF RequestOK, Aims
      <4>. QED  BY <3>1, <3>3, <4>2, Earlier
    <3>. QED  BY <3>2, <3>3
  <2>2. Wanes /\ ~Live(p)'
    BY <1>1, <1>4, <2>1, Known, TermWanes
  <2>3. PICK pc \in {"child", "adopted", "leftover"} :
          call' = [call EXCEPT ![c].pid = p, ![c].pc = pc]
    BY <1>1, <1>4 DEF Busy
  <2>4. PICK r : /\ call' = [call EXCEPT ![c] = r] /\ r.pc = pc /\ r.s = call[c].s /\ r.victim = s
                 /\ r.then = call[c].then /\ r.pid = p
    <3> DEFINE r == [call[c] EXCEPT !.pid = p, !.pc = pc]
    <3>1. call' = [call EXCEPT ![c] = r] /\ r.pc = pc /\ r.s = call[c].s /\ r.victim = s
          /\ r.then = call[c].then /\ r.pid = p
      BY <1>3, <1>s, <2>3 DEF CallType
    <3> HIDE DEF r
    <3>. QED  BY <3>1
  <2>5. call'[c] = r
    BY <2>4, Known
  <2>6. RequestOK(call[c])'
    <3>1. Aims(call[c])'
      BY <1>4, <2>1, <2>2, <2>4, <2>5 DEF Aims, Wanes
    <3>2. Covers(call[c])'
      <4>1. Ordinary' /\ There(s)' => \A q \in Pid : ~(Live(q)' /\ engine'[q].of = s)
        BY <1>1, <2>1, <2>2, Known, WanesFacts DEF Wanes, There
      <4>. QED  BY <2>4, <2>5, <4>1 DEF Covers
    <3>3. Vacant(call[c])' /\ Spawns(call[c])' /\ Wary(call[c])' /\ Clean(call[c])'
      BY <2>4, <2>5 DEF Vacant, Spawns, Wary, Clean, NapPc
    <3>4. Prunes(call[c])'
      <4>1. Alone(r) <=> Alone(call[c])
        BY <1>1, <2>4 DEF Alone, StopPc
      <4>2. CASE Alone(call[c])
        BY <1>1, <2>2, <2>4, <2>5, <4>2, PrunesKeeps
      <4>3. CASE ~Alone(call[c])
        BY <2>4, <2>5, <4>1, <4>3 DEF Prunes, Alone
      <4>. QED  BY <4>2, <4>3
    <3>. QED  BY <3>1, <3>2, <3>3, <3>4 DEF RequestOK
  <2>7. RequestStep(c)
    BY <1>1, <2>4, <2>5, <2>6 DEF RequestStep
  <2>. QED  BY <1>1, <1>2, <2>2, <2>4, <2>7, Known, OneMoves, IntentStep, RequestPanel
<1>5. CASE p = 0
  <2>1. ~Busy(s) /\ call[c].pid = 0
    BY <1>5, <1>p, Known, Pids DEF Agree
  <2>q. PICK z \in Of(s) \cup {0} :
          /\ z = 0 => Of(s) = {}
          /\ call' = [call EXCEPT ![c].pc = "purge", ![c].found = {z} \ {0}]
    BY <1>1, <1>5
  <2>o. PICK O : O = {z} \ {0} /\ O \subseteq Pid /\ O \subseteq Of(s)
    BY DEF Of
  <2>2. PICK r : /\ call' = [call EXCEPT ![c] = r] /\ r.pc = "purge" /\ r.s = call[c].s
                 /\ r.victim = s
                 /\ r.then = call[c].then /\ r.pid = 0 /\ r.found = O
    <3> DEFINE r == [call[c] EXCEPT !.pc = "purge", !.found = O]
    <3>1. call' = [call EXCEPT ![c] = r] /\ r.pc = "purge" /\ r.s = call[c].s /\ r.victim = s
          /\ r.then = call[c].then /\ r.pid = 0 /\ r.found = O
      BY <1>1, <1>3, <1>5, <1>s, <2>1, <2>o, <2>q DEF CallType
    <3> HIDE DEF r
    <3>. QED  BY <3>1
  <2>3. call'[c] = r /\ Reach(call'[c]) = O
    <3>1. call'[c] = r
      BY <2>2, Known
    <3>. QED  BY <2>o, <2>2, <3>1, Pids DEF Reach
  <2>4. Wanes /\ (Ordinary' <=> Ordinary) /\ (There(s)' <=> There(s))
        /\ (\A q \in Pid : (Live(q)' <=> Live(q)) /\ (Present(q)' <=> Present(q)))
        /\ engine' = engine
    BY <1>1, <1>5, Known, SameWanes DEF There
  <2>5. \A q \in O : engine[q].of = s /\ Present(q)
    BY <2>o DEF Of
  <2>6. RequestOK(call[c])'
    <3>1. Aims(call[c])'
      BY <2>2, <2>3, <2>4, <2>5 DEF Aims
    <3>2. Covers(call[c])'
      <4>1. ASSUME Ordinary, There(s), NEW x \in Pid, Live(x), engine[x].of = s  PROVE x \in O
        <5>1. x = 1 /\ \A y \in Of(s) : y = 1
          BY <2>1, <4>1, Earlier DEF Of
        <5>2. x \in Of(s)
          BY <4>1 DEF Of, Present
        <5>. QED  BY <2>o, <2>q, <5>1, <5>2
      <4>. QED  BY <2>2, <2>3, <2>4, <4>1 DEF Covers
    <3>3. Vacant(call[c])' /\ Spawns(call[c])' /\ Wary(call[c])'
      BY <2>2, <2>3 DEF Vacant, Spawns, Wary, NapPc
    <3>4. Clean(call[c])'
      <4> SUFFICES ASSUME Ordinary, There(s), NEW a \in O, NEW x \in Pid, Live(x), engine[x].of = s
                   PROVE  x = a
        BY <2>2, <2>3, <2>4, <2>5 DEF Clean
      <4>. QED  BY <2>1, <2>5, <2>o, Earlier
    <3>5. Prunes(call[c])'
      <4>1. Alone(r) <=> Alone(call[c])
        BY <1>1, <2>2 DEF Alone, StopPc
      <4>2. CASE Alone(call[c])
        BY <1>1, <2>2, <2>3, <2>4, <4>2, PrunesKeeps
      <4>3. CASE ~Alone(call[c])
        BY <2>2, <2>3, <4>1, <4>3 DEF Prunes, Alone
      <4>. QED  BY <4>2, <4>3
    <3>. QED  BY <3>1, <3>2, <3>3, <3>4, <3>5 DEF RequestOK
  <2>7. RequestStep(c)
    BY <1>1, <2>2, <2>3, <2>6 DEF RequestStep
  <2>. QED  BY <1>1, <1>2, <2>2, <2>4, <2>7, Known, OneMoves, IntentStep, RequestPanel
<1>. QED  BY <1>4, <1>5

\* A stop that has done its work.
LEMMA StoppedPanel ==
  ASSUME PanelInv, TurnInv', Wanes, NEW c \in Call, NEW s \in Session, s = call[c].victim,
         call[c].pc \in {"purge", "child", "adopted", "leftover"}, Stopped(c),
         managed' = managed \/ Manage(s, Unmanaged),
         Ordinary /\ There(s) => \A q \in Pid : Live(q)' => engine[q].of # s,
         UNCHANGED <<single, epoch, waking, mon>>, upsets' = upsets \/ Upset
  PROVE  PanelInv'
<1>1. call[c] \in CallType /\ call[c].pc \in StopPc /\ Update(s, "stopped", 0)
      /\ fence' = [fence EXCEPT ![s] = @ - 1]
  BY Known DEF Stopped, StopPc
<1>2. PICK r : /\ call' = [call EXCEPT ![c] = r] /\ r.pc = call[c].then /\ r.s = call[c].s
               /\ call[c].then \in {"done", "others", "restart", "delete"}
  <2> DEFINE r == [call[c] EXCEPT !.pc = call[c].then, !.victim = NoSession, !.pid = 0]
  <2>1. call' = [call EXCEPT ![c] = r] /\ r.pc = call[c].then /\ r.s = call[c].s
    BY <1>1 DEF Stopped, CallType
  <2>2. call[c].then \in {"done", "others", "restart", "delete"}
    BY <1>1 DEF CallType
  <2> HIDE DEF r
  <2>. QED  BY <2>1, <2>2
<1>3. call'[c] = r
  BY <1>2, Known
<1>4. \A d \in Call : RequestStep(d)
  <2>1. CASE r.pc = "others"
    <3>1. Alone(call[c])
      BY <1>1, <1>2, <2>1 DEF Alone
    <3>2. Prunes(call[c])'
      BY <1>2, <1>3, <2>1, <3>1, PrunesKeeps
    <3>3. Aims(call[c])' /\ Vacant(call[c])' /\ Covers(call[c])' /\ Spawns(call[c])'
          /\ Wary(call[c])' /\ Clean(call[c])'
      BY <1>3, <2>1 DEF Aims, Vacant, Covers, Spawns, Wary, Clean, StopPc, NapPc
    <3>4. RequestStep(c)
      BY <1>3, <2>1, <3>2, <3>3 DEF RequestStep, RequestOK
    <3>. QED  BY <1>2, <3>4, Known, OneMoves
  <2>2. CASE r.pc # "others"
    BY <1>2, <2>2, Known, QuietStep
  <2>. QED  BY <2>1, <2>2
<1>5. /\ row' \in [Session -> RowType] /\ managed' \in [Session -> ManagedType]
      /\ \A t \in Session \ {s} : row'[t] = row[t] /\ managed'[t] = managed[t]
      /\ row'[s].pid = 0
      /\ managed'[s] = Unmanaged \/ managed'[s] = managed[s]
      /\ row'[s].status = "deleted" <=> row[s].status = "deleted"
  <2>1. row[s].status = "deleted" => row[s].pid = 0
    BY Known DEF Agree, There
  <2>. QED  BY <1>1, <2>1, Known, Kinds, Pids, UpdateIs, ManageIs
<1>6. \A t \in Session : SessionStep(t)
  <2>1. CASE managed'[s] = Unmanaged
    BY <1>5, <2>1, DropStep DEF Unmanaged, There
  <2>2. CASE managed'[s] = managed[s]
    <3>1. Agree(s)'
      BY <1>5, <2>2, Known DEF Agree, Busy, Wanes
    <3>2. \A q \in Pid : engine'[q].of = engine[q].of
      BY DEF Wanes
    <3>0. There(s)' <=> There(s)
      BY <1>5 DEF There
    <3>3. Knows(s)' /\ ~MissedBy(s)'
      BY <3>0, <3>2, Known, Pids, WanesFacts DEF Knows, MissedBy
    <3>4. SessionStep(s)
      BY <3>0, <3>1, <3>3 DEF SessionStep
    <3>. QED  BY <1>5, <3>4 DEF SessionStep
  <2>. QED  BY <1>5, <2>1, <2>2
<1>7. \A t \in Session : \/ fence'[t] = fence[t] /\ epoch'[t] = epoch[t]
                         \/ fence'[t] # 0
                         \/ Ordinary /\ There(t)' => \A q \in Pid : Live(q)' => engine[q].of # t
  BY <1>1, <1>5, Known DEF TurnInv, There
<1>8. waking' \subseteq Session
  BY Known DEF SessionTypeOK
<1>. QED  BY <1>4, <1>5, <1>6, <1>7, <1>8, MonIdle, PanelStep

\* A stop whose engine is gone, or is killed.
LEMMA StopKilledPanel ==
  ASSUME PanelInv, TurnInv', NEW c \in Call, StopKilled(c)  PROVE PanelInv'
<1>1. /\ call[c].pc \in {"child", "adopted", "leftover"} /\ Stopped(c)
      /\ UNCHANGED <<single, epoch, waking, mon>> /\ (upsets' = upsets \/ Upset)
  BY DEF StopKilled
<1>2. call[c] \in CallType /\ RequestOK(call[c]) /\ call[c].victim \in Session
  BY <1>1, Known DEF Shape, StopPc
<1>s. PICK s \in Session : s = call[c].victim
  BY <1>2
<1>p. PICK p \in Pid : p = call[c].pid
  BY <1>1, <1>2, Pids DEF RequestOK, Aims, CallType
<1>3. engine' = engine \/ engine' = Kill(p)
  BY <1>p DEF StopKilled
<1>4. Wanes
  BY <1>3, Known, SameWanes, KillWanes
<1>5. managed' = managed \/ Manage(s, Unmanaged)
  BY <1>s DEF StopKilled
<1>6. Ordinary /\ There(s) => \A q \in Pid : Live(q)' => engine[q].of # s
  BY <1>1, <1>2, <1>s, <1>4 DEF RequestOK, Covers, StopPc, Wanes
<1>. QED  BY <1>1, <1>s, <1>4, <1>5, <1>6, StoppedPanel

\* A stop that has removed all it found.
LEMMA StopPurgedPanel ==
  ASSUME PanelInv, TurnInv', NEW c \in Call, StopPurged(c)  PROVE PanelInv'
<1>1. /\ call[c].pc = "purge" /\ call[c].found = {} /\ call[c].pid = 0 /\ Stopped(c)
      /\ UNCHANGED <<single, managed, engine, epoch, waking, mon, upsets>>
  BY DEF StopPurged, AtEnd
<1>2. RequestOK(call[c]) /\ call[c].victim \in Session
  BY <1>1, Known DEF Shape, StopPc
<1>s. PICK s \in Session : s = call[c].victim
  BY <1>2
<1>3. Wanes /\ \A q \in Pid : Live(q)' <=> Live(q)
  BY <1>1, Known, SameWanes
<1>4. Ordinary /\ There(s) => \A q \in Pid : Live(q)' => engine[q].of # s
  BY <1>1, <1>2, <1>3, <1>s DEF RequestOK, Covers, StopPc, Reach
<1>. QED  BY <1>1, <1>s, <1>3, <1>4, StoppedPanel

\* A delete.
LEMMA DeletesPanel ==
  ASSUME PanelInv, TurnInv', NEW c \in Call, QueueDelete(c) \/ Delete(c)  PROVE PanelInv'
<1>s. PICK s \in Session : s = call[c].s
  BY Known DEF QueueDelete, Delete, Shape
<1>1. CASE QueueDelete(c)
  <2>1. /\ UNCHANGED <<single, row, managed, engine, epoch, fence, waking, mon, upsets>>
        /\ call' = [call EXCEPT ![c] = [call[c] EXCEPT !.pc = "deleting"]]
    BY <1>1 DEF QueueDelete, known, stopVars, Goes
  <2>2. PICK r : call' = [call EXCEPT ![c] = r] /\ r.pc = "deleting"
    <3>1. [call[c] EXCEPT !.pc = "deleting"].pc = "deleting"
      BY Known DEF CallType
    <3>. QED  BY <2>1, <3>1
  <2>3. \A d \in Call : RequestStep(d)
    BY <1>1, <2>2, Known, QuietStep DEF QueueDelete
  <2>. QED  BY <2>1, <2>3, Known, SameWanes, SessionsIdle, RequestPanel
<1>2. CASE Delete(c)
  <2>1. /\ UNCHANGED <<single, engine, epoch, fence, waking, mon, upsets>> /\ Ends(c)
        /\ Manage(s, Unmanaged)
        /\ row' = [row EXCEPT ![s] = [status |-> "deleted", pid |-> 0]]
    BY <1>s, <1>2 DEF Delete, stopVars
  <2>2. /\ managed' \in [Session -> ManagedType] /\ managed'[s] = Unmanaged
        /\ \A t \in Session \ {s} : managed'[t] = managed[t]
    BY <2>1, Known, Kinds, ManageIs
  <2>3. /\ row' \in [Session -> RowType] /\ row'[s].pid = 0 /\ row'[s].status = "deleted"
        /\ \A t \in Session \ {s} : row'[t] = row[t]
    BY <2>1, Known, Pids DEF RowType, Status
  <2>4. Wanes
    BY <2>1, Known, SameWanes
  <2>5. \A t \in Session : SessionStep(t)
    BY <2>2, <2>3, <2>4, DropStep DEF Unmanaged
  <2>6. call[c].pc # "ready"
    BY <1>2 DEF Delete
  <2>. QED  BY <2>1, <2>2, <2>3, <2>4, <2>5, <2>6, EndsStep, RequestPanel
<1>. QED  BY <1>1, <1>2

\* No session comes to have an engine of an earlier run that nobody found.
LEMMA MissedWanes ==
  ASSUME PanelInv, Wanes, NEW s \in Session, SessionStep(s)
  PROVE  MissedBy(s)' => MissedBy(s)
<1>1. CASE row'[s] = row[s] /\ managed'[s] = managed[s]
  BY <1>1, Known, Pids, WanesFacts DEF MissedBy, Wanes, There
<1>. QED  BY <1>1 DEF SessionStep

\* A request to an engine to sleep or to wake up.
LEMMA NapStep ==
  ASSUME PanelInv, Wanes, NEW c \in Call, NEW pc \in NapPc, Goes(c, pc), ~MissedBy(call[c].s),
         call[c].pc \notin {"done", "ready"}, \A s \in Session : SessionStep(s)
  PROVE  \A d \in Call : RequestStep(d)
<1>1. PICK r : call' = [call EXCEPT ![c] = r] /\ r.pc = pc /\ r.s = call[c].s
  <2>1. [call[c] EXCEPT !.pc = pc].pc = pc /\ [call[c] EXCEPT !.pc = pc].s = call[c].s
    BY Known DEF CallType
  <2>. QED  BY <2>1 DEF Goes
<1>2. call'[c] = r /\ r.s \in Session
  BY <1>1, Known DEF Shape
<1>3. ~MissedBy(r.s)'
  BY <1>1, <1>2, MissedWanes
<1>4. Wary(call[c])'
  BY <1>2, <1>3 DEF Wary, MissedBy, There
<1>5. Aims(call[c])' /\ Vacant(call[c])' /\ Covers(call[c])' /\ Spawns(call[c])'
      /\ Clean(call[c])' /\ Prunes(call[c])'
  BY <1>1, <1>2 DEF Aims, Vacant, Covers, Spawns, Clean, Prunes, Alone, StopPc, NapPc
<1>6. RequestStep(c)
  BY <1>1, <1>2, <1>4, <1>5 DEF RequestStep, RequestOK, NapPc
<1>. QED  BY <1>1, <1>6, Known, OneMoves

\* Sleep and wake: asked for,
LEMMA AskNapsPanel ==
  ASSUME PanelInv, TurnInv', NEW c \in Call, AskSleep(c) \/ AskWake(c)  PROVE PanelInv'
<1>s. PICK s \in Session : s = call[c].s
  BY Known DEF AskSleep, AskWake, Asks, Shape
<1>1. call[c].pc = "new" /\ ~MissedBy(s)
  BY <1>s, Known DEF AskSleep, AskWake, Asks, Unseen
<1>2. CASE AskSleep(c)
  <2>1. Goes(c, "sleep") /\ UNCHANGED <<single, row, managed, engine, epoch, fence, waking, mon,
        upsets>>
    BY <1>2 DEF AskSleep, Goes, known, stopVars
  <2>2. Wanes /\ \A t \in Session : SessionStep(t)
    BY <2>1, Known, SameWanes, SessionsIdle
  <2>3. \A d \in Call : RequestStep(d)
    BY <1>s, <1>1, <2>1, <2>2, NapStep DEF NapPc
  <2>. QED  BY <2>1, <2>2, <2>3, Known, RequestPanel
<1>3. CASE AskWake(c)
  <2>1. /\ Goes(c, "wake") /\ Mark(s, "loading") /\ waking' = waking \cup {s}
        /\ UNCHANGED <<single, managed, engine, epoch, fence, mon, upsets>>
    BY <1>s, <1>3 DEF AskWake, Goes, stopVars
  <2>2. Wanes
    BY <2>1, Known, SameWanes
  <2>3. \A t \in Session : SessionStep(t)
    BY <1>1, <2>1, <2>2, Kinds, MarkStep
  <2>4. \A d \in Call : RequestStep(d)
    BY <1>s, <1>1, <2>1, <2>2, <2>3, NapStep DEF NapPc
  <2>5. row' \in [Session -> RowType] /\ managed' \in [Session -> ManagedType]
        /\ waking' \subseteq Session
    BY <2>1, Known, Kinds, MarkIs DEF SessionTypeOK
  <2>. QED  BY <2>1, <2>2, <2>3, <2>4, <2>5, MonIdle, PanelStep
<1>. QED  BY <1>2, <1>3

\* served by the engine,
LEMMA ServePanel ==
  ASSUME PanelInv, TurnInv', NEW c \in Call, Serve(c)  PROVE PanelInv'
<1>1. UNCHANGED <<single, row, managed, epoch, fence, waking, mon>>
      /\ call[c].pc \in {"sleep", "wake"}
      /\ (upsets' = upsets \/ Upset)
  BY DEF Serve, Served, Refused, known, stopVars
<1>2. Wanes
  <2>1. CASE engine' = engine
    BY <2>1, Known, SameWanes
  <2>2. ASSUME NEW p \in Pid, NEW st \in {"asleep", "waking"}, engine[p].st \in {"up", "asleep"},
               engine' = [engine EXCEPT ![p].st = st]
        PROVE  Wanes
    <3>1. Serves(p) /\ engine[p].st # "none" /\ st \in EngineSt /\ st # "none"
      BY <2>2 DEF Serves, EngineSt
    <3>. QED  BY <2>2, <3>1, Known, StateWanes
  <2>. QED  BY <2>1, <2>2 DEF Serve, Served, Of
<1>3. \A t \in Session : SessionStep(t)
  BY <1>1, SessionsIdle
<1>4. ~MissedBy(call[c].s)
  BY <1>1, Known DEF RequestOK, Wary, NapPc
<1>5. \A d \in Call : RequestStep(d)
  <2>1. \/ \E pc \in NapPc : Goes(c, pc)
        \/ Ends(c)
        \/ UNCHANGED call
    BY DEF Serve, Served, NapPc
  <2>. QED  BY <1>1, <1>2, <1>3, <1>4, <2>1, NapStep, EndsStep, RequestsIdle
<1>. QED  BY <1>1, <1>2, <1>3, <1>5, Known, RequestPanel

\* and acted upon.
LEMMA NapEndsPanel ==
  ASSUME PanelInv, TurnInv', NEW c \in Call, Slept(c) \/ Woken(c)  PROVE PanelInv'
<1>s. PICK s \in Session : s = call[c].s
  BY Known DEF Slept, Woken, Shape
<1>1. /\ Ends(c) /\ UNCHANGED <<single, managed, engine, epoch, fence, mon, upsets>>
      /\ waking' \subseteq waking
      /\ Mark(s, "standby") \/ row' = row
      /\ call[c].pc \in NapPc
  BY <1>s DEF Slept, Woken, stopVars, NapPc
<1>2. Wanes
  BY <1>1, Known, SameWanes
<1>3. ~MissedBy(s)
  BY <1>s, <1>1, Known DEF RequestOK, Wary
<1>4. \A t \in Session : SessionStep(t)
  BY <1>1, <1>2, <1>3, Kinds, MarkStep, SessionsIdle
<1>5. row' \in [Session -> RowType] /\ managed' \in [Session -> ManagedType]
      /\ waking' \subseteq Session
  BY <1>1, Known, Kinds, MarkIs DEF SessionTypeOK
<1>6. call[c].pc # "ready"
  BY <1>1 DEF NapPc
<1>. QED  BY <1>1, <1>2, <1>4, <1>5, <1>6, EndsStep, MonIdle, PanelStep


-----------------------------------------------------------------------------
(* The health monitor.                                                     *)

\* The monitor, or an engine, does something; no request does.
LEMMA MonPanel ==
  ASSUME PanelInv, TurnInv', Wanes, UNCHANGED <<single, epoch, fence, waking, call>>,
         row' \in [Session -> RowType], managed' \in [Session -> ManagedType],
         upsets' = upsets \/ Upset, MonShaped', MonFinds',
         \A s \in Todo' : s \in Todo \/ row[s].status \notin {"stopped", "error"},
         \A s \in Session : SessionStep(s)
  PROVE  PanelInv'
<1>1. waking' \subseteq Session
  BY Known DEF SessionTypeOK
<1>. QED  BY <1>1, RequestsIdle, PanelStep

\* The monitor as its tick begins, and after each session.
LEMMA TickShaped ==
  ASSUME NEW pc, NEW todo, NEW rows, mon' = [NoTick EXCEPT !.pc = pc, !.todo = todo, !.rows = rows]
  PROVE  /\ mon'.pc = pc /\ mon'.todo = todo /\ mon'.rows = rows /\ mon'.pid = 0
         /\ mon'.reply \in EngineSt
         /\ mon' = [pc |-> mon'.pc, s |-> mon'.s, todo |-> mon'.todo, rows |-> mon'.rows,
                    reply |-> mon'.reply, pid |-> mon'.pid]
  BY DEF NoTick, EngineSt

\* The monitor is done with a session.
LEMMA PassedMon ==
  ASSUME PanelInv, mon.pc # "idle", NEW s \in Session, Passed(s)
  PROVE  MonShaped' /\ MonFinds' /\ Todo' \subseteq Todo
<1>1. mon.todo \subseteq Session /\ mon.rows \in [mon.todo -> RowType] /\ Todo = mon.todo
  BY Known DEF MonShaped, Todo, RowType
<1>2. CASE mon.todo \subseteq {s}
  <2>1. mon' = NoTick
    BY <1>2 DEF Passed
  <2>2. /\ mon'.pc = "idle" /\ mon'.pid = 0 /\ mon'.reply \in EngineSt
        /\ mon' = [pc |-> mon'.pc, s |-> mon'.s, todo |-> mon'.todo, rows |-> mon'.rows,
                   reply |-> mon'.reply, pid |-> mon'.pid]
    BY <2>1 DEF NoTick, EngineSt
  <2>. QED  BY <2>2, Pids DEF MonShaped, MonFinds, Todo
<1>3. CASE ~(mon.todo \subseteq {s})
  <2>1. /\ mon'.pc = "next" /\ mon'.todo = mon.todo \ {s} /\ mon'.pid = 0
        /\ mon'.reply \in EngineSt
        /\ mon'.rows = [t \in mon.todo \ {s} |-> mon.rows[t]]
        /\ mon' = [pc |-> mon'.pc, s |-> mon'.s, todo |-> mon'.todo, rows |-> mon'.rows,
                   reply |-> mon'.reply, pid |-> mon'.pid]
    BY <1>3, TickShaped DEF Passed
  <2>2. mon'.rows \in [mon'.todo -> RowType]
    BY <1>1, <2>1
  <2>. QED  BY <1>1, <2>1, <2>2, Pids DEF MonShaped, MonFinds, Todo, RowType
<1>. QED  BY <1>2, <1>3

\* The monitor begins a tick,
LEMMA TickPanel ==
  ASSUME PanelInv, TurnInv', Tick  PROVE PanelInv'
<1> DEFINE todo == {s \in Session : row[s].status \in {"running", "loading", "standby"}}
<1>1. /\ mon' = [NoTick EXCEPT !.pc = "next", !.todo = todo, !.rows = [s \in todo |-> row[s]]]
      /\ UNCHANGED <<single, row, managed, engine, epoch, fence, waking, call, upsets>>
  BY DEF Tick, known, stopVars
<1>2. /\ mon'.pc = "next" /\ mon'.todo = todo /\ mon'.rows = [s \in todo |-> row[s]] /\ mon'.pid = 0
      /\ mon'.reply \in EngineSt
      /\ mon' = [pc |-> mon'.pc, s |-> mon'.s, todo |-> mon'.todo, rows |-> mon'.rows,
                 reply |-> mon'.reply, pid |-> mon'.pid]
  BY <1>1, TickShaped
<1>3. mon'.rows \in [mon'.todo -> RowType]
  BY <1>2, Known
<1>4. MonShaped' /\ MonFinds'
  BY <1>2, <1>3, Pids DEF MonShaped, MonFinds, RowType
<1>5. \A s \in Todo' : s \in Todo \/ row[s].status \notin {"stopped", "error"}
  BY <1>2 DEF Todo
<1>. QED  BY <1>1, <1>4, <1>5, Known, SameWanes, SessionsIdle, MonPanel

\* What the monitor looks at was not missed.
LEMMA Watched ==
  ASSUME PanelInv, NEW s \in Session, mon.pc # "idle", s \in mon.todo
  PROVE  ~MissedBy(s)
  BY Known DEF Unseen, Todo

\* asks an engine,
LEMMA ExaminePanel ==
  ASSUME PanelInv, TurnInv', NEW s \in Session, Examine(s)  PROVE PanelInv'
<1>1. /\ mon.pc = "next" /\ s \in mon.todo
      /\ UNCHANGED <<single, managed, engine, epoch, fence, waking, call>>
      /\ \/ (row' = row \/ Mark(s, "stopped")) /\ Passed(s) /\ upsets' = upsets
         \/ row' = row /\ \E q \in Pid \cup {0} :
              Answers(s, q) /\ mon' = [mon EXCEPT !.pc = "answered", !.s = s,
                                                  !.reply = ReplyOf(q)]
  BY DEF Examine, stopVars
<1>2. Wanes
  BY <1>1, Known, SameWanes
<1>3. CASE (row' = row \/ Mark(s, "stopped")) /\ Passed(s) /\ upsets' = upsets
  <2>1. \A t \in Session : SessionStep(t)
    BY <1>1, <1>2, <1>3, Kinds, MarkStep, SessionsIdle
  <2>2. row' \in [Session -> RowType] /\ managed' \in [Session -> ManagedType]
    BY <1>1, <1>3, Known, Kinds, MarkIs
  <2>. QED  BY <1>1, <1>2, <1>3, <2>1, <2>2, PassedMon, MonPanel
<1>4. ASSUME NEW q \in Pid \cup {0}, row' = row, Answers(s, q),
             mon' = [mon EXCEPT !.pc = "answered", !.s = s, !.reply = ReplyOf(q)]
      PROVE  PanelInv'
  <2>1. (upsets' = upsets \/ Upset) /\ managed' \in [Session -> ManagedType]
        /\ row' \in [Session -> RowType]
    BY <1>1, <1>4, Known DEF Answers
  <2>2. /\ mon' = [pc |-> mon'.pc, s |-> mon'.s, todo |-> mon'.todo, rows |-> mon'.rows,
           reply |-> mon'.reply,
                    pid |-> mon'.pid]
        /\ mon'.pc = "answered" /\ mon'.s = s /\ mon'.todo = mon.todo /\ mon'.rows = mon.rows
        /\ mon'.pid = mon.pid /\ mon'.reply = ReplyOf(q)
    BY <1>4, Known DEF MonShaped
  <2>3. MonShaped' /\ MonFinds' /\ Todo' = Todo
    BY <1>1, <2>2, Known, ReplyType DEF MonShaped, MonFinds, Todo
  <2>. QED  BY <1>1, <1>2, <1>4, <2>1, <2>3, Known, SessionsIdle, MonPanel
<1>. QED  BY <1>1, <1>3, <1>4

\* The engine of a session that has a row and was not missed is the one the
\* panel manages.
LEMMA Unmissed ==
  ASSUME PanelInv, Ordinary, NEW s \in Session, ~MissedBy(s), There(s),
         NEW q \in Pid, Live(q), engine[q].of = s
  PROVE  Busy(s) /\ managed[s].pid = q
<1>1. q # MaxPid
  BY DEF Ordinary, Live
<1>2. CASE engine[q].child
  BY <1>2, Known DEF Knows
<1>3. CASE ~engine[q].child
  <2>1. q \notin Spawned
    BY <1>3, Known DEF EnginesShaped, Live
  <2>2. q = 1
    BY <1>1, <2>1, SessionAssumption DEF Pid, Spawned
  <2>3. managed[s].pid = 1
    BY <2>2 DEF MissedBy
  <2>4. Busy(s)
    BY <2>3, Known DEF Agree
  <2>. QED  BY <2>2, <2>3, <2>4
<1>. QED  BY <1>2, <1>3

\* has an answer,
LEMMA HealthyPanel ==
  ASSUME PanelInv, TurnInv', Healthy  PROVE PanelInv'
<1>1. /\ mon.pc = "answered" /\ Passed(mon.s)
      /\ UNCHANGED <<single, managed, engine, epoch, fence, waking, call, upsets>>
      /\ \/ \E status \in {"running", "loading", "standby"} : Mark(mon.s, status)
         \/ row' = row
  BY DEF Healthy, stopVars
<1>s. PICK s \in Session : s = mon.s /\ s \in mon.todo
  BY <1>1, Known DEF MonShaped
<1>2. Wanes /\ ~MissedBy(s)
  BY <1>1, <1>s, Known, SameWanes, Watched
<1>3. CASE row' = row
  BY <1>1, <1>2, <1>3, <1>s, Known, SessionsIdle, PassedMon, MonPanel
<1>4. ASSUME NEW status \in {"running", "loading", "standby"}, Mark(s, status)  PROVE PanelInv'
  <2>1. \A t \in Session : SessionStep(t)
    BY <1>1, <1>2, <1>4, Kinds, MarkStep
  <2>2. row' \in [Session -> RowType] /\ managed' \in [Session -> ManagedType]
    BY <1>1, <1>4, Known, Kinds, MarkIs
  <2>. QED  BY <1>1, <1>2, <1>s, <2>1, <2>2, PassedMon, MonPanel
<1>. QED  BY <1>1, <1>s, <1>3, <1>4

\* An engine is about to be terminated.
LEMMA SweptWanes ==
  ASSUME EnginesShaped, NEW p \in Pid, engine[p].st # "none",
         engine' = [engine EXCEPT ![p].swept = "due"]
  PROVE  Wanes
<1>1. engine \in [Pid -> EngineType]
  BY DEF EnginesShaped
<1>2. engine' \in [Pid -> EngineType]
  BY <1>1 DEF EngineType
<1>3. \A q \in Pid : /\ engine'[q].of = engine[q].of /\ engine'[q].child = engine[q].child
                     /\ engine'[q].since = engine[q].since /\ engine'[q].st = engine[q].st
                     /\ engine'[q].swept = IF q = p THEN "due" ELSE engine[q].swept
  BY <1>1 DEF EngineType
<1>. QED  BY <1>2, <1>3 DEF Wanes, Live, Present, Serves

\* A session is taken down: its engine is signalled, or what is there is about to
\* be, and nothing of it is managed any more.
LEMMA DownStep ==
  ASSUME PanelInv, NEW s \in Session, ~MissedBy(s), Down(s)
  PROVE  /\ Wanes /\ \A t \in Session : SessionStep(t)
         /\ row' \in [Session -> RowType] /\ managed' \in [Session -> ManagedType]
<1>p. PICK p \in 0..MaxPid : p = IF managed[s].pid # 0 THEN managed[s].pid ELSE row[s].pid
  BY Known DEF RowType, ManagedType
<1>1. \/ UNCHANGED <<row, managed, engine>>
      \/ /\ \/ p # 0 /\ engine' = Term(p)
            \/ p = 0 /\ \E q \in Of(s) : engine' = [engine EXCEPT ![q].swept = "due"]
            \/ p = 0 /\ engine' = engine
         /\ Manage(s, Unmanaged) /\ Update(s, "error", 0)
  BY <1>p DEF Down, known
<1>2. CASE UNCHANGED <<row, managed, engine>>
  BY <1>2, Known, SameWanes, SessionsIdle
<1>3. CASE /\ \/ p # 0 /\ engine' = Term(p)
              \/ p = 0 /\ \E q \in Of(s) : engine' = [engine EXCEPT ![q].swept = "due"]
              \/ p = 0 /\ engine' = engine
           /\ Manage(s, Unmanaged) /\ Update(s, "error", 0)
  <2>1. Wanes /\ (p # 0 => ~Live(p)')
    <3>1. CASE p = 0 /\ engine' = engine
      BY <3>1, Known, SameWanes
    <3>2. CASE p # 0 /\ engine' = Term(p)
      <4>1. p \in Pid
        BY <3>2, Pids
      <4>. QED  BY <3>2, <4>1, Known, TermWanes
    <3>3. ASSUME NEW q \in Of(s), p = 0, engine' = [engine EXCEPT ![q].swept = "due"]
          PROVE  Wanes
      <4>1. q \in Pid /\ engine[q].st # "none"
        BY DEF Of, Present, Live
      <4>. QED  BY <3>3, <4>1, Known, SweptWanes
    <3>. QED  BY <1>3, <3>1, <3>2, <3>3
  <2>2. /\ row' \in [Session -> RowType] /\ managed' \in [Session -> ManagedType]
        /\ \A t \in Session \ {s} : row'[t] = row[t] /\ managed'[t] = managed[t]
        /\ row'[s].pid = 0 /\ managed'[s] = Unmanaged
        /\ row'[s].status = "deleted" <=> row[s].status = "deleted"
    <3>1. row[s].status = "deleted" => row[s].pid = 0
      BY Known DEF Agree, There
    <3>. QED  BY <1>3, <3>1, Known, Kinds, Pids, UpdateIs, ManageIs
  <2>3. Ordinary /\ row'[s].status # "deleted" => \A q \in Pid : engine[q].of = s => ~Live(q)'
    <3> SUFFICES ASSUME Ordinary, row'[s].status # "deleted", NEW q \in Pid, engine[q].of = s,
                        Live(q)'
                 PROVE  FALSE
      OBVIOUS
    <3>1. Live(q) /\ There(s)
      BY <2>1, <2>2 DEF Wanes, There
    <3>2. managed[s].pid = q /\ q # 0
      BY <3>1, Unmissed, Pids
    <3>3. p = q
      BY <1>p, <3>2
    <3>. QED  BY <2>1, <3>2, <3>3
  <2>4. \A t \in Session : SessionStep(t)
    BY <2>1, <2>2, <2>3, DropStep DEF Unmanaged
  <2>. QED  BY <2>1, <2>2, <2>4
<1>. QED  BY <1>1, <1>2, <1>3

\* has no answer,
LEMMA UnhealthyPanel ==
  ASSUME PanelInv, TurnInv', Unhealthy  PROVE PanelInv'
<1>1. /\ mon.pc = "answered" /\ UNCHANGED <<single, epoch, fence, waking, call>>
  BY DEF Unhealthy, stopVars
<1>s. PICK s \in Session : s = mon.s /\ s \in mon.todo
  BY <1>1, Known DEF MonShaped
<1>2. \/ Passed(s) /\ UNCHANGED <<row, managed, engine, upsets>>
      \/ Upset /\ Down(s) /\ Passed(s)
      \/ /\ ~Alive(s, row[s].pid) /\ row[s].status # "deleted" /\ UNCHANGED <<row, managed, engine>>
         /\ \E p, q \in Pid \cup {0} :
              /\ Detects(s, p, q)
              /\ mon' = [mon EXCEPT !.pc = "adopt", !.pid = p, !.reply = ReplyOf(q)]
  BY <1>s DEF Unhealthy, known
<1>3. ~MissedBy(s)
  BY <1>1, <1>s, Watched
<1>4. CASE Passed(s) /\ UNCHANGED <<row, managed, engine, upsets>>
  BY <1>1, <1>4, Known, SameWanes, SessionsIdle, PassedMon, MonPanel
<1>5. CASE Upset /\ Down(s) /\ Passed(s)
  BY <1>1, <1>3, <1>5, DownStep, PassedMon, MonPanel
<1>6. ASSUME ~Alive(s, row[s].pid), row[s].status # "deleted", UNCHANGED <<row, managed, engine>>,
             NEW p \in Pid \cup {0}, NEW q \in Pid \cup {0}, Detects(s, p, q),
             mon' = [mon EXCEPT !.pc = "adopt", !.pid = p, !.reply = ReplyOf(q)]
      PROVE  PanelInv'
  <2>1. /\ mon' = [pc |-> mon'.pc, s |-> mon'.s, todo |-> mon'.todo, rows |-> mon'.rows,
           reply |-> mon'.reply,
                    pid |-> mon'.pid]
        /\ mon'.pc = "adopt" /\ mon'.s = s /\ mon'.todo = mon.todo /\ mon'.rows = mon.rows
        /\ mon'.pid = p /\ mon'.reply = ReplyOf(q)
    BY <1>6, <1>s, Known DEF MonShaped
  <2>2. MonShaped' /\ Todo' = Todo
    BY <1>1, <1>s, <2>1, Known, Pids, ReplyType DEF MonShaped, Todo
  <2>3. p # 0 => ~Ordinary /\ engine[p].of = s
    <3> SUFFICES ASSUME p # 0  PROVE ~Ordinary /\ engine[p].of = s
      OBVIOUS
    <3>1. p \in Of(s) /\ p \in Pid /\ engine[p].of = s /\ Present(p)
      BY <1>6, Pids DEF Detects, Of
    <3>2. ASSUME Ordinary  PROVE FALSE
      <4>1. Live(p)
        BY <1>6, <3>2, AnswersAlone DEF Serves, Live
      <4>2. managed[s].pid = p
        BY <1>3, <1>6, <3>1, <3>2, <4>1, Unmissed DEF There
      <4>. QED  BY <1>6, <3>1, <4>2, Pids DEF Alive
    <3>. QED  BY <3>1, <3>2
  <2>4. MonFinds'
    BY <1>6, <2>1, <2>3 DEF MonFinds, Ordinary
  <2>5. upsets' = upsets \/ Upset
    BY <1>6 DEF Detects, Answers
  <2>. QED  BY <1>1, <1>6, <2>2, <2>4, <2>5, Known, SameWanes, SessionsIdle, MonPanel
<1>. QED  BY <1>2, <1>4, <1>5, <1>6

\* and found a replacement, or none.
LEMMA ReplacePanel ==
  ASSUME PanelInv, TurnInv', Replace  PROVE PanelInv'
<1>1. /\ mon.pc = "adopt" /\ UNCHANGED <<single, epoch, fence, waking, call, upsets>>
  BY DEF Replace, stopVars
<1>s. PICK s \in Session : s = mon.s /\ s \in mon.todo
  BY <1>1, Known DEF MonShaped
<1>2. Passed(s)
  BY <1>s DEF Replace
<1>3. CASE mon.pid = 0
  <2>1. Down(s) /\ ~MissedBy(s)
    BY <1>1, <1>3, <1>s, Watched DEF Replace
  <2>. QED  BY <1>1, <1>2, <2>1, DownStep, PassedMon, MonPanel
<1>4. CASE mon.pid # 0
  <2>p. PICK p \in Pid : p = mon.pid
    BY <1>4, Known, Pids DEF MonShaped
  <2> DEFINE status == StatusOf(mon.reply)
  <2>1. Update(s, status, p) /\ Manage(s, Owns("adopted", p)) /\ engine' = engine
    BY <1>4, <1>s, <2>p DEF Replace
  <2>2. ~Ordinary /\ engine[p].of = s
    BY <1>1, <1>4, <1>s, <2>p, Known DEF MonFinds
  <2>3. status \in Status /\ status # "deleted" /\ p \in 0..MaxPid
    BY Pids DEF StatusOf, Status
  <2> HIDE DEF status
  <2>4. Wanes
    BY <2>1, Known, SameWanes
  <2>5. \A t \in Session : SessionStep(t)
    BY <2>1, <2>2, <2>3, <2>4, OwnStep
  <2>6. row' \in [Session -> RowType] /\ managed' \in [Session -> ManagedType]
    BY <2>1, <2>3, Known, Kinds, UpdateIs, ManageIs
  <2>. QED  BY <1>1, <1>2, <2>4, <2>5, <2>6, PassedMon, MonPanel
<1>. QED  BY <1>3, <1>4

-----------------------------------------------------------------------------
(* The engines.                                                            *)

\* An engine wakes or ends,
LEMMA LifePanel ==
  ASSUME PanelInv, TurnInv', NEW p \in Pid, Wakes(p) \/ Dies(p)  PROVE PanelInv'
<1>1. UNCHANGED <<single, row, managed, epoch, fence, waking, call, mon>>
      /\ (upsets' = upsets \/ Upset)
  BY DEF Wakes, Dies, known, stopVars
<1>2. PICK st \in EngineSt : /\ engine' = [engine EXCEPT ![p].st = st]
                             /\ engine[p].st # "none" /\ st # "none"
                             /\ \/ st \in {"up", "asleep", "waking"} /\ Serves(p)
                                \/ st = "gone"
  BY DEF Wakes, Dies, Live, Serves, EngineSt
<1>3. Wanes
  BY <1>2, Known, StateWanes
<1>. QED  BY <1>1, <1>3, Known, SessionsIdle, MonIdle, MonPanel

\* or has loaded: when none of its session is ending, it is the only one.
LEMMA BootsPanel ==
  ASSUME PanelInv, TurnInv', NEW p \in Pid, Boots(p)  PROVE PanelInv'
<1>1. UNCHANGED <<single, row, managed, epoch, fence, waking, call, mon, upsets>>
  BY DEF Boots, known, stopVars
<1>2. /\ engine[p].st = "booting" /\ Live(p)
      /\ \A q \in Of(engine[p].of) \ {p} : engine[q].st # "dying"
      /\ engine' = [engine EXCEPT ![p].st = "gone"] \/ engine' = [engine EXCEPT ![p].st = "up"]
  BY DEF Boots, Live
<1>3. Ordinary => \A q \in Pid \ {p} : engine[q].of = engine[p].of => ~Present(q)
  <2> SUFFICES ASSUME Ordinary, NEW q \in Pid \ {p}, engine[q].of = engine[p].of, Present(q)
               PROVE  FALSE
    OBVIOUS
  <2>1. Live(q)
    BY <1>2 DEF Of, Present
  <2>. QED  BY <1>2, <2>1, Known DEF OneEach
<1>4. Wanes
  <2>1. "gone" \in EngineSt /\ "up" \in EngineSt
    BY DEF EngineSt
  <2>. QED  BY <1>2, <1>3, <2>1, Known, StateWanes
<1>. QED  BY <1>1, <1>4, Known, SessionsIdle, MonIdle, MonPanel

\* What the monitor found without knowing a pid is terminated.
LEMMA ReapPanel ==
  ASSUME PanelInv, TurnInv', NEW p \in Pid, Reap(p)  PROVE PanelInv'
<1>1. /\ UNCHANGED <<single, epoch, fence, waking, call, mon, upsets>>
      /\ engine[p].swept = "due" /\ ~Ordinary
  BY DEF Reap, stopVars, Ordinary
<1>s. PICK s \in Session : s = engine[p].of
  BY <1>1, Known DEF EnginesShaped
<1>2. CASE engine' = Term(p) /\ UNCHANGED known
  BY <1>1, <1>2, Known, TermWanes, SessionsIdle, MonIdle, MonPanel DEF known
<1>3. CASE /\ engine' = [Kill(p) EXCEPT ![p].swept = "done"]
           /\ Manage(s, Unmanaged) /\ Update(s, "stopped", 0)
  <2>1. Wanes
    <3>1. engine \in [Pid -> EngineType]
      BY Known
    <3>2. /\ Kill(p) \in [Pid -> EngineType]
          /\ \A q \in Pid : /\ Kill(p)[q].of = engine[q].of /\ Kill(p)[q].child = engine[q].child
                            /\ Kill(p)[q].since = engine[q].since
                            /\ Kill(p)[q].swept = engine[q].swept
                            /\ Kill(p)[q].st = IF q = p /\ Present(p) THEN "gone" ELSE engine[q].st
      BY <3>1 DEF Kill, EngineType, EngineSt
    <3>3. PICK k \in [Pid -> EngineType] : k = Kill(p)
      BY <3>2
    <3>4. engine' = [k EXCEPT ![p].swept = "done"]
      BY <1>3, <3>3
    <3>5. engine' \in [Pid -> EngineType]
      BY <3>3, <3>4 DEF EngineType
    <3>6. \A q \in Pid : /\ engine'[q].of = engine[q].of /\ engine'[q].child = engine[q].child
                         /\ engine'[q].since = engine[q].since
                         /\ engine'[q].swept = IF q = p THEN "done" ELSE engine[q].swept
                         /\ engine'[q].st = IF q = p /\ Present(p) THEN "gone" ELSE engine[q].st
      BY <3>2, <3>3, <3>4 DEF EngineType
    <3>7. engine[p].st # "none"
      BY <1>1, Known DEF EnginesShaped
    <3>. QED  BY <3>5, <3>6, <3>7 DEF Wanes, Live, Present, Serves
  <2>2. /\ row' \in [Session -> RowType] /\ managed' \in [Session -> ManagedType]
        /\ \A t \in Session \ {s} : row'[t] = row[t] /\ managed'[t] = managed[t]
        /\ row'[s].pid = 0 /\ managed'[s] = Unmanaged
        /\ row'[s].status = "deleted" <=> row[s].status = "deleted"
    <3>1. row[s].status = "deleted" => row[s].pid = 0
      BY Known DEF Agree, There
    <3>. QED  BY <1>3, <3>1, Known, Kinds, Pids, UpdateIs, ManageIs
  <2>3. \A t \in Session : SessionStep(t)
    BY <1>1, <2>1, <2>2, DropStep DEF Unmanaged
  <2>. QED  BY <1>1, <2>1, <2>2, <2>3, MonIdle, MonPanel
<1>. QED  BY <1>s, <1>2, <1>3 DEF Reap

\* The exit of a child is reported.
LEMMA ExitPanel ==
  ASSUME PanelInv, TurnInv', NEW p \in Pid, Exit(p)  PROVE PanelInv'
<1>1. /\ UNCHANGED <<single, epoch, fence, waking, call, mon, upsets>>
      /\ engine[p].child /\ engine[p].st = "gone" /\ engine' = [engine EXCEPT ![p].told = TRUE]
  BY DEF Exit, stopVars
<1>s. PICK s \in Session : s = engine[p].of
  BY <1>1, Known DEF EnginesShaped
<1>2. Wanes /\ ~Live(p)'
  <2>1. \A q \in Pid : /\ engine'[q].of = engine[q].of /\ engine'[q].child = engine[q].child
                       /\ engine'[q].since = engine[q].since /\ engine'[q].st = engine[q].st
                       /\ engine'[q].swept = engine[q].swept
    BY <1>1, Known DEF EngineType
  <2>2. engine' \in [Pid -> EngineType]
    BY <1>1, Known DEF EngineType
  <2>. QED  BY <1>1, <2>1, <2>2 DEF Wanes, Live, Present, Serves
<1>3. \/ UNCHANGED <<row, managed>>
      \/ /\ managed[s].kind # "none" => managed[s].kind = "child" /\ managed[s].pid = p
         /\ \E status \in {"stopped", "error"} : Update(s, status, 0)
         /\ Manage(s, [Unmanaged EXCEPT !.kind = "exited"])
  BY <1>s DEF Exit, known
<1>4. CASE UNCHANGED <<row, managed>>
  BY <1>1, <1>2, <1>4, Known, SessionsIdle, MonIdle, MonPanel
<1>5. ASSUME managed[s].kind # "none" => managed[s].kind = "child" /\ managed[s].pid = p,
             NEW status \in {"stopped", "error"}, Update(s, status, 0),
             Manage(s, [Unmanaged EXCEPT !.kind = "exited"])
      PROVE  PanelInv'
  <2>1. /\ row' \in [Session -> RowType] /\ managed' \in [Session -> ManagedType]
        /\ \A t \in Session \ {s} : row'[t] = row[t] /\ managed'[t] = managed[t]
        /\ row'[s].pid = 0 /\ managed'[s] = [Unmanaged EXCEPT !.kind = "exited"]
        /\ row'[s].status = "deleted" <=> row[s].status = "deleted"
    <3>1. row[s].status = "deleted" => row[s].pid = 0
      BY Known DEF Agree, There
    <3>. QED  BY <1>5, <3>1, Known, Kinds, Pids, UpdateIs, ManageIs
  <2>2. ~MissedBy(s)
    <3>1. p \in Spawned
      BY <1>1, Known DEF EnginesShaped
    <3>. QED  BY <1>s, <3>1, Known DEF MissedBy, NotBeside
  <2>3. Ordinary /\ row'[s].status # "deleted" => \A q \in Pid : engine[q].of = s => ~Live(q)'
    <3> SUFFICES ASSUME Ordinary, row'[s].status # "deleted", NEW q \in Pid, engine[q].of = s,
                        Live(q)'
                 PROVE  FALSE
      OBVIOUS
    <3>1. Live(q) /\ There(s)
      BY <1>2, <2>1 DEF Wanes, There
    <3>2. Busy(s) /\ managed[s].pid = q
      BY <2>2, <3>1, Unmissed
    <3>3. p = q
      BY <1>5, <3>2 DEF Busy
    <3>. QED  BY <1>2, <3>3
  <2>4. \A t \in Session : SessionStep(t)
    BY <1>2, <2>1, <2>3, DropStep DEF Unmanaged
  <2>. QED  BY <1>1, <1>2, <2>1, <2>4, MonIdle, MonPanel
<1>. QED  BY <1>3, <1>4, <1>5

\* It is forgotten.
LEMMA ForgetPanel ==
  ASSUME PanelInv, TurnInv', NEW s \in Session, Forget(s)  PROVE PanelInv'
<1>1. /\ UNCHANGED <<single, row, engine, epoch, fence, waking, call, mon, upsets>>
      /\ managed[s].kind = "exited" /\ Manage(s, Unmanaged)
  BY DEF Forget, stopVars
<1>2. /\ managed' \in [Session -> ManagedType] /\ managed'[s] = Unmanaged
      /\ \A t \in Session \ {s} : managed'[t] = managed[t]
  BY <1>1, Known, Kinds, ManageIs
<1>3. ~Busy(s) /\ ~Busy(s)' /\ managed'[s].pid = 0 /\ managed[s].pid = 0
  BY <1>1, <1>2, Known DEF Busy, Unmanaged, Agree
<1>4. Wanes
  BY <1>1, Known, SameWanes
<1>5. SessionStep(s)
  <2>0. There(s)' <=> There(s)
    BY <1>1 DEF There
  <2>1. Agree(s)'
    BY <1>1, <1>3, <2>0, Known DEF Agree
  <2>2. Knows(s)'
    BY <1>1, <1>3, <1>4, <2>0, Known, WanesFacts DEF Knows, Wanes
  <2>3. MissedBy(s)' => MissedBy(s) /\ row'[s].status \in {"stopped", "error"}
    BY <1>1, <1>3, <1>4, <2>0, Known, WanesFacts, Pids DEF MissedBy, Unseen, Wanes
  <2>. QED  BY <2>0, <2>1, <2>2, <2>3 DEF SessionStep
<1>6. \A t \in Session : SessionStep(t)
  BY <1>1, <1>2, <1>5 DEF SessionStep
<1>7. row' \in [Session -> RowType]
  BY <1>1, Known
<1>. QED  BY <1>1, <1>2, <1>4, <1>6, <1>7, MonIdle, MonPanel


-----------------------------------------------------------------------------
(* The whole.                                                              *)

\* Nothing happens.
LEMMA PanelIdle ==
  ASSUME PanelInv, TurnInv', UNCHANGED vars  PROVE PanelInv'
<1>1. UNCHANGED <<single, row, managed, engine, epoch, fence, waking, call, mon, upsets>>
  BY DEF vars, known, stopVars
<1>. QED  BY <1>1, Known, SameWanes, SessionsIdle, MonIdle, MonPanel

\* So every step keeps the invariant,
LEMMA PanelNext ==
  ASSUME PanelInv, [Next]_vars  PROVE PanelInv'
<1>0. TurnInv'
  BY Known, TurnNext
<1>1. CASE UNCHANGED vars
  BY <1>0, <1>1, PanelIdle
<1>2. ASSUME NEW c \in Call, Ask(c)  PROVE PanelInv'
  BY <1>0, <1>2, EnterPanel, AsksPanel, AskNapsPanel DEF Ask
<1>3. ASSUME NEW c \in Call, Step(c)  PROVE PanelInv'
  BY <1>0, <1>3, PassGatePanel, SignalPanel, RemovePanel, ScanPanel, AdoptPanel, StopOthersPanel,
     PreparePanel, RecheckPanel, SpawnPanel, PollPanel, StartedPanel, StopEnginePanel,
     StopKilledPanel, StopPurgedPanel, EnterPanel, DeletesPanel, ServePanel, NapEndsPanel DEF Step
<1>4. ASSUME Monitor  PROVE PanelInv'
  BY <1>0, <1>4, TickPanel, ExaminePanel, HealthyPanel, UnhealthyPanel, ReplacePanel DEF Monitor
<1>5. ASSUME NEW p \in Pid, Boots(p) \/ Wakes(p) \/ Dies(p) \/ Reap(p) \/ Exit(p)
      PROVE  PanelInv'
  BY <1>0, <1>5, BootsPanel, LifePanel, ReapPanel, ExitPanel
<1>6. ASSUME NEW s \in Session, Forget(s) \/ ByHand(s)  PROVE PanelInv'
  BY <1>0, <1>6, ForgetPanel, ByHandPanel
<1>. QED  BY <1>1, <1>2, <1>3, <1>4, <1>5, <1>6 DEF Next

\* The engine that an earlier run left, if any, is the only one there.
LeftIs(e, p) ==
  /\ engine = [q \in Pid |-> IF q = p /\ e.of # NoSession
                               THEN [NoEngine EXCEPT !.of = e.of, !.st = e.st] ELSE NoEngine]
  /\ row = [s \in Session |->
              IF s # e.of \/ e.how = "missed" THEN [status |-> "stopped", pid |-> 0]
              ELSE [status |-> IF e.how = "error" THEN "error" ELSE StatusOf(e.st), pid |-> p]]
  /\ managed = [s \in Session |-> IF s = e.of /\ e.how = "adopted" THEN Owns("adopted", p)
                                   ELSE Unmanaged]

\* Then no other engine is there, and it is well-formed.
LEMMA LeftEngines ==
  ASSUME NEW e \in Left, NEW p \in Pid, p = (IF e.st = "booting" THEN MaxPid ELSE 1),
         LeftIs(e, p)
  PROVE  /\ EnginesShaped
         /\ \A q \in Pid : /\ engine[q].child = FALSE /\ engine[q].swept = "no"
                           /\ Present(q) => q = p /\ engine[q].of = e.of /\ e.of \in Session
                           /\ engine[q].st # "none" => q = p
                           /\ engine[q].st # "dying"
         /\ e.of \in Session => engine[p].of = e.of /\ engine[p].st = e.st
<1>1. /\ e.of \in Session \cup {NoSession} /\ e.st \in {"booting", "up", "asleep", "gone"}
      /\ NoSession \notin Session
  BY SessionAssumption DEF Left
<1>2. ASSUME NEW q \in Pid
      PROVE  /\ engine[q] \in EngineType /\ engine[q].child = FALSE /\ engine[q].swept = "no"
             /\ engine[q].of = (IF q = p THEN e.of ELSE NoSession)
             /\ engine[q].st = (IF q = p /\ e.of # NoSession THEN e.st ELSE "none")
  <2>1. CASE q = p /\ e.of # NoSession
    <3>1. engine[q] = [NoEngine EXCEPT !.of = e.of, !.st = e.st]
      BY <2>1 DEF LeftIs
    <3>2. engine[q] = [of |-> e.of, st |-> e.st, child |-> FALSE, told |-> FALSE, since |-> 0,
                       swept |-> "no"]
      BY <3>1 DEF NoEngine
    <3>. QED  BY <1>1, <2>1, <3>2 DEF EngineType, EngineSt
  <2>2. CASE ~(q = p /\ e.of # NoSession)
    <3>1. engine[q] = NoEngine
      BY <2>2 DEF LeftIs
    <3>2. engine[q] = [of |-> NoSession, st |-> "none", child |-> FALSE, told |-> FALSE,
                       since |-> 0, swept |-> "no"]
      BY <3>1 DEF NoEngine
    <3>. QED  BY <1>1, <2>2, <3>2 DEF EngineType, EngineSt
  <2>. QED  BY <2>1, <2>2
<1>3. EnginesShaped
  <2>1. engine \in [Pid -> EngineType]
    BY <1>2 DEF LeftIs
  <2>2. \A q \in Pid : engine[q].st # "none" <=> engine[q].of \in Session
    BY <1>1, <1>2
  <2>3. p \notin Spawned
    BY Pids
  <2>4. \A q \in Pid : engine[q].child <=> q \in Spawned /\ engine[q].st # "none"
    BY <1>2, <2>3
  <2>5. engine[1].st # "booting"
    BY <1>1, <1>2, Pids
  <2>. QED  BY <1>2, <2>1, <2>2, <2>4, <2>5 DEF EnginesShaped
<1>. QED  BY <1>1, <1>2, <1>3 DEF Present, Live

\* The invariant holds as the panel comes up, whatever was left.
LEMMA PanelInit ==
  ASSUME Init  PROVE PanelInv
<1>1. TurnInv
  BY TurnInit
<1>2. PICK plan \in Plan : LeftIs(plan.left, IF plan.left.st = "booting" THEN MaxPid ELSE 1)
  BY DEF Init, LeftIs
<1>3. /\ single \in BOOLEAN /\ epoch = [t \in Session |-> 0] /\ fence = [t \in Session |-> 0]
      /\ waking = {} /\ mon = NoTick /\ upsets = 0
  BY <1>1 DEF Init, TurnInv
<1>e. PICK e \in Left : e = plan.left
  BY SessionAssumption
<1>p. PICK p \in Pid : p = (IF e.st = "booting" THEN MaxPid ELSE 1)
  BY Pids
<1>4. /\ e.of \in Session \cup {NoSession} /\ NoSession \notin Session /\ MaxUpset \in Nat
      /\ e.how = "adopted" => e.st \in {"up", "asleep"}
      /\ 0 \in 0..MaxPid /\ p \in 0..MaxPid /\ p # 0 /\ LeftIs(e, p)
  BY <1>2, <1>e, <1>p, SessionAssumption, Pids DEF Left
<1>5. \A c \in Call : call[c].pc = "new"
  <2>1. PICK q \in Plan :
          call = [c \in Call |-> [NoCall EXCEPT !.op = q.asks[c][1], !.s = q.asks[c][2]]]
    BY DEF Init
  <2>. QED  BY <2>1 DEF NoCall
<1>6. /\ EnginesShaped
      /\ \A q \in Pid : /\ engine[q].child = FALSE /\ engine[q].swept = "no"
                        /\ Present(q) => q = p /\ engine[q].of = e.of /\ e.of \in Session
                        /\ engine[q].st # "none" => q = p
                        /\ engine[q].st # "dying"
      /\ e.of \in Session => engine[p].of = e.of /\ engine[p].st = e.st
  <2>1. LeftIs(e, p)
    BY <1>4
  <2>. QED  BY <2>1, <1>p, LeftEngines, Zenon
<1>7. ASSUME NEW t \in Session
      PROVE  /\ row[t].status \in {"stopped", "error", "running", "standby"}
             /\ row[t].pid \in {0, p} /\ row[t] \in RowType
             /\ row[t].pid = p => t = e.of
             /\ managed[t] \in ManagedType
             /\ managed[t].kind \in {"none", "adopted"}
             /\ managed[t].kind = "none" => /\ managed[t].pid = 0
                                            /\ row[t].status \in {"stopped", "error"}
             /\ managed[t].kind = "adopted" => managed[t].pid = p /\ t = e.of
  <2>1. CASE t = e.of /\ e.how = "adopted"
    <3>1. managed[t] = Owns("adopted", p)
          /\ row[t] = [status |-> StatusOf(e.st), pid |-> p]
      BY <1>4, <2>1 DEF LeftIs
    <3>2. StatusOf(e.st) \in {"running", "standby"}
      BY DEF StatusOf
    <3>3. row[t].status = StatusOf(e.st) /\ row[t].pid = p
      BY <3>1
    <3>4. managed[t].kind = "adopted" /\ managed[t].pid = p
      BY <3>1 DEF Owns
    <3>5. managed[t] \in ManagedType
      BY <1>4, <3>1, Kinds
    <3>6. row[t] \in RowType
      BY <1>4, <3>1, <3>2 DEF RowType, Status
    <3>. QED  BY <1>4, <2>1, <3>2, <3>3, <3>4, <3>5, <3>6
  <2>2. CASE ~(t = e.of /\ e.how = "adopted")
    <3>1. managed[t] = Unmanaged
      BY <1>4, <2>2 DEF LeftIs
    <3>2. \/ row[t] = [status |-> "stopped", pid |-> 0]
          \/ row[t] = [status |-> "error", pid |-> p] /\ t = e.of
      <4>1. CASE t # e.of \/ e.how = "missed"
        BY <1>4, <4>1 DEF LeftIs
      <4>2. CASE t = e.of /\ e.how # "missed"
        <5>1. e.how = "error"
          BY <2>2, <4>2 DEF Left
        <5>. QED  BY <1>4, <4>2, <5>1 DEF LeftIs
      <4>. QED  BY <4>1, <4>2
    <3>3. managed[t] \in ManagedType /\ managed[t].kind = "none" /\ managed[t].pid = 0
      BY <3>1, Kinds DEF Unmanaged
    <3>4. CASE row[t] = [status |-> "stopped", pid |-> 0]
      <4>1. row[t] \in RowType
        BY <1>4, <3>4 DEF RowType, Status
      <4>. QED  BY <1>4, <3>3, <3>4, <4>1
    <3>5. CASE row[t] = [status |-> "error", pid |-> p] /\ t = e.of
      <4>1. row[t] \in RowType
        BY <1>4, <3>5 DEF RowType, Status
      <4>. QED  BY <3>3, <3>5, <4>1
    <3>. QED  BY <3>2, <3>4, <3>5
  <2>. QED  BY <2>1, <2>2
<1>8. SessionTypeOK
  <2>1. row \in [Session -> RowType]
    BY <1>4, <1>7 DEF LeftIs
  <2>2. managed \in [Session -> ManagedType]
    BY <1>4, <1>7 DEF LeftIs
  <2>. QED  BY <1>3, <1>4, <2>1, <2>2 DEF SessionTypeOK, RowType, ManagedType
<1>9. MonShaped
  BY <1>3, <1>4 DEF MonShaped, NoTick, EngineSt
<1>10. Ordinary => p = 1 \/ e.of = NoSession
  BY <1>4, <1>6, <1>p DEF Ordinary
<1>11. OneEach /\ NotBeside /\ Solo /\ MonFinds
  <2>1. OneEach
    BY <1>6 DEF OneEach, Present
  <2>2. NotBeside
    <3>1. \A q \in Spawned : engine[q].of \notin Session
      BY <1>6, Pids DEF EnginesShaped
    <3>2. Live(1) => engine[1].of \in Session
      BY <1>6, LiveOf, Pids DEF Present
    <3>. QED  BY <3>1, <3>2 DEF NotBeside
  <2>3. Solo
    BY <1>6 DEF Solo, Present
  <2>4. MonFinds
    BY <1>3 DEF MonFinds, NoTick
  <2>. QED  BY <2>1, <2>2, <2>3, <2>4
<1>12. ASSUME NEW c \in Call  PROVE RequestOK(call[c])
  <2>1. call[c].pc = "new"
    BY <1>5
  <2>. QED  BY <2>1 DEF RequestOK, Aims, Vacant, Prunes, Alone, Clean, Covers, Spawns, Wary, StopPc,
                       NapPc
<1>13. ASSUME NEW t \in Session  PROVE SessionOK(t)
  <2>1. Agree(t)
    BY <1>4, <1>6, <1>7 DEF Agree, Busy, There
  <2>2. Knows(t)
    BY <1>6, <1>7 DEF Knows, Busy, Present
  <2>3. Unseen(t)
    <3> SUFFICES ASSUME MissedBy(t)
                 PROVE  row[t].status \in {"stopped", "error"} /\ t \notin Todo
      BY DEF Unseen
    <3>1. Todo = {}
      BY <1>3 DEF Todo, NoTick
    <3>2. p = 1
      BY <1>6, Pids DEF MissedBy, Present
    <3>3. managed[t].kind = "none"
      BY <1>7, <3>2 DEF MissedBy
    <3>. QED  BY <1>7, <3>1, <3>3
  <2>4. Wins(t)
    BY <1>6 DEF Wins, LiveChild
  <2>5. Replaced(t)
    BY <1>6 DEF Replaced, Overlaps
  <2>. QED  BY <2>1, <2>2, <2>3, <2>4, <2>5 DEF SessionOK
<1>. QED  BY <1>1, <1>6, <1>8, <1>9, <1>11, <1>12, <1>13 DEF PanelInv, Typed, Rest

(* The inductive invariant of the panel: whoever waits for a session's     *)
(* operation lock or for the single-model gate has a place there and only  *)
(* the first goes on (withSessionLock, singleModelStartTransitionPending); *)
(* an unsuperseded start is behind every stop at its lock; the engines,    *)
(* the rows and what the panel manages agree; and a start that has found   *)
(* the port free or its holder (ensureOwnedSessionPortAvailable) spawns    *)
(* where no engine of the session is left but one told to end.             *)
THEOREM PanelInvariant == Spec => []PanelInv
<1>1. Init => PanelInv
  BY PanelInit
<1>2. PanelInv /\ [Next]_vars => PanelInv'
  BY PanelNext
<1>. QED  BY <1>1, <1>2, PTL DEF Spec

(* The rows, the managed processes, epochs and fences keep their types.    *)
THEOREM PanelTypes == Spec => []SessionTypeOK
<1>1. PanelInv => SessionTypeOK
  BY Known
<1>. QED  BY <1>1, PanelInvariant, PTL

(* An explicit stop wins: while no stop of a session is under way, a live  *)
(* engine that the panel spawned for it belongs to a start asked for after *)
(* its last stop (stopSession raises lifecycleEpochs and intentionalStops; *)
(* startSession checks its epoch again under the lock), even when a stop   *)
(* gave up waiting for the exit (killChildProcess).                        *)
THEOREM PanelStopWins == Spec => []StopWins
<1>1. ASSUME PanelInv  PROVE StopWins
  <2> SUFFICES ASSUME Ordinary, NEW p \in Pid, Live(p), engine[p].child,
                      fence[engine[p].of] = 0, row[engine[p].of].status # "deleted"
               PROVE  engine[p].since = epoch[engine[p].of]
    BY DEF StopWins
  <2>1. engine[p].of \in Session
    BY <1>1, Known DEF EnginesShaped, Live
  <2>. QED  BY <1>1, <2>1, Known DEF Wins, LiveChild, There
<1>. QED  BY <1>1, PanelInvariant, PTL

(* No orphans: every live engine the panel spawned is the one that the     *)
(* session's row or the managed processes name, whatever exits,            *)
(* replacements and failed starts came between (the exit handler,          *)
(* incrementFailAndCheck and handleSessionDown).                           *)
THEOREM PanelTracked == Spec => []Tracked
<1>1. ASSUME PanelInv  PROVE Tracked
  <2> SUFFICES ASSUME Ordinary, NEW p \in Pid, Live(p), engine[p].child,
                      row[engine[p].of].status # "deleted"
               PROVE  p \in {managed[engine[p].of].pid, row[engine[p].of].pid}
    BY DEF Tracked
  <2>1. engine[p].of \in Session
    BY <1>1, Known DEF EnginesShaped, Live
  <2>. QED  BY <1>1, <2>1, Known DEF Knows, There
<1>. QED  BY <1>1, PanelInvariant, PTL

\* A set whose members are all the same has one at most.
LEMMA AtMostOne ==
  ASSUME NEW S, \A x, y \in S : x = y
  PROVE  Cardinality(S) <= 1
<1>1. CASE S = {}
  BY <1>1, FS_EmptySet
<1>2. CASE S # {}
  <2>1. PICK x : x \in S
    BY <1>2
  <2>2. S = {x}
    BY <2>1
  <2>. QED  BY <2>2, FS_Singleton
<1>. QED  BY <1>1, <1>2

(* In single-model mode no two engines are ever loaded but for those told  *)
(* to end, and no session ever has two: what startSession does at the      *)
(* transition gate, to the other sessions and under its lock leaves none,  *)
(* although it looks for engines of its session only while something holds *)
(* the port (ensureOwnedSessionPortAvailable) and a stop does not wait for *)
(* an exit for ever (killChildProcess).                                    *)
THEOREM PanelOneModel == Spec => []OneModel
<1>1. ASSUME PanelInv, Ordinary  PROVE OneModel
  <2>1. ASSUME single  PROVE Cardinality({p \in Pid : Live(p)}) <= 1
    <3>1. \A p, q \in {x \in Pid : Live(x)} : p = q
      BY <1>1, <2>1, Known DEF Solo
    <3>. QED  BY <3>1, AtMostOne
  <2>2. ASSUME NEW s \in Session  PROVE Cardinality({p \in Of(s) : Live(p)}) <= 1
    <3>1. \A p, q \in {x \in Of(s) : Live(x)} : p = q
      BY <1>1, Known DEF OneEach, Of
    <3>. QED  BY <3>1, AtMostOne
  <2>. QED  BY <2>1, <2>2 DEF OneModel
<1>2. PanelInv => OneModel
  BY <1>1 DEF OneModel
<1>. QED  BY <1>2, PanelInvariant, PTL
=============================================================================
