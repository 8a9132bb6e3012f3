------------------------- MODULE EngineCore_proofs -------------------------
(***************************************************************************)
(* The promises of the engine loop, for every number of requests, batch    *)
(* size, interval and bound on failures.                                   *)
(*                                                                         *)
(* TurnsTaken says where the worker can be while the loop is at a place,   *)
(* FenceDown that the fence is down while terminal cleanup is outstanding, *)
(* RowsOwned that each row of the generator belongs to a running request,  *)
(* to one that is marked for removal, or to the one being inserted.        *)
(*                                                                         *)
(* The promises to the clients need more: StepOrder says at which places   *)
(* the results of a step are outstanding, Places that a request is in one  *)
(* place of the scheduler at a time and that one with a collector is       *)
(* registered, ClientSide what a client can have received at each place,   *)
(* InOrder that its tokens, wherever they are, are the first that were     *)
(* made, and Complete that after "stop" none is missing and none can come. *)
(***************************************************************************)
EXTENDS EngineCore, Queues_proofs

Stepping == {"aborts", "schedule", "inserting", "inserted", "generate", "returned"}
Output == [toks : Seq(Nat), fin : {"none", "no"} \cup Terminal]

Types ==
  /\ EngineTypeOK
  /\ orphans \in [Req -> Nat]
  /\ got \in [Req -> Seq(Nat)] /\ pend \in [Req -> Seq(Nat)]
  /\ held \in [Req -> Output] /\ buf \in [Req -> Output]
  /\ made \in [Req -> Nat]
  /\ wpc \in {"inserting", "inserted"} => cur \in Req
  /\ \A r \in Req : phase[r] = "held" => held[r].fin \in Terminal

TurnsTaken ==
  /\ wpc = "idle" => lpc \in {"top", "dispatched"}
  /\ wpc \in Stepping => lpc = "await"
  /\ wpc \in {"storing", "stored"} => lpc = "cleanup"
  /\ wpc = "raised" => lpc \in {"await", "cleanup"}
  /\ wpc \in Stepping \cup {"idle", "storing", "stored", "raised"}

FenceDown ==
  /\ lpc = "top" \/ wpc = "stored" => toStore = {}
  /\ lpc \in {"dispatched", "cleanup"} => fence = FALSE
  /\ lpc \in {"top", "await", "dispatched", "cleanup"}

RowsOwned == \A r \in uids : \/ r \in running \cup aborts
                             \/ wpc = "inserted" /\ r = cur

\* The request the worker holds between the queue and the registry.
InHand == {r \in {cur} : wpc \in {"inserting", "inserted"}}

\* The tokens of a request that have left the worker, those its client has
\* taken, and all of them wherever they are.
Made(r) == IF r \in outs THEN made[r] - 1 ELSE made[r]
Read(r) == got[r] \o held[r].toks
Text(r) == Read(r) \o buf[r].toks \o pend[r]

StepOrder ==
  /\ wpc # "returned" => outs = {}
  /\ lpc = "await" => toStore \subseteq outs

Places ==
  /\ NoRepeats(waiting)
  /\ running \cap InWaiting = {}
  /\ InHand \cap (running \cup InWaiting) = {}
  /\ toStore \cap InWaiting = {}
  /\ cols \cap (running \cup InWaiting \cup InHand) \subseteq sreqs
  /\ \A r \in sreqs \cap (InWaiting \cup InHand) :
       wpc # "inserted" \/ r # cur => status[r] = "WAITING"

Fresh(r) ==
  /\ r \notin cols \cup sreqs \cup running \cup InWaiting \cup InHand \cup outs \cup toStore
  /\ status[r] = "WAITING"
  /\ made[r] = 0 /\ Text(r) = <<>> /\ buf[r].fin = "none"

ClientSide ==
  \A r \in Req :
    /\ phase[r] \in {"new", "gated"} => Fresh(r)
    /\ phase[r] # "done" => outcome[r] = "open"
    /\ phase[r] \in {"new", "gated", "active"} => held[r].toks = <<>>

InOrder ==
  \A r \in Req : \E n \in 0..Made(r) :
    Text(r) = Numbers(n) /\ (r \in cols => n = Made(r))

\* No token of the request can be made any more.
Ended(r) ==
  /\ phase[r] \notin {"new", "gated"}
  /\ r \notin InWaiting \cup InHand \cup outs
  /\ r \in running => r \in toStore \cap sreqs

Complete ==
  \A r \in Req :
    /\ buf[r].fin = "stop" => Ended(r) /\ Read(r) \o buf[r].toks = Numbers(made[r])
    /\ phase[r] = "held" /\ held[r].fin = "stop" => Ended(r) /\ Read(r) = Numbers(made[r])
    /\ outcome[r] = "stop" => Ended(r)

Control == TurnsTaken /\ FenceDown /\ RowsOwned /\ StepOrder

EngineInv == Types /\ Control /\ Places /\ ClientSide /\ InOrder /\ Complete

(* What an abort of a set of requests (Scheduler.abort_request) does to    *)
(* every registry: the queue loses those that wait, in order, the others   *)
(* leave the registries and a row that they own is marked.                 *)
LEMMA AbortedEffect ==
  ASSUME Types, NEW S, Aborted(S)
  PROVE  /\ sreqs' = sreqs \ S
         /\ running' = running \ (S \cap sreqs)
         /\ uids' = uids
         /\ aborts' = aborts \cup (S \cap sreqs \cap uids)
         /\ waiting' \in Seq(Req)
         /\ InWaiting' = InWaiting \ {r \in S \cap sreqs : status[r] = "WAITING"}
         /\ NoRepeats(waiting) => NoRepeats(waiting')
         /\ status' \in [Req -> {"WAITING", "RUNNING", "FINISHED", "ABORTED"}]
         /\ \A r \in Req : r \notin S \cap sreqs => status'[r] = status[r]
<1> DEFINE A == S \cap sreqs
           L == {r \in A : status[r] = "WAITING"}
<1>1. waiting \in Seq(Req) /\ sreqs \subseteq Req
  BY DEF Types, EngineTypeOK
<1>2. waiting' = Without(waiting, L)
  BY DEF Aborted
<1>3. /\ waiting' \in Seq(Req) /\ Members(waiting') = Members(waiting) \ L
      /\ NoRepeats(waiting) => NoRepeats(waiting')
  <2> HIDE DEF L
  <2>. QED  BY <1>1, <1>2, WithoutKeeps
<1>4. /\ sreqs' = sreqs \ S
      /\ running' = running \ (S \cap sreqs)
      /\ uids' = uids
      /\ aborts' = aborts \cup (S \cap sreqs \cap uids)
  BY DEF Aborted
<1>5. status' = [r \in Req |-> IF r \in A THEN "ABORTED" ELSE status[r]]
  BY DEF Aborted
<1>6. /\ status' \in [Req -> {"WAITING", "RUNNING", "FINISHED", "ABORTED"}]
      /\ \A r \in Req : r \notin S \cap sreqs => status'[r] = status[r]
  BY <1>5 DEF Types, EngineTypeOK
<1>. QED  BY <1>3, <1>4, <1>6 DEF InWaiting

(* The types of what a client step changes. *)
LEMMA ClientTypes ==
  ASSUME Types, NEW r \in Req, Client(r)
  PROVE  Types'
<1> USE DEF clientVars, streamVars, loopVars, schedVars, workVars
<1>1. CASE Enter(r) \/ Resume(r)
  <2>1. CASE Admit(r)
    <3>1. waiting' \in Seq(Req)
      BY <2>1 DEF Admit, Types, EngineTypeOK
    <3>. QED  BY <2>1, <3>1 DEF Admit, Types, EngineTypeOK, Output
  <2>2. CASE Enter(r) /\ ~fence
    BY <2>2 DEF Enter, Types, EngineTypeOK, Output
  <2>. QED  BY <1>1, <2>1, <2>2 DEF Enter, Resume
<1>2. CASE Refuse(r) \/ GiveUp(r)
  BY <1>2 DEF Refuse, GiveUp, Types, EngineTypeOK, Output
<1>3. CASE Take(r)
  <2>1. Empty \in Output /\ buf[r] \in Output /\ buf[r].toks \in Seq(Nat) /\ got[r] \in Seq(Nat)
    BY DEF Types, Output, Empty
  <2>2. got[r] \o buf[r].toks \in Seq(Nat)
    BY <2>1, ConcatProperties
  <2>3. got' \in [Req -> Seq(Nat)] /\ held' \in [Req -> Output] /\ buf' \in [Req -> Output]
    <3>1. got \in [Req -> Seq(Nat)] /\ held \in [Req -> Output] /\ buf \in [Req -> Output]
      BY DEF Types
    <3>2. \/ got' = [got EXCEPT ![r] = @ \o buf[r].toks] /\ UNCHANGED <<phase, held>>
          \/ got' = got /\ held' = [held EXCEPT ![r] = buf[r]] /\ phase' = [phase EXCEPT ![r] = "held"]
      BY <1>3 DEF Take
    <3>3. got' \in [Req -> Seq(Nat)] /\ held' \in [Req -> Output]
      BY <2>1, <2>2, <3>1, <3>2
    <3>4. buf' = [buf EXCEPT ![r] = Empty]
      BY <1>3 DEF Take
    <3>5. buf' \in [Req -> Output]
      BY <2>1, <3>1, <3>4
    <3>. QED  BY <3>3, <3>5
  <2>4. phase' \in [Req -> {"new", "gated", "active", "held", "done"}]
    <3>1. phase \in [Req -> {"new", "gated", "active", "held", "done"}]
      BY DEF Types, EngineTypeOK
    <3>2. phase' = phase \/ phase' = [phase EXCEPT ![r] = "held"]
      BY <1>3 DEF Take
    <3>. QED  BY <3>1, <3>2
  <2>5. ASSUME NEW q \in Req, phase'[q] = "held"  PROVE held'[q].fin \in Terminal
    <3>1. CASE q = r /\ buf[r].fin # "no"
      BY <3>1, <1>3, <2>1 DEF Take, Types, Output
    <3>2. CASE q # r \/ buf[r].fin = "no"
      BY <3>2, <2>5, <1>3 DEF Take, Types, EngineTypeOK
    <3>. QED  BY <3>1, <3>2
  <2>. QED  BY <1>3, <2>3, <2>4, <2>5 DEF Take, Types, EngineTypeOK
<1>4. CASE Deliver(r) \/ Disconnect(r) \/ Cancel(r)
  <2>1. CleanupRequest(r)
    BY <1>4 DEF Deliver, Disconnect, Leave, Cancel
  <2>2. PICK S : Aborted(S)
    BY <2>1 DEF CleanupRequest
  <2>3. /\ sreqs' \subseteq Req /\ running' \subseteq Req /\ uids' \subseteq Req
        /\ aborts' \subseteq Req /\ waiting' \in Seq(Req)
        /\ status' \in [Req -> {"WAITING", "RUNNING", "FINISHED", "ABORTED"}]
    BY <2>2, AbortedEffect DEF Types, EngineTypeOK
  <2>4. buf' \in [Req -> Output] /\ pend' \in [Req -> Seq(Nat)]
    <3>1. buf[r].toks \in Seq(Nat) /\ pend[r] \in Seq(Nat) /\ <<>> \in Seq(Nat)
      BY DEF Types, Output
    <3>2. buf[r].toks \o pend[r] \in Seq(Nat)
      BY <3>1, ConcatProperties
    <3>3. Put(buf[r], pend[r], "aborted") \in Output
      BY <3>2 DEF Put, Output, Terminal
    <3>. QED  BY <2>1, <3>1, <3>3 DEF CleanupRequest, Types
  <2>5. got[r] \o held[r].toks \in Seq(Nat) /\ Empty \in Output
    <3>1. got[r] \in Seq(Nat) /\ held[r].toks \in Seq(Nat)
      BY DEF Types, Output
    <3>. QED  BY <3>1, ConcatProperties DEF Output, Empty
  <2>6. got' \in [Req -> Seq(Nat)] /\ held' \in [Req -> Output]
    BY <1>4, <2>5 DEF Deliver, Disconnect, Leave, Cancel, Types
  <2>7. /\ phase' \in [Req -> {"new", "gated", "active", "held", "done"}]
        /\ outcome' \in [Req -> Terminal \cup {"open", "refused", "dropped"}]
    <3>1. CASE Deliver(r)
      BY <3>1 DEF Deliver, Types, EngineTypeOK
    <3>2. CASE Disconnect(r) \/ Cancel(r)
      BY <3>2 DEF Disconnect, Leave, Cancel, Types, EngineTypeOK
    <3>. QED  BY <1>4, <3>1, <3>2
  <2>8. cols' \subseteq Req
    BY <2>1 DEF CleanupRequest, Types, EngineTypeOK
  <2>9. ASSUME NEW q \in Req, phase'[q] = "held"  PROVE held'[q].fin \in Terminal
    BY <2>9, <1>4 DEF Deliver, Disconnect, Leave, Cancel, Types, EngineTypeOK
  <2>. QED  BY <2>1, <2>3, <2>4, <2>6, <2>7, <2>8, <2>9 DEF CleanupRequest, Types, EngineTypeOK
<1>. QED  BY <1>1, <1>2, <1>3, <1>4 DEF Client

(* The types of what the loop changes. *)
LEMMA LoopTypes ==
  ASSUME Types, EngineLoop
  PROVE  Types'
<1> USE DEF clientVars, streamVars, loopVars, schedVars, workVars
<1>1. CASE SubmitStep \/ StartCleanup \/ FinishCleanup
  BY <1>1 DEF SubmitStep, StartCleanup, FinishCleanup, Types, EngineTypeOK, Output
<1>2. CASE Dispatch
  <2>1. Distribute(toStore)
    BY <1>2 DEF Dispatch
  <2>2. PICK S : Aborted(S)
    BY <2>1 DEF Distribute
  <2>3. /\ sreqs' \subseteq Req /\ running' \subseteq Req /\ uids' \subseteq Req
        /\ aborts' \subseteq Req /\ waiting' \in Seq(Req)
        /\ status' \in [Req -> {"WAITING", "RUNNING", "FINISHED", "ABORTED"}]
    BY <2>2, AbortedEffect DEF Types, EngineTypeOK
  <2>4. ASSUME NEW r \in Req
        PROVE  /\ <<made[r]>> \in Seq(Nat) /\ pend[r] \o <<made[r]>> \in Seq(Nat)
               /\ Append(pend[r], made[r]) \in Seq(Nat)
               /\ buf[r].toks \o (pend[r] \o <<made[r]>>) \in Seq(Nat)
    <3>1. made[r] \in Nat /\ pend[r] \in Seq(Nat) /\ buf[r].toks \in Seq(Nat)
      BY DEF Types, Output
    <3>2. <<made[r]>> \in Seq(Nat) /\ Append(pend[r], made[r]) \in Seq(Nat)
      BY <3>1
    <3>3. pend[r] \o <<made[r]>> \in Seq(Nat)
      BY <3>1, <3>2, ConcatProperties
    <3>. QED  BY <3>1, <3>2, <3>3, ConcatProperties
  <2>5. \A r \in Req : \A fin \in {"stop", "no"} :
          Put(buf[r], pend[r] \o <<made[r]>>, fin) \in Output
    BY <2>4 DEF Put, Output, Terminal
  <2>6. buf' \in [Req -> Output]
    BY <2>1, <2>5 DEF Distribute, Types
  <2>7. pend' \in [Req -> Seq(Nat)]
    BY <2>1, <2>4 DEF Distribute, Types
  <2>8. orphans' \in [Req -> Nat] /\ \A r \in Req : orphans'[r] \in 0..(OrphanLimit - 1)
    <3>1. OrphanLimit \in Nat \ {0} /\ \A r \in Req : orphans[r] \in 0..(OrphanLimit - 1)
      BY EngineAssumption DEF Types, EngineTypeOK
    <3>2. PICK reaped :
            /\ {r \in outs \ cols : orphans[r] + 1 >= OrphanLimit} \subseteq reaped
            /\ orphans' = [r \in Req |->
                 IF r \in (outs \cap cols) \cup reaped \cup toStore THEN 0
                 ELSE IF r \in outs \ cols THEN orphans[r] + 1 ELSE orphans[r]]
      BY <2>1 DEF Distribute
    <3>3. ASSUME NEW r \in Req  PROVE orphans'[r] \in 0..(OrphanLimit - 1)
      BY <3>1, <3>2
    <3>4. \A r \in Req : orphans'[r] \in Nat
      BY <3>1, <3>3
    <3>5. orphans' \in [Req -> Nat]
      BY <3>2, <3>4
    <3>. QED  BY <3>3, <3>5
  <2>9. fence' \in BOOLEAN /\ lpc' \in {"top", "await", "dispatched", "cleanup"}
    BY <1>2 DEF Dispatch, Types, EngineTypeOK
  <2>. QED  BY <1>2, <2>3, <2>6, <2>7, <2>8, <2>9 DEF Dispatch, Types, EngineTypeOK
<1>3. CASE LoopError
  <2>1. Aborted(running \cup InWaiting)
    BY <1>3 DEF LoopError
  <2>2. /\ sreqs' \subseteq Req /\ running' \subseteq Req /\ uids' \subseteq Req
        /\ aborts' \subseteq Req /\ waiting' \in Seq(Req)
        /\ status' \in [Req -> {"WAITING", "RUNNING", "FINISHED", "ABORTED"}]
    BY <2>1, AbortedEffect DEF Types, EngineTypeOK
  <2>3. \A r \in Req : Put(buf[r], <<>>, "error") \in Output
    <3> SUFFICES ASSUME NEW r \in Req  PROVE Put(buf[r], <<>>, "error") \in Output
      OBVIOUS
    <3>1. buf[r].toks \in Seq(Nat) /\ <<>> \in Seq(Nat)
      BY DEF Types, Output
    <3>2. buf[r].toks \o <<>> \in Seq(Nat)
      BY <3>1, ConcatProperties
    <3>. QED  BY <3>2 DEF Put, Output, Terminal
  <2>4. buf' \in [Req -> Output]
    BY <1>3, <2>3 DEF LoopError, Types
  <2>5. orphans' \in [Req -> Nat] /\ \A r \in Req : orphans'[r] \in 0..(OrphanLimit - 1)
    BY <1>3, EngineAssumption DEF LoopError
  <2>. QED  BY <1>3, <2>2, <2>4, <2>5 DEF LoopError, Types, EngineTypeOK
<1>. QED  BY <1>1, <1>2, <1>3 DEF EngineLoop

(* The types of what the worker changes. *)
LEMMA WorkerTypes ==
  ASSUME Types, Worker
  PROVE  Types'
<1> USE DEF clientVars, streamVars, loopVars, schedVars, workVars, Working
<1>1. CASE ProcessAborts \/ InsertRunning \/ EndSchedule \/ Raise \/ Store \/ Stored
  BY <1>1 DEF ProcessAborts, InsertRunning, EndSchedule, Raise, Store, Stored,
              Types, EngineTypeOK, Output
<1>2. CASE Pop
  <2>1. waiting \in Seq(Req) /\ waiting # <<>>
    BY <1>2 DEF Pop, Types, EngineTypeOK
  <2>2. cur' \in Req /\ waiting' \in Seq(Req)
    BY <1>2, <2>1, HeadTailProperties DEF Pop
  <2>. QED  BY <1>2, <2>2 DEF Pop, Types, EngineTypeOK, Output
<1>3. CASE InsertUid
  BY <1>3 DEF InsertUid, Types, EngineTypeOK, Output
<1>4. CASE InsertFails
  <2>1. cur \in Req /\ waiting \in Seq(Req)
    BY <1>4 DEF InsertFails, Types, EngineTypeOK
  <2>2. <<cur>> \in Seq(Req)
    BY <2>1
  <2>3. waiting' \in Seq(Req)
    BY <1>4, <2>1, <2>2, ConcatProperties DEF InsertFails
  <2>. QED  BY <1>4, <2>3 DEF InsertFails, Types, EngineTypeOK, Output
<1>5. CASE Generate
  <2>1. outs' \subseteq Req /\ made' \in [Req -> Nat]
    BY <1>5 DEF Generate, Types, EngineTypeOK
  <2>2. toStore' \subseteq Req /\ status' \in [Req -> {"WAITING", "RUNNING", "FINISHED", "ABORTED"}]
    BY <1>5, <2>1 DEF Generate, Types, EngineTypeOK
  <2>. QED  BY <1>5, <2>1, <2>2 DEF Generate, Types, EngineTypeOK, Output
<1>6. CASE Restart
  <2>1. PICK order \in [1..Cardinality(running) -> running] : waiting' = order \o waiting
    BY <1>6 DEF Restart
  <2>2. IsFiniteSet(running) /\ running \subseteq Req
    BY EngineAssumption, FS_Subset DEF Types, EngineTypeOK
  <2>3. Cardinality(running) \in Nat
    BY <2>2, FS_CardinalityType
  <2>4. order \in Seq(Req) /\ waiting \in Seq(Req)
    <3> DEFINE n == Cardinality(running)
    <3> HIDE DEF n
    <3>1. order \in [1..n -> Req] /\ n \in Nat
      BY <2>2, <2>3 DEF n
    <3>. QED  BY <3>1 DEF Types, EngineTypeOK
  <2>5. waiting' \in Seq(Req)
    BY <2>1, <2>4, ConcatProperties
  <2>6. status' \in [Req -> {"WAITING", "RUNNING", "FINISHED", "ABORTED"}]
    BY <1>6 DEF Restart, Types, EngineTypeOK
  <2>. QED  BY <1>6, <2>5, <2>6 DEF Restart, Types, EngineTypeOK, Output
<1>. QED  BY <1>1, <1>2, <1>3, <1>4, <1>5, <1>6 DEF Worker

(* What an abort leaves of the rows and of the registry. *)
LEMMA AbortedKeeps ==
  ASSUME NEW S, Aborted(S), RowsOwned, wpc' = wpc, cur' = cur
  PROVE  RowsOwned' /\ sreqs' \subseteq sreqs
  BY DEF Aborted, RowsOwned

(* A client step keeps the turns, the fence and the rows, and adds to the  *)
(* registry only when it finds the fence open.                             *)
LEMMA ClientStep ==
  ASSUME Control, NEW r \in Req, Client(r)
  PROVE  Control' /\ (sreqs' \subseteq sreqs \/ fence)
<1> USE DEF vars, clientVars, streamVars, loopVars, schedVars, workVars
<1>1. CASE Enter(r)
  BY <1>1 DEF Enter, Admit, Control, TurnsTaken, FenceDown, RowsOwned, StepOrder
<1>2. CASE Resume(r)
  BY <1>2 DEF Resume, Admit, Control, TurnsTaken, FenceDown, RowsOwned, StepOrder
<1>3. CASE Refuse(r) \/ Take(r) \/ GiveUp(r)
  BY <1>3 DEF Refuse, Take, GiveUp, Control, TurnsTaken, FenceDown, RowsOwned, StepOrder
<1>4. CASE CleanupRequest(r)
  <2>1. RowsOwned' /\ sreqs' \subseteq sreqs
    <3>1. PICK S : Aborted(S)
      BY <1>4 DEF CleanupRequest
    <3>. QED  BY <1>4, <3>1, AbortedKeeps DEF CleanupRequest, Control
  <2>2. TurnsTaken' /\ FenceDown' /\ StepOrder'
    BY <1>4 DEF CleanupRequest, Control, TurnsTaken, FenceDown, StepOrder
  <2>. QED  BY <2>1, <2>2 DEF Control
<1>. QED  BY <1>1, <1>2, <1>3, <1>4 DEF Client, Deliver, Disconnect, Leave, Cancel

(* So does a step of the loop, which never adds to the registry. *)
LEMMA LoopStep ==
  ASSUME Control, EngineLoop
  PROVE  Control' /\ sreqs' \subseteq sreqs
<1> USE DEF clientVars, streamVars, loopVars, schedVars, workVars, Stepping
<1>1. CASE SubmitStep
  BY <1>1 DEF SubmitStep, Control, TurnsTaken, FenceDown, RowsOwned, StepOrder
<1>2. CASE Dispatch
  <2>1. PICK S : Aborted(S)
    BY <1>2 DEF Dispatch, Distribute
  <2>2. RowsOwned' /\ sreqs' \subseteq sreqs
    BY <1>2, <2>1 DEF Dispatch, Aborted, RowsOwned, Control
  <2>3. TurnsTaken' /\ FenceDown' /\ StepOrder'
    BY <1>2 DEF Dispatch, Control, TurnsTaken, FenceDown, StepOrder
  <2>. QED  BY <2>2, <2>3 DEF Control
<1>3. CASE StartCleanup \/ FinishCleanup
  BY <1>3 DEF StartCleanup, FinishCleanup, Control, TurnsTaken, FenceDown, RowsOwned, StepOrder
<1>4. CASE LoopError
  <2>1. RowsOwned' /\ sreqs' \subseteq sreqs
    BY <1>4 DEF LoopError, Aborted, RowsOwned, Control
  <2>2. TurnsTaken' /\ FenceDown' /\ StepOrder'
    BY <1>4 DEF LoopError, Control, TurnsTaken, FenceDown, StepOrder
  <2>. QED  BY <2>1, <2>2 DEF Control
<1>. QED  BY <1>1, <1>2, <1>3, <1>4 DEF EngineLoop

(* So does a step of the worker. *)
LEMMA WorkerStep ==
  ASSUME Control, Worker
  PROVE  Control' /\ sreqs' \subseteq sreqs
<1> USE DEF clientVars, streamVars, loopVars, schedVars, workVars, Stepping, Working
<1>1. CASE ProcessAborts
  BY <1>1 DEF ProcessAborts, Control, TurnsTaken, FenceDown, RowsOwned, StepOrder
<1>2. CASE Pop
  BY <1>2 DEF Pop, Control, TurnsTaken, FenceDown, RowsOwned, StepOrder
<1>3. CASE InsertUid
  BY <1>3 DEF InsertUid, Control, TurnsTaken, FenceDown, RowsOwned, StepOrder
<1>4. CASE InsertRunning
  BY <1>4 DEF InsertRunning, Control, TurnsTaken, FenceDown, RowsOwned, StepOrder
<1>5. CASE InsertFails
  BY <1>5 DEF InsertFails, Control, TurnsTaken, FenceDown, RowsOwned, StepOrder
<1>6. CASE EndSchedule \/ Raise \/ Stored
  BY <1>6 DEF EndSchedule, Raise, Stored, Control, TurnsTaken, FenceDown, RowsOwned, StepOrder
<1>7. CASE Generate
  BY <1>7 DEF Generate, Control, TurnsTaken, FenceDown, RowsOwned, StepOrder
<1>8. CASE Restart
  BY <1>8 DEF Restart, Control, TurnsTaken, FenceDown, RowsOwned, StepOrder
<1>9. CASE Store
  BY <1>9 DEF Store, Control, TurnsTaken, FenceDown, RowsOwned, StepOrder
<1>. QED
  BY <1>1, <1>2, <1>3, <1>4, <1>5, <1>6, <1>7, <1>8, <1>9 DEF Worker

(* Requests stay in one place each when some of them are aborted. *)
LEMMA PlacesAborted ==
  ASSUME Types, Places, NEW S, Aborted(S),
         cols' \subseteq cols, toStore' \subseteq toStore,
         InHand' = {} \/ (wpc' = wpc /\ cur' = cur),
         S \cap cols' \cap InHand' = {}
  PROVE  Places'
<1>1. /\ sreqs' = sreqs \ S
      /\ running' = running \ (S \cap sreqs)
      /\ InWaiting' = InWaiting \ {r \in S \cap sreqs : status[r] = "WAITING"}
      /\ NoRepeats(waiting) => NoRepeats(waiting')
      /\ \A r \in Req : r \notin S \cap sreqs => status'[r] = status[r]
  BY AbortedEffect
<1>2. InHand' \subseteq InHand /\ (InHand' # {} => wpc' = wpc /\ cur' = cur)
  BY DEF InHand
<1>3. sreqs \subseteq Req
  BY DEF Types, EngineTypeOK
<1>4. NoRepeats(waiting)'
  BY <1>1 DEF Places
<1>5. /\ running' \cap InWaiting' = {}
      /\ InHand' \cap (running' \cup InWaiting') = {}
      /\ toStore' \cap InWaiting' = {}
  BY <1>1, <1>2 DEF Places
<1>6. cols' \cap (running' \cup InWaiting' \cup InHand') \subseteq sreqs'
  <2> SUFFICES ASSUME NEW r \in cols', r \in running' \cup InWaiting' \cup InHand'
               PROVE  r \in sreqs'
    OBVIOUS
  <2>1. r \in sreqs
    BY <1>1, <1>2 DEF Places
  <2>2. ASSUME r \in S  PROVE FALSE
    <3>1. r \notin running' /\ r \notin InHand'
      BY <2>1, <2>2, <1>1
    <3>2. r \in InWaiting /\ status[r] # "WAITING"
      BY <3>1, <1>1, <2>1, <2>2
    <3>3. r \notin InHand
      BY <3>2 DEF Places
    <3>4. wpc # "inserted" \/ r # cur
      BY <3>3 DEF InHand
    <3>. QED  BY <3>2, <3>4, <2>1 DEF Places
  <2>. QED  BY <2>1, <2>2, <1>1
<1>7. ASSUME NEW r \in sreqs' \cap (InWaiting' \cup InHand'), wpc' # "inserted" \/ r # cur'
      PROVE  status'[r] = "WAITING"
  <2>1. r \in sreqs /\ r \notin S /\ r \in InWaiting \cup InHand
    BY <1>7, <1>1, <1>2
  <2>2. wpc # "inserted" \/ r # cur
    <3>1. CASE r \in InWaiting
      BY <3>1 DEF Places, InHand
    <3>2. CASE r \in InHand'
      BY <3>2, <1>2, <1>7
    <3>. QED  BY <3>1, <3>2, <1>7, <1>1
  <2>. QED  BY <2>1, <2>2, <1>1, <1>3 DEF Places
<1>. QED  BY <1>4, <1>5, <1>6, <1>7 DEF Places

(* ... after a client step, *)
LEMMA ClientPlaces ==
  ASSUME Types, Places, ClientSide, NEW r \in Req, Client(r)
  PROVE  Places'
<1> USE DEF clientVars, streamVars, loopVars, schedVars, workVars
<1>1. CASE Admit(r) /\ phase[r] \in {"new", "gated"}
  <2>1. Fresh(r)
    BY <1>1 DEF ClientSide
  <2>2. waiting \in Seq(Req)
    BY DEF Types, EngineTypeOK
  <2>3. InWaiting' = InWaiting \cup {r} /\ (NoRepeats(waiting) => NoRepeats(waiting'))
    BY <1>1, <2>1, <2>2, AppendMembers DEF Admit, InWaiting, Fresh
  <2>4. InHand' = InHand
    BY <1>1 DEF Admit, InHand
  <2>. QED  BY <1>1, <2>1, <2>3, <2>4 DEF Admit, Places, Fresh
<1>2. CASE Refuse(r) \/ GiveUp(r) \/ Take(r) \/ (Enter(r) /\ ~fence)
  BY <1>2 DEF Refuse, GiveUp, Take, Enter, Places, InHand, InWaiting
<1>3. CASE CleanupRequest(r)
  <2> DEFINE S == IF r \in sreqs /\ Finished(r) THEN {} ELSE {r}
  <2>1. Aborted(S) /\ cols' = cols \ {r} /\ toStore' = toStore /\ wpc' = wpc /\ cur' = cur
    BY <1>3 DEF CleanupRequest
  <2>2. S \cap cols' \cap InHand' = {}
    BY <2>1
  <2> HIDE DEF S
  <2>. QED  BY <2>1, <2>2, PlacesAborted
<1>. QED
  BY <1>1, <1>2, <1>3 DEF Client, Enter, Resume, Deliver, Disconnect, Leave, Cancel

(* ... after a step of the loop, *)
LEMMA LoopPlaces ==
  ASSUME Types, Control, Places, EngineLoop
  PROVE  Places'
<1> USE DEF clientVars, streamVars, loopVars, schedVars, workVars
<1>1. CASE SubmitStep \/ StartCleanup \/ FinishCleanup
  <2>1. InHand' = {}
    BY <1>1 DEF SubmitStep, StartCleanup, FinishCleanup, InHand
  <2>. QED  BY <1>1, <2>1 DEF SubmitStep, StartCleanup, FinishCleanup, Places, InWaiting, InHand,
                              Control, TurnsTaken, Stepping
<1>2. CASE Dispatch
  <2>1. InHand' = {}
    BY <1>2 DEF Dispatch, InHand
  <2>2. PICK S : Aborted(S)
    BY <1>2 DEF Dispatch, Distribute
  <2>. QED  BY <1>2, <2>1, <2>2, PlacesAborted DEF Dispatch
<1>3. CASE LoopError
  <2>1. InHand' = {}
    BY <1>3 DEF LoopError, InHand
  <2>2. Aborted(running \cup InWaiting)
    BY <1>3 DEF LoopError
  <2>3. cols' \subseteq cols /\ toStore' \subseteq toStore
    BY <1>3 DEF LoopError
  <2>. QED  BY <2>1, <2>2, <2>3, PlacesAborted
<1>. QED  BY <1>1, <1>2, <1>3 DEF EngineLoop

(* ... and after a step of the worker. *)
LEMMA WorkerPlaces ==
  ASSUME Types, Control, Places, Worker
  PROVE  Places'
<1> USE DEF clientVars, streamVars, loopVars, schedVars, workVars, Working
<1>1. CASE ProcessAborts \/ EndSchedule \/ Raise \/ Stored
  <2>1. InHand' = {} /\ InHand = {}
    BY <1>1 DEF ProcessAborts, EndSchedule, Raise, Stored, InHand
  <2>2. /\ UNCHANGED <<waiting, running, cols, sreqs, status, toStore>>
        /\ wpc' # "inserted"
    BY <1>1 DEF ProcessAborts, EndSchedule, Raise, Stored
  <2>3. wpc # "inserted"
    BY <2>1 DEF InHand
  <2>. QED  BY <2>1, <2>2, <2>3 DEF Places, InWaiting
<1>2. CASE Pop
  <2> DEFINE h == Head(waiting)
  <2>1. waiting \in Seq(Req) /\ waiting # <<>>
    BY <1>2 DEF Pop, Types, EngineTypeOK
  <2>2. /\ InWaiting = InWaiting' \cup {h}
        /\ NoRepeats(waiting')
        /\ h \notin InWaiting'
    <3>1. waiting' = Tail(waiting) /\ NoRepeats(waiting)
      BY <1>2 DEF Pop, Places
    <3>. QED  BY <2>1, <3>1, HeadMembers DEF InWaiting
  <2>3. InHand' = {h} /\ InHand = {} /\ wpc # "inserted" /\ wpc' # "inserted"
    BY <1>2 DEF Pop, InHand
  <2>4. UNCHANGED <<running, cols, sreqs, status, toStore>>
    BY <1>2 DEF Pop
  <2> HIDE DEF h
  <2>. QED  BY <2>2, <2>3, <2>4 DEF Places
<1>3. CASE InsertUid
  <2>1. InHand' = InHand /\ InHand = {cur} /\ cur \in Req
    BY <1>3 DEF InsertUid, InHand, Types
  <2>2. UNCHANGED <<waiting, running, cols, sreqs, toStore>> /\ wpc # "inserted"
    BY <1>3 DEF InsertUid
  <2>3. \A r \in Req : r # cur => status'[r] = status[r]
    BY <1>3 DEF InsertUid, Types, EngineTypeOK
  <2>4. sreqs \subseteq Req /\ cur' = cur
    BY <1>3 DEF InsertUid, Types, EngineTypeOK
  <2>5. InWaiting' = InWaiting /\ wpc' = "inserted"
    BY <1>3 DEF InsertUid, InWaiting
  <2>. QED  BY <2>1, <2>2, <2>3, <2>4, <2>5 DEF Places
<1>4. CASE InsertRunning
  <2>1. InHand' = {} /\ InHand = {cur} /\ running' = running \cup {cur}
    BY <1>4 DEF InsertRunning, InHand
  <2>2. UNCHANGED <<waiting, cols, sreqs, status, toStore>> /\ wpc' # "inserted"
    BY <1>4 DEF InsertRunning
  <2>3. InWaiting' = InWaiting
    BY <2>2 DEF InWaiting
  <2>. QED  BY <2>1, <2>2, <2>3 DEF Places
<1>5. CASE InsertFails
  <2>1. InHand' = {} /\ InHand = {cur} /\ cur \in Req
    BY <1>5 DEF InsertFails, InHand, Types
  <2>2. UNCHANGED <<running, cols, sreqs, status, toStore>> /\ wpc' # "inserted" /\ wpc # "inserted"
    BY <1>5 DEF InsertFails
  <2>3. InWaiting' = {cur} \cup InWaiting /\ NoRepeats(waiting')
    <3>1. waiting \in Seq(Req) /\ waiting' = <<cur>> \o waiting
      BY <1>5 DEF InsertFails, Types, EngineTypeOK
    <3>2. cur \notin Members(waiting) /\ NoRepeats(waiting)
      BY <2>1 DEF Places, InWaiting
    <3> DEFINE one == <<cur>>
    <3>3. one \in Seq(Req) /\ Members(one) = {cur} /\ NoRepeats(one)
      BY <2>1, OneMember
    <3>4. waiting' = one \o waiting
      BY <3>1
    <3> HIDE DEF one
    <3>. QED  BY <3>1, <3>2, <3>3, <3>4, ConcatMembers DEF InWaiting
  <2>4. toStore = {}
    BY <1>5 DEF InsertFails, Control, TurnsTaken, StepOrder, Stepping
  <2>. QED  BY <2>1, <2>2, <2>3, <2>4 DEF Places
<1>6. CASE Generate
  <2>1. InHand' = {} /\ InHand = {} /\ wpc' # "inserted" /\ wpc # "inserted"
    BY <1>6 DEF Generate, InHand
  <2>2. UNCHANGED <<waiting, running, cols, sreqs>> /\ toStore' \subseteq running
    BY <1>6 DEF Generate
  <2>3. InWaiting' = InWaiting
    BY <2>2 DEF InWaiting
  <2>4. \A r \in Req : r \notin toStore' => status'[r] = status[r]
    BY <1>6 DEF Generate, Types, EngineTypeOK
  <2>5. sreqs \subseteq Req
    BY DEF Types, EngineTypeOK
  <2>. QED  BY <2>1, <2>2, <2>3, <2>4, <2>5 DEF Places
<1>7. CASE Restart
  <2>1. InHand' = {} /\ InHand = {} /\ wpc' # "inserted" /\ wpc # "inserted"
    BY <1>7 DEF Restart, InHand
  <2>2. UNCHANGED <<cols, sreqs, toStore>> /\ running' = {}
    BY <1>7 DEF Restart
  <2>3. InWaiting' = running \cup InWaiting /\ NoRepeats(waiting')
    <3>1. PICK order \in [1..Cardinality(running) -> running] :
            /\ \A r \in running : \E i \in DOMAIN order : order[i] = r
            /\ waiting' = order \o waiting
      BY <1>7 DEF Restart
    <3>2. IsFiniteSet(running) /\ running \subseteq Req /\ waiting \in Seq(Req)
      BY EngineAssumption, FS_Subset DEF Types, EngineTypeOK
    <3>3. order \in Seq(running) /\ Members(order) = running /\ NoRepeats(order)
      BY <3>1, <3>2, EachOnce
    <3>4. order \in Seq(Req)
      BY <3>2, <3>3, SeqMonotonic
    <3>5. NoRepeats(waiting) /\ Members(order) \cap Members(waiting) = {}
      BY <3>3 DEF Places, InWaiting
    <3>. QED  BY <3>1, <3>2, <3>3, <3>4, <3>5, ConcatMembers DEF InWaiting
  <2>4. toStore = {}
    BY <1>7 DEF Restart, Control, TurnsTaken, StepOrder, Stepping
  <2>5. \A r \in Req : status'[r] = IF r \in running THEN "WAITING" ELSE status[r]
    BY <1>7 DEF Restart
  <2>6. sreqs \subseteq Req
    BY DEF Types, EngineTypeOK
  <2>. QED  BY <2>1, <2>2, <2>3, <2>4, <2>5, <2>6 DEF Places
<1>8. CASE Store
  <2>1. InHand' = {} /\ InHand = {} /\ wpc' # "inserted" /\ wpc # "inserted"
    BY <1>8 DEF Store, InHand
  <2>2. PICK r \in toStore : toStore' = toStore \ {r} /\ running' = running \ {r} /\ sreqs' = sreqs \ {r}
    BY <1>8 DEF Store
  <2>3. UNCHANGED <<waiting, cols, status>>
    BY <1>8 DEF Store
  <2>4. InWaiting' = InWaiting
    BY <2>3 DEF InWaiting
  <2>. QED  BY <2>1, <2>2, <2>3, <2>4 DEF Places
<1>. QED
  BY <1>1, <1>2, <1>3, <1>4, <1>5, <1>6, <1>7, <1>8 DEF Worker

-----------------------------------------------------------------------------
(* The numbers 1..n and their prefixes. *)
LEMMA NumbersNext ==
  ASSUME NEW n \in Nat
  PROVE  /\ Numbers(n) \in Seq(Nat) /\ Len(Numbers(n)) = n
         /\ Numbers(n) \o <<n + 1>> = Numbers(n + 1)
<1> DEFINE a == Numbers(n)
           c == Numbers(n + 1)
           b == <<n + 1>>
<1>1. a \in Seq(Nat) /\ Len(a) = n /\ c \in Seq(Nat) /\ Len(c) = n + 1
  BY DEF Numbers
<1>2. b \in Seq(Nat) /\ Len(b) = 1 /\ b[1] = n + 1
  OBVIOUS
<1>3. (\A i \in 1..n : a[i] = i) /\ (\A i \in 1..(n + 1) : c[i] = i)
  BY DEF Numbers
<1> HIDE DEF a, b, c
<1>4. /\ a \o b \in Seq(Nat) /\ Len(a \o b) = n + 1
      /\ \A i \in 1..(n + 1) : (a \o b)[i] = IF i <= n THEN a[i] ELSE b[i - n]
  <2>1. /\ a \o b \in Seq(Nat) /\ Len(a \o b) = Len(a) + Len(b)
        /\ \A i \in 1..(Len(a) + Len(b)) :
             (a \o b)[i] = IF i <= Len(a) THEN a[i] ELSE b[i - Len(a)]
    BY <1>1, <1>2, ConcatProperties
  <2>. QED  BY <2>1, <1>1, <1>2
<1>5. \A i \in 1..(n + 1) : (a \o b)[i] = c[i]
  <2> SUFFICES ASSUME NEW i \in 1..(n + 1)  PROVE (a \o b)[i] = c[i]
    OBVIOUS
  <2>1. CASE i <= n
    BY <2>1, <1>3, <1>4
  <2>2. CASE ~(i <= n)
    <3>1. i = n + 1 /\ i - n = 1
      BY <2>2
    <3>. QED  BY <2>2, <3>1, <1>2, <1>3, <1>4
  <2>. QED  BY <2>1, <2>2
<1>6. a \o b = c
  BY <1>1, <1>4, <1>5, SeqEqual
<1>. QED  BY <1>1, <1>6 DEF a, b, c

(* Two sequences that together are 1..n: the first is 1..k. *)
LEMMA PrefixOfNumbers ==
  ASSUME NEW a \in Seq(Nat), NEW b \in Seq(Nat), NEW n \in Nat, a \o b = Numbers(n)
  PROVE  Len(a) \in 0..n /\ a = Numbers(Len(a)) /\ Len(b) = n - Len(a)
<1> DEFINE m == Len(a)
           l == Len(b)
<1>1. /\ m \in Nat /\ l \in Nat
      /\ \A i \in 1..(m + l) : (a \o b)[i] = IF i <= m THEN a[i] ELSE b[i - m]
  BY ConcatProperties, LenProperties
<1>0. n = m + l
  <2>1. Len(a \o b) = m + l
    BY ConcatProperties
  <2>2. Len(Numbers(n)) = n
    BY NumbersNext
  <2>. QED  BY <2>1, <2>2
<1>2. \A i \in 1..n : Numbers(n)[i] = i
  BY DEF Numbers
<1> HIDE DEF m, l
<1>3. \A i \in 1..m : a[i] = i
  <2> SUFFICES ASSUME NEW i \in 1..m  PROVE a[i] = i
    OBVIOUS
  <2>1. i \in 1..(m + l) /\ i \in 1..n /\ i <= m
    BY <1>0, <1>1
  <2>. QED  BY <2>1, <1>1, <1>2
<1>4. Numbers(m) \in Seq(Nat) /\ Len(Numbers(m)) = m
  BY <1>1, NumbersNext
<1>5. \A i \in 1..m : Numbers(m)[i] = i
  BY DEF Numbers
<1>6. a = Numbers(m)
  BY <1>3, <1>4, <1>5, SeqEqual DEF m
<1>. QED  BY <1>0, <1>1, <1>6 DEF m, l

(* Concatenation of tokens is associative. *)
LEMMA Regroup ==
  ASSUME NEW a \in Seq(Nat), NEW b \in Seq(Nat), NEW c \in Seq(Nat)
  PROVE  (a \o b) \o c = a \o (b \o c)
BY ConcatAssociative

(* The tokens of a request are sequences of numbers wherever they are. *)
LEMMA TextTypes ==
  ASSUME Types, NEW r \in Req
  PROVE  /\ got[r] \in Seq(Nat) /\ held[r].toks \in Seq(Nat)
         /\ buf[r].toks \in Seq(Nat) /\ pend[r] \in Seq(Nat)
         /\ Read(r) \in Seq(Nat) /\ Read(r) \o buf[r].toks \in Seq(Nat)
         /\ Text(r) \in Seq(Nat)
         /\ made[r] \in Nat /\ <<made[r]>> \in Seq(Nat)
<1>1. /\ got[r] \in Seq(Nat) /\ held[r].toks \in Seq(Nat)
      /\ buf[r].toks \in Seq(Nat) /\ pend[r] \in Seq(Nat) /\ made[r] \in Nat
  BY DEF Types, Output
<1>2. Read(r) \in Seq(Nat)
  BY <1>1, ConcatProperties DEF Read
<1>3. Read(r) \o buf[r].toks \in Seq(Nat)
  BY <1>1, <1>2, ConcatProperties
<1>4. Text(r) \in Seq(Nat)
  BY <1>1, <1>3, ConcatProperties DEF Text
<1>5. <<made[r]>> \in Seq(Nat)
  BY <1>1
<1>. QED  BY <1>1, <1>2, <1>3, <1>4, <1>5

(* A client step moves tokens, it neither adds nor loses one. *)
LEMMA ClientText ==
  ASSUME Types, ClientSide, NEW r \in Req, Client(r), NEW q \in Req
  PROVE  Text(q)' = Text(q)
<1> USE DEF clientVars, streamVars, loopVars, schedVars, workVars
<1> DEFINE g == got[q]
           h == held[q].toks
           b == buf[q].toks
           p == pend[q]
<1>1. g \in Seq(Nat) /\ h \in Seq(Nat) /\ b \in Seq(Nat) /\ p \in Seq(Nat)
  BY TextTypes
<1>2. /\ g \o h \in Seq(Nat) /\ g \o b \in Seq(Nat) /\ (g \o h) \o b \in Seq(Nat)
      /\ b \o p \in Seq(Nat) /\ <<>> \in Seq(Nat)
  <2>1. <<>> \in Seq(Nat)
    OBVIOUS
  <2> HIDE DEF g, h, b, p
  <2>. QED  BY <1>1, <2>1, ConcatProperties
<1>3. Text(q) = ((g \o h) \o b) \o p
  BY DEF Text, Read
<1>4. CASE Enter(r) \/ Resume(r) \/ Refuse(r) \/ GiveUp(r)
  <2>1. UNCHANGED <<got, held, buf, pend>>
    BY <1>4 DEF Enter, Resume, Admit, Refuse, GiveUp
  <2>. QED  BY <2>1 DEF Text, Read
<1>5. CASE Take(r)
  <2>1. CASE q # r
    <3>1. got'[q] = g /\ held'[q] = held[q] /\ buf'[q] = buf[q] /\ pend'[q] = p
      BY <1>5, <2>1 DEF Take, Types
    <3>. QED  BY <3>1 DEF Text, Read
  <2>2. CASE q = r
    <3>1. buf'[q].toks = <<>> /\ pend'[q] = p
      BY <1>5, <2>2 DEF Take, Empty, Types
    <3>2. h = <<>>
      BY <1>5, <2>2 DEF Take, ClientSide
    <3>3. CASE buf[q].fin = "no"
      <4>1. got'[q] = g \o b /\ held'[q].toks = h
        BY <1>5, <2>2, <3>3 DEF Take, Types
      <4>2. Text(q)' = (((g \o b) \o <<>>) \o <<>>) \o p
        BY <3>1, <3>2, <4>1 DEF Text, Read
      <4>3. Text(q) = ((g \o <<>>) \o b) \o p
        BY <1>3, <3>2
      <4> HIDE DEF g, h, b, p
      <4>. QED  BY <4>2, <4>3, <1>1, <1>2, ConcatEmptySeq
    <3>4. CASE buf[q].fin # "no"
      <4>1. got'[q] = g /\ held'[q].toks = b
        BY <1>5, <2>2, <3>4 DEF Take, Types
      <4>2. Text(q)' = ((g \o b) \o <<>>) \o p
        BY <3>1, <4>1 DEF Text, Read
      <4>3. Text(q) = ((g \o <<>>) \o b) \o p
        BY <1>3, <3>2
      <4> HIDE DEF g, h, b, p
      <4>. QED  BY <4>2, <4>3, <1>1, <1>2, ConcatEmptySeq
    <3>. QED  BY <3>3, <3>4
  <2>. QED  BY <2>1, <2>2
<1>6. CASE Deliver(r) \/ Disconnect(r) \/ Cancel(r)
  <2>1. Read(q)' = Read(q)
    <3>1. CASE Deliver(r) /\ q = r
      <4>1. got'[q] = g \o h /\ held'[q].toks = <<>>
        BY <3>1 DEF Deliver, Empty, Types
      <4>2. Read(q)' = (g \o h) \o <<>>
        BY <4>1 DEF Read
      <4>3. Read(q) = g \o h
        BY DEF Read
      <4> HIDE DEF g, h
      <4>. QED  BY <4>2, <4>3, <1>2, ConcatEmptySeq
    <3>2. CASE ~Deliver(r) \/ q # r
      <4>1. got'[q] = got[q] /\ held'[q] = held[q]
        BY <1>6, <3>2 DEF Deliver, Disconnect, Leave, Cancel, Types
      <4>. QED  BY <4>1 DEF Read
    <3>. QED  BY <3>1, <3>2
  <2>2. CleanupRequest(r)
    BY <1>6 DEF Deliver, Disconnect, Leave, Cancel
  <2>3. CASE q = r /\ r \in cols
    <3>1. buf'[q].toks = b \o p /\ pend'[q] = <<>>
      BY <2>2, <2>3 DEF CleanupRequest, Put, Types
    <3>2. Text(q)' = (Read(q) \o (b \o p)) \o <<>>
      BY <2>1, <3>1 DEF Text
    <3>3. Text(q) = (Read(q) \o b) \o p /\ Read(q) \in Seq(Nat)
      BY TextTypes DEF Text
    <3> HIDE DEF b, p
    <3>4. Read(q) \o (b \o p) \in Seq(Nat)
      BY <3>3, <1>2, ConcatProperties
    <3>5. (Read(q) \o (b \o p)) \o <<>> = Read(q) \o (b \o p)
      BY <3>4, ConcatEmptySeq
    <3>6. (Read(q) \o b) \o p = Read(q) \o (b \o p)
      BY <3>3, <1>1, Regroup
    <3>. QED  BY <3>2, <3>3, <3>5, <3>6
  <2>4. CASE q # r \/ r \notin cols
    <3>1. buf'[q] = buf[q] /\ pend'[q] = pend[q]
      BY <2>2, <2>4 DEF CleanupRequest, Types
    <3>. QED  BY <2>1, <3>1 DEF Text
  <2>. QED  BY <2>3, <2>4
<1>. QED  BY <1>4, <1>5, <1>6 DEF Client

(* What a client step does to the places of the requests. *)
LEMMA ClientMoves ==
  ASSUME Types, NEW r \in Req, Client(r)
  PROVE  /\ UNCHANGED <<made, outs, toStore, wpc, cur>> /\ InHand' = InHand
         /\ \A q \in Req \ {r} : phase'[q] = phase[q] /\ outcome'[q] = outcome[q]
              /\ held'[q] = held[q] /\ got'[q] = got[q] /\ buf'[q] = buf[q] /\ pend'[q] = pend[q]
              /\ (q \in cols' => q \in cols) /\ (q \in sreqs' => q \in sreqs)
              /\ (q \in running' => q \in running) /\ (q \in InWaiting' => q \in InWaiting)
              /\ (q \notin sreqs => status'[q] = status[q])
         /\ \A q \in Req : q \in running' /\ q \in sreqs => q \in running /\ q \in sreqs'
         /\ running' \subseteq running
         /\ \/ Admit(r) /\ phase[r] \in {"new", "gated"}
            \/ InWaiting' \subseteq InWaiting /\ cols' \subseteq cols /\ sreqs' \subseteq sreqs
<1> USE DEF clientVars, streamVars, loopVars, schedVars, workVars
<1>1. CASE Admit(r) /\ phase[r] \in {"new", "gated"}
  <2>1. InWaiting' = InWaiting \cup {r}
    BY <1>1, AppendMembers DEF Admit, InWaiting, Types, EngineTypeOK
  <2>2. /\ UNCHANGED <<made, outs, toStore, wpc, cur, outcome, held, got, buf, pend,
                        running, status>>
        /\ cols' = cols \cup {r} /\ sreqs' = sreqs \cup {r}
    BY <1>1 DEF Admit
  <2>3. \A q \in Req \ {r} : phase'[q] = phase[q]
    BY <1>1 DEF Admit, Types, EngineTypeOK
  <2>4. InHand' = InHand
    BY <2>2 DEF InHand
  <2>5. ASSUME NEW q \in Req \ {r}
        PROVE  /\ phase'[q] = phase[q] /\ outcome'[q] = outcome[q]
               /\ held'[q] = held[q] /\ got'[q] = got[q] /\ buf'[q] = buf[q] /\ pend'[q] = pend[q]
               /\ (q \in cols' => q \in cols) /\ (q \in sreqs' => q \in sreqs)
               /\ (q \in running' => q \in running) /\ (q \in InWaiting' => q \in InWaiting)
               /\ (q \notin sreqs => status'[q] = status[q])
    BY <2>1, <2>2, <2>3
  <2>6. \A q \in Req : q \in running' /\ q \in sreqs => q \in running /\ q \in sreqs'
    BY <2>2
  <2>. QED  BY <1>1, <2>2, <2>4, <2>5, <2>6
<1>2. CASE Refuse(r) \/ GiveUp(r) \/ Take(r) \/ (Enter(r) /\ ~fence)
  <2>1. InWaiting' = InWaiting /\ InHand' = InHand
    BY <1>2 DEF Refuse, GiveUp, Take, Enter, InWaiting, InHand
  <2>. QED  BY <1>2, <2>1 DEF Refuse, GiveUp, Take, Enter, Types, EngineTypeOK
<1>3. CASE Deliver(r) \/ Disconnect(r) \/ Cancel(r)
  <2> DEFINE S == IF r \in sreqs /\ Finished(r) THEN {} ELSE {r}
  <2>1. CleanupRequest(r)
    BY <1>3 DEF Deliver, Disconnect, Leave, Cancel
  <2>2. Aborted(S) /\ S \subseteq {r}
    BY <2>1 DEF CleanupRequest
  <2>3. /\ cols' = cols \ {r} /\ UNCHANGED <<made, outs, toStore, wpc, cur>>
        /\ \A q \in Req \ {r} : buf'[q] = buf[q] /\ pend'[q] = pend[q]
    BY <2>1 DEF CleanupRequest, Types
  <2>4. InHand' = InHand
    BY <2>3 DEF InHand
  <2> HIDE DEF S
  <2>5. /\ sreqs' = sreqs \ S
        /\ running' = running \ (S \cap sreqs)
        /\ InWaiting' = InWaiting \ {x \in S \cap sreqs : status[x] = "WAITING"}
        /\ \A q \in Req : q \notin S \cap sreqs => status'[q] = status[q]
    BY <2>2, AbortedEffect
  <2>6. \A q \in Req \ {r} : phase'[q] = phase[q] /\ outcome'[q] = outcome[q]
              /\ held'[q] = held[q] /\ got'[q] = got[q]
    BY <1>3 DEF Deliver, Disconnect, Leave, Cancel, Types, EngineTypeOK
  <2>. QED  BY <2>2, <2>3, <2>4, <2>5, <2>6
<1>. QED  BY <1>1, <1>2, <1>3 DEF Client, Enter, Resume

(* The other side of the places: what the client can have. *)
LEMMA ClientClientSide ==
  ASSUME Types, ClientSide, NEW r \in Req, Client(r)
  PROVE  ClientSide'
<1> SUFFICES ASSUME NEW q \in Req
             PROVE  /\ phase'[q] \in {"new", "gated"} => Fresh(q)'
                    /\ phase'[q] # "done" => outcome'[q] = "open"
                    /\ phase'[q] \in {"new", "gated", "active"} => held'[q].toks = <<>>
  BY DEF ClientSide
<1> USE DEF clientVars, streamVars, loopVars, schedVars, workVars
<1>1. CASE q # r
  <2>1. Fresh(q) => Fresh(q)'
    <3>1. Text(q)' = Text(q)
      BY ClientText
    <3>. QED  BY <1>1, <3>1, ClientMoves DEF Fresh
  <2>. QED  BY <1>1, <2>1, ClientMoves DEF ClientSide
<1>2. CASE q = r
  <2>1. CASE Enter(r) /\ ~fence
    <3>1. Fresh(r) => Fresh(r)'
      BY <2>1 DEF Enter, Fresh, Text, Read, InWaiting, InHand
    <3>. QED  BY <1>2, <2>1, <3>1 DEF Enter, ClientSide, Types, EngineTypeOK
  <2>2. CASE Admit(r) /\ phase[r] \in {"new", "gated"}
    BY <1>2, <2>2 DEF Admit, ClientSide, Types, EngineTypeOK
  <2>3. CASE Take(r)
    BY <1>2, <2>3 DEF Take, ClientSide, Types, EngineTypeOK
  <2>4. CASE Refuse(r) \/ GiveUp(r) \/ Deliver(r) \/ Disconnect(r) \/ Cancel(r)
    BY <1>2, <2>4 DEF Refuse, GiveUp, Deliver, Disconnect, Leave, Cancel, ClientSide,
                      Types, EngineTypeOK
  <2>. QED  BY <2>1, <2>2, <2>3, <2>4 DEF Client, Enter, Resume
<1>. QED  BY <1>1, <1>2

(* A client step keeps the tokens in order: it moves them, and a request   *)
(* that gets its collector has none yet.                                   *)
LEMMA ClientInOrder ==
  ASSUME Types, ClientSide, InOrder, NEW r \in Req, Client(r)
  PROVE  InOrder'
<1> SUFFICES ASSUME NEW q \in Req
             PROVE  \E n \in 0..Made(q)' : Text(q)' = Numbers(n) /\ (q \in cols' => n = Made(q)')
  BY DEF InOrder
<1>1. Text(q)' = Text(q) /\ Made(q)' = Made(q)
  BY ClientText, ClientMoves DEF Made
<1>2. PICK n \in 0..Made(q) : Text(q) = Numbers(n) /\ (q \in cols => n = Made(q))
  BY DEF InOrder
<1>3. CASE q \in cols' => q \in cols
  BY <1>1, <1>2, <1>3
<1>4. CASE q = r /\ Admit(r) /\ phase[r] \in {"new", "gated"}
  <2>1. Made(q) = 0
    BY <1>4 DEF ClientSide, Fresh, Made
  <2>. QED  BY <1>1, <1>2, <2>1
<1>. QED  BY <1>3, <1>4, ClientMoves

(* After its last token a request stays out of the way. *)
LEMMA ClientEnded ==
  ASSUME Types, NEW r \in Req, Client(r), NEW q \in Req, Ended(q)
  PROVE  Ended(q)'
<1> USE DEF clientVars, streamVars, loopVars, schedVars, workVars
<1>1. phase'[q] \notin {"new", "gated"}
  <2>1. CASE q # r
    BY <2>1, ClientMoves DEF Ended
  <2>2. CASE q = r
    BY <2>2 DEF Ended, Client, Enter, Resume, Admit, Refuse, Take, Deliver, Disconnect,
                Leave, GiveUp, Cancel, Types, EngineTypeOK
  <2>. QED  BY <2>1, <2>2
<1>2. q \notin InWaiting'
  BY ClientMoves DEF Ended
<1>3. q \in running' => q \in toStore' \cap sreqs'
  BY ClientMoves DEF Ended
<1>. QED  BY <1>1, <1>2, <1>3, ClientMoves DEF Ended

(* A client step keeps what "stop" promises: the output that says so       *)
(* travels from the collector to the client with every token before it.    *)
LEMMA ClientComplete ==
  ASSUME Types, ClientSide, Complete, NEW r \in Req, Client(r)
  PROVE  Complete'
<1> SUFFICES ASSUME NEW q \in Req
             PROVE  /\ buf'[q].fin = "stop" =>
                         Ended(q) /\ (Read(q) \o buf[q].toks)' = Numbers(made'[q])
                    /\ phase'[q] = "held" /\ held'[q].fin = "stop" =>
                         Ended(q) /\ Read(q)' = Numbers(made'[q])
                    /\ outcome'[q] = "stop" => Ended(q)
  BY ClientEnded DEF Complete
<1> USE DEF clientVars, streamVars, loopVars, schedVars, workVars
<1>0. made' = made
  BY ClientMoves
<1>1. CASE q # r
  <2>1. Read(q)' = Read(q) /\ (Read(q) \o buf[q].toks)' = Read(q) \o buf[q].toks
    BY <1>1, ClientMoves DEF Read
  <2>. QED  BY <1>0, <1>1, <2>1, ClientMoves DEF Complete
<1>2. CASE q = r
  <2>1. CASE Enter(r) \/ Resume(r) \/ Refuse(r) \/ GiveUp(r)
    <3>1. UNCHANGED <<got, held, buf>>
      BY <2>1 DEF Enter, Resume, Admit, Refuse, GiveUp
    <3>2. (phase'[r] = "held" => phase[r] = "held")
          /\ (outcome'[r] = "stop" => outcome[r] = "stop")
      BY <2>1 DEF Enter, Resume, Admit, Refuse, GiveUp, Types, EngineTypeOK
    <3>. QED  BY <1>0, <1>2, <3>1, <3>2 DEF Complete, Read
  <2>2. CASE Take(r)
    <3>1. buf'[r].fin # "stop" /\ outcome' = outcome
      BY <2>2 DEF Take, Empty, Types
    <3>2. ASSUME phase'[r] = "held", held'[r].fin = "stop"
          PROVE  Ended(r) /\ Read(r)' = Numbers(made[r])
      <4>1. held' = [held EXCEPT ![r] = buf[r]] /\ got' = got
        BY <2>2, <3>2 DEF Take, Types, EngineTypeOK
      <4>2. held'[r] = buf[r]
        BY <4>1 DEF Types
      <4>3. Ended(r) /\ Read(r) \o buf[r].toks = Numbers(made[r])
        BY <3>2, <4>2 DEF Complete
      <4>4. Read(r)' = got[r] \o buf[r].toks
        BY <4>1, <4>2 DEF Read
      <4>5. Read(r) = got[r]
        <5>1. held[r].toks = <<>>
          BY <2>2 DEF Take, ClientSide
        <5>. QED  BY <5>1, TextTypes, ConcatEmptySeq DEF Read
      <4>. QED  BY <4>3, <4>4, <4>5
    <3>. QED  BY <1>0, <1>2, <3>1, <3>2 DEF Complete
  <2>3. CASE Deliver(r) \/ Disconnect(r) \/ Cancel(r)
    <3>1. CASE buf'[r] = buf[r] /\ Read(r)' = Read(r)
      <4>1. /\ phase'[r] = "held" => phase[r] = "held" /\ held'[r] = held[r]
            /\ outcome'[r] = "stop" => outcome[r] = "stop" \/ (phase[r] = "held" /\ held[r].fin = "stop")
        BY <2>3 DEF Deliver, Disconnect, Leave, Cancel, Types, EngineTypeOK
      <4>. QED  BY <1>0, <1>2, <3>1, <4>1 DEF Complete
    <3>2. CASE buf'[r].fin = "aborted" /\ Read(r)' = Read(r)
      <4>1. /\ phase'[r] = "held" => phase[r] = "held" /\ held'[r] = held[r]
            /\ outcome'[r] = "stop" => outcome[r] = "stop" \/ (phase[r] = "held" /\ held[r].fin = "stop")
        BY <2>3 DEF Deliver, Disconnect, Leave, Cancel, Types, EngineTypeOK
      <4>. QED  BY <1>0, <1>2, <3>2, <4>1 DEF Complete
    <3>3. Read(r)' = Read(r)
      <4>1. CASE Deliver(r)
        <5>1. got'[r] = Read(r) /\ held'[r].toks = <<>>
          BY <4>1 DEF Deliver, Empty, Types, Read
        <5>. QED  BY <5>1, TextTypes, ConcatEmptySeq DEF Read
      <4>2. CASE Disconnect(r) \/ Cancel(r)
        BY <4>2 DEF Disconnect, Leave, Cancel, Read
      <4>. QED  BY <2>3, <4>1, <4>2
    <3>4. buf'[r] = buf[r] \/ buf'[r].fin = "aborted"
      BY <2>3 DEF Deliver, Disconnect, Leave, Cancel, CleanupRequest, Put, Types
    <3>. QED  BY <3>1, <3>2, <3>3, <3>4
  <2>. QED  BY <2>1, <2>2, <2>3 DEF Client
<1>. QED  BY <1>1, <1>2

-----------------------------------------------------------------------------
(* What reaches the collectors when a step is dispatched: for each request *)
(* with an output and a collector, the next token.                         *)
LEMMA DispatchText ==
  ASSUME Types, Dispatch, NEW q \in Req
  PROVE  /\ q \in outs \cap cols => Text(q)' = Text(q) \o <<made[q]>>
         /\ q \in outs \cap cols /\ buf'[q].fin = "stop" /\ q \notin toStore =>
              buf'[q] = buf[q]
         /\ q \in outs \cap cols \cap toStore =>
              (Read(q) \o buf[q].toks)' = Text(q) \o <<made[q]>>
         /\ q \notin outs \cap cols => buf'[q] = buf[q] /\ pend'[q] = pend[q] /\ Text(q)' = Text(q)
         /\ Read(q)' = Read(q)
<1> DEFINE h == Read(q)
           b == buf[q].toks
           p == pend[q]
           m == <<made[q]>>
           wanted == outs \cap cols
           Send(r) == r \in wanted /\ ShouldSend(r, r \in toStore)
<1>1. /\ h \in Seq(Nat) /\ b \in Seq(Nat) /\ p \in Seq(Nat) /\ m \in Seq(Nat)
      /\ made[q] \in Nat /\ <<>> \in Seq(Nat)
  BY TextTypes
<1>2. /\ p \o m \in Seq(Nat) /\ h \o b \in Seq(Nat) /\ b \o (p \o m) \in Seq(Nat)
      /\ h \o (b \o (p \o m)) \in Seq(Nat)
  <2> HIDE DEF h, b, p, m
  <2>. QED  BY <1>1, ConcatProperties
<1>3. /\ buf' = [r \in Req |->
          IF Send(r) THEN Put(buf[r], pend[r] \o <<made[r]>>,
                              IF r \in toStore THEN "stop" ELSE "no")
                     ELSE buf[r]]
      /\ pend' = [r \in Req |-> IF Send(r) THEN <<>>
                               ELSE IF r \in wanted THEN Append(pend[r], made[r])
                               ELSE pend[r]]
  BY DEF Dispatch, Distribute
<1>4. h' = h
  BY DEF Dispatch, clientVars, Read
<1>5. Text(q) = (h \o b) \o p
  BY DEF Text
<1>6. Text(q)' = (h \o buf'[q].toks) \o pend'[q]
  BY <1>4 DEF Text
<1>7. h \o (b \o (p \o m)) = ((h \o b) \o p) \o m
  <2> HIDE DEF h, b, p, m
  <2>1. h \in Seq(Nat) /\ b \in Seq(Nat) /\ p \in Seq(Nat) /\ m \in Seq(Nat)
    BY <1>1
  <2>2. b \o p \in Seq(Nat)
    BY <2>1, ConcatProperties
  <2>3. b \o (p \o m) = (b \o p) \o m
    BY <2>1, Regroup, Zenon
  <2>4. ASSUME NEW x \in Seq(Nat)  PROVE h \o (x \o m) = (h \o x) \o m
    BY <2>1, Regroup, ZenonT(60)
  <2>5. h \o ((b \o p) \o m) = (h \o (b \o p)) \o m
    BY <2>2, <2>4, Zenon
  <2>6. h \o (b \o p) = (h \o b) \o p
    BY <2>1, Regroup, Zenon
  <2>. QED  BY <2>3, <2>5, <2>6, Zenon
<1>8. CASE Send(q)
  <2>1. /\ buf'[q] = Put(buf[q], p \o m, IF q \in toStore THEN "stop" ELSE "no")
        /\ pend'[q] = <<>>
    BY <1>3, <1>8
  <2>2. /\ buf'[q].toks = b \o (p \o m)
        /\ buf'[q].fin = IF q \in toStore THEN "stop" ELSE "no"
    <3> DEFINE x == p \o m
               f == IF q \in toStore THEN "stop" ELSE "no"
    <3>1. buf'[q] = [toks |-> buf[q].toks \o x, fin |-> f]
      BY <2>1 DEF Put
    <3> HIDE DEF x, f
    <3>2. buf'[q].toks = b \o x /\ buf'[q].fin = f
      BY <3>1
    <3>. QED  BY <3>2 DEF x, f
  <2>3. Text(q)' = (h \o (b \o (p \o m))) \o <<>>
    BY <1>6, <2>1, <2>2
  <2>4. (h \o (b \o (p \o m))) \o <<>> = h \o (b \o (p \o m))
    <3> HIDE DEF h, b, p, m
    <3>. QED  BY <1>2, ConcatEmptySeq
  <2>5. (Read(q) \o buf[q].toks)' = h \o (b \o (p \o m))
    BY <1>4, <2>2
  <2>. QED  BY <1>4, <1>5, <1>7, <1>8, <2>2, <2>3, <2>4, <2>5
<1>9. CASE q \in wanted /\ ~Send(q)
  <2>1. buf'[q] = buf[q] /\ pend'[q] = Append(p, made[q]) /\ q \notin toStore
    BY <1>3, <1>9 DEF ShouldSend
  <2>2. Append(p, made[q]) = p \o m
    <3> HIDE DEF p
    <3>. QED  BY <1>1, AppendIsConcat
  <2>3. Text(q)' = (h \o b) \o (p \o m)
    BY <1>6, <2>1, <2>2
  <2>4. (h \o b) \o (p \o m) = ((h \o b) \o p) \o m
    <3> DEFINE x == h \o b
    <3> HIDE DEF h, b, p, m
    <3>1. x \in Seq(Nat)
      BY <1>2
    <3> HIDE DEF x
    <3>2. (x \o p) \o m = x \o (p \o m)
      BY <1>1, <3>1, Regroup
    <3>. QED  BY <3>2 DEF x
  <2>. QED  BY <1>4, <1>5, <1>9, <2>1, <2>3, <2>4
<1>10. CASE q \notin wanted
  <2>1. buf'[q] = buf[q] /\ pend'[q] = pend[q]
    BY <1>3, <1>10
  <2>. QED  BY <1>4, <1>5, <1>6, <1>10, <2>1
<1>. QED  BY <1>8, <1>9, <1>10

(* What a step of the loop does to the places of the requests. *)
LEMMA LoopMoves ==
  ASSUME Types, Control, EngineLoop
  PROVE  /\ UNCHANGED <<phase, outcome, got, held, cols, made>>
         /\ InHand' = {} /\ outs' = {} /\ toStore' \subseteq toStore
         /\ InWaiting' \subseteq InWaiting /\ sreqs' \subseteq sreqs
         /\ running' \subseteq running
         /\ \A q \in running' \cap sreqs : q \in sreqs' /\ (q \in toStore => q \in toStore')
         /\ \A q \in Req : q \notin sreqs => status'[q] = status[q]
<1> USE DEF clientVars, streamVars, loopVars, schedVars, workVars
<1>1. CASE SubmitStep \/ StartCleanup \/ FinishCleanup
  <2>1. UNCHANGED <<phase, outcome, got, held, cols, made, toStore, sreqs, running, status,
                    outs, waiting>>
    BY <1>1 DEF SubmitStep, StartCleanup, FinishCleanup
  <2>2. InHand' = {} /\ wpc # "returned"
    BY <1>1 DEF SubmitStep, StartCleanup, FinishCleanup, InHand, Control, TurnsTaken, Stepping
  <2>3. outs = {} /\ InWaiting' = InWaiting
    BY <2>1, <2>2 DEF Control, StepOrder, InWaiting
  <2>. QED  BY <2>1, <2>2, <2>3
<1>2. CASE Dispatch
  <2>1. PICK S : Aborted(S)
    BY <1>2 DEF Dispatch, Distribute
  <2>2. /\ sreqs' = sreqs \ S /\ running' = running \ (S \cap sreqs)
        /\ InWaiting' \subseteq InWaiting
        /\ \A r \in Req : r \notin S \cap sreqs => status'[r] = status[r]
    BY <2>1, AbortedEffect
  <2>3. /\ UNCHANGED <<phase, outcome, got, held, cols, made, toStore>>
        /\ InHand' = {} /\ outs' = {}
    BY <1>2 DEF Dispatch, InHand
  <2>. QED  BY <2>2, <2>3
<1>3. CASE LoopError
  <2> DEFINE S == running \cup InWaiting
  <2>1. Aborted(S)
    BY <1>3 DEF LoopError
  <2>2. /\ sreqs' = sreqs \ S /\ running' = running \ (S \cap sreqs)
        /\ InWaiting' \subseteq InWaiting
        /\ \A r \in Req : r \notin S \cap sreqs => status'[r] = status[r]
    <3> HIDE DEF S
    <3>. QED  BY <2>1, AbortedEffect
  <2>3. /\ UNCHANGED <<phase, outcome, got, held, cols, made>>
        /\ InHand' = {} /\ outs' = {} /\ toStore' \subseteq toStore
    BY <1>3 DEF LoopError, InHand
  <2>4. running' \cap sreqs = {}
    BY <2>2
  <2>. QED  BY <2>2, <2>3, <2>4
<1>. QED  BY <1>1, <1>2, <1>3 DEF EngineLoop

(* An error, and the turns of the loop around the fence, add no token. *)
LEMMA LoopText ==
  ASSUME Types, EngineLoop, ~Dispatch, NEW q \in Req
  PROVE  /\ Text(q)' = Text(q) /\ Read(q)' = Read(q)
         /\ buf'[q] = buf[q] \/ (q \in cols /\ buf'[q].fin = "error")
<1> USE DEF clientVars, streamVars, loopVars, schedVars, workVars
<1>1. CASE SubmitStep \/ StartCleanup \/ FinishCleanup
  <2>1. UNCHANGED <<got, held, buf, pend>>
    BY <1>1 DEF SubmitStep, StartCleanup, FinishCleanup
  <2>. QED  BY <2>1 DEF Text, Read
<1>2. CASE LoopError
  <2>1. UNCHANGED <<got, held, pend>>
    BY <1>2 DEF LoopError
  <2>2. Read(q)' = Read(q)
    BY <2>1 DEF Read
  <2>3. CASE q \in cols
    <3>1. buf'[q].toks = buf[q].toks \o <<>> /\ buf'[q].fin = "error"
      BY <1>2, <2>3 DEF LoopError, Put
    <3>2. buf[q].toks \o <<>> = buf[q].toks
      BY TextTypes, ConcatEmptySeq
    <3>. QED  BY <2>1, <2>2, <2>3, <3>1, <3>2 DEF Text
  <2>4. CASE q \notin cols
    <3>1. buf'[q] = buf[q]
      BY <1>2, <2>4 DEF LoopError
    <3>. QED  BY <2>1, <2>2, <3>1 DEF Text
  <2>. QED  BY <2>3, <2>4
<1>. QED  BY <1>1, <1>2 DEF EngineLoop

(* The loop gives nothing to a request that is not admitted. *)
LEMMA LoopClientSide ==
  ASSUME Types, Control, ClientSide, EngineLoop
  PROVE  ClientSide'
<1>1. ASSUME NEW q \in Req, Fresh(q)  PROVE Fresh(q)'
  <2>1. q \notin outs /\ q \notin cols
    BY <1>1 DEF Fresh
  <2>2. Text(q)' = Text(q) /\ buf'[q] = buf[q]
    BY <2>1, DispatchText, LoopText
  <2>. QED  BY <1>1, <2>2, LoopMoves DEF Fresh
<1>. QED  BY <1>1, LoopMoves DEF ClientSide

(* The loop keeps the tokens in order: a dispatched token is the next one. *)
LEMMA LoopInOrder ==
  ASSUME Types, Control, InOrder, EngineLoop
  PROVE  InOrder'
<1> SUFFICES ASSUME NEW q \in Req
             PROVE  \E n \in 0..Made(q)' : Text(q)' = Numbers(n) /\ (q \in cols' => n = Made(q)')
  BY DEF InOrder
<1>1. PICK n \in 0..Made(q) : Text(q) = Numbers(n) /\ (q \in cols => n = Made(q))
  BY DEF InOrder
<1>2. cols' = cols /\ Made(q)' = made[q] /\ made[q] \in Nat
  BY LoopMoves DEF Made, Types
<1>3. CASE q \in outs \cap cols
  <2>1. Dispatch
    <3>1. wpc = "returned"
      BY <1>3 DEF Control, StepOrder
    <3>. QED  BY <3>1 DEF EngineLoop, SubmitStep, StartCleanup, FinishCleanup, LoopError,
                          Control, TurnsTaken, Stepping
  <2>2. Text(q)' = Text(q) \o <<made[q]>>
    BY <1>3, <2>1, DispatchText
  <2>3. n = made[q] - 1 /\ n \in Nat /\ n + 1 = made[q]
    BY <1>1, <1>2, <1>3 DEF Made
  <2>4. Text(q)' = Numbers(made[q])
    BY <1>1, <2>2, <2>3, NumbersNext
  <2>. QED  BY <1>2, <2>4
<1>4. CASE q \notin outs \cap cols
  <2>1. Text(q)' = Text(q)
    BY <1>4, DispatchText, LoopText
  <2>2. n \in 0..made[q] /\ (q \in cols => n = made[q])
    BY <1>1, <1>2, <1>4 DEF Made
  <2>. QED  BY <1>1, <1>2, <2>1, <2>2
<1>. QED  BY <1>3, <1>4

(* The loop keeps what "stop" promises: it is said together with the last  *)
(* token, of a request that is then in no place but the cleanup.           *)
LEMMA LoopComplete ==
  ASSUME Types, Control, Places, ClientSide, InOrder, Complete, EngineLoop
  PROVE  Complete'
<1>1. ASSUME NEW q \in Req, Ended(q)  PROVE Ended(q)'
  BY <1>1, LoopMoves DEF Ended
<1> SUFFICES ASSUME NEW q \in Req
             PROVE  /\ buf'[q].fin = "stop" =>
                         Ended(q)' /\ (Read(q) \o buf[q].toks)' = Numbers(made'[q])
                    /\ phase'[q] = "held" /\ held'[q].fin = "stop" =>
                         Ended(q)' /\ Read(q)' = Numbers(made'[q])
                    /\ outcome'[q] = "stop" => Ended(q)'
  BY DEF Complete
<1>2. UNCHANGED <<phase, outcome, held, made>> /\ Read(q)' = Read(q)
  BY LoopMoves, DispatchText, LoopText
<1>3. CASE buf'[q] = buf[q]
  <2>1. (Read(q) \o buf[q].toks)' = Read(q) \o buf[q].toks
    BY <1>2, <1>3
  <2>. QED  BY <1>1, <1>2, <1>3, <2>1 DEF Complete
<1>4. CASE buf'[q].fin # "stop"
  BY <1>1, <1>2, <1>4 DEF Complete
<1>5. CASE buf'[q].fin = "stop" /\ buf'[q] # buf[q]
  <2>1. Dispatch /\ q \in outs \cap cols
    BY <1>5, LoopText, DispatchText
  <2>2. q \in toStore
    BY <1>5, <2>1, DispatchText
  <2>3. (Read(q) \o buf[q].toks)' = Text(q) \o <<made[q]>>
    BY <2>1, <2>2, DispatchText
  <2>4. Text(q) \o <<made[q]>> = Numbers(made[q])
    <3>1. PICK n \in 0..Made(q) : Text(q) = Numbers(n) /\ n = Made(q)
      BY <2>1 DEF InOrder
    <3>2. n = made[q] - 1 /\ n \in Nat /\ n + 1 = made[q]
      BY <2>1, <3>1 DEF Made, Types
    <3>. QED  BY <3>1, <3>2, NumbersNext
  <2>5. Ended(q)'
    <3>1. phase[q] \notin {"new", "gated"}
      BY <2>1 DEF ClientSide, Fresh
    <3>2. q \notin InWaiting'
      BY <2>2, LoopMoves DEF Places
    <3>3. q \in running' => q \in toStore' \cap sreqs'
      <4>1. q \in running' => q \in sreqs
        BY <2>1, LoopMoves DEF Places
      <4>. QED  BY <2>2, <4>1, LoopMoves
    <3>. QED  BY <3>1, <3>2, <3>3, LoopMoves DEF Ended
  <2>. QED  BY <1>1, <1>2, <2>3, <2>4, <2>5 DEF Complete
<1>. QED  BY <1>3, <1>4, <1>5

-----------------------------------------------------------------------------
(* What a step of the worker does to the places of the requests: no one    *)
(* comes back into the scheduler, and a token is only made for a request   *)
(* that is running.                                                        *)
LEMMA WorkerMoves ==
  ASSUME Types, Control, Places, Worker
  PROVE  /\ UNCHANGED <<phase, outcome, got, held, buf, pend, cols>>
         /\ sreqs' \subseteq sreqs
         /\ \A q \in Req :
              /\ q \in InWaiting' \cup InHand' \cup running' =>
                   q \in InWaiting \cup InHand \cup running
              /\ q \in InWaiting' \cup InHand' =>
                   q \in InWaiting \cup InHand \/ (q \in running /\ toStore = {})
              /\ q \in running' =>
                   \/ q \in InHand
                   \/ q \in running /\ (q \in sreqs => q \in sreqs')
                                    /\ (q \in toStore => q \in toStore')
              /\ status'[q] # status[q] => q \in InHand \cup running
              /\ q \in toStore' => q \in toStore \cup running
              /\ q \in outs' => q \in outs \/ (q \in running /\ toStore = {})
              /\ Made(q)' = Made(q)
              /\ q \notin outs' \/ q \in outs => made'[q] = made[q]
              /\ made'[q] >= made[q]
<1> USE DEF clientVars, streamVars, loopVars, schedVars, workVars, Working
<1>0. /\ made \in [Req -> Nat] /\ status \in [Req -> {"WAITING", "RUNNING", "FINISHED", "ABORTED"}]
      /\ sreqs \subseteq Req /\ running \subseteq Req /\ waiting \in Seq(Req)
  BY DEF Types, EngineTypeOK
<1>1. CASE ProcessAborts \/ EndSchedule \/ Raise \/ Stored
  <2>1. UNCHANGED <<phase, outcome, got, held, buf, pend, cols, sreqs, running, status, waiting,
                    toStore, outs, made>>
    BY <1>1 DEF ProcessAborts, EndSchedule, Raise, Stored
  <2>2. InHand' = {} /\ InWaiting' = InWaiting
    BY <1>1, <2>1 DEF ProcessAborts, EndSchedule, Raise, Stored, InHand, InWaiting
  <2>3. \A q \in Req : Made(q)' = Made(q) /\ made'[q] = made[q] /\ made[q] >= made[q]
    BY <1>0, <2>1 DEF Made
  <2>. QED  BY <2>1, <2>2, <2>3
<1>2. CASE Pop \/ InsertUid \/ InsertRunning \/ InsertFails
  <2>1. UNCHANGED <<phase, outcome, got, held, buf, pend, cols, sreqs, toStore, outs, made>>
    BY <1>2 DEF Pop, InsertUid, InsertRunning, InsertFails
  <2>2. \A q \in Req : Made(q)' = Made(q) /\ made'[q] = made[q] /\ made[q] >= made[q]
    BY <1>0, <2>1 DEF Made
  <2>3. /\ running' \subseteq running \cup InHand /\ running \subseteq running'
        /\ InWaiting' \cup InHand' \subseteq InWaiting \cup InHand
        /\ \A q \in Req : status'[q] # status[q] => q \in InHand
    <3>1. CASE Pop
      <4>1. waiting # <<>> /\ waiting' = Tail(waiting) /\ cur' = Head(waiting)
        BY <3>1 DEF Pop
      <4>2. Members(waiting) = Members(waiting') \cup {cur'}
        BY <1>0, <4>1, HeadMembers
      <4>3. UNCHANGED <<running, status>>
        BY <3>1 DEF Pop
      <4>. QED  BY <4>2, <4>3 DEF InHand, InWaiting
    <3>2. CASE InsertUid
      <4>1. InHand' = InHand /\ InHand = {cur} /\ InWaiting' = InWaiting /\ running' = running
        BY <3>2 DEF InsertUid, InHand, InWaiting
      <4>2. \A q \in Req : q # cur => status'[q] = status[q]
        BY <1>0, <3>2 DEF InsertUid
      <4>. QED  BY <4>1, <4>2
    <3>3. CASE InsertRunning
      BY <3>3 DEF InsertRunning, InHand, InWaiting
    <3>4. CASE InsertFails
      <4>1. waiting' = <<cur>> \o waiting /\ cur \in Req
        BY <3>4 DEF InsertFails, Types
      <4> DEFINE one == <<cur>>
      <4>2. one \in Seq(Req) /\ Members(one) = {cur}
        BY <4>1, OneMember
      <4>3. waiting' = one \o waiting
        BY <4>1
      <4> HIDE DEF one
      <4>4. InWaiting' = {cur} \cup InWaiting
        BY <1>0, <4>2, <4>3, ConcatMembers DEF InWaiting
      <4>5. InHand = {cur} /\ InHand' = {} /\ UNCHANGED <<running, status>>
        BY <3>4 DEF InsertFails, InHand
      <4>. QED  BY <4>4, <4>5
    <3>. QED  BY <1>2, <3>1, <3>2, <3>3, <3>4
  <2>4. \A q \in Req : q \in running' => q \in InHand \/ q \in running
    BY <2>3
  <2>. QED  BY <2>1, <2>2, <2>3, <2>4
<1>3. CASE Generate
  <2>1. /\ UNCHANGED <<phase, outcome, got, held, buf, pend, cols, sreqs, running, waiting>>
        /\ outs' \subseteq running /\ toStore' \subseteq running
    BY <1>3 DEF Generate
  <2>2. outs = {} /\ toStore = {}
    BY <1>3 DEF Generate, Control, TurnsTaken, StepOrder, Stepping
  <2>3. InHand' = {} /\ InWaiting' = InWaiting
    BY <1>3, <2>1 DEF Generate, InHand, InWaiting
  <2>4. \A q \in Req : /\ q \in outs' => made'[q] = made[q] + 1
                       /\ q \notin outs' => made'[q] = made[q]
    BY <1>3 DEF Generate
  <2>5. \A q \in Req : q \notin running => status'[q] = status[q]
    BY <1>0, <1>3, <2>1 DEF Generate
  <2>6. ASSUME NEW q \in Req
        PROVE  Made(q)' = Made(q) /\ made'[q] >= made[q]
    <3>1. made[q] \in Nat
      BY <1>0
    <3>2. CASE q \in outs'
      BY <3>1, <3>2, <2>2, <2>4 DEF Made
    <3>3. CASE q \notin outs'
      BY <3>1, <3>3, <2>2, <2>4 DEF Made
    <3>. QED  BY <3>2, <3>3
  <2>. QED  BY <2>1, <2>2, <2>3, <2>4, <2>5, <2>6
<1>4. CASE Restart
  <2>1. UNCHANGED <<phase, outcome, got, held, buf, pend, cols, sreqs, toStore, outs, made>>
        /\ running' = {}
    BY <1>4 DEF Restart
  <2>2. toStore = {}
    BY <1>4 DEF Restart, Control, TurnsTaken, StepOrder, Stepping
  <2>3. InHand' = {} /\ InWaiting' = running \cup InWaiting
    <3>1. PICK order \in [1..Cardinality(running) -> running] :
            /\ \A r \in running : \E i \in DOMAIN order : order[i] = r
            /\ waiting' = order \o waiting
      BY <1>4 DEF Restart
    <3>2. IsFiniteSet(running)
      BY <1>0, EngineAssumption, FS_Subset
    <3>3. order \in Seq(running) /\ Members(order) = running
      BY <3>1, <3>2, EachOnce
    <3>4. order \in Seq(Req)
      BY <1>0, <3>3, SeqMonotonic
    <3>5. InWaiting' = running \cup InWaiting
      BY <1>0, <3>1, <3>3, <3>4, ConcatMembers DEF InWaiting
    <3>6. InHand' = {}
      BY <1>4 DEF Restart, InHand
    <3>. QED  BY <3>5, <3>6
  <2>4. \A q \in Req : Made(q)' = Made(q) /\ made'[q] = made[q] /\ made[q] >= made[q]
    BY <1>0, <2>1 DEF Made
  <2>5. \A q \in Req : q \notin running => status'[q] = status[q]
    BY <1>0, <1>4 DEF Restart
  <2>. QED  BY <2>1, <2>2, <2>3, <2>4, <2>5
<1>5. CASE Store
  <2>1. UNCHANGED <<phase, outcome, got, held, buf, pend, cols, status, outs, made, waiting,
                    wpc, cur>>
    BY <1>5 DEF Store
  <2>2. PICK r \in toStore : toStore' = toStore \ {r} /\ running' = running \ {r} /\ sreqs' = sreqs \ {r}
    BY <1>5 DEF Store
  <2>3. InHand' = InHand /\ InWaiting' = InWaiting
    BY <2>1 DEF InHand, InWaiting
  <2>4. \A q \in Req : Made(q)' = Made(q) /\ made'[q] = made[q] /\ made[q] >= made[q]
    BY <1>0, <2>1 DEF Made
  <2>. QED  BY <2>1, <2>2, <2>3, <2>4
<1>. QED  BY <1>1, <1>2, <1>3, <1>4, <1>5 DEF Worker

(* No step of the worker touches the tokens that have left it. *)
LEMMA WorkerText ==
  ASSUME Types, Control, Places, Worker, NEW q \in Req
  PROVE  /\ Text(q)' = Text(q) /\ Read(q)' = Read(q)
         /\ (Read(q) \o buf[q].toks)' = Read(q) \o buf[q].toks
<1>1. UNCHANGED <<got, held, buf, pend>>
  BY WorkerMoves
<1>. QED  BY <1>1 DEF Text, Read

(* The worker does nothing for a request that is not admitted. *)
LEMMA WorkerClientSide ==
  ASSUME Types, Control, Places, ClientSide, Worker
  PROVE  ClientSide'
<1>1. ASSUME NEW q \in Req, Fresh(q)  PROVE Fresh(q)'
  <2>1. made'[q] = made[q]
    <3>1. q \notin outs'
      BY <1>1, WorkerMoves DEF Fresh
    <3>. QED  BY <3>1, WorkerMoves
  <2>2. /\ q \notin cols' \cup sreqs' \cup running' \cup InWaiting' \cup InHand' \cup outs' \cup toStore'
        /\ status'[q] = status[q] /\ buf' = buf
    BY <1>1, WorkerMoves DEF Fresh
  <2>. QED  BY <1>1, <2>1, <2>2, WorkerText DEF Fresh
<1>. QED  BY <1>1, WorkerMoves DEF ClientSide

(* The worker keeps the tokens in order: the one it makes has not left it. *)
LEMMA WorkerInOrder ==
  ASSUME Types, Control, Places, InOrder, Worker
  PROVE  InOrder'
<1> SUFFICES ASSUME NEW q \in Req
             PROVE  \E n \in 0..Made(q)' : Text(q)' = Numbers(n) /\ (q \in cols' => n = Made(q)')
  BY DEF InOrder
<1>1. Text(q)' = Text(q) /\ Made(q)' = Made(q) /\ cols' = cols
  BY WorkerText, WorkerMoves
<1>. QED  BY <1>1 DEF InOrder

(* The worker keeps what "stop" promises: it makes no token for a request  *)
(* that has ended.                                                         *)
LEMMA WorkerComplete ==
  ASSUME Types, Control, Places, Complete, Worker
  PROVE  Complete'
<1>1. ASSUME NEW q \in Req, Ended(q)  PROVE Ended(q)' /\ made'[q] = made[q]
  <2>1. q \notin InWaiting' \cup InHand'
    BY <1>1, WorkerMoves DEF Ended
  <2>2. q \notin outs'
    BY <1>1, WorkerMoves DEF Ended
  <2>3. q \in running' => q \in toStore' \cap sreqs'
    BY <1>1, WorkerMoves DEF Ended
  <2>. QED  BY <1>1, <2>1, <2>2, <2>3, WorkerMoves DEF Ended
<1> SUFFICES ASSUME NEW q \in Req
             PROVE  /\ buf'[q].fin = "stop" =>
                         Ended(q)' /\ (Read(q) \o buf[q].toks)' = Numbers(made'[q])
                    /\ phase'[q] = "held" /\ held'[q].fin = "stop" =>
                         Ended(q)' /\ Read(q)' = Numbers(made'[q])
                    /\ outcome'[q] = "stop" => Ended(q)'
  BY DEF Complete
<1>2. UNCHANGED <<phase, outcome, held, buf>>
  BY WorkerMoves
<1>. QED  BY <1>1, <1>2, WorkerText DEF Complete

-----------------------------------------------------------------------------
(* Before the first request the invariant holds. *)
LEMMA InitInv == EngineInit => EngineInv
<1> SUFFICES ASSUME EngineInit  PROVE EngineInv
  OBVIOUS
<1>1. Types
  BY EngineAssumption DEF EngineInit, Types, EngineTypeOK, Output, Empty
<1>2. Control
  BY DEF EngineInit, Control, TurnsTaken, FenceDown, RowsOwned, StepOrder, Stepping
<1>3. InHand = {} /\ InWaiting = {} /\ NoRepeats(waiting)
  BY DEF EngineInit, InHand, InWaiting, Members, NoRepeats
<1>4. Places
  BY <1>3 DEF EngineInit, Places
<1>5. ASSUME NEW r \in Req  PROVE Text(r) = <<>> /\ held[r].toks = <<>> /\ buf[r].fin = "none"
  <2>1. got[r] = <<>> /\ held[r].toks = <<>> /\ buf[r].toks = <<>> /\ pend[r] = <<>>
        /\ buf[r].fin = "none"
    BY DEF EngineInit, Empty
  <2>. QED  BY <2>1 DEF Text, Read
<1>6. ClientSide
  <2> SUFFICES ASSUME NEW r \in Req
               PROVE  Fresh(r) /\ outcome[r] = "open" /\ held[r].toks = <<>>
    BY DEF ClientSide
  <2>1. /\ r \notin cols \cup sreqs \cup running \cup outs \cup toStore
        /\ status[r] = "WAITING" /\ made[r] = 0 /\ outcome[r] = "open"
    BY DEF EngineInit
  <2>. QED  BY <2>1, <1>3, <1>5 DEF Fresh
<1>7. InOrder
  <2> SUFFICES ASSUME NEW r \in Req
               PROVE  \E n \in 0..Made(r) : Text(r) = Numbers(n) /\ (r \in cols => n = Made(r))
    BY DEF InOrder
  <2>1. Made(r) = 0 /\ 0 \in 0..Made(r)
    BY DEF EngineInit, Made
  <2>2. Numbers(0) = <<>>
    BY DEF Numbers
  <2>. QED  BY <2>1, <2>2, <1>5 DEF EngineInit
<1>8. Complete
  <2>1. \A r \in Req : buf[r].fin = "none" /\ phase[r] = "new" /\ outcome[r] = "open"
    BY DEF EngineInit, Empty
  <2>. QED  BY <2>1 DEF Complete
<1>. QED  BY <1>1, <1>2, <1>4, <1>6, <1>7, <1>8 DEF EngineInv

(* Every step keeps it, and only an open fence lets the registry grow. *)
LEMMA StepInv ==
  ASSUME EngineInv, [EngineNext]_vars
  PROVE  EngineInv' /\ (sreqs' \subseteq sreqs \/ fence)
<1>1. CASE EngineLoop
  BY <1>1, LoopTypes, LoopStep, LoopPlaces, LoopClientSide, LoopInOrder, LoopComplete
     DEF EngineInv
<1>2. CASE Worker
  BY <1>2, WorkerTypes, WorkerStep, WorkerPlaces, WorkerClientSide, WorkerInOrder,
     WorkerComplete DEF EngineInv
<1>3. ASSUME NEW r \in Req, Client(r)  PROVE EngineInv' /\ (sreqs' \subseteq sreqs \/ fence)
  BY <1>3, ClientTypes, ClientStep, ClientPlaces, ClientClientSide, ClientInOrder,
     ClientComplete DEF EngineInv
<1>4. CASE UNCHANGED vars
  <2> USE <1>4 DEF vars, clientVars, streamVars, loopVars, schedVars, workVars
  <2>1. Types' /\ Control'
    BY DEF EngineInv, Types, EngineTypeOK, Control, TurnsTaken, FenceDown, RowsOwned, StepOrder
  <2>2. InWaiting' = InWaiting /\ InHand' = InHand
    BY DEF InWaiting, InHand
  <2>3. Places'
    BY <2>2 DEF EngineInv, Places
  <2>4. \A r \in Req : Text(r)' = Text(r) /\ Read(r)' = Read(r) /\ Made(r)' = Made(r)
    BY DEF Text, Read, Made
  <2>5. ClientSide' /\ InOrder' /\ Complete'
    BY <2>2, <2>4, ZenonT(60) DEF EngineInv, ClientSide, Fresh, InOrder, Complete, Ended
  <2>. QED  BY <2>1, <2>3, <2>5 DEF EngineInv
<1>. QED  BY <1>1, <1>2, <1>3, <1>4 DEF EngineNext

(* The inductive invariant of the engine loop, its worker and its clients. *)
THEOREM EngineInvariant == EngineSpec => []EngineInv
<1>1. EngineInv /\ [EngineNext]_vars => EngineInv'
  BY StepInv
<1>. QED  BY InitInv, <1>1, PTL DEF EngineSpec

(* The loop is well typed, and no orphan count passes its limit: the       *)
(* counts of _consume_step_outputs are reset when a request is reaped.     *)
THEOREM EngineTypes == EngineSpec => []EngineTypeOK
<1>1. EngineInv => EngineTypeOK
  BY DEF EngineInv, Types
<1>. QED  BY EngineInvariant, <1>1, PTL

(* Batching, merging and slow readers neither lose, repeat nor reorder a   *)
(* token of a request that is still collected, also when the generator is  *)
(* restarted (tokens made anew after a restart have numbers of their own). *)
THEOREM EngineTokens == EngineSpec => []TokensInOrder
<1>1. EngineInv => TokensInOrder
  <2> SUFFICES ASSUME EngineInv, NEW r \in cols
               PROVE  got[r] \o held[r].toks \o buf[r].toks \o pend[r] =
                        Numbers(made[r] - IF r \in outs THEN 1 ELSE 0)
    BY DEF TokensInOrder
  <2>1. r \in Req /\ made[r] \in Nat
    BY DEF EngineInv, Types, EngineTypeOK
  <2>2. Text(r) = Numbers(Made(r))
    BY <2>1 DEF EngineInv, InOrder
  <2>3. Made(r) = made[r] - IF r \in outs THEN 1 ELSE 0
    BY <2>1 DEF Made
  <2>. QED  BY <2>2, <2>3 DEF Text, Read
<1>. QED  BY EngineInvariant, <1>1, PTL

(* When the loop finds no work, no row of the generator is left behind:    *)
(* has_requests counts everything that still owns one.                     *)
THEOREM EngineIdleIsClean == EngineSpec => []IdleIsClean
<1>1. EngineInv => IdleIsClean
  BY DEF EngineInv, Control, TurnsTaken, RowsOwned, IdleIsClean, HasRequests, Stepping
<1>. QED  BY EngineInvariant, <1>1, PTL

(* add_request looks nothing up while a finished request is being stored.  *)
THEOREM EngineAdmission == EngineSpec => AdmittedAfterStores
<1> DEFINE Settled == \A r \in Req : r \notin sreqs /\ r \in sreqs' => Unsettled = {}
<1>1. EngineInv /\ [EngineNext]_vars => [Settled]_vars
  <2> SUFFICES ASSUME EngineInv, [EngineNext]_vars, NEW r \in Req,
                      r \notin sreqs, r \in sreqs'
               PROVE  Unsettled = {}
    OBVIOUS
  <2>1. fence
    BY StepInv
  <2>. QED  BY <2>1 DEF EngineInv, Control, FenceDown, Unsettled
<1>. QED  BY EngineInvariant, <1>1, PTL DEF EngineSpec, AdmittedAfterStores

(* Only a delivery tells a client of an end of generation.                 *)
LEMMA TerminalSteps ==
  ASSUME EngineInv, [EngineNext]_vars, NEW r \in Req,
         outcome[r] = "open", outcome'[r] \in Terminal
  PROVE  Deliver(r)
<1> USE DEF vars, clientVars, streamVars, loopVars, schedVars, workVars, Terminal
<1>1. ~Worker /\ ~EngineLoop /\ ~UNCHANGED vars
  <2>1. Worker \/ EngineLoop => outcome' = outcome
    BY WorkerMoves, LoopMoves DEF EngineInv
  <2>. QED  BY <2>1
<1>2. PICK q \in Req : Client(q)
  BY <1>1 DEF EngineNext
<1>3. q = r
  BY <1>2, ClientMoves DEF EngineInv
<1>4. ~(Enter(r) \/ Resume(r) \/ Refuse(r) \/ Take(r) \/ GiveUp(r))
  BY DEF Enter, Resume, Admit, Refuse, Take, GiveUp, EngineInv, Types, EngineTypeOK
<1>5. ~(Disconnect(r) \/ Cancel(r))
  BY DEF Disconnect, Leave, Cancel, EngineInv, Types, EngineTypeOK
<1>. QED  BY <1>2, <1>3, <1>4, <1>5 DEF Client

(* A client is told of an end of generation only when no cleanup of a      *)
(* finished request is outstanding, and of "stop" only when its own has    *)
(* been stored (_wait_for_terminal_persistence).                           *)
THEOREM EngineTerminal == EngineSpec => TerminalAfterStores
<1> DEFINE After == \A r \in Req : outcome[r] = "open" /\ outcome'[r] \in Terminal =>
                       Unsettled = {} /\ (outcome'[r] = "stop" => r \notin toStore)
<1>1. EngineInv /\ [EngineNext]_vars => [After]_vars
  <2> SUFFICES ASSUME EngineInv, [EngineNext]_vars, NEW r \in Req,
                      outcome[r] = "open", outcome'[r] \in Terminal
               PROVE  Unsettled = {} /\ (outcome'[r] = "stop" => r \notin toStore)
    OBVIOUS
  <2>1. phase[r] = "held" /\ fence /\ outcome'[r] = held[r].fin
    BY TerminalSteps DEF Deliver, EngineInv, Types, EngineTypeOK
  <2>2. lpc \in {"top", "await"} /\ (lpc = "top" => toStore = {})
    BY <2>1 DEF EngineInv, Control, FenceDown
  <2>3. ASSUME outcome'[r] = "stop"  PROVE r \notin toStore
    <3>1. r \notin outs
      BY <2>1, <2>3 DEF EngineInv, Complete, Ended
    <3>. QED  BY <2>2, <3>1 DEF EngineInv, Control, StepOrder
  <2>. QED  BY <2>2, <2>3 DEF Unsettled
<1>. QED  BY EngineInvariant, <1>1, PTL DEF EngineSpec, TerminalAfterStores

-----------------------------------------------------------------------------
(* The engine implements RequestStream.                                    *)

(* What the client has, and what it would have with the output it holds or *)
(* the one in its collector, are prefixes of what was made.                *)
LEMMA ReadIsPrefix ==
  ASSUME Types, InOrder, NEW r \in Req
  PROVE  /\ got[r] = Numbers(Len(got[r])) /\ Len(got[r]) \in 0..made[r]
         /\ Read(r) = Numbers(Len(Read(r))) /\ Len(Read(r)) \in Len(got[r])..made[r]
         /\ LET b == Read(r) \o buf[r].toks
            IN b = Numbers(Len(b)) /\ Len(b) \in Len(got[r])..made[r]
<1> DEFINE g == got[r]
           h == held[r].toks
           x == Read(r)
           b == x \o buf[r].toks
           m == made[r]
<1>1. /\ g \in Seq(Nat) /\ h \in Seq(Nat) /\ x \in Seq(Nat) /\ b \in Seq(Nat)
      /\ buf[r].toks \in Seq(Nat) /\ pend[r] \in Seq(Nat) /\ m \in Nat
  BY TextTypes
<1>2. PICK n \in 0..Made(r) : Text(r) = Numbers(n)
  BY DEF InOrder
<1>3. n \in Nat /\ n <= m
  BY <1>1, <1>2 DEF Made
<1>4. b \o pend[r] = Numbers(n)
  BY <1>2 DEF Text
<1>5. x = g \o h
  BY DEF Read
<1> HIDE DEF g, h, x, m
<1>6. b = Numbers(Len(b)) /\ Len(b) \in 0..n
  <2> HIDE DEF b
  <2>. QED  BY <1>1, <1>3, <1>4, PrefixOfNumbers
<1> DEFINE nb == Len(b)
<1>7. nb \in Nat /\ nb <= m /\ x \o buf[r].toks = Numbers(nb)
  <2>1. nb \in 0..n /\ b = Numbers(nb)
    BY <1>6
  <2> HIDE DEF nb
  <2>. QED  BY <1>1, <1>3, <2>1
<1> HIDE DEF nb
<1>8. x = Numbers(Len(x)) /\ Len(x) \in 0..nb
  BY <1>1, <1>7, PrefixOfNumbers
<1> DEFINE nx == Len(x)
<1>9. nx \in Nat /\ nx <= nb /\ g \o h = Numbers(nx)
  BY <1>5, <1>7, <1>8
<1> HIDE DEF nx
<1>10. g = Numbers(Len(g)) /\ Len(g) \in 0..nx
  BY <1>1, <1>9, PrefixOfNumbers
<1> DEFINE ng == Len(g)
<1>11. ng \in Nat /\ ng <= nx
  BY <1>9, <1>10
<1> HIDE DEF ng
<1>12. ng \in 0..m /\ nx \in ng..m /\ nb \in ng..m
  BY <1>1, <1>7, <1>9, <1>11
<1>. QED  BY <1>6, <1>8, <1>10, <1>12 DEF ng, nx, nb, g, x, m

(* Both modules mean the same by the numbers up to n. *)
LEMMA StreamNumbers == ASSUME NEW n  PROVE Stream!Numbers(n) = Numbers(n)
BY DEF Stream!Numbers, Numbers

(* An end with what the client has already. *)
LEMMA EndsHere ==
  ASSUME Types, InOrder, NEW r \in Req, NEW o \in Stream!Outcomes, o # "stop",
         outcome[r] = "open", outcome' = [outcome EXCEPT ![r] = o],
         got' = got, made' = made
  PROVE  Stream!End(r, o)
<1>1. Len(got[r]) \in Len(got[r])..made[r] /\ got[r] = Stream!Numbers(Len(got[r]))
  BY ReadIsPrefix, StreamNumbers
<1>2. got' = [got EXCEPT ![r] = Stream!Numbers(Len(got[r]))]
  BY <1>1 DEF Types
<1>. QED  BY <1>1, <1>2 DEF Stream!End

(* A client step is a receipt or an end of the stream, or invisible. *)
LEMMA ClientStream ==
  ASSUME EngineInv, NEW r \in Req, Client(r)
  PROVE  Stream!StreamNext \/ UNCHANGED <<made, got, outcome>>
<1> USE DEF clientVars, streamVars, loopVars, schedVars, workVars, EngineInv
<1>0. made' = made
  BY ClientMoves
<1>1. CASE Enter(r) \/ Resume(r)
  <2>1. UNCHANGED <<got, outcome>>
    BY <1>1 DEF Enter, Resume, Admit
  <2>. QED  BY <1>0, <2>1
<1>2. CASE Refuse(r) \/ GiveUp(r)
  <2>1. /\ outcome[r] = "open" /\ got' = got
        /\ \E o \in {"refused", "dropped"} : outcome' = [outcome EXCEPT ![r] = o]
    BY <1>2 DEF Refuse, GiveUp, ClientSide
  <2>2. \E o \in {"refused", "dropped"} : Stream!End(r, o)
    BY <1>0, <2>1, EndsHere DEF Stream!Outcomes
  <2>. QED  BY <2>2 DEF Stream!StreamNext, Stream!Outcomes
<1>3. CASE Take(r)
  <2>1. outcome' = outcome /\ outcome[r] = "open" /\ held[r].toks = <<>>
    BY <1>3 DEF Take, ClientSide
  <2>2. CASE buf[r].fin = "no"
    <3> DEFINE b == Read(r) \o buf[r].toks
               n == Len(b)
    <3>1. got' = [got EXCEPT ![r] = got[r] \o buf[r].toks]
      BY <1>3, <2>2 DEF Take
    <3>2. Read(r) = got[r]
      BY <2>1, TextTypes, ConcatEmptySeq DEF Read
    <3>3. b = Stream!Numbers(n) /\ n \in Len(got[r])..made[r]
      BY ReadIsPrefix, StreamNumbers
    <3>4. got' = [got EXCEPT ![r] = Stream!Numbers(n)]
      BY <3>1, <3>2, <3>3
    <3>5. Stream!Receive(r)
      <4> HIDE DEF n
      <4>. QED  BY <1>0, <2>1, <3>3, <3>4 DEF Stream!Receive
    <3>. QED  BY <3>5 DEF Stream!StreamNext
  <2>3. CASE buf[r].fin # "no"
    BY <1>0, <1>3, <2>1, <2>3 DEF Take
  <2>. QED  BY <2>2, <2>3
<1>4. CASE Deliver(r)
  <2> DEFINE o == held[r].fin
             n == Len(Read(r))
  <2>1. /\ outcome[r] = "open" /\ outcome' = [outcome EXCEPT ![r] = o]
        /\ got' = [got EXCEPT ![r] = Read(r)] /\ o \in Terminal
    BY <1>4 DEF Deliver, ClientSide, Read, Types
  <2>2. Read(r) = Stream!Numbers(n) /\ n \in Len(got[r])..made[r]
    BY ReadIsPrefix, StreamNumbers
  <2>3. o = "stop" => n = made[r]
    <3>1. ASSUME o = "stop"  PROVE Read(r) = Numbers(made[r])
      BY <1>4, <3>1 DEF Deliver, Complete
    <3>. QED  BY <3>1, NumbersNext, TextTypes
  <2> HIDE DEF o, n
  <2>4. Stream!End(r, o)
    BY <1>0, <2>1, <2>2, <2>3 DEF Stream!End
  <2>5. o \in Stream!Outcomes
    BY <2>1 DEF Stream!Outcomes, Terminal
  <2>. QED  BY <2>4, <2>5 DEF Stream!StreamNext
<1>5. CASE Disconnect(r) \/ Cancel(r)
  <2>1. CASE outcome' = outcome
    BY <1>0, <1>5, <2>1 DEF Disconnect, Leave, Cancel
  <2>2. CASE outcome' # outcome
    <3>1. /\ outcome[r] = "open" /\ got' = got
          /\ outcome' = [outcome EXCEPT ![r] = "dropped"]
      BY <1>5, <2>2 DEF Disconnect, Leave, Cancel, ClientSide
    <3>2. Stream!End(r, "dropped")
      BY <1>0, <3>1, EndsHere DEF Stream!Outcomes
    <3>. QED  BY <3>2 DEF Stream!StreamNext, Stream!Outcomes
  <2>. QED  BY <2>1, <2>2
<1>. QED  BY <1>1, <1>2, <1>3, <1>4, <1>5 DEF Client

(* A step of the worker produces tokens for the stream or is invisible. *)
LEMMA WorkerStream ==
  ASSUME EngineInv, Worker
  PROVE  Stream!StreamNext \/ UNCHANGED <<made, got, outcome>>
<1> USE DEF clientVars, streamVars, loopVars, schedVars, workVars, EngineInv
<1>0. UNCHANGED <<got, outcome>>
  BY WorkerMoves
<1>1. CASE Generate
  <2>1. /\ outs' \subseteq running /\ running \subseteq Req
        /\ made' = [r \in Req |-> IF r \in outs' THEN made[r] + 1 ELSE made[r]]
    BY <1>1 DEF Generate, Types, EngineTypeOK
  <2>2. toStore = {}
    BY <1>1 DEF Generate, Working, Control, TurnsTaken, StepOrder, Stepping
  <2>3. \A r \in outs' : outcome[r] # "stop"
    BY <2>1, <2>2 DEF Complete, Ended
  <2>4. outs' \in SUBSET Req
    BY <2>1
  <2>. QED  BY <1>0, <2>1, <2>3, <2>4 DEF Stream!StreamNext, Stream!Produce
<1>2. CASE ~Generate
  <2>1. made' = made
    BY <1>2 DEF Worker, ProcessAborts, Pop, InsertUid, InsertRunning, InsertFails, EndSchedule,
                Restart, Raise, Store, Stored
  <2>. QED  BY <1>0, <2>1
<1>. QED  BY <1>1, <1>2

(* For its client a request is what RequestStream says it is: a growing    *)
(* prefix of its tokens, one end, and after "stop" all of them.            *)
THEOREM EngineImplementsStream == EngineSpec => ImplementsStream
<1>1. EngineInit => Stream!StreamInit
  BY DEF EngineInit, Stream!StreamInit
<1>2. EngineInv /\ [EngineNext]_vars => [Stream!StreamNext]_(Stream!streamState)
  <2> SUFFICES ASSUME EngineInv, [EngineNext]_vars
               PROVE  Stream!StreamNext \/ UNCHANGED <<made, got, outcome>>
    BY DEF Stream!streamState
  <2>1. CASE EngineLoop
    BY <2>1, LoopMoves DEF EngineInv
  <2>2. CASE Worker
    BY <2>2, WorkerStream
  <2>3. ASSUME NEW r \in Req, Client(r)
        PROVE  Stream!StreamNext \/ UNCHANGED <<made, got, outcome>>
    BY <2>3, ClientStream
  <2>4. CASE UNCHANGED vars
    BY <2>4 DEF vars, clientVars, workVars
  <2>. QED  BY <2>1, <2>2, <2>3, <2>4 DEF EngineNext
<1>. QED  BY EngineInvariant, <1>1, <1>2, PTL DEF EngineSpec, ImplementsStream, Stream!StreamSpec
=============================================================================
