--------------------------- MODULE RequestStream ---------------------------
(***************************************************************************)
(* What EngineCore promises each of its clients, with no queue, buffer,    *)
(* fence or worker in it: the client receives a growing prefix of the      *)
(* tokens made for its request and is told one end; if that end is "stop", *)
(* it has received every token and none is made afterwards.                *)
(***************************************************************************)
EXTENDS Integers, Sequences

CONSTANTS Req

VARIABLES made,    \* tokens made so far
          got,     \* tokens received
          outcome  \* what the client was told

streamState == <<made, got, outcome>>
Outcomes == {"stop", "aborted", "error", "refused", "dropped"}
Numbers(n) == [i \in 1..n |-> i]

StreamInit ==
  /\ made = [r \in Req |-> 0]
  /\ got = [r \in Req |-> <<>>]
  /\ outcome = [r \in Req |-> "open"]

\* One step of the generator: a token for each request of a batch.
Produce ==
  /\ \E S \in SUBSET Req :
       /\ \A r \in S : outcome[r] # "stop"
       /\ made' = [r \in Req |-> IF r \in S THEN made[r] + 1 ELSE made[r]]
  /\ UNCHANGED <<got, outcome>>

Receive(r) ==
  /\ outcome[r] = "open"
  /\ \E n \in Len(got[r])..made[r] : got' = [got EXCEPT ![r] = Numbers(n)]
  /\ UNCHANGED <<made, outcome>>

\* The last output carries tokens too.
End(r, o) ==
  /\ outcome[r] = "open"
  /\ outcome' = [outcome EXCEPT ![r] = o]
  /\ \E n \in Len(got[r])..made[r] :
       /\ o = "stop" => n = made[r]
       /\ got' = [got EXCEPT ![r] = Numbers(n)]
  /\ UNCHANGED made

StreamNext ==
  \/ Produce
  \/ \E r \in Req : Receive(r) \/ \E o \in Outcomes : End(r, o)

StreamSpec == StreamInit /\ [][StreamNext]_streamState
=============================================================================
