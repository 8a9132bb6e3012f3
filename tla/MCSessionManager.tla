-------------------------- MODULE MCSessionManager --------------------------
(* TLC instances of SessionManager: three requests to one session, or to   *)
(* two, in every world an earlier run of the panel leaves.                 *)
EXTENDS SessionManager, TLC

CONSTANTS c1, c2, c3, s1, s2

Three(mode, x, y, z, left) ==
  {[single |-> mode, asks |-> (c1 :> x) @@ (c2 :> y) @@ (c3 :> z), left |-> e] : e \in left}

Nothing == {[of |-> NoSession, st |-> "gone", how |-> "missed"]}
Engine(st, how) == {[of |-> s1, st |-> st, how |-> how]}
Adopted == Engine("up", "adopted") \cup Engine("asleep", "adopted")
Missed == Engine("up", "missed") \cup Engine("gone", "error") \cup Engine("booting", "error")

MCPlan ==
  LET one(mode, x, y, z, left) == Three(mode, <<x, s1>>, <<y, s1>>, <<z, s1>>, left)
  IN one(FALSE, "start", "stop", "start", Nothing \cup Missed)
     \cup one(TRUE, "start", "stop", "start", Nothing \cup Engine("up", "adopted"))
     \cup one(TRUE, "start", "stop", "start", Engine("up", "missed") \cup Engine("booting", "missed"))
     \cup one(FALSE, "start", "stop", "restart", Nothing \cup Engine("gone", "error"))
     \cup one(TRUE, "start", "stop", "restart", Engine("asleep", "adopted"))
     \cup one(FALSE, "start", "stop", "delete", Nothing \cup Adopted)
     \cup UNION {one(FALSE, "start", "stop", z, Nothing \cup Adopted) : z \in {"sleep", "wake"}}
     \cup UNION {one(FALSE, "sleep", "wake", z, Adopted) : z \in {"stop", "restart"}}
     \cup Three(TRUE, <<"start", s2>>, <<"start", s1>>, <<"stop", s1>>, Engine("up", "adopted"))
     \cup Three(TRUE, <<"start", s2>>, <<"delete", s1>>, <<"sleep", s1>>, Adopted)
=============================================================================
