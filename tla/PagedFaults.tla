----------------------------- MODULE PagedFaults -----------------------------
(***************************************************************************)
(* PagedCache with the interleavings and failures its comments speak of    *)
(* and its code does not cover.  Each specification adds one of them to    *)
(* CacheNext, so that a counterexample shows that one alone.               *)
(***************************************************************************)
EXTENDS PagedCache

-----------------------------------------------------------------------------
(* _recover_from_cache_error: clear(force=True), then every running        *)
(* request is rescheduled to prefill cold.  Waiting ones keep their tables.*)

Recover ==
  /\ lock = "free" /\ Work.pc = "idle" /\ Loop.pc = "idle"
  /\ ResetCache
  /\ tbl' = [r \in Req |-> IF stage[r] = "running" THEN <<>> ELSE tbl[r]]
  /\ UNCHANGED <<stage, lock, job, frugal>>

RecoverSpec == CacheInit /\ [][CacheNext \/ Recover]_vars

-----------------------------------------------------------------------------
(* abort_request on the event loop while the worker is restoring: the      *)
(* worker goes on with the request object and its table.  (Without Clear:  *)
(* it would replace the block object the worker is about to fill.)         *)

AbortMidRestore(r) ==
  /\ Loop.pc = "idle" /\ stage[r] = "restoring"
  /\ FreeTables(r)
  /\ stage' = [stage EXCEPT ![r] = "aborted"]
  /\ UNCHANGED <<poolVars, blockVars, l2, tbl, frugal>>

AbortNext ==
  (Serving /\ UNCHANGED frugal) \/ \E r \in Req : AbortMidRestore(r)

AbortSpec == CacheInit /\ [][AbortNext]_vars
=============================================================================
