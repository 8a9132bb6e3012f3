---------------------------- MODULE MCWorkerLink ----------------------------
(* TLC instances of WorkerLink: a coordinator and a worker with the same   *)
(* memory, with more of it, or with too little to run a layer; and with    *)
(* two workers.                                                            *)
EXTENDS WorkerLink

CONSTANTS me, w1, w2, r1, r2

TwoNodes == <<me, w1>>
TwoRams == {<<6, 6>>, <<6, 2>>, <<4, 6>>}
ThreeNodes == <<me, w1, w2>>
ThreeRams == [1..3 -> {2, 4, 6}]
=============================================================================
