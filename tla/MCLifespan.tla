---------------------------- MODULE MCLifespan ----------------------------
(***************************************************************************)
(* A server with two worker threads and a worker process that has none     *)
(* (DELIVERY_WORKER_COUNT is configured), both with a scheduler.           *)
(***************************************************************************)
EXTENDS Lifespan, TLC

CONSTANTS main, worker, w1, w2, b1, b2, e1

BothInMain == w1 :> main @@ w2 :> main
FromFirst == e1 :> b1

(* The digest and the queue share nothing but the process: with a copy on a *)
(* queue the event does not fail.  Neither a put nor a failure is fair.     *)
NoCopyOnceFailed == failed = {} \/ puts = 0
=============================================================================
