--------------------------- MODULE MCTSQueueTest ---------------------------
(* The test program with a few threads and a ring smaller than the load.   *)
EXTENDS TSQueueTest
=============================================================================
