---------------------------- MODULE MCPushIngest ----------------------------
(* A small instance of PushIngest: two batches that share a reading.  One   *)
(* covers two times of a stream, the other two streams.                     *)
EXTENDS PushIngest, TLC

SharedReading == {{<<"fill", 1>>, <<"fill", 2>>}, {<<"fill", 1>>, <<"temp", 1>>}}

(* Handlers are interchangeable in every invariant.                         *)
HandlerSymmetry == Permutations(Handlers)
=============================================================================
