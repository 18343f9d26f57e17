------------------------------- MODULE MCShard -------------------------------
(* ShardedHub with two hubs of one slot each and two calls, so that each of  *)
(* the operations meets each of the others, Stop itself too.                 *)
EXTENDS ShardedHub, TLC

CONSTANTS k1, k2

TwoCalls == [k \in Calls |-> IF k = k1 THEN {"broadcast", "stop"}
                                      ELSE {"stats", "stop"}]
=============================================================================
