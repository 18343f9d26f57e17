-------------------------------- MODULE MCApp --------------------------------
(* AppProcess with two requests, each of which may leave a subscription or a *)
(* connection, and configurations with a wrong, no and a single shard.       *)
EXTENDS AppProcess, TLC

Counts == {-1, 0, 1}
=============================================================================
