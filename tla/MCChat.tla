------------------------------- MODULE MCChat -------------------------------
(* ChatSystem, alone and with ChatAdmin, on small instances.                 *)
EXTENDS ChatAdmin, TLC

CONSTANTS c1, c2

\* Every client has an id of its own.
UniqueId == [c \in Clients |-> c]

\* No frame; one frame from each peer; one from c1 alone; two from c1 alone.
NoFrames  == [c \in Clients |-> 0]
OneFrame  == [c \in Clients |-> 1]
OneFromC1 == [c \in Clients |-> IF c = c1 THEN 1 ELSE 0]
TwoFromC1 == [c \in Clients |-> IF c = c1 THEN 2 ELSE 0]

AnyClient == Permutations(Clients)
=============================================================================
