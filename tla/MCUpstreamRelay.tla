-------------------------- MODULE MCUpstreamRelay --------------------------
(* One client that may be relayed, and one that never sends a whole packet *)
(* and may be in front of it or behind it.                                 *)
EXTENDS UpstreamRelay
CONSTANTS talker, dribbler
Pieces == [c \in Clients |->
            IF c = talker THEN [e \in Ends |-> IF e = "client" THEN 3 ELSE 1]
                          ELSE [e \in Ends |-> IF e = "client" THEN 1 ELSE 0]]
=============================================================================
