--------------------------- MODULE MCPhotonQueue ---------------------------
(***************************************************************************)
(* Small instances of PhotonQueue for TLC: a client that answers at once   *)
(* and one that is slow and sends keep-alive requests of its own.          *)
(***************************************************************************)
EXTENDS PhotonQueue

PromptClient == [within |-> 1, pings |-> FALSE]
SlowClient == [within |-> 2, pings |-> FALSE]
PingingClient == [within |-> 2, pings |-> TRUE]

PromptOrPinging == {PromptClient, PingingClient}
OnlySlow == {SlowClient}
=============================================================================
