--------------------------- MODULE MCProxyTunnel ---------------------------
(* One client through the proxy, with more operations and replies than the *)
(* handshake has messages to be overtaken by.                              *)
EXTENDS ProxyTunnel
Twice == [c \in Clients |-> 2]
=============================================================================
