--------------------------- MODULE MCPeerSession ---------------------------
(* Small values for PeerSession: a modern Knots node or an old Core node,   *)
(* one message of each kind, one that does not parse, one over the limit.   *)
EXTENDS PeerSession

Msg(kind, size, valid) ==
  [kind |-> kind, size |-> size, valid |-> valid,
   modern |-> FALSE, words |-> {}, libre |-> FALSE]

Knots == [Msg("version", 1, TRUE) EXCEPT !.modern = TRUE, !.libre = TRUE,
                                         !.words = {"satoshi", "knots"}]
Core == [Msg("version", 1, TRUE) EXCEPT !.words = {"satoshi"}]
Big == Msg("other", MaxSize + 1, TRUE)

MCMessage ==
  {Knots, Core, Msg("verack", 0, TRUE), Msg("ping", 1, TRUE), Msg("feature", 0, TRUE),
   Msg("addr", 1, TRUE), Msg("other", 0, FALSE), Big}
MCMisread == [m \in MCMessage |-> IF m = Big THEN 0 ELSE MaxSize + 1]
=============================================================================
