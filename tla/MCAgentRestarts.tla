--------------------------- MODULE MCAgentRestarts ---------------------------
(* Five deliveries: of the boot already known, of two later ones (one of    *)
(* them twice) and of an agent that does not know its start time.           *)
EXTENDS AgentRestarts, TLC

CONSTANTS h1, h2, h3, h4, h5, b0, b1, b2

MixedStarts == h1 :> b0 @@ h2 :> b1 @@ h3 :> b1 @@ h4 :> b2 @@ h5 :> None
=============================================================================
