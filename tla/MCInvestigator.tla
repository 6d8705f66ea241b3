---------------------------- MODULE MCInvestigator ----------------------------
(* Two tools, one of them required, and two cells: a provider's and an issuer's. *)
EXTENDS AgentPass

MCCells       == {"provider down", "issuer down"}
MCRateOf      == [c \in MCCells |-> IF c = "provider down" THEN 2 ELSE 7]
MCDimensionOf == [c \in MCCells |-> IF c = "provider down" THEN "provider" ELSE "issuer"]
==============================================================================
