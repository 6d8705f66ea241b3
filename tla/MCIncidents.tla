----------------------------- MODULE MCIncidents -----------------------------
(* One merchant and country: a provider, one of its payment methods, and the *)
(* root itself.                                                              *)
EXTENDS Incidents, TLC

MCRoot   == [merchantId |-> "store", country |-> "BR"]
MCStripe == MCRoot @@ [providerId |-> "stripe"]
MCCard   == MCRoot @@ [paymentMethod |-> "CARD"]

MCRootDims == {"merchantId", "country"}
MCCodes    == {"51"}

Of(cell) == [cell |-> cell, code |-> "51"]

\* A quiet window, a fault seen narrowly or widely, two faults at once.
MCCells     == {MCRoot, MCStripe, MCCard}
MCDiagnoses == {<<>>, <<Of(MCRoot)>>, <<Of(MCStripe)>>, <<Of(MCCard), Of(MCStripe)>>}
MCGapSets   == {{}, {MCStripe}}
==============================================================================
