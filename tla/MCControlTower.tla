--------------------------- MODULE MCControlTower ----------------------------
(* One slice, a provider's: its fault is diagnosed there or at one payment   *)
(* method of it.                                                             *)
EXTENDS ControlTower, TLC

MCRoot       == [merchantId |-> "store", country |-> "BR"]
MCStripe     == MCRoot @@ [providerId |-> "stripe"]
MCStripeCard == MCStripe @@ [paymentMethod |-> "CARD"]

MCCells     == {MCStripe, MCStripeCard}
MCSlices    == {MCStripe}
MCRootDims  == {"merchantId", "country"}
MCDiagnoses == {<<>>, <<[cell |-> MCStripe, code |-> "51"]>>,
                <<[cell |-> MCStripeCard, code |-> "51"]>>}

\* Nothing the tower does or promises depends on the rest of the detector's two
\* histories: the log has what they would tell.
MCView == <<clock, lastProcessedBucket, persistence, running, ticks, processed = <<>>,
            board, tail, log>>

MCSymmetry == Permutations(IncidentIds)
==============================================================================
