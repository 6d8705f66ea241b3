----------------------------- MODULE MCGenerator -----------------------------
(* Two catalogs of a Brazilian and an Argentinian merchant, with one provider and
   with two, and with one or two issuers in a country; incidents on the provider
   with half a millisecond of latency, on PIX, on PIX outside Brazil (refused) and
   one that ends. *)
EXTENDS Generator

MCMerchants == [brStore |-> [country |-> "BR", weight |-> 2],
                arStore |-> [country |-> "AR", weight |-> 1]]

MCRoutes(providers) ==
  {[provider |-> p, country |-> c, method |-> m] :
     p \in providers, <<c, m>> \in {<<"BR", "CARD">>, <<"BR", "PIX">>, <<"AR", "CARD">>}}

MCCatalogs ==
  {[merchants |-> MCMerchants, routes |-> MCRoutes({"stripe"}),
    issuers |-> [itau |-> "BR", nubank |-> "BR", galicia |-> "AR"]],
   [merchants |-> MCMerchants, routes |-> MCRoutes({"stripe", "adyen"}),
    issuers |-> [itau |-> "BR", galicia |-> "AR", macro |-> "AR"]]}

MCIncident(id, dimensions, latency, endsAt) ==
  [id |-> id, dimensions |-> dimensions, latencyMsIncrease |-> latency,
   startsAt |-> 0, endsAt |-> endsAt]

MCInjectable ==
  {MCIncident("slow", [providerId |-> "stripe"], 1, 9),
   MCIncident("pix", [paymentMethod |-> "PIX"], 1, 2),
   MCIncident("nowhere", [paymentMethod |-> "PIX", country |-> "AR"], 0, 9)}
==============================================================================
