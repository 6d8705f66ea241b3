----------------------------- MODULE MCDiagnosis ------------------------------
(* Two or three providers, card with two issuers, PIX with none. *)
EXTENDS Diagnosis, TLC

Keys(providers) ==
  (providers \X {CARD} \X {1, 2}) \cup (providers \X {PIX} \X {NA})

Row(bucket, key, attempts, approved) ==
  [bucket |-> bucket, providerId |-> key[1], paymentMethod |-> key[2], issuerId |-> key[3],
   attempts |-> attempts, approved |-> approved]

\* Every key of the window is healthy or down.
Window3(providers, down) ==
  {Row(3, key, 8, IF key \in down THEN 2 ELSE 7) : key \in Keys(providers)}

Faults   == {Window3(1 .. 2, down) : down \in SUBSET Keys(1 .. 2)}
Wide     == {Window3(1 .. 3, down) :
               down \in UNION {kSubset(n, Keys(1 .. 3)) : n \in 1 .. 2}}

\* One provider's card traffic with one issuer fails in a window it may be thin
\* in; in the minutes before it was quiet, thin, healthy or failing.
Failing == <<1, CARD, 1>>
Minute(bucket, kind) ==
  {Row(bucket, <<2, CARD, 1>>, 8, 7)}
    \cup CASE kind = "quiet"   -> {}
           [] kind = "thin"    -> {Row(bucket, Failing, 6, 0)}
           [] kind = "failing" -> {Row(bucket, Failing, 8, 1)}
           [] kind = "healthy" -> {Row(bucket, Failing, 8, 8)}
Kinds == {"quiet", "thin", "healthy", "failing"}
Histories ==
  {Minute(1, first) \cup Minute(2, second) \cup Minute(3, now)
   : first \in Kinds, second \in Kinds, now \in {"thin", "failing"}}

\* A severe fault of one provider, a milder one somewhere in a second, and a third
\* whose volume dilutes them.
Volume(key, mild) ==
  CASE key[1] = 1 -> <<20, 2>>
    [] key[1] = 2 -> IF key \in mild THEN <<20, 2>> ELSE <<20, 19>>
    [] OTHER      -> <<40, 38>>
Diluted(mild) == {Row(3, key, Volume(key, mild)[1], Volume(key, mild)[2]) : key \in Keys(1 .. 3)}
Masked        == {Diluted(mild) : mild \in SUBSET Keys({2}) \ {Keys({2})}}

\* One provider is down, and its declines carry three codes in three windows.
Declined(bucket, key, code, count) ==
  [bucket |-> bucket, providerId |-> key[1], paymentMethod |-> key[2], issuerId |-> key[3],
   code |-> code, count |-> count]
Declines ==
  {{Declined(3, <<1, CARD, 1>>, 1, a), Declined(3, <<1, CARD, 2>>, 2, b),
    Declined(3, <<p, CARD, 1>>, 2, c), Declined(2, <<1, CARD, 1>>, 3, d),
    Declined(0, <<1, CARD, 1>>, 2, e)}
   : a \in {1, 3, 5}, b \in {0, 2, 5}, p \in {1, 2}, c \in {0, 1}, d \in {0, 3}, e \in {0, 6}}
Declining == {[rollups |-> Window3(1 .. 2, {k \in Keys(1 .. 2) : k[1] = 1}), declines |-> rows]
              : rows \in Declines}

\* A common code, an outage code and one that tells nothing.
MCCatalog == 1 :> [share |-> <<3, 10>>, diagnostic |-> TRUE, outage |-> FALSE]
          @@ 2 :> [share |-> <<1, 50>>, diagnostic |-> TRUE, outage |-> TRUE]
          @@ 3 :> [share |-> <<2, 5>>, diagnostic |-> FALSE, outage |-> FALSE]
MCWindows == <<1, 2>>

MCCoverage == {[providerId |-> p, paymentMethod |-> m] : p \in 1 .. 3, m \in {CARD, PIX}}
MCInputs   == Declining \cup {[rollups |-> rows, declines |-> {}]
                              : rows \in Faults \cup Wide \cup Histories \cup Masked}
\* A provider is down, and card traffic of the other.
TwoFaults  == {[rollups |-> Window3(1 .. 2, Keys({1}) \cup cards), declines |-> {}]
               : cards \in SUBSET {<<2, CARD, 1>>, <<2, CARD, 2>>}}
MCExpected == <<9, 10>>
==============================================================================
