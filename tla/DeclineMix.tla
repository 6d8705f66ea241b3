------------------------------ MODULE DeclineMix -------------------------------
(***************************************************************************)
(* Which decline code a failing cell's failures carry, and what the spread *)
(* of an outage code says about who is at fault (diagnose/decline-mix.ts,  *)
(* explain and causalDimension of diagnose/run.ts).                        *)
(*                                                                         *)
(* Decline rows hold the cell, a bucket, a code and a count.  Codes are    *)
(* numbers in the order of their names.                                    *)
(***************************************************************************)
EXTENDS CauseSearch, Sequences

CONSTANTS Catalog,              \* code -> [share, diagnostic, outage]
          MinDeclines,          \* MIN_DECLINES
          TemporalMinDeclines,  \* TEMPORAL_MIN_DECLINES
          DeclineWindows,       \* DECLINE_WINDOWS_MIN, narrowest first
          DeclineLookback       \* DECLINE_CURRENT_LOOKBACK_MIN

ASSUME DeclineMixAssumption ==
  /\ MinDeclines \in Nat /\ TemporalMinDeclines \in Nat \ {0}
  /\ DeclineLookback \in Nat /\ Len(DeclineWindows) > 0

NoCode == 0

Total(rows)          == MapThenSumSet(LAMBDA row : row.count, rows)
WithCode(rows, code) == {row \in rows : row.code = code}

InWindow(declines, cell, now, minutes) ==
  {row \in Under(declines, cell) : row.bucket \in now - (minutes - 1) .. now}

\* The narrowest window with enough declines, or the widest.
WindowUsed(declines, cell, now) ==
  LET enough == {i \in DOMAIN DeclineWindows :
                   Total(InWindow(declines, cell, now, DeclineWindows[i])) >= MinDeclines}
  IN DeclineWindows[IF enough = {} THEN Len(DeclineWindows) ELSE Min(enough)]

\* The share a code is compared with: the catalog's, or once there is enough of
\* it, that of the cell's own past.
ReferenceShare(history, cell, code) ==
  LET past == Under(history, cell) IN
    IF Total(past) < TemporalMinDeclines THEN Catalog[code].share
    ELSE <<Total(WithCode(past, code)), Total(past)>>

\* The code the declines carry most of leads, the first by name of two.
Leads(counts, shares, total, a, b) ==
  counts[a] > counts[b] \/ (counts[a] = counts[b] /\ a < b)

\* declineMixShift: the window read, and the code it names, if the sample supports
\* its rise.
DeclineMixShift(declines, history, cell, now) ==
  LET used   == WindowUsed(declines, cell, now)
      rows   == InWindow(declines, cell, now, used)
      codes  == {row.code : row \in rows} \cap DOMAIN Catalog
      counts == [code \in codes |-> Total(WithCode(rows, code))]
      shares == [code \in codes |-> ReferenceShare(history, cell, code)]
      leading == {a \in codes : /\ Catalog[a].diagnostic
                                /\ \A b \in codes \ {a} : Catalog[b].diagnostic
                                     => Leads(counts, shares, Total(rows), a, b)}
      supported == {a \in leading : Beyond(counts[a], Total(rows), shares[a], 1)}
  IN [total |-> Total(rows), windowUsed |-> used, counts |-> counts,
      dominant |-> IF supported = {} THEN NoCode ELSE CHOOSE a \in supported : TRUE]

\* disambiguateOutage, of the rows of the whole root.
DisambiguateOutage(rows, code) ==
  LET spread    == {row \in WithCode(rows, code) : row.count > 0}
      providers == {row.providerId : row \in spread}
      issuers   == {row.issuerId : row \in spread} \ {NA}
  IN CASE spread = {} -> "INCONCLUSIVE"
       [] spread # {} /\ \A row \in spread : row.paymentMethod = PIX ->
            IF Cardinality(providers) >= 2 THEN "RAIL" ELSE "INCONCLUSIVE"
       [] OTHER ->
            IF Cardinality(providers) = 1 /\ Cardinality(issuers) >= 2 THEN "PROVIDER"
            ELSE IF Cardinality(issuers) = 1 /\ Cardinality(providers) >= 2 THEN "ISSUER"
            ELSE "INCONCLUSIVE"

Current(declines, now)   == {row \in declines : row.bucket > now - DeclineLookback}
Reference(declines, now) == declines \ Current(declines, now)

\* The spread of an outage code is read under the root, not in the cell.
Explain(declines, cell, now) ==
  LET mix == DeclineMixShift(Current(declines, now), Reference(declines, now), cell, now)
      outage == mix.dominant # NoCode /\ Catalog[mix.dominant].outage
  IN [declineMix |-> mix,
      attribution |-> IF ~outage THEN "none"
                      ELSE DisambiguateOutage(
                             InWindow(Current(declines, now), Root, now, mix.windowUsed),
                             mix.dominant)]

CausalDimension(cell, attribution) ==
  CASE attribution = "PROVIDER" -> "provider"
    [] attribution = "ISSUER"   -> "issuer"
    [] OTHER -> IF "issuerId" \in DOMAIN cell THEN "issuer"
                ELSE IF "providerId" \in DOMAIN cell THEN "provider"
                ELSE IF "paymentMethod" \in DOMAIN cell THEN "method" ELSE "merchant"
==============================================================================
