------------------------- MODULE PatternHypothesis --------------------------
(***************************************************************************)
(* The directional claim a figure gives rise to and how the other figures  *)
(* of the series stand to it (domain/pattern_hypothesis.py).  A hypothesis *)
(* is the sequence of its evaluations, worked out from the figures held;   *)
(* the empty one is none.  target_scope has one value only and is left     *)
(* out.                                                                    *)
(***************************************************************************)
EXTENDS PatternDiamond

TriggerStates == {"BREAKOUT_PENDING_CONFIRMATION", "CONFIRMED_UP", "CONFIRMED_DOWN"}
ClosingStates == {"FAILED_BREAKOUT", "INVALIDATED"}

\* evidence_provenance: the detector's word counts only if it proved when the
\* figure was known.
EvidenceProvenance(e) ==
    IF e.timing.known = <<>> \/ e.timing.provenance = <<>> THEN "UNPROVEN"
    ELSE e.timing.provenance[1]

\* Mistake: a figure that formed before its breakout is as good as a live one.
OperabilityOfFormed(provenance) ==
    CASE provenance \in {"LIVE", "AFTER_MARKET_FORMATION"} -> "OPERABLE"
      [] provenance = "RETROSPECTIVE" -> "RETROSPECTIVE"
      [] OTHER -> "UNPROVEN"

OperabilityOf(provenance) ==
    CASE provenance = "LIVE" -> "OPERABLE"
      [] provenance \in {"AFTER_MARKET_FORMATION", "RETROSPECTIVE"} -> "RETROSPECTIVE"
      [] OTHER -> "UNPROVEN"

\* _kind_and_compatibility: from the roles, the trend before and the way the
\* price really went.
Follows(prior, direction) ==
    prior = (IF direction = "UP" THEN "UPTREND" ELSE "DOWNTREND")
Reverses(prior, direction) ==
    prior = (IF direction = "UP" THEN "DOWNTREND" ELSE "UPTREND")

Kind(roles, prior, direction) ==
    CASE "EXPANSION" \in roles -> "VOLATILITY_EXPANSION"
      [] "EXPANSION" \notin roles /\ "REVERSAL" \in roles
           /\ Reverses(prior, direction) -> "REVERSAL"
      [] "EXPANSION" \notin roles /\ "CONTINUATION" \in roles
           /\ Follows(prior, direction) -> "CONTINUATION"
      [] OTHER -> "BREAKOUT"

Compatible(roles, prior, direction) ==
    \/ "REVERSAL" \in roles /\ Reverses(prior, direction)
    \/ "CONTINUATION" \in roles /\ Follows(prior, direction)

\* _directional_read: which way another figure points, if any.
DirectionalRead(e) ==
    IF e.state \in TriggerStates THEN <<e.breakout[1].direction>> ELSE <<>>

\* _as_of: what was known of a figure at an instant.
KnownAt(evaluations, t) ==
    LET known == {n \in DOMAIN evaluations : evaluations[n].at <= t}
    IN  IF known = {} THEN <<>> ELSE <<evaluations[Max(known)]>>

\* _related_patterns: the other figures that point some way and that no overlap
\* held back.
RelatedPatterns(id, figures, t) ==
    UNION {{[id |-> other, direction |-> DirectionalRead(e)[1],
             provenance |-> EvidenceProvenance(e)] :
               e \in {x \in ToSet(KnownAt(figures[other], t)) :
                         x.timing.published = <<>> /\ DirectionalRead(x) # <<>>}} :
             other \in DOMAIN figures \ {id}}

Source(e, provenance) ==
    [state |-> e.state,
     breakout |-> [n \in DOMAIN e.breakout |->
                      [direction |-> e.breakout[n].direction,
                       confirmed |-> e.breakout[n].confirmed,
                       candle |-> e.breakout[n].candle]],
     provenance |-> provenance]

Reading(id, e) ==
    LET direction == e.breakout[1].direction
        roles == TraditionalRoles(id.type)
    IN  [at |-> e.at, asOf |-> e.asOf,
         kind |-> Kind(roles, e.prior, direction),
         compatible |-> Compatible(roles, e.prior, direction),
         direction |-> direction, supporting |-> {}, conflicting |-> {},
         operability |-> OperabilityOf(EvidenceProvenance(e)),
         source |-> Source(e, <<EvidenceProvenance(e)>>)]

\* Mistake: a figure that ends takes its operability from nothing.
ClaimForgetting(id, e, figures, previous) ==
    IF e.state \in TriggerStates THEN Reading(id, e)
    ELSE [previous EXCEPT !.at = e.at, !.asOf = e.asOf, !.direction = "UNKNOWN",
                          !.operability = "UNPROVEN", !.source = Source(e, <<>>)]

\* _build: a breakout is read afresh; a figure that ends closes the claim, with
\* its breakout's own provenance or with what was last known.
Claim(id, e, figures, previous) ==
    LET related == RelatedPatterns(id, figures, e.at)
        pointing == e.breakout[1].direction
    IN  CASE e.state \in TriggerStates ->
                [Reading(id, e) EXCEPT
                    !.supporting = {r \in related : r.direction = pointing},
                    !.conflicting = {r \in related : r.direction # pointing}]
          [] e.state \in ClosingStates /\ e.breakout # <<>> ->
                [Reading(id, e) EXCEPT
                    !.direction = "UNKNOWN",
                    !.supporting = previous.supporting,
                    !.conflicting = previous.conflicting]
          [] OTHER ->
                [previous EXCEPT !.at = e.at, !.asOf = e.asOf,
                                 !.direction = "UNKNOWN", !.source = Source(e, <<>>)]

\* _same_content: all but the instants.
SameClaim(before, after) ==
    [before EXCEPT !.at = after.at, !.asOf = after.asOf] = after

\* One round of hypothesis_for: a reading of the figure, unless the claim is
\* closed.  A pause is no reading.
TakeReading(claims, id, e, figures) ==
    LET closedAlready == claims # <<>> /\ Last(claims).direction = "UNKNOWN"
        claim == Claim(id, e, figures, IF claims = <<>> THEN <<>> ELSE Last(claims))
    IN  IF \/ closedAlready
           \/ e.state \notin TriggerStates \cup ClosingStates
           \/ claims # <<>> /\ SameClaim(Last(claims), claim)
        THEN claims
        ELSE Append(claims, claim)

\* hypothesis_for: every reading of the figure from its first breakout on.
HypothesisFor(id, figures) ==
    LET evaluations == figures[id]
        first == Earliest({n \in DOMAIN evaluations :
                              evaluations[n].state \in TriggerStates})
        claims[n \in 0 .. Len(evaluations)] ==
            IF n < first \/ n = 0 THEN <<>>
            ELSE TakeReading(claims[n - 1], id, evaluations[n], figures)
    IN  IF first = 0 THEN <<>> ELSE claims[Len(evaluations)]

=============================================================================
