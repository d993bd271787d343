-------------------------- MODULE PatternInstance ---------------------------
(***************************************************************************)
(* One chart figure and its history (domain/chart_pattern.py): what an     *)
(* evaluation must contain, which evaluation may follow which, and the     *)
(* catalogue of the figures.  A figure is the sequence of its evaluations. *)
(* Instants are ticks, anchors and boundary points the indices of candles. *)
(* A value the code may lack is a sequence of at most one.                 *)
(***************************************************************************)
EXTENDS MarketContext, SequencesExt

-----------------------------------------------------------------------------
(* The catalogue *)

Reversals ==
    {"HEAD_AND_SHOULDERS_TOP", "HEAD_AND_SHOULDERS_BOTTOM", "DOUBLE_TOP",
     "DOUBLE_BOTTOM", "TRIPLE_TOP", "TRIPLE_BOTTOM", "ROUNDING_TOP",
     "ROUNDING_BOTTOM"}
Masts == {"BULL_FLAG", "BEAR_FLAG", "BULL_PENNANT", "BEAR_PENNANT"}
Triangles ==
    {"ASCENDING_TRIANGLE", "DESCENDING_TRIANGLE", "SYMMETRICAL_TRIANGLE"}
Wedges == {"RISING_WEDGE", "FALLING_WEDGE"}

PatternType ==
    Reversals \cup Masts \cup Triangles \cup Wedges
      \cup {"RECTANGLE", "BROADENING_FORMATION", "DIAMOND"}

MinAnchorPivots(type) ==
    CASE type \in {"DOUBLE_TOP", "DOUBLE_BOTTOM", "ROUNDING_TOP",
                   "ROUNDING_BOTTOM"} -> 3
      [] type \in Triangles \cup Wedges \cup {"RECTANGLE"} -> 4
      [] type = "DIAMOND" -> 6
      [] OTHER -> 5

TraditionalRoles(type) ==
    {role \in {"REVERSAL", "CONTINUATION", "CONSOLIDATION", "COMPRESSION",
               "EXPANSION"} :
        \/ role = "REVERSAL" /\ type \notin Masts
        \/ /\ role = "CONTINUATION"
           /\ type \in Masts \cup Triangles \cup Wedges \cup {"RECTANGLE"}
        \/ role = "CONSOLIDATION" /\ type = "RECTANGLE"
        \/ /\ role = "COMPRESSION"
           /\ type \in Wedges \cup {"SYMMETRICAL_TRIANGLE", "DIAMOND"}
        \/ role = "EXPANSION" /\ type \in {"BROADENING_FORMATION", "DIAMOND"}}

-----------------------------------------------------------------------------
(* What an evaluation is made of *)

BreakoutStates == {"BREAKOUT_PENDING_CONFIRMATION", "CONFIRMED_UP",
                   "CONFIRMED_DOWN", "FAILED_BREAKOUT"}
ConfirmedStates == {"CONFIRMED_UP", "CONFIRMED_DOWN"}
TerminalStates == {"FAILED_BREAKOUT", "INVALIDATED"}

PatternState ==
    BreakoutStates
      \cup {"FORMING", "GEOMETRICALLY_VALID", "INVALIDATED", "INSUFFICIENT_DATA"}

InvalidationReason ==
    {"GEOMETRY_BROKEN", "ANCHOR_EXCEEDED", "CLOSED_THROUGH_AGAINST_BIAS",
     "TOO_LONG", "SUPERSEDED"}

\* PatternEvaluation.__post_init__: nothing is read that was not known at the
\* instant of the evaluation.
KnownByThen(e) ==
    /\ \A closed \in ToSet(e.asOf) : closed <= e.at
    /\ e.anchors # <<>>
    /\ \A n \in 1 .. (Len(e.anchors) - 1) :
          e.anchors[n].at < e.anchors[n + 1].at
    /\ \A n \in DOMAIN e.anchors : e.anchors[n].confirmed <= e.at
    /\ \A b \in e.boundaries :
          /\ \A p \in ToSet(b.points) : OpenTime(p.at) <= e.at
          /\ b.contacts \subseteq {a.at : a \in ToSet(e.anchors)}
    /\ \A b \in ToSet(e.breakout) : CloseTime(b.candle) <= e.at

\* _check_content: reasons and breakout go with the state.
CoherentContent(e) ==
    /\ (e.reasons # {}) <=> (e.state = "INVALIDATED")
    /\ (e.missing # {}) <=> (e.state = "INSUFFICIENT_DATA")
    /\ e.state \in {"FORMING", "GEOMETRICALLY_VALID", "INSUFFICIENT_DATA"} =>
          e.breakout = <<>>
    /\ e.state \in BreakoutStates => e.breakout # <<>>
    /\ \A b \in ToSet(e.breakout) :
          /\ e.state = "BREAKOUT_PENDING_CONFIRMATION" => ~b.confirmed
          /\ e.state = "CONFIRMED_UP" => b.confirmed /\ b.direction = "UP"
          /\ e.state = "CONFIRMED_DOWN" => b.confirmed /\ b.direction = "DOWN"
    /\ e.state \notin {"FORMING", "INVALIDATED", "INSUFFICIENT_DATA"} =>
          /\ e.boundaries # {}
          /\ \A b \in ToSet(e.breakout) : b.boundary \in {x.role : x \in e.boundaries}

ValidEvaluation(e) == KnownByThen(e) /\ CoherentContent(e)

-----------------------------------------------------------------------------
(* How a figure may evolve *)

\* Mistake: a figure that is still forming is not broken, it waits.
NextStatesOfSeen(state) ==
    LET resolved == {"CONFIRMED_UP", "CONFIRMED_DOWN", "FAILED_BREAKOUT"}
    IN  CASE state = "FORMING" ->
                resolved \cup {"GEOMETRICALLY_VALID", "BREAKOUT_PENDING_CONFIRMATION"}
          [] state = "GEOMETRICALLY_VALID" ->
                resolved \cup {"BREAKOUT_PENDING_CONFIRMATION", "INVALIDATED"}
          [] state = "BREAKOUT_PENDING_CONFIRMATION" -> resolved \cup {"INVALIDATED"}
          [] state \in ConfirmedStates -> TerminalStates
          [] OTHER -> {}

\* Mistake: a breakout that was confirmed cannot fail any more.
NextStatesOfHeld(state) ==
    LET ends == {"CONFIRMED_UP", "CONFIRMED_DOWN", "FAILED_BREAKOUT", "INVALIDATED"}
    IN  CASE state = "FORMING" ->
                ends \cup {"GEOMETRICALLY_VALID", "BREAKOUT_PENDING_CONFIRMATION"}
          [] state = "GEOMETRICALLY_VALID" ->
                ends \cup {"BREAKOUT_PENDING_CONFIRMATION"}
          [] state = "BREAKOUT_PENDING_CONFIRMATION" -> ends
          [] state \in ConfirmedStates -> {"INVALIDATED"}
          [] OTHER -> {}

\* _NEXT: forward only, several milestones at once if need be.
NextStates(state) ==
    LET resolved == {"CONFIRMED_UP", "CONFIRMED_DOWN", "FAILED_BREAKOUT"}
        ends == resolved \cup {"INVALIDATED"}
    IN  CASE state = "FORMING" ->
                ends \cup {"GEOMETRICALLY_VALID", "BREAKOUT_PENDING_CONFIRMATION"}
          [] state = "GEOMETRICALLY_VALID" ->
                ends \cup {"BREAKOUT_PENDING_CONFIRMATION"}
          [] state = "BREAKOUT_PENDING_CONFIRMATION" -> ends
          [] state \in ConfirmedStates -> TerminalStates
          [] OTHER -> {}

\* _effective_state: INSUFFICIENT_DATA is a pause, the state before it goes on.
EffectiveState(evaluations) ==
    LET told == {n \in DOMAIN evaluations :
                    evaluations[n].state # "INSUFFICIENT_DATA"}
    IN  IF told = {} THEN "FORMING" ELSE evaluations[Max(told)].state

IsTerminal(evaluations) == Last(evaluations).state \in TerminalStates

\* _check_step
MayFollow(evaluations, e) ==
    LET previous == Last(evaluations)
        effective == EffectiveState(evaluations)
    IN  /\ previous.state \notin TerminalStates
        /\ e.at > previous.at
        /\ \A then \in ToSet(previous.asOf) :
              e.asOf # <<>> /\ Head(e.asOf) >= then
        /\ e.count >= previous.count
        /\ IsPrefix(previous.anchors, e.anchors)
        /\ \/ e.state \in {"INSUFFICIENT_DATA", effective}
           \/ e.state \in NextStates(effective)

\* PatternInstance.__post_init__: the anchors its geometry needs.
EnoughAnchors(type, e) ==
    e.state \in BreakoutStates \cup {"GEOMETRICALLY_VALID"} =>
       Len(e.anchors) >= MinAnchorPivots(type)

\* derive_pattern_instance_id: the detectors of a run have one version each and
\* watch one series, so the type and the first anchor are what tells figures
\* apart.
InstanceId(type, e) ==
    [type |-> type, start |-> Head(e.anchors).at, kind |-> Head(e.anchors).kind]

\* PatternInstance.advance: the error the code raises is a FALSE guard.
CanAdvance(id, evaluations, e) ==
    MayFollow(evaluations, e) /\ EnoughAnchors(id.type, e)

=============================================================================
