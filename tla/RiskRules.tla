----------------------------- MODULE RiskRules -----------------------------
(***************************************************************************)
(* What counts as a worse risk: an issuer's state is remembered when a     *)
(* bond is first held or when its owner acknowledges a worsening, and a    *)
(* later state is compared with that baseline.                             *)
(*                                                                         *)
(* A risk is [default, technical, rating]; rating is the ordinal of the    *)
(* national scale, None when there is none.  Baselines map every bond to a *)
(* risk or None.                                                           *)
(***************************************************************************)
EXTENDS Integers, Sequences

CONSTANTS
  InvestmentGradeMin,    \* ruBBB-
  DistressMax,           \* ruCCC
  MajorDowngradeSteps,
  None

RiskOf(b) == [default |-> b.default, technical |-> b.technical, rating |-> b.rating]

\* At most one kind, the gravest that applies.
RatingEscalation(baseline, current) ==
  IF baseline.rating = None \/ current.rating = None THEN <<>>
  ELSE IF current.rating >= baseline.rating THEN <<>>
  ELSE IF current.rating <= DistressMax THEN <<"distress_rating">>
  ELSE IF baseline.rating >= InvestmentGradeMin /\ current.rating < InvestmentGradeMin
    THEN <<"ig_exit">>
  ELSE IF baseline.rating - current.rating >= MajorDowngradeSteps THEN <<"major_downgrade">>
  ELSE <<>>

DetectRiskEscalations(baseline, current) ==
  (IF ~baseline.default /\ current.default THEN <<"default">> ELSE <<>>)
    \o (IF ~baseline.technical /\ current.technical THEN <<"technical_default">> ELSE <<>>)
    \o RatingEscalation(baseline, current)

\* A plausible slip: the baseline follows the market.
FollowRiskBaselines(baselines, holding, seen) ==
  [b \in DOMAIN baselines |->
     IF b \notin holding THEN None
     ELSE IF b \in DOMAIN seen THEN seen[b] ELSE baselines[b]]

\* SyncRiskBaselines: forget what is not held, remember what is held for the
\* first time.  seen maps the held bonds the universe knows to their risk.
SyncRiskBaselines(baselines, holding, seen) ==
  [b \in DOMAIN baselines |->
     IF b \notin holding THEN None
     ELSE IF baselines[b] # None \/ b \notin DOMAIN seen THEN baselines[b]
     ELSE seen[b]]
=============================================================================
