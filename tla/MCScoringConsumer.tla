-------------------------- MODULE MCScoringConsumer --------------------------
(***************************************************************************)
(* ScoringConsumer with one allowed and one flagged score, or with a       *)
(* flagged score alone.                                                    *)
(***************************************************************************)
EXTENDS ScoringConsumer

TwoScores == {40, 50}
OneScore  == {90}
=============================================================================
