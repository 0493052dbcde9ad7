--------------------------- MODULE ReviewLifecycle --------------------------
(***************************************************************************)
(* What the marketplace promises about the review of a submission, with    *)
(* nothing said of money, votes or cycles: every submission is at one      *)
(* stage, and between two committed states it either keeps its stage or    *)
(* moves along one arrow.                                                  *)
(*                                                                         *)
(*   NONE -> SUBMITTED -> CONFIRMED                                        *)
(*           SUBMITTED -> REJECTED -> CONFIRMED                            *)
(*                        REJECTED -> DISPUTED <-> OVERTURNED              *)
(*                                                                         *)
(* While a submission is disputed only the dispute decides about it, and   *)
(* once it is confirmed without a dispute it stays so.                     *)
(***************************************************************************)
CONSTANT Subs

VARIABLE stage

Stages == {"NONE", "SUBMITTED", "REJECTED", "DISPUTED", "OVERTURNED", "CONFIRMED"}

Arrows == {<<"NONE", "SUBMITTED">>,
           <<"SUBMITTED", "REJECTED">>,
           <<"SUBMITTED", "CONFIRMED">>,
           <<"REJECTED", "CONFIRMED">>,
           <<"REJECTED", "DISPUTED">>,
           <<"DISPUTED", "OVERTURNED">>,
           <<"OVERTURNED", "DISPUTED">>}

Init == stage = [s \in Subs |-> "NONE"]

\* Closing a cycle moves several submissions at once.
Next ==
  /\ stage' \in [Subs -> Stages]
  /\ \A s \in Subs : stage'[s] = stage[s] \/ <<stage[s], stage'[s]>> \in Arrows

Spec == Init /\ [][Next]_stage
=============================================================================
