--------------------------- MODULE MCFunnelIntake ---------------------------
(***************************************************************************)
(* One visitor who submits twice: after a network error the second handler *)
(* may run while the first still does, so two submissions of one form      *)
(* interleave as those of two visitors would.                              *)
(***************************************************************************)
EXTENDS FunnelIntake

CONSTANT v1
=============================================================================
