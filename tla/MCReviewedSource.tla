-------------------------- MODULE MCReviewedSource --------------------------
(***************************************************************************)
(* An instance of ReviewedSource for TLC.                                  *)
(***************************************************************************)
EXTENDS ReviewedSource, TLC

CONSTANTS h1, h2

Attempts == 1..3
=============================================================================
