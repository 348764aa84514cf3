--------------------------- MODULE MCTrivyScanner ---------------------------
(* An instance of TrivyScanner for TLC. *)
EXTENDS TrivyScanner

CONSTANTS hub, github, public, generic

MCType == [j \in Jobs |-> CASE j = hub -> "dockerhub" [] j = github -> "ghcr"
                            [] OTHER -> "generic"]
=============================================================================
