------------------------------ MODULE MCHistory ------------------------------
(* The instances of MCApi, with the history variables.                      *)
EXTENDS ApiHistory, MCApi
=============================================================================
