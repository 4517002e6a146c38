------------------------------- MODULE MCPool -------------------------------
(* A small instance of the application with its pool, for TLC.              *)
EXTENDS Pool, TLC

CONSTANTS admin, e1   \* the one seed account and its address

MCSeedEmail == admin :> e1
=============================================================================
