------------------------------ MODULE MCBrowser ------------------------------
(* Small instances of the application with its browsers, for TLC.           *)
EXTENDS Browser, MCApi
=============================================================================
