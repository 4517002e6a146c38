-------------------------------- MODULE MCApi --------------------------------
(* Small instances of the application for TLC.                             *)
EXTENDS ApiInvariant, ApiRefinement, TLC

CONSTANTS admin, user,   \* seed accounts, named after their requests
          e1, e2, e3     \* addresses; nobody has registered e3

MCSeedEmail == (admin :> e1) @@ (user :> e2)

\* Requests that have not begun are interchangeable.
Symmetry == Permutations(Req \ Seed)
=============================================================================
