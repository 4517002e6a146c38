------------------------------ MODULE MCListing ------------------------------
(* Small instances of the listing for TLC.                                  *)
EXTENDS Listing

MCEmailOf == <<<<"a">>, <<"b">>, <<"b">>, <<"a">>>>
MCName == {<<"a", "b">>, <<"a", "_">>}

\* Three accounts, the later ones newer; number 4 is yet to come.
MCRow(id, name, role, active) ==
  [id |-> id, email |-> MCEmailOf[id], name |-> name, role |-> role,
   active |-> active, created |-> id]
MCEarly ==
  {MCRow(1, <<"a", "b">>, "ADMIN", TRUE), MCRow(2, <<"a", "_">>, "USER", TRUE),
   MCRow(3, <<"a", "b">>, "ADMIN", FALSE)}

NoFilter ==
  [email |-> <<>>, name |-> <<>>, role |-> Null, active |-> Null, from |-> Null,
   to |-> Null]
MCFilters ==
  {NoFilter,
   [NoFilter EXCEPT !.name = <<"b">>],
   [NoFilter EXCEPT !.name = <<"_">>],
   [NoFilter EXCEPT !.name = <<"\\", "_">>],
   [NoFilter EXCEPT !.email = <<"b">>, !.name = <<"a", "b">>],
   [NoFilter EXCEPT !.role = "ADMIN", !.from = 2],
   [NoFilter EXCEPT !.active = TRUE, !.to = 2]}

-----------------------------------------------------------------------------
\* ILIKE as it is usually written down: character by character, from the left.
MatchesFrom[text \in Text, pattern \in Text] ==
  CASE pattern = <<>> -> text = <<>>
    [] pattern # <<>> /\ Head(pattern) = "%" ->
         \E n \in 0 .. Len(text) :
           MatchesFrom[SubSeq(text, n + 1, Len(text)), Tail(pattern)]
    [] Len(pattern) > 1 /\ Head(pattern) = "\\" ->
         /\ text # <<>> /\ Head(text) = pattern[2]
         /\ MatchesFrom[Tail(text), Tail(Tail(pattern))]
    [] Len(pattern) = 1 /\ Head(pattern) = "\\" -> FALSE
    [] OTHER ->
         /\ text # <<>> /\ Head(pattern) \in {"_", Head(text)}
         /\ MatchesFrom[Tail(text), Tail(pattern)]

Short(n) == UNION {[1 .. k -> {"a", "%", "_", "\\"}] : k \in 0 .. n}

\* Listing!Like, which says it in one formula, is the same relation.
ASSUME LikeIsILike ==
  \A text \in Short(3), pattern \in Short(4) :
    Like(text, pattern) = MatchesFrom[text, pattern]
=============================================================================
