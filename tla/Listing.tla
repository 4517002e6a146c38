------------------------------- MODULE Listing -------------------------------
(***************************************************************************)
(* GET /api/v1/users: an administrator walks through the pages of a        *)
(* filtered list while accounts are created and changed                    *)
(* (user_service.py:38-43, user_repository.py:31-62, core/utils/           *)
(* paginated.py, dependencies/pagination.py, dependencies/user_filters.py).*)
(*                                                                         *)
(* The items of a page and the total come from two statements at READ      *)
(* COMMITTED, which see two states of the table.                           *)
(***************************************************************************)
EXTENDS Naturals, SequencesExt

CONSTANTS
  Null,
  Early,      \* the rows of the table before the walk begins
  Late,       \* ids of accounts that are created during the walk
  Role, Name, \* what the writers put into role and full_name
  EmailOf,    \* the address of each account
  Time,       \* values of created_at
  Filters,    \* UserFilterQuery
  Sizes,      \* page sizes
  MaxWrites   \* bound on the transactions that commit during the walk

Text == Seq(STRING)

\* UserModel, as far as the list depends on it
Account ==
  [id : DOMAIN EmailOf, email : Text, name : Text, role : STRING,
   active : BOOLEAN, created : Nat]

ASSUME ListingAssumption ==
  /\ Sizes \subseteq Nat \ {0} /\ MaxWrites \in Nat
  /\ EmailOf \in [DOMAIN EmailOf -> Text] /\ Late \subseteq DOMAIN EmailOf
  /\ Name \subseteq Text /\ Role \subseteq STRING /\ Time \subseteq Nat
  /\ IsFiniteSet(Early) /\ Early \subseteq Account
  /\ \A u, v \in Early : u.id = v.id => u = v
  /\ Filters \subseteq
       [email : Text, name : Text, role : {Null} \cup STRING,
        active : {Null} \cup BOOLEAN, from : {Null} \cup Nat, to : {Null} \cup Nat]

VARIABLES
  table,     \* the committed accounts
  filter, size, page,
  stage,     \* what happens next: "get", "count", "turn", or "over"
  items,     \* the rows of the current page, as they were read
  total,
  seen,      \* ids that the walk has shown
  touched,   \* ids of accounts that were created or changed meanwhile
  calm,      \* no row has left the filter or moved to the inactive ones
  writes

vars == <<table, filter, size, page, stage, items, total, seen, touched, calm, writes>>

-----------------------------------------------------------------------------
(* ILIKE, on sequences of characters folded to one case.                   *)

\* An odd run of backslashes stands in front of position i.
Quoted(pattern, i) ==
  \E n \in 1 .. i - 1 :
    /\ n % 2 = 1 /\ \A k \in i - n .. i - 1 : pattern[k] = "\\"
    /\ i - n = 1 \/ pattern[i - n - 1] # "\\"

\* at[i]: where in the text the i-th character of the pattern begins to match.
Like(text, pattern) ==
  LET p == Len(pattern)
      t == Len(text)
      Special(i, c) == pattern[i] = c /\ ~Quoted(pattern, i)
  IN  \E at \in [1 .. p + 1 -> 1 .. t + 1] :
        /\ at[1] = 1 /\ at[p + 1] = t + 1
        /\ \A i \in 1 .. p :
             \/ Special(i, "\\") /\ i < p /\ at[i + 1] = at[i]
             \/ Special(i, "%") /\ at[i + 1] >= at[i]
             \/ /\ ~Special(i, "\\") /\ ~Special(i, "%")
                /\ at[i + 1] = at[i] + 1
                /\ Special(i, "_") \/ text[at[i]] = pattern[i]

\* f"%{...}%"; an empty filter is none.
TextPasses(text, x) == x = <<>> \/ Like(text, <<"%">> \o x \o <<"%">>)

Equals(value, x) == x = Null \/ value = x

\* Mutant: the two texts are alternatives.
PassesEither(u, f) ==
  /\ TextPasses(u.email, f.email) \/ TextPasses(u.name, f.name)
  /\ Equals(u.role, f.role) /\ Equals(u.active, f.active)
  /\ f.from # Null => u.created >= f.from
  /\ f.to # Null => u.created <= f.to

\* _apply_filters
Passes(u, f) ==
  /\ TextPasses(u.email, f.email) /\ TextPasses(u.name, f.name)
  /\ Equals(u.role, f.role) /\ Equals(u.active, f.active)
  /\ f.from # Null => u.created >= f.from
  /\ f.to # Null => u.created <= f.to

Matching == {u \in table : Passes(u, filter)}

\* ORDER BY is_active DESC, created_at DESC
Precedes(u, v) ==
  \/ u.active /\ ~v.active
  \/ u.active = v.active /\ u.created > v.created

\* Mutant: no ORDER BY.
Unordered(rows) == SetToSeqs(rows)

\* Every order the database may return rows in: ties are broken as it likes.
Orders(rows) ==
  {s \in SetToSeqs(rows) : \A i, j \in DOMAIN s : Precedes(s[i], s[j]) => i < j}

-----------------------------------------------------------------------------
(* The walk.                                                               *)

\* PaginationParams.offset
Offset == page * size

\* Mutant: one row more, to see whether there is a next page.
LimitPeeking == size + 1

\* PaginationParams.limit
Limit == size

Init ==
  /\ table = Early /\ filter \in Filters /\ size \in Sizes
  /\ page = 0 /\ stage = "get" /\ items = <<>> /\ total = 0
  /\ seen = {} /\ touched = {} /\ calm = TRUE /\ writes = 0

Statement(here, next) == stage = here /\ stage' = next

GetFiltered ==
  /\ Statement("get", "count")
  /\ \E s \in Orders(Matching) :
       items' = SubSeq(s, Offset + 1, Min({Offset + Limit, Len(s)}))
  /\ seen' = seen \cup {items'[i].id : i \in DOMAIN items'}
  /\ UNCHANGED <<table, filter, size, page, total, touched, calm, writes>>

\* Mutant: the total of the first page is used for the whole walk.
CountFilteredOnce ==
  /\ Statement("count", "turn")
  /\ total' = IF page = 0 THEN Cardinality(Matching) ELSE total
  /\ UNCHANGED <<table, filter, size, page, items, seen, touched, calm, writes>>

CountFiltered ==
  /\ Statement("count", "turn")
  /\ total' = Cardinality(Matching)
  /\ UNCHANGED <<table, filter, size, page, items, seen, touched, calm, writes>>

\* The client asks for the next page until it has been told that there is none.
TurnPage ==
  /\ stage = "turn"
  /\ IF (page + 1) * size < total
     THEN page' = page + 1 /\ stage' = "get"
     ELSE page' = page /\ stage' = "over"
  /\ UNCHANGED <<table, filter, size, items, total, seen, touched, calm, writes>>

-----------------------------------------------------------------------------
(* Other requests commit: POST /users and /auth/register; PUT and DELETE.  *)

Row(id, created) ==
  [id : {id}, email : {EmailOf[id]}, name : Name, role : Role, active : BOOLEAN,
   created : created]

Write(id, rows) ==
  /\ stage # "over" /\ writes < MaxWrites
  /\ writes' = writes + 1
  /\ touched' = touched \cup {id}
  /\ table' = {u \in table : u.id # id} \cup rows
  /\ UNCHANGED <<filter, size, page, stage, items, total, seen>>

\* created_at is read from the clock before the INSERT, and the COMMIT comes
\* later still: the row may be older than rows that were there before it.
Create(id) ==
  /\ \A u \in table : u.id # id
  /\ \E row \in Row(id, Time) : Write(id, {row})
  /\ calm' = calm

Change(u) ==
  \E row \in Row(u.id, {u.created}) :
    /\ Write(u.id, {row})
    /\ calm' = (calm /\ ~(Passes(u, filter) /\ ~Passes(row, filter))
                     /\ ~(u.active /\ ~row.active))

Next ==
  \/ GetFiltered \/ CountFiltered \/ TurnPage
  \/ \E id \in Late : Create(id)
  \/ \E u \in table : Change(u)

Spec == Init /\ [][Next]_vars

-----------------------------------------------------------------------------

\* A filter without characters that ILIKE treats specially.
Plain(x) == ToSet(x) \cap {"%", "_", "\\"} = {}

Within(x, text) ==
  \E k \in 0 .. Len(text) - Len(x) : SubSeq(text, k + 1, k + Len(x)) = x

\* Types, and what Page.build checks (paginated.py:29).
ListingTypeOK ==
  /\ IsFiniteSet(table) /\ table \subseteq Account
  /\ \A u, v \in table : u.id = v.id => u = v
  /\ filter \in Filters /\ size \in Sizes /\ page \in Nat /\ total \in Nat
  /\ stage \in {"get", "count", "turn", "over"}
  /\ items \in Seq(Account) /\ Len(items) <= size
  /\ calm \in BOOLEAN /\ writes \in 0 .. MaxWrites
  /\ seen \subseteq DOMAIN EmailOf /\ touched \subseteq DOMAIN EmailOf

\* The account contains what was asked for, character by character.
Wanted(u) ==
  /\ Within(filter.email, u.email) /\ Within(filter.name, u.name)
  /\ Passes(u, [filter EXCEPT !.email = <<>>, !.name = <<>>])

\* The list shows nothing that was not asked for: only the columns named in
\* the query decide, all of them together, and a filter without wildcards is
\* plain containment (user_repository.py:49-62).
OnlyWanted ==
  Plain(filter.email) /\ Plain(filter.name) =>
    \A i \in DOMAIN items : Wanted(items[i])

\* As long as no row leaves the list or moves to the inactive ones, an
\* administrator who turns the pages to the end has seen every matching
\* account that nobody touched, although others appear in front of it or in
\* the middle, items and total come from two statements, and the order of rows
\* with one created_at is open.  Wildcards never hide a row, backslashes do
\* (user_service.py:40-43, user_repository.py:33, 51-53, paginated.py:13-18).
NothingSkipped ==
  stage = "over" /\ calm =>
    \A u \in table :
      /\ Wanted(u) /\ "\\" \notin ToSet(filter.email) \cup ToSet(filter.name)
      /\ u.id \notin touched
      /\ \A v \in table : v.created = u.created => v.id = u.id
      => u.id \in seen

\* Under the same condition a page never shows rows beyond its own total: the
\* count sees whatever the page saw, since it is the later statement
\* (user_service.py:40-41).
TotalCoversItems ==
  stage \in {"turn", "over"} /\ calm /\ items # <<>> =>
    Offset + Len(items) <= total

-----------------------------------------------------------------------------
(* What a walk has established on its way.                                 *)

\* An account that nobody has touched and whose place in the order is certain.
Steady(u) ==
  /\ Passes(u, filter) /\ u.id \notin touched
  /\ \A v \in table : v.created = u.created => v.id = u.id

Before(u) == {v \in Matching : Precedes(v, u)}

\* As many rows as the pages so far have room for.
Passed == IF stage = "get" THEN Offset ELSE Offset + size

\* A steady account that has not been shown stands behind the pages so far, and
\* the client knows of it when it decides whether to turn the page: this is what
\* NothingSkipped needs to be known at each stage.  Accounts may appear in front
\* of it; none that was in front of it goes away while the walk is calm
\* (user_service.py:40-43, user_repository.py:33).
StillAhead ==
  calm => \A u \in table :
    Steady(u) /\ u.id \notin seen =>
      /\ stage # "over"
      /\ Cardinality(Before(u)) >= Passed
      /\ stage = "turn" => Passed < total

\* The inductive invariant: the rows of the page passed the filter, and the page
\* fits into what the next count must find.
ListingInv ==
  /\ ListingTypeOK /\ StillAhead
  /\ \A i \in DOMAIN items : Passes(items[i], filter)
  /\ stage = "count" /\ calm /\ items # <<>> =>
       Offset + Len(items) <= Cardinality(Matching)
  /\ TotalCoversItems
=============================================================================
