------------------------------ MODULE Pagination ------------------------------
(***************************************************************************)
(* Listing with cursors: TypeOrmConnection (shared/query-connection) as    *)
(* GET /accounts uses it, and a client that follows the end cursors while  *)
(* other requests add, delete and touch accounts.                          *)
(*                                                                         *)
(* A page is two statements outside any transaction: the rows, then the    *)
(* count.  A cursor is an offset in disguise, so what it points at moves   *)
(* when rows before it come or go.                                         *)
(*                                                                         *)
(* The request declares first as a number, not as an integer.  A page size *)
(* is therefore an integral number of parts of a row, Unit of which make   *)
(* one row: with Unit = 10, 15 is first = 1.5.                             *)
(***************************************************************************)
EXTENDS Integers, Sequences, FiniteSets, SequencesExt

CONSTANTS
    Accounts,         \* accounts of the caller's subscription
    Keys,             \* values of the column the list is ordered by
    Ties,             \* TRUE: two rows may have the same key
    Unit,             \* parts of a row a page size is counted in
    FirstValues,      \* values of the query parameter first, in these parts
    Orders,           \* subset of {"none", "ASC", "DESC"}
    DefaultPageSize,  \* DEFAULT_PAGE_SIZE
    MaxChanges,       \* bound on inserts and deletes during a walk, a touch being both
    Unset             \* marks a parameter that was not given

ASSUME KeysAssumption == Keys \subseteq Int
ASSUME ParameterAssumption ==
    /\ Unit \in Nat \ {0}
    /\ FirstValues \subseteq Int \cup {Unset}
    /\ Unset \notin Int
    /\ Orders \subseteq {"none", "ASC", "DESC"}
    /\ DefaultPageSize \in Nat \ {0}
    /\ MaxChanges \in Nat
ASSUME AccountsAssumption == IsFiniteSet(Accounts)

VARIABLES
    table,     \* table[a]: the key of row a, or Unset when there is no such row
    request,   \* the request the client waits for or has the answer to
    listed,    \* listed[a]: how often the walk returned a (0, 1, 2 = more)
    stayed,    \* rows present and untouched since the walk began
    changes    \* what others did since the walk began, and between the two
               \* statements of the request

vars == <<table, request, listed, stayed, changes>>

-----------------------------------------------------------------------------
(* Cursors: decimal digits in base64.  Garbage is text that decodes to no  *)
(* number (parseInt answers NaN).                                          *)

Garbage == <<"no number">>

EncodeCursor(n) == <<"base64", n>>
DecodeCursor(cursor) == cursor[2]

RowCursors == {EncodeCursor(n) : n \in 1 .. Cardinality(Accounts)}
Cursors == RowCursors \cup {Garbage, Unset}

ASSUME CursorAssumption == Unset \notin RowCursors \cup {Garbage}

PageSize(r) == IF r.first = Unset THEN DefaultPageSize * Unit ELSE r.first

(* PostgreSQL rounds what LIMIT is given to a whole number of rows, halves *)
(* away from zero.                                                         *)
Limit(r) ==
    LET size == PageSize(r)
    IN  IF size >= 0 THEN (2 * size + Unit) \div (2 * Unit)
        ELSE -((Unit - 2 * size) \div (2 * Unit))

(* A size that is rounded away: LIMIT 0, which TypeORM writes for any      *)
(* limit that is not 0 itself.                                             *)
RoundsToZero(r) == PageSize(r) # 0 /\ Limit(r) = 0

After(r) == IF r.after = Unset THEN 0 ELSE DecodeCursor(r.after)

(* Mutant: the cursor of a row is its own offset, not that of the next.    *)
CursorOfRow(r, index) == EncodeCursor(After(r) + index)
MakeCursor(r, index) == EncodeCursor(After(r) + index + 1)

(* totalCount - after > pageSize, which is not rounded here.               *)
(* Mutant: one row after a full page is forgotten.                         *)
FullPageIsLast(r, totalCount) == (totalCount - After(r) - 1) * Unit > PageSize(r)
HasNextPage(r, totalCount) == (totalCount - After(r)) * Unit > PageSize(r)

GetEndCursor(r) ==
    IF r.rows = <<>> THEN Unset ELSE MakeCursor(r, Len(r.rows) - 1)

-----------------------------------------------------------------------------
(* The two statements.                                                     *)

Present == {a \in Accounts : table[a] # Unset}

InOrder(orderBy, a, b) ==
    CASE orderBy = "ASC"  -> table[a] <= table[b]
      [] orderBy = "DESC" -> table[a] >= table[b]
      [] OTHER -> TRUE

(* Every listing PostgreSQL may produce: rows with equal keys stand in any *)
(* order, and so do all rows when no order is asked for.                   *)
Listings(orderBy) ==
    {s \in SetToSeqs(Present) :
        \A i, j \in 1 .. Len(s) : i < j => InOrder(orderBy, s[i], s[j])}

(* limit() and offset().  TypeORM writes no LIMIT clause for a limit of 0. *)
(* Mutant: the limit is forgotten.                                         *)
PaginateUnlimited(r, s) == SubSeq(s, After(r) + 1, Len(s))
Paginate(r, s) ==
    LET last == After(r) + Limit(r)
    IN  SubSeq(s, After(r) + 1,
               IF PageSize(r) = 0 \/ last > Len(s) THEN Len(s) ELSE last)

(* getMany: PostgreSQL refuses a negative limit, TypeORM an offset that is *)
(* no number.                                                              *)
Refused(r) == Limit(r) < 0 \/ r.after = Garbage

-----------------------------------------------------------------------------
NoRequest == [stage |-> "idle", first |-> Unset, orderBy |-> "none",
              after |-> Unset, rows |-> <<>>, more |-> FALSE,
              endCursor |-> Unset]

NoChanges == [inserts |-> 0, deletes |-> 0, between |-> 0, restarts |-> 0]

Untied(t) ==
    \A a, b \in Accounts : a # b /\ t[a] # Unset => t[a] # t[b]

TypeOK ==
    /\ table \in [Accounts -> Keys \cup {Unset}]
    /\ Ties \/ Untied(table)
    /\ request.stage \in {"idle", "rows", "count", "answered", "done", "failed"}
    /\ request.first \in FirstValues \cup {Unset}
    /\ request.orderBy \in Orders \cup {"none"}
    /\ {request.after, request.endCursor} \subseteq Cursors
    /\ request.rows \in Seq(Accounts)
    /\ Limit(request) >= 1 \/ RoundsToZero(request) =>
          Len(request.rows) <= Limit(request)
    /\ request.more \in BOOLEAN
    /\ listed \in [Accounts -> 0 .. 2]
    /\ stayed \subseteq Accounts
    /\ \A f \in {"inserts", "deletes", "between", "restarts"} : changes[f] \in Nat

Init ==
    /\ table \in {t \in [Accounts -> Keys \cup {Unset}] : Ties \/ Untied(t)}
    /\ request = NoRequest
    /\ listed = [a \in Accounts |-> 0]
    /\ stayed = {}
    /\ changes = NoChanges

(* data(): filters aside, the query is put together from the parameters.   *)
StartList(first, orderBy, after) ==
    /\ request.stage = "idle"
    /\ request' = [NoRequest EXCEPT !.stage = "rows", !.first = first,
                                    !.orderBy = orderBy, !.after = after]
    /\ stayed' = Present
    /\ UNCHANGED <<table, listed, changes>>

FetchRefused ==
    /\ request.stage = "rows"
    /\ Refused(request)
    /\ request' = [request EXCEPT !.stage = "failed"]
    /\ UNCHANGED <<table, listed, stayed, changes>>

FetchRows ==
    /\ request.stage = "rows"
    /\ ~Refused(request)
    /\ \E s \in Listings(request.orderBy) :
          request' = [request EXCEPT !.stage = "count",
                                     !.rows = Paginate(request, s)]
    /\ changes' = [changes EXCEPT !.between = 0]
    /\ UNCHANGED <<table, listed, stayed>>

(* The count ignores limit and offset; transform makes edges and pageInfo. *)
FetchCount ==
    /\ request.stage = "count"
    /\ request' = [request EXCEPT
            !.stage = "answered",
            !.more = HasNextPage(request, Cardinality(Present)),
            !.endCursor = GetEndCursor(request)]
    /\ listed' = [a \in Accounts |->
            IF a \in ToSet(request.rows) /\ listed[a] < 2
            THEN listed[a] + 1 ELSE listed[a]]
    /\ UNCHANGED <<table, stayed, changes>>

(* The client asks for the page after the end cursor.  Without one (null)  *)
(* the same request starts again from the first row.                       *)
FollowCursor ==
    /\ request.stage = "answered"
    /\ request.more
    /\ request' = [request EXCEPT !.stage = "rows", !.rows = <<>>,
                                  !.after = request.endCursor,
                                  !.more = FALSE, !.endCursor = Unset]
    /\ changes' = IF request.endCursor = Unset
                  THEN [changes EXCEPT !.restarts = 1] ELSE changes
    /\ UNCHANGED <<table, listed, stayed>>

StopWalk ==
    /\ request.stage = "answered"
    /\ ~request.more
    /\ request' = [request EXCEPT !.stage = "done"]
    /\ UNCHANGED <<table, listed, stayed, changes>>

Walking == request.stage \in {"rows", "count", "answered"}

Change(a, key, ins, del) ==
    /\ Walking
    /\ changes.inserts + changes.deletes + ins + del <= MaxChanges
    /\ table' = [table EXCEPT ![a] = key]
    /\ Ties \/ Untied(table')
    /\ stayed' = stayed \ {a}
    /\ changes' = [changes EXCEPT !.inserts = @ + ins, !.deletes = @ + del,
                                  !.between = @ + ins]
    /\ UNCHANGED <<request, listed>>

(* created_at is the start of the creating transaction, not its commit: a  *)
(* new row may appear anywhere in the order.                               *)
Insert(a) == \E k \in Keys : table[a] = Unset /\ Change(a, k, 1, 0)
Delete(a) == table[a] # Unset /\ Change(a, Unset, 0, 1)
(* A save moves a row when the list is ordered by updated_at.              *)
Touch(a) == \E k \in Keys \ {table[a]} : table[a] # Unset /\ Change(a, k, 1, 1)

Request == FetchRefused \/ FetchRows \/ FetchCount
Client ==
    \/ \E f \in FirstValues, o \in Orders, c \in {Unset, Garbage} : StartList(f, o, c)
    \/ FollowCursor
    \/ StopWalk
Others == \E a \in Accounts : Insert(a) \/ Delete(a) \/ Touch(a)

Next == Request \/ Client \/ Others

Spec == Init /\ [][Next]_vars

(* Statements return, and the client goes on until there is no next page.  *)
FairSpec == Spec /\ WF_vars(Request) /\ WF_vars(FollowCursor \/ StopWalk)

-----------------------------------------------------------------------------
WalkDone == request.stage = "done" /\ request.after # Garbage
TotalOrder == ~Ties /\ request.orderBy # "none"

(* Following the end cursors lists every account exactly once while nobody *)
(* changes the accounts and the order is total, whatever the page size the *)
(* walk came to its end with.  Under changes the damage is bounded: of the *)
(* accounts that stayed, no more are missed than rows were deleted and no  *)
(* more are repeated than rows were inserted (an offset moves by one for   *)
(* each).  A walk that was sent back to the first page is not judged.      *)
DamageBoundedByChanges ==
    WalkDone /\ TotalOrder /\ changes.restarts = 0 =>
        /\ Cardinality({a \in stayed : listed[a] = 0}) <= changes.deletes
        /\ Cardinality({a \in stayed : listed[a] = 2}) <= changes.inserts

(* The comparison of hasNextPage takes the size as it was given, LIMIT the *)
(* rounded one: a page that exactly holds the remaining rows is then       *)
(* smaller than what hasNextPage compares with.                            *)
RoundedUp(r) == Limit(r) * Unit > PageSize(r)

(* While nobody changes the rows, hasNextPage says whether rows follow the *)
(* page, as its comment has it, on every page and at every page boundary,  *)
(* but for two requests: with first = 0 the page holds everything, and     *)
(* hasNextPage is still true; and with a size that LIMIT rounds up         *)
(* (first = 1.5) hasNextPage is true of a full last page, and an empty     *)
(* page comes next.  And hasNextPage is true without a cursor to go on     *)
(* from, which sends a client back to the first page, only if the size is  *)
(* rounded to zero (first = 0.4: every page is empty), or if more rows     *)
(* than a page were inserted between the two statements of the request.    *)
HasNextPageIsRight ==
    request.stage = "answered" =>
        LET shown == After(request) + Len(request.rows)
        IN  /\ changes = NoChanges =>
                 (request.more <=>
                    \/ shown < Cardinality(Present)
                    \/ request.first = 0 /\ request.rows # <<>>
                    \/ /\ RoundedUp(request)
                       /\ shown = Cardinality(Present)
                       /\ Len(request.rows) = Limit(request))
            /\ request.more /\ request.endCursor = Unset =>
                 \/ RoundsToZero(request)
                 \/ changes.between * Unit > PageSize(request)

(* A client that follows the cursors comes to an end, once the others have *)
(* stopped to change accounts (after MaxChanges here), whatever they did   *)
(* before and whatever the page size: but for a size that is rounded to    *)
(* zero, with which a client starts from the first page for ever.          *)
WalkEnds ==
    request.stage = "rows" /\ ~RoundsToZero(request)
        ~> request.stage \in {"done", "failed"}
=============================================================================
