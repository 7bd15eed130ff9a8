----------------------------- MODULE WhereFilter ------------------------------
(***************************************************************************)
(* From the filters of a list request to the WHERE clause of its query:    *)
(* addQueryBuilderWhereItems, called by data() of a connection whose       *)
(* _query() has put the caller's view permission into the query.           *)
(*                                                                         *)
(* Parameters are shared by name over the whole query, and conditions are  *)
(* SQL's, with UNKNOWN for NULL.  A connection is made for one request and *)
(* asked once.                                                             *)
(*                                                                         *)
(* Entities are the rows of any table that is listed; Init, Next and Spec  *)
(* have names of their own, apart from those of Membership, which says     *)
(* what the view permission is.                                            *)
(***************************************************************************)
EXTENDS Integers, Sequences, FiniteSets, SequencesExt, FiniteSetsExt

CONSTANTS
    Entities,       \* rows of the table
    Joinable,       \* relations a column can be reached through
    Lists,          \* lists that can be filtered: records of
                    \*   operators[c]   what the request schema offers for c
                    \*   operands[op]   sets of values, or NULL, to compare with
                    \*   relationOf[c]  the relation of c, or NULL for an own column
                    \*   presetJoins    relations _query() has left-joined already
                    \*   uuidColumns    columns PostgreSQL compares with no pattern
    Values,         \* what a column holds, ordered; one value is written {v}
    Like,           \* Like[op][v]: the values that contain / start / end with v
    MaxElements,    \* bound on the filter elements of a request
    MaxConditions,  \* bound on the conditions of an element
    Null,           \* SQL's NULL
    Unanswered,     \* the request has not been answered
    Refused         \* the answer when PostgreSQL or TypeORM throws: 500

(* The operators a request schema offers, by the type of the column.       *)
EqualityOperators == {"eq", "not"}
StringOperators == {"eq", "contains", "startsWith", "endsWith", "in", "notIn", "not"}
NumericOperators == {"eq", "gt", "gte", "lt", "lte", "in", "not", "notIn"}
DateOperators == {"eq", "lt", "lte", "gt", "gte", "not", "notIn"}
IsoDateOperators == {"eq", "lt", "lte", "gt", "gte", "not", "notIn"}
BooleanOperators == {"eq", "notIn", "not"}
ArrayOperators == {"containsAll", "containsAny"}

Schemas == {EqualityOperators, StringOperators, NumericOperators, DateOperators,
            IsoDateOperators, BooleanOperators, ArrayOperators}

Patterns == {"contains", "startsWith", "endsWith"}
SetOperators == {"in", "notIn"} \cup ArrayOperators

(* What can be compared with: a list of values where the operator takes    *)
(* one, and otherwise one value, or null in a test for null.               *)
OperandsOf(op) ==
    IF op \in SetOperators THEN SUBSET Values
    ELSE {{v} : v \in Values} \cup (IF op \in EqualityOperators THEN {Null} ELSE {})

ASSUME SchemaAssumption ==
    /\ \A l \in Lists : LET cs == DOMAIN l.operators
          IN  /\ \A c \in cs : l.operators[c] \in Schemas
              /\ l.relationOf \in [cs -> Joinable \cup {Null}]
              /\ l.presetJoins \subseteq Joinable
              /\ l.uuidColumns \subseteq cs
              /\ \A op \in UNION Schemas : l.operands[op] \subseteq OperandsOf(op)
    /\ Values \subseteq Int
    /\ \A S \in SUBSET Values : S # Null
    /\ {MaxElements, MaxConditions} \subseteq Nat
ASSUME AnswerAssumption ==
    /\ Unanswered # Refused
    /\ \A S \in SUBSET Entities : S # Unanswered /\ S # Refused

VARIABLES
    list,     \* the list that is asked for
    table,    \* the rows: is it in the caller's view, what the columns hold,
              \* which relations have a row
    filters,  \* elements; an element is a function from <<column, operator>>
              \* to the operand
    answer    \* Unanswered, the rows of the answer, or Refused

filterVars == <<list, table, filters, answer>>

RelationOf == list.relationOf
PresetJoins == list.presetJoins

Offered(l) == {k \in (DOMAIN l.operators) \X (UNION Schemas) : k[2] \in l.operators[k[1]]}

AllOperands == (SUBSET Values) \cup {Null}

Elements == [l \in Lists |->
    UNION {{e \in [K -> AllOperands] : \A k \in K : e[k] \in l.operands[k[2]]} :
              K \in UNION {kSubset(n, Offered(l)) : n \in 0 .. MaxConditions}}]

-----------------------------------------------------------------------------
(* SQL's three truth values.                                               *)

And3(S) == IF "F" \in S THEN "F" ELSE IF "U" \in S THEN "U" ELSE "T"
Or3(S) == IF "T" \in S THEN "T" ELSE IF "U" \in S THEN "U" ELSE "F"
Truth(b) == IF b THEN "T" ELSE "F"

Only(S) == CHOOSE v \in S : TRUE

(* addWhereExpressionItem: the condition an operator becomes, for a column *)
(* that holds x and an operand v.                                          *)
Condition(op, x, v) ==
    IF op \in {"eq", "not"} /\ v = Null THEN Truth((x = Null) = (op = "eq"))
    ELSE IF x = Null THEN "U"
    ELSE Truth(CASE op = "eq" -> x = v
                 [] op = "not" -> x # v
                 [] op = "lt" -> Only(x) < Only(v)
                 [] op = "lte" -> Only(x) <= Only(v)
                 [] op = "gt" -> Only(x) > Only(v)
                 [] op = "gte" -> Only(x) >= Only(v)
                 [] op = "in" -> x \subseteq v
                 [] op = "notIn" -> ~ (x \subseteq v)
                 [] op \in Patterns -> Only(x) \in Like[op][Only(v)]
                 [] op = "containsAll" -> v \subseteq x
                 [] op = "containsAny" -> v \cap x # {})

-----------------------------------------------------------------------------
(* Parameters.  Within an element, column and operator determine the two   *)
(* inner indices.  The three indices are written without a separator, so   *)
(* this is one name per condition as long as an element has at most ten    *)
(* columns, as every schema here does.                                     *)

(* Mutant: the name before the fix its comment tells of, column and        *)
(* operator only.                                                          *)
ParamKeyByName(index, k) == <<k, 0>>
ParamKey(index, k) == <<k, index>>

(* setParameter: a later value of the same key replaces the earlier one.   *)
Parameter(fs, key) ==
    LET Bound == {i \in 1 .. Len(fs) : \E k \in DOMAIN fs[i] : ParamKey(i, k) = key}
        last == CHOOSE i \in Bound : \A j \in Bound : j <= i
        k == CHOOSE k \in DOMAIN fs[last] : ParamKey(last, k) = key
    IN  fs[last][k]

Bracket(fs, i, row) ==
    And3({Condition(k[2], row.holds[k[1]], Parameter(fs, ParamKey(i, k))) :
              k \in DOMAIN fs[i]})

(* The elements are alternatives; without any, TypeORM writes 1=1.         *)
Brackets(fs, row) ==
    IF fs = <<>> THEN "T" ELSE Or3({Bracket(fs, i, row) : i \in 1 .. Len(fs)})

(* qb.andWhere(brackets) behind the view permission of _query().           *)
(* Mutant: the default of qbOperator, OR.                                  *)
WhereWithDefault(fs, row) == Or3({Truth(row.visible), Brackets(fs, row)})
Where(fs, row) == And3({Truth(row.visible), Brackets(fs, row)})

-----------------------------------------------------------------------------
(* Joins.                                                                  *)

Used(fs) == UNION {{k[1] : k \in DOMAIN fs[i]} : i \in 1 .. Len(fs)}
RelationsOf(fs) == {RelationOf[c] : c \in Used(fs)} \ {Null}

(* joinTables leaves joins that exist alone.  What it adds is an inner     *)
(* join: the metadata of the owning entity has no column of the relation's *)
(* name.                                                                   *)
(* Mutant: joins are added although _query() has them.                     *)
JoinedAgain(fs) == RelationsOf(fs)
AddedJoins(fs) == RelationsOf(fs) \ PresetJoins

(* An empty list writes IN (), or ARRAY[] of no type; a uuid has no ILIKE. *)
Unwritable(fs) ==
    \E i \in 1 .. Len(fs) : \E k \in DOMAIN fs[i] :
        \/ k[2] \in SetOperators /\ fs[i][k] = {}
        \/ k[2] \in Patterns /\ k[1] \in list.uuidColumns

(* Without a FROM entry for its alias a column cannot be named.            *)
IsRefused(fs) ==
    \/ \E r \in RelationsOf(fs) : r \notin PresetJoins \cup AddedJoins(fs)
    \/ Unwritable(fs)

Answer(fs) ==
    IF IsRefused(fs) THEN Refused
    ELSE {a \in Entities :
            /\ AddedJoins(fs) \subseteq table[a].has
            /\ Where(fs, table[a]) = "T"}

-----------------------------------------------------------------------------
(* Rows.  A column reached through a relation is NULL when the relation    *)
(* has no row (a left join).                                               *)
ColumnValues(l, c) ==
    (IF l.operators[c] = ArrayOperators THEN SUBSET Values ELSE {{v} : v \in Values})
        \cup {Null}
RowsOf == [l \in Lists |->
    {row \in [visible : BOOLEAN, has : SUBSET Joinable,
              holds : [DOMAIN l.operators -> AllOperands]] :
        \A c \in DOMAIN l.operators :
            /\ row.holds[c] \in ColumnValues(l, c)
            /\ l.relationOf[c] \in Joinable \ row.has => row.holds[c] = Null}]

FilterInit ==
    /\ list \in Lists
    /\ table \in [Entities -> RowsOf[list]]
    /\ filters = <<>>
    /\ answer = Unanswered

(* The request's filters parameter, as its schema lets it pass.            *)
AddElement ==
    /\ answer = Unanswered
    /\ Len(filters) < MaxElements
    /\ \E e \in Elements[list] : filters' = Append(filters, e)
    /\ UNCHANGED <<list, table, answer>>

(* data(): join what the keys name, rewrite them (person__lastName becomes *)
(* person.lastName), query.                                                *)
Data ==
    /\ answer = Unanswered
    /\ answer' = Answer(filters)
    /\ UNCHANGED <<list, table, filters>>

FilterNext == AddElement \/ Data

FilterSpec == FilterInit /\ [][FilterNext]_filterVars

-----------------------------------------------------------------------------
(* What a condition means to the client: a row without a value satisfies   *)
(* no test but the test for null.                                          *)
Satisfies(row, k, v) ==
    LET x == row.holds[k[1]]
    IN  CASE v = Null -> IF k[2] = "eq" THEN x = Null ELSE x # Null
          [] v # Null /\ x = Null -> FALSE
          [] OTHER ->
                CASE k[2] \in {"eq", "not"} -> (x = v) = (k[2] = "eq")
                  [] k[2] \in {"lt", "gte"} -> (Only(x) < Only(v)) = (k[2] = "lt")
                  [] k[2] \in {"gt", "lte"} -> (Only(x) > Only(v)) = (k[2] = "gt")
                  [] k[2] \in {"in", "notIn"} -> (Only(x) \in v) = (k[2] = "in")
                  [] k[2] \in Patterns -> Only(x) \in Like[k[2]][Only(v)]
                  [] k[2] = "containsAll" -> \A y \in v : y \in x
                  [] k[2] = "containsAny" -> \E y \in v : y \in x

Meant(fs, row) ==
    \/ fs = <<>>
    \/ \E i \in 1 .. Len(fs) :
          \A k \in DOMAIN fs[i] : Satisfies(row, k, fs[i][k])

(* Attributes of an element are ANDed, elements ORed, and all of it is     *)
(* ANDed to the caller's view: an answer is exactly the visible rows the   *)
(* filters mean, and only filters that cannot be written as SQL are        *)
(* refused, whatever relations they name.  Where _query() does not join a  *)
(* relation the filters name, rows without it are left out even by         *)
(* elements that do not name it (an inner join), which is why              *)
(* AccountTypeOrmConnection joins person.                                  *)
AnswersWhatIsMeant ==
    /\ answer = Refused => Unwritable(filters)
    /\ answer \notin {Unanswered, Refused} =>
          answer = {a \in Entities :
              /\ table[a].visible
              /\ RelationsOf(filters) \ PresetJoins \subseteq table[a].has
              /\ Meant(filters, table[a])}
=============================================================================
