--------------------------- MODULE MembershipProofs ---------------------------
(***************************************************************************)
(* Theorems about what a query of the service answers.  First Membership,  *)
(* for any accounts and subscriptions: what the holder of a token is       *)
(* shown, and what is never shown to it.  Then WhereFilter, for any schema *)
(* of filters: which of the rows it may be shown a list answers with.      *)
(***************************************************************************)
EXTENDS Membership, WhereFilter, TLAPS

(* Every row was made for a subscription, that of its creator.             *)
RowInv ==
    \A a \in Accounts :
        /\ account[a] = NoRow <=> made[a] = NULL
        /\ account[a] # NoRow /\ account[a].creator # NULL =>
              made[account[a].creator] = made[a]

(* Tokens name the subscription their account was made for.                *)
ClaimInv == \A a \in Accounts : Holds(a) => claims[a] = made[a]

(* A relation row that names a row ties it to its own subscription, and    *)
(* the row is live; one that names none is left over from a deletion.      *)
RelationInv ==
    \A r \in relations :
        /\ r.of # NULL => r.subscription = made[r.of] /\ Live(r.of)
        /\ r.of = NULL =>
              \E a \in Accounts : made[a] = r.subscription /\ ~Live(a)

(* Live rows are tied to their subscription, deletions leave a trace.      *)
LinkInv ==
    \A a \in Accounts :
        /\ Live(a) => \A kind \in Kinds : Relation(kind, a, made[a]) \in relations
        /\ made[a] # NULL /\ ~Live(a) => Relation("account", NULL, made[a]) \in relations

IInv == TypeOK /\ RowInv /\ ClaimInv /\ RelationInv /\ LinkInv
-----------------------------------------------------------------------------
LEMMA InitInv == Init => IInv
  BY DEF Init, IInv, TypeOK, RowInv, ClaimInv, RelationInv, LinkInv, Holds, Live

(* A new row with its two relation rows keeps the invariant, whoever makes *)
(* it: a sign-up without a creator, or a holder of a token.                *)
LEMMA NewInv ==
    ASSUME IInv, NEW a \in Accounts, NEW s \in Subscriptions,
           NEW creator \in Accounts \cup {NULL},
           creator # NULL => made[creator] = s,
           New(a, s, creator, {Relation(kind, a, s) : kind \in Kinds})
    PROVE  IInv'
<1> DEFINE new == {Relation(kind, a, s) : kind \in Kinds}
<1>1. /\ account[a] = NoRow
      /\ account' = [account EXCEPT ![a] = [live |-> TRUE, creator |-> creator]]
      /\ relations' = relations \cup new
      /\ made' = [made EXCEPT ![a] = s]
      /\ claims' = claims
  BY DEF New
<1>2. /\ made[a] = NULL /\ claims[a] = NULL
      /\ s # NULL /\ a # NULL
  BY <1>1, MarkerAssumption DEF MarkerAssumption, IInv, TypeOK, RowInv, ClaimInv, Holds
<1>3. \A r \in new : r \in Relations /\ r.of = a /\ r.subscription = s
  BY DEF Relation, Relations
<1>4. [live |-> TRUE, creator |-> creator] \in Rows
  BY DEF Rows
<1>5. TypeOK'
  BY <1>1, <1>3, <1>4 DEF IInv, TypeOK
<1>6. Live(a)'
  BY <1>1, <1>4, NoRowAssumption DEF NoRowAssumption, Live, IInv, TypeOK
<1>7. \A b \in Accounts \ {a} : /\ account'[b] = account[b]
                                /\ made'[b] = made[b]
                                /\ Live(b)' <=> Live(b)
  BY <1>1 DEF Live, IInv, TypeOK
<1>8. /\ account'[a] = [live |-> TRUE, creator |-> creator]
      /\ made'[a] = s
  BY <1>1 DEF IInv, TypeOK
<1>9. RowInv'
  <2> SUFFICES ASSUME NEW b \in Accounts
               PROVE  /\ account'[b] = NoRow <=> made'[b] = NULL
                      /\ account'[b] # NoRow /\ account'[b].creator # NULL =>
                            made'[account'[b].creator] = made'[b]
    BY DEF RowInv
  <2>1. CASE b = a
    <3>1. creator # NULL => creator \in Accounts \ {a} /\ made'[creator] = s
      BY <1>2, <1>7
    <3>2. account'[a].creator = creator /\ made'[a] = s
      BY <1>8
    <3>3. account'[a] # NoRow
      BY <1>6 DEF Live
    <3> QED BY <2>1, <3>1, <3>2, <3>3, <1>2
  <2>2. CASE b # a
    <3>1. account[b] # NoRow /\ account[b].creator # NULL =>
             account[b].creator \in Accounts \ {a}
      BY <1>2 DEF IInv, TypeOK, RowInv, Rows
    <3> QED BY <2>2, <3>1, <1>7 DEF IInv, RowInv
  <2> QED BY <2>1, <2>2
<1>10. ClaimInv'
  BY <1>1, <1>2, <1>7 DEF IInv, ClaimInv, Holds
<1>11. RelationInv'
  <2> SUFFICES ASSUME NEW r \in relations'
               PROVE  /\ r.of # NULL => r.subscription = made'[r.of] /\ Live(r.of)'
                      /\ r.of = NULL =>
                            \E b \in Accounts : made'[b] = r.subscription /\ ~Live(b)'
    BY DEF RelationInv
  <2>1. CASE r \in new
    BY <2>1, <1>2, <1>3, <1>6, <1>8
  <2>2. CASE r \in relations
    <3>1. r \in Relations
      BY <2>2 DEF IInv, TypeOK
    <3>2. r.of # a
      BY <3>1, <2>2, <1>2, MarkerAssumption
         DEF MarkerAssumption, IInv, RelationInv, Relations
    <3>3. r.of # NULL => r.of \in Accounts \ {a}
      BY <3>1, <3>2 DEF Relations
    <3>4. r.of = NULL => \E b \in Accounts \ {a} : made[b] = r.subscription /\ ~Live(b)
      BY <3>1, <2>2, <1>2, MarkerAssumption
         DEF MarkerAssumption, IInv, RelationInv, Relations
    <3> QED BY <2>2, <3>3, <3>4, <1>7 DEF IInv, RelationInv
  <2> QED BY <2>1, <2>2, <1>1
<1>12. LinkInv'
  <2> SUFFICES ASSUME NEW b \in Accounts
               PROVE  /\ Live(b)' => \A kind \in Kinds :
                                        Relation(kind, b, made'[b]) \in relations'
                      /\ made'[b] # NULL /\ ~Live(b)' =>
                            Relation("account", NULL, made'[b]) \in relations'
    BY DEF LinkInv, Relation
  <2>1. CASE b = a
    BY <2>1, <1>1, <1>6, <1>8
  <2>2. CASE b # a
    BY <2>2, <1>1, <1>7 DEF IInv, LinkInv
  <2> QED BY <2>1, <2>2
<1> QED BY <1>5, <1>9, <1>10, <1>11, <1>12 DEF IInv

LEMMA VerifyInv ==
    ASSUME IInv, NEW a \in Accounts, Verify(a)
    PROVE  IInv'
<1>1. PICK s \in SubscriptionOf(a) : claims' = [claims EXCEPT ![a] = s]
  BY DEF Verify
<1>2. PICK r \in relations : r.of = a /\ r.subscription = s
  BY <1>1 DEF SubscriptionOf
<1>3. r \in Relations /\ a # NULL
  BY MarkerAssumption DEF MarkerAssumption, IInv, TypeOK
<1>4. s \in Subscriptions /\ s = made[a]
  BY <1>2, <1>3 DEF IInv, RelationInv, Relations
<1>5. UNCHANGED <<account, relations, made>>
  BY DEF Verify
<1>6. TypeOK'
  BY <1>1, <1>4, <1>5 DEF IInv, TypeOK
<1>7. ClaimInv'
  BY <1>1, <1>4, <1>5 DEF IInv, TypeOK, ClaimInv, Holds
<1> QED BY <1>5, <1>6, <1>7
        DEF IInv, RowInv, RelationInv, LinkInv, Live, Relation

LEMMA DeleteInv ==
    ASSUME IInv, NEW by \in Accounts, NEW a \in Accounts, Delete(by, a)
    PROVE  IInv'
<1>1. /\ Live(a)
      /\ account' = [account EXCEPT ![a].live = FALSE]
      /\ relations' = Unlinked(a)
      /\ UNCHANGED <<claims, made>>
  BY DEF Delete, RetrieveAccount
<1>2. /\ account[a] \in Rows /\ a # NULL
      /\ made[a] \in Subscriptions /\ made[a] # NULL
  BY <1>1, MarkerAssumption DEF MarkerAssumption, IInv, TypeOK, RowInv, Live
<1>3. /\ account'[a] = [account[a] EXCEPT !.live = FALSE]
      /\ account'[a] \in Rows
      /\ account'[a].creator = account[a].creator
      /\ ~Live(a)'
  BY <1>1, <1>2 DEF IInv, TypeOK, Rows, Live
<1>4. \A b \in Accounts \ {a} : account'[b] = account[b] /\ (Live(b)' <=> Live(b))
  BY <1>1 DEF Live, IInv, TypeOK
<1>5. \A r \in relations' :
          \E q \in relations : r = IF q.of = a THEN [q EXCEPT !.of = NULL] ELSE q
  BY <1>1 DEF Unlinked
<1>6. \A q \in relations :
          (IF q.of = a THEN [q EXCEPT !.of = NULL] ELSE q) \in relations'
  BY <1>1 DEF Unlinked
<1>7. \A q \in relations : q \in Relations
  BY DEF IInv, TypeOK
<1>8. TypeOK'
  <2>1. relations' \subseteq Relations
    BY <1>5, <1>7 DEF Relations
  <2> QED BY <2>1, <1>1, <1>3, <1>4 DEF IInv, TypeOK
<1>9. RowInv'
  BY <1>1, <1>2, <1>3, <1>4, NoRowAssumption DEF NoRowAssumption, IInv, RowInv, TypeOK
<1>10. ClaimInv'
  BY <1>1 DEF IInv, ClaimInv, Holds
<1>11. RelationInv'
  <2> SUFFICES ASSUME NEW r \in relations'
               PROVE  /\ r.of # NULL => r.subscription = made[r.of] /\ Live(r.of)'
                      /\ r.of = NULL =>
                            \E b \in Accounts : made[b] = r.subscription /\ ~Live(b)'
    BY <1>1 DEF RelationInv
  <2>1. PICK q \in relations : r = IF q.of = a THEN [q EXCEPT !.of = NULL] ELSE q
    BY <1>5
  <2>2. q \in Relations
    BY <1>7
  <2>3. CASE q.of = a
    <3>1. r.of = NULL /\ r.subscription = q.subscription
      BY <2>1, <2>2, <2>3 DEF Relations
    <3>2. q.subscription = made[a]
      BY <2>3, <1>2 DEF IInv, RelationInv
    <3> QED BY <3>1, <3>2, <1>3
  <2>4. CASE q.of # a
    <3>1. q.of # NULL => q.of \in Accounts \ {a}
      BY <2>2, <2>4 DEF Relations
    <3>2. r = q
      BY <2>1, <2>4
    <3> QED BY <3>1, <3>2, <1>1, <1>3, <1>4 DEF IInv, RelationInv
  <2> QED BY <2>3, <2>4
<1>12. LinkInv'
  <2> SUFFICES ASSUME NEW b \in Accounts
               PROVE  /\ Live(b)' => \A kind \in Kinds :
                                        Relation(kind, b, made[b]) \in relations'
                      /\ made[b] # NULL /\ ~Live(b)' =>
                            Relation("account", NULL, made[b]) \in relations'
    BY <1>1 DEF LinkInv, Relation
  <2>1. CASE b = a
    <3> DEFINE q == Relation("account", a, made[a])
    <3>1. q \in relations /\ q.of = a
      BY <1>1 DEF IInv, LinkInv, Kinds, Relation
    <3>2. [q EXCEPT !.of = NULL] = Relation("account", NULL, made[a])
      BY DEF Relation
    <3>3. Relation("account", NULL, made[a]) \in relations'
      BY <1>6, <3>1, <3>2
    <3> QED BY <2>1, <3>3, <1>3
  <2>2. CASE b # a
    <3>1. ASSUME Live(b)', NEW kind \in Kinds
          PROVE  Relation(kind, b, made[b]) \in relations'
      <4>1. Relation(kind, b, made[b]) \in relations /\ Relation(kind, b, made[b]).of # a
        BY <2>2, <3>1, <1>4 DEF IInv, LinkInv, Relation
      <4> QED BY <4>1, <1>6
    <3>2. ASSUME made[b] # NULL, ~Live(b)'
          PROVE  Relation("account", NULL, made[b]) \in relations'
      <4>1. /\ Relation("account", NULL, made[b]) \in relations
            /\ Relation("account", NULL, made[b]).of # a
        BY <2>2, <3>2, <1>2, <1>4 DEF IInv, LinkInv, Relation
      <4> QED BY <4>1, <1>6
    <3> QED BY <3>1, <3>2
  <2> QED BY <2>1, <2>2
<1> QED BY <1>8, <1>9, <1>10, <1>11, <1>12 DEF IInv

LEMMA StepInv == IInv /\ [Next]_vars => IInv'
<1> SUFFICES ASSUME IInv, [Next]_vars PROVE IInv'
  OBVIOUS
<1>1. ASSUME NEW s \in Subscriptions, NEW a \in Accounts, SubscriptionCreate(s, a)
      PROVE  IInv'
  BY <1>1, NewInv DEF SubscriptionCreate, SignUpRelations
<1>2. ASSUME NEW by \in Accounts, NEW a \in Accounts, AccountCreate(by, a)
      PROVE  IInv'
  <2>1. claims[by] \in Subscriptions /\ made[by] = claims[by]
    BY <1>2 DEF AccountCreate, Holds, IInv, TypeOK, ClaimInv
  <2> QED BY <1>2, <2>1, NewInv DEF AccountCreate, AccountRelations
<1>3. ASSUME NEW a \in Accounts, Verify(a)
      PROVE  IInv'
  BY <1>3, VerifyInv
<1>4. ASSUME NEW by \in Accounts, NEW a \in Accounts, Delete(by, a)
      PROVE  IInv'
  BY <1>4, DeleteInv
<1>5. CASE UNCHANGED vars
  BY <1>5 DEF vars, IInv, TypeOK, RowInv, ClaimInv, RelationInv, LinkInv,
              Holds, Live, Relation
<1> QED BY <1>1, <1>2, <1>3, <1>4, <1>5 DEF Next

(* What is true of tokens, rows and relation rows in every state.          *)
THEOREM InductiveInvariant == Spec => []IInv
  BY InitInv, StepInv, PTL DEF Spec

(* The variables keep their types, for any accounts and subscriptions.     *)
THEOREM TypeCorrect == Spec => []TypeOK
  BY InductiveInvariant, PTL DEF IInv
-----------------------------------------------------------------------------
LEMMA ViewersAreMembers ==
    ASSUME IInv, NEW by \in Accounts, Holds(by), NEW a \in Accounts, Live(a)
    PROVE  IsAccountViewer(by, a) \/ IsPersonViewer(by, a) => made[a] = claims[by]
<1>1. made[by] = claims[by] /\ by # NULL /\ a # NULL
  BY MarkerAssumption DEF MarkerAssumption, IInv, ClaimInv
<1>2. account[a].creator = by => made[a] = claims[by]
  BY <1>1 DEF IInv, RowInv, Live
<1>3. ASSUME NEW kind \in Kinds, IsRelated(kind, a, by)
      PROVE  made[a] = claims[by]
  <2> DEFINE r == Relation(kind, a, claims[by])
  <2>1. r \in relations /\ r.of = a /\ r.subscription = claims[by]
    BY <1>3 DEF IsRelated, Relation
  <2> QED BY <2>1, <1>1 DEF IInv, RelationInv
<1> QED BY <1>1, <1>2, <1>3 DEF IsAccountViewer, IsPersonViewer, Kinds

(* The holder of a token is answered with rows of its own subscription     *)
(* only, and with the row it asked for.                                    *)
THEOREM OwnOnly == Spec => []OwnSubscriptionOnly
<1>1. IInv => OwnSubscriptionOnly
  <2> SUFFICES ASSUME IInv, NEW by \in Accounts, Holds(by)
               PROVE  /\ ListAccounts(by) \subseteq MadeFor(claims[by])
                      /\ \A id \in Accounts :
                            RetrieveAccount(by, id) \cup RetrievePerson(by, id)
                                \subseteq {id} \cap MadeFor(claims[by])
    BY DEF OwnSubscriptionOnly
  <2> QED BY ViewersAreMembers
          DEF ListAccounts, RetrieveAccount, RetrievePerson, WhereAccount,
              WherePerson, MadeFor
<1> QED BY <1>1, InductiveInvariant, PTL

(* Nothing of its subscription that is live is withheld from it.           *)
THEOREM SeeEachOther == Spec => []MembersSeeEachOther
<1>1. IInv => MembersSeeEachOther
  BY DEF IInv, LinkInv, MembersSeeEachOther, ListAccounts, RetrieveAccount,
         RetrievePerson, WhereAccount, WherePerson, IsAccountViewer,
         IsPersonViewer, IsRelated, Kinds
<1> QED BY <1>1, InductiveInvariant, PTL

(* A subscription can be read until the first deletion in it, and never    *)
(* again.                                                                  *)
THEOREM Readable == Spec => []ReadableUntilDeletion
<1>1. IInv => ReadableUntilDeletion
  <2> SUFFICES ASSUME IInv, NEW by \in Accounts, Holds(by), NEW s, s = claims[by]
               PROVE  ToEntity(s) = IF \A a \in MadeFor(s) : Live(a)
                                    THEN MadeFor(s) ELSE Throws
    BY DEF ReadableUntilDeletion, RetrieveSubscription, IsSubscriptionViewer
  <2>1. s # NULL
    BY DEF Holds
  <2>2. CASE \A a \in MadeFor(s) : Live(a)
    <3>1. ASSUME NEW r \in Joined(s)
          PROVE  r.of # NULL /\ Live(r.of) /\ r.of \in MadeFor(s)
      <4>1. r \in relations /\ r \in Relations /\ r.subscription = s
        BY <3>1 DEF Joined, IInv, TypeOK
      <4> QED BY <4>1, <2>2 DEF IInv, RelationInv, Relations, MadeFor
    <3>2. ASSUME NEW a \in MadeFor(s)
          PROVE  \E r \in Joined(s) : r.of = a
      <4> DEFINE r == Relation("account", a, s)
      <4>1. r \in relations /\ r.of = a /\ r.kind = "account" /\ r.subscription = s
        BY <3>2, <2>2 DEF IInv, LinkInv, MadeFor, Kinds, Relation
      <4> QED BY <4>1 DEF Joined
    <3>3. {r.of : r \in Joined(s)} = MadeFor(s)
      BY <3>1, <3>2
    <3> QED BY <2>2, <3>1, <3>3 DEF ToEntity
  <2>3. CASE \E a \in MadeFor(s) : ~Live(a)
    <3> DEFINE r == Relation("account", NULL, s)
    <3>1. r \in relations /\ r.of = NULL /\ r.kind = "account" /\ r.subscription = s
      BY <2>1, <2>3 DEF IInv, LinkInv, MadeFor, Relation
    <3>2. r \in Joined(s)
      BY <3>1 DEF Joined
    <3> QED BY <2>3, <3>1, <3>2 DEF ToEntity
  <2> QED BY <2>2, <2>3
<1> QED BY <1>1, InductiveInvariant, PTL
-----------------------------------------------------------------------------
(* WhereFilter, for any schema of filters.  FilterInv says what the answer *)
(* came of; that SQL's three-valued conditions, joined by AND and OR under *)
(* the parameters' names, then mean what the client meant is shown bottom  *)
(* up: a condition, an element, the elements, the answer.                  *)

FilterInv ==
    /\ list \in Lists
    /\ table \in [Entities -> RowsOf[list]]
    /\ filters \in Seq(Elements[list])
    /\ answer # Unanswered => answer = Answer(filters)

(* A condition of the schema: its column holds a set of values or Null, a  *)
(* single value where the operator compares one.                           *)
LEMMA ConditionType ==
    ASSUME FilterInv, NEW i \in 1 .. Len(filters),
           NEW k \in DOMAIN filters[i], NEW a \in Entities,
           NEW op, op = k[2], NEW v, v = filters[i][k],
           NEW x, x = table[a].holds[k[1]]
    PROVE  /\ op \in UNION Schemas
           /\ v \in OperandsOf(op)
           /\ IF op \in ArrayOperators
              THEN x \in (SUBSET Values) \cup {Null}
              ELSE x \in {{u} : u \in Values} \cup {Null}
<1> DEFINE e == filters[i]
           c == k[1]
<1>1. /\ list \in Lists /\ e \in Elements[list]
      /\ table[a] \in RowsOf[list]
  BY DEF FilterInv
<1>2. PICK K \in SUBSET Offered(list) :
         /\ e \in [K -> AllOperands]
         /\ \A l \in K : e[l] \in list.operands[l[2]]
  BY <1>1 DEF Elements, kSubset
<1>3. /\ k \in Offered(list) /\ e[k] \in list.operands[k[2]]
  BY <1>2
<1>4. /\ c \in DOMAIN list.operators /\ op \in list.operators[c]
      /\ op \in UNION Schemas
  BY <1>3 DEF Offered
<1>5. /\ list.operators[c] \in Schemas
      /\ list.operands[op] \subseteq OperandsOf(op)
  BY <1>1, <1>4, SchemaAssumption DEF SchemaAssumption
<1>6. op \in ArrayOperators <=> list.operators[c] = ArrayOperators
  BY <1>4, <1>5
     DEF Schemas, ArrayOperators, EqualityOperators, StringOperators,
         NumericOperators, DateOperators, IsoDateOperators, BooleanOperators
<1>7. table[a].holds[c] \in ColumnValues(list, c)
  BY <1>1, <1>4 DEF RowsOf
<1> QED BY <1>3, <1>4, <1>5, <1>6, <1>7 DEF ColumnValues

LEMMA OnlyOne ==
    ASSUME NEW v
    PROVE  Only({v}) = v
BY DEF Only

(* The condition an operator becomes is TRUE exactly if it means that.     *)
LEMMA ConditionMeans ==
    ASSUME NEW row, NEW k, NEW v, NEW x, x = row.holds[k[1]],
           NEW op, op = k[2],
           op \in UNION Schemas,
           v \in OperandsOf(op),
           IF op \in ArrayOperators
           THEN x \in (SUBSET Values) \cup {Null}
           ELSE x \in {{u} : u \in Values} \cup {Null}
    PROVE  Condition(op, x, v) = "T" <=> Satisfies(row, k, v)
<1>1. /\ Values \subseteq Int
      /\ \A S \in SUBSET Values : S # Null
  BY SchemaAssumption DEF SchemaAssumption
<1>2. op \in {"eq", "not", "contains", "startsWith", "endsWith", "in", "notIn",
              "gt", "gte", "lt", "lte", "containsAll", "containsAny"}
  BY DEF Schemas, ArrayOperators, EqualityOperators, StringOperators,
         NumericOperators, DateOperators, IsoDateOperators, BooleanOperators
<1>3. CASE v = Null
  <2>1. op \in {"eq", "not"}
    <3>1. CASE op \in SetOperators
      BY <1>1, <1>3, <3>1 DEF OperandsOf
    <3>2. CASE op \notin SetOperators
      <4>1. \A u \in Values : {u} # Null
        BY <1>1
      <4> QED BY <1>3, <3>2, <4>1 DEF OperandsOf, EqualityOperators
    <3> QED BY <3>1, <3>2
  <2> QED BY <1>3, <2>1 DEF Condition, Satisfies, Truth
<1>4. CASE v # Null /\ x = Null
  BY <1>4 DEF Condition, Satisfies
<1>5. CASE v # Null /\ x # Null
  <2>1. CASE op \in ArrayOperators
    <3>1. x \in SUBSET Values /\ v \in SUBSET Values
      BY <1>5, <2>1 DEF OperandsOf, SetOperators
    <3>2. CASE op = "containsAll"
      BY <1>5, <3>1, <3>2 DEF Condition, Satisfies, Truth, Patterns
    <3>3. CASE op = "containsAny"
      BY <1>5, <3>1, <3>3 DEF Condition, Satisfies, Truth, Patterns
    <3> QED BY <2>1, <3>2, <3>3 DEF ArrayOperators
  <2>2. CASE op \in {"in", "notIn"}
    <3>1. PICK u \in Values : x = {u}
      BY <1>5, <2>2 DEF ArrayOperators
    <3>2. Only(x) = u /\ v \in SUBSET Values
      BY <2>2, <3>1, OnlyOne DEF OperandsOf, SetOperators
    <3>3. x \subseteq v <=> u \in v
      BY <3>1, <3>2
    <3>4. CASE op = "in"
      BY <1>5, <3>2, <3>3, <3>4
         DEF Condition, Satisfies, Truth, Patterns
    <3>5. CASE op = "notIn"
      BY <1>5, <3>2, <3>3, <3>5
         DEF Condition, Satisfies, Truth, Patterns
    <3> QED BY <2>2, <3>4, <3>5
  <2>3. CASE op \notin SetOperators
    <3>1. PICK u \in Values : x = {u}
      BY <1>5, <2>3 DEF SetOperators
    <3>2. PICK w \in Values : v = {w}
      BY <1>5, <2>3 DEF OperandsOf
    <3>3. Only(x) = u /\ Only(v) = w /\ u \in Int /\ w \in Int
      BY <1>1, <3>1, <3>2, OnlyOne
    <3>4. x = v <=> u = w
      BY <3>1, <3>2
    <3>5. CASE op = "eq"
      BY <1>5, <3>5 DEF Condition, Satisfies, Truth, Patterns
    <3>6. CASE op = "not"
      BY <1>5, <3>6 DEF Condition, Satisfies, Truth, Patterns
    <3>7. CASE op = "lt"
      BY <1>5, <3>3, <3>7 DEF Condition, Satisfies, Truth, Patterns
    <3>8. CASE op = "lte"
      BY <1>5, <3>3, <3>8 DEF Condition, Satisfies, Truth, Patterns
    <3>9. CASE op = "gt"
      BY <1>5, <3>3, <3>9 DEF Condition, Satisfies, Truth, Patterns
    <3>10. CASE op = "gte"
      BY <1>5, <3>3, <3>10 DEF Condition, Satisfies, Truth, Patterns
    <3>11. CASE op \in Patterns
      BY <1>5, <3>11 DEF Condition, Satisfies, Truth, Patterns
    <3> QED BY <1>2, <2>3, <3>5, <3>6, <3>7, <3>8, <3>9, <3>10, <3>11
            DEF Patterns, SetOperators, ArrayOperators
  <2> QED BY <2>1, <2>2, <2>3 DEF SetOperators
<1> QED BY <1>3, <1>4, <1>5

(* A parameter is named for its element, column and operator: it has the   *)
(* value of its own condition.                                             *)
LEMMA ParameterOwn ==
    ASSUME NEW fs, NEW i \in 1 .. Len(fs), NEW k \in DOMAIN fs[i]
    PROVE  Parameter(fs, ParamKey(i, k)) = fs[i][k]
<1> DEFINE Bound == {j \in 1 .. Len(fs) :
                       \E l \in DOMAIN fs[j] :
                          ParamKey(j, l) = ParamKey(i, k)}
           last == CHOOSE j \in Bound : \A m \in Bound : m <= j
           key == CHOOSE l \in DOMAIN fs[last] :
                     ParamKey(last, l) = ParamKey(i, k)
<1>1. \A j, l : ParamKey(j, l) = ParamKey(i, k) <=> j = i /\ l = k
  BY DEF ParamKey
<1>2. Bound = {i}
  BY <1>1
<1>3. i <= i
  OBVIOUS
<1>4. last = i
  BY <1>2, <1>3
<1>5. key = k
  BY <1>1, <1>4
<1>6. Parameter(fs, ParamKey(i, k)) = fs[last][key]
  BY DEF Parameter
<1> QED BY <1>4, <1>5, <1>6

LEMMA BracketMeans ==
    ASSUME FilterInv, NEW i \in 1 .. Len(filters), NEW a \in Entities
    PROVE  Bracket(filters, i, table[a]) = "T" <=>
              \A k \in DOMAIN filters[i] :
                 Satisfies(table[a], k, filters[i][k])
<1> DEFINE C(k) == Condition(k[2], table[a].holds[k[1]],
                               Parameter(filters, ParamKey(i, k)))
           All == {C(k) : k \in DOMAIN filters[i]}
<1>1. \A k \in DOMAIN filters[i] :
         C(k) = "T" <=> Satisfies(table[a], k, filters[i][k])
  <2> SUFFICES ASSUME NEW k \in DOMAIN filters[i]
               PROVE  C(k) = "T" <=> Satisfies(table[a], k, filters[i][k])
    OBVIOUS
  <2>1. Parameter(filters, ParamKey(i, k)) = filters[i][k]
    BY ParameterOwn
  <2>2. PICK op, v, x : /\ op = k[2] /\ v = filters[i][k]
                        /\ x = table[a].holds[k[1]]
    OBVIOUS
  <2>3. /\ op \in UNION Schemas
        /\ v \in OperandsOf(op)
        /\ IF op \in ArrayOperators
           THEN x \in (SUBSET Values) \cup {Null}
           ELSE x \in {{u} : u \in Values} \cup {Null}
    BY <2>2, ConditionType
  <2>4. PICK row : row = table[a]
    OBVIOUS
  <2>5. x = row.holds[k[1]]
    BY <2>2, <2>4
  <2>6. Condition(op, x, v) = "T" <=> Satisfies(row, k, v)
    BY <2>2, <2>3, <2>5, ConditionMeans
  <2> QED BY <2>1, <2>2, <2>4, <2>6, Zenon
<1>2. \A k \in DOMAIN filters[i] : C(k) \in {"T", "F", "U"}
  BY DEF Condition, Truth
<1>3. Bracket(filters, i, table[a]) = And3(All)
  BY DEF Bracket
<1> HIDE DEF C
<1>4. And3(All) = "T" <=> \A k \in DOMAIN filters[i] : C(k) = "T"
  BY <1>2 DEF And3
<1> QED BY <1>1, <1>3, <1>4

(* The WHERE clause lets a row through exactly if the caller may view it   *)
(* and the filters mean it.                                                *)
LEMMA WhereMeans ==
    ASSUME FilterInv, NEW a \in Entities
    PROVE  Where(filters, table[a]) = "T" <=>
              table[a].visible /\ Meant(filters, table[a])
<1>1. table[a].visible \in BOOLEAN
  BY DEF FilterInv, RowsOf
<1>2. Brackets(filters, table[a]) = "T" <=> Meant(filters, table[a])
  <2>1. CASE filters = <<>>
    BY <2>1 DEF Brackets, Meant
  <2>2. CASE filters # <<>>
    <3> DEFINE B(i) == Bracket(filters, i, table[a])
    <3>1. Brackets(filters, table[a]) =
             Or3({B(i) : i \in 1 .. Len(filters)})
      BY <2>2 DEF Brackets
    <3> HIDE DEF B
    <3>2. Brackets(filters, table[a]) = "T" <=>
             \E i \in 1 .. Len(filters) : B(i) = "T"
      BY <3>1 DEF Or3
    <3> QED BY <2>2, <3>2, BracketMeans DEF Meant, B
  <2> QED BY <2>1, <2>2
<1>3. Brackets(filters, table[a]) \in {"T", "F", "U"}
  BY DEF Brackets, Or3
<1> QED BY <1>1, <1>2, <1>3 DEF Where, And3, Truth

(* The rows of an answer are those the filters mean, and what is refused   *)
(* cannot be written: AddedJoins makes every column of the filters         *)
(* reachable.                                                              *)
LEMMA AnswerMeans ==
    ASSUME FilterInv
    PROVE  /\ IsRefused(filters) => Unwritable(filters)
           /\ ~IsRefused(filters) =>
                 Answer(filters) =
                    {a \in Entities :
                        /\ table[a].visible
                        /\ RelationsOf(filters) \ PresetJoins
                              \subseteq table[a].has
                        /\ Meant(filters, table[a])}
<1>1. IsRefused(filters) => Unwritable(filters)
  BY DEF IsRefused, AddedJoins
<1> DEFINE Left == RelationsOf(filters) \ PresetJoins
<1>2. ASSUME ~IsRefused(filters)
      PROVE  Answer(filters) =
                {a \in Entities : Left \subseteq table[a].has
                                  /\ Where(filters, table[a]) = "T"}
  BY <1>2 DEF Answer, AddedJoins
<1> HIDE DEF Left
<1>3. {a \in Entities : Left \subseteq table[a].has
                        /\ Where(filters, table[a]) = "T"} =
      {a \in Entities : /\ table[a].visible
                        /\ Left \subseteq table[a].has
                        /\ Meant(filters, table[a])}
  BY WhereMeans
<1> QED BY <1>1, <1>2, <1>3 DEF Left

LEMMA FilterStart == FilterInit => FilterInv
  BY DEF FilterInit, FilterInv

LEMMA FilterStep == FilterInv /\ [FilterNext]_filterVars => FilterInv'
<1> SUFFICES ASSUME FilterInv, [FilterNext]_filterVars
             PROVE  FilterInv'
  OBVIOUS
<1>1. CASE AddElement
  <2>1. answer = Unanswered /\ answer' = answer /\ UNCHANGED <<list, table>>
    BY <1>1 DEF AddElement
  <2>2. filters' \in Seq(Elements[list])
    BY <1>1 DEF AddElement, FilterInv
  <2> QED BY <2>1, <2>2 DEF FilterInv
<1>2. ASSUME UNCHANGED <<list, table, filters>>
      PROVE  Answer(filters)' = Answer(filters)
  BY <1>2 DEF Answer, IsRefused, Unwritable, AddedJoins, RelationsOf,
              PresetJoins, RelationOf, Used, Where, Brackets, Bracket
<1>3. CASE Data
  <2>1. answer' = Answer(filters) /\ UNCHANGED <<list, table, filters>>
    BY <1>3 DEF Data
  <2> QED BY <1>2, <2>1 DEF FilterInv
<1>4. CASE UNCHANGED filterVars
  <2>1. UNCHANGED <<list, table, filters, answer>>
    BY <1>4 DEF filterVars
  <2> QED BY <1>2, <2>1 DEF FilterInv
<1> QED BY <1>1, <1>3, <1>4 DEF FilterNext

(* Whatever is added to the filters, the answer is the query's to the      *)
(* filters of the request.                                                 *)
THEOREM FilterInvariant == FilterSpec => []FilterInv
  BY FilterStart, FilterStep, PTL DEF FilterSpec

(* An answer is exactly the rows the caller may view and the filters mean, *)
(* and only what cannot be written as SQL is refused, for every schema of  *)
(* filters and however long they are.                                      *)
THEOREM Answered == FilterSpec => []AnswersWhatIsMeant
<1>1. FilterInv => AnswersWhatIsMeant
  <2> SUFFICES ASSUME FilterInv, answer # Unanswered PROVE AnswersWhatIsMeant
    BY AnswerAssumption DEF AnswersWhatIsMeant, AnswerAssumption
  <2>1. answer = Answer(filters)
    BY DEF FilterInv
  <2>2. CASE IsRefused(filters)
    <3>1. answer = Refused
      BY <2>1, <2>2 DEF Answer
    <3> QED BY <2>2, <3>1, AnswerMeans DEF AnswersWhatIsMeant
  <2>3. CASE ~IsRefused(filters)
    <3>1. answer # Refused
      <4>1. answer \in SUBSET Entities
        BY <2>1, <2>3 DEF Answer
      <4> QED BY <4>1, AnswerAssumption DEF AnswerAssumption
    <3> QED BY <2>1, <2>3, <3>1, AnswerMeans DEF AnswersWhatIsMeant
  <2> QED BY <2>2, <2>3
<1> QED BY <1>1, FilterInvariant, PTL
=============================================================================
