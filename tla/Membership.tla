------------------------------ MODULE Membership ------------------------------
(***************************************************************************)
(* Who belongs to a subscription and what its members are shown: accounts, *)
(* persons, the relation rows that tie them to a subscription, and the     *)
(* view permissions that every query of a request is filtered by.          *)
(*                                                                         *)
(* A handler is one step here, its committed transaction; AccountLifecycle *)
(* has what happens inside.  An account and its person are made and        *)
(* deleted together and share a name.                                      *)
(***************************************************************************)
CONSTANTS Accounts, Subscriptions,
          NULL,     \* a column without a value
          NoRow,    \* no row was ever inserted
          Throws    \* a TypeError, answered as 500

ASSUME MarkerAssumption == NULL \notin Accounts \cup Subscriptions

VARIABLES account,   \* account id -> its row (its person's has the same fields)
          relations, \* rows of account_entity_relation, person_entity_relation
          claims,    \* account id -> the subscription its ID tokens name
          made       \* history: account id -> subscription it was made for

vars == <<account, relations, claims, made>>
-----------------------------------------------------------------------------
Kinds == {"account", "person"}

(* creator: created_by.                                                    *)
Rows == [live: BOOLEAN, creator: Accounts \cup {NULL}]

ASSUME NoRowAssumption == NoRow \notin Rows

(* of: account_id or person_id; subscription: entity_id.  A set: rows that *)
(* were unlinked and agree in the rest count as one.                       *)
Relations == [kind: Kinds, of: Accounts \cup {NULL}, subscription: Subscriptions]

Relation(kind, a, s) == [kind |-> kind, of |-> a, subscription |-> s]

Live(a) == account[a] # NoRow /\ account[a].live

(* Tokens outlive the account: only their signature is checked.            *)
Holds(by) == claims[by] # NULL

-----------------------------------------------------------------------------
(* View permissions.  A query without withDeleted() returns live rows; the *)
(* joined relation row must name the row itself.                           *)

IsRelated(kind, a, by) == Relation(kind, a, claims[by]) \in relations

IsAccountViewer(by, a) == \/ a = by
                          \/ account[a].creator = by
                          \/ IsRelated("account", a, by)

IsPersonViewer(by, a) == \/ account[a].creator = by
                         \/ IsRelated("person", a, by)

(* Mutant: the alternatives are not in Brackets.                           *)
WithoutBrackets(by, id, a) == \/ a = id /\ a = by
                              \/ account[a].creator = by
                              \/ IsRelated("account", a, by)
WhereAccount(by, id, a) == a = id /\ IsAccountViewer(by, a)

WherePerson(by, id, a) == a = id /\ IsPersonViewer(by, a)

(* The rows getOne() may take its answer from; none is NOT_FOUND.          *)
RetrieveAccount(by, id) == {a \in Accounts : Live(a) /\ WhereAccount(by, id, a)}
RetrievePerson(by, id) == {a \in Accounts : Live(a) /\ WherePerson(by, id, a)}
ListAccounts(by) == {a \in Accounts : Live(a) /\ IsAccountViewer(by, a)}

IsSubscriptionViewer(by, s) == claims[by] = s

Joined(s) == {r \in relations : r.kind = "account" /\ r.subscription = s}

(* toEntity takes the account of each joined relation row.  The account is *)
(* left-joined: without a live one it is null and `account!` throws.       *)
ToEntity(s) ==
    IF \E r \in Joined(s) : r.of = NULL \/ ~Live(r.of) THEN Throws
    ELSE {r.of : r \in Joined(s)}

(* NOT_FOUND is {}.  The update reads the subscription in the same way.    *)
RetrieveSubscription(by, s) == IF IsSubscriptionViewer(by, s) THEN ToEntity(s) ELSE {}

-----------------------------------------------------------------------------
Init == /\ account = [a \in Accounts |-> NoRow]
        /\ relations = {}
        /\ claims = [a \in Accounts |-> NULL]
        /\ made = [a \in Accounts |-> NULL]

New(a, s, creator, new) ==
    /\ account[a] = NoRow
    /\ account' = [account EXCEPT ![a] = [live |-> TRUE, creator |-> creator]]
    /\ relations' = relations \cup new
    /\ made' = [made EXCEPT ![a] = s]
    /\ UNCHANGED claims

SignUpRelations(a, s) == {Relation(kind, a, s) : kind \in Kinds}

(* SubscriptionCreateHandler; nobody is signed in, created_by stays empty. *)
SubscriptionCreate(s, a) ==
    /\ \A b \in Accounts : made[b] # s
    /\ New(a, s, NULL, SignUpRelations(a, s))

(* Mutant: the person's relation is forgotten; its creator still sees it.  *)
AccountRelation(by, a) == {Relation("account", a, claims[by])}
(* Mutant: the relation of the account names its creator.                  *)
CallersRelation(by, a) == {Relation("person", a, claims[by]),
                           Relation("account", by, claims[by])}
(* In the subscription of the caller's token.                              *)
AccountRelations(by, a) == {Relation(kind, a, claims[by]) : kind \in Kinds}

(* AccountCreateHandler; a caller that was deleted meanwhile still can.    *)
AccountCreate(by, a) ==
    /\ Holds(by)
    /\ New(a, claims[by], by, AccountRelations(by, a))

SubscriptionOf(a) ==
    {r.subscription : r \in {q \in relations : q.of = a /\ q.kind = "account"}}

(* PersonAccountVerifyHandler: the login's attributes are the claims.      *)
Verify(a) ==
    /\ Live(a)
    /\ claims[a] = NULL
    /\ \E s \in SubscriptionOf(a) : claims' = [claims EXCEPT ![a] = s]
    /\ UNCHANGED <<account, relations, made>>

(* softRemove cascades to the relations it was given, which are none: that *)
(* takes the others from the row (account_id, person_id = NULL) and leaves *)
(* them to the subscription.                                               *)
Unlinked(a) == {IF r.of = a THEN [r EXCEPT !.of = NULL] ELSE r : r \in relations}

(* AccountDeleteHandler; one's own account is FORBIDDEN.                   *)
Delete(by, a) ==
    /\ Holds(by) /\ by # a
    /\ a \in RetrieveAccount(by, a)
    /\ account' = [account EXCEPT ![a].live = FALSE]
    /\ relations' = Unlinked(a)
    /\ UNCHANGED <<claims, made>>

Next == \E a \in Accounts :
    \/ \E s \in Subscriptions : SubscriptionCreate(s, a)
    \/ Verify(a)
    \/ \E by \in Accounts : AccountCreate(by, a) \/ Delete(by, a)

Spec == Init /\ [][Next]_vars
-----------------------------------------------------------------------------
(* Types of the state.                                                     *)
TypeOK == /\ account \in [Accounts -> Rows \cup {NoRow}]
          /\ relations \subseteq Relations
          /\ claims \in [Accounts -> Subscriptions \cup {NULL}]
          /\ made \in [Accounts -> Subscriptions \cup {NULL}]

MadeFor(s) == {a \in Accounts : made[a] = s}

(* No request is answered with an account or a person of another           *)
(* subscription, nor with one it did not ask for, although what somebody   *)
(* created is shown to them whatever it is related to                      *)
(* (account.user.is-viewer.ts:27-45) and tokens stay good after a deletion. *)
OwnSubscriptionOnly ==
    \A by \in Accounts : Holds(by) =>
        /\ ListAccounts(by) \subseteq MadeFor(claims[by])
        /\ \A id \in Accounts :
              RetrieveAccount(by, id) \cup RetrievePerson(by, id)
                  \subseteq {id} \cap MadeFor(claims[by])

(* Whoever holds a token of a subscription is shown every account and      *)
(* person that was made for it, by whomever, until it is deleted.          *)
MembersSeeEachOther ==
    \A by, a \in Accounts :
        Holds(by) /\ Live(a) /\ made[a] = claims[by] =>
            a \in ListAccounts(by) \cap RetrieveAccount(by, a) \cap RetrievePerson(by, a)

(* A subscription is read with exactly its accounts for as long as none of *)
(* them has been deleted; from the first deletion on neither a retrieval   *)
(* nor an update gets past reading it (subscription.dao.ts:46-50).         *)
ReadableUntilDeletion ==
    \A by \in Accounts : Holds(by) =>
        LET s == claims[by]
        IN  RetrieveSubscription(by, s) =
                IF \A a \in MadeFor(s) : Live(a) THEN MadeFor(s) ELSE Throws
=============================================================================
