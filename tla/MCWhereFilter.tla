---------------------------- MODULE MCWhereFilter -----------------------------
(* WhereFilter for TLC: the list of GET /accounts, and another one.        *)
EXTENDS WhereFilter, TLC

CONSTANTS entityId, lastName, createdAt, labels, person

(* 1 = "a", 2 = "ab": the second contains and starts with the first.       *)
LikeText == [op \in Patterns |-> [v \in 1 .. 2 |->
                IF v = 1 /\ op # "endsWith" THEN 1 .. 2 ELSE {v}]]
TwoValues == 1 .. 2

(* A few operands for each operator; an empty list where one can be given. *)
SomeOperands == [op \in {"eq", "not", "in", "notIn", "lt", "lte", "gt", "gte",
                         "containsAll", "containsAny"} \cup Patterns |->
    CASE op = "eq" -> {{1}, {2}}
      [] op \in {"in", "containsAny"} -> {{}, {1, 2}}
      [] OTHER -> {{1}}]
(* Callers inside the program may also compare with null.                  *)
NullOperands == [SomeOperands EXCEPT !["eq"] = {{1}, Null}, !["not"] = {Null},
                                     !["notIn"] = {{1, 2}}, !["containsAll"] = {{1, 2}}]

(* account.list.request.ts: lastName is person__lastName.                  *)
AccountList ==
    [operators |-> [c \in {entityId, lastName} |-> StringOperators],
     operands |-> SomeOperands,
     relationOf |-> [c \in {entityId, lastName} |->
                        IF c = lastName THEN person ELSE Null],
     presetJoins |-> {person},
     uuidColumns |-> {entityId}]

(* A date and an array column, for the operators no list uses yet, behind  *)
(* a _query() that joins nothing.                                          *)
OtherList ==
    [operators |-> [c \in {lastName, createdAt, labels} |->
        CASE c = lastName  -> EqualityOperators
          [] c = createdAt -> DateOperators
          [] c = labels    -> ArrayOperators],
     operands |-> NullOperands,
     relationOf |-> [c \in {lastName, createdAt, labels} |->
                        IF c = lastName THEN person ELSE Null],
     presetJoins |-> {},
     uuidColumns |-> {}]

BothLists == {AccountList, OtherList}
=============================================================================
