------------------------- MODULE MCAccountLifecycle -------------------------
(***************************************************************************)
(* AccountLifecycle for TLC: a founder, an invited account and one to be   *)
(* made; or two founders.                                                  *)
(***************************************************************************)
EXTENDS AccountLifecycle, TLC

CONSTANTS a1, a2, a3, r1, r2, r3

ThreeAccounts == {a1, a2, a3}
TwoAccounts == {a1, a2}
Founder == {a1}
Invitee == {a2}
None == {}
TwoRequests == {r1, r2}
ThreeRequests == {r1, r2, r3}
=============================================================================
