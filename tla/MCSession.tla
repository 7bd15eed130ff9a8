------------------------------ MODULE MCSession ------------------------------
(* Instances of Session for TLC.                                           *)
EXTENDS Session, TLC

CONSTANTS a1, a2, e1, e2, e3, r1, r2, r3

MCStartEmail == [a \in Registered |-> IF a = a1 THEN e1 ELSE e2]

(* The requests, and the two accounts together with their e-mails.         *)
MCSwap == (a1 :> a2) @@ (a2 :> a1) @@ (e1 :> e2) @@ (e2 :> e1)
MCSymmetry == Permutations(Requests) \cup {MCSwap}
                \cup {p @@ MCSwap : p \in Permutations(Requests)}
=============================================================================
