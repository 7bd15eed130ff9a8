---------------------------- MODULE MCLoginEmail ----------------------------
(* Instances of LoginEmail for TLC.                                        *)
EXTENDS LoginEmail, TLC

CONSTANTS a1, a2, a3, e1, e2, r1, r2, r3

MCStartEmail == [a \in Founders |-> IF a = a1 THEN e1 ELSE e2]

(* The founders are alike, each with its e-mail. *)
MCSwap == [x \in {a1, a2, e1, e2} |-> CASE x = a1 -> a2 [] x = a2 -> a1
                                       [] x = e1 -> e2 [] OTHER -> e1]

MCSymmetry == Permutations(Requests)
                  \cup {p @@ MCSwap : p \in Permutations(Requests)}
=============================================================================
