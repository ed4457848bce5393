----------------------------- MODULE MCReactions -----------------------------
(***************************************************************************)
(* Reactions on a small instance: one row, three standard emojis of which  *)
(* the merchant's chat forbids one, and a custom one it permits.           *)
(***************************************************************************)
EXTENDS Reactions, TLC

CONSTANTS A, B, m1, s1, like, fire, cry, star

OneRow == {[srcChat |-> m1, src |-> 1, dstChat |-> s1, dst |-> 1]}

NotTheSame == m1 :> {like, fire, star} @@ s1 :> {like, fire, cry}

AllPeers == {{m1, s1}}
==============================================================================
