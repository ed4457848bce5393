----------------------------- MODULE MCDispatch ------------------------------
(***************************************************************************)
(* A small instance of Dispatch: the two supergroups of a pair, configured *)
(* in the -100 form, and a basic group with the bare id of one of them.    *)
(***************************************************************************)
EXTENDS Dispatch

OnePair == {[key |-> "merch_1", merchant |-> -101, support |-> -102]}

ThreeGroups == {[type |-> "PeerChannel", id |-> 1],
                [type |-> "PeerChannel", id |-> 2],
                [type |-> "PeerChat", id |-> 1]}
==============================================================================
