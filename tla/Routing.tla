------------------------------- MODULE Routing -------------------------------
(***************************************************************************)
(* The routing table of the bridge: the configured merchant/support pairs, *)
(* the double-entry map bridge.New builds from them, and the filter every  *)
(* handler of messages and edits starts with.                              *)
(***************************************************************************)
EXTENDS Naturals

CONSTANT Pairs      \* the pairs of config.yaml: [key, merchant, support]

\* What validatePairs enforces before anything starts: keys are unique, the
\* two chats of a pair differ, and no chat is used by two pairs.
ASSUME PairsAssumption ==
    /\ \A p \in Pairs : p.merchant # p.support
    /\ \A p, q \in Pairs : p # q =>
           /\ p.key # q.key
           /\ {p.merchant, p.support} \cap {q.merchant, q.support} = {}

Keys == {p.key : p \in Pairs}

\* The keys of pairsByChat.
Chats == UNION {{p.merchant, p.support} : p \in Pairs}

\* pairsByChat[c]
PairOf(c) == CHOOSE p \in Pairs : c \in {p.merchant, p.support}

\* TargetChatID: the other side of the pair of c.
Target(c) == IF c = PairOf(c).merchant THEN PairOf(c).support
                                       ELSE PairOf(c).merchant

Directions == {"merchant_to_support", "support_to_merchant"}

Direction(c) == IF c = PairOf(c).merchant THEN "merchant_to_support"
                                          ELSE "support_to_merchant"

\* Mutant of IsRelevant: the account's own messages pass.
IsRelevantFromAnyone(c, from, self) == c \in Chats

IsRelevant(c, from, self) == c \in Chats /\ from # self
==============================================================================
