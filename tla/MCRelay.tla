------------------------------- MODULE MCRelay -------------------------------
(***************************************************************************)
(* Small instances of Relay: one merchant/support pair, one account, or    *)
(* two that take shifts, and budgets that allow a few acts of each kind.   *)
(***************************************************************************)
EXTENDS Relay

CONSTANTS m1, s1, A, B, u

OnePair == {[key |-> "merch_1", merchant |-> m1, support |-> s1]}

AllPeers == {{m1, s1}}

\* channels.getChannels may answer without one of the chats.
SomePeers == {{m1, s1}, {s1}}

None == [k \in EnvActs |-> 0]

\* Telegram or PostgreSQL fail now and then.
ErrorBudget ==
    [None EXCEPT !["post"] = 2, !["edit"] = 1, !["remove"] = 1,
                 !["db"] = 1, !["transient"] = 1, !["flood"] = 1,
                 !["forbidden"] = 1]

\* Sessions end at any moment, and an answer of Telegram gets lost, or does not
\* name the message it is about.
RestartBudget ==
    [None EXCEPT !["post"] = 2, !["edit"] = 2, !["restart"] = 1,
                 !["lost"] = 1, !["short"] = 1]

\* Members write and edit at most three times between them, and two of the
\* three mishaps meet.
FewActs ==
    /\ budget["post"] + budget["edit"] >= 1
    /\ budget["restart"] + budget["lost"] + budget["short"] >= 1

\* Shift changes.
ShiftBudget == [None EXCEPT !["post"] = 2, !["edit"] = 1, !["restart"] = 1]
==============================================================================
