------------------------------ MODULE Mirroring ------------------------------
(***************************************************************************)
(* What the members of two paired chats see of the bridge, whatever        *)
(* happens to it: they write, edit and delete; each message may get copies *)
(* in the other chat, which appear in the order of their sources, reply to *)
(* the counterparts of what these reply to, follow their edits, one        *)
(* revision or several at a time and never backwards, and disappear only   *)
(* when their source is deleted or a moderator deletes them.  Copies are   *)
(* never copied.  How many copies there are, and whether they come at all, *)
(* is left open.                                                           *)
(***************************************************************************)
EXTENDS Naturals, Sequences

CONSTANTS
    Chats,      \* the chats of all pairs
    Other(_),   \* the chat a chat is paired with
    Accounts,   \* the accounts the bridge works with
    User        \* everybody else

VARIABLES
    chat,       \* chat[c]: what was written in c,
                \* [from, text, reply, origin, alive]; origin is the message
                \* of the other chat it copies, 0 for the messages of User
    removed     \* removed[c]: the messages that members deleted in c

Add(c, m) == chat' = [chat EXCEPT ![c] = Append(@, m)] /\ UNCHANGED removed

Shown(c, i) == i \in 1..Len(chat[c]) /\ chat[c][i].alive

Copies(c) == {i \in 1..Len(chat[c]) : chat[c][i].origin # 0}

\* The messages of c that stand for message i of the other chat.
Counterparts(c, i) ==
    {j \in 1..Len(chat[c]) : chat[c][j].origin = i \/ chat[Other(c)][i].origin = j}
------------------------------------------------------------------------------
Write(c, r) ==
    /\ r = 0 \/ Shown(c, r)
    /\ Add(c, [from |-> User, text |-> 1, reply |-> r, origin |-> 0,
               alive |-> TRUE])

Revise(c, i) ==
    /\ Shown(c, i) /\ i \notin Copies(c)
    /\ chat' = [chat EXCEPT ![c][i].text = @ + 1]
    /\ UNCHANGED removed

Remove(c, ids) ==
    /\ \A i \in ids : Shown(c, i)
    /\ chat' = [chat EXCEPT ![c] = [i \in DOMAIN @ |->
                    IF i \in ids THEN [@[i] EXCEPT !.alive = FALSE] ELSE @[i]]]
    /\ removed' = [removed EXCEPT ![c] = @ \cup ids]

\* Message i of the other chat gets a copy in c.
Relay(c, i, r, a) ==
    LET asked == chat[Other(c)][i].reply
    IN  /\ i \in 1..Len(chat[Other(c)]) /\ i \notin Copies(Other(c))
        /\ \A j \in Copies(c) : chat[c][j].origin <= i
        /\ r # 0 => asked # 0 /\ r \in Counterparts(c, asked)
        /\ Add(c, [from |-> a, text |-> 1, reply |-> r, origin |-> i,
                   alive |-> TRUE])

\* Copy i shows a later revision of its source.
Follow(c, i) ==
    LET source == chat[Other(c)][chat[c][i].origin]
    IN  /\ Shown(c, i) /\ i \in Copies(c)
        /\ \E text \in (chat[c][i].text + 1)..source.text :
               chat' = [chat EXCEPT ![c][i].text = text]
        /\ UNCHANGED removed

Withdraw(c, i) ==
    /\ Shown(c, i) /\ i \in Copies(c) /\ ~Shown(Other(c), chat[c][i].origin)
    /\ chat' = [chat EXCEPT ![c][i].alive = FALSE]
    /\ UNCHANGED removed
------------------------------------------------------------------------------
Next ==
    \E c \in Chats :
        \/ \E ids \in SUBSET (1..Len(chat[c])) : Remove(c, ids)
        \/ \E r \in 0..Len(chat[c]) : Write(c, r)
        \/ \E i \in 1..Len(chat[c]) : Revise(c, i) \/ Follow(c, i) \/ Withdraw(c, i)
        \/ \E i \in 1..Len(chat[Other(c)]), r \in 0..Len(chat[c]), a \in Accounts :
               Relay(c, i, r, a)

Init == chat = [c \in Chats |-> <<>>] /\ removed = [c \in Chats |-> {}]

Spec == Init /\ [][Next]_<<chat, removed>>
==============================================================================
