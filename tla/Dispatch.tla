------------------------------ MODULE Dispatch -------------------------------
(***************************************************************************)
(* The way of an update from Telegram to a handler of the bridge: which    *)
(* kinds of updates have a handler, which ChatID the event gets, and what  *)
(* ResolvePeers makes of the chat ids of the configuration.                *)
(***************************************************************************)
EXTENDS Routing, Integers

CONSTANTS
    Groups,     \* the groups of the account, type "PeerChat" or
                \* "PeerChannel" and a bare id
    Offset      \* the 1_000_000_000_000 of the -100 form

VARIABLES
    peers,      \* peerByID: the channel each configured id stands for
    updates,    \* the updates Telegram has sent
    handled,    \* those the dispatcher has seen
    heard       \* those for which a handler of the bridge goes on

vars == <<peers, updates, handled, heard>>
------------------------------------------------------------------------------
Acts == {"NewMessage", "EditMessage", "DeleteMessages", "MessageReactions"}

\* Telegram has update types of their own for supergroups and channels.
Kind(act, group) ==
    CASE group.type = "PeerChat" \/ act = "MessageReactions" -> act
      [] act = "NewMessage" -> "NewChannelMessage"
      [] act = "EditMessage" -> "EditChannelMessage"
      [] act = "DeleteMessages" -> "DeleteChannelMessages"

\* The types with a handler in the dispatcher.
Handlers == {"NewMessage", "EditMessage", "EditChannelMessage",
             "DeleteMessages", "DeleteChannelMessages", "MessageReactions"}

\* Every kind of peer is turned into its bare id.
peerID(peer) == peer.id

ChatID(u) == IF u.kind = "DeleteMessages" THEN 0 ELSE peerID(u.group)

ChannelID(c) == (-c) - Offset

ResolvePeers ==
    /\ peers' = [c \in {d \in Chats : \E g \in Groups :
                            g.type = "PeerChannel" /\ g.id = ChannelID(d)}
                     |-> ChannelID(c)]
    /\ UNCHANGED <<updates, handled, heard>>

\* A member of a group does something.
Act(group, act) ==
    /\ updates' = updates \cup {[kind |-> Kind(act, group), group |-> group]}
    /\ UNCHANGED <<peers, handled, heard>>

\* The dispatcher calls the handler for the type, and the handler goes on if
\* the chat of the event is configured (OnReactions asks the table instead,
\* whose rows have the ids of configured chats).
Handle(u) ==
    /\ u \notin handled
    /\ handled' = handled \cup {u}
    /\ heard' = IF u.kind \in Handlers /\ ChatID(u) \in Chats
                THEN heard \cup {u} ELSE heard
    /\ UNCHANGED <<peers, updates>>

Next ==
    \/ ResolvePeers
    \/ \E group \in Groups, act \in Acts : Act(group, act)
    \/ \E u \in updates : Handle(u)

Init == peers = <<>> /\ updates = {} /\ handled = {} /\ heard = {}

Spec == Init /\ [][Next]_vars
------------------------------------------------------------------------------
\* What the members of a chat do reaches the bridge when the id of the chat is
\* configured and stands for this chat (README.md:36-41, "Поддерживаемые
\* события"; bridge.go:135-139, "stored in config as negative values in the
\* -100XXXXXXXXXX form").
MembersAreHeard ==
    \A u \in handled :
        /\ u.group.type = "PeerChannel"
        /\ \E c \in DOMAIN peers : peers[c] = u.group.id
        => u \in heard
==============================================================================
