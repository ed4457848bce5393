------------------------------ MODULE Reactions ------------------------------
(***************************************************************************)
(* OnReactions: the reactions the members put on one side of a row of the  *)
(* mapping table are shown on the other side as reactions of the account.  *)
(*                                                                         *)
(* Telegram (external) tells of a change with the aggregate of all         *)
(* reactions of the message, those of the accounts included.  What an      *)
(* account does itself comes back as the answer of its call, which the     *)
(* bridge ignores, and not as an update.  Updates about reactions carry no *)
(* pts: those of a message are handled in order, one at a time, and what   *)
(* happens between two sessions may never be told.                         *)
(***************************************************************************)
EXTENDS Naturals, Sequences, FiniteSets, Mappings, Retry

CONSTANTS
    Rows,       \* the rows there may be: [srcChat, src, dstChat, dst]
    Accounts,   \* the accounts that take shifts
    Standard,   \* standard emojis
    Custom,     \* premium custom emojis
    Allowed,    \* Allowed[chat]: the emojis its settings permit
    PeerSets,   \* what ResolvePeers may resolve: each a set of chats
    MaxReacts,  \* how often members change reactions
    MaxEvents   \* how many other things happen, each kind once at most

Failures == {"lost", "db"} \cup Errors

Events == {"save", "evict", "restart"} \cup Failures

\* The messages of the rows.
Messages == {<<r.srcChat, r.src>> : r \in Rows}
              \cup {<<r.dstChat, r.dst>> : r \in Rows}

Chats == {k[1] : k \in Messages}

Emojis == Standard \cup Custom

ASSUME ReactionsAssumption ==
    /\ Standard \cap Custom = {}
    /\ Allowed \in [Chats -> SUBSET Emojis]
    /\ PeerSets \subseteq SUBSET Chats
    /\ MaxReacts \in Nat /\ MaxEvents \in Nat

VARIABLES
    users,      \* users[k]: the reactions of the members to message k
    own,        \* own[a][k]: the reactions of account a to message k
    log,        \* log[k]: the aggregates Telegram told of
    seen,       \* seen[k]: how many of them were handled, or never arrived
    cache,      \* rCache; a missing entry is an empty set
    handler,    \* handler[k]: the call of OnReactions about message k
    rows,       \* the rows saved so far
    active,     \* the account that is connected
    peers,      \* keys of peerByID
    sent,       \* history: sent[a][k], the sets a mirrored because of k
    reacts,     \* how often members changed reactions
    happened    \* the events there were

vars == <<users, own, log, seen, cache, handler, rows, active, peers, sent,
          reacts, happened>>

Handler == [at : {"idle", "source", "target", "send", "done"},
            set : SUBSET Standard, to : Messages, retry : RetryState]

TypeOK ==
    /\ users \in [Messages -> SUBSET Emojis]
    /\ own \in [Accounts -> [Messages -> SUBSET Standard]]
    /\ log \in [Messages -> Seq(SUBSET Emojis)]
    /\ seen \in [Messages -> Nat] /\ \A k \in Messages : seen[k] <= Len(log[k])
    /\ cache \in [Messages -> SUBSET Standard]
    /\ handler \in [Messages -> Handler]
    /\ rows \in SUBSET Rows
    /\ active \in Accounts
    /\ peers \in SUBSET Chats
    /\ sent \in [Accounts -> [Messages -> Seq(SUBSET Standard)]]
    /\ reacts \in Nat /\ happened \in SUBSET Events
------------------------------------------------------------------------------
Idle(k) == [at |-> "idle", set |-> {}, to |-> k, retry |-> FreshRetry]

At(k, step) == handler[k].at = step

Pending(k) == seen[k] < Len(log[k])

Current(k) == log[k][seen[k] + 1]

Happens(event) ==
    /\ event \notin happened /\ Cardinality(happened) < MaxEvents
    /\ happened' = happened \cup {event}

Return(k) == handler' = [handler EXCEPT ![k].at = "done"]

\* MessageReactions.Results: every reaction somebody has put.
Aggregate(k, set) == set \cup UNION {own[a][k] : a \in Accounts}
------------------------------------------------------------------------------
(* A reaction appears on a message, or the last of its kind is removed.    *)
React(k, e) ==
    /\ e \in Allowed[k[1]]
    /\ reacts < MaxReacts /\ reacts' = reacts + 1
    /\ users' = [users EXCEPT ![k] = IF e \in @ THEN @ \ {e} ELSE @ \cup {e}]
    /\ log' = [log EXCEPT ![k] = Append(@, Aggregate(k, users'[k]))]
    /\ UNCHANGED <<own, seen, cache, handler, rows, active, peers, sent,
                   happened>>

\* The relay of the message gets to its row.
Save(r) ==
    /\ r \notin rows /\ Happens("save")
    /\ rows' = rows \cup {r}
    /\ UNCHANGED <<users, own, log, seen, cache, handler, active, peers, sent,
                   reacts>>
------------------------------------------------------------------------------
\* Mutant of StandardSet: custom emojis are sent as well.
StandardSetAndCustom(set) == set

\* What is left of an aggregate without custom emojis.
StandardSet(set) == set \cap Standard

\* Mutants of Look: only additions count as a change, and the cache learns of
\* additions only.
LookForAdded(k) ==
    LET set == StandardSet(Current(k))
    IN  /\ At(k, "idle") /\ Pending(k)
        /\ cache' = [cache EXCEPT ![k] = set]
        /\ handler' = [handler EXCEPT
               ![k].at = IF set \subseteq cache[k] THEN "done" ELSE "source",
               ![k].set = set]
        /\ UNCHANGED <<users, own, log, seen, rows, active, peers, sent, reacts,
                   happened>>

LookAndAdd(k) ==
    LET set == StandardSet(Current(k))
    IN  /\ At(k, "idle") /\ Pending(k)
        /\ cache' = [cache EXCEPT ![k] = @ \cup set]
        /\ handler' = [handler EXCEPT
               ![k].at = IF set = cache[k] THEN "done" ELSE "source",
               ![k].set = set]
        /\ UNCHANGED <<users, own, log, seen, rows, active, peers, sent, reacts,
                   happened>>

\* OnReactions starts: the cache takes the new set at once, and a set equal to
\* the old one ends it.
Look(k) ==
    LET set == StandardSet(Current(k))
    IN  /\ At(k, "idle") /\ Pending(k)
        /\ cache' = [cache EXCEPT ![k] = set]
        /\ handler' = [handler EXCEPT
               ![k].at = IF set = cache[k] THEN "done" ELSE "source",
               ![k].set = set]
        /\ UNCHANGED <<users, own, log, seen, rows, active, peers, sent, reacts,
                   happened>>

\* The mirror is known: go on if its chat has a peer.
Found(k, to) ==
    IF to[1] \in peers
    THEN handler' = [handler EXCEPT ![k].at = "send", ![k].to = to]
    ELSE Return(k)

\* findReactionMirror: the message as the source of a row ...
FindMirror(k) ==
    /\ At(k, "source")
    /\ \/ /\ \E r \in FindBySource(rows, k[1], k[2]) :
                 Found(k, <<r.dstChat, r.dst>>)
          /\ UNCHANGED happened
       \/ /\ FindBySource(rows, k[1], k[2]) = {}
          /\ handler' = [handler EXCEPT ![k].at = "target"]
          /\ UNCHANGED happened
       \/ Happens("db") /\ Return(k)
    /\ UNCHANGED <<users, own, log, seen, cache, rows, active, peers, sent,
                   reacts>>

\* ... or else as the target of one.
FindOriginal(k) ==
    /\ At(k, "target")
    /\ \/ /\ \E r \in FindByTarget(rows, k[1], k[2]) :
                 Found(k, <<r.srcChat, r.src>>)
          /\ UNCHANGED happened
       \/ /\ FindByTarget(rows, k[1], k[2]) = {}
          /\ Return(k)
          /\ UNCHANGED happened
       \/ Happens("db") /\ Return(k)
    /\ UNCHANGED <<users, own, log, seen, cache, rows, active, peers, sent,
                   reacts>>

\* Mutants of Reaches: only what was added goes into the call, and the set that
\* was mirrored before goes out again.
ReachesAdded(k) ==
    /\ own' = [own EXCEPT ![active][handler[k].to] = @ \cup handler[k].set]
    /\ sent' = [sent EXCEPT ![active][k] = Append(@, handler[k].set)]

ReachesLate(k) ==
    LET n == Len(sent[active][k])
        set == IF n > 1 THEN sent[active][k][n - 1] ELSE handler[k].set
    IN  /\ own' = [own EXCEPT ![active][handler[k].to] = set]
        /\ sent' = [sent EXCEPT ![active][k] = Append(@, set)]

\* Telegram carries the call out: the set replaces what the account had there.
Reaches(k) ==
    /\ own' = [own EXCEPT ![active][handler[k].to] = handler[k].set]
    /\ sent' = [sent EXCEPT ![active][k] = Append(@, handler[k].set)]

\* A chat takes a set as a whole or not at all.
Permits(k) == handler[k].set \subseteq Allowed[handler[k].to[1]]

\* sendReaction succeeds; REACTION_INVALID counts as success.
Send(k) ==
    /\ At(k, "send")
    /\ IF Permits(k) THEN Reaches(k) ELSE UNCHANGED <<own, sent>>
    /\ Return(k)
    /\ UNCHANGED <<users, log, seen, cache, rows, active, peers, reacts,
                   happened>>

\* One attempt of withRetry fails; any error that it returns, a refusal
\* included, is logged and forgotten.
AttemptFails(k, e) ==
    IF Verdict(handler[k].retry, e) = "again"
    THEN handler' = [handler EXCEPT ![k].retry = NextTry(@, e)]
    ELSE Return(k)

SendFails(k) ==
    /\ At(k, "send")
    /\ \E e \in Errors : Happens(e) /\ AttemptFails(k, e)
    /\ UNCHANGED <<users, own, log, seen, cache, rows, active, peers, sent,
                   reacts>>

SendLost(k) ==
    /\ At(k, "send") /\ Permits(k)
    /\ Happens("lost")
    /\ Reaches(k)
    /\ AttemptFails(k, "transient")
    /\ UNCHANGED <<users, log, seen, cache, rows, active, peers, reacts>>

Finish(k) ==
    /\ At(k, "done")
    /\ handler' = [handler EXCEPT ![k] = Idle(k)]
    /\ seen' = [seen EXCEPT ![k] = @ + 1]
    /\ UNCHANGED <<users, own, log, cache, rows, active, peers, sent, reacts,
                   happened>>
------------------------------------------------------------------------------
\* The hourly cleanup finds an entry nobody refreshed for 24 hours.
Evict(k) ==
    /\ At(k, "idle") /\ cache[k] # {} /\ Happens("evict")
    /\ cache' = [cache EXCEPT ![k] = {}]
    /\ UNCHANGED <<users, own, log, seen, handler, rows, active, peers, sent,
                   reacts>>

\* The session ends and account a starts the next one with a new bridge.Impl,
\* whose cache is empty.  The updates about the messages in missed are lost.
Restart(a, resolved, missed) ==
    /\ Happens("restart")
    /\ active' = a
    /\ peers' = resolved
    /\ cache' = [k \in Messages |-> {}]
    /\ handler' = [k \in Messages |-> Idle(k)]
    /\ seen' = [k \in Messages |->
                   IF k \in missed THEN Len(log[k]) ELSE seen[k]]
    /\ UNCHANGED <<users, own, log, rows, sent, reacts>>
------------------------------------------------------------------------------
OnReactions(k) ==
    \/ Look(k) \/ FindMirror(k) \/ FindOriginal(k)
    \/ Send(k) \/ SendFails(k) \/ SendLost(k) \/ Finish(k)

Members == \E k \in Messages, e \in Emojis : React(k, e)

Sessions ==
    \E a \in Accounts, resolved \in PeerSets, missed \in SUBSET Messages :
        Restart(a, resolved, missed)

Next ==
    \/ Members
    \/ \E r \in Rows : Save(r)
    \/ \E k \in Messages : OnReactions(k) \/ Evict(k)
    \/ Sessions

Init ==
    /\ users = [k \in Messages |-> {}]
    /\ own = [a \in Accounts |-> [k \in Messages |-> {}]]
    /\ log = [k \in Messages |-> <<>>]
    /\ seen = [k \in Messages |-> 0]
    /\ cache = [k \in Messages |-> {}]
    /\ handler = [k \in Messages |-> Idle(k)]
    /\ rows \in SUBSET Rows
    /\ active \in Accounts
    /\ peers \in PeerSets
    /\ sent = [a \in Accounts |-> [k \in Messages |-> <<>>]]
    /\ reacts = 0 /\ happened = {}

Spec == Init /\ [][Next]_vars

\* Queries and calls end, with a result or an error.
FairSpec == Spec /\ \A k \in Messages : WF_vars(OnReactions(k))
------------------------------------------------------------------------------
(* Properties. *)

Counterparts(k) ==
    {<<r.dstChat, r.dst>> : r \in FindBySource(Rows, k[1], k[2])}
      \cup {<<r.srcChat, r.src>> : r \in FindByTarget(Rows, k[1], k[2])}

\* What an account shows on a message was, as a whole, the standard part of one
\* aggregate of a counterpart: never a mix of two ("replaces all of the bot's
\* existing reactions in a single call", reactions.go:88).
OneSnapshot ==
    \A a \in Accounts, k \in Messages :
        own[a][k] # {} => \E c \in Counterparts(k) :
            \E n \in 1..Len(log[c]) : own[a][k] = StandardSet(log[c][n])

\* The sets mirrored because of a message follow its aggregates in their order:
\* whatever is retried, lost, skipped or cut short by a restart, no call puts
\* back what a later one had replaced.
MirrorsMoveForward ==
    \A a \in Accounts, k \in Messages :
        \E f \in [1..Len(sent[a][k]) -> 1..Len(log[k])] :
            /\ \A i, j \in DOMAIN f : i < j => f[i] <= f[j]
            /\ \A i \in DOMAIN f : sent[a][k][i] = StandardSet(log[k][f[i]])

Never(events) == events \cap happened = {}

\* The row was there before anybody reacted, the peers are known, and no call
\* or query fails.
Undisturbed ==
    Never(Failures \cup {"save"}) /\ rows = Rows /\ peers = Chats

\* As long as no call fails, the cache may be trusted although it is written
\* before the mirror is even looked for: what it holds of a message is what the
\* account shows on the counterpart, also after entries were evicted or another
\* session has begun - unless the chat forbids an emoji of the set.
CacheIsRight ==
    Undisturbed => \A k \in Messages : \A c \in Counterparts(k) :
        At(k, "idle") /\ cache[k] # {} /\ cache[k] \subseteq Allowed[c[1]]
            => own[active][c] = cache[k]

Reactions(k) == StandardSet(users[k])

\* When nothing fails in a session and members react on one side of a row
\* only, the other side comes to show exactly their standard reactions.
FollowsSource ==
    \A k \in Messages : \A c \in Counterparts(k) :
        []( /\ Undisturbed /\ Never({"evict", "restart"})
            /\ log[c] = <<>> )
        => <>[](Reactions(k) \subseteq Allowed[c[1]]
                  => own[active][c] = Reactions(k))

\* When nothing fails in a session, what a member puts on a message comes to be
\* seen on its counterpart, whatever happens there at the same time and however
\* often entries are evicted.
MembersAreSeen ==
    \A k \in Messages : \A c \in Counterparts(k) :
        [](Undisturbed /\ Never({"restart"}))
        => <>[](StandardSet(Allowed[k[1]]) \subseteq Allowed[c[1]]
                  => Reactions(k) \subseteq own[active][c])
==============================================================================
