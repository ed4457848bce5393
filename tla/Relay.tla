-------------------------------- MODULE Relay --------------------------------
(***************************************************************************)
(* The relay core: OnNewMessage, OnMessageEdited and OnMessageDeleted of   *)
(* bridge.Impl between the two chats of every pair, the mapping table they *)
(* share, and the sessions of the accounts they run in.                    *)
(*                                                                         *)
(* Telegram (external) keeps, per chat, the messages and the log of        *)
(* updates they caused.  Each account reads the log of a chat in order,    *)
(* one update at a time, the chats concurrently; pts is how far it got and *)
(* survives restarts, since every account has its own state file.          *)
(*                                                                         *)
(* A handler runs in steps, one per storage query or call to Telegram, so  *)
(* handlers of different chats, the users and restarts interleave between  *)
(* any two of them.                                                        *)
(***************************************************************************)
EXTENDS Naturals, Sequences, FiniteSets, Routing, Mappings, Retry

CONSTANTS
    Accounts,   \* user ids of the userbot accounts that take shifts
    User,       \* stands for every other member of the chats
    PeerSets,   \* what ResolvePeers may resolve: each a set of chats
    Budget      \* how many acts of each kind the environment performs

EnvActs == {"post", "edit", "remove", "restart", "lost", "short", "db"} \cup Errors

ASSUME RelayAssumption ==
    /\ User \notin Accounts
    /\ PeerSets \subseteq SUBSET Chats
    /\ Budget \in [EnvActs -> Nat]

VARIABLES
    chat,       \* chat[c]: the messages of c; a message id is its position
    log,        \* log[c]: the updates of c
    pts,        \* pts[a][c]: the updates of c account a has handled
    rows,       \* the message_mappings table
    active,     \* the account that is connected
    disabled,   \* keys of disabled pairs, in the memory of this session
    peers,      \* keys of peerByID
    handler,    \* handler[c]: the handler working on the next update of c
    budget      \* what is left of Budget

vars == <<chat, log, pts, rows, active, disabled, peers, handler, budget>>
------------------------------------------------------------------------------
(* A message.  origin is history: the message of the paired chat this one  *)
(* copies, 0 for a message that a user wrote.  text is its revision.       *)
Message == [from : Accounts \cup {User}, text : Nat, reply : Nat,
            origin : Nat, alive : BOOLEAN]

(* An update.  id is the message of a new or edit update, ids the messages *)
(* of a delete update (which names no sender).                             *)
Update == [kind : {"new", "edit", "delete"}, id : Nat, ids : SUBSET Nat,
           from : Accounts \cup {User}, text : Nat, reply : Nat]

(* A handler: the step it is at, the chat and message it addresses, the    *)
(* reply id it found, its retry loop and the deleted ids still to do.      *)
Handler == [at : {"idle", "resolve", "send", "save", "find", "edit",
                  "delete", "done"},
            to : Chats, msg : Nat, reply : Nat, retry : RetryState,
            todo : SUBSET Nat]

Row == [key : Keys, srcChat : Chats, src : Nat, dstChat : Chats, dst : Nat,
        dir : Directions, account : Accounts]

TypeOK ==
    /\ chat \in [Chats -> Seq(Message)]
    /\ log \in [Chats -> Seq(Update)]
    /\ pts \in [Accounts -> [Chats -> Nat]]
    /\ rows \in SUBSET Row
    /\ active \in Accounts
    /\ disabled \in SUBSET Keys
    /\ peers \in SUBSET Chats
    /\ handler \in [Chats -> Handler]
    /\ budget \in [EnvActs -> Nat]
------------------------------------------------------------------------------
\* Mutant of Key: pairs are disabled by chat.
KeyByChat(c) == c

Key(c) == PairOf(c).key

Idle(c) == [at |-> "idle", to |-> c, msg |-> 0, reply |-> 0,
            retry |-> FreshRetry, todo |-> {}]

Done(c) == [Idle(c) EXCEPT !.at = "done"]

Pending(c) == pts[active][c] < Len(log[c])

\* The update the handler of c works on.
Current(c) == log[c][pts[active][c] + 1]

At(c, step) == handler[c].at = step

\* The environment performs an act of kind k.
Spend(k) == budget[k] > 0 /\ budget' = [budget EXCEPT ![k] = @ - 1]

\* The handler of c returns, with or without an error.
Return(c) == handler' = [handler EXCEPT ![c] = Done(c)]

\* A message or an edit by the account itself is an update like any other.
NewUpdate(m, id) ==
    [kind |-> "new", id |-> id, ids |-> {}, from |-> m.from,
     text |-> m.text, reply |-> m.reply]

EditUpdate(m, id) ==
    [kind |-> "edit", id |-> id, ids |-> {}, from |-> m.from,
     text |-> m.text, reply |-> 0]

DeleteUpdate(ids, who) ==
    [kind |-> "delete", id |-> 0, ids |-> ids, from |-> who, text |-> 0,
     reply |-> 0]

Append1(f, c, x) == [f EXCEPT ![c] = Append(@, x)]
------------------------------------------------------------------------------
(* The members of the chats. *)

IsAlive(c, i) == i \in 1..Len(chat[c]) /\ chat[c][i].alive

Written(r) == [from |-> User, text |-> 1, reply |-> r, origin |-> 0,
               alive |-> TRUE]

Post(c, r) ==
    /\ r = 0 \/ IsAlive(c, r)
    /\ Spend("post")
    /\ chat' = Append1(chat, c, Written(r))
    /\ log' = Append1(log, c, NewUpdate(Written(r), Len(chat[c]) + 1))
    /\ UNCHANGED <<pts, rows, active, disabled, peers, handler>>

Edit(c, i) ==
    LET m == [chat[c][i] EXCEPT !.text = @ + 1]
    IN  /\ IsAlive(c, i) /\ chat[c][i].from = User
        /\ Spend("edit")
        /\ chat' = [chat EXCEPT ![c][i] = m]
        /\ log' = Append1(log, c, EditUpdate(m, i))
        /\ UNCHANGED <<pts, rows, active, disabled, peers, handler>>

\* A moderator may delete anything, the mirrors included, several at once.
Remove(c, ids) ==
    /\ ids # {} /\ \A i \in ids : IsAlive(c, i)
    /\ Spend("remove")
    /\ chat' = [chat EXCEPT ![c] = [i \in DOMAIN @ |->
                    IF i \in ids THEN [@[i] EXCEPT !.alive = FALSE] ELSE @[i]]]
    /\ log' = Append1(log, c, DeleteUpdate(ids, User))
    /\ UNCHANGED <<pts, rows, active, disabled, peers, handler>>

Members ==
    \E c \in Chats :
        \/ \E r \in 0..Len(chat[c]) : Post(c, r)
        \/ \E i \in 1..Len(chat[c]) : Edit(c, i)
        \/ \E ids \in SUBSET (1..Len(chat[c])) : Remove(c, ids)
------------------------------------------------------------------------------
(* A handler takes the next update of its chat and checks its guards. *)

\* Mutant of Accepts: disabled pairs are served.
AcceptsDisabled(c, u) ==
    /\ u.kind # "delete" => IsRelevant(c, u.from, active)
    /\ u.kind = "new" => Target(c) \in peers

Accepts(c, u) ==
    /\ u.kind # "delete" => IsRelevant(c, u.from, active)
    /\ Key(c) \notin disabled
    /\ u.kind = "new" => Target(c) \in peers

Ignore(c) ==
    /\ At(c, "idle") /\ Pending(c) /\ ~Accepts(c, Current(c))
    /\ pts' = [pts EXCEPT ![active][c] = @ + 1]
    /\ UNCHANGED <<chat, log, rows, active, disabled, peers, handler, budget>>

\* Mutant of FirstStep: an edit is handled like a new message.
FirstStepRelaysEdits(u) == IF u.kind = "delete" THEN "delete" ELSE "resolve"

FirstStep(u) == CASE u.kind = "new"    -> "resolve"
                  [] u.kind = "edit"   -> "find"
                  [] u.kind = "delete" -> "delete"

Started(c, u) == [at |-> FirstStep(u), to |-> Target(c), msg |-> 0,
                  reply |-> 0, retry |-> FreshRetry, todo |-> u.ids]

Begin(c) ==
    /\ At(c, "idle") /\ Pending(c) /\ Accepts(c, Current(c))
    /\ handler' = [handler EXCEPT ![c] = Started(c, Current(c))]
    /\ UNCHANGED <<chat, log, pts, rows, active, disabled, peers, budget>>
------------------------------------------------------------------------------
(* The updates manager logs the error of a handler, if any, and takes the  *)
(* update as handled.                                                      *)

\* Mutant of Finish: the update stays to be handled.
FinishUnhandled(c) ==
    /\ At(c, "done")
    /\ handler' = [handler EXCEPT ![c] = Idle(c)]
    /\ UNCHANGED <<chat, log, pts, rows, active, disabled, peers, budget>>

Finish(c) ==
    /\ At(c, "done")
    /\ handler' = [handler EXCEPT ![c] = Idle(c)]
    /\ pts' = [pts EXCEPT ![active][c] = @ + 1]
    /\ UNCHANGED <<chat, log, rows, active, disabled, peers, budget>>
------------------------------------------------------------------------------
(* OnNewMessage: resolve the reply, wait, send with retries, save. *)

\* The message the reply refers to, looked up now; a storage error, like a
\* miss, sends the message without a reply.
ReplyIds(c) == IF Current(c).reply = 0
               THEN {0}
               ELSE resolveReplyTarget(rows, c, Current(c).reply)

ResolveReply(c) ==
    /\ At(c, "resolve")
    /\ \/ /\ \E r \in ReplyIds(c) :
                handler' = [handler EXCEPT ![c].at = "send", ![c].reply = r]
          /\ UNCHANGED budget
       \/ /\ Current(c).reply # 0
          /\ Spend("db")
          /\ handler' = [handler EXCEPT ![c].at = "send"]
    /\ UNCHANGED <<chat, log, pts, rows, active, disabled, peers>>

\* The mirror appears in the target chat.  Each attempt carries a random id
\* of its own, so Telegram cannot tell a repeated attempt from a new message.
Copy(c) == [from |-> active, text |-> Current(c).text,
            reply |-> handler[c].reply, origin |-> Current(c).id,
            alive |-> TRUE]

Deliver(c) ==
    LET to == handler[c].to
    IN  /\ chat' = Append1(chat, to, Copy(c))
        /\ log' = Append1(log, to, NewUpdate(Copy(c), Len(chat[to]) + 1))

\* The id extractMessageID finds in the answer: that of the mirror, or 0 where
\* the answer is not the *tg.Updates it looks into (the short answer to a text
\* in a basic group); that there is none goes unnoticed.
Send(c) ==
    /\ At(c, "send")
    /\ Deliver(c)
    /\ \E id \in {Len(chat[handler[c].to]) + 1, 0} :
           /\ handler' = [handler EXCEPT ![c].at = "save", ![c].msg = id]
           /\ IF id = 0 THEN Spend("short") ELSE UNCHANGED budget
    /\ UNCHANGED <<pts, rows, active, disabled, peers>>

\* One attempt fails with error e; withRetry decides what follows.
AttemptFails(c, e) ==
    LET verdict == Verdict(handler[c].retry, e)
    IN  \/ /\ verdict = "again"
           /\ handler' = [handler EXCEPT ![c].retry = NextTry(@, e)]
           /\ UNCHANGED disabled
        \/ /\ verdict = "ErrChatForbidden"
           /\ disabled' = disabled \cup {Key(c)}
           /\ Return(c)
        \/ /\ verdict = "error"
           /\ Return(c)
           /\ UNCHANGED disabled

\* Telegram refuses the message.
SendFails(c) ==
    /\ At(c, "send")
    /\ \E e \in Errors : Spend(e) /\ AttemptFails(c, e)
    /\ UNCHANGED <<chat, log, pts, rows, active, peers>>

\* Telegram takes the message but the answer is lost.
SendLost(c) ==
    /\ At(c, "send")
    /\ Spend("lost")
    /\ Deliver(c)
    /\ AttemptFails(c, "transient")
    /\ UNCHANGED <<pts, rows, active, peers>>

\* Mutant of NewRow: the mirror is looked for in the chat of its source.
NewRowSameChat(c) ==
    [key |-> Key(c), srcChat |-> c, src |-> Current(c).id,
     dstChat |-> c, dst |-> handler[c].msg,
     dir |-> Direction(c), account |-> active]

NewRow(c) ==
    [key |-> Key(c), srcChat |-> c, src |-> Current(c).id,
     dstChat |-> handler[c].to, dst |-> handler[c].msg,
     dir |-> Direction(c), account |-> active]

\* The row is inserted unless its source has one; a failed insert leaves the
\* mirror without a row, an answer without its id a row that leads nowhere.
Save(c) ==
    /\ At(c, "save")
    /\ \/ /\ rows' = IF Duplicate(rows, NewRow(c)) THEN rows
                                                   ELSE rows \cup {NewRow(c)}
          /\ UNCHANGED budget
       \/ Spend("db") /\ UNCHANGED rows
    /\ Return(c)
    /\ UNCHANGED <<chat, log, pts, active, disabled, peers>>
------------------------------------------------------------------------------
(* OnMessageEdited: find the mirror, edit it once. *)

Find(c) ==
    /\ At(c, "find")
    /\ \/ \E r \in FindBySource(rows, c, Current(c).id) :
              /\ r.dstChat \in peers
              /\ handler' = [handler EXCEPT ![c].at = "edit",
                                 ![c].to = r.dstChat, ![c].msg = r.dst]
              /\ UNCHANGED budget
       \/ /\ \A r \in FindBySource(rows, c, Current(c).id) :
                 r.dstChat \notin peers
          /\ Return(c)
          /\ UNCHANGED budget
       \/ Spend("db") /\ Return(c)
    /\ UNCHANGED <<chat, log, pts, rows, active, disabled, peers>>

\* Telegram edits a message only for its author and only while it exists (no
\* message has id 0), and reports a change only when there is one.
EditMirror(c) ==
    LET to == handler[c].to
        i  == handler[c].msg
        m  == [chat[to][i] EXCEPT !.text = Current(c).text]
        changes == IsAlive(to, i) /\ chat[to][i].from = active /\ m # chat[to][i]
    IN  /\ At(c, "edit")
        /\ \/ /\ changes
              /\ chat' = [chat EXCEPT ![to][i] = m]
              /\ log' = Append1(log, to, EditUpdate(m, i))
              /\ UNCHANGED budget
           \/ /\ ~changes
              /\ UNCHANGED <<chat, log, budget>>
           \/ Spend("transient") /\ UNCHANGED <<chat, log>>
        /\ Return(c)
        /\ UNCHANGED <<pts, rows, active, disabled, peers>>
------------------------------------------------------------------------------
(* OnMessageDeleted: for every id, find the mirror and delete it; an id     *)
(* that fails is skipped.                                                  *)

\* Mutants of NextId: the loop ends after one id, or never.
NextIdReturns(c, i) == Return(c)

NextIdHangs(c, i) == handler' = [handler EXCEPT ![c].todo = @ \ {i}]

\* The rest of the loop once id i is done.
NextId(c, i) ==
    IF handler[c].todo = {i}
    THEN Return(c)
    ELSE handler' = [handler EXCEPT ![c].todo = @ \ {i}]

DeleteOne(c) ==
    /\ At(c, "delete")
    /\ \E i \in handler[c].todo :
           /\ \/ \E r \in FindBySource(rows, c, i) :
                     /\ r.dstChat \in peers /\ IsAlive(r.dstChat, r.dst)
                     /\ chat' = [chat EXCEPT ![r.dstChat][r.dst].alive = FALSE]
                     /\ log' = Append1(log, r.dstChat,
                                       DeleteUpdate({r.dst}, active))
                     /\ UNCHANGED budget
              \/ /\ \A r \in FindBySource(rows, c, i) :
                        ~(r.dstChat \in peers /\ IsAlive(r.dstChat, r.dst))
                 /\ UNCHANGED <<chat, log, budget>>
              \/ /\ Spend("db") \/ Spend("transient")
                 /\ UNCHANGED <<chat, log>>
           /\ NextId(c, i)
    /\ UNCHANGED <<pts, rows, active, disabled, peers>>
------------------------------------------------------------------------------
(* Mutant of Restart: nothing was saved of what the account had handled.   *)
RestartForgets(a, seen, resolved) ==
    /\ Spend("restart")
    /\ pts' = [pts EXCEPT ![active] = [c \in Chats |-> 0]]
    /\ active' = a
    /\ disabled' = {}
    /\ peers' = resolved
    /\ handler' = [c \in Chats |-> Idle(c)]
    /\ UNCHANGED <<chat, log, rows>>

(* The session ends, by a crash, a stop or a shift change, and account a   *)
(* starts the next one with a new bridge.Impl.  Handlers are cut short     *)
(* wherever they are; the updates of those in seen count as handled, the   *)
(* others are delivered again by catch-up.                                 *)
Restart(a, seen, resolved) ==
    /\ Spend("restart")
    /\ pts' = [pts EXCEPT ![active] =
                  [c \in Chats |-> IF c \in seen THEN @[c] + 1 ELSE @[c]]]
    /\ active' = a
    /\ disabled' = {}
    /\ peers' = resolved
    /\ handler' = [c \in Chats |-> Idle(c)]
    /\ UNCHANGED <<chat, log, rows>>

Busy == {c \in Chats : ~At(c, "idle")}

Sessions ==
    \E a \in Accounts, seen \in SUBSET Busy, resolved \in PeerSets :
        Restart(a, seen, resolved)
------------------------------------------------------------------------------
Handle(c) ==
    \/ Ignore(c) \/ Begin(c) \/ Finish(c)
    \/ ResolveReply(c) \/ Send(c) \/ SendFails(c) \/ SendLost(c) \/ Save(c)
    \/ Find(c) \/ EditMirror(c)
    \/ DeleteOne(c)

Next ==
    \/ Members
    \/ Sessions
    \/ \E c \in Chats : Handle(c)

Init ==
    /\ chat = [c \in Chats |-> <<>>]
    /\ log = [c \in Chats |-> <<>>]
    /\ pts = [a \in Accounts |-> [c \in Chats |-> 0]]
    /\ rows = {}
    /\ active \in Accounts
    /\ disabled = {}
    /\ peers \in PeerSets
    /\ handler = [c \in Chats |-> Idle(c)]
    /\ budget = Budget

Spec == Init /\ [][Next]_vars

\* The goroutine of every chat keeps running and Telegram and PostgreSQL
\* answer, with a result or an error.  Nothing is assumed of the users, and
\* errors are bounded by Budget.
FairSpec == Spec /\ \A c \in Chats : WF_vars(Handle(c))
------------------------------------------------------------------------------
(* Properties. *)

IsMirror(c, i) == chat[c][i].origin # 0

Mirrors(c, i) == {j \in 1..Len(chat[Target(c)]) : chat[Target(c)][j].origin = i}

\* Every row ties a message to the message the bridge sent for it into the
\* other chat of the same pair, or, if some answer did not name its message, to
\* none: what edits, deletes and replies are routed by is never the copy of
\* something else (SaveMapping after extractMessageID).
RowsLinkMirrors ==
    \A r \in rows :
        /\ r.dstChat = Target(r.srcChat)
        /\ r.src \in 1..Len(chat[r.srcChat])
        /\ IF r.dst = 0
           THEN budget["short"] < Budget["short"]
           ELSE /\ r.dst \in 1..Len(chat[r.dstChat])
                /\ chat[r.dstChat][r.dst].origin = r.src

\* The bridge copies what people write, never its own copies (IsRelevant, "to
\* avoid relay loops").
NoEcho ==
    \A c \in Chats : \A i \in 1..Len(chat[c]) :
        IsMirror(c, i) => ~IsMirror(Target(c), chat[c][i].origin)

\* A copy is a reply only if its source is one, and then to the counterpart
\* of what the source replied to: to the message's mirror, or to the source
\* that the message is a mirror of (resolveReplyTarget).
RepliesCorrespond ==
    \A c \in Chats : \A i \in 1..Len(chat[c]) :
        LET m == chat[c][i]
            s == chat[Target(c)][m.origin]
        IN  m.origin # 0 /\ m.reply # 0 =>
                /\ s.reply # 0
                /\ \/ chat[c][m.reply].origin = s.reply
                   \/ chat[Target(c)][s.reply].origin = m.reply

\* The copies of OnNewMessage stand in the order of their sources, whatever was
\* retried, lost or delivered again after a restart (albums, which a timer may
\* relay after later messages, are not part of this module).
CopiesInOrder ==
    \A c \in Chats : \A i, j \in 1..Len(chat[c]) :
        i < j /\ IsMirror(c, i) /\ IsMirror(c, j)
            => chat[c][i].origin <= chat[c][j].origin

\* No message is relayed twice (the reason for the unique index on the source
\* given in migrations/00001_init_message_mappings.sql:30).
RelayedAtMostOnce ==
    \A c \in Chats : \A i \in 1..Len(chat[c]) : Cardinality(Mirrors(c, i)) <= 1

\* Every copy beyond the first is paid for by a session that ended or by an
\* answer that was lost: neither errors, nor FLOOD_WAITs, nor rows that fail to
\* be saved, nor the interleaving of the chats make another one.
ExtraCopiesAreRepeats ==
    \A c \in Chats : \A i \in 1..Len(chat[c]) :
        Cardinality(Mirrors(c, i)) + budget["restart"] + budget["lost"]
            <= 1 + Budget["restart"] + Budget["lost"]

\* Copies only move forward: no step takes the text of a copy back to an
\* older revision than it showed, and none brings a deleted message back.
CopiesMoveForward ==
    [][\A c \in Chats : \A i \in 1..Len(chat[c]) :
           /\ chat'[c][i].text >= chat[c][i].text
           /\ chat'[c][i].alive => chat[c][i].alive]_vars

FromBridge(c) == {i \in 1..Len(chat[c]) : IsMirror(c, i)}

\* How many copies c may still get from the handler at work in the other chat.
Underway(c) ==
    IF handler[Target(c)].at \in {"resolve", "send"} THEN 1 ELSE 0

\* Once Telegram has forbidden a pair, the bridge only finishes what it had
\* begun: until the session ends no chat of the pair gets another copy than
\* that of the message already on its way, which does not look at disabledPairs
\* again (messages.go:33), and one for every answer that is lost on the way.
DisabledPairsWindDown ==
    [][\A c \in Chats :
           Key(c) \in disabled /\ Key(c) \in disabled' =>
               Cardinality(FromBridge(c)') + Underway(c)' + budget'["lost"]
                   <= Cardinality(FromBridge(c)) + Underway(c) + budget["lost"]]_vars

\* A message of a user and its copies agree: same text while both exist, and
\* no copy outlives its source.
Agree(c, i) ==
    \A j \in Mirrors(c, i) :
        /\ chat[Target(c)][j].alive => chat[c][i].alive
        /\ chat[Target(c)][j].alive => chat[Target(c)][j].text = chat[c][i].text

\* As long as nothing fails and every answer names its message, every message of
\* a user gets exactly one copy, and both chats come to agree after every burst
\* of posts, edits and deletions, however these race the relay of their message.
NothingFailed == \A k \in EnvActs \ {"post", "edit", "remove"} :
                     budget[k] = Budget[k]

InSync ==
    \A c \in Chats : \A i \in 1..Len(chat[c]) :
        ~IsMirror(c, i) => Cardinality(Mirrors(c, i)) = 1 /\ Agree(c, i)

EventuallyInSync == []NothingFailed => []<>InSync

\* Whatever fails, every handler returns and every update is handled in the
\* end: no update blocks those behind it.
UpdatesHandled ==
    \A c \in Chats : []<>(At(c, "idle") /\ ~Pending(c))
------------------------------------------------------------------------------
(* The abstract specification. *)

Removed == [c \in Chats |-> UNION {log[c][k].ids :
                k \in {j \in 1..Len(log[c]) : log[c][j].from = User}}]

Promise == INSTANCE Mirroring WITH Other <- Target, removed <- Removed

\* With one account, all that members see of the bridge is what Mirroring
\* allows, however its sessions end and its calls fail (README.md:36-39, "правки
\* синхронизируются с зеркалом", "удалённые сообщения удаляются и в парном
\* чате").
ImplementsMirroring == Promise!Spec
==============================================================================
