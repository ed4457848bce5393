----------------------------- MODULE RelaySafety -----------------------------
(***************************************************************************)
(* The safety of the relay core, for every set of pairs and accounts and   *)
(* every budget of faults: rows link sources to mirrors, replies           *)
(* correspond, a single account never copies its own copies, copies beyond *)
(* the first are paid for by ended sessions and lost answers, and disabled *)
(* pairs wind down.                                                        *)
(*                                                                         *)
(* The inductive invariant says what a handler may rely on at each of its  *)
(* steps: that the update it works on still describes a message of its     *)
(* chat, that the reply it found is a counterpart, and that the id it is   *)
(* about to save is the id of the copy it sent, or none if an answer did   *)
(* not name its message.                                                   *)
(***************************************************************************)
EXTENDS RelayProofs, FiniteSetTheorems

LogsDescribe ==
    \A c \in Chats : \A k \in 1..Len(log[c]) : Describes(log[c][k], chat[c])

MessagesInv ==
    \A c \in Chats : \A i \in 1..Len(chat[c]) :
        /\ chat[c][i].origin \in 0..Len(chat[Target(c)])
        /\ chat[c][i].reply \in 0..Len(chat[c])
        /\ chat[c][i].origin = 0 <=> chat[c][i].from = User

\* In chats ch, one of message x of c and message y of the paired chat copies
\* the other.
Counterparts(ch, c, x, y) ==
    /\ x \in 1..Len(ch[c])
    /\ y \in 1..Len(ch[Target(c)])
    /\ ch[Target(c)][y].origin = x \/ ch[c][x].origin = y

\* Some answer did not name the message it was about.
Unnamed == budget["short"] < Budget["short"]

\* id is what an answer named as the copy in chat d of message i.
Names(d, id, i) ==
    IF id = 0 THEN Unnamed
              ELSE id \in 1..Len(chat[d]) /\ chat[d][id].origin = i

HandlerInv(c) ==
    /\ handler[c].at \in {"resolve", "send", "save"} =>
           /\ Current(c).kind = "new"
           /\ Current(c).from # active
           /\ handler[c].to = Target(c)
    /\ handler[c].at = "resolve" => handler[c].reply = 0
    /\ handler[c].at = "send" /\ handler[c].reply # 0 =>
           Counterparts(chat, c, Current(c).reply, handler[c].reply)
    /\ handler[c].at = "save" =>
           Names(Target(c), handler[c].msg, Current(c).id)

HandlersInv == \A c \in Chats : HandlerInv(c)

\* A copy that is a reply replies to the counterpart of what its source
\* replies to.
ReplyInv(c, i) ==
    LET m == chat[c][i]
        s == chat[Target(c)][m.origin]
    IN  m.origin # 0 /\ m.reply # 0 =>
            s.reply # 0 /\ Counterparts(chat, Target(c), s.reply, m.reply)

RepliesInv == \A c \in Chats : \A i \in 1..Len(chat[c]) : ReplyInv(c, i)

IInv == /\ TypeInv
        /\ LogsDescribe
        /\ MessagesInv
        /\ HandlersInv
        /\ RowsLinkMirrors
        /\ RepliesInv
        /\ budget["short"] <= Budget["short"]
------------------------------------------------------------------------------
(* What a step leaves true of the messages and updates that exist. *)

LEMMA Lengths ==
    ASSUME TypeInv, [Next]_vars, NEW c \in Chats
    PROVE  Len(chat[c]) \in Nat /\ Len(chat'[c]) \in Nat
<1>1. chat[c] \in Seq(Message)
  BY DEF TypeInv, TypeOK
<1>2. chat'[c] \in Seq(Message)
  BY TypePreserved DEF TypeOK
<1> QED
  BY <1>1, <1>2

LEMMA DescribesStays ==
    ASSUME TypeInv, [Next]_vars, NEW c \in Chats, NEW u, Describes(u, chat[c])
    PROVE  Describes(u, chat'[c])
<1>1. ChatGrowth(c)
  BY ChatsGrow
<1>2. Len(chat[c]) \in Nat /\ Len(chat'[c]) \in Nat
  BY Lengths
<1> QED
  BY <1>1, <1>2 DEF Describes, ChatGrowth, SameMessage

LEMMA LogsDescribePreserved ==
    ASSUME TypeInv, LogsDescribe, [Next]_vars
    PROVE  LogsDescribe'
<1> SUFFICES ASSUME NEW c \in Chats, NEW k \in 1..Len(log'[c])
             PROVE  Describes(log'[c][k], chat'[c])
  BY DEF LogsDescribe
<1>1. LogGrowth(c)
  BY LogsGrow
<1>2. Len(log[c]) \in Nat /\ Len(log'[c]) \in Nat
  BY TypePreserved DEF TypeInv, TypeOK
<1>3. CASE k \in 1..Len(log[c])
  <2>1. log'[c][k] = log[c][k] /\ Describes(log[c][k], chat[c])
    BY <1>1, <1>3 DEF LogGrowth, LogsDescribe
  <2> QED
    BY <2>1, DescribesStays
<1>4. CASE k > Len(log[c])
  BY <1>1, <1>4 DEF LogGrowth
<1> QED
  BY <1>2, <1>3, <1>4

\* The update of a busy handler describes a message of its chat.
LEMMA BusyUpdate ==
    ASSUME TypeInv, LogsDescribe, NEW c \in Chats, c \in Busy
    PROVE  /\ Current(c) \in Update
           /\ Describes(Current(c), chat[c])
<1>1. Pending(c)
  BY DEF TypeInv, BusyPending
<1>2. Current(c) \in Update
  BY <1>1, CurrentType DEF TypeInv
<1>3. pts[active][c] + 1 \in 1..Len(log[c])
  BY <1>1 DEF Pending, TypeInv, TypeOK
<1> QED
  BY <1>2, <1>3 DEF LogsDescribe, Current

LEMMA CounterpartsStay ==
    ASSUME TypeInv, [Next]_vars, NEW c \in Chats, NEW x, NEW y,
           Counterparts(chat, c, x, y)
    PROVE  Counterparts(chat', c, x, y)
<1>1. ChatGrowth(c) /\ ChatGrowth(Target(c))
  BY ChatsGrow, RoutingIsSymmetric
<1>2. /\ Len(chat[c]) \in Nat /\ Len(chat'[c]) \in Nat
      /\ Len(chat[Target(c)]) \in Nat /\ Len(chat'[Target(c)]) \in Nat
  BY Lengths, RoutingIsSymmetric
<1>3. x \in 1..Len(chat[c]) /\ y \in 1..Len(chat[Target(c)])
  BY DEF Counterparts
<1>4. x \in 1..Len(chat'[c]) /\ y \in 1..Len(chat'[Target(c)])
  BY <1>1, <1>2, <1>3 DEF ChatGrowth
<1>5. /\ chat'[c][x].origin = chat[c][x].origin
      /\ chat'[Target(c)][y].origin = chat[Target(c)][y].origin
  BY <1>1, <1>3 DEF ChatGrowth, SameMessage
<1> QED
  BY <1>4, <1>5 DEF Counterparts

\* What a handler about to send knows of the copy it makes.
LEMMA CopyFacts ==
    ASSUME IInv, NEW d \in Chats, At(d, "send")
    PROVE  /\ handler[d].to = Target(d)
           /\ Copy(d).origin \in 1..Len(chat[d])
           /\ Copy(d).from = active /\ active \in Accounts
           /\ chat[d][Copy(d).origin].from # active
           /\ Copy(d).reply # 0 =>
                 /\ chat[d][Copy(d).origin].reply # 0
                 /\ Counterparts(chat, d, chat[d][Copy(d).origin].reply, Copy(d).reply)
<1>1. d \in Busy
  BY DEF At, Busy
<1>2. Describes(Current(d), chat[d]) /\ Current(d) \in Update
  BY <1>1, BusyUpdate DEF IInv
<1>3. HandlerInv(d)
  BY DEF IInv, HandlersInv
<1>4. Current(d).kind = "new" /\ Current(d).from # active
      /\ handler[d].to = Target(d)
  BY <1>3 DEF HandlerInv, At
<1>5. /\ Copy(d).origin = Current(d).id /\ Copy(d).from = active
      /\ Copy(d).reply = handler[d].reply
  BY DEF Copy
<1>6. /\ Current(d).id \in 1..Len(chat[d])
      /\ Current(d).from = chat[d][Current(d).id].from
      /\ Current(d).reply = chat[d][Current(d).id].reply
  BY <1>2, <1>4 DEF Describes
<1>7. handler[d].reply # 0 =>
         Counterparts(chat, d, Current(d).reply, handler[d].reply)
  BY <1>3 DEF HandlerInv, At
<1>8. Len(chat[d]) \in Nat
  BY DEF IInv, TypeInv, TypeOK
<1> QED
  BY <1>4, <1>5, <1>6, <1>7, <1>8 DEF IInv, TypeInv, TypeOK, Counterparts

LEMMA MessagesPreserved ==
    ASSUME IInv, [Next]_vars
    PROVE  MessagesInv'
<1> USE DEF IInv
<1> SUFFICES ASSUME NEW c \in Chats, NEW i \in 1..Len(chat'[c])
             PROVE  /\ chat'[c][i].origin \in 0..Len(chat'[Target(c)])
                    /\ chat'[c][i].reply \in 0..Len(chat'[c])
                    /\ chat'[c][i].origin = 0 <=> chat'[c][i].from = User
  BY DEF MessagesInv
<1>1. ChatGrowth(c) /\ ChatGrowth(Target(c))
  BY ChatsGrow, RoutingIsSymmetric
<1>2. /\ Len(chat[c]) \in Nat /\ Len(chat'[c]) \in Nat
      /\ Len(chat[Target(c)]) \in Nat /\ Len(chat'[Target(c)]) \in Nat
      /\ Target(c) \in Chats
  BY Lengths, RoutingIsSymmetric
<1>3. /\ Len(chat'[c]) >= Len(chat[c])
      /\ Len(chat'[Target(c)]) >= Len(chat[Target(c)])
  BY <1>1 DEF ChatGrowth
<1>4. CASE i \in 1..Len(chat[c])
  <2>1. SameMessage(chat'[c][i], chat[c][i])
    BY <1>1, <1>4 DEF ChatGrowth
  <2>2. /\ chat[c][i].origin \in 0..Len(chat[Target(c)])
        /\ chat[c][i].reply \in 0..Len(chat[c])
        /\ chat[c][i].origin = 0 <=> chat[c][i].from = User
    BY <1>4 DEF MessagesInv
  <2>3. /\ chat'[c][i].origin = chat[c][i].origin
        /\ chat'[c][i].reply = chat[c][i].reply
        /\ chat'[c][i].from = chat[c][i].from
    BY <2>1 DEF SameMessage
  <2>4. /\ 0..Len(chat[Target(c)]) \subseteq 0..Len(chat'[Target(c)])
        /\ 0..Len(chat[c]) \subseteq 0..Len(chat'[c])
    BY <1>2, <1>3
  <2> HIDE DEF IInv
  <2> QED
    BY <2>2, <2>3, <2>4
<1>5. CASE i > Len(chat[c])
  <2>1. Comes(c, i)
    BY <1>1, <1>5 DEF ChatGrowth
  <2>2. ASSUME NEW r \in 0..Len(chat[c]), chat'[c][i] = Written(r)
        PROVE  /\ chat'[c][i].origin = 0 /\ chat'[c][i].from = User
               /\ chat'[c][i].reply \in 0..Len(chat[c])
    BY <2>2 DEF Written
  <2>3. ASSUME NEW d \in Chats, At(d, "send"), handler[d].to = c,
               chat'[c][i] = Copy(d)
        PROVE  /\ chat'[c][i].origin \in 1..Len(chat[Target(c)])
               /\ chat'[c][i].from # User
               /\ chat'[c][i].reply \in 0..Len(chat[c])
    <3>1. c = Target(d) /\ d = Target(c)
      BY <2>3, CopyFacts, RoutingIsSymmetric
    <3>2. Copy(d).origin \in 1..Len(chat[d]) /\ Copy(d).from # User
      BY <2>3, CopyFacts, RelayAssumption
    <3>3. Copy(d).reply \in 0..Len(chat[c])
      <4> HIDE DEF IInv
      <4> QED
        BY <1>2, <2>3, <3>1, CopyFacts DEF Counterparts
    <3> QED
      BY <2>3, <3>1, <3>2, <3>3
  <2>4. \/ /\ chat'[c][i].origin = 0 /\ chat'[c][i].from = User
           /\ chat'[c][i].reply \in 0..Len(chat[c])
        \/ /\ chat'[c][i].origin \in 1..Len(chat[Target(c)])
           /\ chat'[c][i].from # User
           /\ chat'[c][i].reply \in 0..Len(chat[c])
    BY <2>1, <2>2, <2>3 DEF Comes
  <2> HIDE DEF IInv
  <2> QED
    BY <1>2, <1>3, <2>4
<1> QED
  BY <1>2, <1>4, <1>5

LEMMA SameUpdateAt ==
    ASSUME TypeInv, [Next]_vars, NEW c \in Chats, Pending(c),
           UNCHANGED <<active, pts>>
    PROVE  Current(c)' = Current(c)
<1>1. LogGrowth(c)
  BY LogsGrow
<1>2. pts[active][c] + 1 \in 1..Len(log[c])
  BY DEF Pending, TypeInv, TypeOK
<1> QED
  BY <1>1, <1>2 DEF LogGrowth, Current

\* A reply id found in the table is a counterpart of the message replied to.
LEMMA ResolvedReply ==
    ASSUME TypeOK, RowsLinkMirrors, NEW c \in Chats, NEW x, x # 0,
           NEW y \in resolveReplyTarget(rows, c, x), y # 0
    PROVE  Counterparts(chat, c, x, y)
<1>1. \/ \E r \in rows : r.dstChat = c /\ r.dst = x /\ y = r.src
      \/ \E r \in rows : r.srcChat = c /\ r.src = x /\ y = r.dst
  BY DEF resolveReplyTarget, FindByTarget, FindBySource
<1>2. ASSUME NEW r \in rows, r.dstChat = c, r.dst = x, y = r.src
      PROVE  Counterparts(chat, c, x, y)
  <2>1. r.srcChat \in Chats
    BY DEF TypeOK, Row
  <2>2. r.srcChat = Target(c)
    BY <1>2, <2>1, RoutingIsSymmetric DEF RowsLinkMirrors
  <2> QED
    BY <1>2, <2>2 DEF RowsLinkMirrors, Counterparts
<1>3. ASSUME NEW r \in rows, r.srcChat = c, r.src = x, y = r.dst
      PROVE  Counterparts(chat, c, x, y)
  BY <1>3 DEF RowsLinkMirrors, Counterparts
<1> QED
  BY <1>1, <1>2, <1>3

\* A step performs at most one act of the environment.
LEMMA BudgetStep ==
    ASSUME [Next]_vars
    PROVE  UNCHANGED budget \/ \E k \in EnvActs : Spend(k)
<1> USE DEF EnvActs
<1>1. CASE Members
  BY <1>1 DEF Members, Post, Edit, Remove
<1>2. CASE Sessions
  BY <1>2 DEF Sessions, Restart
<1>3. ASSUME NEW c \in Chats, Handle(c)
      PROVE  UNCHANGED budget \/ \E k \in EnvActs : Spend(k)
  <2>1. CASE Ignore(c) \/ Begin(c) \/ Finish(c)
    BY <2>1 DEF Ignore, Begin, Finish
  <2>2. CASE ResolveReply(c) \/ Save(c) \/ Find(c)
    BY <2>2 DEF ResolveReply, Save, Find
  <2>3. CASE SendFails(c) \/ SendLost(c)
    BY <2>3 DEF SendFails, SendLost
  <2>4. CASE EditMirror(c)
    BY <2>4 DEF EditMirror, Errors
  <2>5. CASE DeleteOne(c)
    BY <2>5 DEF DeleteOne, Errors
  <2>6. CASE Send(c)
    BY <2>6 DEF Send
  <2> QED
    BY <1>3, <2>1, <2>2, <2>3, <2>4, <2>5, <2>6 DEF Handle
<1>4. CASE UNCHANGED vars
  BY <1>4 DEF vars
<1> QED
  BY <1>1, <1>2, <1>3, <1>4 DEF Next

LEMMA BudgetShrinks ==
    ASSUME TypeInv, [Next]_vars, NEW k \in EnvActs
    PROVE  /\ budget[k] \in Nat /\ budget'[k] \in Nat
           /\ budget'[k] <= budget[k]
<1>1. budget \in [EnvActs -> Nat] /\ budget' \in [EnvActs -> Nat]
  BY TypePreserved DEF TypeInv, TypeOK
<1>2. ASSUME NEW j \in EnvActs, Spend(j)
      PROVE  budget'[k] <= budget[k]
  BY <1>1, <1>2 DEF Spend
<1> QED
  BY <1>1, <1>2, BudgetStep

LEMMA NamesStay ==
    ASSUME TypeInv, budget["short"] <= Budget["short"], [Next]_vars,
           NEW d \in Chats, NEW id, NEW i, Names(d, id, i)
    PROVE  Names(d, id, i)'
<1>1. "short" \in EnvActs
  BY DEF EnvActs
<1>2. /\ budget["short"] \in Nat /\ budget'["short"] \in Nat
      /\ Budget["short"] \in Nat /\ budget'["short"] <= budget["short"]
  BY <1>1, BudgetShrinks, RelayAssumption
<1>3. ChatGrowth(d) /\ Len(chat[d]) \in Nat /\ Len(chat'[d]) \in Nat
  BY ChatsGrow, Lengths
<1> QED
  BY <1>2, <1>3 DEF Names, Unnamed, ChatGrowth, SameMessage

LEMMA HandlersPreserved ==
    ASSUME IInv, [Next]_vars
    PROVE  HandlersInv'
<1> USE DEF IInv
<1> SUFFICES ASSUME NEW c \in Chats
             PROVE  HandlerInv(c)'
  BY DEF HandlersInv
<1>1. TypeOK /\ TypeOK' /\ HandlerInv(c)
  BY TypePreserved DEF TypeInv, HandlersInv
<1>2. CASE handler'[c].at \notin {"resolve", "send", "save"}
  BY <1>2 DEF HandlerInv
<1>3. CASE Undisturbed(c) /\ handler'[c].at \in {"resolve", "send", "save"}
  <2>1. handler'[c] = handler[c] /\ active' = active /\ c \in Busy
    BY <1>3 DEF Undisturbed, Busy, At
  <2>2. Current(c)' = Current(c)
    BY <1>3, <2>1, SameUpdate DEF TypeInv, BusyPending
  <2>3. handler[c].to = Target(c)
    BY <1>1, <1>3, <2>1 DEF HandlerInv
  <2>4. handler[c].at = "send" /\ handler[c].reply # 0 =>
            Counterparts(chat', c, Current(c).reply, handler[c].reply)
    BY <1>1, CounterpartsStay DEF HandlerInv
  <2>5. handler[c].at = "save" =>
            Names(Target(c), handler[c].msg, Current(c).id)'
    <3>1. ASSUME handler[c].at = "save"
          PROVE  Names(Target(c), handler[c].msg, Current(c).id)
      BY <1>1, <3>1 DEF HandlerInv
    <3>2. Target(c) \in Chats
      BY RoutingIsSymmetric
    <3>3. ASSUME NEW id, NEW i, Names(Target(c), id, i)
          PROVE  Names(Target(c), id, i)'
      BY <3>2, <3>3, NamesStay
    <3> HIDE DEF IInv
    <3> QED
      BY <2>1, <2>2, <3>1, <3>3 DEF Names
  <2> QED
    BY <1>1, <2>1, <2>2, <2>4, <2>5 DEF HandlerInv
<1>4. ASSUME Handle(c), handler'[c].at \in {"resolve", "send", "save"}
      PROVE  HandlerInv(c)'
  <2>1. CASE Ignore(c)
    BY <1>1, <1>4, <2>1 DEF Ignore, At
  <2>2. CASE Begin(c)
    <3>1. /\ handler'[c] = Started(c, Current(c))
          /\ UNCHANGED <<log, pts, active>>
      BY <1>1, <2>2 DEF Begin, TypeOK
    <3>2. Current(c) \in Update /\ Accepts(c, Current(c))
      BY <1>1, <2>2, CurrentType DEF Begin
    <3>3. Current(c).kind = "new" /\ Current(c).from # active
      BY <1>4, <3>1, <3>2 DEF Started, FirstStep, Update, Accepts, IsRelevant
    <3>4. /\ handler'[c].at = "resolve" /\ handler'[c].to = Target(c)
          /\ handler'[c].reply = 0
      BY <3>1, <3>3 DEF Started, FirstStep
    <3>5. Current(c)' = Current(c)
      BY <3>1 DEF Current
    <3> QED
      BY <3>1, <3>3, <3>4, <3>5 DEF HandlerInv
  <2>3. CASE ResolveReply(c)
    <3>1. /\ handler[c].at = "resolve" /\ handler'[c].at = "send"
          /\ handler'[c].to = handler[c].to
          /\ UNCHANGED <<chat, log, pts, active>>
      BY <1>1, <2>3 DEF ResolveReply, At, TypeOK, Handler
    <3>2. Current(c)' = Current(c)
      BY <3>1 DEF Current
    <3>3. handler'[c].reply \in ReplyIds(c) \cup {handler[c].reply}
      BY <1>1, <2>3 DEF ResolveReply, TypeOK, Handler
    <3>4. handler'[c].reply # 0 /\ handler'[c].reply \in ReplyIds(c) =>
              Counterparts(chat, c, Current(c).reply, handler'[c].reply)
      BY <1>1, ResolvedReply DEF ReplyIds
    <3>5. handler[c].reply = 0
      BY <1>1, <3>1 DEF HandlerInv
    <3> QED
      BY <1>1, <3>1, <3>2, <3>3, <3>4, <3>5 DEF HandlerInv, Counterparts
  <2>4. CASE Send(c)
    <3>1. /\ handler[c].at = "send" /\ handler'[c].at = "save"
          /\ handler'[c].to = handler[c].to
          /\ \/ handler'[c].msg = Len(chat[handler[c].to]) + 1
             \/ handler'[c].msg = 0 /\ Spend("short")
          /\ UNCHANGED <<pts, active>>
      BY <1>1, <2>4 DEF Send, At, TypeOK, Handler
    <3>2. handler[c].to = Target(c)
      BY <1>1, <3>1 DEF HandlerInv
    <3>3. c \in Busy /\ Pending(c)
      BY <3>1 DEF Busy, At, TypeInv, BusyPending
    <3>4. Current(c)' = Current(c)
      BY <3>1, <3>3, SameUpdateAt
    <3>5. handler[c].to \in Chats /\ chat[handler[c].to] \in Seq(Message)
      BY <1>1 DEF TypeOK, Handler
    <3>6. chat'[handler[c].to] = Append(chat[handler[c].to], Copy(c))
      BY <1>1, <2>4, <3>5 DEF Send, Deliver, Append1, TypeOK
    <3>7. Copy(c) \in Message
      BY <3>3, CopyType
    <3>8. ASSUME handler'[c].msg # 0
          PROVE  /\ handler'[c].msg \in 1..Len(chat'[Target(c)])
                 /\ chat'[Target(c)][handler'[c].msg].origin = Current(c).id
      BY <3>1, <3>2, <3>5, <3>6, <3>7, <3>8 DEF Copy
    <3>9. ASSUME handler'[c].msg = 0
          PROVE  Unnamed'
      <4>1. Spend("short") /\ "short" \in EnvActs
        BY <3>1, <3>5, <3>9 DEF EnvActs
      <4>2. budget \in [EnvActs -> Nat] /\ Budget["short"] \in Nat
        BY <1>1, <4>1, RelayAssumption DEF TypeOK
      <4>3. budget["short"] <= Budget["short"]
        OBVIOUS
      <4> HIDE DEF IInv
      <4> QED
        BY <4>1, <4>2, <4>3 DEF Spend, Unnamed
    <3>10. Names(Target(c), handler[c].msg, Current(c).id)'
      BY <3>4, <3>8, <3>9 DEF Names
    <3> QED
      BY <1>1, <3>1, <3>4, <3>10 DEF HandlerInv
  <2>5. CASE SendFails(c) \/ SendLost(c)
    <3>1. PICK e : AttemptFails(c, e)
      BY <2>5 DEF SendFails, SendLost
    <3>2. ~Return(c)
      BY <1>1, <1>4 DEF Return, Done, Idle, TypeOK
    <3>3. /\ handler[c].at = "send" /\ handler'[c].at = "send"
          /\ handler'[c].to = handler[c].to
          /\ handler'[c].reply = handler[c].reply
          /\ UNCHANGED <<pts, active>>
      <4>1. handler[c].at = "send" /\ UNCHANGED <<pts, active>>
        BY <2>5 DEF SendFails, SendLost, At
      <4>2. handler' = [handler EXCEPT ![c] = [handler[c] EXCEPT
                            !.retry = NextTry(handler[c].retry, e)]]
        BY <3>1, <3>2 DEF AttemptFails
      <4>3. handler[c] \in Handler
        BY <1>1 DEF TypeOK
      <4> QED
        BY <1>1, <4>1, <4>2, <4>3 DEF TypeOK, Handler
    <3>4. Current(c)' = Current(c)
      BY <3>3, SameUpdateAt DEF Busy, At, TypeInv, BusyPending
    <3>5. handler[c].reply # 0 =>
              Counterparts(chat', c, Current(c).reply, handler[c].reply)
      BY <1>1, <3>3, CounterpartsStay DEF HandlerInv
    <3> QED
      BY <1>1, <3>3, <3>4, <3>5 DEF HandlerInv
  <2>6. CASE Save(c) \/ Find(c) \/ EditMirror(c) \/ DeleteOne(c)
    <3>1. ~Return(c)
      BY <1>1, <1>4 DEF Return, Done, Idle, TypeOK
    <3>2. ~Save(c) /\ ~EditMirror(c)
      BY <3>1 DEF Save, EditMirror
    <3>3. CASE Find(c)
      <4>1. PICK r : handler' = [handler EXCEPT ![c] = [handler[c] EXCEPT
                         !.at = "edit", !.to = r.dstChat, !.msg = r.dst]]
        BY <3>1, <3>3 DEF Find
      <4>2. handler[c] \in Handler
        BY <1>1 DEF TypeOK
      <4>3. handler'[c].at = "edit"
        BY <1>1, <4>1, <4>2 DEF TypeOK, Handler
      <4> QED
        BY <1>4, <4>3
    <3>4. CASE DeleteOne(c)
      <4>1. handler[c].at = "delete" /\ handler'[c].at = handler[c].at
        BY <1>1, <3>1, <3>4 DEF DeleteOne, NextId, At, TypeOK, Handler
      <4> QED
        BY <1>4, <4>1
    <3> QED
      BY <2>6, <3>2, <3>3, <3>4
  <2>7. CASE Finish(c)
    BY <1>1, <1>4, <2>7 DEF Finish, Idle, TypeOK
  <2> QED
    BY <1>4, <2>1, <2>2, <2>3, <2>4, <2>5, <2>6, <2>7 DEF Handle
<1>5. CASE Sessions
  BY <1>2, <1>5 DEF Sessions, Restart, Idle
<1>6. CASE Members \/ UNCHANGED vars
  BY <1>2, <1>3, <1>6 DEF Members, Post, Edit, Remove, vars, Undisturbed
<1>7. ASSUME NEW d \in Chats, Handle(d), d # c
      PROVE  HandlerInv(c)'
  BY <1>1, <1>2, <1>3, <1>7, OneHandlerSteps
<1> QED
  BY <1>2, <1>4, <1>5, <1>6, <1>7 DEF Next

LEMMA RowsPreserved ==
    ASSUME IInv, [Next]_vars
    PROVE  RowsLinkMirrors'
<1> USE DEF IInv
<1> DEFINE Linked(r) == /\ r.dstChat = Target(r.srcChat)
                        /\ r.src \in 1..Len(chat[r.srcChat])
                        /\ Names(r.dstChat, r.dst, r.src)
<1>1. SUFFICES ASSUME NEW r \in rows'
               PROVE  /\ r.dstChat = Target(r.srcChat)
                      /\ r.src \in 1..Len(chat'[r.srcChat])
                      /\ Names(r.dstChat, r.dst, r.src)'
  BY DEF RowsLinkMirrors, Names, Unnamed
<1>2. TypeOK /\ TypeOK'
  BY TypePreserved DEF TypeInv
<1>3. r.srcChat \in Chats /\ r.dstChat \in Chats
  BY <1>2 DEF TypeOK, Row
<1>4. ChatGrowth(r.srcChat) /\ ChatGrowth(r.dstChat)
  BY <1>3, ChatsGrow
<1>5. /\ Len(chat[r.srcChat]) \in Nat /\ Len(chat'[r.srcChat]) \in Nat
      /\ Len(chat[r.dstChat]) \in Nat /\ Len(chat'[r.dstChat]) \in Nat
  BY <1>3, Lengths
<1>6. Linked(r)
  <2>1. CASE r \in rows
    BY <2>1 DEF RowsLinkMirrors, Names, Unnamed
  <2>2. CASE r \notin rows
    <3>1. PICK c \in Chats : Save(c) /\ r = NewRow(c)
      BY <2>2 DEF Next, Members, Post, Edit, Remove, Sessions, Restart, vars,
                  Handle, Ignore, Begin, Finish, ResolveReply, Send, SendFails,
                  SendLost, Save, Find, EditMirror, DeleteOne
    <3>2. HandlerInv(c) /\ c \in Busy /\ handler[c].at = "save"
      BY <3>1 DEF HandlersInv, Save, Busy, At
    <3>3. Describes(Current(c), chat[c])
      BY <3>2, BusyUpdate
    <3> QED
      BY <3>1, <3>2, <3>3 DEF HandlerInv, Describes, NewRow
  <2> QED
    BY <2>1, <2>2
<1>7. Names(r.dstChat, r.dst, r.src)'
  BY <1>3, <1>6, NamesStay
<1> QED
  BY <1>4, <1>5, <1>6, <1>7 DEF ChatGrowth

LEMMA RepliesPreserved ==
    ASSUME IInv, [Next]_vars
    PROVE  RepliesInv'
<1> USE DEF IInv
<1> SUFFICES ASSUME NEW c \in Chats, NEW i \in 1..Len(chat'[c]),
                    chat'[c][i].origin # 0, chat'[c][i].reply # 0
             PROVE  /\ chat'[Target(c)][chat'[c][i].origin].reply # 0
                    /\ Counterparts(chat', Target(c),
                          chat'[Target(c)][chat'[c][i].origin].reply,
                          chat'[c][i].reply)
  BY DEF RepliesInv, ReplyInv
<1> DEFINE d == Target(c)
<1>1. d \in Chats /\ Target(d) = c /\ ChatGrowth(c) /\ ChatGrowth(d)
  BY ChatsGrow, RoutingIsSymmetric
<1>2. /\ Len(chat[c]) \in Nat /\ Len(chat'[c]) \in Nat
      /\ Len(chat[d]) \in Nat /\ Len(chat'[d]) \in Nat
  BY <1>1, Lengths
<1> DEFINE o == chat'[c][i].origin
           y == chat'[c][i].reply
\* It is enough to have the fact about the source as it was before the step.
<1>3. SUFFICES /\ o \in 1..Len(chat[d])
               /\ chat[d][o].reply # 0
               /\ Counterparts(chat, d, chat[d][o].reply, y)
  <2>1. SameMessage(chat'[d][o], chat[d][o])
    BY <1>1, <1>3 DEF ChatGrowth
  <2>2. chat'[d][o].reply = chat[d][o].reply
    BY <2>1 DEF SameMessage
  <2>3. Counterparts(chat', d, chat[d][o].reply, y)
    BY <1>1, <1>3, CounterpartsStay
  <2> QED
    BY <1>3, <2>2, <2>3
<1>4. CASE i \in 1..Len(chat[c])
  <2>1. SameMessage(chat'[c][i], chat[c][i])
    BY <1>1, <1>4 DEF ChatGrowth
  <2>2. o = chat[c][i].origin /\ y = chat[c][i].reply
    BY <2>1 DEF SameMessage
  <2>3. o \in 1..Len(chat[d])
    BY <1>2, <1>4, <2>2 DEF MessagesInv
  <2>4. ReplyInv(c, i)
    BY <1>4 DEF RepliesInv
  <2> QED
    BY <2>2, <2>3, <2>4 DEF ReplyInv
<1>5. CASE i > Len(chat[c])
  <2>1. Comes(c, i)
    BY <1>1, <1>5 DEF ChatGrowth
  <2>2. PICK e \in Chats : /\ At(e, "send") /\ handler[e].to = c
                           /\ chat'[c][i] = Copy(e)
    <3>1. \A r : Written(r).origin = 0
      BY DEF Written
    <3> QED
      BY <2>1, <3>1 DEF Comes
  <2>3. e = d
    BY <2>2, CopyFacts, RoutingIsSymmetric
  <2> QED
    BY <2>2, <2>3, CopyFacts
<1> QED
  BY <1>2, <1>4, <1>5
------------------------------------------------------------------------------
LEMMA IInvInit == Init => IInv
<1> SUFFICES ASSUME Init
             PROVE  IInv
  OBVIOUS
<1>1. TypeInv
  BY IdleType, RelayAssumption
     DEF Init, TypeInv, TypeOK, BusyPending, Busy, At, Idle
<1>2. \A c \in Chats : Len(chat[c]) = 0 /\ Len(log[c]) = 0 /\ rows = {}
  BY DEF Init
<1>3. LogsDescribe /\ MessagesInv /\ RowsLinkMirrors /\ RepliesInv
  BY <1>2 DEF LogsDescribe, MessagesInv, RowsLinkMirrors, RepliesInv, Init
<1>4. HandlersInv
  BY DEF Init, HandlersInv, HandlerInv, Idle
<1>5. budget["short"] <= Budget["short"]
  BY RelayAssumption DEF Init, EnvActs
<1> QED
  BY <1>1, <1>3, <1>4, <1>5 DEF IInv

LEMMA IInvStep == IInv /\ [Next]_vars => IInv'
<1> SUFFICES ASSUME IInv, [Next]_vars
             PROVE  IInv'
  OBVIOUS
<1>1. TypeInv'
  BY TypePreserved, BusyPendingPreserved DEF IInv, TypeInv
<1>2. LogsDescribe'
  BY LogsDescribePreserved DEF IInv
<1>3. budget'["short"] <= Budget["short"]
  <2>1. "short" \in EnvActs /\ budget["short"] <= Budget["short"] /\ TypeInv
    BY DEF EnvActs, IInv
  <2>2. Budget["short"] \in Nat
    BY <2>1, RelayAssumption
  <2> QED
    BY <2>1, <2>2, BudgetShrinks
<1> QED
  BY <1>1, <1>2, <1>3, MessagesPreserved, HandlersPreserved, RowsPreserved,
     RepliesPreserved DEF IInv

\* The mapping table is sound (RowsLinkMirrors), with any number of accounts
\* taking shifts, whatever fails and whenever a session ends: what edits,
\* deletions and replies are routed by ties a message to its own mirror, or,
\* once some answer did not name its message, to none.
THEOREM RowsAreSound == Spec => []RowsLinkMirrors
<1>1. IInv => RowsLinkMirrors
  BY DEF IInv
<1> QED
  BY <1>1, IInvInit, IInvStep, PTL DEF Spec

\* Replies correspond (RepliesCorrespond): resolveReplyTarget never attaches
\* a copy to a message other than the counterpart of the one replied to.
THEOREM RepliesAreSound == Spec => []RepliesCorrespond
<1>1. IInv => RepliesCorrespond
  <2> SUFFICES ASSUME IInv, NEW c \in Chats, NEW i \in 1..Len(chat[c]),
                      chat[c][i].origin # 0, chat[c][i].reply # 0
               PROVE  LET s == chat[Target(c)][chat[c][i].origin]
                      IN  /\ s.reply # 0
                          /\ \/ chat[c][chat[c][i].reply].origin = s.reply
                             \/ chat[Target(c)][s.reply].origin = chat[c][i].reply
    BY DEF RepliesCorrespond
  <2>1. ReplyInv(c, i)
    BY DEF IInv, RepliesInv
  <2> QED
    BY <2>1, RoutingIsSymmetric DEF ReplyInv, Counterparts
<1> QED
  BY <1>1, IInvInit, IInvStep, PTL DEF Spec
------------------------------------------------------------------------------
(* A single account.  Its filter on the sender keeps its own copies out.    *)
(* With two accounts the theorem fails, and so does the filter.            *)

SingleAccount == \A a, b \in Accounts : a = b

LEMMA NoEchoStep ==
    ASSUME SingleAccount, IInv, NoEcho, [Next]_vars
    PROVE  NoEcho'
<1> USE DEF IInv
<1> SUFFICES ASSUME NEW c \in Chats, NEW i \in 1..Len(chat'[c]),
                    chat'[c][i].origin # 0
             PROVE  chat'[Target(c)][chat'[c][i].origin].origin = 0
  BY DEF NoEcho, IsMirror
<1> DEFINE d == Target(c)
           o == chat'[c][i].origin
<1>1. d \in Chats /\ Target(d) = c /\ ChatGrowth(c) /\ ChatGrowth(d)
  BY ChatsGrow, RoutingIsSymmetric
<1>2. /\ Len(chat[c]) \in Nat /\ Len(chat'[c]) \in Nat
      /\ Len(chat[d]) \in Nat /\ Len(chat'[d]) \in Nat
  BY <1>1, Lengths
<1>3. SUFFICES o \in 1..Len(chat[d]) /\ chat[d][o].origin = 0
  BY <1>1, <1>3 DEF ChatGrowth, SameMessage
<1>4. CASE i \in 1..Len(chat[c])
  <2>1. o = chat[c][i].origin
    BY <1>1, <1>4 DEF ChatGrowth, SameMessage
  <2>2. o \in 1..Len(chat[d])
    BY <1>2, <1>4, <2>1 DEF MessagesInv
  <2>3. chat[d][o].origin = 0
    BY <1>4, <2>1 DEF NoEcho, IsMirror
  <2> QED
    BY <2>2, <2>3
<1>5. CASE i > Len(chat[c])
  <2>1. Comes(c, i)
    BY <1>1, <1>5 DEF ChatGrowth
  <2>2. PICK e \in Chats : /\ At(e, "send") /\ handler[e].to = c
                           /\ chat'[c][i] = Copy(e)
    <3>1. \A r : Written(r).origin = 0
      BY DEF Written
    <3> QED
      BY <2>1, <3>1 DEF Comes
  <2>3. e = d
    BY <2>2, CopyFacts, RoutingIsSymmetric
  <2>4. /\ o \in 1..Len(chat[d]) /\ active \in Accounts
        /\ chat[d][o].from # active
    BY <2>2, <2>3, CopyFacts
  <2>5. chat[d][o] \in Message
    BY <1>1, <2>4, MessageType DEF TypeInv
  <2>6. chat[d][o].from = User
    BY <2>4, <2>5 DEF Message, SingleAccount
  <2> QED
    BY <1>1, <2>4, <2>6 DEF MessagesInv
<1> QED
  BY <1>2, <1>4, <1>5

\* A single account never copies one of its own copies (NoEcho), however many
\* sessions it goes through.
THEOREM SingleAccountNoEcho == SingleAccount => (Spec => []NoEcho)
<1> SUFFICES ASSUME SingleAccount
             PROVE  Spec => []NoEcho
  OBVIOUS
<1>1. Init => IInv /\ NoEcho
  <2>1. Init => NoEcho
    BY DEF Init, NoEcho
  <2> QED
    BY <2>1, IInvInit
<1>2. IInv /\ NoEcho /\ [Next]_vars => (IInv /\ NoEcho)'
  BY IInvStep, NoEchoStep
<1> QED
  BY <1>1, <1>2, PTL DEF Spec
------------------------------------------------------------------------------
(* How many copies a message gets.  The argument counts sessions: a message *)
(* is announced once, a session handles an update at most once, and sends   *)
(* it once and once more per lost answer.  While the update of a message is *)
(* still ahead of the session's reader, its copies are therefore accounted  *)
(* for by earlier sessions and lost answers alone.                          *)

Mishaps == Budget["restart"] + Budget["lost"]

MishapsLeft == budget["restart"] + budget["lost"]

CopyCount(c, i) == Cardinality(Mirrors(c, i))

\* Messages are announced in their order, hence once.
AnnouncedOnce ==
    \A c \in Chats : \A k, l \in 1..Len(log[c]) :
        k < l /\ log[c][k].kind = "new" /\ log[c][l].kind = "new"
            => log[c][k].id < log[c][l].id

\* This session did not send what update k of c announces, but may.
Ahead(c, k) ==
    \/ k > pts[active][c] + 1
    \/ k = pts[active][c] + 1 /\ handler[c].at \notin {"save", "done"}

AheadInv ==
    \A c \in Chats : \A k \in 1..Len(log[c]) :
        log[c][k].kind = "new" /\ Ahead(c, k)
            => CopyCount(c, log[c][k].id) + MishapsLeft <= Mishaps

CountInv == /\ MishapsLeft <= Mishaps
            /\ AnnouncedOnce
            /\ ExtraCopiesAreRepeats
            /\ AheadInv

LEMMA CountType ==
    ASSUME TypeOK, NEW c \in Chats, NEW i
    PROVE  /\ IsFiniteSet(Mirrors(c, i))
           /\ CopyCount(c, i) \in Nat
           /\ MishapsLeft \in Nat /\ Mishaps \in Nat
<1>1. Len(chat[Target(c)]) \in Nat
  BY RoutingIsSymmetric DEF TypeOK
<1>2. IsFiniteSet(1..Len(chat[Target(c)]))
  BY <1>1, FS_Interval
<1>3. Mirrors(c, i) \in SUBSET (1..Len(chat[Target(c)]))
  BY DEF Mirrors
<1>4. IsFiniteSet(Mirrors(c, i))
  BY <1>2, <1>3, FS_Subset
<1>5. budget["restart"] \in Nat /\ budget["lost"] \in Nat
      /\ Budget["restart"] \in Nat /\ Budget["lost"] \in Nat
  BY RelayAssumption DEF TypeOK, EnvActs
<1>6. CopyCount(c, i) \in Nat
  BY <1>4, FS_CardinalityType DEF CopyCount
<1> QED
  BY <1>4, <1>5, <1>6 DEF MishapsLeft, Mishaps

LEMMA CountTypeNext ==
    ASSUME TypeInv, [Next]_vars, NEW c \in Chats, NEW i
    PROVE  CopyCount(c, i)' \in Nat /\ MishapsLeft' \in Nat
<1>1. TypeOK'
  BY TypePreserved
<1>2. Len(chat'[Target(c)]) \in Nat
  BY <1>1, RoutingIsSymmetric DEF TypeOK
<1>3. IsFiniteSet(1..Len(chat'[Target(c)]))
  BY <1>2, FS_Interval
<1>4. Mirrors(c, i)' \in SUBSET (1..Len(chat'[Target(c)]))
  BY DEF Mirrors
<1>5. IsFiniteSet(Mirrors(c, i)')
  BY <1>3, <1>4, FS_Subset
<1>6. CopyCount(c, i)' \in Nat
  BY <1>5, FS_CardinalityType DEF CopyCount
<1>7. budget'["restart"] \in Nat /\ budget'["lost"] \in Nat
  BY <1>1 DEF TypeOK, EnvActs
<1> QED
  BY <1>6, <1>7 DEF MishapsLeft

\* A copy that a mishap pays for, in numbers.
LEMMA CopyPaid ==
    ASSUME NEW n \in Nat, NEW next \in Nat, NEW left \in Nat,
           NEW leftNext \in Nat, NEW all \in Nat,
           next <= n + 1, leftNext + 1 <= left, n + left <= all
    PROVE  next + leftNext <= all
  OBVIOUS

\* The same where the copy was made before the mishap.
LEMMA RepeatPaid ==
    ASSUME NEW n \in Nat, NEW left \in Nat, NEW leftNext \in Nat, NEW all \in Nat,
           leftNext + 1 <= left, n + left <= 1 + all
    PROVE  n + leftNext <= all
  OBVIOUS

\* The bound in the words of these definitions.
LEMMA CountBound ==
    ASSUME TypeOK, ExtraCopiesAreRepeats, NEW c \in Chats,
           NEW i \in 1..Len(chat[c])
    PROVE  CopyCount(c, i) + MishapsLeft <= 1 + Mishaps
<1>1. /\ CopyCount(c, i) \in Nat
      /\ budget["restart"] \in Nat /\ budget["lost"] \in Nat
      /\ Budget["restart"] \in Nat /\ Budget["lost"] \in Nat
  BY CountType, RelayAssumption DEF TypeOK, EnvActs
<1>2. CopyCount(c, i) + budget["restart"] + budget["lost"]
          <= 1 + Budget["restart"] + Budget["lost"]
  BY DEF ExtraCopiesAreRepeats, CopyCount
<1>3. ASSUME NEW n \in Nat, NEW v \in Nat, NEW w \in Nat,
             NEW x \in Nat, NEW y \in Nat, n + v + w <= 1 + x + y
      PROVE  n + (v + w) <= 1 + (x + y)
  BY <1>3
<1>4. CopyCount(c, i) + (budget["restart"] + budget["lost"])
          <= 1 + (Budget["restart"] + Budget["lost"])
  BY <1>1, <1>2, <1>3
<1> QED
  BY <1>4 DEF MishapsLeft, Mishaps

\* No step gives a mishap back, a restart takes one, and so does a lost answer.
LEMMA MishapsStep ==
    ASSUME TypeOK, [Next]_vars
    PROVE  /\ MishapsLeft' <= MishapsLeft
           /\ Sessions => MishapsLeft' + 1 <= MishapsLeft
           /\ \A c \in Chats : SendLost(c) => MishapsLeft' + 1 <= MishapsLeft
<1>1. /\ budget \in [EnvActs -> Nat]
      /\ "restart" \in EnvActs /\ "lost" \in EnvActs
  BY DEF TypeOK, EnvActs
<1>2. ASSUME NEW k, Spend(k)
      PROVE  /\ budget'["restart"] <= budget["restart"]
             /\ budget'["lost"] <= budget["lost"]
             /\ k \in {"restart", "lost"} => budget'[k] + 1 <= budget[k]
  BY <1>1, <1>2 DEF Spend
<1>3. UNCHANGED budget \/ \E k \in EnvActs : Spend(k)
  BY BudgetStep
<1>4. /\ Sessions => Spend("restart")
      /\ \A c \in Chats : SendLost(c) => Spend("lost")
  BY DEF Sessions, Restart, SendLost
<1>5. /\ budget'["restart"] <= budget["restart"]
      /\ budget'["lost"] <= budget["lost"]
      /\ budget'["restart"] \in Int /\ budget'["lost"] \in Int
  <2>1. CASE UNCHANGED budget
    BY <1>1, <2>1
  <2>2. ASSUME NEW k, Spend(k)
        PROVE  budget'["restart"] \in Int /\ budget'["lost"] \in Int
    BY <1>1, <2>2 DEF Spend
  <2> QED
    BY <1>2, <1>3, <2>1, <2>2
<1>6. Sessions => budget'["restart"] + 1 <= budget["restart"]
  BY <1>2, <1>4
<1>7. \A c \in Chats : SendLost(c) => budget'["lost"] + 1 <= budget["lost"]
  BY <1>2, <1>4
<1> QED
  BY <1>1, <1>5, <1>6, <1>7 DEF MishapsLeft

\* A message that was there gets a copy from the handler that sends it, or
\* from nobody.
LEMMA MirrorsStep ==
    ASSUME IInv, [Next]_vars, NEW c \in Chats, NEW i \in 1..Len(chat[c])
    PROVE  \/ Mirrors(c, i)' = Mirrors(c, i)
           \/ /\ Sends(c) /\ i = Current(c).id
              /\ \E j : Mirrors(c, i)' = Mirrors(c, i) \cup {j}
<1> USE DEF IInv, TypeInv
<1> DEFINE d == Target(c)
<1>1. d \in Chats /\ ChatGrowth(d) /\ Target(d) = c
  BY ChatsGrow, RoutingIsSymmetric
<1>2. Len(chat[d]) \in Nat /\ Len(chat'[d]) \in Nat /\ Len(chat'[d]) >= Len(chat[d])
  BY <1>1, Lengths DEF ChatGrowth
<1>3. \A j \in 1..Len(chat[d]) : chat'[d][j].origin = chat[d][j].origin
  BY <1>1 DEF ChatGrowth, SameMessage
<1>4. CASE \A j \in 1..Len(chat'[d]) : j > Len(chat[d]) => chat'[d][j].origin # i
  BY <1>2, <1>3, <1>4 DEF Mirrors
<1>5. ASSUME NEW j \in 1..Len(chat'[d]), j > Len(chat[d]), chat'[d][j].origin = i
      PROVE  /\ Sends(c) /\ i = Current(c).id
             /\ Mirrors(c, i)' = Mirrors(c, i) \cup {Len(chat[d]) + 1}
  <2>1. Comes(d, j) /\ i # 0
    BY <1>1, <1>5 DEF ChatGrowth
  <2>2. PICK e \in Chats : /\ Sends(e) /\ At(e, "send") /\ handler[e].to = d
                           /\ chat'[d][j] = Copy(e)
    <3>1. \A r : Written(r).origin = 0
      BY DEF Written
    <3> QED
      BY <1>5, <2>1, <3>1 DEF Comes
  <2>3. e = c
    BY <1>1, <2>2, CopyFacts, RoutingIsSymmetric
  <2>4. i = Current(c).id
    BY <1>5, <2>2, <2>3 DEF Copy
  <2>5. chat'[d] = Append(chat[d], Copy(c))
    BY <1>1, <2>2, <2>3 DEF Sends, Send, SendLost, Deliver, Append1, TypeOK
  <2>6. Copy(c) \in Message /\ chat[d] \in Seq(Message)
    BY <1>1, <2>2, <2>3, CopyType DEF TypeOK, Busy, At
  <2>7. Len(chat'[d]) = Len(chat[d]) + 1
        /\ chat'[d][Len(chat[d]) + 1].origin = i
    BY <2>4, <2>5, <2>6 DEF Copy
  <2>8. 1..Len(chat'[d]) = 1..Len(chat[d]) \cup {Len(chat[d]) + 1}
    BY <1>2, <2>7
  <2> HIDE DEF IInv, TypeInv
  <2>9. Mirrors(c, i)' = Mirrors(c, i) \cup {Len(chat[d]) + 1}
    BY <1>3, <2>7, <2>8 DEF Mirrors
  <2> QED
    BY <2>2, <2>3, <2>4, <2>9
<1> QED
  BY <1>4, <1>5

\* Nobody copies a message before it is there.
LEMMA NewMessageHasNone ==
    ASSUME IInv, [Next]_vars, NEW c \in Chats, NEW i, i \in Nat, i > Len(chat[c])
    PROVE  CopyCount(c, i)' <= 0
<1> USE DEF IInv, TypeInv
<1> DEFINE d == Target(c)
<1>1. d \in Chats /\ ChatGrowth(d) /\ Target(d) = c
  BY ChatsGrow, RoutingIsSymmetric
<1>2. /\ Len(chat[d]) \in Nat /\ Len(chat'[d]) \in Nat /\ Len(chat[c]) \in Nat
  BY <1>1, Lengths
<1>3. ASSUME NEW j \in 1..Len(chat'[d])
      PROVE  chat'[d][j].origin # i
  <2>1. CASE j \in 1..Len(chat[d])
    <3>1. chat'[d][j].origin = chat[d][j].origin
      BY <1>1, <2>1 DEF ChatGrowth, SameMessage
    <3>2. chat[d][j].origin \in 0..Len(chat[c])
      BY <1>1, <2>1 DEF MessagesInv
    <3> QED
      BY <1>2, <3>1, <3>2
  <2>2. CASE j > Len(chat[d])
    <3>1. Comes(d, j)
      BY <1>1, <2>2 DEF ChatGrowth
    <3>2. \A r : Written(r).origin = 0
      BY DEF Written
    <3>3. ASSUME NEW e \in Chats, At(e, "send"), handler[e].to = d
          PROVE  Copy(e).origin \in 1..Len(chat[c])
      BY <1>1, <3>3, CopyFacts, RoutingIsSymmetric
    <3> QED
      BY <1>2, <3>1, <3>2, <3>3 DEF Comes
  <2> QED
    BY <1>2, <2>1, <2>2
<1>4. Mirrors(c, i)' = {}
  BY <1>3 DEF Mirrors
<1>5. CopyCount(c, i)' = 0
  BY <1>4, FS_EmptySet DEF CopyCount
<1> QED
  BY <1>5

\* What a step does to the number of copies of a message that was there.
LEMMA CountStep ==
    ASSUME IInv, [Next]_vars, NEW c \in Chats, NEW i \in 1..Len(chat[c])
    PROVE  \/ CopyCount(c, i)' = CopyCount(c, i)
           \/ /\ Sends(c) /\ i = Current(c).id
              /\ CopyCount(c, i)' <= CopyCount(c, i) + 1
<1>1. CASE Mirrors(c, i)' = Mirrors(c, i)
  BY <1>1 DEF CopyCount
<1>2. ASSUME NEW j, Mirrors(c, i)' = Mirrors(c, i) \cup {j}
      PROVE  CopyCount(c, i)' <= CopyCount(c, i) + 1
  <2>1. IsFiniteSet(Mirrors(c, i)) /\ Cardinality(Mirrors(c, i)) \in Nat
    BY CountType DEF CopyCount, IInv, TypeInv
  <2>2. Cardinality(Mirrors(c, i) \cup {j}) <= Cardinality(Mirrors(c, i)) + 1
    <3>1. Cardinality(Mirrors(c, i) \cup {j}) =
              IF j \in Mirrors(c, i) THEN Cardinality(Mirrors(c, i))
                                    ELSE Cardinality(Mirrors(c, i)) + 1
      BY <2>1, FS_AddElement
    <3> QED
      BY <2>1, <3>1
  <2> QED
    BY <1>2, <2>2 DEF CopyCount
<1> QED
  BY <1>1, <1>2, MirrorsStep

\* The reader only moves forward within a session.
LEMMA AheadStep ==
    ASSUME TypeInv, [Next]_vars, ~Sessions, NEW c \in Chats,
           NEW k \in 1..Len(log[c]), Ahead(c, k)'
    PROVE  Ahead(c, k)
<1> USE DEF TypeInv
<1>1. /\ pts[active][c] \in Nat /\ Len(log[c]) \in Nat
      /\ handler \in [Chats -> Handler] /\ pts \in [Accounts -> [Chats -> Nat]]
      /\ active \in Accounts
  BY DEF TypeOK
<1>2. CASE Undisturbed(c)
  BY <1>2 DEF Undisturbed, Ahead
<1>3. CASE Handle(c)
  <2>1. CASE Ignore(c) \/ Finish(c)
    <3>1. active' = active /\ pts'[active][c] = pts[active][c] + 1
      BY <1>1, <2>1 DEF Ignore, Finish
    <3> QED
      BY <1>1, <3>1 DEF Ahead
  <2>2. CASE handler[c].at \notin {"save", "done"} /\ UNCHANGED <<active, pts>>
    BY <2>2 DEF Ahead
  <2>3. CASE Save(c)
    BY <1>1, <2>3 DEF Save, Return, Done, Idle, Ahead
  <2> QED
    BY <1>3, <2>1, <2>2, <2>3
       DEF Handle, Begin, ResolveReply, Send, SendFails, SendLost, Find,
           EditMirror, DeleteOne, At
<1>4. ASSUME NEW d \in Chats, Handle(d), d # c
      PROVE  Undisturbed(c)
  BY <1>4, OneHandlerSteps
<1>5. CASE Members \/ UNCHANGED vars
  BY <1>2, <1>5 DEF Members, Post, Edit, Remove, vars, Undisturbed
<1> QED
  BY <1>2, <1>3, <1>4, <1>5 DEF Next

LEMMA AnnouncedOncePreserved ==
    ASSUME IInv, AnnouncedOnce, [Next]_vars
    PROVE  AnnouncedOnce'
<1> USE DEF IInv, TypeInv
<1> SUFFICES ASSUME NEW c \in Chats, NEW k \in 1..Len(log'[c]),
                    NEW l \in 1..Len(log'[c]), k < l,
                    log'[c][k].kind = "new", log'[c][l].kind = "new"
             PROVE  log'[c][k].id < log'[c][l].id
  BY DEF AnnouncedOnce
<1>1. LogGrowth(c) /\ Len(log[c]) \in Nat /\ Len(log'[c]) \in Nat
  <2>1. log[c] \in Seq(Update)
    BY DEF TypeOK
  <2>2. log'[c] \in Seq(Update)
    BY TypePreserved DEF TypeOK
  <2>3. LogGrowth(c)
    BY LogsGrow
  <2> HIDE DEF IInv, TypeInv
  <2> QED
    BY <2>1, <2>2, <2>3
<1>2. CASE l \in 1..Len(log[c])
  <2>1. k \in 1..Len(log[c])
    BY <1>1, <1>2
  <2> QED
    BY <1>1, <1>2, <2>1 DEF LogGrowth, AnnouncedOnce
<1>3. CASE l > Len(log[c]) /\ k \in 1..Len(log[c])
  <2>1. log'[c][l].id > Len(chat[c]) /\ log'[c][k] = log[c][k]
    BY <1>1, <1>3 DEF LogGrowth
  <2>2. log[c][k].id \in 1..Len(chat[c])
    BY <1>3, <2>1 DEF LogsDescribe, Describes
  <2>3. log'[c] \in Seq(Update) /\ Len(chat[c]) \in Nat
    BY TypePreserved DEF TypeOK
  <2>4. log'[c][l].id \in Nat
    <3>1. log'[c][l] \in Update
      BY <2>3
    <3> QED
      BY <3>1 DEF Update
  <2> QED
    BY <2>1, <2>2, <2>3, <2>4
<1>4. k \in 1..Len(log[c])
  BY <1>1 DEF LogGrowth
<1> QED
  BY <1>1, <1>2, <1>3, <1>4

\* The handler that sends is at an update that is ahead, and at no other one
\* about the same message.
LEMMA SendsAhead ==
    ASSUME IInv, AnnouncedOnce, NEW c \in Chats, Sends(c)
    PROVE  LET n == pts[active][c] + 1
           IN  /\ n \in 1..Len(log[c]) /\ log[c][n] = Current(c)
               /\ log[c][n].kind = "new" /\ Ahead(c, n)
               /\ \A k \in 1..Len(log[c]) :
                     log[c][k].kind = "new" /\ log[c][k].id = Current(c).id => k = n
<1> USE DEF IInv, TypeInv
<1> DEFINE n == pts[active][c] + 1
<1>1. At(c, "send") /\ c \in Busy
  BY DEF Sends, Send, SendLost, Busy, At
<1>2. n \in 1..Len(log[c]) /\ log[c][n] = Current(c)
  BY <1>1 DEF BusyPending, Pending, TypeOK, Current
<1>3. Current(c).kind = "new"
  BY <1>1 DEF HandlersInv, HandlerInv, At
<1>4. Ahead(c, n)
  BY <1>1 DEF Ahead, At
<1>5. ASSUME NEW k \in 1..Len(log[c]), log[c][k].kind = "new",
             log[c][k].id = Current(c).id, k # n
      PROVE  FALSE
  <2>1. log[c] \in Seq(Update)
    BY DEF TypeOK
  <2>2. log[c][k] \in Update /\ log[c][n] \in Update /\ k \in Nat /\ n \in Nat
    BY <1>2, <2>1
  <2>3. log[c][k].id \in Nat
    BY <2>2 DEF Update
  <2>4. k < n \/ n < k
    BY <1>5, <2>2
  <2>5. log[c][k].id < log[c][n].id \/ log[c][n].id < log[c][k].id
    BY <1>2, <1>3, <1>5, <2>4 DEF AnnouncedOnce
  <2> QED
    BY <1>2, <1>5, <2>3, <2>5
<1> QED
  BY <1>2, <1>3, <1>4, <1>5

LEMMA ExtraCopiesPreserved ==
    ASSUME IInv, CountInv, [Next]_vars
    PROVE  ExtraCopiesAreRepeats'
<1> USE DEF IInv, TypeInv
<1> SUFFICES ASSUME NEW c \in Chats, NEW i \in 1..Len(chat'[c])
             PROVE  CopyCount(c, i)' + MishapsLeft' <= 1 + Mishaps
  <2>1. \A c \in Chats : \A i \in 1..Len(chat'[c]) :
            /\ CopyCount(c, i)' \in Nat
            /\ budget'["restart"] \in Nat /\ budget'["lost"] \in Nat
            /\ Budget["restart"] \in Nat /\ Budget["lost"] \in Nat
    BY TypePreserved, RelayAssumption, CountTypeNext DEF TypeOK, EnvActs
  <2> QED
    BY <2>1 DEF ExtraCopiesAreRepeats, CopyCount, MishapsLeft, Mishaps
<1>1. /\ MishapsLeft \in Nat /\ Mishaps \in Nat /\ MishapsLeft' \in Nat
      /\ CopyCount(c, i) \in Nat /\ CopyCount(c, i)' \in Nat
      /\ MishapsLeft' <= MishapsLeft /\ MishapsLeft <= Mishaps
      /\ i \in Nat /\ Len(chat[c]) \in Nat
  BY CountType, CountTypeNext, MishapsStep, Lengths DEF CountInv
<1>2. CASE i > Len(chat[c])
  <2>1. CopyCount(c, i)' <= 0
    BY <1>1, <1>2, NewMessageHasNone
  <2> QED
    BY <1>1, <2>1
<1>3. CASE i \in 1..Len(chat[c])
  <2>1. CopyCount(c, i) + MishapsLeft <= 1 + Mishaps
    BY <1>3, CountBound DEF CountInv
  <2>2. CASE CopyCount(c, i)' = CopyCount(c, i)
    BY <1>1, <2>1, <2>2
  <2>3. CASE /\ Sends(c) /\ i = Current(c).id
             /\ CopyCount(c, i)' <= CopyCount(c, i) + 1
    <3>1. CopyCount(c, i) + MishapsLeft <= Mishaps
      BY <2>3, SendsAhead DEF CountInv, AheadInv
    <3> QED
      BY <1>1, <2>3, <3>1
  <2> QED
    BY <1>3, <2>2, <2>3, CountStep
<1> QED
  BY <1>1, <1>2, <1>3

LEMMA AheadPreserved ==
    ASSUME IInv, CountInv, [Next]_vars
    PROVE  AheadInv'
<1> USE DEF IInv, TypeInv
<1> SUFFICES ASSUME NEW c \in Chats, NEW k \in 1..Len(log'[c]),
                    log'[c][k].kind = "new", Ahead(c, k)',
                    NEW i, i = log'[c][k].id
             PROVE  CopyCount(c, i)' + MishapsLeft' <= Mishaps
  BY DEF AheadInv, Mishaps
<1>1. /\ MishapsLeft \in Nat /\ Mishaps \in Nat /\ MishapsLeft' \in Nat
      /\ CopyCount(c, i) \in Nat /\ CopyCount(c, i)' \in Nat
      /\ MishapsLeft' <= MishapsLeft /\ MishapsLeft <= Mishaps
      /\ Len(chat[c]) \in Nat /\ Len(log[c]) \in Nat
  <2>1. Len(log[c]) \in Nat
    BY DEF TypeOK
  <2> QED
    BY <2>1, CountType, CountTypeNext, MishapsStep, Lengths DEF CountInv
<1>2. LogGrowth(c) /\ log'[c] \in Seq(Update)
  BY LogsGrow, TypePreserved DEF TypeOK
<1>3. i \in Nat
  <2>1. log'[c][k] \in Update
    BY <1>2
  <2> QED
    BY <2>1 DEF Update
<1>4. CASE k > Len(log[c])
  <2>1. i > Len(chat[c])
    BY <1>2, <1>4 DEF LogGrowth
  <2>2. CopyCount(c, i)' <= 0
    BY <1>3, <2>1, NewMessageHasNone
  <2> QED
    BY <1>1, <2>2
<1>5. CASE k \in 1..Len(log[c])
  <2>1. log'[c][k] = log[c][k]
    BY <1>2, <1>5 DEF LogGrowth
  <2>2. i \in 1..Len(chat[c])
    BY <1>5, <2>1 DEF LogsDescribe, Describes
  <2>3. CASE CopyCount(c, i)' = CopyCount(c, i)
    <3>1. CASE Sessions
      <4>1. MishapsLeft' + 1 <= MishapsLeft
        BY <3>1, MishapsStep
      <4>2. CopyCount(c, i) + MishapsLeft <= 1 + Mishaps
        BY <2>2, CountBound DEF CountInv
      <4>3. /\ CopyCount(c, i) \in Nat /\ CopyCount(c, i)' \in Nat
            /\ MishapsLeft \in Nat /\ MishapsLeft' \in Nat /\ Mishaps \in Nat
        BY <1>1
      <4> QED
        BY <2>3, <4>1, <4>2, <4>3, RepeatPaid
    <3>2. CASE ~Sessions
      <4>1. Ahead(c, k)
        BY <1>5, <3>2, AheadStep
      <4>2. CopyCount(c, i) + MishapsLeft <= Mishaps
        BY <1>5, <2>1, <4>1 DEF CountInv, AheadInv
      <4> QED
        BY <1>1, <2>3, <4>2
    <3> QED
      BY <3>1, <3>2
  <2>4. CASE /\ Sends(c) /\ i = Current(c).id
             /\ CopyCount(c, i)' <= CopyCount(c, i) + 1
    <3>1. k = pts[active][c] + 1 /\ CopyCount(c, i) + MishapsLeft <= Mishaps
      BY <1>5, <2>1, <2>4, SendsAhead DEF CountInv, AheadInv
    <3>2. CASE Send(c)
      <4>1. handler'[c].at = "save" /\ UNCHANGED <<active, pts>>
        BY <3>2 DEF Send, TypeOK, Handler
      <4>2. pts[active][c] \in Nat
        BY DEF TypeOK
      <4> QED
        BY <3>1, <4>1, <4>2 DEF Ahead
    <3>3. CASE SendLost(c)
      <4>1. MishapsLeft' + 1 <= MishapsLeft
        BY <3>3, MishapsStep
      <4>2. /\ CopyCount(c, i)' <= CopyCount(c, i) + 1
            /\ CopyCount(c, i) + MishapsLeft <= Mishaps
        BY <2>4, <3>1
      <4>3. /\ CopyCount(c, i) \in Nat /\ CopyCount(c, i)' \in Nat
            /\ MishapsLeft \in Nat /\ MishapsLeft' \in Nat /\ Mishaps \in Nat
        BY <1>1
      <4> QED
        BY <4>1, <4>2, <4>3, CopyPaid
    <3> QED
      BY <2>4, <3>2, <3>3 DEF Sends
  <2> QED
    BY <2>2, <2>3, <2>4, CountStep
<1> QED
  BY <1>1, <1>4, <1>5

LEMMA CountInit == Init => CountInv
<1> SUFFICES ASSUME Init
             PROVE  CountInv
  OBVIOUS
<1>1. \A c \in Chats : Len(chat[c]) = 0 /\ Len(log[c]) = 0
  BY DEF Init
<1>2. MishapsLeft <= Mishaps
  BY RelayAssumption DEF Init, MishapsLeft, Mishaps, EnvActs
<1> QED
  BY <1>1, <1>2 DEF CountInv, AnnouncedOnce, ExtraCopiesAreRepeats, AheadInv

LEMMA CountInvStep == IInv /\ CountInv /\ [Next]_vars => CountInv'
<1> SUFFICES ASSUME IInv, CountInv, [Next]_vars
             PROVE  CountInv'
  OBVIOUS
<1>1. MishapsLeft' <= Mishaps'
  <2>1. TypeOK /\ TypeOK'
    BY TypePreserved DEF IInv, TypeInv
  <2>2. /\ budget["restart"] \in Nat /\ budget["lost"] \in Nat
        /\ budget'["restart"] \in Nat /\ budget'["lost"] \in Nat
        /\ Budget["restart"] \in Nat /\ Budget["lost"] \in Nat
    <3>1. "restart" \in EnvActs /\ "lost" \in EnvActs
      BY DEF EnvActs
    <3>2. budget \in [EnvActs -> Nat] /\ budget' \in [EnvActs -> Nat]
      BY <2>1 DEF TypeOK
    <3> QED
      BY <3>1, <3>2, RelayAssumption
  <2>3. MishapsLeft' <= MishapsLeft
    BY <2>1, MishapsStep
  <2>4. MishapsLeft <= Mishaps
    BY DEF CountInv
  <2>5. /\ MishapsLeft \in Nat /\ MishapsLeft' \in Nat
        /\ Mishaps \in Nat /\ Mishaps' = Mishaps
    BY <2>2 DEF MishapsLeft, Mishaps
  <2> HIDE DEF CountInv
  <2> QED
    BY <2>3, <2>4, <2>5
<1> QED
  BY <1>1, AnnouncedOncePreserved, ExtraCopiesPreserved, AheadPreserved
     DEF CountInv

\* Every copy of a message beyond the first is due to a session that ended or
\* to an answer that was lost (ExtraCopiesAreRepeats), for any number of pairs
\* and accounts, messages, errors and retries.
THEOREM ExtraCopiesAreCounted == Spec => []ExtraCopiesAreRepeats
<1>1. Init => IInv /\ CountInv
  BY IInvInit, CountInit
<1>2. IInv /\ CountInv /\ [Next]_vars => (IInv /\ CountInv)'
  BY IInvStep, CountInvStep
<1>3. CountInv => ExtraCopiesAreRepeats
  BY DEF CountInv
<1> QED
  BY <1>1, <1>2, <1>3, PTL DEF Spec

\* While no session ends and no answer is lost, no message is relayed twice
\* (RelayedAtMostOnce), whatever else fails.  The run relay_again shows that
\* the hypothesis is needed.
THEOREM RelayedOnceWithoutMishaps ==
    Budget["restart"] = 0 /\ Budget["lost"] = 0 => (Spec => []RelayedAtMostOnce)
<1> SUFFICES ASSUME Budget["restart"] = 0, Budget["lost"] = 0
             PROVE  Spec => []RelayedAtMostOnce
  OBVIOUS
<1>1. Init => IInv /\ CountInv
  BY IInvInit, CountInit
<1>2. IInv /\ CountInv /\ [Next]_vars => (IInv /\ CountInv)'
  BY IInvStep, CountInvStep
<1>3. IInv /\ CountInv => RelayedAtMostOnce
  <2> SUFFICES ASSUME IInv, CountInv, NEW c \in Chats, NEW i \in 1..Len(chat[c])
               PROVE  CopyCount(c, i) <= 1
    BY DEF RelayedAtMostOnce, CopyCount
  <2>1. /\ CopyCount(c, i) \in Nat /\ MishapsLeft \in Nat
        /\ CopyCount(c, i) + MishapsLeft <= 1 + Mishaps
    BY CountType, CountBound DEF IInv, TypeInv, CountInv
  <2> QED
    BY <2>1 DEF Mishaps
<1> QED
  BY <1>1, <1>2, <1>3, PTL DEF Spec
------------------------------------------------------------------------------
(* Disabled pairs.  A chat gets its copies from the handler of the other    *)
(* chat alone, one per send, and that handler does not start again.        *)

CopiesIn(c) == Cardinality(FromBridge(c))

LEMMA CopiesInType ==
    ASSUME TypeInv, [Next]_vars, NEW c \in Chats
    PROVE  /\ IsFiniteSet(FromBridge(c))
           /\ CopiesIn(c) \in Nat /\ CopiesIn(c)' \in Nat
<1>1. Len(chat[c]) \in Nat /\ Len(chat'[c]) \in Nat
  BY Lengths
<1>2. \A n \in Nat : IsFiniteSet(1..n)
  BY FS_Interval
<1>3. /\ FromBridge(c) \in SUBSET (1..Len(chat[c]))
      /\ FromBridge(c)' \in SUBSET (1..Len(chat'[c]))
  BY DEF FromBridge
<1>4. IsFiniteSet(FromBridge(c)) /\ IsFiniteSet(FromBridge(c)')
  BY <1>1, <1>2, <1>3, FS_Subset
<1> QED
  BY <1>4, FS_CardinalityType DEF CopiesIn

LEMMA CopiesInStep ==
    ASSUME IInv, [Next]_vars, NEW c \in Chats
    PROVE  \/ CopiesIn(c)' = CopiesIn(c)
           \/ Sends(Target(c)) /\ CopiesIn(c)' <= CopiesIn(c) + 1
<1> USE DEF IInv, TypeInv
<1>1. ChatGrowth(c) /\ Target(c) \in Chats /\ Target(Target(c)) = c
  BY ChatsGrow, RoutingIsSymmetric
<1>2. /\ Len(chat[c]) \in Nat /\ Len(chat'[c]) \in Nat
      /\ Len(chat'[c]) >= Len(chat[c])
  BY <1>1, Lengths DEF ChatGrowth
<1>3. \A i \in 1..Len(chat[c]) : chat'[c][i].origin = chat[c][i].origin
  BY <1>1 DEF ChatGrowth, SameMessage
<1>4. CASE \A i \in 1..Len(chat'[c]) :
               i > Len(chat[c]) => chat'[c][i].origin = 0
  <2>1. FromBridge(c)' = FromBridge(c)
    BY <1>2, <1>3, <1>4 DEF FromBridge, IsMirror
  <2> QED
    BY <2>1 DEF CopiesIn
<1>5. ASSUME NEW i \in 1..Len(chat'[c]), i > Len(chat[c]),
             chat'[c][i].origin # 0
      PROVE  Sends(Target(c)) /\ CopiesIn(c)' <= CopiesIn(c) + 1
  <2>1. Comes(c, i)
    BY <1>1, <1>5 DEF ChatGrowth
  <2>2. PICK d \in Chats : Sends(d) /\ At(d, "send") /\ handler[d].to = c
    <3>1. \A r : Written(r).origin = 0
      BY DEF Written
    <3> QED
      BY <1>5, <2>1, <3>1 DEF Comes
  <2>3. d = Target(c)
    BY <2>2, CopyFacts, RoutingIsSymmetric
  <2>4. chat'[c] = Append(chat[c], Copy(d))
    BY <1>1, <2>2 DEF Sends, Send, SendLost, Deliver, Append1, TypeOK
  <2>5. Copy(d) \in Message /\ chat[c] \in Seq(Message)
    BY <2>2, CopyType DEF TypeOK, Busy, At
  <2>6. Len(chat'[c]) = Len(chat[c]) + 1
    BY <2>4, <2>5
  <2>7. i = Len(chat[c]) + 1
    BY <1>2, <1>5, <2>6
  <2>8. FromBridge(c)' = FromBridge(c) \cup {i}
    BY <1>2, <1>3, <1>5, <2>6, <2>7 DEF FromBridge, IsMirror
  <2>9. IsFiniteSet(FromBridge(c)) /\ CopiesIn(c) \in Nat
    BY CopiesInType
  <2>10. Cardinality(FromBridge(c) \cup {i}) =
             IF i \in FromBridge(c) THEN CopiesIn(c) ELSE CopiesIn(c) + 1
    BY <2>9, FS_AddElement DEF CopiesIn
  <2>11. CopiesIn(c)' = IF i \in FromBridge(c) THEN CopiesIn(c)
                                               ELSE CopiesIn(c) + 1
    BY <2>8, <2>10 DEF CopiesIn
  <2> QED
    BY <2>2, <2>3, <2>9, <2>11
<1> QED
  BY <1>4, <1>5

\* No handler of a disabled pair starts.
LEMMA DisabledStayIdle ==
    ASSUME IInv, [Next]_vars, NEW d \in Chats, Key(d) \in disabled,
           handler'[d].at \in {"resolve", "send"}
    PROVE  handler[d].at \in {"resolve", "send"}
<1> USE DEF IInv, TypeInv
<1>1. CASE Undisturbed(d)
  BY <1>1 DEF Undisturbed
<1>2. CASE Handle(d)
  <2>1. ~Begin(d)
    <3>1. Begin(d) => Accepts(d, Current(d))
      BY DEF Begin
    <3> QED
      BY <3>1 DEF Accepts
  <2>2. CASE Ignore(d)
    BY <2>2 DEF Ignore
  <2>3. CASE Finish(d)
    BY <2>3 DEF Finish, Idle, TypeOK
  <2>4. CASE ResolveReply(d) \/ Send(d) \/ SendFails(d) \/ SendLost(d)
    BY <2>4 DEF ResolveReply, Send, SendFails, SendLost, At
  <2>5. CASE Save(d) \/ EditMirror(d)
    BY <2>5 DEF Save, EditMirror, Return, Done, Idle, TypeOK
  <2>6. CASE Find(d)
    <3>1. handler[d] \in Handler
      BY DEF TypeOK
    <3>2. CASE Return(d)
      BY <3>2 DEF Return, Done, Idle, TypeOK
    <3>3. ASSUME NEW r, handler' = [handler EXCEPT ![d].at = "edit",
                            ![d].to = r.dstChat, ![d].msg = r.dst]
          PROVE  handler'[d].at = "edit"
      BY <3>1, <3>3 DEF TypeOK, Handler
    <3> QED
      BY <2>6, <3>2, <3>3 DEF Find
  <2>7. CASE DeleteOne(d)
    <3>1. handler[d] \in Handler /\ handler[d].at = "delete"
      BY <2>7 DEF DeleteOne, At, TypeOK
    <3>2. PICK i : NextId(d, i)
      BY <2>7 DEF DeleteOne
    <3>3. CASE Return(d)
      BY <3>3 DEF Return, Done, Idle, TypeOK
    <3>4. CASE handler' = [handler EXCEPT ![d] = [handler[d] EXCEPT
                              !.todo = handler[d].todo \ {i}]]
      BY <3>1, <3>4 DEF TypeOK, Handler
    <3> QED
      BY <3>2, <3>3, <3>4 DEF NextId
  <2> QED
    BY <1>2, <2>1, <2>2, <2>3, <2>4, <2>5, <2>6, <2>7 DEF Handle
<1>3. ASSUME NEW e \in Chats, Handle(e), e # d
      PROVE  Undisturbed(d)
  BY <1>3, OneHandlerSteps
<1>4. CASE Sessions
  BY <1>4 DEF Sessions, Restart, Idle
<1>5. CASE Members \/ UNCHANGED vars
  BY <1>1, <1>5 DEF Members, Post, Edit, Remove, vars, Undisturbed
<1> QED
  BY <1>1, <1>2, <1>3, <1>4, <1>5 DEF Next

\* Once Telegram has forbidden a pair, its chats get at most the copies that
\* are on their way and those that lost answers repeat (DisabledPairsWindDown),
\* for any number of pairs and sessions: the handler at work when the pair is
\* disabled is counted, not excluded.
THEOREM DisabledPairsFinish == Spec => DisabledPairsWindDown
<1>1. IInv /\ [Next]_vars =>
        [\A c \in Chats :
           Key(c) \in disabled /\ Key(c) \in disabled' =>
               Cardinality(FromBridge(c)') + Underway(c)' + budget'["lost"]
                   <= Cardinality(FromBridge(c)) + Underway(c) + budget["lost"]]_vars
  <2> SUFFICES ASSUME IInv, [Next]_vars, NEW c \in Chats, Key(c) \in disabled
               PROVE  CopiesIn(c)' + Underway(c)' + budget'["lost"]
                          <= CopiesIn(c) + Underway(c) + budget["lost"]
    BY DEF CopiesIn
  <2> DEFINE d == Target(c)
  <2>1. d \in Chats /\ Key(d) \in disabled
    BY RoutingIsSymmetric
  <2>2. TypeInv
    BY DEF IInv
  <2>3. /\ budget["lost"] \in Nat /\ budget'["lost"] \in Nat
        /\ budget'["lost"] <= budget["lost"]
    BY <2>2, BudgetShrinks DEF EnvActs
  <2>4. CopiesIn(c) \in Nat /\ CopiesIn(c)' \in Nat
    BY <2>2, CopiesInType
  <2>5. Underway(c)' \in {0, 1} /\ Underway(c) \in {0, 1}
    BY DEF Underway
  <2>6. Underway(c)' <= Underway(c)
    BY <2>1, DisabledStayIdle DEF Underway
  <2>7. CASE CopiesIn(c)' = CopiesIn(c)
    BY <2>3, <2>4, <2>5, <2>6, <2>7
  <2>8. CASE Send(d) /\ CopiesIn(c)' <= CopiesIn(c) + 1
    <3>1. handler[d].at = "send" /\ handler'[d].at = "save"
      BY <2>1, <2>2, <2>8 DEF Send, At, TypeInv, TypeOK, Handler
    <3>2. Underway(c) = 1 /\ Underway(c)' = 0
      BY <3>1 DEF Underway
    <3> QED
      BY <2>3, <2>4, <2>8, <3>2
  <2>9. CASE SendLost(d) /\ CopiesIn(c)' <= CopiesIn(c) + 1
    <3>1. budget'["lost"] + 1 <= budget["lost"]
      BY <2>2, <2>9 DEF SendLost, Spend, TypeInv, TypeOK, EnvActs
    <3> QED
      BY <2>3, <2>4, <2>5, <2>6, <2>9, <3>1
  <2> QED
    BY <2>7, <2>8, <2>9, CopiesInStep DEF Sends
<1> QED
  BY <1>1, IInvInit, IInvStep, PTL DEF Spec, DisabledPairsWindDown
==============================================================================
