----------------------------- MODULE RelayProofs -----------------------------
(***************************************************************************)
(* What the relay core guarantees for every set of pairs, every set of     *)
(* accounts and every budget of faults, proved with TLAPS.                 *)
(***************************************************************************)
EXTENDS Relay, SequenceTheorems, TLAPS

------------------------------------------------------------------------------
(* The routing table. *)

\* The two chats of a pair are each other's target, whichever pair it is
\* (bridge.New builds both entries from one line of the configuration).
LEMMA RoutingIsSymmetric ==
    ASSUME NEW c \in Chats
    PROVE  /\ Target(c) \in Chats
           /\ Target(c) # c
           /\ Target(Target(c)) = c
           /\ Key(c) \in Keys
           /\ Key(Target(c)) = Key(c)
           /\ Direction(c) \in Directions
<1> DEFINE p == PairOf(c)
<1>1. p \in Pairs /\ c \in {p.merchant, p.support}
  <2>1. \E q \in Pairs : c \in {q.merchant, q.support}
    BY DEF Chats
  <2> QED
    BY <2>1 DEF PairOf
<1>2. Target(c) \in {p.merchant, p.support} /\ Target(c) # c
  BY <1>1, PairsAssumption DEF Target
<1>3. PairOf(Target(c)) = p
  <2>1. \A q \in Pairs : Target(c) \in {q.merchant, q.support} => q = p
    BY <1>1, <1>2, PairsAssumption
  <2> QED
    BY <1>1, <1>2, <2>1 DEF PairOf
<1>4. Target(Target(c)) = c
  BY <1>1, <1>2, <1>3 DEF Target
<1> QED
  BY <1>1, <1>2, <1>3, <1>4 DEF Chats, Keys, Key, Direction, Directions
------------------------------------------------------------------------------
(* Types.  A handler that is at work has an update to work on; without     *)
(* this the type of what it sends would not be known.                      *)

BusyPending == \A c \in Chats : c \in Busy => Pending(c)

TypeInv == TypeOK /\ BusyPending

LEMMA IdleType ==
    ASSUME NEW c \in Chats
    PROVE  Idle(c) \in Handler
BY RetriesAssumption DEF Idle, Handler, FreshRetry, RetryState

\* The changes the steps of a handler make to its record.
LEMMA HandlerSteps ==
    ASSUME NEW h \in Handler
    PROVE  /\ [h EXCEPT !.at = "send"] \in Handler
           /\ \A i \in Nat : [h EXCEPT !.at = "send", !.reply = i] \in Handler
           /\ \A i \in Nat : [h EXCEPT !.at = "save", !.msg = i] \in Handler
           /\ \A i \in Nat, x \in Chats :
                 [h EXCEPT !.at = "edit", !.to = x, !.msg = i] \in Handler
           /\ \A s \in RetryState : [h EXCEPT !.retry = s] \in Handler
           /\ \A ids \in SUBSET Nat : [h EXCEPT !.todo = ids] \in Handler
<1> DEFINE Steps == {"idle", "resolve", "send", "save", "find", "edit",
                     "delete", "done"}
<1>1. h = [at |-> h.at, to |-> h.to, msg |-> h.msg, reply |-> h.reply,
           retry |-> h.retry, todo |-> h.todo]
  BY DEF Handler
<1>2. /\ h.at \in Steps /\ h.to \in Chats /\ h.msg \in Nat
      /\ h.reply \in Nat /\ h.retry \in RetryState /\ h.todo \in SUBSET Nat
  BY DEF Handler
<1>3. [h EXCEPT !.at = "send"] \in Handler
  BY <1>1, <1>2 DEF Handler
<1>4. \A i \in Nat : [h EXCEPT !.at = "send", !.reply = i] \in Handler
  BY <1>1, <1>2 DEF Handler
<1>5. \A i \in Nat : [h EXCEPT !.at = "save", !.msg = i] \in Handler
  BY <1>1, <1>2 DEF Handler
<1>6. \A i \in Nat, x \in Chats :
         [h EXCEPT !.at = "edit", !.to = x, !.msg = i] \in Handler
  BY <1>1, <1>2 DEF Handler
<1>7. \A s \in RetryState : [h EXCEPT !.retry = s] \in Handler
  BY <1>1, <1>2 DEF Handler
<1>8. \A ids \in SUBSET Nat : [h EXCEPT !.todo = ids] \in Handler
  BY <1>1, <1>2 DEF Handler
<1> QED
  BY <1>3, <1>4, <1>5, <1>6, <1>7, <1>8

LEMMA CurrentType ==
    ASSUME TypeOK, NEW c \in Chats, Pending(c)
    PROVE  Current(c) \in Update
BY DEF TypeOK, Pending, Current

LEMMA UpdateTypes ==
    ASSUME NEW m \in Message, NEW i \in Nat
    PROVE  NewUpdate(m, i) \in Update /\ EditUpdate(m, i) \in Update
BY DEF Message, Update, NewUpdate, EditUpdate

LEMMA DeleteUpdateType ==
    ASSUME NEW ids \in SUBSET Nat, NEW who \in Accounts \cup {User}
    PROVE  DeleteUpdate(ids, who) \in Update
BY DEF Update, DeleteUpdate

\* A retry loop that goes on stays within its attempts.
LEMMA RetryType ==
    ASSUME NEW s \in RetryState, NEW e, Verdict(s, e) = "again"
    PROVE  NextTry(s, e) \in RetryState
<1>1. CASE e = "flood"
  BY <1>1 DEF RetryState, NextTry
<1>2. CASE e # "flood"
  <2>1. s.attempt < MaxRetries
    BY <1>2 DEF Verdict, RetryState
  <2> QED
    BY <1>2, <2>1, RetriesAssumption DEF RetryState, NextTry
<1> QED
  BY <1>1, <1>2

LEMMA SpendType ==
    ASSUME TypeOK, NEW k \in EnvActs, Spend(k)
    PROVE  budget' \in [EnvActs -> Nat]
BY DEF TypeOK, Spend

LEMMA AppendType ==
    ASSUME NEW S, NEW f \in [Chats -> Seq(S)], NEW c \in Chats, NEW x \in S
    PROVE  Append1(f, c, x) \in [Chats -> Seq(S)]
BY DEF Append1

LEMMA MessageType ==
    ASSUME TypeOK, NEW c \in Chats, NEW i \in 1..Len(chat[c])
    PROVE  chat[c][i] \in Message
<1>1. chat[c] \in Seq(Message)
  BY DEF TypeOK
<1> QED
  BY <1>1

LEMMA MessageSteps ==
    ASSUME NEW m \in Message
    PROVE  /\ \A t \in Nat : [m EXCEPT !.text = t] \in Message
           /\ [m EXCEPT !.alive = FALSE] \in Message
BY DEF Message

\* Replacing one message of a chat keeps the chat well formed.
LEMMA ReplaceType ==
    ASSUME TypeOK, NEW c \in Chats, NEW i \in 1..Len(chat[c]),
           NEW m \in Message
    PROVE  [chat EXCEPT ![c][i] = m] \in [Chats -> Seq(Message)]
<1>1. chat[c] \in Seq(Message)
  BY DEF TypeOK
<1>2. [chat[c] EXCEPT ![i] = m] \in Seq(Message)
  BY <1>1
<1> QED
  BY <1>2 DEF TypeOK

LEMMA ReturnType ==
    ASSUME TypeOK, NEW c \in Chats, Return(c)
    PROVE  handler' \in [Chats -> Handler]
<1>1. Idle(c) \in Handler
  BY IdleType
<1>2. Done(c) \in Handler
  BY <1>1 DEF Done, Handler
<1> QED
  BY <1>2 DEF TypeOK, Return

LEMMA DeliverType ==
    ASSUME TypeInv, NEW c \in Chats, c \in Busy, Deliver(c)
    PROVE  chat' \in [Chats -> Seq(Message)] /\ log' \in [Chats -> Seq(Update)]
<1> DEFINE to == handler[c].to
           m  == Copy(c)
<1>1. Current(c) \in Update
  BY CurrentType DEF TypeInv, BusyPending
<1>2. to \in Chats /\ m \in Message
  BY <1>1 DEF TypeInv, TypeOK, Handler, Message, Update, Copy
<1>3. NewUpdate(m, Len(chat[to]) + 1) \in Update
  <2>1. Len(chat[to]) + 1 \in Nat
    BY <1>2 DEF TypeInv, TypeOK
  <2> QED
    BY <1>2, <2>1, UpdateTypes DEF TypeInv, TypeOK
<1> QED
  BY <1>2, <1>3, AppendType DEF Deliver, TypeInv, TypeOK

\* A failed attempt goes on, disables the pair, or returns.
LEMMA FailureType ==
    ASSUME TypeOK, NEW c \in Chats, NEW e, AttemptFails(c, e)
    PROVE  /\ handler' \in [Chats -> Handler]
           /\ disabled' \in SUBSET Keys
<1>1. CASE Verdict(handler[c].retry, e) = "again"
  <2>1. handler[c] \in Handler /\ handler[c].retry \in RetryState
    BY DEF TypeOK, Handler
  <2>2. NextTry(handler[c].retry, e) \in RetryState
    BY <1>1, <2>1, RetryType
  <2>3. [handler[c] EXCEPT !.retry = NextTry(@, e)] \in Handler
    BY <2>1, <2>2, HandlerSteps
  <2> QED
    BY <1>1, <2>3 DEF AttemptFails, TypeOK
<1>2. CASE Verdict(handler[c].retry, e) # "again"
  <2>1. Return(c) /\ disabled' \in {disabled, disabled \cup {Key(c)}}
    BY <1>2 DEF AttemptFails
  <2> QED
    BY <2>1, ReturnType, RoutingIsSymmetric DEF TypeOK
<1> QED
  BY <1>1, <1>2

LEMMA TypePreserved ==
    ASSUME TypeInv, [Next]_vars
    PROVE  TypeOK'
<1> USE DEF TypeInv
<1>1. ASSUME NEW c \in Chats, NEW r \in 0..Len(chat[c]), Post(c, r)
      PROVE  TypeOK'
  <2> DEFINE m == Written(r)
  <2>1. m \in Message
    <3>1. r \in Nat
      BY DEF TypeOK
    <3> QED
      BY <3>1 DEF Message, Written
  <2>2. NewUpdate(m, Len(chat[c]) + 1) \in Update
    <3>1. Len(chat[c]) + 1 \in Nat
      BY DEF TypeOK
    <3> QED
      BY <2>1, <3>1, UpdateTypes DEF TypeOK
  <2>3. budget' \in [EnvActs -> Nat]
    BY <1>1, SpendType DEF Post, EnvActs
  <2> QED
    BY <1>1, <2>1, <2>2, <2>3, AppendType DEF Post, TypeOK
<1>2. ASSUME NEW c \in Chats, NEW i \in 1..Len(chat[c]), Edit(c, i)
      PROVE  TypeOK'
  <2> DEFINE m == [chat[c][i] EXCEPT !.text = @ + 1]
  <2>1. m \in Message
    BY MessageType DEF Message
  <2>2. EditUpdate(m, i) \in Update
    <3> HIDE DEF m
    <3> QED
      BY <2>1, UpdateTypes DEF TypeOK
  <2>3. budget' \in [EnvActs -> Nat]
    BY <1>2, SpendType DEF Edit, EnvActs
  <2>4. chat' \in [Chats -> Seq(Message)]
    BY <1>2, <2>1, ReplaceType DEF Edit
  <2>5. log' \in [Chats -> Seq(Update)]
    BY <1>2, <2>2, AppendType DEF Edit, TypeOK
  <2> QED
    BY <1>2, <2>3, <2>4, <2>5 DEF Edit, TypeOK
<1>3. ASSUME NEW c \in Chats, NEW ids \in SUBSET (1..Len(chat[c])),
             Remove(c, ids)
      PROVE  TypeOK'
  <2>1. DeleteUpdate(ids, User) \in Update
    <3>1. ids \in SUBSET Nat
      BY DEF TypeOK
    <3> QED
      BY <3>1, DeleteUpdateType
  <2>2. budget' \in [EnvActs -> Nat]
    BY <1>3, SpendType DEF Remove, EnvActs
  <2>3. chat' \in [Chats -> Seq(Message)]
    <3> DEFINE q == [i \in DOMAIN chat[c] |->
                        IF i \in ids THEN [chat[c][i] EXCEPT !.alive = FALSE]
                                     ELSE chat[c][i]]
    <3>1. chat[c] \in Seq(Message)
      BY DEF TypeOK
    <3>2. \A i \in 1..Len(chat[c]) :
              /\ chat[c][i] \in Message
              /\ [chat[c][i] EXCEPT !.alive = FALSE] \in Message
      BY MessageType DEF Message
    <3>3. q \in [1..Len(chat[c]) -> Message] /\ Len(chat[c]) \in Nat
      BY <3>1, <3>2
    <3>4. q \in Seq(Message)
      <4> HIDE DEF q
      <4> QED
        BY <3>3, SeqDef
    <3> QED
      BY <1>3, <3>4 DEF Remove, TypeOK
  <2>4. log' \in [Chats -> Seq(Update)]
    BY <1>3, <2>1, AppendType DEF Remove, TypeOK
  <2> QED
    BY <1>3, <2>2, <2>3, <2>4 DEF Remove, TypeOK
<1>4. CASE Sessions
  <2>1. PICK a \in Accounts, seen \in SUBSET Busy, resolved \in PeerSets :
            Restart(a, seen, resolved)
    BY <1>4 DEF Sessions
  <2>2. budget' \in [EnvActs -> Nat]
    BY <2>1, SpendType DEF Restart, EnvActs
  <2>3. pts' \in [Accounts -> [Chats -> Nat]]
    BY <2>1 DEF Restart, TypeOK
  <2> QED
    BY <2>1, <2>2, <2>3, IdleType, RelayAssumption DEF Restart, TypeOK
<1>5. ASSUME NEW c \in Chats, Handle(c)
      PROVE  TypeOK'
  <2>1. CASE Ignore(c)
    BY <2>1 DEF Ignore, TypeOK
  <2>2. CASE Begin(c)
    <3>1. Current(c) \in Update
      BY <2>2, CurrentType DEF Begin
    <3>2. Started(c, Current(c)) \in Handler
      <4>1. FirstStep(Current(c)) \in {"resolve", "find", "delete"}
        BY <3>1 DEF FirstStep, Update
      <4> QED
        BY <3>1, <4>1, RoutingIsSymmetric, RetriesAssumption
           DEF Started, Handler, Update, FreshRetry, RetryState
    <3> QED
      BY <2>2, <3>2 DEF Begin, TypeOK
  <2>3. CASE ResolveReply(c)
    <3>1. Current(c) \in Update
      BY <2>3, CurrentType DEF ResolveReply, BusyPending, Busy, At
    <3>2. ReplyIds(c) \subseteq Nat
      BY <3>1 DEF ReplyIds, resolveReplyTarget, FindByTarget, FindBySource,
                  TypeOK, Row, Update
    <3>3. budget' \in [EnvActs -> Nat]
      BY <2>3, SpendType DEF ResolveReply, EnvActs, TypeOK
    <3>4. handler[c] \in Handler
      BY DEF TypeOK
    <3>5. \/ \E r \in Nat : handler' = [handler EXCEPT ![c] =
                                 [@ EXCEPT !.at = "send", !.reply = r]]
          \/ handler' = [handler EXCEPT ![c] = [@ EXCEPT !.at = "send"]]
      BY <2>3, <3>2 DEF ResolveReply
    <3>6. handler' \in [Chats -> Handler]
      BY <3>4, <3>5, HandlerSteps DEF TypeOK
    <3> QED
      BY <2>3, <3>3, <3>6 DEF ResolveReply, TypeOK
  <2>4. CASE Send(c)
    <3>1. c \in Busy
      BY <2>4 DEF Send, Busy, At
    <3>2. chat' \in [Chats -> Seq(Message)] /\ log' \in [Chats -> Seq(Update)]
      BY <2>4, <3>1, DeliverType DEF Send
    <3>3. Len(chat[handler[c].to]) + 1 \in Nat
      BY DEF TypeOK, Handler
    <3>4. PICK id \in {Len(chat[handler[c].to]) + 1, 0} :
              /\ handler' = [handler EXCEPT ![c] = [@ EXCEPT
                                !.at = "save", !.msg = id]]
              /\ IF id = 0 THEN Spend("short") ELSE UNCHANGED budget
      BY <2>4 DEF Send
    <3>5. handler' \in [Chats -> Handler]
      BY <3>3, <3>4, HandlerSteps DEF TypeOK
    <3>6. budget' \in [EnvActs -> Nat]
      BY <3>4, SpendType DEF EnvActs, TypeOK
    <3> QED
      BY <2>4, <3>2, <3>5, <3>6 DEF Send, TypeOK
  <2>5. CASE SendFails(c)
    <3>1. PICK e \in Errors : Spend(e) /\ AttemptFails(c, e)
      BY <2>5 DEF SendFails
    <3>2. budget' \in [EnvActs -> Nat]
      BY <3>1, SpendType DEF EnvActs
    <3> QED
      BY <2>5, <3>1, <3>2, FailureType DEF SendFails, TypeOK
  <2>6. CASE SendLost(c)
    <3>1. c \in Busy
      BY <2>6 DEF SendLost, Busy, At
    <3>2. chat' \in [Chats -> Seq(Message)] /\ log' \in [Chats -> Seq(Update)]
      BY <2>6, <3>1, DeliverType DEF SendLost
    <3>3. budget' \in [EnvActs -> Nat]
      BY <2>6, SpendType DEF SendLost, EnvActs
    <3> QED
      BY <2>6, <3>2, <3>3, FailureType DEF SendLost, TypeOK
  <2>7. CASE Save(c)
    <3>1. Current(c) \in Update
      BY <2>7, CurrentType DEF Save, BusyPending, Busy, At
    <3>2. NewRow(c) \in Row
      BY <3>1, RoutingIsSymmetric DEF NewRow, Row, TypeOK, Handler, Update
    <3>3. rows' \in SUBSET Row
      BY <2>7, <3>2 DEF Save, TypeOK
    <3>4. budget' \in [EnvActs -> Nat]
      BY <2>7, SpendType DEF Save, EnvActs, TypeOK
    <3>5. Return(c)
      BY <2>7 DEF Save
    <3> QED
      BY <2>7, <3>3, <3>4, <3>5, ReturnType DEF Save, TypeOK
  <2>8. CASE Find(c)
    <3>1. budget' \in [EnvActs -> Nat]
      BY <2>8, SpendType DEF Find, EnvActs, TypeOK
    <3>2. handler' \in [Chats -> Handler]
      <4>1. CASE Return(c)
        BY <4>1, ReturnType
      <4>2. CASE ~Return(c)
        <5>1. PICK r \in FindBySource(rows, c, Current(c).id) :
                 handler' = [handler EXCEPT ![c].at = "edit",
                                 ![c].to = r.dstChat, ![c].msg = r.dst]
          BY <2>8, <4>2 DEF Find
        <5>2. r.dstChat \in Chats /\ r.dst \in Nat
          BY DEF FindBySource, TypeOK, Row
        <5>3. handler' = [handler EXCEPT ![c] = [handler[c] EXCEPT
                             !.at = "edit", !.to = r.dstChat, !.msg = r.dst]]
          BY <5>1
        <5>4. handler[c] \in Handler
          BY DEF TypeOK
        <5>5. [handler[c] EXCEPT !.at = "edit", !.to = r.dstChat,
                                 !.msg = r.dst] \in Handler
          BY <5>2, <5>4, HandlerSteps
        <5> QED
          BY <5>1, <5>3, <5>5 DEF TypeOK
      <4> QED
        BY <4>1, <4>2
    <3> QED
      BY <2>8, <3>1, <3>2 DEF Find, TypeOK
  <2>9. CASE EditMirror(c)
    <3> DEFINE to == handler[c].to
               i  == handler[c].msg
               m  == [chat[to][i] EXCEPT !.text = Current(c).text]
    <3>1. Current(c) \in Update
      BY <2>9, CurrentType DEF EditMirror, BusyPending, Busy, At
    <3>2. to \in Chats /\ i \in Nat
      BY DEF TypeOK, Handler
    <3>3. budget' \in [EnvActs -> Nat]
      <4>1. UNCHANGED budget \/ Spend("transient")
        BY <2>9 DEF EditMirror
      <4> QED
        BY <4>1, SpendType DEF EnvActs, Errors, TypeOK
    <3>4. chat' \in [Chats -> Seq(Message)] /\ log' \in [Chats -> Seq(Update)]
      <4>1. CASE UNCHANGED <<chat, log>>
        BY <4>1 DEF TypeOK
      <4>2. CASE ~UNCHANGED <<chat, log>>
        <5>1. /\ i \in 1..Len(chat[to])
              /\ chat' = [chat EXCEPT ![to][i] = m]
              /\ log' = Append1(log, to, EditUpdate(m, i))
          BY <2>9, <4>2 DEF EditMirror, IsAlive
        <5>2. m \in Message
          <6>1. Current(c).text \in Nat
            BY <3>1 DEF Update
          <6>2. chat[to][i] \in Message
            BY <3>2, <5>1, MessageType
          <6> QED
            BY <6>1, <6>2, MessageSteps
        <5>3. EditUpdate(m, i) \in Update
          <6> HIDE DEF m
          <6> QED
            BY <3>2, <5>2, UpdateTypes
        <5> QED
          BY <3>2, <5>1, <5>2, <5>3, ReplaceType, AppendType DEF TypeOK
      <4> QED
        BY <4>1, <4>2
    <3>5. Return(c)
      BY <2>9 DEF EditMirror
    <3> QED
      BY <2>9, <3>3, <3>4, <3>5, ReturnType DEF EditMirror, TypeOK
  <2>10. CASE DeleteOne(c)
    <3>1. PICK i \in handler[c].todo :
             /\ \/ \E r \in FindBySource(rows, c, i) :
                       /\ r.dstChat \in peers /\ IsAlive(r.dstChat, r.dst)
                       /\ chat' = [chat EXCEPT
                                      ![r.dstChat][r.dst].alive = FALSE]
                       /\ log' = Append1(log, r.dstChat,
                                         DeleteUpdate({r.dst}, active))
                       /\ UNCHANGED budget
                \/ UNCHANGED <<chat, log, budget>>
                \/ /\ Spend("db") \/ Spend("transient")
                   /\ UNCHANGED <<chat, log>>
             /\ NextId(c, i)
      BY <2>10 DEF DeleteOne
    <3>2. budget' \in [EnvActs -> Nat]
      BY <3>1, SpendType DEF EnvActs, Errors, TypeOK
    <3>3. chat' \in [Chats -> Seq(Message)] /\ log' \in [Chats -> Seq(Update)]
      <4>1. CASE UNCHANGED <<chat, log>>
        BY <4>1 DEF TypeOK
      <4>2. CASE ~UNCHANGED <<chat, log>>
        <5>1. PICK r \in rows :
                 /\ IsAlive(r.dstChat, r.dst)
                 /\ chat' = [chat EXCEPT ![r.dstChat][r.dst].alive = FALSE]
                 /\ log' = Append1(log, r.dstChat,
                                   DeleteUpdate({r.dst}, active))
          BY <3>1, <4>2 DEF FindBySource
        <5>2. r.dstChat \in Chats /\ r.dst \in 1..Len(chat[r.dstChat])
          BY <5>1 DEF IsAlive, TypeOK, Row
        <5>3. [chat[r.dstChat][r.dst] EXCEPT !.alive = FALSE] \in Message
          <6>1. chat[r.dstChat][r.dst] \in Message
            BY <5>2, MessageType
          <6> QED
            BY <6>1, MessageSteps
        <5>4. chat' \in [Chats -> Seq(Message)]
          BY <5>1, <5>2, <5>3, ReplaceType
        <5>5. DeleteUpdate({r.dst}, active) \in Update
          BY DeleteUpdateType DEF TypeOK, Row
        <5> QED
          BY <5>1, <5>2, <5>4, <5>5, AppendType DEF TypeOK
      <4> QED
        BY <4>1, <4>2
    <3>4. handler' \in [Chats -> Handler]
      <4>1. CASE Return(c)
        BY <4>1, ReturnType
      <4>2. CASE ~Return(c)
        <5>1. handler[c].todo \ {i} \in SUBSET Nat
          BY DEF TypeOK, Handler
        <5>2. handler' = [handler EXCEPT ![c] =
                     [handler[c] EXCEPT !.todo = handler[c].todo \ {i}]]
          BY <3>1, <4>2 DEF NextId
        <5>3. handler[c] \in Handler
          BY DEF TypeOK
        <5>4. [handler[c] EXCEPT !.todo = handler[c].todo \ {i}] \in Handler
          BY <5>1, <5>3, HandlerSteps
        <5> QED
          BY <5>2, <5>4 DEF TypeOK
      <4> QED
        BY <4>1, <4>2
    <3> QED
      BY <2>10, <3>2, <3>3, <3>4 DEF DeleteOne, TypeOK
  <2>11. CASE Finish(c)
    <3>1. pts' \in [Accounts -> [Chats -> Nat]]
      BY <2>11 DEF Finish, TypeOK
    <3> QED
      BY <2>11, <3>1, IdleType DEF Finish, TypeOK
  <2> QED
    BY <1>5, <2>1, <2>2, <2>3, <2>4, <2>5, <2>6, <2>7, <2>8, <2>9, <2>10, <2>11
       DEF Handle
<1>6. CASE UNCHANGED vars
  BY <1>6 DEF vars, TypeOK
<1> QED
  BY <1>1, <1>2, <1>3, <1>4, <1>5, <1>6 DEF Next, Members
------------------------------------------------------------------------------
(* Chats and logs only grow. *)

\* What no step ever changes in a message.
SameMessage(m, n) == m.from = n.from /\ m.reply = n.reply /\ m.origin = n.origin

\* A new message was written by a user, or is the copy a handler sends.
Sends(d) == Send(d) \/ SendLost(d)

Comes(c, i) ==
    \/ \E r \in 0..Len(chat[c]) : chat'[c][i] = Written(r)
    \/ \E d \in Chats : /\ Sends(d) /\ At(d, "send") /\ handler[d].to = c
                        /\ chat'[c][i] = Copy(d)

ChatGrowth(c) ==
    /\ Len(chat'[c]) >= Len(chat[c])
    /\ \A i \in 1..Len(chat[c]) : SameMessage(chat'[c][i], chat[c][i])
    /\ \A i \in 1..Len(chat'[c]) : i > Len(chat[c]) => Comes(c, i)

LEMMA AppendGrowth ==
    ASSUME TypeOK, NEW c \in Chats, NEW m \in Message, chat' = Append1(chat, c, m),
           \/ \E r \in 0..Len(chat[c]) : m = Written(r)
           \/ \E d \in Chats : /\ Sends(d) /\ At(d, "send") /\ handler[d].to = c
                               /\ m = Copy(d)
    PROVE  \A d \in Chats : ChatGrowth(d)
<1> SUFFICES ASSUME NEW d \in Chats
             PROVE  ChatGrowth(d)
  OBVIOUS
<1>1. chat[d] \in Seq(Message)
  BY DEF TypeOK
<1>2. CASE d # c
  <2>1. chat'[d] = chat[d]
    BY <1>2 DEF Append1, TypeOK
  <2> QED
    BY <1>1, <2>1 DEF ChatGrowth, SameMessage
<1>3. CASE d = c
  <2>1. chat'[d] = Append(chat[d], m)
    BY <1>3 DEF Append1, TypeOK
  <2>2. /\ Len(chat'[d]) = Len(chat[d]) + 1 /\ Len(chat[d]) \in Nat
        /\ \A i \in 1..Len(chat[d]) : chat'[d][i] = chat[d][i]
        /\ chat'[d][Len(chat[d]) + 1] = m
    BY <1>1, <2>1
  <2>3. \A i \in 1..Len(chat'[d]) : i > Len(chat[d]) => chat'[d][i] = m
    BY <2>2
  <2>4. \A i \in 1..Len(chat'[d]) : chat'[d][i] = m => Comes(d, i)
    BY <1>3 DEF Comes
  <2> QED
    BY <2>2, <2>3, <2>4 DEF ChatGrowth, SameMessage
<1> QED
  BY <1>2, <1>3

LEMMA ReplaceGrowth ==
    ASSUME TypeOK, NEW c \in Chats, NEW i \in 1..Len(chat[c]),
           NEW m \in Message, SameMessage(m, chat[c][i]),
           chat' = [chat EXCEPT ![c][i] = m]
    PROVE  \A d \in Chats : ChatGrowth(d)
<1> SUFFICES ASSUME NEW d \in Chats
             PROVE  ChatGrowth(d)
  OBVIOUS
<1>1. chat[d] \in Seq(Message)
  BY DEF TypeOK
<1>2. CASE d # c
  <2>1. chat'[d] = chat[d]
    BY <1>2 DEF TypeOK
  <2> QED
    BY <1>1, <2>1 DEF ChatGrowth, SameMessage
<1>3. CASE d = c
  <2>1. chat'[d] = [chat[d] EXCEPT ![i] = m]
    BY <1>3 DEF TypeOK
  <2>2. /\ Len(chat'[d]) = Len(chat[d]) /\ Len(chat[d]) \in Nat
        /\ \A j \in 1..Len(chat[d]) :
              chat'[d][j] = IF j = i THEN m ELSE chat[d][j]
    BY <1>1, <1>3, <2>1, ExceptSeq
  <2> QED
    BY <1>3, <2>2 DEF ChatGrowth, SameMessage
<1> QED
  BY <1>2, <1>3

LEMMA NoGrowth ==
    ASSUME TypeOK, UNCHANGED chat
    PROVE  \A d \in Chats : ChatGrowth(d)
BY DEF TypeOK, ChatGrowth, SameMessage

LEMMA CopyType ==
    ASSUME TypeInv, NEW c \in Chats, c \in Busy
    PROVE  Copy(c) \in Message
<1>1. Current(c) \in Update
  BY CurrentType DEF TypeInv, BusyPending
<1> QED
  BY <1>1 DEF TypeInv, TypeOK, Handler, Message, Update, Copy

LEMMA EditedMessage ==
    ASSUME NEW m \in Message
    PROVE  /\ \A t \in Nat : SameMessage([m EXCEPT !.text = t], m)
           /\ SameMessage([m EXCEPT !.alive = FALSE], m)
BY DEF Message, SameMessage

LEMMA ChatsGrow ==
    ASSUME TypeInv, [Next]_vars
    PROVE  \A d \in Chats : ChatGrowth(d)
<1> USE DEF TypeInv
<1>1. ASSUME NEW c \in Chats, NEW r \in 0..Len(chat[c]), Post(c, r)
      PROVE  \A d \in Chats : ChatGrowth(d)
  <2>1. Written(r) \in Message
    <3>1. r \in Nat
      BY DEF TypeOK
    <3> QED
      BY <3>1 DEF Message, Written
  <2> QED
    BY <1>1, <2>1, AppendGrowth DEF Post
<1>2. ASSUME NEW c \in Chats, NEW i \in 1..Len(chat[c]), Edit(c, i)
      PROVE  \A d \in Chats : ChatGrowth(d)
  <2> DEFINE m == [chat[c][i] EXCEPT !.text = @ + 1]
  <2>1. chat[c][i] \in Message /\ chat[c][i].text + 1 \in Nat
    BY MessageType DEF Message
  <2>2. m \in Message /\ SameMessage(m, chat[c][i])
    BY <2>1, MessageSteps, EditedMessage
  <2>3. chat' = [chat EXCEPT ![c][i] = m]
    BY <1>2 DEF Edit
  <2> HIDE DEF m
  <2> QED
    BY <2>2, <2>3, ReplaceGrowth
<1>3. ASSUME NEW c \in Chats, NEW ids \in SUBSET (1..Len(chat[c])),
             Remove(c, ids)
      PROVE  \A d \in Chats : ChatGrowth(d)
  <2> SUFFICES ASSUME NEW d \in Chats
               PROVE  ChatGrowth(d)
    OBVIOUS
  <2>1. chat[d] \in Seq(Message)
    BY DEF TypeOK
  <2>2. CASE d # c
    <3>1. chat'[d] = chat[d]
      BY <1>3, <2>2 DEF Remove, TypeOK
    <3> QED
      BY <2>1, <3>1 DEF ChatGrowth, SameMessage
  <2>3. CASE d = c
    <3>1. chat'[d] = [i \in 1..Len(chat[d]) |->
              IF i \in ids THEN [chat[d][i] EXCEPT !.alive = FALSE]
                           ELSE chat[d][i]]
      BY <1>3, <2>1, <2>3 DEF Remove, TypeOK
    <3>2. \A i \in 1..Len(chat[d]) : SameMessage(chat'[d][i], chat[d][i])
      <4> TAKE i \in 1..Len(chat[d])
      <4>1. chat'[d][i] \in {[chat[d][i] EXCEPT !.alive = FALSE], chat[d][i]}
        BY <3>1
      <4>2. SameMessage(chat[d][i], chat[d][i])
        BY DEF SameMessage
      <4> QED
        BY <4>1, <4>2, MessageType, EditedMessage
    <3>3. Len(chat'[d]) = Len(chat[d]) /\ Len(chat[d]) \in Nat
      BY <2>1, <3>1
    <3> QED
      BY <3>2, <3>3 DEF ChatGrowth
  <2> QED
    BY <2>2, <2>3
<1>4. CASE Sessions
  BY <1>4, NoGrowth DEF Sessions, Restart
<1>5. ASSUME NEW c \in Chats, Handle(c)
      PROVE  \A d \in Chats : ChatGrowth(d)
  <2>1. CASE UNCHANGED chat
    BY <2>1, NoGrowth
  <2>2. CASE Sends(c)
    <3>1. At(c, "send") /\ Deliver(c) /\ c \in Busy
      BY <2>2 DEF Sends, Send, SendLost, Busy, At
    <3>2. handler[c].to \in Chats /\ Copy(c) \in Message
      BY <3>1, CopyType DEF TypeOK, Handler
    <3> QED
      BY <2>2, <3>1, <3>2, AppendGrowth DEF Deliver
  <2>3. CASE EditMirror(c) /\ ~UNCHANGED chat
    <3> DEFINE to == handler[c].to
               i  == handler[c].msg
               m  == [chat[to][i] EXCEPT !.text = Current(c).text]
    <3>1. /\ i \in 1..Len(chat[to])
          /\ chat' = [chat EXCEPT ![to][i] = m]
      BY <2>3 DEF EditMirror, IsAlive
    <3>2. to \in Chats
      BY DEF TypeOK, Handler
    <3>3. chat[to][i] \in Message
      BY <3>1, <3>2, MessageType
    <3>4. Current(c).text \in Nat
      BY <2>3, CurrentType DEF EditMirror, BusyPending, Busy, At, Update
    <3>5. m \in Message /\ SameMessage(m, chat[to][i])
      BY <3>3, <3>4, MessageSteps, EditedMessage
    <3> HIDE DEF m
    <3> QED
      BY <3>1, <3>2, <3>5, ReplaceGrowth
  <2>4. CASE DeleteOne(c) /\ ~UNCHANGED chat
    <3>1. PICK r \in rows :
             /\ IsAlive(r.dstChat, r.dst)
             /\ chat' = [chat EXCEPT ![r.dstChat][r.dst].alive = FALSE]
      BY <2>4 DEF DeleteOne, FindBySource
    <3> DEFINE m == [chat[r.dstChat][r.dst] EXCEPT !.alive = FALSE]
    <3>2. r.dstChat \in Chats /\ r.dst \in 1..Len(chat[r.dstChat])
      BY <3>1 DEF IsAlive, TypeOK, Row
    <3>3. chat[r.dstChat][r.dst] \in Message
      BY <3>2, MessageType
    <3>4. m \in Message /\ SameMessage(m, chat[r.dstChat][r.dst])
      BY <3>3, MessageSteps, EditedMessage
    <3>5. chat' = [chat EXCEPT ![r.dstChat][r.dst] = m]
      BY <3>1
    <3> HIDE DEF m
    <3> QED
      BY <3>2, <3>4, <3>5, ReplaceGrowth
  <2> QED
    BY <1>5, <2>1, <2>2, <2>3, <2>4
       DEF Handle, Ignore, Begin, Finish, ResolveReply, Sends, SendFails,
           Save, Find
<1>6. CASE UNCHANGED vars
  BY <1>6, NoGrowth DEF vars
<1> QED
  BY <1>1, <1>2, <1>3, <1>4, <1>5, <1>6 DEF Next, Members

\* An update describes the message it is about; an update about a new message
\* comes with the message.
Describes(u, msgs) ==
    u.kind # "delete" =>
        /\ u.id \in 1..Len(msgs)
        /\ u.from = msgs[u.id].from
        /\ u.kind = "new" => u.reply = msgs[u.id].reply

LogGrowth(c) ==
    /\ Len(log'[c]) >= Len(log[c]) /\ Len(log'[c]) <= Len(log[c]) + 1
    /\ \A k \in 1..Len(log[c]) : log'[c][k] = log[c][k]
    /\ \A k \in 1..Len(log'[c]) : k > Len(log[c]) =>
           /\ Describes(log'[c][k], chat'[c])
           /\ log'[c][k].kind = "new" => log'[c][k].id > Len(chat[c])

LEMMA LogAppend ==
    ASSUME TypeOK, NEW c \in Chats, NEW u \in Update, log' = Append1(log, c, u),
           Describes(u, chat'[c]), u.kind = "new" => u.id > Len(chat[c])
    PROVE  \A d \in Chats : LogGrowth(d)
<1> SUFFICES ASSUME NEW d \in Chats
             PROVE  LogGrowth(d)
  OBVIOUS
<1>1. log[d] \in Seq(Update)
  BY DEF TypeOK
<1>2. CASE d # c
  <2>1. log'[d] = log[d]
    BY <1>2 DEF Append1, TypeOK
  <2> QED
    BY <1>1, <2>1 DEF LogGrowth
<1>3. CASE d = c
  <2>1. log'[d] = Append(log[d], u)
    BY <1>3 DEF Append1, TypeOK
  <2>2. /\ Len(log'[d]) = Len(log[d]) + 1 /\ Len(log[d]) \in Nat
        /\ \A k \in 1..Len(log[d]) : log'[d][k] = log[d][k]
        /\ log'[d][Len(log[d]) + 1] = u
    BY <1>1, <2>1
  <2>3. \A k \in 1..Len(log'[d]) : k > Len(log[d]) => log'[d][k] = u
    BY <2>2
  <2>4. \A k \in 1..Len(log'[d]) :
           log'[d][k] = u => /\ Describes(log'[d][k], chat'[d])
                             /\ log'[d][k].kind = "new" =>
                                    log'[d][k].id > Len(chat[d])
    <3>1. Describes(u, chat'[d]) /\ (u.kind = "new" => u.id > Len(chat[d]))
      BY <1>3
    <3>2. ASSUME NEW k \in 1..Len(log'[d]), log'[d][k] = u
          PROVE  Describes(log'[d][k], chat'[d])
      BY <3>1, <3>2 DEF Describes
    <3> QED
      BY <3>1, <3>2
  <2> QED
    BY <2>2, <2>3, <2>4 DEF LogGrowth
<1> QED
  BY <1>2, <1>3

LEMMA LogStays ==
    ASSUME TypeOK, UNCHANGED log
    PROVE  \A d \in Chats : LogGrowth(d)
BY DEF TypeOK, LogGrowth

\* The update that announces a message appended to its chat.
LEMMA NewUpdateGrowth ==
    ASSUME TypeOK, NEW c \in Chats, NEW m \in Message,
           chat' = Append1(chat, c, m),
           log' = Append1(log, c, NewUpdate(m, Len(chat[c]) + 1))
    PROVE  \A d \in Chats : LogGrowth(d)
<1> DEFINE u == NewUpdate(m, Len(chat[c]) + 1)
<1>1. chat[c] \in Seq(Message)
  BY DEF TypeOK
<1>2. chat'[c] = Append(chat[c], m)
  BY DEF Append1, TypeOK
<1>3. /\ Len(chat'[c]) = Len(chat[c]) + 1 /\ Len(chat[c]) \in Nat
      /\ chat'[c][Len(chat[c]) + 1] = m
  BY <1>1, <1>2
<1>4. /\ u.kind = "new" /\ u.id = Len(chat[c]) + 1
      /\ u.from = m.from /\ u.reply = m.reply
  BY DEF NewUpdate
<1>5. u \in Update
  BY <1>3, UpdateTypes
<1> HIDE DEF u
<1>6. Describes(u, chat'[c]) /\ u.id > Len(chat[c])
  BY <1>3, <1>4 DEF Describes
<1> QED
  BY <1>5, <1>6, LogAppend DEF u

\* The update that announces a new text of a message.
LEMMA EditUpdateGrowth ==
    ASSUME TypeInv, [Next]_vars, NEW c \in Chats, NEW i \in 1..Len(chat[c]),
           NEW m \in Message, SameMessage(m, chat[c][i]),
           log' = Append1(log, c, EditUpdate(m, i))
    PROVE  \A d \in Chats : LogGrowth(d)
<1> USE DEF TypeInv
<1> DEFINE u == EditUpdate(m, i)
<1>1. ChatGrowth(c)
  BY ChatsGrow
<1>2. Len(chat[c]) \in Nat /\ Len(chat'[c]) \in Nat
  BY TypePreserved DEF TypeOK
<1>3. i \in 1..Len(chat'[c]) /\ chat'[c][i].from = m.from /\ i \in Nat
  BY <1>1, <1>2 DEF ChatGrowth, SameMessage
<1>4. u.kind = "edit" /\ u.id = i /\ u.from = m.from
  BY DEF EditUpdate
<1>5. u \in Update
  BY <1>3, UpdateTypes
<1> HIDE DEF u
<1>6. Describes(u, chat'[c])
  BY <1>3, <1>4 DEF Describes
<1> QED
  BY <1>4, <1>5, <1>6, LogAppend DEF u

LEMMA DeleteUpdateGrowth ==
    ASSUME TypeOK, NEW c \in Chats, NEW ids \in SUBSET Nat,
           NEW who \in Accounts \cup {User},
           log' = Append1(log, c, DeleteUpdate(ids, who))
    PROVE  \A d \in Chats : LogGrowth(d)
<1> DEFINE u == DeleteUpdate(ids, who)
<1>1. u.kind = "delete"
  BY DEF DeleteUpdate
<1>2. u \in Update
  BY DeleteUpdateType
<1> HIDE DEF u
<1>3. Describes(u, chat'[c])
  BY <1>1 DEF Describes
<1> QED
  BY <1>1, <1>2, <1>3, LogAppend DEF u

LEMMA LogsGrow ==
    ASSUME TypeInv, [Next]_vars
    PROVE  \A d \in Chats : LogGrowth(d)
<1> USE DEF TypeInv
<1>1. ASSUME NEW c \in Chats, NEW r \in 0..Len(chat[c]), Post(c, r)
      PROVE  \A d \in Chats : LogGrowth(d)
  <2>1. Written(r) \in Message
    <3>1. r \in Nat
      BY DEF TypeOK
    <3> QED
      BY <3>1 DEF Message, Written
  <2> QED
    BY <1>1, <2>1, NewUpdateGrowth DEF Post
<1>2. ASSUME NEW c \in Chats, NEW i \in 1..Len(chat[c]), Edit(c, i)
      PROVE  \A d \in Chats : LogGrowth(d)
  <2> DEFINE m == [chat[c][i] EXCEPT !.text = @ + 1]
  <2>1. chat[c][i] \in Message /\ chat[c][i].text + 1 \in Nat
    BY MessageType DEF Message
  <2>2. m \in Message /\ SameMessage(m, chat[c][i])
    BY <2>1, MessageSteps, EditedMessage
  <2>3. log' = Append1(log, c, EditUpdate(m, i))
    BY <1>2 DEF Edit
  <2> HIDE DEF m
  <2> QED
    BY <2>2, <2>3, EditUpdateGrowth
<1>3. ASSUME NEW c \in Chats, NEW ids \in SUBSET (1..Len(chat[c])),
             Remove(c, ids)
      PROVE  \A d \in Chats : LogGrowth(d)
  <2>1. ids \in SUBSET Nat
    BY DEF TypeOK
  <2> QED
    BY <1>3, <2>1, DeleteUpdateGrowth DEF Remove
<1>4. CASE Sessions
  BY <1>4, LogStays DEF Sessions, Restart
<1>5. ASSUME NEW c \in Chats, Handle(c)
      PROVE  \A d \in Chats : LogGrowth(d)
  <2>1. CASE UNCHANGED log
    BY <2>1, LogStays
  <2>2. CASE At(c, "send") /\ Deliver(c)
    <3>1. c \in Busy
      BY <2>2 DEF Busy, At
    <3>2. handler[c].to \in Chats /\ Copy(c) \in Message
      BY <3>1, CopyType DEF TypeOK, Handler
    <3> QED
      BY <2>2, <3>2, NewUpdateGrowth DEF Deliver
  <2>3. CASE EditMirror(c) /\ ~UNCHANGED log
    <3> DEFINE to == handler[c].to
               i  == handler[c].msg
               m  == [chat[to][i] EXCEPT !.text = Current(c).text]
    <3>1. /\ i \in 1..Len(chat[to])
          /\ log' = Append1(log, to, EditUpdate(m, i))
      BY <2>3 DEF EditMirror, IsAlive
    <3>2. to \in Chats
      BY DEF TypeOK, Handler
    <3>3. chat[to][i] \in Message
      BY <3>1, <3>2, MessageType
    <3>4. Current(c).text \in Nat
      BY <2>3, CurrentType DEF EditMirror, BusyPending, Busy, At, Update
    <3>5. m \in Message /\ SameMessage(m, chat[to][i])
      BY <3>3, <3>4, MessageSteps, EditedMessage
    <3> HIDE DEF m
    <3> QED
      BY <3>1, <3>2, <3>5, EditUpdateGrowth
  <2>4. CASE DeleteOne(c) /\ ~UNCHANGED log
    <3>1. PICK r \in rows :
             log' = Append1(log, r.dstChat, DeleteUpdate({r.dst}, active))
      BY <2>4 DEF DeleteOne, FindBySource
    <3>2. r.dstChat \in Chats /\ {r.dst} \in SUBSET Nat /\ active \in Accounts
      BY DEF TypeOK, Row
    <3> QED
      BY <3>1, <3>2, DeleteUpdateGrowth
  <2> QED
    BY <1>5, <2>1, <2>2, <2>3, <2>4
       DEF Handle, Ignore, Begin, Finish, ResolveReply, Send, SendFails,
           SendLost, Save, Find
<1>6. CASE UNCHANGED vars
  BY <1>6, LogStays DEF vars
<1> QED
  BY <1>1, <1>2, <1>3, <1>4, <1>5, <1>6 DEF Next, Members
------------------------------------------------------------------------------
(* Handlers.  A step is one of one handler, or leaves the handlers and      *)
(* their updates alone, or ends the session.                               *)

Undisturbed(c) ==
    /\ handler'[c] = handler[c]
    /\ active' = active
    /\ pts'[active][c] = pts[active][c]

LEMMA OneHandlerSteps ==
    ASSUME TypeOK, NEW c \in Chats, Handle(c), NEW d \in Chats, d # c
    PROVE  Undisturbed(d)
<1>1. active' = active
  BY DEF Handle, Ignore, Begin, Finish, ResolveReply, Send, SendFails,
         SendLost, Save, Find, EditMirror, DeleteOne
<1>2. handler'[d] = handler[d]
  BY DEF TypeOK, Handle, Ignore, Begin, Finish, ResolveReply, Send, SendFails,
         SendLost, AttemptFails, Save, Find, EditMirror, DeleteOne, NextId,
         Return
<1>3. pts' \in {pts, [pts EXCEPT ![active][c] = @ + 1]}
  BY DEF Handle, Ignore, Begin, Finish, ResolveReply, Send, SendFails,
         SendLost, Save, Find, EditMirror, DeleteOne
<1>4. pts'[active][d] = pts[active][d]
  BY <1>3 DEF TypeOK
<1> QED
  BY <1>1, <1>2, <1>4 DEF Undisturbed

\* The update of a handler at work stays the same while others step.
LEMMA SameUpdate ==
    ASSUME TypeInv, [Next]_vars, NEW c \in Chats, Undisturbed(c), Pending(c)
    PROVE  Pending(c)' /\ Current(c)' = Current(c)
<1>1. LogGrowth(c)
  BY LogsGrow
<1>2. Len(log[c]) \in Nat /\ Len(log'[c]) \in Nat /\ pts[active][c] \in Nat
  BY TypePreserved DEF TypeInv, TypeOK
<1>3. /\ pts[active][c] + 1 \in 1..Len(log[c])
      /\ pts'[active'][c] = pts[active][c]
  BY <1>2 DEF Undisturbed, Pending
<1>4. Pending(c)'
  BY <1>1, <1>2, <1>3 DEF Pending, LogGrowth
<1>5. log'[c][pts[active][c] + 1] = log[c][pts[active][c] + 1]
  BY <1>1, <1>3 DEF LogGrowth
<1> QED
  BY <1>3, <1>4, <1>5 DEF Current

LEMMA BusyPendingPreserved ==
    ASSUME TypeInv, [Next]_vars
    PROVE  BusyPending'
<1> USE DEF TypeInv
<1> SUFFICES ASSUME NEW d \in Chats, (d \in Busy)'
             PROVE  Pending(d)'
  BY DEF BusyPending
<1>1. CASE Undisturbed(d)
  <2>1. Pending(d)
    BY <1>1 DEF BusyPending, Undisturbed, Busy, At
  <2> QED
    BY <1>1, <2>1, SameUpdate
<1>2. ASSUME NEW c \in Chats, Handle(c), ~Undisturbed(d)
      PROVE  Pending(d)'
  <2>1. d = c
    BY <1>2, OneHandlerSteps
  <2>2. handler'[d].at # "idle"
    BY DEF Busy, At
  <2>3. ~Finish(c)
    BY <2>1, <2>2 DEF Finish, Idle, TypeOK
  <2>4. UNCHANGED <<active, pts>>
    BY <1>2, <2>1, <2>2, <2>3
       DEF Handle, Ignore, Begin, ResolveReply, Send, SendFails, SendLost,
           Save, Find, EditMirror, DeleteOne, At
  <2>5. Pending(d)
    BY <1>2, <2>1, <2>3
       DEF Handle, Ignore, Begin, ResolveReply, Send, SendFails, SendLost,
           Save, Find, EditMirror, DeleteOne, At, BusyPending, Busy
  <2>6. LogGrowth(d)
    BY LogsGrow
  <2>7. Len(log[d]) \in Nat /\ pts[active][d] \in Nat
    BY DEF TypeOK
  <2>8. Len(log'[d]) \in Nat
    BY TypePreserved DEF TypeOK
  <2> QED
    BY <2>4, <2>5, <2>6, <2>7, <2>8 DEF Pending, LogGrowth
<1>3. CASE Sessions
  BY <1>3 DEF Sessions, Restart, Idle, Busy, At
<1>4. CASE Members \/ UNCHANGED vars
  BY <1>1, <1>4 DEF Members, Post, Edit, Remove, vars, Undisturbed
<1> QED
  BY <1>1, <1>2, <1>3, <1>4 DEF Next

\* The types of the state, for every value of the constants (TypeOK is
\* checked on a small instance by relay_errors).
THEOREM Typing == Spec => []TypeOK
<1>1. Init => TypeInv
  BY IdleType, RelayAssumption
     DEF Init, TypeInv, TypeOK, BusyPending, Busy, At, Idle
<1>2. TypeInv /\ [Next]_vars => TypeInv'
  BY TypePreserved, BusyPendingPreserved DEF TypeInv
<1>3. TypeInv => TypeOK
  BY DEF TypeInv
<1> QED
  BY <1>1, <1>2, <1>3, PTL DEF Spec
==============================================================================
