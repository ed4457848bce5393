--------------------------- MODULE MirroringProofs ---------------------------
(***************************************************************************)
(* The relay of a single account implements Mirroring, for every set of    *)
(* pairs and every budget of faults and restarts: whatever is visible in   *)
(* the chats is a step that Mirroring allows.                              *)
(*                                                                         *)
(* The argument: the log of a chat tells its messages in order, revision   *)
(* by revision, and the account reads it forwards.  What a copy shows was  *)
(* therefore read no later than the update that is being handled, and      *)
(* cannot be newer than what this update says.                             *)
(***************************************************************************)
EXTENDS RelaySafety

\* What the log of chat c says of its messages.
Tells(c, k) ==
    LET u == log[c][k]
    IN  /\ u.kind = "new" => u.text = 1
        /\ u.kind # "delete" => u.text <= chat[c][u.id].text
        /\ u.kind = "delete" => \A i \in u.ids : /\ i \in 1..Len(chat[c])
                                                 /\ ~chat[c][i].alive

LogsTell == \A c \in Chats : \A k \in 1..Len(log[c]) : Tells(c, k)

\* Messages are announced in order, and revisions too.
InOrder(u, v) ==
    /\ u.kind = "new" /\ v.kind = "new" => u.id < v.id
    /\ u.kind # "delete" /\ v.kind # "delete" /\ u.id = v.id => u.text <= v.text

LogsInOrder ==
    \A c \in Chats : \A k, l \in 1..Len(log[c]) :
        k < l => InOrder(log[c][k], log[c][l])

\* The account has read update k of c, or is at it.
Read(c, k) == k \in 1..Len(log[c]) /\ k <= pts[active][c] + 1

\* A copy was made of a message the account has read of, and shows a text it
\* has read.
FromTheLog(c, i) ==
    LET d == Target(c)
        m == chat[c][i]
    IN  m.origin # 0 =>
            /\ \E k \in 1..Len(log[d]) :
                   Read(d, k) /\ log[d][k].kind = "new" /\ log[d][k].id = m.origin
            /\ \E k \in 1..Len(log[d]) :
                   /\ Read(d, k) /\ log[d][k].kind # "delete"
                   /\ log[d][k].id = m.origin /\ log[d][k].text = m.text

CopiesFromTheLog ==
    \A c \in Chats : \A i \in 1..Len(chat[c]) : FromTheLog(c, i)

\* The handlers of edits and deletions address the copy of what they are about,
\* or no message if the answer to its send did not name it.
StepInv(c) ==
    /\ handler[c].at \in {"find", "edit"} => Current(c).kind = "edit"
    /\ handler[c].at = "edit" =>
           /\ handler[c].to = Target(c)
           /\ Names(Target(c), handler[c].msg, Current(c).id)
    /\ handler[c].at = "delete" =>
           Current(c).kind = "delete" /\ handler[c].todo \subseteq Current(c).ids

StepsInv == \A c \in Chats : StepInv(c)

Story == LogsTell /\ LogsInOrder /\ CopiesFromTheLog /\ StepsInv
------------------------------------------------------------------------------
(* What a step does to the chats and the logs. *)

Added(c, m) ==
    /\ m \in Message /\ m.text = 1
    /\ chat' = Append1(chat, c, m)
    /\ log' = Append1(log, c, NewUpdate(m, Len(chat[c]) + 1))

Edited(c, i, t) ==
    LET m == [chat[c][i] EXCEPT !.text = t]
    IN  /\ i \in 1..Len(chat[c]) /\ t \in Nat /\ chat[c][i].text <= t
        /\ chat' = [chat EXCEPT ![c][i] = m]
        /\ log' = Append1(log, c, EditUpdate(m, i))

Deleted(c, ids, who) ==
    /\ ids \subseteq 1..Len(chat[c]) /\ who \in Accounts \cup {User}
    /\ chat' = [chat EXCEPT ![c] = [i \in DOMAIN @ |->
                    IF i \in ids THEN [@[i] EXCEPT !.alive = FALSE] ELSE @[i]]]
    /\ log' = Append1(log, c, DeleteUpdate(ids, who))

\* Members write, edit and delete.
Writes(c, r) == (r = 0 \/ IsAlive(c, r)) /\ Added(c, Written(r))

Revises(c, i) ==
    /\ IsAlive(c, i) /\ chat[c][i].origin = 0
    /\ Edited(c, i, chat[c][i].text + 1)

Removes(c, ids) == (\A i \in ids : IsAlive(c, i)) /\ Deleted(c, ids, User)

\* The handler of chat d copies, edits and deletes in the other chat.
Copied(d) ==
    /\ At(d, "send") /\ d \in Busy
    /\ Current(d).kind = "new" /\ Current(d).id = Copy(d).origin
    /\ Added(Target(d), Copy(d))

Followed(d, i) ==
    LET m == chat[Target(d)][i]
    IN  /\ d \in Busy /\ Current(d).kind = "edit"
        /\ Current(d).id = m.origin /\ m.origin # 0
        /\ IsAlive(Target(d), i) /\ m.text < Current(d).text
        /\ Edited(Target(d), i, Current(d).text)

Withdrew(d, i) ==
    /\ IsAlive(Target(d), i) /\ chat[Target(d)][i].origin # 0
    /\ ~IsAlive(d, chat[Target(d)][i].origin)
    /\ Deleted(Target(d), {i}, active)

Effect ==
    \/ UNCHANGED <<chat, log>>
    \/ \E c \in Chats :
           \/ \E r \in 0..Len(chat[c]) : Writes(c, r)
           \/ \E i \in 1..Len(chat[c]) : Revises(c, i)
           \/ \E ids \in SUBSET (1..Len(chat[c])) : Removes(c, ids)
           \/ Copied(c)
           \/ \E i \in 1..Len(chat[Target(c)]) : Followed(c, i) \/ Withdrew(c, i)

LEMMA MembersEffect ==
    ASSUME IInv, Members
    PROVE  Effect
<1> USE DEF IInv, TypeInv
<1>1. PICK c \in Chats :
          \/ \E r \in 0..Len(chat[c]) : Post(c, r)
          \/ \E i \in 1..Len(chat[c]) : Edit(c, i)
          \/ \E ids \in SUBSET (1..Len(chat[c])) : Remove(c, ids)
  BY DEF Members
<1>2. ASSUME NEW r \in 0..Len(chat[c]), Post(c, r)
      PROVE  Writes(c, r)
  <2>1. Written(r) \in Message /\ Written(r).text = 1
    BY DEF Written, Message, TypeOK
  <2> QED
    BY <1>2, <2>1 DEF Post, Writes, Added
<1>3. ASSUME NEW i \in 1..Len(chat[c]), Edit(c, i)
      PROVE  Revises(c, i)
  <2>1. chat[c][i] \in Message
    BY MessageType
  <2>2. chat[c][i].text \in Nat
    BY <2>1 DEF Message
  <2>3. chat[c][i].origin = 0
    BY <1>3 DEF Edit, MessagesInv
  <2> QED
    BY <1>3, <2>2, <2>3 DEF Edit, Revises, Edited
<1>4. ASSUME NEW ids \in SUBSET (1..Len(chat[c])), Remove(c, ids)
      PROVE  Removes(c, ids)
  BY <1>4 DEF Remove, Removes, Deleted
<1> QED
  BY <1>1, <1>2, <1>3, <1>4 DEF Effect

LEMMA SendEffect ==
    ASSUME IInv, Story, NEW d \in Chats, At(d, "send"), Deliver(d)
    PROVE  Copied(d)
<1> USE DEF IInv, TypeInv
<1>1. d \in Busy
  BY DEF At, Busy
<1>2. handler[d].to = Target(d) /\ Copy(d) \in Message
  BY <1>1, CopyFacts, CopyType
<1>3. Current(d).kind = "new"
  BY DEF HandlersInv, HandlerInv, At
<1>4. pts[active][d] + 1 \in 1..Len(log[d])
  BY <1>1 DEF BusyPending, Pending, TypeOK
<1>5. Current(d).text = 1
  BY <1>3, <1>4 DEF Story, LogsTell, Tells, Current
<1>6. Current(d).id = Copy(d).origin /\ Copy(d).text = Current(d).text
  BY DEF Copy
<1> QED
  BY <1>1, <1>2, <1>3, <1>5, <1>6 DEF Deliver, Copied, Added

LEMMA EditEffect ==
    ASSUME IInv, Story, NEW d \in Chats, EditMirror(d)
    PROVE  Effect
<1> USE DEF IInv, TypeInv
<1> DEFINE c == Target(d)
           i == handler[d].msg
           m == [chat[c][i] EXCEPT !.text = Current(d).text]
<1>1. d \in Busy /\ handler[d].at = "edit"
  BY DEF EditMirror, At, Busy
<1>0. /\ handler[d].to = c /\ c \in Chats /\ Target(c) = d
      /\ Names(c, i, Current(d).id) /\ Current(d).kind = "edit"
  BY <1>1, RoutingIsSymmetric DEF Story, StepsInv, StepInv
\* No message has id 0, so a handler that addresses it changes nothing.
<1> SUFFICES ASSUME i # 0
             PROVE  Effect
  <2>1. ASSUME i = 0
        PROVE  ~IsAlive(c, i)
    BY <2>1 DEF IsAlive
  <2> QED
    BY <1>0, <2>1 DEF EditMirror, Effect
<1>2. /\ handler[d].to = c /\ c \in Chats /\ Target(c) = d
      /\ i \in 1..Len(chat[c])
      /\ chat[c][i].origin = Current(d).id
      /\ Current(d).kind = "edit"
  BY <1>0 DEF Names
<1>3. Current(d) \in Update /\ Current(d).id \in 1..Len(chat[d])
  BY <1>1, <1>2, BusyUpdate DEF Describes
<1>4. chat[c][i].origin # 0
  BY <1>2, <1>3
<1>5. SUFFICES ASSUME /\ IsAlive(c, i) /\ m # chat[c][i]
                      /\ chat' = [chat EXCEPT ![c][i] = m]
                      /\ log' = Append1(log, c, EditUpdate(m, i))
               PROVE  Followed(d, i)
  BY <1>2, <1>5 DEF EditMirror, Effect
<1>6. chat[c][i] \in Message
  BY <1>2, MessageType
<1>7. chat[c][i].text # Current(d).text
  BY <1>5, <1>6 DEF Message
<1>8. pts[active][d] + 1 \in 1..Len(log[d]) /\ pts[active][d] \in Nat
  BY <1>1 DEF BusyPending, Pending, TypeOK
<1>9. PICK k \in 1..Len(log[d]) :
          /\ k <= pts[active][d] + 1 /\ log[d][k].kind # "delete"
          /\ log[d][k].id = Current(d).id /\ log[d][k].text = chat[c][i].text
  <2>1. FromTheLog(c, i)
    BY <1>2 DEF Story, CopiesFromTheLog
  <2>2. Target(c) = d /\ chat[c][i].origin = Current(d).id /\ chat[c][i].origin # 0
    BY <1>2, <1>4
  <2>3. PICK k \in 1..Len(log[d]) :
            /\ Read(d, k) /\ log[d][k].kind # "delete"
            /\ log[d][k].id = chat[c][i].origin
            /\ log[d][k].text = chat[c][i].text
    BY <2>1, <2>2 DEF FromTheLog
  <2> QED
    BY <2>2, <2>3 DEF Read
<1>10. k # pts[active][d] + 1
  BY <1>7, <1>9 DEF Current
<1>11. InOrder(log[d][k], Current(d))
  BY <1>8, <1>9, <1>10 DEF Story, LogsInOrder, Current
<1>12. chat[c][i].text < Current(d).text /\ Current(d).text \in Nat
  <2>1. Current(d).text \in Nat /\ chat[c][i].text \in Nat
    BY <1>3, <1>6 DEF Update, Message
  <2> QED
    BY <1>2, <1>7, <1>9, <1>11, <2>1 DEF InOrder
<1>13. chat[c][i].text <= Current(d).text
  BY <1>6, <1>12 DEF Message
<1> QED
  BY <1>1, <1>2, <1>4, <1>5, <1>12, <1>13 DEF Followed, Edited

LEMMA DeleteEffect ==
    ASSUME IInv, Story, NEW d \in Chats, DeleteOne(d)
    PROVE  Effect
<1> USE DEF IInv, TypeInv
<1> DEFINE c == Target(d)
<1>1. d \in Busy /\ handler[d].at = "delete"
  BY DEF DeleteOne, At, Busy
<1>2. Current(d).kind = "delete" /\ handler[d].todo \subseteq Current(d).ids
  BY <1>1 DEF Story, StepsInv, StepInv
<1>3. CASE UNCHANGED <<chat, log>>
  BY <1>3 DEF Effect
<1>4. ASSUME NEW o \in handler[d].todo, NEW r \in FindBySource(rows, d, o),
             IsAlive(r.dstChat, r.dst),
             chat' = [chat EXCEPT ![r.dstChat][r.dst].alive = FALSE],
             log' = Append1(log, r.dstChat, DeleteUpdate({r.dst}, active))
      PROVE  Effect
  <2>1. r \in rows /\ r.srcChat = d /\ r.src = o
    BY DEF FindBySource
  <2>2. r.dstChat = c /\ r.dst \in 1..Len(chat[c]) /\ chat[c][r.dst].origin = o
    <3>1. r.dst # 0
      BY <1>4 DEF IsAlive
    <3> QED
      BY <2>1, <3>1 DEF RowsLinkMirrors
  <2>3. o \in 1..Len(chat[d])
    BY <2>1 DEF RowsLinkMirrors
  <2>4. pts[active][d] + 1 \in 1..Len(log[d])
    BY <1>1 DEF BusyPending, Pending, TypeOK
  <2>5. o \in Current(d).ids
    BY <1>2, <1>4
  <2>6. ~IsAlive(d, o)
    BY <1>2, <2>4, <2>5 DEF Story, LogsTell, Tells, Current, IsAlive
  <2>7. c \in Chats /\ chat[c] \in Seq(Message)
    BY RoutingIsSymmetric DEF TypeOK
  <2>8. [chat[c] EXCEPT ![r.dst].alive = FALSE] =
            [i \in DOMAIN chat[c] |-> IF i \in {r.dst}
                                      THEN [chat[c][i] EXCEPT !.alive = FALSE]
                                      ELSE chat[c][i]]
    BY <2>2, <2>7
  <2>9. chat' = [chat EXCEPT ![c] = [chat[c] EXCEPT ![r.dst].alive = FALSE]]
    BY <1>4, <2>2
  <2>10. active \in Accounts
    BY DEF TypeOK
  <2>11. Deleted(c, {r.dst}, active)
    BY <1>4, <2>2, <2>8, <2>9, <2>10 DEF Deleted
  <2>12. Withdrew(d, r.dst)
    BY <1>4, <2>2, <2>3, <2>6, <2>11 DEF Withdrew
  <2> QED
    BY <2>2, <2>12 DEF Effect
<1> QED
  BY <1>3, <1>4 DEF DeleteOne

LEMMA Effects ==
    ASSUME IInv, Story, [Next]_vars
    PROVE  Effect
<1>1. CASE UNCHANGED <<chat, log>>
  BY <1>1 DEF Effect
<1>2. CASE Members
  BY <1>2, MembersEffect
<1>3. CASE Sessions \/ UNCHANGED vars
  BY <1>1, <1>3 DEF Sessions, Restart, vars
<1>4. ASSUME NEW d \in Chats, Handle(d)
      PROVE  Effect
  <2>1. CASE Send(d) \/ SendLost(d)
    <3>1. Copied(d)
      BY <2>1, SendEffect DEF Send, SendLost
    <3> QED
      BY <3>1 DEF Effect
  <2>2. CASE EditMirror(d)
    BY <2>2, EditEffect
  <2>3. CASE DeleteOne(d)
    BY <2>3, DeleteEffect
  <2> QED
    BY <1>1, <1>4, <2>1, <2>2, <2>3 DEF Handle, Ignore, Begin, Finish,
       ResolveReply, SendFails, Save, Find
<1> QED
  BY <1>2, <1>3, <1>4 DEF Next
------------------------------------------------------------------------------
(* The story goes on. *)

LEMMA EffectKinds ==
    ASSUME IInv, Effect
    PROVE  \/ UNCHANGED <<chat, log>>
           \/ \E c \in Chats :
                  \/ \E m : Added(c, m)
                  \/ \E i, t : Edited(c, i, t)
                  \/ \E ids, who : Deleted(c, ids, who)
<1>1. \A c \in Chats : Target(c) \in Chats
  BY RoutingIsSymmetric
<1> QED
  BY <1>1 DEF Effect, Writes, Revises, Removes, Copied, Followed, Withdrew

LEMMA AddedShape ==
    ASSUME TypeOK, NEW c \in Chats, NEW m, Added(c, m)
    PROVE  /\ \A e \in Chats \ {c} : chat'[e] = chat[e] /\ log'[e] = log[e]
           /\ Len(chat'[c]) = Len(chat[c]) + 1
           /\ chat'[c][Len(chat[c]) + 1] = m
           /\ \A i \in 1..Len(chat[c]) : chat'[c][i] = chat[c][i]
           /\ Len(log'[c]) = Len(log[c]) + 1
           /\ log'[c][Len(log[c]) + 1] = NewUpdate(m, Len(chat[c]) + 1)
<1>1. /\ chat'[c] = Append(chat[c], m) /\ chat[c] \in Seq(Message)
      /\ log'[c] = Append(log[c], NewUpdate(m, Len(chat[c]) + 1))
      /\ log[c] \in Seq(Update)
  BY DEF Added, Append1, TypeOK
<1>2. \A e \in Chats \ {c} : chat'[e] = chat[e] /\ log'[e] = log[e]
  BY DEF Added, Append1, TypeOK
<1> QED
  BY <1>1, <1>2 DEF Added

LEMMA EditedShape ==
    ASSUME TypeOK, NEW c \in Chats, NEW i, NEW t, Edited(c, i, t)
    PROVE  /\ \A e \in Chats \ {c} : chat'[e] = chat[e] /\ log'[e] = log[e]
           /\ Len(chat'[c]) = Len(chat[c])
           /\ chat'[c][i].text = t /\ chat'[c][i].alive = chat[c][i].alive
           /\ \A j \in 1..Len(chat[c]) : j # i => chat'[c][j] = chat[c][j]
           /\ Len(log'[c]) = Len(log[c]) + 1
           /\ log'[c][Len(log[c]) + 1].kind = "edit"
           /\ log'[c][Len(log[c]) + 1].id = i
           /\ log'[c][Len(log[c]) + 1].text = t
<1> DEFINE m == [chat[c][i] EXCEPT !.text = t]
<1>1. chat[c][i] \in Message /\ chat[c] \in Seq(Message) /\ log[c] \in Seq(Update)
  BY MessageType DEF Edited, TypeOK
<1>2. m \in Message /\ m.text = t /\ m.alive = chat[c][i].alive
  BY <1>1, MessageSteps DEF Edited, Message
<1>3. chat'[c] = [chat[c] EXCEPT ![i] = m]
  BY DEF Edited, TypeOK
<1>4. log'[c] = Append(log[c], EditUpdate(m, i))
  BY DEF Edited, Append1, TypeOK
<1>5. \A e \in Chats \ {c} : chat'[e] = chat[e] /\ log'[e] = log[e]
  BY DEF Edited, Append1, TypeOK
<1>6. /\ Len(chat'[c]) = Len(chat[c]) /\ chat'[c][i] = m
      /\ \A j \in 1..Len(chat[c]) : j # i => chat'[c][j] = chat[c][j]
  <2>1. i \in 1..Len(chat[c])
    BY DEF Edited
  <2> HIDE DEF m
  <2> QED
    BY <1>1, <1>2, <1>3, <2>1
<1>7. /\ EditUpdate(m, i).kind = "edit" /\ EditUpdate(m, i).id = i
      /\ EditUpdate(m, i).text = t
  BY <1>2 DEF EditUpdate
<1>8. Len(log'[c]) = Len(log[c]) + 1 /\ log'[c][Len(log[c]) + 1] = EditUpdate(m, i)
  BY <1>1, <1>4
<1> HIDE DEF m
<1> QED
  BY <1>2, <1>5, <1>6, <1>7, <1>8

LEMMA DeletedShape ==
    ASSUME TypeOK, NEW c \in Chats, NEW ids, NEW who, Deleted(c, ids, who)
    PROVE  /\ \A e \in Chats \ {c} : chat'[e] = chat[e] /\ log'[e] = log[e]
           /\ Len(chat'[c]) = Len(chat[c])
           /\ \A j \in 1..Len(chat[c]) :
                  /\ chat'[c][j].text = chat[c][j].text
                  /\ chat'[c][j].alive => chat[c][j].alive /\ j \notin ids
           /\ Len(log'[c]) = Len(log[c]) + 1
           /\ log'[c][Len(log[c]) + 1] = DeleteUpdate(ids, who)
<1>1. chat[c] \in Seq(Message) /\ log[c] \in Seq(Update)
  BY DEF TypeOK
<1>2. \A e \in Chats \ {c} : chat'[e] = chat[e] /\ log'[e] = log[e]
  BY DEF Deleted, Append1, TypeOK
<1>3. chat'[c] = [i \in DOMAIN chat[c] |-> IF i \in ids
                      THEN [chat[c][i] EXCEPT !.alive = FALSE] ELSE chat[c][i]]
  BY DEF Deleted, TypeOK
<1>4. log'[c] = Append(log[c], DeleteUpdate(ids, who))
  BY DEF Deleted, Append1, TypeOK
<1>5. \A m \in Message : /\ [m EXCEPT !.alive = FALSE].text = m.text
                         /\ [m EXCEPT !.alive = FALSE].alive = FALSE
                         /\ [m EXCEPT !.alive = FALSE] \in Message
  BY DEF Message
<1>6. chat'[c] \in Seq(Message) /\ Len(chat'[c]) = Len(chat[c])
  BY <1>1, <1>3, <1>5
<1>7. ASSUME NEW j \in 1..Len(chat[c])
      PROVE  /\ chat'[c][j].text = chat[c][j].text
             /\ chat'[c][j].alive => chat[c][j].alive /\ j \notin ids
  <2>1. chat[c][j] \in Message /\ j \in DOMAIN chat[c]
    BY <1>1
  <2>2. CASE j \in ids
    <3>1. chat'[c][j] = [chat[c][j] EXCEPT !.alive = FALSE]
      BY <1>3, <2>1, <2>2
    <3> QED
      BY <1>5, <2>1, <3>1
  <2>3. CASE j \notin ids
    <3>1. chat'[c][j] = chat[c][j]
      BY <1>3, <2>1, <2>3
    <3> QED
      BY <2>3, <3>1
  <2> QED
    BY <2>2, <2>3
<1>8. Len(log'[c]) = Len(log[c]) + 1 /\ log'[c][Len(log[c]) + 1] = DeleteUpdate(ids, who)
  BY <1>1, <1>4
<1> QED
  BY <1>2, <1>6, <1>7, <1>8

\* No step takes a text back or brings a message back.
LEMMA Forward ==
    ASSUME IInv, Effect
    PROVE  \A c \in Chats : \A i \in 1..Len(chat[c]) :
               /\ chat'[c][i].text >= chat[c][i].text
               /\ chat'[c][i].alive => chat[c][i].alive
<1> USE DEF IInv, TypeInv
<1> SUFFICES ASSUME NEW c \in Chats, NEW i \in 1..Len(chat[c])
             PROVE  /\ chat'[c][i].text >= chat[c][i].text
                    /\ chat'[c][i].alive => chat[c][i].alive
  OBVIOUS
<1>1. chat[c][i].text \in Nat
  BY MessageType DEF Message
<1>2. CASE UNCHANGED <<chat, log>>
  BY <1>1, <1>2
<1>3. ASSUME NEW e \in Chats, NEW m, Added(e, m)
      PROVE  chat'[c][i] = chat[c][i]
  BY <1>3, AddedShape
<1>4. ASSUME NEW e \in Chats, NEW j, NEW t, Edited(e, j, t)
      PROVE  chat'[c][i].text >= chat[c][i].text /\ chat'[c][i].alive = chat[c][i].alive
  <2>1. chat[e][j].text <= t
    BY <1>4 DEF Edited
  <2>2. CASE c = e /\ i = j
    BY <1>1, <1>4, <2>1, <2>2, EditedShape DEF Edited
  <2>3. CASE ~(c = e /\ i = j)
    <3>1. chat'[c][i] = chat[c][i]
      BY <1>4, <2>3, EditedShape
    <3> QED
      BY <1>1, <3>1
  <2> QED
    BY <2>2, <2>3
<1>5. ASSUME NEW e \in Chats, NEW ids, NEW who, Deleted(e, ids, who)
      PROVE  /\ chat'[c][i].text = chat[c][i].text
             /\ chat'[c][i].alive => chat[c][i].alive
  <2>1. CASE c = e
    BY <1>5, <2>1, DeletedShape
  <2>2. CASE c # e
    BY <1>5, <2>2, DeletedShape
  <2> QED
    BY <2>1, <2>2
<1> QED
  BY <1>1, <1>2, <1>3, <1>4, <1>5, EffectKinds

\* A log stays as it is, or gets one entry, that tells what happened.
LEMMA LogStep ==
    ASSUME IInv, Effect, NEW c \in Chats
    PROVE  \/ Len(log'[c]) = Len(log[c])
           \/ /\ Len(log'[c]) = Len(log[c]) + 1
              /\ \/ \E m : /\ Added(c, m)
                           /\ log'[c][Len(log[c]) + 1] = NewUpdate(m, Len(chat[c]) + 1)
                 \/ \E i, t : /\ Edited(c, i, t)
                              /\ log'[c][Len(log[c]) + 1].kind = "edit"
                              /\ log'[c][Len(log[c]) + 1].id = i
                              /\ log'[c][Len(log[c]) + 1].text = t
                 \/ \E ids, who : /\ Deleted(c, ids, who)
                                  /\ log'[c][Len(log[c]) + 1] = DeleteUpdate(ids, who)
<1> USE DEF IInv, TypeInv
<1>1. ASSUME NEW e \in Chats, NEW m, Added(e, m)
      PROVE  \/ Len(log'[c]) = Len(log[c])
             \/ /\ e = c /\ Len(log'[c]) = Len(log[c]) + 1
                /\ log'[c][Len(log[c]) + 1] = NewUpdate(m, Len(chat[c]) + 1)
  BY <1>1, AddedShape
<1>2. ASSUME NEW e \in Chats, NEW i, NEW t, Edited(e, i, t)
      PROVE  \/ Len(log'[c]) = Len(log[c])
             \/ /\ e = c /\ Len(log'[c]) = Len(log[c]) + 1
                /\ log'[c][Len(log[c]) + 1].kind = "edit"
                /\ log'[c][Len(log[c]) + 1].id = i
                /\ log'[c][Len(log[c]) + 1].text = t
  BY <1>2, EditedShape
<1>3. ASSUME NEW e \in Chats, NEW ids, NEW who, Deleted(e, ids, who)
      PROVE  \/ Len(log'[c]) = Len(log[c])
             \/ /\ e = c /\ Len(log'[c]) = Len(log[c]) + 1
                /\ log'[c][Len(log[c]) + 1] = DeleteUpdate(ids, who)
  BY <1>3, DeletedShape
<1> QED
  BY <1>1, <1>2, <1>3, EffectKinds

LEMMA LogsTellPreserved ==
    ASSUME IInv, Story, [Next]_vars
    PROVE  LogsTell'
<1> USE DEF IInv, TypeInv
<1>1. Effect
  BY Effects
<1> SUFFICES ASSUME NEW c \in Chats, NEW k \in 1..Len(log'[c])
             PROVE  LET u == log'[c][k]
                    IN  /\ u.kind = "new" => u.text = 1
                        /\ u.kind # "delete" => u.text <= chat'[c][u.id].text
                        /\ u.kind = "delete" =>
                               \A i \in u.ids : /\ i \in 1..Len(chat'[c])
                                               /\ ~chat'[c][i].alive
  BY DEF LogsTell, Tells
<1> DEFINE u == log'[c][k]
           Told == /\ u.kind = "new" => u.text = 1
                   /\ u.kind # "delete" => u.text <= chat'[c][u.id].text
                   /\ u.kind = "delete" =>
                          \A i \in u.ids : /\ i \in 1..Len(chat'[c])
                                          /\ ~chat'[c][i].alive
<1>2. LogGrowth(c) /\ Len(log[c]) \in Nat /\ Len(chat[c]) \in Nat
      /\ Len(chat'[c]) \in Nat /\ Len(chat'[c]) >= Len(chat[c])
  BY LogsGrow, Lengths, ChatsGrow DEF TypeOK, ChatGrowth
<1>3. CASE k \in 1..Len(log[c])
  <2>1. log'[c][k] = log[c][k] /\ Tells(c, k) /\ Describes(log[c][k], chat[c])
        /\ log[c][k] \in Update
    BY <1>2, <1>3 DEF LogGrowth, Story, LogsTell, LogsDescribe, TypeOK
  <2>2. \A i \in 1..Len(chat[c]) : /\ chat[c][i].text \in Nat /\ chat'[c][i].text \in Nat
                                   /\ chat'[c][i].text >= chat[c][i].text
                                   /\ chat'[c][i].alive => chat[c][i].alive
    <3>1. ASSUME NEW i \in 1..Len(chat[c])
          PROVE  chat[c][i].text \in Nat /\ chat'[c][i].text \in Nat
      <4>1. TypeOK' /\ i \in 1..Len(chat'[c])
        BY <1>2, TypePreserved
      <4>2. chat'[c][i] \in Message /\ chat[c][i] \in Message
        BY <4>1 DEF TypeOK
      <4> QED
        BY <4>2 DEF Message
    <3> QED
      BY <1>1, <3>1, Forward
  <2>3. u = log[c][k] /\ u.text \in Nat
    BY <2>1 DEF Update
  <2> HIDE DEF u
  <2>4. u.kind = "new" => u.text = 1
    BY <2>1, <2>3 DEF Tells
  <2>5. u.kind # "delete" => u.text <= chat'[c][u.id].text
    <3>1. SUFFICES ASSUME u.kind # "delete"
                   PROVE  u.text <= chat'[c][u.id].text
      OBVIOUS
    <3>2. u.id \in 1..Len(chat[c])
      BY <2>1, <2>3, <3>1 DEF Describes
    <3>3. u.text <= chat[c][u.id].text
      BY <2>1, <2>3, <3>1 DEF Tells
    <3>4. /\ chat[c][u.id].text \in Nat /\ chat'[c][u.id].text \in Nat
          /\ chat'[c][u.id].text >= chat[c][u.id].text
      BY <2>2, <3>2
    <3> QED
      BY <2>3, <3>3, <3>4
  <2>6. u.kind = "delete" => \A i \in u.ids : i \in 1..Len(chat[c]) /\ ~chat[c][i].alive
    BY <2>1, <2>3 DEF Tells
  <2>7. \A i \in 1..Len(chat[c]) : i \in 1..Len(chat'[c])
    BY <1>2
  <2>8. Told
    BY <2>2, <2>4, <2>5, <2>6, <2>7
  <2> QED
    BY <2>8 DEF u
<1>4. CASE k > Len(log[c])
  <2>1. Len(log'[c]) = Len(log[c]) + 1 /\ k = Len(log[c]) + 1
    BY <1>1, <1>2, <1>4, LogStep
  <2>2. ASSUME NEW m, Added(c, m), log'[c][k] = NewUpdate(m, Len(chat[c]) + 1)
        PROVE  Told
    BY <2>2, AddedShape DEF NewUpdate, Added
  <2>3. ASSUME NEW i, NEW t, Edited(c, i, t), log'[c][k].kind = "edit",
               log'[c][k].id = i, log'[c][k].text = t
        PROVE  Told
    <3>1. t \in Nat
      BY <2>3 DEF Edited
    <3>2. chat'[c][i].text = t
      BY <2>3, EditedShape
    <3> QED
      BY <2>3, <3>1, <3>2
  <2>4. ASSUME NEW ids, NEW who, Deleted(c, ids, who),
               log'[c][k] = DeleteUpdate(ids, who)
        PROVE  Told
    <3>1. u.kind = "delete" /\ u.ids = ids
      BY <2>4 DEF DeleteUpdate
    <3>2. ids \subseteq 1..Len(chat[c]) /\ Len(chat'[c]) = Len(chat[c])
      BY <2>4, DeletedShape DEF Deleted
    <3>3. \A i \in ids : ~chat'[c][i].alive
      BY <2>4, <3>2, DeletedShape
    <3> HIDE DEF u
    <3> QED
      BY <3>1, <3>2, <3>3
  <2> QED
    BY <1>1, <1>2, <2>1, <2>2, <2>3, <2>4, LogStep
<1> QED
  BY <1>2, <1>3, <1>4

LEMMA LogsInOrderPreserved ==
    ASSUME IInv, Story, [Next]_vars
    PROVE  LogsInOrder'
<1> USE DEF IInv, TypeInv
<1>1. Effect
  BY Effects
<1> SUFFICES ASSUME NEW c \in Chats, NEW k \in 1..Len(log'[c]),
                    NEW l \in 1..Len(log'[c]), k < l
             PROVE  InOrder(log'[c][k], log'[c][l])
  BY DEF LogsInOrder
<1>2. LogGrowth(c) /\ Len(log[c]) \in Nat /\ Len(chat[c]) \in Nat
  BY LogsGrow DEF TypeOK
<1>3. CASE l \in 1..Len(log[c])
  <2>1. k \in 1..Len(log[c])
    BY <1>2, <1>3
  <2>2. log'[c][k] = log[c][k] /\ log'[c][l] = log[c][l]
    BY <1>2, <1>3, <2>1 DEF LogGrowth
  <2> QED
    BY <1>3, <2>1, <2>2 DEF Story, LogsInOrder
<1>4. CASE l > Len(log[c])
  <2>1. /\ Len(log'[c]) = Len(log[c]) + 1 /\ l = Len(log[c]) + 1
        /\ k \in 1..Len(log[c])
    BY <1>1, <1>2, <1>4, LogStep
  <2>2. /\ log'[c][k] = log[c][k] /\ Tells(c, k) /\ Describes(log[c][k], chat[c])
        /\ log[c][k] \in Update
    BY <1>2, <2>1 DEF LogGrowth, Story, LogsTell, LogsDescribe, TypeOK
  <2>3. log[c][k].kind # "delete" =>
            log[c][k].id \in 1..Len(chat[c]) /\ log[c][k].text \in Nat
    BY <2>2 DEF Describes, Update
  <2>4. ASSUME NEW m, Added(c, m), log'[c][l] = NewUpdate(m, Len(chat[c]) + 1)
        PROVE  InOrder(log'[c][k], log'[c][l])
    BY <1>2, <2>2, <2>3, <2>4 DEF InOrder, NewUpdate
  <2>5. ASSUME NEW i, NEW t, Edited(c, i, t), log'[c][l].kind = "edit",
               log'[c][l].id = i, log'[c][l].text = t
        PROVE  InOrder(log'[c][k], log'[c][l])
    <3>1. i \in 1..Len(chat[c]) /\ t \in Nat /\ chat[c][i].text <= t
      BY <2>5 DEF Edited
    <3>2. chat[c][i].text \in Nat
      BY <3>1, MessageType DEF Message
    <3> QED
      BY <2>2, <2>3, <2>5, <3>1, <3>2 DEF InOrder, Tells
  <2>6. ASSUME NEW ids, NEW who, log'[c][l] = DeleteUpdate(ids, who)
        PROVE  InOrder(log'[c][k], log'[c][l])
    BY <2>6 DEF InOrder, DeleteUpdate
  <2> QED
    BY <1>1, <1>2, <2>1, <2>4, <2>5, <2>6, LogStep
<1> QED
  BY <1>2, <1>3, <1>4
------------------------------------------------------------------------------
LEMMA ReadStays ==
    ASSUME SingleAccount, IInv, [Next]_vars, NEW c \in Chats, NEW k, Read(c, k)
    PROVE  /\ k \in 1..Len(log'[c]) /\ k <= pts'[active'][c] + 1
           /\ log'[c][k] = log[c][k]
<1> USE DEF IInv, TypeInv
<1>1. active' = active /\ TypeOK'
  BY TypePreserved DEF TypeOK, SingleAccount
<1>2. /\ pts[active][c] \in Nat /\ pts'[active'][c] \in Nat
      /\ Len(log[c]) \in Nat /\ Len(log'[c]) \in Nat
  BY <1>1 DEF TypeOK
<1>3. pts'[active'][c] >= pts[active][c]
  <2>1. CASE UNCHANGED pts
    BY <1>1, <1>2, <2>1
  <2>2. CASE \E e \in Chats : Ignore(e) \/ Finish(e)
    <3>1. PICK e \in Chats : pts' = [pts EXCEPT ![active][e] = @ + 1]
      BY <2>2 DEF Ignore, Finish
    <3> QED
      BY <1>1, <1>2, <3>1 DEF TypeOK
  <2>3. CASE Sessions
    <3>1. PICK seen \in SUBSET Busy : pts' = [pts EXCEPT ![active] =
              [e \in Chats |-> IF e \in seen THEN pts[active][e] + 1
                                             ELSE pts[active][e]]]
      BY <2>3 DEF Sessions, Restart
    <3>2. pts'[active][c] = IF c \in seen THEN pts[active][c] + 1
                                          ELSE pts[active][c]
      BY <3>1 DEF TypeOK
    <3> QED
      BY <1>1, <1>2, <3>2
  <2> QED
    BY <2>1, <2>2, <2>3 DEF Next, Members, Post, Edit, Remove, Handle, vars,
       Begin, ResolveReply, Send, SendFails, SendLost, Save, Find, EditMirror,
       DeleteOne
<1>4. LogGrowth(c)
  BY LogsGrow
<1>5. k \in 1..Len(log[c]) /\ k <= pts[active][c] + 1
  BY DEF Read
<1> QED
  BY <1>2, <1>3, <1>4, <1>5 DEF LogGrowth

\* A copy shows another text only because its handler is at an edit.
LEMMA TextFrom ==
    ASSUME IInv, Effect, NEW c \in Chats, NEW i \in 1..Len(chat[c]),
           chat[c][i].origin # 0
    PROVE  \/ chat'[c][i].text = chat[c][i].text
           \/ /\ Followed(Target(c), i)
              /\ chat'[c][i].text = Current(Target(c)).text
<1> USE DEF IInv, TypeInv
<1>1. CASE UNCHANGED <<chat, log>>
  BY <1>1
<1>2. ASSUME NEW e \in Chats, NEW m, Added(e, m)
      PROVE  chat'[c][i] = chat[c][i]
  BY <1>2, AddedShape
<1>3. ASSUME NEW e \in Chats, NEW ids, NEW who, Deleted(e, ids, who)
      PROVE  chat'[c][i].text = chat[c][i].text
  <2>1. CASE c = e
    BY <1>3, <2>1, DeletedShape
  <2>2. CASE c # e
    BY <1>3, <2>2, DeletedShape
  <2> QED
    BY <2>1, <2>2
<1>4. ASSUME NEW e \in Chats, NEW j, Revises(e, j)
      PROVE  chat'[c][i] = chat[c][i]
  <2>1. Edited(e, j, chat[e][j].text + 1) /\ chat[e][j].origin = 0
    BY <1>4 DEF Revises
  <2>2. ~(e = c /\ j = i)
    BY <2>1
  <2>3. CASE e = c
    BY <2>1, <2>2, <2>3, EditedShape
  <2>4. CASE e # c
    BY <2>1, <2>4, EditedShape
  <2> QED
    BY <2>3, <2>4
<1>5. ASSUME NEW d \in Chats, NEW j, Followed(d, j)
      PROVE  \/ chat'[c][i] = chat[c][i]
             \/ d = Target(c) /\ j = i /\ chat'[c][i].text = Current(d).text
  <2>1. Edited(Target(d), j, Current(d).text) /\ Target(d) \in Chats
        /\ Target(Target(d)) = d
    BY <1>5, RoutingIsSymmetric DEF Followed
  <2>2. CASE Target(d) # c
    BY <2>1, <2>2, EditedShape
  <2>3. CASE Target(d) = c /\ j # i
    BY <2>1, <2>3, EditedShape
  <2>4. CASE Target(d) = c /\ j = i
    BY <2>1, <2>4, EditedShape
  <2> QED
    BY <2>2, <2>3, <2>4
<1>6. \A d \in Chats : Target(d) \in Chats
  BY RoutingIsSymmetric
<1>7. ASSUME NEW e \in Chats
      PROVE  /\ \A r : Writes(e, r) => Added(e, Written(r))
             /\ \A ids : Removes(e, ids) => Deleted(e, ids, User)
             /\ Copied(e) => Added(Target(e), Copy(e))
             /\ \A j : Withdrew(e, j) => Deleted(Target(e), {j}, active)
  BY DEF Writes, Removes, Copied, Withdrew
<1> QED
  BY <1>1, <1>2, <1>3, <1>4, <1>5, <1>6, <1>7 DEF Effect

\* A new copy was made by the handler of its source.
LEMMA NewFrom ==
    ASSUME IInv, Story, [Next]_vars, NEW c \in Chats, NEW i \in 1..Len(chat'[c]),
           i > Len(chat[c]), chat'[c][i].origin # 0
    PROVE  Copied(Target(c)) /\ chat'[c][i] = Copy(Target(c))
<1> USE DEF IInv, TypeInv
<1>1. Effect
  BY Effects
<1>2. Len(chat[c]) \in Nat /\ Len(chat'[c]) \in Nat
  BY Lengths
<1>3. ASSUME NEW e \in Chats, NEW m, Added(e, m)
      PROVE  e = c /\ chat'[c][i] = m
  BY <1>2, <1>3, AddedShape
<1>4. ASSUME NEW e \in Chats, NEW j, NEW t, Edited(e, j, t)
      PROVE  FALSE
  BY <1>2, <1>4, EditedShape
<1>5. ASSUME NEW e \in Chats, NEW ids, NEW who, Deleted(e, ids, who)
      PROVE  FALSE
  BY <1>2, <1>5, DeletedShape
<1>6. ~UNCHANGED <<chat, log>>
  BY <1>2
<1>7. \A d \in Chats : Target(d) \in Chats /\ Target(Target(d)) = d
  BY RoutingIsSymmetric
<1>8. ASSUME NEW e \in Chats
      PROVE  /\ \A r : ~Writes(e, r)
             /\ \A j : ~Revises(e, j)
             /\ \A ids : ~Removes(e, ids)
             /\ \A j : ~Followed(e, j) /\ ~Withdrew(e, j)
  <2>1. \A r : Written(r).origin = 0
    BY DEF Written
  <2> QED
    BY <1>3, <1>4, <1>5, <1>7, <2>1
       DEF Writes, Revises, Removes, Followed, Withdrew
<1>9. PICK d \in Chats : Copied(d)
  BY <1>1, <1>6, <1>7, <1>8 DEF Effect
<1> QED
  BY <1>3, <1>7, <1>9 DEF Copied

LEMMA CopiesFromTheLogPreserved ==
    ASSUME SingleAccount, IInv, Story, [Next]_vars
    PROVE  CopiesFromTheLog'
<1> USE DEF IInv, TypeInv
<1>1. Effect
  BY Effects
<1> SUFFICES ASSUME NEW c \in Chats, NEW i \in 1..Len(chat'[c]),
                    chat'[c][i].origin # 0
             PROVE  /\ \E k \in 1..Len(log'[Target(c)]) :
                           /\ k <= pts'[active'][Target(c)] + 1
                           /\ log'[Target(c)][k].kind = "new"
                           /\ log'[Target(c)][k].id = chat'[c][i].origin
                    /\ \E k \in 1..Len(log'[Target(c)]) :
                           /\ k <= pts'[active'][Target(c)] + 1
                           /\ log'[Target(c)][k].kind # "delete"
                           /\ log'[Target(c)][k].id = chat'[c][i].origin
                           /\ log'[Target(c)][k].text = chat'[c][i].text
  BY DEF CopiesFromTheLog, FromTheLog, Read
<1> DEFINE d == Target(c)
           n == pts[active][d] + 1
<1>2. d \in Chats /\ Target(d) = c /\ Len(chat[c]) \in Nat
  BY RoutingIsSymmetric, Lengths
<1>3. d \in Busy => Read(d, n)
  BY <1>2 DEF BusyPending, Pending, TypeOK, Read
<1>4. CASE i \in 1..Len(chat[c])
  <2>1. chat'[c][i].origin = chat[c][i].origin
    BY <1>4, ChatsGrow DEF ChatGrowth, SameMessage
  <2>2. FromTheLog(c, i) /\ chat[c][i].origin # 0
    BY <1>4, <2>1 DEF Story, CopiesFromTheLog
  <2>3. PICK k : Read(d, k) /\ log[d][k].kind = "new" /\ log[d][k].id = chat[c][i].origin
    BY <2>2 DEF FromTheLog
  <2>4. PICK l : /\ Read(d, l) /\ log[d][l].kind # "delete"
                 /\ log[d][l].id = chat[c][i].origin
                 /\ log[d][l].text = chat'[c][i].text
    <3>1. CASE chat'[c][i].text = chat[c][i].text
      BY <2>2, <3>1 DEF FromTheLog
    <3>2. CASE Followed(d, i) /\ chat'[c][i].text = Current(d).text
      BY <1>2, <1>3, <3>2 DEF Followed, Current
    <3> QED
      BY <1>1, <1>4, <2>2, <3>1, <3>2, TextFrom
  <2> QED
    BY <1>2, <2>1, <2>3, <2>4, ReadStays
<1>5. CASE i > Len(chat[c])
  <2>1. Copied(d) /\ chat'[c][i] = Copy(d)
    BY <1>5, NewFrom
  <2>2. /\ Read(d, n) /\ log[d][n].kind = "new" /\ log[d][n].id = chat'[c][i].origin
        /\ log[d][n].text = chat'[c][i].text
    BY <1>2, <1>3, <2>1 DEF Copied, Current, Copy
  <2> QED
    BY <1>2, <2>2, ReadStays
<1> QED
  BY <1>2, <1>4, <1>5, Lengths
------------------------------------------------------------------------------
LEMMA StepsInvPreserved ==
    ASSUME IInv, Story, [Next]_vars
    PROVE  StepsInv'
<1> USE DEF IInv, TypeInv
<1> SUFFICES ASSUME NEW c \in Chats
             PROVE  StepInv(c)'
  BY DEF StepsInv
<1>1. TypeOK' /\ StepInv(c) /\ Target(c) \in Chats
  BY TypePreserved, RoutingIsSymmetric DEF Story, StepsInv
<1>2. CASE handler'[c].at \notin {"find", "edit", "delete"}
  BY <1>2 DEF StepInv
<1>3. CASE Undisturbed(c) /\ handler'[c].at \in {"find", "edit", "delete"}
  <2>1. handler'[c] = handler[c] /\ active' = active /\ c \in Busy
    BY <1>3 DEF Undisturbed, Busy, At
  <2>2. Current(c)' = Current(c)
    BY <1>3, <2>1, SameUpdate DEF BusyPending
  <2>3. ASSUME handler[c].at = "edit"
        PROVE  Names(Target(c), handler[c].msg, Current(c).id)'
    <3>1. Names(Target(c), handler[c].msg, Current(c).id)
      BY <1>1, <2>3 DEF StepInv
    <3>2. ASSUME NEW id, NEW o, Names(Target(c), id, o)
          PROVE  Names(Target(c), id, o)'
      BY <1>1, <3>2, NamesStay
    <3> HIDE DEF IInv, TypeInv
    <3> QED
      BY <2>1, <2>2, <3>1, <3>2 DEF Names
  <2> QED
    BY <1>1, <2>1, <2>2, <2>3 DEF StepInv
<1>4. ASSUME Handle(c), handler'[c].at \in {"find", "edit", "delete"}
      PROVE  StepInv(c)'
  <2>1. ~Return(c)
    BY <1>4 DEF Return, Done, Idle, TypeOK
  <2>2. CASE Ignore(c)
    BY <1>4, <2>2 DEF Ignore, At
  <2>3. CASE Finish(c)
    BY <1>4, <2>3 DEF Finish, Idle, TypeOK
  <2>4. CASE Begin(c)
    <3>1. /\ handler'[c] = Started(c, Current(c))
          /\ UNCHANGED <<log, pts, active>>
      BY <2>4 DEF Begin, TypeOK
    <3>2. Current(c) \in Update /\ Current(c)' = Current(c)
      BY <2>4, <3>1, CurrentType DEF Begin, Current
    <3>3. /\ handler'[c].at = "find" => Current(c).kind = "edit"
          /\ handler'[c].at # "edit"
          /\ handler'[c].at = "delete" => Current(c).kind = "delete"
          /\ handler'[c].todo = Current(c).ids
      BY <3>1, <3>2 DEF Started, FirstStep, Update
    <3> QED
      BY <3>2, <3>3 DEF StepInv
  <2>5. CASE ResolveReply(c) \/ Send(c) \/ SendFails(c) \/ SendLost(c) \/ Save(c)
             \/ EditMirror(c)
    <3>1. CASE SendFails(c) \/ SendLost(c)
      <4>1. PICK e : AttemptFails(c, e)
        BY <3>1 DEF SendFails, SendLost
      <4>2. handler' = [handler EXCEPT ![c] = [handler[c] EXCEPT
                            !.retry = NextTry(handler[c].retry, e)]]
        BY <2>1, <4>1 DEF AttemptFails
      <4>3. handler[c] \in Handler /\ handler[c].at = "send"
        BY <3>1 DEF TypeOK, SendFails, SendLost, At
      <4> QED
        BY <1>4, <4>2, <4>3 DEF TypeOK, Handler
    <3>2. CASE ResolveReply(c) \/ Send(c)
      <4>1. handler'[c].at \in {"send", "save"}
        BY <3>2 DEF ResolveReply, Send, TypeOK, Handler
      <4> QED
        BY <1>4, <4>1
    <3> QED
      BY <2>1, <2>5, <3>1, <3>2 DEF Save, EditMirror
  <2>6. CASE Find(c)
    <3>1. PICK r \in FindBySource(rows, c, Current(c).id) :
              handler' = [handler EXCEPT ![c] = [handler[c] EXCEPT
                         !.at = "edit", !.to = r.dstChat, !.msg = r.dst]]
      BY <2>1, <2>6 DEF Find
    <3>2. handler[c] \in Handler
      BY DEF TypeOK
    <3>3. /\ handler'[c].at = "edit" /\ handler'[c].to = r.dstChat
          /\ handler'[c].msg = r.dst
      BY <3>1, <3>2 DEF TypeOK, Handler
    <3>4. handler[c].at = "find" /\ UNCHANGED <<chat, log, pts, active>>
      BY <2>1, <2>6 DEF Find, At
    <3>5. Current(c)' = Current(c) /\ Current(c).kind = "edit"
      BY <1>1, <3>4 DEF StepInv, Current
    <3>6. r \in rows /\ r.srcChat = c /\ r.src = Current(c).id
      BY DEF FindBySource
    <3>7. r.dstChat = Target(c) /\ Names(Target(c), r.dst, Current(c).id)
      BY <3>6 DEF RowsLinkMirrors, Names, Unnamed
    <3>8. UNCHANGED budget
      BY <2>1, <2>6 DEF Find
    <3>9. Names(Target(c), handler[c].msg, Current(c).id)'
      BY <3>3, <3>4, <3>5, <3>7, <3>8 DEF Names, Unnamed
    <3> QED
      BY <3>3, <3>5, <3>7, <3>9 DEF StepInv
  <2>7. CASE DeleteOne(c)
    <3>1. PICK o : handler' = [handler EXCEPT ![c] = [handler[c] EXCEPT
                                   !.todo = handler[c].todo \ {o}]]
      BY <2>1, <2>7 DEF DeleteOne, NextId
    <3>2. handler[c] \in Handler /\ handler[c].at = "delete"
          /\ UNCHANGED <<pts, active>>
      BY <2>7 DEF TypeOK, DeleteOne, At
    <3>3. handler'[c].at = "delete" /\ handler'[c].todo \subseteq handler[c].todo
      BY <3>1, <3>2 DEF TypeOK, Handler
    <3>4. Current(c)' = Current(c)
      BY <3>2, SameUpdateAt DEF Busy, At, BusyPending
    <3> QED
      BY <1>1, <3>2, <3>3, <3>4 DEF StepInv
  <2> QED
    BY <1>4, <2>2, <2>3, <2>4, <2>5, <2>6, <2>7 DEF Handle
<1>5. CASE Sessions
  BY <1>2, <1>5 DEF Sessions, Restart, Idle
<1>6. CASE Members \/ UNCHANGED vars
  BY <1>2, <1>3, <1>6 DEF Members, Post, Edit, Remove, vars, Undisturbed
<1>7. ASSUME NEW d \in Chats, Handle(d), d # c
      PROVE  StepInv(c)'
  BY <1>2, <1>3, <1>7, OneHandlerSteps
<1> QED
  BY <1>2, <1>4, <1>5, <1>6, <1>7 DEF Next

LEMMA StoryStep ==
    ASSUME SingleAccount, IInv, Story, [Next]_vars
    PROVE  Story'
  BY LogsTellPreserved, LogsInOrderPreserved, CopiesFromTheLogPreserved,
     StepsInvPreserved DEF Story

LEMMA StoryInit == Init => Story
<1> SUFFICES ASSUME Init
             PROVE  Story
  OBVIOUS
<1>1. \A c \in Chats : Len(chat[c]) = 0 /\ Len(log[c]) = 0 /\ handler[c].at = "idle"
  BY DEF Init, Idle
<1> QED
  BY <1>1 DEF Story, LogsTell, LogsInOrder, CopiesFromTheLog, StepsInv, StepInv
------------------------------------------------------------------------------
\* What a log says members deleted.
LEMMA RemovedIds ==
    ASSUME NEW d \in Chats, NEW x
    PROVE  /\ x \in Removed[d] <=> \E k \in 1..Len(log[d]) :
                   log[d][k].from = User /\ x \in log[d][k].ids
           /\ x \in Removed'[d] <=> \E k \in 1..Len(log'[d]) :
                   log'[d][k].from = User /\ x \in log'[d][k].ids
  BY DEF Removed

LEMMA RemovedNow ==
    ASSUME TypeOK, NEW c \in Chats, NEW u \in Update, log' = Append1(log, c, u),
           NEW d \in Chats, NEW x
    PROVE  x \in Removed'[d] <=>
               x \in Removed[d] \/ (d = c /\ u.from = User /\ x \in u.ids)
<1>1. log[d] \in Seq(Update)
  BY DEF TypeOK
<1>2. CASE d # c
  <2>1. log'[d] = log[d]
    BY <1>2 DEF Append1, TypeOK
  <2> QED
    BY <1>2, <2>1, RemovedIds
<1>3. CASE d = c
  <2>1. log'[d] = Append(log[d], u)
    BY <1>3 DEF Append1, TypeOK
  <2>2. /\ 1..Len(log'[d]) = 1..Len(log[d]) \cup {Len(log[d]) + 1}
        /\ \A k \in 1..Len(log[d]) : log'[d][k] = log[d][k]
        /\ log'[d][Len(log[d]) + 1] = u
    BY <1>1, <2>1
  <2> DEFINE Named(v) == v.from = User /\ x \in v.ids
  <2> HIDE DEF Named
  <2>3. (\E k \in 1..Len(log'[d]) : Named(log'[d][k])) <=>
            (\E k \in 1..Len(log[d]) : Named(log[d][k])) \/ Named(u)
    <3>1. Len(log[d]) + 1 \in 1..Len(log'[d])
      BY <2>2
    <3> QED
      BY <2>2, <3>1
  <2>4. (x \in Removed'[d]) <=> \E k \in 1..Len(log'[d]) : Named(log'[d][k])
    BY RemovedIds DEF Named
  <2>5. (x \in Removed[d]) <=> \E k \in 1..Len(log[d]) : Named(log[d][k])
    BY RemovedIds DEF Named
  <2> QED
    BY <1>3, <2>3, <2>4, <2>5 DEF Named
<1> QED
  BY <1>2, <1>3

LEMMA RemovedStays ==
    ASSUME TypeOK, NEW c \in Chats, NEW u \in Update, log' = Append1(log, c, u),
           u.from # User \/ u.ids = {}
    PROVE  Removed' = Removed
<1>1. ASSUME NEW d \in Chats
      PROVE  Removed'[d] = Removed[d]
  <2>1. \A x : (x \in Removed'[d]) <=> (x \in Removed[d])
    BY RemovedNow
  <2> QED
    BY <2>1
<1> QED
  BY <1>1 DEF Removed

LEMMA RemovedGrows ==
    ASSUME TypeOK, NEW c \in Chats, NEW ids \in SUBSET Nat,
           log' = Append1(log, c, DeleteUpdate(ids, User))
    PROVE  Removed' = [Removed EXCEPT ![c] = @ \cup ids]
<1>1. /\ DeleteUpdate(ids, User).from = User /\ DeleteUpdate(ids, User).ids = ids
      /\ DeleteUpdate(ids, User) \in Update
  BY DeleteUpdateType DEF DeleteUpdate
<1>2. \A d \in Chats : \A x : x \in Removed'[d] <=>
          x \in Removed[d] \/ (d = c /\ x \in ids)
  BY <1>1, RemovedNow
<1>3. ASSUME NEW d \in Chats
      PROVE  Removed'[d] = IF d = c THEN Removed[d] \cup ids ELSE Removed[d]
  <2>1. \A x : (x \in Removed'[d]) <=> (x \in Removed[d] \/ (d = c /\ x \in ids))
    BY <1>2
  <2> QED
    BY <2>1
<1> QED
  BY <1>3 DEF Removed
------------------------------------------------------------------------------
(* Every effect is a step of Mirroring. *)

LEMMA WriteRefines ==
    ASSUME IInv, NEW c \in Chats, NEW r \in 0..Len(chat[c]), Writes(c, r)
    PROVE  Promise!Write(c, r)
<1> USE DEF IInv, TypeInv
<1>1. Written(r) \in Message /\ NewUpdate(Written(r), Len(chat[c]) + 1) \in Update
  BY UpdateTypes DEF Writes, Added, TypeOK
<1>2. NewUpdate(Written(r), Len(chat[c]) + 1).ids = {}
  BY DEF NewUpdate
<1>3. Removed' = Removed
  BY <1>1, <1>2, RemovedStays DEF Writes, Added
<1>4. chat' = [chat EXCEPT ![c] = Append(chat[c], Written(r))]
  BY DEF Writes, Added, Append1
<1>5. r = 0 \/ Promise!Shown(c, r)
  BY DEF Writes, IsAlive, Promise!Shown
<1> QED
  BY <1>3, <1>4, <1>5 DEF Promise!Write, Promise!Add, Written

LEMMA ReviseRefines ==
    ASSUME IInv, NEW c \in Chats, NEW i \in 1..Len(chat[c]), Revises(c, i)
    PROVE  Promise!Revise(c, i)
<1> USE DEF IInv, TypeInv
<1> DEFINE m == [chat[c][i] EXCEPT !.text = chat[c][i].text + 1]
<1>1. IsAlive(c, i) /\ chat[c][i].origin = 0 /\ chat[c][i].text + 1 \in Nat
      /\ chat' = [chat EXCEPT ![c][i] = m] /\ log' = Append1(log, c, EditUpdate(m, i))
  BY DEF Revises, Edited
<1>2. m \in Message
  BY <1>1, MessageType, MessageSteps
<1>3. EditUpdate(m, i) \in Update /\ EditUpdate(m, i).ids = {}
  <2>1. i \in Nat
    BY DEF TypeOK
  <2> HIDE DEF m
  <2>2. EditUpdate(m, i) \in Update
    BY <1>2, <2>1, UpdateTypes
  <2>3. EditUpdate(m, i).ids = {}
    BY DEF EditUpdate
  <2> QED
    BY <2>2, <2>3
<1>4. Removed' = Removed
  BY <1>1, <1>3, RemovedStays
<1>5. i \notin Promise!Copies(c) /\ Promise!Shown(c, i)
  BY <1>1 DEF Promise!Copies, Promise!Shown, IsAlive
<1> QED
  BY <1>1, <1>4, <1>5 DEF Promise!Revise

LEMMA RemoveRefines ==
    ASSUME IInv, NEW c \in Chats, NEW ids \in SUBSET (1..Len(chat[c])), Removes(c, ids)
    PROVE  Promise!Remove(c, ids)
<1> USE DEF IInv, TypeInv
<1>1. ids \in SUBSET Nat
  OBVIOUS
<1>2. Removed' = [Removed EXCEPT ![c] = @ \cup ids]
  BY <1>1, RemovedGrows DEF Removes, Deleted
<1> QED
  BY <1>2 DEF Removes, Deleted, IsAlive, Promise!Remove, Promise!Shown

LEMMA CopyRefines ==
    ASSUME SingleAccount, IInv, Story, NEW d \in Chats, Copied(d)
    PROVE  LET c == Target(d)
               o == Copy(d).origin
               r == Copy(d).reply
           IN  /\ o \in 1..Len(chat[Target(c)]) /\ r \in 0..Len(chat[c])
               /\ Promise!Relay(c, o, r, active)
<1> USE DEF IInv, TypeInv
<1> DEFINE c == Target(d)
           o == Copy(d).origin
           r == Copy(d).reply
           asked == chat[d][o].reply
<1>1. c \in Chats /\ Target(c) = d
  BY RoutingIsSymmetric
<1>2. /\ o \in 1..Len(chat[d]) /\ active \in Accounts /\ chat[d][o].from # active
      /\ r # 0 => asked # 0 /\ Counterparts(chat, d, asked, r)
      /\ Copy(d).from = active
  BY CopyFacts DEF Copied
<1>3. Copy(d) \in Message /\ Copy(d).text = 1
  BY DEF Copied, Added
<1>4. chat[d][o].origin = 0
  <2>1. chat[d][o] \in Message
    BY <1>2, MessageType
  <2>2. chat[d][o].from = User
    BY <1>2, <2>1 DEF Message, SingleAccount
  <2> QED
    BY <1>2, <2>2 DEF MessagesInv
<1>5. ASSUME NEW j \in Promise!Copies(c)
      PROVE  chat[c][j].origin <= o
  <2> DEFINE n == pts[active][d] + 1
  <2>1. j \in 1..Len(chat[c]) /\ chat[c][j].origin # 0
    BY <1>5 DEF Promise!Copies
  <2>2. n \in 1..Len(log[d]) /\ log[d][n].kind = "new" /\ log[d][n].id = o
        /\ pts[active][d] \in Nat
    BY DEF Copied, BusyPending, Pending, TypeOK, Current
  <2>3. FromTheLog(c, j)
    BY <1>1, <2>1 DEF Story, CopiesFromTheLog
  <2>4. PICK k : Read(d, k) /\ log[d][k].kind = "new" /\ log[d][k].id = chat[c][j].origin
    BY <1>1, <2>1, <2>3 DEF FromTheLog
  <2>5. k \in 1..Len(log[d]) /\ k <= n
    BY <2>4 DEF Read
  <2>6. CASE k = n
    BY <1>2, <2>2, <2>4, <2>6 DEF TypeOK
  <2>7. CASE k < n
    <3>1. InOrder(log[d][k], log[d][n])
      BY <2>2, <2>5, <2>7 DEF Story, LogsInOrder
    <3>2. log[d][k] \in Update /\ log[d][n] \in Update
      BY <2>2, <2>5 DEF TypeOK
    <3>3. log[d][k].id < log[d][n].id
      BY <2>2, <2>4, <3>1 DEF InOrder
    <3>4. log[d][k].id \in Nat /\ log[d][n].id \in Nat
      BY <3>2 DEF Update
    <3> HIDE DEF o, n
    <3> QED
      BY <2>2, <2>4, <3>3, <3>4
  <2> QED
    BY <2>2, <2>5, <2>6, <2>7
<1>6. r # 0 => r \in Promise!Counterparts(c, asked)
  BY <1>1, <1>2 DEF Promise!Counterparts, Counterparts
<1>7. r \in 0..Len(chat[c])
  <2>1. Len(chat[c]) \in Nat
    BY <1>1 DEF TypeOK
  <2> QED
    BY <1>2, <2>1 DEF Counterparts
<1>8. Removed' = Removed
  <2>1. NewUpdate(Copy(d), Len(chat[c]) + 1) \in Update
    BY <1>1, <1>3, UpdateTypes DEF TypeOK
  <2>2. NewUpdate(Copy(d), Len(chat[c]) + 1).ids = {}
    BY DEF NewUpdate
  <2> QED
    BY <1>1, <2>1, <2>2, RemovedStays DEF Copied, Added
<1>9. Promise!Add(c, [from |-> active, text |-> 1, reply |-> r, origin |-> o,
                      alive |-> TRUE])
  <2>1. Copy(d) = [from |-> active, text |-> 1, reply |-> r, origin |-> o,
                   alive |-> TRUE]
    BY <1>3 DEF Copy
  <2> QED
    BY <1>8, <2>1 DEF Copied, Added, Append1, Promise!Add
<1>10. o \notin Promise!Copies(d)
  BY <1>4 DEF Promise!Copies
<1> QED
  BY <1>1, <1>2, <1>5, <1>6, <1>7, <1>9, <1>10 DEF Promise!Relay

LEMMA FollowRefines ==
    ASSUME IInv, Story, NEW d \in Chats, NEW i \in 1..Len(chat[Target(d)]),
           Followed(d, i)
    PROVE  Promise!Follow(Target(d), i)
<1> USE DEF IInv, TypeInv
<1> DEFINE c == Target(d)
           t == Current(d).text
           m == [chat[c][i] EXCEPT !.text = t]
<1>1. c \in Chats /\ Target(c) = d
  BY RoutingIsSymmetric
<1>2. /\ d \in Busy /\ Current(d).kind = "edit" /\ Current(d).id = chat[c][i].origin
      /\ chat[c][i].origin # 0 /\ IsAlive(c, i) /\ chat[c][i].text < t
      /\ t \in Nat /\ chat' = [chat EXCEPT ![c][i] = m]
      /\ log' = Append1(log, c, EditUpdate(m, i))
  BY DEF Followed, Edited
<1>3. chat[c][i] \in Message
  BY <1>1, MessageType
<1>4. Removed' = Removed
  <2>1. m \in Message
    BY <1>2, <1>3, MessageSteps
  <2>2. EditUpdate(m, i) \in Update /\ EditUpdate(m, i).ids = {}
    <3>1. i \in Nat
      BY <1>1 DEF TypeOK
    <3> HIDE DEF m
    <3>2. EditUpdate(m, i) \in Update
      BY <2>1, <3>1, UpdateTypes
    <3>3. EditUpdate(m, i).ids = {}
      BY DEF EditUpdate
    <3> QED
      BY <3>2, <3>3
  <2> QED
    BY <1>1, <1>2, <2>2, RemovedStays
<1>5. t <= chat[d][chat[c][i].origin].text
  <2>1. pts[active][d] + 1 \in 1..Len(log[d])
    BY <1>2 DEF BusyPending, Pending, TypeOK
  <2>2. Tells(d, pts[active][d] + 1)
    BY <2>1 DEF Story, LogsTell
  <2> QED
    BY <1>2, <2>2 DEF Tells, Current
<1>6. chat[d][chat[c][i].origin].text \in Nat
  <2>1. chat[c][i].origin \in 1..Len(chat[d])
    BY <1>2, BusyUpdate DEF Describes
  <2> QED
    BY <2>1, MessageType DEF Message
<1>7. t \in (chat[c][i].text + 1)..chat[d][chat[c][i].origin].text
  BY <1>2, <1>3, <1>5, <1>6 DEF Message
<1>8. chat' = [chat EXCEPT ![c][i].text = t]
  BY <1>2
<1>9. Promise!Shown(c, i) /\ i \in Promise!Copies(c)
  BY <1>2 DEF Promise!Shown, Promise!Copies, IsAlive
<1> HIDE DEF t
<1> QED
  BY <1>1, <1>4, <1>7, <1>8, <1>9 DEF Promise!Follow

LEMMA WithdrawRefines ==
    ASSUME IInv, NEW d \in Chats, NEW i \in 1..Len(chat[Target(d)]), Withdrew(d, i)
    PROVE  Promise!Withdraw(Target(d), i)
<1> USE DEF IInv, TypeInv
<1> DEFINE c == Target(d)
<1>1. c \in Chats /\ Target(c) = d /\ chat[c] \in Seq(Message)
  BY RoutingIsSymmetric DEF TypeOK
<1>2. DeleteUpdate({i}, active) \in Update /\ DeleteUpdate({i}, active).from # User
  <2>1. active \in Accounts /\ {i} \in SUBSET Nat
    BY DEF TypeOK
  <2> QED
    BY <2>1, DeleteUpdateType, RelayAssumption DEF DeleteUpdate
<1>3. Removed' = Removed
  BY <1>1, <1>2, RemovedStays DEF Withdrew, Deleted
<1>4. [j \in DOMAIN chat[c] |-> IF j \in {i} THEN [chat[c][j] EXCEPT !.alive = FALSE]
                                           ELSE chat[c][j]]
      = [chat[c] EXCEPT ![i].alive = FALSE]
  BY <1>1
<1>5. chat' = [chat EXCEPT ![c] = [j \in DOMAIN chat[c] |->
                  IF j \in {i} THEN [chat[c][j] EXCEPT !.alive = FALSE]
                               ELSE chat[c][j]]]
  BY DEF Withdrew, Deleted
<1>6. chat' = [chat EXCEPT ![c][i].alive = FALSE]
  BY <1>4, <1>5
<1> QED
  BY <1>1, <1>3, <1>6 DEF Withdrew, IsAlive, Promise!Withdraw, Promise!Shown,
                          Promise!Copies

LEMMA EffectRefines ==
    ASSUME SingleAccount, IInv, Story, Effect
    PROVE  Promise!Next \/ UNCHANGED <<chat, Removed>>
<1>1. CASE UNCHANGED <<chat, log>>
  BY <1>1 DEF Removed
<1>2. ASSUME NEW c \in Chats, NEW r \in 0..Len(chat[c]), Writes(c, r)
      PROVE  Promise!Next
  BY <1>2, WriteRefines DEF Promise!Next
<1>3. ASSUME NEW c \in Chats, NEW i \in 1..Len(chat[c]), Revises(c, i)
      PROVE  Promise!Next
  BY <1>3, ReviseRefines DEF Promise!Next
<1>4. ASSUME NEW c \in Chats, NEW ids \in SUBSET (1..Len(chat[c])), Removes(c, ids)
      PROVE  Promise!Next
  BY <1>4, RemoveRefines DEF Promise!Next
<1>5. \A d \in Chats : Target(d) \in Chats
  BY RoutingIsSymmetric
<1>6. ASSUME NEW d \in Chats, Copied(d)
      PROVE  Promise!Next
  <2>1. active \in Accounts
    BY DEF IInv, TypeInv, TypeOK
  <2> QED
    BY <1>5, <1>6, <2>1, CopyRefines DEF Promise!Next
<1>7. ASSUME NEW d \in Chats, NEW i \in 1..Len(chat[Target(d)]),
             Followed(d, i) \/ Withdrew(d, i)
      PROVE  Promise!Next
  BY <1>5, <1>7, FollowRefines, WithdrawRefines DEF Promise!Next
<1> QED
  BY <1>1, <1>2, <1>3, <1>4, <1>6, <1>7 DEF Effect

\* With a single account the relay implements Mirroring, whatever fails and
\* whenever its sessions end: copies appear in order and reply to counterparts,
\* they follow their source forwards, and disappear only when their source is
\* deleted or members delete them.
THEOREM RelayImplementsMirroring == SingleAccount => (Spec => ImplementsMirroring)
<1> SUFFICES ASSUME SingleAccount
             PROVE  Spec => ImplementsMirroring
  OBVIOUS
<1>1. Init => IInv /\ Story
  BY IInvInit, StoryInit
<1>2. IInv /\ Story /\ [Next]_vars => (IInv /\ Story)'
  BY IInvStep, StoryStep
<1>3. Init => Promise!Init
  <2> SUFFICES ASSUME Init
               PROVE  Promise!Init
    OBVIOUS
  <2>1. \A c \in Chats : Len(log[c]) = 0
    BY DEF Init
  <2>2. \A c \in Chats : Removed[c] = {}
    BY <2>1 DEF Removed
  <2>3. Removed = [c \in Chats |-> {}]
    BY <2>2 DEF Removed
  <2> QED
    BY <2>3 DEF Init, Promise!Init
<1>4. IInv /\ Story /\ [Next]_vars => [Promise!Next]_<<chat, Removed>>
  BY Effects, EffectRefines
<1> QED
  BY <1>1, <1>2, <1>3, <1>4, PTL DEF Spec, ImplementsMirroring, Promise!Spec

\* With a single account copies only move forward (CopiesMoveForward): no edit
\* that is retried, delayed or delivered again brings an older text back.
THEOREM CopiesOnlyMoveForward == SingleAccount => (Spec => CopiesMoveForward)
<1> SUFFICES ASSUME SingleAccount
             PROVE  Spec => CopiesMoveForward
  OBVIOUS
<1>1. Init => IInv /\ Story
  BY IInvInit, StoryInit
<1>2. IInv /\ Story /\ [Next]_vars => (IInv /\ Story)'
  BY IInvStep, StoryStep
<1>3. IInv /\ Story /\ [Next]_vars =>
          [\A c \in Chats : \A i \in 1..Len(chat[c]) :
              /\ chat'[c][i].text >= chat[c][i].text
              /\ chat'[c][i].alive => chat[c][i].alive]_vars
  BY Effects, Forward
<1> QED
  BY <1>1, <1>2, <1>3, PTL DEF Spec, CopiesMoveForward

LEMMA CopiesInOrderStep ==
    ASSUME SingleAccount, IInv, Story, CopiesInOrder, [Next]_vars
    PROVE  CopiesInOrder'
<1> USE DEF IInv, TypeInv
<1> SUFFICES ASSUME NEW c \in Chats, NEW i \in 1..Len(chat'[c]),
                    NEW j \in 1..Len(chat'[c]), i < j,
                    chat'[c][i].origin # 0, chat'[c][j].origin # 0
             PROVE  chat'[c][i].origin <= chat'[c][j].origin
  BY DEF CopiesInOrder, IsMirror
<1>1. ChatGrowth(c) /\ Len(chat[c]) \in Nat /\ Len(chat'[c]) \in Nat
  BY ChatsGrow, Lengths
<1>2. CASE j \in 1..Len(chat[c])
  <2>1. i \in 1..Len(chat[c])
    BY <1>1, <1>2
  <2>2. /\ chat'[c][i].origin = chat[c][i].origin
        /\ chat'[c][j].origin = chat[c][j].origin
    BY <1>1, <1>2, <2>1 DEF ChatGrowth, SameMessage
  <2> QED
    BY <1>2, <2>1, <2>2 DEF CopiesInOrder, IsMirror
<1>3. CASE j > Len(chat[c])
  <2> DEFINE d == Target(c)
  <2>1. Copied(d) /\ chat'[c][j] = Copy(d) /\ d \in Chats /\ Target(d) = c
    BY <1>3, NewFrom, RoutingIsSymmetric
  <2>2. i \in 1..Len(chat[c])
    BY <1>1, <1>3, <2>1, AddedShape DEF Copied
  <2>3. chat'[c][i].origin = chat[c][i].origin
    BY <1>1, <2>2 DEF ChatGrowth, SameMessage
  <2>4. i \in Promise!Copies(c)
    BY <2>2, <2>3 DEF Promise!Copies
  <2> QED
    BY <2>1, <2>3, <2>4, CopyRefines DEF Promise!Relay
<1> QED
  BY <1>1, <1>2, <1>3

\* With a single account copies stand in the order of their sources
\* (CopiesInOrder), whatever was retried, lost or delivered again.
THEOREM CopiesStandInOrder == SingleAccount => (Spec => []CopiesInOrder)
<1> SUFFICES ASSUME SingleAccount
             PROVE  Spec => []CopiesInOrder
  OBVIOUS
<1>1. Init => IInv /\ Story /\ CopiesInOrder
  <2>1. Init => CopiesInOrder
    BY DEF Init, CopiesInOrder
  <2> QED
    BY <2>1, IInvInit, StoryInit
<1>2. IInv /\ Story /\ CopiesInOrder /\ [Next]_vars => (IInv /\ Story /\ CopiesInOrder)'
  BY CopiesInOrderStep, IInvStep, StoryStep
<1> QED
  BY <1>1, <1>2, PTL DEF Spec
==============================================================================
