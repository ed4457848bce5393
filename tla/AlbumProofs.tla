----------------------------- MODULE AlbumProofs -----------------------------
(***************************************************************************)
(* No item of an album is relayed twice, for any album and any timing.     *)
(***************************************************************************)
EXTENDS Album, TLAPS

Contents(b) == buffers[b].items

\* The buffers that a flush may still hand to OnAlbum.
Live == {b \in DOMAIN buffers :
            b = albums \/ b \in taken \/ (handler.at = "emit" /\ b = handler.buf)}

\* A live buffer is in one place only.
InOnePlace ==
    /\ albums \notin taken
    /\ handler.at = "emit" =>
          handler.buf \notin taken /\ handler.buf # albums

\* An item that joins a buffer was in none before, and in no event.
NewItem ==
    /\ handler.item \subseteq arrived
    /\ handler.at = "append" =>
          /\ handler.buf \in DOMAIN buffers
          /\ \A b \in DOMAIN buffers : handler.item \cap Contents(b) = {}
          /\ \A e \in DOMAIN events : handler.item \cap events[e] = {}
    /\ handler.at \in {"limit", "emit"} => handler.buf \in DOMAIN buffers

\* What buffers and events hold has arrived, buffers are disjoint, and a live
\* buffer holds nothing that was relayed.
Contained ==
    /\ \A b \in DOMAIN buffers : Contents(b) \subseteq arrived
    /\ \A e \in DOMAIN events : events[e] \subseteq arrived
    /\ \A b, d \in DOMAIN buffers : b # d => Contents(b) \cap Contents(d) = {}
    /\ \A b \in Live : \A e \in DOMAIN events : events[e] \cap Contents(b) = {}

IInv == TypeOK /\ InOnePlace /\ NewItem /\ Contained /\ RelayedOnce

USE DEF Contents

LEMMA Domains ==
    ASSUME TypeOK
    PROVE  /\ Len(buffers) \in Nat /\ DOMAIN buffers = 1..Len(buffers)
           /\ Len(events) \in Nat /\ DOMAIN events = 1..Len(events)
           /\ \A b \in DOMAIN buffers : buffers[b] \in Buffer
           /\ \A e \in DOMAIN events : events[e] \in SUBSET Items
BY DEF TypeOK

LEMMA IdleHandler ==
    Idle \in Handler /\ Idle.at = "idle" /\ Idle.item = {}
BY DEF Idle, Handler

LEMMA HandlerStep ==
    ASSUME NEW h \in Handler, NEW s \in {"limit", "flush"}, NEW g,
           g = [h EXCEPT !.at = s]
    PROVE  g \in Handler /\ g.at = s /\ g.item = h.item /\ g.buf = h.buf
BY DEF Handler

\* A change of a buffer that keeps what it holds.
LEMMA SameContents ==
    ASSUME IInv, NEW b \in DOMAIN buffers, NEW t \in {"none", "armed", "off"},
           buffers' = [buffers EXCEPT ![b].timer = t]
    PROVE  /\ buffers' \in Seq(Buffer) /\ Len(buffers') = Len(buffers)
           /\ DOMAIN buffers' = DOMAIN buffers
           /\ \A d \in DOMAIN buffers : Contents(d)' = Contents(d)
<1>1. buffers[b] \in Buffer /\ buffers \in Seq(Buffer)
  BY DEF IInv, TypeOK
<1>2. /\ [buffers[b] EXCEPT !.timer = t] \in Buffer
      /\ [buffers[b] EXCEPT !.timer = t].items = buffers[b].items
  BY <1>1 DEF Buffer
<1>3. buffers' = [buffers EXCEPT ![b] = [buffers[b] EXCEPT !.timer = t]]
  OBVIOUS
<1> DEFINE x == [buffers[b] EXCEPT !.timer = t]
<1> HIDE DEF x
<1> QED
  BY <1>1, <1>2, <1>3 DEF x

\* Handing a live buffer to OnAlbum.
LEMMA EmitStep ==
    ASSUME IInv, NEW b \in Live, Emit(b), UNCHANGED <<buffers, arrived>>
    PROVE  /\ events' \in Seq(SUBSET Items)
           /\ RelayedOnce'
           /\ \A e \in DOMAIN events' : events'[e] \subseteq arrived
           /\ \A d \in Live : d # b =>
                 \A e \in DOMAIN events' : events'[e] \cap Contents(d) = {}
<1>1. b \in DOMAIN buffers /\ buffers[b] \in Buffer /\ events \in Seq(SUBSET Items)
  BY DEF Live, IInv, TypeOK
<1>2. Contents(b) \in SUBSET Items /\ Contents(b) \subseteq arrived
  BY <1>1 DEF IInv, Contained, Buffer
<1>3. \A e \in DOMAIN events : events[e] \cap Contents(b) = {}
  BY DEF IInv, Contained
<1>4. \A d \in Live : d # b => Contents(b) \cap Contents(d) = {}
  BY <1>1 DEF Live, IInv, Contained
<1>5. CASE events' = events
  BY <1>1, <1>5 DEF IInv, RelayedOnce, Contained
<1>6. CASE events' = Append(events, Contents(b))
  <2>1. events' \in Seq(SUBSET Items) /\ Len(events) \in Nat
    BY <1>1, <1>2, <1>6
  <2>2. DOMAIN events = 1..Len(events) /\ DOMAIN events' = 1..(Len(events) + 1)
    BY <1>1, <1>2, <1>6
  <2>3. /\ \A e \in DOMAIN events : events'[e] = events[e]
        /\ events'[Len(events) + 1] = Contents(b)
    BY <1>1, <1>2, <1>6
  <2>4. \A e \in DOMAIN events' : e \in DOMAIN events \/ e = Len(events) + 1
    BY <2>1, <2>2
  <2>5. RelayedOnce'
    BY <1>3, <2>3, <2>4 DEF RelayedOnce, IInv
  <2> QED
    BY <1>2, <1>4, <2>1, <2>3, <2>4, <2>5 DEF IInv, Contained
<1> QED
  BY <1>5, <1>6 DEF Emit
------------------------------------------------------------------------------
LEMMA ArriveStep ==
    ASSUME IInv, NEW i \in Items, Arrive(i)
    PROVE  IInv'
<1> DEFINE empty == [items |-> {}, timer |-> "none"]
<1>1. /\ i \notin arrived /\ arrived' = arrived \cup {i}
      /\ handler' = [at |-> "append", item |-> {i}, buf |-> albums']
      /\ UNCHANGED <<fired, taken, events, early>>
  BY DEF Arrive
<1>2. /\ buffers' \in Seq(Buffer) /\ Len(buffers') \in Nat
      /\ DOMAIN buffers \subseteq DOMAIN buffers'
      /\ Len(buffers) <= Len(buffers')
      /\ \A b \in DOMAIN buffers : Contents(b)' = Contents(b)
      /\ \A b \in DOMAIN buffers' : b \notin DOMAIN buffers =>
            b = albums' /\ Contents(b)' = {}
      /\ albums' \in 1..Len(buffers') /\ albums' \notin taken
      /\ albums' \in DOMAIN buffers => albums' = albums
  <2>1. buffers \in Seq(Buffer) /\ Len(buffers) \in Nat /\ albums \in 0..Len(buffers)
    BY DEF IInv, TypeOK
  <2>2. CASE albums # 0 /\ UNCHANGED <<albums, buffers>>
    BY <2>1, <2>2 DEF IInv, InOnePlace
  <2>3. CASE albums = 0 /\ buffers' = Append(buffers, empty)
                        /\ albums' = Len(buffers')
    <3>1. empty \in Buffer /\ empty.items = {}
      BY DEF Buffer
    <3> HIDE DEF empty
    <3>2. /\ buffers' \in Seq(Buffer) /\ Len(buffers') = Len(buffers) + 1
          /\ \A b \in DOMAIN buffers : buffers'[b] = buffers[b]
          /\ buffers'[Len(buffers) + 1] = empty
          /\ DOMAIN buffers = 1..Len(buffers)
          /\ DOMAIN buffers' = 1..(Len(buffers) + 1)
      BY <2>1, <2>3, <3>1
    <3>3. taken \subseteq 1..Len(buffers)
      BY DEF IInv, TypeOK
    <3> QED
      BY <2>1, <2>3, <3>1, <3>2, <3>3
  <2> QED
    BY <2>2, <2>3 DEF Arrive
<1>3. TypeOK'
  <2>1. handler' \in Handler
    BY <1>1, <1>2 DEF Handler
  <2>2. taken \in SUBSET (1..Len(buffers')) /\ albums' \in 0..Len(buffers')
    BY <1>2, Domains DEF IInv, TypeOK
  <2> QED
    BY <1>1, <1>2, <2>1, <2>2 DEF IInv, TypeOK
<1>4. InOnePlace' /\ RelayedOnce'
  BY <1>1, <1>2 DEF IInv, InOnePlace, RelayedOnce
<1>5. \A b \in DOMAIN buffers' : Contents(b)' \subseteq arrived
  BY <1>2 DEF IInv, Contained
<1>6. NewItem'
  <2>1. albums' \in DOMAIN buffers'
    BY <1>2
  <2>2. \A e \in DOMAIN events : {i} \cap events[e] = {}
    BY <1>1 DEF IInv, Contained
  <2> QED
    BY <1>1, <1>5, <2>1, <2>2 DEF NewItem
<1>7. Contained'
  <2>1. \A b, d \in DOMAIN buffers' : b # d =>
            Contents(b)' \cap Contents(d)' = {}
    BY <1>2 DEF IInv, Contained
  <2>2. \A b \in Live' : Contents(b)' = {} \/ b \in Live
    BY <1>1, <1>2 DEF Live
  <2>3. \A b \in Live' : \A e \in DOMAIN events :
            events[e] \cap Contents(b)' = {}
    BY <1>2, <2>2 DEF IInv, Contained, Live
  <2> QED
    BY <1>1, <1>5, <2>1, <2>3 DEF IInv, Contained
<1> QED
  BY <1>3, <1>4, <1>6, <1>7 DEF IInv

LEMMA AppendStep ==
    ASSUME IInv, AppendItem
    PROVE  IInv'
<1> DEFINE b   == handler.buf
           all == Contents(b) \cup handler.item
           new == [items |-> all, timer |-> "armed"]
<1>1. /\ handler.at = "append" /\ buffers' = [buffers EXCEPT ![b] = new]
      /\ handler' \in {[handler EXCEPT !.at = "limit"], Idle}
      /\ UNCHANGED <<arrived, albums, fired, taken, events, early>>
  BY DEF AppendItem
<1>2. /\ b \in DOMAIN buffers /\ buffers \in Seq(Buffer)
      /\ buffers[b] \in Buffer /\ handler \in Handler
  BY <1>1 DEF IInv, TypeOK, NewItem
<1>3. all \in SUBSET Items /\ all \subseteq arrived
  BY <1>2 DEF Buffer, Handler, IInv, NewItem, Contained
<1>4. new \in Buffer /\ new.items = all
  BY <1>3 DEF Buffer
<1>5. /\ buffers' \in Seq(Buffer) /\ DOMAIN buffers' = DOMAIN buffers
      /\ Len(buffers') = Len(buffers)
      /\ \A d \in DOMAIN buffers :
            Contents(d)' = IF d = b THEN all ELSE Contents(d)
  <2>1. ASSUME NEW x \in Buffer, NEW n \in DOMAIN buffers,
               buffers' = [buffers EXCEPT ![n] = x]
        PROVE  /\ buffers' \in Seq(Buffer) /\ DOMAIN buffers' = DOMAIN buffers
               /\ Len(buffers') = Len(buffers)
               /\ \A d \in DOMAIN buffers :
                     buffers'[d] = IF d = n THEN x ELSE buffers[d]
    BY <1>2, <2>1
  <2> HIDE DEF new, b, all
  <2>2. /\ buffers' \in Seq(Buffer) /\ DOMAIN buffers' = DOMAIN buffers
        /\ Len(buffers') = Len(buffers)
        /\ \A d \in DOMAIN buffers :
              buffers'[d] = IF d = b THEN new ELSE buffers[d]
    BY <1>1, <1>2, <1>4, <2>1
  <2> QED
    BY <1>4, <2>2
<1> HIDE DEF new
<1>6. /\ handler' \in Handler /\ handler'.at \in {"limit", "idle"}
      /\ handler'.item \subseteq arrived
      /\ handler'.at = "limit" => handler'.buf = b
  <2>1. handler.item \subseteq arrived
    BY DEF IInv, NewItem
  <2> QED
    BY <1>1, <1>2, <2>1, HandlerStep, IdleHandler
<1>7. TypeOK'
  BY <1>1, <1>5, <1>6 DEF IInv, TypeOK
<1>8. InOnePlace' /\ NewItem' /\ RelayedOnce'
  <2> HIDE DEF b, all
  <2>1. handler'.at \notin {"append", "emit"}
    BY <1>6
  <2>2. handler'.at = "limit" => handler'.buf \in DOMAIN buffers'
    BY <1>2, <1>5, <1>6
  <2>3. InOnePlace' /\ RelayedOnce'
    BY <1>1, <2>1 DEF IInv, InOnePlace, RelayedOnce
  <2>4. NewItem'
    BY <1>1, <1>6, <2>1, <2>2 DEF NewItem
  <2> QED
    BY <2>3, <2>4
<1>9. Contained'
  <2>1. \A d \in DOMAIN buffers : handler.item \cap Contents(d) = {}
    BY <1>1 DEF IInv, NewItem
  <2>2. \A e \in DOMAIN events : handler.item \cap events[e] = {}
    BY <1>1 DEF IInv, NewItem
  <2>3. \A d \in DOMAIN buffers' : Contents(d)' \subseteq arrived
    BY <1>3, <1>5 DEF IInv, Contained
  <2>4. \A d, x \in DOMAIN buffers' : d # x =>
            Contents(d)' \cap Contents(x)' = {}
    BY <1>2, <1>5, <2>1 DEF IInv, Contained
  <2>5. Live' \subseteq Live
    BY <1>1, <1>5, <1>6 DEF Live
  <2>6. \A d \in Live' : \A e \in DOMAIN events :
            events[e] \cap Contents(d)' = {}
    BY <1>5, <2>2, <2>5 DEF IInv, Contained, Live
  <2> QED
    BY <1>1, <2>3, <2>4, <2>6 DEF IInv, Contained
<1> QED
  BY <1>7, <1>8, <1>9 DEF IInv

LEMMA StopTimerStep ==
    ASSUME IInv, StopTimer
    PROVE  IInv'
<1>1. /\ handler.at = "limit" /\ handler.buf \in DOMAIN buffers
      /\ handler' \in {[handler EXCEPT !.at = "flush"], Idle}
      /\ UNCHANGED <<arrived, albums, fired, taken, events, early>>
  BY DEF StopTimer, IInv, NewItem
<1>2. /\ buffers' \in Seq(Buffer) /\ Len(buffers') = Len(buffers)
      /\ DOMAIN buffers' = DOMAIN buffers
      /\ \A d \in DOMAIN buffers : Contents(d)' = Contents(d)
  BY <1>1, SameContents DEF StopTimer, IInv, TypeOK
<1>3. /\ handler' \in Handler /\ handler'.at \in {"flush", "idle"}
      /\ handler'.item \subseteq arrived
  <2>1. handler \in Handler /\ handler.item \subseteq arrived
    BY DEF IInv, TypeOK, NewItem
  <2> QED
    BY <1>1, <2>1, HandlerStep, IdleHandler
<1>4. TypeOK'
  BY <1>1, <1>2, <1>3 DEF IInv, TypeOK
<1>5. InOnePlace' /\ NewItem' /\ RelayedOnce'
  BY <1>1, <1>3 DEF IInv, InOnePlace, NewItem, RelayedOnce
<1>6. Live' = Live
  BY <1>1, <1>2, <1>3 DEF Live
<1>7. Contained'
  BY <1>1, <1>2, <1>6 DEF IInv, Contained, Live
<1> QED
  BY <1>4, <1>5, <1>7 DEF IInv

LEMMA TakeNowStep ==
    ASSUME IInv, TakeNow
    PROVE  IInv'
<1>1. /\ handler.at = "flush" /\ albums' = 0
      /\ handler' = IF albums = 0 THEN Idle
                    ELSE [handler EXCEPT !.at = "emit", !.buf = albums]
      /\ UNCHANGED <<arrived, buffers, fired, taken, events, early>>
  BY DEF TakeNow
<1>2. handler \in Handler /\ albums \in 0..Len(buffers) /\ Len(buffers) \in Nat
  BY Domains DEF IInv, TypeOK
<1>3. /\ handler' \in Handler /\ handler'.item \subseteq arrived
      /\ \/ albums = 0 /\ handler'.at = "idle"
         \/ albums # 0 /\ handler'.at = "emit" /\ handler'.buf = albums
  <2>1. handler.item \subseteq arrived /\ albums \in Nat
    BY <1>2 DEF IInv, NewItem
  <2>2. CASE albums = 0
    BY <1>1, <2>2, IdleHandler
  <2>3. CASE albums # 0
    <3>1. handler' = [handler EXCEPT !.at = "emit", !.buf = albums]
      BY <1>1, <2>3
    <3>2. /\ handler' \in Handler /\ handler'.at = "emit"
          /\ handler'.item = handler.item /\ handler'.buf = albums
      BY <1>2, <2>1, <3>1 DEF Handler
    <3> QED
      BY <2>1, <2>3, <3>2
  <2> QED
    BY <2>2, <2>3
<1>4. 0 \notin taken /\ DOMAIN buffers = 1..Len(buffers)
  BY Domains DEF IInv, TypeOK
<1>5. TypeOK'
  BY <1>1, <1>2, <1>3 DEF IInv, TypeOK
<1>6. InOnePlace' /\ NewItem' /\ RelayedOnce'
  BY <1>1, <1>2, <1>3, <1>4 DEF IInv, InOnePlace, NewItem, RelayedOnce
<1>7. Live' = Live
  BY <1>1, <1>3, <1>4 DEF Live
<1>8. Contained'
  BY <1>1, <1>7 DEF IInv, Contained
<1> QED
  BY <1>5, <1>6, <1>8 DEF IInv

LEMMA EmitNowStep ==
    ASSUME IInv, EmitNow
    PROVE  IInv'
<1>1. /\ handler.at = "emit" /\ Emit(handler.buf) /\ handler' = Idle
      /\ UNCHANGED <<arrived, albums, buffers, fired, taken, early>>
  BY DEF EmitNow
<1>2. handler.buf \in Live
  BY <1>1 DEF Live, IInv, NewItem
<1>3. Live' \subseteq Live /\ handler.buf \notin Live'
  BY <1>1 DEF Live, Idle, IInv, InOnePlace
<1>4. TypeOK'
  BY <1>1, <1>2, EmitStep DEF IInv, TypeOK, Idle, Handler
<1>5. InOnePlace' /\ NewItem'
  BY <1>1 DEF IInv, InOnePlace, NewItem, Idle
<1>6. Contained' /\ RelayedOnce'
  BY <1>1, <1>2, <1>3, EmitStep DEF IInv, Contained
<1> QED
  BY <1>4, <1>5, <1>6 DEF IInv

LEMMA FireStep ==
    ASSUME IInv, NEW b \in DOMAIN buffers, Fire(b)
    PROVE  IInv'
<1>1. UNCHANGED <<arrived, handler, albums, taken, events>>
  BY DEF Fire
<1>2. /\ buffers' \in Seq(Buffer) /\ Len(buffers') = Len(buffers)
      /\ DOMAIN buffers' = DOMAIN buffers
      /\ \A d \in DOMAIN buffers : Contents(d)' = Contents(d)
  BY SameContents DEF Fire
<1>3. fired' \in Nat /\ early' \in BOOLEAN
  BY DEF Fire, IInv, TypeOK
<1>4. TypeOK'
  BY <1>1, <1>2, <1>3 DEF IInv, TypeOK
<1>5. InOnePlace' /\ NewItem' /\ RelayedOnce' /\ Live' = Live
  BY <1>1, <1>2 DEF IInv, InOnePlace, NewItem, RelayedOnce, Live
<1>6. Contained'
  BY <1>1, <1>2, <1>5 DEF IInv, Contained, Live
<1> QED
  BY <1>4, <1>5, <1>6 DEF IInv

LEMMA TakeStep ==
    ASSUME IInv, Take
    PROVE  IInv'
<1>1. /\ fired > 0 /\ fired' = fired - 1 /\ albums' = 0
      /\ taken' = IF albums = 0 THEN taken ELSE taken \cup {albums}
      /\ UNCHANGED <<arrived, handler, buffers, events, early>>
  BY DEF Take
<1>2. albums \in 0..Len(buffers) /\ Len(buffers) \in Nat /\ 0 \notin taken
      /\ DOMAIN buffers = 1..Len(buffers)
  BY Domains DEF IInv, TypeOK
<1>3. TypeOK'
  BY <1>1, <1>2 DEF IInv, TypeOK
<1>4. InOnePlace' /\ NewItem' /\ RelayedOnce'
  BY <1>1, <1>2 DEF IInv, InOnePlace, NewItem, RelayedOnce
<1>5. Live' = Live
  BY <1>1, <1>2 DEF Live
<1>6. Contained'
  BY <1>1, <1>5 DEF IInv, Contained
<1> QED
  BY <1>3, <1>4, <1>6 DEF IInv

LEMMA EmitTakenStep ==
    ASSUME IInv, NEW b \in taken, EmitTaken(b)
    PROVE  IInv'
<1>1. /\ Emit(b) /\ taken' = taken \ {b}
      /\ UNCHANGED <<arrived, handler, albums, buffers, fired, early>>
  BY DEF EmitTaken
<1>2. b \in Live
  BY Domains DEF Live, IInv, TypeOK
<1>3. Live' \subseteq Live /\ b \notin Live'
  BY <1>1 DEF Live, IInv, InOnePlace
<1>4. TypeOK'
  BY <1>1, <1>2, EmitStep DEF IInv, TypeOK
<1>5. InOnePlace'
  BY <1>1 DEF IInv, InOnePlace
<1>6. Contained' /\ RelayedOnce'
  BY <1>1, <1>2, <1>3, EmitStep DEF IInv, Contained
<1>7. NewItem'
  <2>1. \A e \in DOMAIN events' :
            \/ e \in DOMAIN events /\ events'[e] = events[e]
            \/ events'[e] = Contents(b)
    <3>1. Contents(b) \in SUBSET Items /\ events \in Seq(SUBSET Items)
      BY <1>2, Domains DEF Live, IInv, TypeOK, Buffer
    <3>2. events' = events \/ events' = Append(events, Contents(b))
      BY <1>1 DEF Emit
    <3> QED
      BY <3>1, <3>2
  <2> QED
    BY <1>1, <1>2, <2>1 DEF IInv, NewItem, Live
<1> QED
  BY <1>4, <1>5, <1>6, <1>7 DEF IInv

LEMMA Initially ==
    ASSUME Init
    PROVE  IInv
<1>1. TypeOK
  <2>1. \A S : <<>> \in Seq(S) /\ Len(<<>>) = 0
    OBVIOUS
  <2>2. buffers \in Seq(Buffer) /\ events \in Seq(SUBSET Items)
    BY <2>1 DEF Init
  <2>3. Len(buffers) = 0
    BY <2>1 DEF Init
  <2>4. albums \in 0..Len(buffers) /\ taken \in SUBSET (1..Len(buffers))
    BY <2>3 DEF Init
  <2>5. /\ arrived \in SUBSET Items /\ handler \in Handler
        /\ fired \in Nat /\ early \in BOOLEAN
    BY IdleHandler DEF Init
  <2> QED
    BY <2>2, <2>4, <2>5 DEF TypeOK
<1>2. DOMAIN buffers = {} /\ DOMAIN events = {}
  BY DEF Init
<1>3. Contained /\ RelayedOnce
  BY <1>2 DEF Contained, RelayedOnce, Live
<1>4. InOnePlace /\ NewItem
  BY <1>2, IdleHandler DEF Init, InOnePlace, NewItem
<1> QED
  BY <1>1, <1>3, <1>4 DEF IInv

LEMMA Inductive ==
    ASSUME IInv, [Next]_vars
    PROVE  IInv'
<1>1. CASE Next
  BY <1>1, ArriveStep, AppendStep, StopTimerStep, TakeNowStep, EmitNowStep,
     FireStep, TakeStep, EmitTakenStep DEF Next, Handling, Timers
<1>2. CASE UNCHANGED vars
  BY <1>2 DEF vars, IInv, TypeOK, InOnePlace, NewItem, Contained,
              RelayedOnce, Live
<1> QED
  BY <1>1, <1>2

\* The type invariant, for any album, limit and timing: in particular the map
\* and the timers never name a buffer there is not.
THEOREM AlbumTyping == Spec => []TypeOK
<1>1. IInv => TypeOK
  BY DEF IInv
<1> QED
  BY <1>1, Initially, Inductive, PTL DEF Spec

\* No item is relayed twice, whatever the album and the timing (flushAlbum,
\* LoadAndDelete; checked on three items by album_items).
THEOREM EveryItemOnce == Spec => []RelayedOnce
<1>1. IInv => RelayedOnce
  BY DEF IInv
<1> QED
  BY <1>1, Initially, Inductive, PTL DEF Spec
==============================================================================
