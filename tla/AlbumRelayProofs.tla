--------------------------- MODULE AlbumRelayProofs --------------------------
(***************************************************************************)
(* What becomes of an album, for any number of items, any limit and any    *)
(* failures: rows lead to the copies of their own items, nothing but a     *)
(* lost answer makes a second copy, and the deletion of an item of a full  *)
(* album finds its copy.                                                   *)
(***************************************************************************)
EXTENDS AlbumRelay, AlbumProofs, FiniteSetTheorems

(* The sorted items of an album. *)

\* Every item has a place of its own, from the first to the last.
LEMMA Places ==
    ASSUME NEW S, IsFiniteSet(S), S \subseteq Nat
    PROVE  /\ Cardinality(S) \in Nat
           /\ \A i \in S : Place(i, S) \in 1..Cardinality(S)
           /\ \A i, j \in S : Place(i, S) = Place(j, S) => i = j
           /\ \A k \in 1..Cardinality(S) : \E i \in S : Place(i, S) = k
<1> DEFINE upto(i) == {j \in S : j <= i}
           f == [i \in S |-> Place(i, S)]
           n == Cardinality(S)
<1>1. n \in Nat
  BY FS_CardinalityType
<1>2. ASSUME NEW i \in S
      PROVE  IsFiniteSet(upto(i)) /\ Place(i, S) = Cardinality(upto(i))
  BY FS_Subset, upto(i) \in SUBSET S DEF Place
<1>3. ASSUME NEW i \in S
      PROVE  Place(i, S) \in 1..n
  <2>1. Cardinality(upto(i)) \in Nat /\ Cardinality(upto(i)) <= n
    BY <1>2, FS_CardinalityType, FS_Subset, upto(i) \in SUBSET S
  <2>2. i \in upto(i)
    OBVIOUS
  <2>3. Cardinality(upto(i)) # 0
    BY <1>2, <2>2, FS_EmptySet
  <2> QED
    BY <1>1, <1>2, <2>1, <2>3
<1>4. ASSUME NEW i \in S, NEW j \in S, i < j
      PROVE  Place(i, S) # Place(j, S)
  <2>1. upto(i) \in SUBSET upto(j) /\ j \in upto(j) /\ j \notin upto(i)
    <3>1. i \in Nat /\ j \in Nat /\ \A k \in S : k \in Nat
      OBVIOUS
    <3>2. \A k \in S : k <= i => k <= j
      BY <1>4, <3>1
    <3>3. j <= j /\ ~(j <= i)
      BY <1>4, <3>1
    <3> QED
      BY <3>2, <3>3
  <2>2. upto(i) # upto(j)
    BY <2>1
  <2> HIDE DEF upto
  <2> QED
    BY <1>2, <2>1, <2>2, FS_Subset
<1>5. \A i, j \in S : Place(i, S) = Place(j, S) => i = j
  <2>1. \A i, j \in S : i < j \/ j < i \/ i = j
    OBVIOUS
  <2> QED
    BY <1>4, <2>1
<1>6. f \in Injection(S, 1..n)
  BY <1>3, <1>5 DEF Injection, IsInjective
<1>7. IsFiniteSet(1..n) /\ Cardinality(1..n) = n
  BY <1>1, FS_Interval
<1>8. f \in Surjection(S, 1..n)
  <2> HIDE DEF f
  <2> QED
    BY <1>6, <1>7, FS_Injection
<1>9. \A k \in 1..n : \E i \in S : Place(i, S) = k
  BY <1>8 DEF Surjection
<1> QED
  BY <1>1, <1>3, <1>5, <1>9

\* An album is sent with every item once.
LEMMA SortedItems ==
    ASSUME NEW e, events[e] \in SUBSET Items
    PROVE  /\ Cardinality(events[e]) \in Nat
           /\ ItemsOf(e) \in Seq(events[e])
           /\ Len(ItemsOf(e)) = Cardinality(events[e])
           /\ \A k \in 1..Len(ItemsOf(e)) : ItemsOf(e)[k] \in events[e]
           /\ \A i \in events[e] : \E k \in 1..Len(ItemsOf(e)) : ItemsOf(e)[k] = i
           /\ \A k, l \in 1..Len(ItemsOf(e)) : ItemsOf(e)[k] = ItemsOf(e)[l] => k = l
<1> DEFINE S == events[e]
<1>1. IsFiniteSet(S) /\ S \subseteq Nat
  BY FS_Subset, AlbumAssumption, AlbumRelayAssumption
<1> HIDE DEF S
<1>2. ItemsOf(e) = [k \in 1..Cardinality(S) |-> CHOOSE i \in S : Place(i, S) = k]
  BY DEF ItemsOf, S
<1>3. Cardinality(S) \in Nat
  BY <1>1, Places
<1>4. ASSUME NEW k \in 1..Cardinality(S)
      PROVE  ItemsOf(e)[k] \in S /\ Place(ItemsOf(e)[k], S) = k
  <2>1. \E i \in S : Place(i, S) = k
    BY <1>1, Places
  <2>2. ItemsOf(e)[k] = CHOOSE i \in S : Place(i, S) = k
    BY <1>2
  <2> QED
    BY <2>1, <2>2
<1>5. ItemsOf(e) \in Seq(S) /\ Len(ItemsOf(e)) = Cardinality(S)
  BY <1>2, <1>3, <1>4
<1>6. \A i \in S : \E k \in 1..Cardinality(S) : ItemsOf(e)[k] = i
  <2> SUFFICES ASSUME NEW i \in S
               PROVE  \E k \in 1..Cardinality(S) : ItemsOf(e)[k] = i
    OBVIOUS
  <2>1. Place(i, S) \in 1..Cardinality(S)
    BY <1>1, Places
  <2>2. ItemsOf(e)[Place(i, S)] = i
    <3>1. \A j \in S : Place(j, S) = Place(i, S) => j = i
      BY <1>1, Places
    <3> QED
      BY <1>4, <2>1, <3>1
  <2> QED
    BY <2>1, <2>2
<1>7. \A k, l \in 1..Cardinality(S) : ItemsOf(e)[k] = ItemsOf(e)[l] => k = l
  BY <1>4
<1> QED
  BY <1>3, <1>4, <1>5, <1>6, <1>7 DEF S
------------------------------------------------------------------------------
(* Albums as they are handed over. *)

USE DEF Contents

\* The goroutine of the chat works on the buffer in the map, as long as there
\* is one, and hands over a full one; an album that was handed over has items.
FullBuffers ==
    /\ \A e \in DOMAIN events : events[e] # {}
    /\ handler.at \in {"append", "limit", "flush"} => albums \in {0, handler.buf}
    /\ handler.at \in {"limit", "flush", "emit"} =>
           handler.buf \in DOMAIN buffers /\ Contents(handler.buf) = Items

\* The event that is relayed in the goroutine of the chat is a full album.
CallingInv == calling # 0 => calling \in DOMAIN events /\ events[calling] = Items

\* A full buffer holds every item.
LEMMA FullIsAll ==
    ASSUME NEW S \in SUBSET Items, Cardinality(S) >= Limit
    PROVE  S = Items
<1>1. /\ IsFiniteSet(Items) /\ Limit \in Nat /\ Cardinality(Items) <= Limit
  BY AlbumAssumption
<1>2. /\ Cardinality(S) \in Nat /\ Cardinality(Items) \in Nat
      /\ Cardinality(S) <= Cardinality(Items)
  BY <1>1, FS_Subset, FS_CardinalityType
<1>3. Cardinality(S) = Cardinality(Items)
  BY <1>1, <1>2
<1> QED
  BY <1>1, <1>3, FS_Subset

\* Events only grow, by albums that have items.
LEMMA EventsGrow ==
    ASSUME TypeOK, NEW b \in DOMAIN buffers, Emit(b)
    PROVE  /\ \/ events' = events
              \/ events' = Append(events, Contents(b)) /\ Contents(b) # {}
           /\ DOMAIN events \subseteq DOMAIN events'
           /\ \A e \in DOMAIN events : events'[e] = events[e]
           /\ \A e \in DOMAIN events' :
                  \/ e \in DOMAIN events
                  \/ events'[e] = Contents(b) /\ Contents(b) # {}
<1>1. buffers[b] \in Buffer /\ events \in Seq(SUBSET Items)
  BY DEF TypeOK
<1>2. Contents(b) \in SUBSET Items
  BY <1>1 DEF Buffer
<1>3. CASE Contents(b) = {}
  BY <1>3 DEF Emit
<1>4. CASE Contents(b) # {}
  <2>1. events' = Append(events, Contents(b))
    BY <1>4 DEF Emit
  <2> HIDE DEF Contents
  <2> QED
    BY <1>1, <1>2, <1>4, <2>1
<1> QED
  BY <1>3, <1>4

LEMMA FullBuffersStep ==
    ASSUME IInv, FullBuffers, Next
    PROVE  FullBuffers'
<1> USE DEF FullBuffers
<1>0. TypeOK /\ handler \in Handler
  BY DEF IInv, TypeOK
<1>1. ASSUME NEW i \in Items, Arrive(i)
      PROVE  FullBuffers'
  BY <1>1 DEF Arrive
<1>2. CASE AppendItem
  <2> DEFINE b == handler.buf
             all == Contents(b) \cup handler.item
  <2>1. b \in DOMAIN buffers /\ buffers[b] \in Buffer /\ handler.item \in SUBSET Items
    BY <1>0, <1>2 DEF AppendItem, IInv, NewItem, TypeOK, Handler
  <2>2. all \in SUBSET Items
    BY <2>1 DEF Buffer
  <2>3. /\ DOMAIN buffers' = DOMAIN buffers /\ buffers'[b].items = all
        /\ UNCHANGED <<events, albums>>
    BY <1>2, <2>1 DEF AppendItem
  <2>4. CASE handler'.at = "limit"
    <3>1. Cardinality(all) >= Limit
      BY <1>2, <2>4 DEF AppendItem, Idle
    <3>2. all = Items
      BY <2>2, <3>1, FullIsAll
    <3>3. handler'.buf = b /\ albums \in {0, b}
      BY <1>0, <1>2, <2>4 DEF AppendItem, Idle, Handler
    <3> QED
      BY <2>1, <2>3, <2>4, <3>2, <3>3
  <2>5. CASE handler'.at = "idle"
    BY <2>3, <2>5
  <2>6. handler'.at \in {"limit", "idle"}
    BY <1>0, <1>2 DEF AppendItem, Idle, Handler
  <2> QED
    BY <2>4, <2>5, <2>6
<1>3. CASE StopTimer
  <2>1. handler.buf \in DOMAIN buffers /\ handler.at = "limit"
    BY <1>3 DEF StopTimer
  <2>2. CASE handler' = Idle /\ UNCHANGED buffers
    BY <1>3, <2>2 DEF StopTimer, Idle
  <2>3. CASE /\ buffers' = [buffers EXCEPT ![handler.buf].timer = "off"]
             /\ handler' = [handler EXCEPT !.at = "flush"]
    <3>1. /\ DOMAIN buffers' = DOMAIN buffers
          /\ \A d \in DOMAIN buffers : Contents(d)' = Contents(d)
      BY <2>1, <2>3, SameContents
    <3>2. handler'.at = "flush" /\ handler'.buf = handler.buf
      BY <1>0, <2>3, HandlerStep
    <3> QED
      BY <1>3, <2>1, <3>1, <3>2 DEF StopTimer
  <2> QED
    BY <1>3, <2>2, <2>3 DEF StopTimer
<1>4. CASE TakeNow
  <2>1. /\ handler.at = "flush" /\ albums' = 0
        /\ UNCHANGED <<buffers, events>>
    BY <1>4 DEF TakeNow
  <2>2. CASE albums = 0
    BY <1>4, <2>1, <2>2 DEF TakeNow, Idle
  <2>3. CASE albums # 0
    <3>1. handler'.at = "emit" /\ handler'.buf = albums /\ albums = handler.buf
      BY <1>0, <1>4, <2>1, <2>3 DEF TakeNow, Handler
    <3> QED
      BY <2>1, <3>1
  <2> QED
    BY <2>2, <2>3
<1>5. CASE EmitNow
  <2>1. handler' = Idle /\ Emit(handler.buf) /\ handler.buf \in DOMAIN buffers
    BY <1>5 DEF EmitNow
  <2>2. \A e \in DOMAIN events' : events'[e] # {}
    BY <1>0, <2>1, EventsGrow
  <2> QED
    BY <2>1, <2>2 DEF Idle
<1>6. ASSUME NEW b \in DOMAIN buffers, Fire(b)
      PROVE  FullBuffers'
  <2>1. /\ DOMAIN buffers' = DOMAIN buffers
        /\ \A d \in DOMAIN buffers : Contents(d)' = Contents(d)
    BY <1>6, SameContents DEF Fire
  <2> QED
    BY <1>6, <2>1 DEF Fire
<1>7. CASE Take
  BY <1>7 DEF Take
<1>8. ASSUME NEW b \in taken, EmitTaken(b)
      PROVE  FullBuffers'
  <2>1. b \in DOMAIN buffers /\ Emit(b)
    BY <1>0, <1>8, Domains DEF EmitTaken, TypeOK
  <2>2. \A e \in DOMAIN events' : events'[e] # {}
    BY <1>0, <2>1, EventsGrow
  <2> QED
    BY <1>8, <2>2 DEF EmitTaken
<1> QED
  BY <1>1, <1>2, <1>3, <1>4, <1>5, <1>6, <1>7, <1>8 DEF Next, Handling, Timers

\* There are no more events than items: they are disjoint and have items.
LEMMA Disjoint ==
    ASSUME NEW s \in Seq(SUBSET Items), \A e \in DOMAIN s : s[e] # {},
           \A d, e \in DOMAIN s : d # e => s[d] \cap s[e] = {}
    PROVE  DOMAIN s \subseteq Calls
<1> DEFINE n == Len(s)
           first == [e \in 1..n |-> CHOOSE i \in Items : i \in s[e]]
<1>1. /\ n \in Nat /\ DOMAIN s = 1..n
      /\ \A e \in 1..n : s[e] \in SUBSET Items /\ s[e] # {}
  OBVIOUS
<1>2. ASSUME NEW e \in 1..n
      PROVE  first[e] \in Items /\ first[e] \in s[e]
  <2>1. \E i \in Items : i \in s[e]
    BY <1>1
  <2>2. first[e] = CHOOSE i \in Items : i \in s[e]
    OBVIOUS
  <2> HIDE DEF first
  <2> QED
    BY <2>1, <2>2
<1>3. first \in Injection(1..n, Items)
  <2>1. first \in [1..n -> Items] /\ DOMAIN first = 1..n
    BY <1>2
  <2> HIDE DEF first
  <2>2. \A e, d \in 1..n : first[e] = first[d] => e = d
    BY <1>1, <1>2
  <2> QED
    BY <2>1, <2>2 DEF Injection, IsInjective
<1>4. Cardinality(1..n) <= Cardinality(Items)
  BY <1>3, AlbumAssumption, FS_Injection
<1>5. Cardinality(1..n) = n
  <2>1. n \in Nat
    OBVIOUS
  <2> HIDE DEF n
  <2> QED
    BY <2>1, FS_Interval
<1>6. Cardinality(Items) \in Nat
  BY AlbumAssumption, FS_CardinalityType
<1> QED
  BY <1>1, <1>4, <1>5, <1>6 DEF Calls

LEMMA EventsBounded ==
    ASSUME IInv, FullBuffers
    PROVE  DOMAIN events \subseteq Calls
BY Disjoint DEF IInv, TypeOK, RelayedOnce, FullBuffers
------------------------------------------------------------------------------
(* Gathering albums and relaying them. *)

\* Steps of the client, which leave relays alone, and steps of the bridge,
\* which leave the client alone.
LEMMA TwoParts ==
    ASSUME AlbumNext
    PROVE  \/ /\ Next /\ UNCHANGED relayVars
              /\ UNCHANGED calling \/ (EmitNow /\ calling' = Len(events'))
           \/ /\ (\E e \in Calls : OnAlbum(e)) \/ (\E i \in Items : Removal(i))
              /\ UNCHANGED <<vars, calling, resolved>>
BY DEF AlbumNext, Gathering, Next, Handling

LEMMA EventsStep ==
    ASSUME IInv, FullBuffers, Next
    PROVE  /\ DOMAIN events \subseteq DOMAIN events'
           /\ \A e \in DOMAIN events : events'[e] = events[e]
           /\ EmitNow => /\ Len(events') \in DOMAIN events'
                         /\ events'[Len(events')] = Items
<1>1. CASE EmitNow
  <2>1. /\ Emit(handler.buf) /\ handler.buf \in DOMAIN buffers
        /\ Contents(handler.buf) = Items
    BY <1>1 DEF EmitNow, FullBuffers
  <2>2. /\ \/ events' = events
           \/ events' = Append(events, Items)
        /\ DOMAIN events \subseteq DOMAIN events'
        /\ \A e \in DOMAIN events : events'[e] = events[e]
    BY <2>1, EventsGrow DEF IInv
  <2>3. events' = Append(events, Items) /\ events \in Seq(SUBSET Items)
    BY <2>1, AlbumAssumption DEF Emit, IInv, TypeOK
  <2> QED
    BY <2>2, <2>3
<1>2. ASSUME NEW b \in taken, EmitTaken(b)
      PROVE  /\ DOMAIN events \subseteq DOMAIN events'
             /\ \A e \in DOMAIN events : events'[e] = events[e]
  <2>1. b \in DOMAIN buffers /\ Emit(b)
    BY <1>2, Domains DEF EmitTaken, IInv, TypeOK
  <2> QED
    BY <2>1, EventsGrow DEF IInv
<1>3. CASE UNCHANGED events /\ ~EmitNow
  BY <1>3
<1>4. ASSUME NEW b \in taken, EmitTaken(b), EmitNow
      PROVE  FALSE
  BY <1>4 DEF EmitTaken, EmitNow, Idle
<1> QED
  BY <1>1, <1>2, <1>3, <1>4
     DEF Next, Handling, Timers, Arrive, AppendItem, StopTimer, TakeNow, Fire, Take

Gathered == IInv /\ FullBuffers /\ CallingInv

LEMMA GatheredInit ==
    ASSUME AlbumInit
    PROVE  Gathered
<1>1. IInv
  BY Initially DEF AlbumInit
<1>2. DOMAIN events = {} /\ handler.at = "idle" /\ calling = 0
  BY DEF AlbumInit, Init, Idle
<1> QED
  BY <1>1, <1>2 DEF Gathered, FullBuffers, CallingInv

LEMMA GatheredStep ==
    ASSUME Gathered, [AlbumNext]_allVars
    PROVE  Gathered'
<1> USE DEF Gathered
<1>1. CASE Next /\ (UNCHANGED calling \/ (EmitNow /\ calling' = Len(events')))
  <2>1. IInv' /\ FullBuffers'
    BY <1>1, Inductive, FullBuffersStep
  <2>2. CallingInv'
    BY <1>1, EventsStep DEF CallingInv
  <2> QED
    BY <2>1, <2>2
<1>2. CASE UNCHANGED <<vars, calling>>
  <2>1. IInv'
    BY <1>2, Inductive
  <2> QED
    BY <1>2, <2>1 DEF vars, FullBuffers, CallingInv
<1> QED
  BY <1>1, <1>2, TwoParts DEF allVars
------------------------------------------------------------------------------
(* Types. *)

\* The calls of albums not handed over yet have not begun.
RelayInv ==
    /\ RelayTypeOK
    /\ \A e \in Calls : e \notin DOMAIN events => relay[e].at = "none"

LEMMA AlbumFacts ==
    ASSUME Gathered, NEW e \in DOMAIN events
    PROVE  /\ e \in Calls /\ events[e] \in SUBSET Items /\ events[e] # {}
           /\ Cardinality(events[e]) \in Nat /\ Cardinality(events[e]) >= 1
           /\ Len(ItemsOf(e)) = Cardinality(events[e])
<1>1. e \in Calls /\ events[e] \in SUBSET Items /\ events[e] # {}
  BY EventsBounded, Domains DEF Gathered, IInv, FullBuffers
<1>2. /\ Cardinality(events[e]) \in Nat
      /\ Len(ItemsOf(e)) = Cardinality(events[e])
  BY <1>1, SortedItems
<1>3. IsFiniteSet(events[e])
  BY <1>1, AlbumAssumption, FS_Subset
<1>4. Cardinality(events[e]) # 0
  BY <1>1, <1>3, FS_EmptySet
<1> QED
  BY <1>1, <1>2, <1>4

CallSteps == {"none", "load", "send", "save", "done"}

LEMMA Calling ==
    /\ Fresh \in Call
    /\ \A step \in CallSteps :
           /\ [Fresh EXCEPT !.at = step] \in Call
           /\ [Fresh EXCEPT !.at = step].at = step
    /\ \A ids \in Seq(Nat) :
           /\ [Fresh EXCEPT !.at = "save", !.next = 1, !.ids = ids] \in Call
           /\ [Fresh EXCEPT !.at = "save", !.next = 1, !.ids = ids].at = "save"
           /\ [Fresh EXCEPT !.at = "save", !.next = 1, !.ids = ids].next = 1
           /\ [Fresh EXCEPT !.at = "save", !.next = 1, !.ids = ids].ids = ids
<1>1. FreshRetry \in RetryState
  BY RetriesAssumption DEF FreshRetry, RetryState
<1>2. [i \in Items |-> 0] \in [Items -> 0..(Attempts - 1)]
  BY AlbumRelayAssumption
<1>3. <<>> \in Seq(Nat)
  OBVIOUS
<1> QED
  BY <1>1, <1>2, <1>3 DEF Fresh, Call, CallSteps

LEMMA TryAgain ==
    ASSUME NEW s \in RetryState, NEW e \in Errors, Verdict(s, e) = "again"
    PROVE  NextTry(s, e) \in RetryState
<1>1. CASE e = "flood"
  BY <1>1 DEF RetryState, NextTry
<1>2. CASE e # "flood"
  <2>1. s.attempt < MaxRetries
    BY <1>2 DEF Verdict, RetryState, Errors
  <2> QED
    BY <1>2, <2>1, RetriesAssumption DEF RetryState, NextTry
<1> QED
  BY <1>1, <1>2

\* The ids of an answer, as far as there are any, are those of the new
\* messages in the order of the items.
LEMMA AnswerIds ==
    ASSUME Gathered, RelayTypeOK, NEW e \in DOMAIN events,
           NEW ids \in {extractAlbumMessageIDs(Answer(e))} \cup ShortAnswers(e)
    PROVE  /\ ids \in Seq(Nat)
           /\ \A k \in 1..Len(ItemsOf(e)) : k <= Len(ids) => ids[k] = Len(mirror) + k
           /\ Len(extractAlbumMessageIDs(Answer(e))) = 2 * Len(ItemsOf(e))
<1> DEFINE n == Len(ItemsOf(e))
           new == NewIds(e)
           all == extractAlbumMessageIDs(Answer(e))
<1>1. n \in Nat /\ Len(mirror) \in Nat
  BY AlbumFacts DEF RelayTypeOK
<1>2. new = [k \in 1..n |-> Len(mirror) + k]
  BY DEF NewIds
<1>3. new \in Seq(Nat) /\ Len(new) = n /\ \A k \in 1..n : new[k] = Len(mirror) + k
  BY <1>1, <1>2
<1> HIDE DEF new, n, all
<1>4. all \in Seq(Nat) /\ Len(all) = n + n /\ \A k \in 1..n : all[k] = new[k]
  <2> DEFINE named(kind) == [k \in DOMAIN new |-> [kind |-> kind, id |-> new[k]]]
             x == named("UpdateMessageID")
             y == named("UpdateNewMessage")
             Entry == [kind : {"UpdateMessageID", "UpdateNewMessage"}, id : Nat]
  <2>1. /\ x \in Seq(Entry) /\ y \in Seq(Entry) /\ Len(x) = n /\ Len(y) = n
        /\ \A k \in 1..n : x[k].id = new[k]
    BY <1>1, <1>3
  <2>2. Answer(e) = x \o y
    BY DEF Answer, new
  <2>3. \A w \in Entry : w.id \in Nat
    OBVIOUS
  <2> HIDE DEF x, y, Entry
  <2>4. /\ x \o y \in Seq(Entry) /\ Len(x \o y) = n + n
        /\ \A k \in 1..n : (x \o y)[k] = x[k]
    <3>1. ASSUME NEW E, NEW v \in Seq(E), NEW w \in Seq(E)
          PROVE  /\ v \o w \in Seq(E) /\ Len(v \o w) = Len(v) + Len(w)
                 /\ \A k \in 1..Len(v) : (v \o w)[k] = v[k]
      OBVIOUS
    <3> QED
      BY <2>1, <3>1
  <2> DEFINE z == x \o y
  <2>5. all = [k \in 1..(n + n) |-> z[k].id]
    BY <2>2, <2>4 DEF extractAlbumMessageIDs, all
  <2>6. \A k \in 1..(n + n) : z[k].id \in Nat
    BY <1>1, <2>3, <2>4
  <2>7. \A k \in 1..n : k \in 1..(n + n) /\ z[k].id = new[k]
    BY <1>1, <2>1, <2>4
  <2> HIDE DEF z
  <2>8. all \in [1..(n + n) -> Nat]
    BY <2>5, <2>6
  <2>9. \A k \in 1..n : all[k] = new[k]
    BY <2>5, <2>7
  <2>10. n + n \in Nat
    BY <1>1
  <2>11. all \in Seq(Nat) /\ Len(all) = n + n
    BY <2>8, <2>10
  <2> QED
    BY <2>9, <2>11
<1>5. Len(all) = 2 * n
  BY <1>1, <1>4
<1>6. CASE ids = all
  BY <1>1, <1>3, <1>4, <1>5, <1>6 DEF n, all
<1>7. CASE ids \in ShortAnswers(e)
  <2>1. PICK k \in 0..(n - 1) : ids = SubSeq(new, 1, k)
    BY <1>7 DEF ShortAnswers, n, new
  <2>2. ids \in Seq(Nat) /\ Len(ids) = k /\ \A j \in 1..k : ids[j] = new[j]
    BY <1>1, <1>3, <2>1
  <2> QED
    BY <1>1, <1>3, <1>5, <2>1, <2>2 DEF n, all
<1> QED
  BY <1>6, <1>7 DEF all

\* Each step of OnAlbum changes the state of its own call, and a call that
\* saves has an item to save.
LEMMA CallStep ==
    ASSUME Gathered, RelayInv, NEW e \in Calls, OnAlbum(e)
    PROVE  /\ e \in DOMAIN events
           /\ \E call \in Call :
                  /\ relay' = [relay EXCEPT ![e] = call]
                  /\ call.at = "save" => call.next \in 1..Cardinality(events[e])
<1>1. e \in DOMAIN events
  BY DEF OnAlbum, At, Begin, Load, LoadFails, Send, SendFails, SendLost, SaveItem
<1> DEFINE n == Cardinality(events[e])
<1>2. /\ n \in Nat /\ n >= 1 /\ Len(ItemsOf(e)) = n /\ events[e] \in SUBSET Items
      /\ relay[e] \in Call /\ relay \in [Calls -> Call]
  BY <1>1, AlbumFacts DEF RelayInv, RelayTypeOK
<1> DEFINE Changes == \E call \in Call :
                          /\ relay' = [relay EXCEPT ![e] = call]
                          /\ call.at = "save" => call.next \in 1..n
<1> SUFFICES Changes
  BY <1>1
<1>3. ASSUME NEW step \in CallSteps \ {"save"}, Enter(e, step)
      PROVE  Changes
  BY <1>3, Calling DEF Enter
<1>4. ASSUME Return(e)
      PROVE  Changes
  BY <1>3, <1>4 DEF Return, CallSteps
<1>5. CASE Begin(e) \/ Load(e)
  BY <1>3, <1>5 DEF Begin, Load, CallSteps
<1>6. CASE LoadFails(e)
  <2>1. CASE Return(e)
    BY <1>4, <2>1
  <2>2. ASSUME NEW i \in events[e], relay[e].tries[i] + 1 < Attempts,
               relay' = [relay EXCEPT ![e].tries[i] = @ + 1]
        PROVE  Changes
    <3> DEFINE tries == [relay[e].tries EXCEPT ![i] = @ + 1]
               call == [relay[e] EXCEPT !.tries = tries]
    <3>1. relay[e].tries \in [Items -> 0..(Attempts - 1)] /\ i \in Items
      BY <1>2, <2>2 DEF Call
    <3>2. tries \in [Items -> 0..(Attempts - 1)]
      BY <2>2, <3>1, AlbumRelayAssumption
    <3>3. relay' = [relay EXCEPT ![e] = call]
      BY <2>2
    <3> HIDE DEF tries
    <3>4. call \in Call /\ call.at = relay[e].at
      BY <1>2, <3>2 DEF Call
    <3>5. relay[e].at = "load"
      BY <1>6 DEF LoadFails, At
    <3> HIDE DEF call
    <3> QED
      BY <3>3, <3>4, <3>5
  <2> QED
    BY <1>6, <2>1, <2>2 DEF LoadFails
<1>7. CASE Send(e)
  <2>1. PICK ids \in {extractAlbumMessageIDs(Answer(e))} \cup ShortAnswers(e) :
            Sent(e, ids)
    BY <1>7 DEF Send
  <2>2. ids \in Seq(Nat)
    BY <1>1, <2>1, AnswerIds DEF RelayInv
  <2> DEFINE call == [Fresh EXCEPT !.at = "save", !.next = 1, !.ids = ids]
  <2>3. relay' = [relay EXCEPT ![e] = call]
    BY <2>1 DEF Sent
  <2>4. call \in Call /\ call.next = 1
    BY <2>2, Calling
  <2>5. 1 \in 1..n
    BY <1>2
  <2> HIDE DEF call, n
  <2>6. call.at = "save" => call.next \in 1..n
    BY <2>4, <2>5
  <2> QED
    BY <2>3, <2>4, <2>6 DEF n
<1>8. ASSUME NEW error \in Errors, AttemptFails(e, error), At(e, "send")
      PROVE  Changes
  <2>1. CASE Return(e)
    BY <1>4, <2>1
  <2>2. CASE /\ Verdict(relay[e].retry, error) = "again"
             /\ relay' = [relay EXCEPT ![e].retry = NextTry(@, error)]
    <3> DEFINE r == NextTry(relay[e].retry, error)
               call == [relay[e] EXCEPT !.retry = r]
    <3>1. r \in RetryState
      BY <1>2, <2>2, TryAgain DEF Call
    <3>2. relay' = [relay EXCEPT ![e] = call]
      BY <2>2
    <3> HIDE DEF r
    <3>3. call \in Call /\ call.at = relay[e].at
      BY <1>2, <3>1 DEF Call
    <3>4. relay[e].at = "send"
      BY <1>8 DEF At
    <3> HIDE DEF call
    <3> QED
      BY <3>2, <3>3, <3>4
  <2> QED
    BY <1>8, <2>1, <2>2 DEF AttemptFails
<1>9. CASE SendFails(e) \/ SendLost(e)
  <2>1. "transient" \in Errors
    BY DEF Errors
  <2> QED
    BY <1>8, <1>9, <2>1 DEF SendFails, SendLost
<1>10. CASE SaveItem(e)
  <2>1. CASE Return(e)
    BY <1>4, <2>1
  <2>2. CASE relay[e].next # n /\ relay' = [relay EXCEPT ![e].next = @ + 1]
    <3> DEFINE k == relay[e].next + 1
               call == [relay[e] EXCEPT !.next = k]
    <3>1. relay[e].at = "save" /\ relay[e].next \in 1..n
      BY <1>1, <1>10 DEF SaveItem, At, RelayInv, RelayTypeOK
    <3>2. relay' = [relay EXCEPT ![e] = call]
      BY <2>2
    <3>3. k \in 1..n /\ k \in Nat
      BY <1>2, <2>2, <3>1
    <3> HIDE DEF k
    <3>4. call \in Call /\ call.next = k
      BY <1>2, <3>3 DEF Call
    <3> HIDE DEF call
    <3> QED
      BY <3>2, <3>3, <3>4
  <2> QED
    BY <1>2, <1>10, <2>1, <2>2 DEF SaveItem, NextItem
<1> QED
  BY <1>1, <1>5, <1>6, <1>7, <1>9, <1>10 DEF OnAlbum

Message == [origin : Items, alive : BOOLEAN]

Row == [src : Items, dst : Nat]

\* The mirror grows by the copies of one album, in the order of its items, or
\* its messages stay and may be deleted.
LEMMA DeliverStep ==
    ASSUME Gathered, mirror \in Seq(Message), NEW e \in DOMAIN events, Deliver(e)
    PROVE  /\ mirror' \in Seq(Message)
           /\ Len(mirror') = Len(mirror) + Len(ItemsOf(e))
           /\ \A j \in 1..Len(mirror) : mirror'[j] = mirror[j]
           /\ \A k \in 1..Len(ItemsOf(e)) :
                  mirror'[Len(mirror) + k] = [origin |-> ItemsOf(e)[k], alive |-> TRUE]
<1> DEFINE n == Len(ItemsOf(e))
           new == [k \in 1..n |-> [origin |-> ItemsOf(e)[k], alive |-> TRUE]]
<1>1. n \in Nat /\ \A k \in 1..n : ItemsOf(e)[k] \in Items
  BY AlbumFacts, SortedItems
<1>2. \A k \in 1..n : [origin |-> ItemsOf(e)[k], alive |-> TRUE] \in Message
  BY <1>1 DEF Message
<1>3. /\ new \in Seq(Message) /\ Len(new) = n
      /\ \A k \in 1..n : new[k] = [origin |-> ItemsOf(e)[k], alive |-> TRUE]
  BY <1>1, <1>2
<1>4. mirror' = mirror \o new
  BY DEF Deliver
<1> HIDE DEF new, n
<1>5. /\ mirror' \in Seq(Message) /\ Len(mirror') = Len(mirror) + n
      /\ \A j \in 1..Len(mirror) : mirror'[j] = mirror[j]
      /\ \A k \in 1..n : mirror'[Len(mirror) + k] = new[k]
  <2> HIDE DEF Message
  <2>1. /\ Len(mirror) \in Nat /\ mirror \in Seq(Message)
        /\ n \in Nat /\ new \in Seq(Message) /\ Len(new) = n
    BY <1>1, <1>3
  <2>2. mirror' \in Seq(Message) /\ Len(mirror') = Len(mirror) + n
    <3>1. mirror \o new \in Seq(Message)
      BY <2>1
    <3>2. Len(mirror \o new) = Len(mirror) + Len(new)
      BY <2>1
    <3> QED
      BY <1>4, <2>1, <3>1, <3>2
  <2>3. \A j \in 1..Len(mirror) : mirror'[j] = mirror[j]
    BY <1>4, <2>1
  <2>4. \A k \in 1..n : mirror'[Len(mirror) + k] = new[k]
    BY <1>4, <2>1
  <2> QED
    BY <2>2, <2>3, <2>4
<1> QED
  BY <1>3, <1>5 DEF n

LEMMA DeleteStep ==
    ASSUME mirror \in Seq(Message), NEW i, DeleteMirror(i)
    PROVE  /\ mirror' \in Seq(Message) /\ Len(mirror') = Len(mirror)
           /\ DOMAIN mirror' = DOMAIN mirror
           /\ \A j \in DOMAIN mirror : mirror'[j].origin = mirror[j].origin
           /\ \A r \in rows : r.src = i /\ r.dst \in DOMAIN mirror =>
                                  ~mirror'[r.dst].alive
<1>1. /\ Len(mirror) \in Nat /\ DOMAIN mirror = 1..Len(mirror)
      /\ \A j \in DOMAIN mirror : mirror[j] \in Message
  OBVIOUS
<1>2. \A j \in DOMAIN mirror : /\ [mirror[j] EXCEPT !.alive = FALSE] \in Message
                               /\ ~[mirror[j] EXCEPT !.alive = FALSE].alive
                               /\ [mirror[j] EXCEPT !.alive = FALSE].origin = mirror[j].origin
  BY <1>1 DEF Message
<1> DEFINE found == {r.dst : r \in {q \in rows : q.src = i}} \cap DOMAIN mirror
           new(j) == IF j \in found THEN [mirror[j] EXCEPT !.alive = FALSE]
                                    ELSE mirror[j]
<1>3. mirror' = [j \in 1..Len(mirror) |-> new(j)]
  BY <1>1 DEF DeleteMirror
<1>4. \A j \in DOMAIN mirror : /\ new(j) \in Message /\ new(j).origin = mirror[j].origin
                               /\ j \in found => ~new(j).alive
  BY <1>1, <1>2
<1>5. \A r \in rows : r.src = i /\ r.dst \in DOMAIN mirror => r.dst \in found
  OBVIOUS
<1> HIDE DEF new, found
<1> QED
  BY <1>1, <1>3, <1>4, <1>5

LEMMA Faulty ==
    ASSUME RelayTypeOK, Fault
    PROVE  /\ faults' \in 0..MaxFaults /\ faults' = faults + 1
           /\ lost \in 0..faults' /\ lost + 1 \in 0..faults'
BY AlbumRelayAssumption DEF RelayTypeOK, Fault

\* What the steps of OnAlbum do besides moving on their call.
LEMMA CallEffects ==
    ASSUME Gathered, RelayInv, NEW e \in Calls, OnAlbum(e)
    PROVE  /\ mirror' \in Seq(Message)
           /\ rows' \in SUBSET Row
           /\ disabled' \in BOOLEAN /\ removed' = removed
           /\ faults' \in 0..MaxFaults /\ lost' \in 0..faults'
<1>0. /\ e \in DOMAIN events /\ RelayTypeOK /\ relay[e] \in Call
      /\ mirror \in Seq(Message) /\ rows \in SUBSET Row /\ disabled \in BOOLEAN
      /\ faults \in 0..MaxFaults /\ lost \in 0..faults
  BY CallStep DEF RelayInv, RelayTypeOK, Message, Row
<1>1. CASE Begin(e) \/ Load(e)
  BY <1>0, <1>1 DEF Begin, Load
<1>2. CASE LoadFails(e)
  BY <1>0, <1>2, Faulty DEF LoadFails
<1>3. CASE Send(e)
  <2>1. mirror' \in Seq(Message)
    BY <1>0, <1>3, DeliverStep DEF Send
  <2>2. faults' \in 0..MaxFaults /\ lost' \in 0..faults'
    BY <1>0, <1>3, Faulty DEF Send
  <2> QED
    BY <1>0, <1>3, <2>1, <2>2 DEF Send
<1>4. CASE SendFails(e)
  BY <1>0, <1>4, Faulty DEF SendFails, AttemptFails
<1>5. CASE SendLost(e)
  <2>1. mirror' \in Seq(Message)
    BY <1>0, <1>5, DeliverStep DEF SendLost
  <2> QED
    BY <1>0, <1>5, <2>1, Faulty DEF SendLost, AttemptFails
<1>6. CASE SaveItem(e)
  <2> DEFINE k == relay[e].next
  <2>1. k \in 1..Len(ItemsOf(e)) /\ events[e] \in SUBSET Items
    BY <1>0, <1>6, AlbumFacts DEF SaveItem, At, RelayTypeOK
  <2>2. ItemsOf(e)[k] \in Items
    BY <2>1, SortedItems
  <2>3. TargetId(e, k) \in Nat
    <3>1. relay[e].ids \in Seq(Nat)
      BY <1>0 DEF Call
    <3>2. k <= Len(relay[e].ids) => k \in 1..Len(relay[e].ids)
      BY <2>1, <3>1
    <3> QED
      BY <3>1, <3>2 DEF TargetId
  <2>4. rows' \in SUBSET Row
    BY <1>0, <1>6, <2>2, <2>3 DEF SaveItem, Row
  <2> QED
    BY <1>0, <1>6, <2>4, Faulty DEF SaveItem
<1> QED
  BY <1>1, <1>2, <1>3, <1>4, <1>5, <1>6 DEF OnAlbum

LEMMA RelayInvStep ==
    ASSUME Gathered, RelayInv, [AlbumNext]_allVars
    PROVE  RelayInv'
<1>0. Gathered' /\ RelayTypeOK
  BY GatheredStep DEF RelayInv
<1> USE DEF RelayInv
<1>1. CASE /\ Next /\ UNCHANGED relayVars
           /\ UNCHANGED calling \/ (EmitNow /\ calling' = Len(events'))
  <2>1. /\ DOMAIN events \subseteq DOMAIN events'
        /\ \A e \in DOMAIN events : events'[e] = events[e]
    BY <1>1, EventsStep DEF Gathered
  <2>2. DOMAIN events' \subseteq Calls
    BY <1>0, Disjoint DEF Gathered, IInv, TypeOK, RelayedOnce, FullBuffers
  <2>3. calling' \in Nat
    BY <1>0, <1>1, Domains DEF RelayTypeOK, Gathered, IInv
  <2>4. \A e \in DOMAIN events' : relay[e].at = "save" =>
            relay[e].next \in 1..Cardinality(events'[e])
    BY <1>0, <2>1, <2>2 DEF RelayTypeOK
  <2> QED
    BY <1>0, <1>1, <2>1, <2>3, <2>4 DEF RelayTypeOK, relayVars, Calls, Call
<1>2. ASSUME NEW e \in Calls, OnAlbum(e), UNCHANGED <<vars, calling, resolved>>
      PROVE  RelayInv'
  <2>1. PICK call \in Call :
            /\ relay' = [relay EXCEPT ![e] = call]
            /\ call.at = "save" => call.next \in 1..Cardinality(events[e])
    BY <1>2, CallStep
  <2>2. e \in DOMAIN events /\ relay \in [Calls -> Call]
    BY <1>0, <1>2, CallStep DEF RelayTypeOK
  <2>3. /\ relay' \in [Calls -> Call] /\ relay'[e] = call
        /\ \A d \in Calls : d # e => relay'[d] = relay[d]
    BY <2>1, <2>2
  <2>4. \A d \in DOMAIN events : d \in Calls
    BY EventsBounded DEF Gathered
  <2>5. UNCHANGED events
    BY <1>2 DEF vars
  <2> HIDE DEF RelayInv
  <2>6. /\ mirror' \in Seq(Message) /\ rows' \in SUBSET Row
        /\ disabled' \in BOOLEAN /\ removed' = removed
        /\ faults' \in 0..MaxFaults /\ lost' \in 0..faults'
    BY <1>2, CallEffects
  <2> USE DEF RelayInv
  <2>7. \A d \in DOMAIN events' : relay'[d].at = "save" =>
            relay'[d].next \in 1..Cardinality(events'[d])
    BY <1>0, <2>1, <2>3, <2>4, <2>5 DEF RelayTypeOK
  <2>8. \A d \in Calls : d \notin DOMAIN events' => relay'[d].at = "none"
    BY <2>2, <2>3, <2>5
  <2>9. calling' \in Nat /\ resolved' \in BOOLEAN /\ removed' \in SUBSET Items
    BY <1>0, <1>2, <2>6 DEF RelayTypeOK
  <2> QED
    BY <2>3, <2>6, <2>7, <2>8, <2>9 DEF RelayTypeOK, Message, Row, Calls, Call
<1>3. ASSUME NEW i \in Items, Removal(i), UNCHANGED <<vars, calling, resolved>>
      PROVE  RelayInv'
  <2>1. mirror' \in Seq(Message)
    BY <1>0, <1>3, DeleteStep DEF Removal, RelayTypeOK, Message
  <2>2. faults' \in 0..MaxFaults /\ lost' \in 0..faults'
    BY <1>0, <1>3, Faulty DEF Removal, RelayTypeOK
  <2>3. removed' \in SUBSET Items /\ UNCHANGED <<events, relay, rows, disabled>>
    BY <1>0, <1>3 DEF Removal, RelayTypeOK, vars
  <2> QED
    BY <1>0, <1>3, <2>1, <2>2, <2>3 DEF RelayTypeOK, Message, Row, Calls, Call
<1>4. CASE UNCHANGED allVars
  BY <1>4 DEF allVars, vars, relayVars, RelayTypeOK, Calls, Call
<1> QED
  BY <1>1, <1>2, <1>3, <1>4, TwoParts
------------------------------------------------------------------------------
(* Rows and copies. *)

\* No step takes a message of the mirror away or makes it another one's copy.
MirrorStays ==
    \A j \in DOMAIN mirror : /\ j \in DOMAIN mirror'
                             /\ mirror'[j].origin = mirror[j].origin

LEMMA MirrorStaysStep ==
    ASSUME Gathered, RelayInv, [AlbumNext]_allVars
    PROVE  MirrorStays
<1>0. /\ mirror \in Seq(Message) /\ Len(mirror) \in Nat
      /\ DOMAIN mirror = 1..Len(mirror)
  BY DEF RelayInv, RelayTypeOK, Message
<1>1. CASE UNCHANGED mirror
  BY <1>1 DEF MirrorStays
<1>2. ASSUME NEW e \in DOMAIN events, Deliver(e)
      PROVE  MirrorStays
  <2>1. /\ mirror' \in Seq(Message)
        /\ Len(mirror') = Len(mirror) + Len(ItemsOf(e))
        /\ \A j \in 1..Len(mirror) : mirror'[j] = mirror[j]
    BY <1>0, <1>2, DeliverStep
  <2>2. Len(ItemsOf(e)) \in Nat
    BY AlbumFacts
  <2>3. DOMAIN mirror' = 1..Len(mirror')
    BY <2>1
  <2> QED
    BY <1>0, <2>1, <2>2, <2>3 DEF MirrorStays
<1>3. ASSUME NEW i \in Items, DeleteMirror(i)
      PROVE  MirrorStays
  BY <1>0, <1>3, DeleteStep DEF MirrorStays
<1>4. ASSUME NEW e \in Calls, OnAlbum(e)
      PROVE  MirrorStays
  <2>1. e \in DOMAIN events
    BY <1>4, CallStep
  <2> QED
    BY <1>1, <1>2, <1>4, <2>1
       DEF OnAlbum, Begin, Load, LoadFails, Send, SendFails, SendLost, SaveItem
<1>5. ASSUME NEW i \in Items, Removal(i)
      PROVE  MirrorStays
  BY <1>1, <1>3, <1>5 DEF Removal
<1> QED
  BY <1>1, <1>4, <1>5, TwoParts DEF relayVars, allVars

\* The ids that call e is about to save are those of the copies of its items.
Answered(e) ==
    relay[e].at = "save" =>
        \A k \in 1..Len(ItemsOf(e)) : k <= Len(relay[e].ids) =>
            /\ relay[e].ids[k] \in DOMAIN mirror
            /\ mirror[relay[e].ids[k]].origin = ItemsOf(e)[k]

MappedInv == ItemsMapped /\ \A e \in DOMAIN events : Answered(e)

LEMMA SentIsAnswered ==
    ASSUME Gathered, RelayInv, NEW e \in DOMAIN events, Deliver(e), UNCHANGED events,
           NEW ids \in {extractAlbumMessageIDs(Answer(e))} \cup ShortAnswers(e),
           Sent(e, ids)
    PROVE  /\ Answered(e)'
           /\ relay'[e].at = "save" /\ relay'[e].next = 1 /\ relay'[e].ids = ids
<1>1. /\ mirror \in Seq(Message) /\ RelayTypeOK /\ e \in Calls
      /\ relay \in [Calls -> Call]
  BY AlbumFacts DEF RelayInv, RelayTypeOK, Message
<1>2. /\ ids \in Seq(Nat)
      /\ \A k \in 1..Len(ItemsOf(e)) : k <= Len(ids) => ids[k] = Len(mirror) + k
  BY <1>1, AnswerIds
<1>3. /\ relay'[e].at = "save" /\ relay'[e].next = 1 /\ relay'[e].ids = ids
  <2> DEFINE call == [Fresh EXCEPT !.at = "save", !.next = 1, !.ids = ids]
  <2>1. relay'[e] = call
    BY <1>1 DEF Sent
  <2> QED
    BY <1>2, <2>1, Calling
<1>4. /\ mirror' \in Seq(Message) /\ Len(mirror) \in Nat /\ Len(ItemsOf(e)) \in Nat
      /\ Len(mirror') = Len(mirror) + Len(ItemsOf(e))
      /\ \A k \in 1..Len(ItemsOf(e)) :
             mirror'[Len(mirror) + k] = [origin |-> ItemsOf(e)[k], alive |-> TRUE]
  BY <1>1, DeliverStep, AlbumFacts
<1>5. ItemsOf(e)' = ItemsOf(e)
  BY DEF ItemsOf
<1>6. ASSUME NEW k \in 1..Len(ItemsOf(e)), k <= Len(ids)
      PROVE  ids[k] \in DOMAIN mirror' /\ mirror'[ids[k]].origin = ItemsOf(e)[k]
  <2>1. ids[k] = Len(mirror) + k
    BY <1>2, <1>6
  <2>2. DOMAIN mirror' = 1..Len(mirror')
    BY <1>4
  <2>3. Len(mirror) + k \in 1..Len(mirror')
    BY <1>4
  <2>4. mirror'[Len(mirror) + k].origin = ItemsOf(e)[k]
    <3>1. mirror'[Len(mirror) + k] = [origin |-> ItemsOf(e)[k], alive |-> TRUE]
      BY <1>4, Zenon
    <3> QED
      BY <3>1
  <2> QED
    BY <2>1, <2>2, <2>3, <2>4
<1> QED
  BY <1>3, <1>5, <1>6 DEF Answered

LEMMA OthersAnswered ==
    ASSUME MirrorStays, UNCHANGED events, NEW e \in DOMAIN events, Answered(e),
           relay'[e].at = "save" =>
               relay[e].at = "save" /\ relay'[e].ids = relay[e].ids
    PROVE  Answered(e)'
<1>1. ItemsOf(e)' = ItemsOf(e)
  BY DEF ItemsOf
<1> QED
  BY <1>1 DEF Answered, MirrorStays

LEMMA RowsStayMapped ==
    ASSUME MirrorStays, ItemsMapped,
           \A r \in rows' : r \in rows \/ r.dst = 0 \/
               (r.dst \in DOMAIN mirror /\ mirror[r.dst].origin = r.src)
    PROVE  ItemsMapped'
BY DEF ItemsMapped, CopiesOf, MirrorStays

\* The calls of other events stay as they are, and their items as well.
LEMMA OtherCalls ==
    ASSUME Gathered, RelayInv, NEW e \in Calls, OnAlbum(e), UNCHANGED events
    PROVE  /\ e \in DOMAIN events /\ relay'[e] \in Call
           /\ \A d \in DOMAIN events : d # e => relay'[d] = relay[d]
<1>1. PICK call \in Call : relay' = [relay EXCEPT ![e] = call]
  BY CallStep
<1>2. e \in DOMAIN events /\ relay \in [Calls -> Call] /\ DOMAIN events \subseteq Calls
  BY CallStep, EventsBounded DEF Gathered, RelayInv, RelayTypeOK
<1> QED
  BY <1>1, <1>2

\* The steps of a call, seen from outside.
LEMMA CallMoves ==
    ASSUME Gathered, RelayInv, NEW e \in Calls, OnAlbum(e)
    PROVE  /\ Begin(e) => /\ relay[e].at = "none"
                          /\ relay'[e].at = IF disabled \/ ~resolved THEN "done" ELSE "load"
           /\ Load(e) => relay[e].at = "load" /\ relay'[e].at = "send"
           /\ LoadFails(e) => relay[e].at = "load" /\ relay'[e].at \in {"load", "done"}
           /\ Send(e) => relay[e].at = "send" /\ relay'[e].at = "save"
           /\ SendFails(e) \/ SendLost(e) =>
                  relay[e].at = "send" /\ relay'[e].at \in {"send", "done"}
           /\ SaveItem(e) =>
                  /\ relay[e].at = "save"
                  /\ IF relay[e].next = Len(ItemsOf(e))
                     THEN relay'[e].at = "done"
                     ELSE /\ relay'[e].at = "save" /\ relay'[e].ids = relay[e].ids
                          /\ relay'[e].next = relay[e].next + 1
<1>1. e \in DOMAIN events /\ relay \in [Calls -> Call] /\ relay[e] \in Call
  BY CallStep DEF RelayInv, RelayTypeOK
<1>2. \A step \in CallSteps : Enter(e, step) => relay'[e].at = step
  BY <1>1, Calling DEF Enter
<1>3. Return(e) => relay'[e].at = "done"
  BY <1>2 DEF Return, CallSteps
<1>4. Begin(e) => /\ relay[e].at = "none"
                  /\ relay'[e].at = IF disabled \/ ~resolved THEN "done" ELSE "load"
  BY <1>2 DEF Begin, At, CallSteps
<1>5. Load(e) => relay[e].at = "load" /\ relay'[e].at = "send"
  BY <1>2 DEF Load, At, CallSteps
<1>6. LoadFails(e) => relay[e].at = "load" /\ relay'[e].at \in {"load", "done"}
  <2>1. ASSUME NEW i, relay[e].at = "load",
               relay' = [relay EXCEPT ![e].tries[i] = @ + 1]
        PROVE  relay'[e].at = "load"
    <3>1. relay'[e] = [relay[e] EXCEPT !.tries[i] = @ + 1]
      BY <1>1, <2>1
    <3> QED
      BY <1>1, <2>1, <3>1 DEF Call
  <2> QED
    BY <1>3, <2>1 DEF LoadFails, At
<1>7. Send(e) => relay[e].at = "send" /\ relay'[e].at = "save"
  <2>1. ASSUME NEW ids, Sent(e, ids)
        PROVE  relay'[e].at = "save"
    <3>1. relay'[e] = [Fresh EXCEPT !.at = "save", !.next = 1, !.ids = ids]
      BY <1>1, <2>1 DEF Sent
    <3> QED
      BY <3>1 DEF Fresh
  <2> QED
    BY <2>1 DEF Send, At
<1>8. ASSUME NEW error, relay[e].at = "send", AttemptFails(e, error)
      PROVE  relay'[e].at \in {"send", "done"}
  <2>1. CASE relay' = [relay EXCEPT ![e].retry = NextTry(@, error)]
    <3>1. relay'[e] = [relay[e] EXCEPT !.retry = NextTry(@, error)]
      BY <1>1, <2>1
    <3> QED
      BY <1>1, <1>8, <3>1 DEF Call
  <2> QED
    BY <1>3, <1>8, <2>1 DEF AttemptFails
<1>9. SendFails(e) \/ SendLost(e) =>
          relay[e].at = "send" /\ relay'[e].at \in {"send", "done"}
  BY <1>8 DEF SendFails, SendLost, At
<1>10. ASSUME SaveItem(e)
       PROVE  /\ relay[e].at = "save"
              /\ IF relay[e].next = Len(ItemsOf(e))
                 THEN relay'[e].at = "done"
                 ELSE /\ relay'[e].at = "save" /\ relay'[e].ids = relay[e].ids
                      /\ relay'[e].next = relay[e].next + 1
  <2>1. relay[e].at = "save" /\ NextItem(e)
    BY <1>10 DEF SaveItem, At
  <2>2. CASE relay[e].next = Len(ItemsOf(e))
    BY <1>3, <2>1, <2>2 DEF NextItem
  <2>3. CASE relay[e].next # Len(ItemsOf(e))
    <3>1. relay'[e] = [relay[e] EXCEPT !.next = @ + 1]
      BY <1>1, <2>1, <2>3 DEF NextItem
    <3> QED
      BY <1>1, <2>1, <2>3, <3>1 DEF Call
  <2> QED
    BY <2>2, <2>3
<1> QED
  BY <1>4, <1>5, <1>6, <1>7, <1>9, <1>10

LEMMA MappedStep ==
    ASSUME Gathered, RelayInv, MappedInv, [AlbumNext]_allVars
    PROVE  MappedInv'
<1>0. MirrorStays /\ ItemsMapped
  BY MirrorStaysStep DEF MappedInv
<1>1. CASE Next /\ UNCHANGED relayVars
  <2>1. ItemsMapped'
    BY <1>1, <1>0 DEF relayVars, ItemsMapped, CopiesOf
  <2>2. /\ DOMAIN events \subseteq DOMAIN events'
        /\ \A e \in DOMAIN events : events'[e] = events[e]
    BY <1>1, EventsStep DEF Gathered
  <2>3. ASSUME NEW e \in DOMAIN events'
        PROVE  Answered(e)'
    <3>1. CASE e \in DOMAIN events
      <4>1. events'[e] = events[e] /\ Answered(e)
        BY <2>2, <3>1 DEF MappedInv
      <4>2. ItemsOf(e)' = ItemsOf(e)
        BY <4>1 DEF ItemsOf
      <4> QED
        BY <1>1, <4>1, <4>2 DEF Answered, relayVars
    <3>2. CASE e \notin DOMAIN events
      <4>1. Gathered' /\ e \in Calls
        BY <1>1, GatheredStep, Disjoint
           DEF Gathered, IInv, TypeOK, RelayedOnce, FullBuffers
      <4> QED
        BY <1>1, <3>2, <4>1 DEF RelayInv, relayVars, Answered
    <3> QED
      BY <3>1, <3>2
  <2> QED
    BY <2>1, <2>3 DEF MappedInv
<1>2. ASSUME NEW e \in Calls, OnAlbum(e), UNCHANGED <<vars, calling, resolved>>
      PROVE  MappedInv'
  <2>1. /\ e \in DOMAIN events /\ UNCHANGED events
        /\ \A d \in DOMAIN events : d # e => relay'[d] = relay[d]
    BY <1>2, OtherCalls DEF vars
  <2>2. \A d \in DOMAIN events : d # e => Answered(d)'
    <3> SUFFICES ASSUME NEW d \in DOMAIN events, d # e
                 PROVE  Answered(d)'
      OBVIOUS
    <3>1. relay'[d] = relay[d] /\ Answered(d)
      BY <2>1 DEF MappedInv
    <3> QED
      BY <1>0, <2>1, <3>1, OthersAnswered
  <2>3. ASSUME Answered(e)', ItemsMapped'
        PROVE  MappedInv'
    BY <2>1, <2>2, <2>3 DEF MappedInv
  <2>4. CASE Begin(e) \/ Load(e) \/ LoadFails(e) \/ SendFails(e) \/ SendLost(e)
    <3>1. relay'[e].at # "save"
      BY <1>2, <2>4, CallMoves
    <3>2. UNCHANGED rows
      BY <2>4 DEF Begin, Load, LoadFails, SendFails, SendLost
    <3>3. ItemsMapped'
      BY <1>0, <3>2, RowsStayMapped
    <3> QED
      BY <2>3, <3>1, <3>3 DEF Answered
  <2>5. CASE Send(e)
    <3>1. PICK ids \in {extractAlbumMessageIDs(Answer(e))} \cup ShortAnswers(e) :
              Sent(e, ids)
      BY <2>5 DEF Send
    <3>2. Answered(e)'
      BY <2>1, <2>5, <3>1, SentIsAnswered DEF Send
    <3>3. ItemsMapped'
      BY <1>0, <2>5, RowsStayMapped DEF Send
    <3> QED
      BY <2>3, <3>2, <3>3
  <2>6. CASE SaveItem(e)
    <3> DEFINE k == relay[e].next
    <3>1. relay[e].at = "save" /\ k \in 1..Len(ItemsOf(e)) /\ relay[e].ids \in Seq(Nat)
      BY <1>2, <2>1, <2>6, CallMoves, AlbumFacts DEF RelayInv, RelayTypeOK, Call
    <3>2. Answered(e) /\ Answered(e)'
      <4>1. relay'[e].at = "save" => relay'[e].ids = relay[e].ids
        BY <1>2, <2>6, CallMoves
      <4> QED
        BY <1>0, <2>1, <3>1, <4>1, OthersAnswered DEF MappedInv
    <3>3. \/ TargetId(e, k) = 0
          \/ /\ TargetId(e, k) \in DOMAIN mirror
             /\ mirror[TargetId(e, k)].origin = ItemsOf(e)[k]
      BY <3>1, <3>2 DEF TargetId, Answered
    <3>4. \A r \in rows' : r \in rows
                           \/ r = [src |-> ItemsOf(e)[k], dst |-> TargetId(e, k)]
      BY <2>6 DEF SaveItem
    <3>5. ItemsMapped'
      BY <1>0, <3>3, <3>4, RowsStayMapped
    <3> QED
      BY <2>3, <3>2, <3>5
  <2> QED
    BY <1>2, <2>4, <2>5, <2>6 DEF OnAlbum
<1>3. CASE UNCHANGED <<events, rows, relay>>
  <2>1. ItemsMapped'
    BY <1>0, <1>3, RowsStayMapped
  <2>2. \A e \in DOMAIN events : Answered(e)'
    BY <1>0, <1>3, OthersAnswered DEF MappedInv
  <2> QED
    BY <1>3, <2>1, <2>2 DEF MappedInv
<1> QED
  BY <1>1, <1>2, <1>3, TwoParts DEF Removal, allVars, vars, relayVars
------------------------------------------------------------------------------
(* How many copies there are. *)

\* No call that relays item i has sent it yet, or heard that it has.
Pending(i) ==
    \A e \in DOMAIN events :
        i \in events[e] => relay[e].at \in {"none", "load", "send"}

CopiesCounted ==
    \A i \in Items :
        /\ IsFiniteSet(CopiesOf(i))
        /\ Cardinality(CopiesOf(i)) <= lost + (IF Pending(i) THEN 0 ELSE 1)

\* An album brings one copy of each of its items, and none of the others.
LEMMA OneCopyEach ==
    ASSUME Gathered, RelayInv, NEW e \in DOMAIN events, Deliver(e),
           NEW i \in Items, IsFiniteSet(CopiesOf(i))
    PROVE  /\ IsFiniteSet(CopiesOf(i)')
           /\ i \notin events[e] => CopiesOf(i)' = CopiesOf(i)
           /\ i \in events[e] =>
                  Cardinality(CopiesOf(i)') <= Cardinality(CopiesOf(i)) + 1
<1> DEFINE m == Len(mirror)
           n == Len(ItemsOf(e))
<1>1. /\ mirror \in Seq(Message) /\ m \in Nat /\ DOMAIN mirror = 1..m /\ n \in Nat
  BY AlbumFacts DEF RelayInv, RelayTypeOK, Message
<1>2. /\ mirror' \in Seq(Message) /\ Len(mirror') = m + n
      /\ \A j \in 1..m : mirror'[j] = mirror[j]
      /\ \A k \in 1..n : mirror'[m + k] = [origin |-> ItemsOf(e)[k], alive |-> TRUE]
  BY <1>1, DeliverStep
<1>3. DOMAIN mirror' = 1..(m + n)
  BY <1>2
<1>4. /\ \A k \in 1..n : ItemsOf(e)[k] \in events[e]
      /\ \A k, l \in 1..n : ItemsOf(e)[k] = ItemsOf(e)[l] => k = l
  BY AlbumFacts, SortedItems
<1>5. \A j \in 1..(m + n) : j \in 1..m \/ \E k \in 1..n : j = m + k
  <2> SUFFICES ASSUME NEW j \in 1..(m + n), j \notin 1..m
               PROVE  \E k \in 1..n : j = m + k
    OBVIOUS
  <2>1. j - m \in 1..n /\ j = m + (j - m)
    BY <1>1
  <2> QED
    BY <2>1
<1> HIDE DEF m, n
<1>6. \A k \in 1..n : mirror'[m + k].origin = ItemsOf(e)[k]
  <2> SUFFICES ASSUME NEW k \in 1..n
               PROVE  mirror'[m + k].origin = ItemsOf(e)[k]
    OBVIOUS
  <2>1. mirror'[m + k] = [origin |-> ItemsOf(e)[k], alive |-> TRUE]
    BY <1>2, Zenon
  <2> QED
    BY <2>1
<1>7. CASE i \notin events[e]
  <2>1. \A j \in DOMAIN mirror' : mirror'[j].origin = i => j \in 1..m
    BY <1>3, <1>4, <1>5, <1>6, <1>7
  <2>2. \A j \in 1..m : j \in DOMAIN mirror'
    BY <1>1, <1>3
  <2>3. CopiesOf(i)' = CopiesOf(i)
    BY <1>1, <1>2, <2>1, <2>2 DEF CopiesOf
  <2> QED
    BY <1>7, <2>3
<1>8. CASE i \in events[e]
  <2>1. PICK k \in 1..n : ItemsOf(e)[k] = i
    BY <1>8, AlbumFacts, SortedItems DEF n
  <2>2. CopiesOf(i)' \subseteq CopiesOf(i) \cup {m + k}
    <3> SUFFICES ASSUME NEW j \in 1..(m + n), mirror'[j].origin = i
                 PROVE  j \in CopiesOf(i) \/ j = m + k
      BY <1>3 DEF CopiesOf
    <3>1. CASE j \in 1..m
      BY <1>1, <1>2, <3>1 DEF CopiesOf
    <3>2. ASSUME NEW l \in 1..n, j = m + l
          PROVE  j = m + k
      BY <1>4, <1>6, <2>1, <3>2
    <3> QED
      BY <1>5, <3>1, <3>2
  <2>3. /\ IsFiniteSet(CopiesOf(i) \cup {m + k})
        /\ Cardinality(CopiesOf(i) \cup {m + k}) =
              IF m + k \in CopiesOf(i) THEN Cardinality(CopiesOf(i))
                                       ELSE Cardinality(CopiesOf(i)) + 1
    BY FS_AddElement
  <2>4. /\ IsFiniteSet(CopiesOf(i)')
        /\ Cardinality(CopiesOf(i)') <= Cardinality(CopiesOf(i) \cup {m + k})
    BY <2>2, <2>3, FS_Subset
  <2>5. Cardinality(CopiesOf(i)) \in Nat /\ Cardinality(CopiesOf(i)') \in Nat
    BY <2>4, FS_CardinalityType
  <2>6. Cardinality(CopiesOf(i)') <= Cardinality(CopiesOf(i)) + 1
    BY <2>3, <2>4, <2>5
  <2> QED
    BY <1>8, <2>4, <2>6
<1> QED
  BY <1>7, <1>8

\* The calls only move on: an item that is sent is not pending again.
LEMMA PendingEnds ==
    ASSUME Gathered, RelayInv, [AlbumNext]_allVars, NEW i \in Items, Pending(i)'
    PROVE  Pending(i)
<1>1. CASE Next /\ UNCHANGED relayVars
  <2>1. /\ DOMAIN events \subseteq DOMAIN events'
        /\ \A e \in DOMAIN events : events'[e] = events[e]
    BY <1>1, EventsStep DEF Gathered
  <2> QED
    BY <1>1, <2>1 DEF Pending, relayVars
<1>2. ASSUME NEW e \in Calls, OnAlbum(e), UNCHANGED <<vars, calling, resolved>>
      PROVE  Pending(i)
  <2>1. /\ e \in DOMAIN events /\ UNCHANGED events
        /\ \A d \in DOMAIN events : d # e => relay'[d] = relay[d]
    BY <1>2, OtherCalls DEF vars
  <2>2. relay'[e].at \in {"none", "load", "send"} =>
            relay[e].at \in {"none", "load", "send"}
    BY <1>2, CallMoves DEF OnAlbum
  <2> QED
    BY <2>1, <2>2 DEF Pending
<1>3. CASE UNCHANGED <<events, relay>>
  BY <1>3 DEF Pending
<1> QED
  BY <1>1, <1>2, <1>3, TwoParts DEF Removal, allVars, vars, relayVars

LEMMA CountStep ==
    ASSUME Gathered, RelayInv, CopiesCounted, [AlbumNext]_allVars
    PROVE  CopiesCounted'
<1>0. /\ mirror \in Seq(Message) /\ lost \in Nat
      /\ \A i \in Items : /\ Pending(i)' => Pending(i)
                          /\ IsFiniteSet(CopiesOf(i)) /\ Cardinality(CopiesOf(i)) \in Nat
                          /\ Cardinality(CopiesOf(i)) <=
                                 lost + (IF Pending(i) THEN 0 ELSE 1)
  BY PendingEnds, FS_CardinalityType
     DEF CopiesCounted, RelayInv, RelayTypeOK, Message
<1>1. CASE /\ lost' = lost /\ \A i \in Items : CopiesOf(i)' = CopiesOf(i)
  <2> SUFFICES ASSUME NEW i \in Items
               PROVE  /\ IsFiniteSet(CopiesOf(i)')
                      /\ Cardinality(CopiesOf(i)') <=
                             lost' + (IF Pending(i)' THEN 0 ELSE 1)
    BY DEF CopiesCounted
  <2>1. CopiesOf(i)' = CopiesOf(i) /\ lost' = lost
    BY <1>1
  <2> QED
    BY <1>0, <2>1
<1>2. CASE UNCHANGED <<mirror, lost>>
  BY <1>1, <1>2 DEF CopiesOf
<1>3. ASSUME NEW e \in Calls, OnAlbum(e), UNCHANGED events
      PROVE  CopiesCounted'
  <2>1. e \in DOMAIN events
    BY <1>3, CallStep
  <2>2. ASSUME NEW i \in Items, Deliver(e)
        PROVE  /\ IsFiniteSet(CopiesOf(i)') /\ Cardinality(CopiesOf(i)') \in Nat
               /\ i \notin events[e] => Cardinality(CopiesOf(i)') = Cardinality(CopiesOf(i))
               /\ i \in events[e] =>
                      Cardinality(CopiesOf(i)') <= Cardinality(CopiesOf(i)) + 1
    BY <1>0, <2>1, <2>2, OneCopyEach, FS_CardinalityType
  <2>3. CASE Begin(e) \/ Load(e) \/ LoadFails(e) \/ SendFails(e) \/ SaveItem(e)
    BY <1>2, <2>3 DEF Begin, Load, LoadFails, SendFails, SaveItem
  <2>4. CASE Send(e)
    <3> SUFFICES ASSUME NEW i \in Items
                 PROVE  /\ IsFiniteSet(CopiesOf(i)')
                        /\ Cardinality(CopiesOf(i)') <=
                               lost' + (IF Pending(i)' THEN 0 ELSE 1)
      BY DEF CopiesCounted
    <3>1. Deliver(e) /\ lost' = lost
      BY <2>4 DEF Send
    <3>2. CASE i \notin events[e]
      BY <1>0, <2>2, <3>1, <3>2
    <3>3. CASE i \in events[e]
      <4>1. relay[e].at = "send" /\ relay'[e].at = "save" /\ UNCHANGED events
        BY <1>3, <2>4, CallMoves
      <4>2. Pending(i)
        BY <2>1, <3>3, <4>1 DEF Pending, Gathered, IInv, RelayedOnce
      <4>3. ~Pending(i)'
        BY <2>1, <3>3, <4>1 DEF Pending
      <4> QED
        BY <1>0, <2>2, <3>1, <3>3, <4>2, <4>3
    <3> QED
      BY <3>2, <3>3
  <2>5. CASE SendLost(e)
    <3> SUFFICES ASSUME NEW i \in Items
                 PROVE  /\ IsFiniteSet(CopiesOf(i)')
                        /\ Cardinality(CopiesOf(i)') <=
                               lost' + (IF Pending(i)' THEN 0 ELSE 1)
      BY DEF CopiesCounted
    <3>1. Deliver(e) /\ lost' = lost + 1
      BY <2>5 DEF SendLost
    <3> QED
      BY <1>0, <2>2, <3>1
  <2> QED
    BY <1>3, <2>3, <2>4, <2>5 DEF OnAlbum
<1>4. ASSUME NEW i \in Items, DeleteMirror(i), lost' = lost
      PROVE  CopiesCounted'
  <2>1. /\ DOMAIN mirror' = DOMAIN mirror
        /\ \A j \in DOMAIN mirror : mirror'[j].origin = mirror[j].origin
    BY <1>0, <1>4, DeleteStep
  <2> QED
    BY <1>1, <1>4, <2>1 DEF CopiesOf
<1>5. ASSUME NEW i \in Items, Removal(i)
      PROVE  CopiesCounted'
  BY <1>2, <1>4, <1>5 DEF Removal
<1> QED
  BY <1>2, <1>3, <1>5, TwoParts DEF vars, relayVars, allVars
------------------------------------------------------------------------------
(* What is saved as long as nothing fails. *)

\* The rows of the items of events[e] that its call has passed.
Saved(e) ==
    /\ relay[e].at = "save" =>
           /\ Len(relay[e].ids) >= Len(ItemsOf(e))
           /\ \A k \in 1..Len(ItemsOf(e)) : k < relay[e].next =>
                  \E r \in rows : r.src = ItemsOf(e)[k]
    /\ relay[e].at = "done" /\ resolved =>
           \A i \in events[e] : \E r \in rows : r.src = i

NoFaultInv ==
    faults = 0 => /\ ~disabled
                  /\ \A r \in rows : r.dst # 0
                  /\ \A e \in DOMAIN events : Saved(e)

\* A failure is counted for good.
LEMMA FaultsStay ==
    ASSUME Gathered, RelayInv, [AlbumNext]_allVars, faults' = 0
    PROVE  UNCHANGED faults
<1>1. faults \in Nat
  BY AlbumRelayAssumption DEF RelayInv, RelayTypeOK
<1> QED
  BY <1>1
     DEF AlbumNext, OnAlbum, Removal, Begin, Load, LoadFails, Send, SendFails,
         SendLost, SaveItem, Fault, relayVars, allVars

LEMMA SavedStays ==
    ASSUME NEW e \in DOMAIN events, Saved(e), e \in DOMAIN events',
           events'[e] = events[e], relay'[e] = relay[e], rows \subseteq rows',
           resolved' = resolved
    PROVE  Saved(e)'
<1>1. ItemsOf(e)' = ItemsOf(e)
  BY DEF ItemsOf
<1> QED
  BY <1>1 DEF Saved

LEMMA NoFaultStep ==
    ASSUME Gathered, RelayInv, MappedInv, NoFaultInv, [AlbumNext]_allVars
    PROVE  NoFaultInv'
<1> SUFFICES ASSUME faults' = 0
             PROVE  /\ ~disabled'
                    /\ \A r \in rows' : r.dst # 0
                    /\ \A e \in DOMAIN events' : Saved(e)'
  BY DEF NoFaultInv
<1>0. /\ faults' = faults /\ faults = 0
      /\ ~disabled /\ \A r \in rows : r.dst # 0
      /\ \A e \in DOMAIN events : Saved(e)
  BY FaultsStay DEF NoFaultInv
<1>1. CASE Next /\ UNCHANGED relayVars
  <2>1. /\ DOMAIN events \subseteq DOMAIN events'
        /\ \A e \in DOMAIN events : events'[e] = events[e]
    BY <1>1, EventsStep DEF Gathered
  <2>2. Gathered' /\ DOMAIN events' \subseteq Calls
    BY <1>1, GatheredStep, Disjoint DEF Gathered, IInv, TypeOK, RelayedOnce, FullBuffers
  <2>3. ASSUME NEW e \in DOMAIN events'
        PROVE  Saved(e)'
    <3>1. CASE e \in DOMAIN events
      BY <1>0, <1>1, <2>1, <3>1, SavedStays DEF relayVars
    <3>2. CASE e \notin DOMAIN events
      BY <1>1, <2>2, <3>2 DEF RelayInv, relayVars, Saved
    <3> QED
      BY <3>1, <3>2
  <2> QED
    BY <1>0, <1>1, <2>3 DEF relayVars
<1>2. ASSUME NEW e \in Calls, OnAlbum(e), UNCHANGED <<vars, calling, resolved>>
      PROVE  /\ ~disabled'
             /\ \A r \in rows' : r.dst # 0
             /\ \A d \in DOMAIN events' : Saved(d)'
  <2> DEFINE n == Len(ItemsOf(e))
             k == relay[e].next
  <2>1. /\ e \in DOMAIN events /\ UNCHANGED <<events, resolved>>
        /\ \A d \in DOMAIN events : d # e => relay'[d] = relay[d]
    BY <1>2, OtherCalls DEF vars
  <2>2. ItemsOf(e)' = ItemsOf(e)
    BY <2>1 DEF ItemsOf
  <2>3. rows \subseteq rows'
    BY <1>2 DEF OnAlbum, Begin, Load, LoadFails, Send, SendFails, SendLost, SaveItem
  <2>4. \A d \in DOMAIN events : d # e => Saved(d)'
    BY <1>0, <2>1, <2>3, SavedStays
  <2>5. ~Fault
    BY <1>0 DEF Fault
  <2>6. CASE Begin(e) \/ Load(e)
    <3>1. relay'[e].at # "save" /\ (relay'[e].at = "done" => ~resolved)
      BY <1>0, <1>2, <2>6, CallMoves
    <3>2. Saved(e)'
      BY <2>1, <3>1 DEF Saved
    <3> QED
      BY <1>0, <2>1, <2>4, <2>6, <3>2 DEF Begin, Load
  <2>7. CASE Send(e)
    <3>1. PICK ids \in {extractAlbumMessageIDs(Answer(e))} \cup ShortAnswers(e) :
              Sent(e, ids)
      BY <2>7 DEF Send
    <3>2. /\ relay'[e].at = "save" /\ relay'[e].next = 1
      BY <2>1, <2>7, <3>1, SentIsAnswered DEF Send
    <3>3. Sent(e, extractAlbumMessageIDs(Answer(e)))
      BY <2>5, <2>7 DEF Send
    <3>4. Len(relay'[e].ids) >= n
      <4> DEFINE all == extractAlbumMessageIDs(Answer(e))
      <4>1. relay'[e].ids = all
        BY <2>1, <2>7, <3>3, SentIsAnswered DEF Send
      <4>2. Len(all) = 2 * n
        BY <2>1, AnswerIds DEF RelayInv
      <4>3. n \in Nat
        BY <2>1, AlbumFacts
      <4> QED
        BY <4>1, <4>2, <4>3
    <3>5. Saved(e)'
      BY <2>2, <3>2, <3>4 DEF Saved
    <3> QED
      BY <1>0, <2>1, <2>4, <2>7, <3>5 DEF Send
  <2>8. CASE SaveItem(e)
    <3>1. /\ relay[e].at = "save" /\ k \in 1..n /\ n \in Nat
          /\ relay[e].ids \in Seq(Nat)
      BY <1>2, <2>1, <2>8, CallMoves, AlbumFacts DEF RelayInv, RelayTypeOK, Call
    <3>2. /\ Len(relay[e].ids) >= n
          /\ \A l \in 1..n : l < k => \E r \in rows : r.src = ItemsOf(e)[l]
      BY <1>0, <2>1, <3>1 DEF Saved
    <3>3. rows' = IF \E r \in rows : r.src = ItemsOf(e)[k] THEN rows
                  ELSE rows \cup {[src |-> ItemsOf(e)[k], dst |-> TargetId(e, k)]}
      BY <2>5, <2>8 DEF SaveItem
    <3>4. \E r \in rows' : r.src = ItemsOf(e)[k]
      <4>1. [src |-> ItemsOf(e)[k], dst |-> TargetId(e, k)].src = ItemsOf(e)[k]
        OBVIOUS
      <4> QED
        BY <3>3, <4>1, Zenon
    <3>5. \A l \in 1..n : l <= k => \E r \in rows' : r.src = ItemsOf(e)[l]
      <4> SUFFICES ASSUME NEW l \in 1..n, l <= k
                   PROVE  \E r \in rows' : r.src = ItemsOf(e)[l]
        OBVIOUS
      <4>1. l < k \/ l = k
        BY <3>1
      <4> QED
        BY <2>3, <3>2, <3>4, <4>1
    <3>6. TargetId(e, k) # 0
      <4>1. k <= Len(relay[e].ids)
        BY <3>1, <3>2
      <4>2. relay[e].ids[k] \in DOMAIN mirror
        BY <2>1, <3>1, <4>1 DEF MappedInv, Answered
      <4>3. 0 \notin DOMAIN mirror
        BY DEF RelayInv, RelayTypeOK
      <4> QED
        BY <4>1, <4>2, <4>3 DEF TargetId
    <3>7. \A r \in rows' : r.dst # 0
      BY <1>0, <3>3, <3>6
    <3>8. Saved(e)'
      <4>1. CASE k = n
        <5>1. relay'[e].at = "done"
          BY <1>2, <2>8, <4>1, CallMoves
        <5>2. \A i \in events[e] : \E l \in 1..n : ItemsOf(e)[l] = i
          BY <2>1, AlbumFacts, SortedItems
        <5>3. \A l \in 1..n : l <= k
          BY <3>1, <4>1
        <5>4. \A i \in events[e] : \E r \in rows' : r.src = i
          BY <3>5, <5>2, <5>3
        <5> QED
          BY <2>1, <5>1, <5>4 DEF Saved
      <4>2. CASE k # n
        <5>1. /\ relay'[e].at = "save" /\ relay'[e].ids = relay[e].ids
              /\ relay'[e].next = k + 1
          BY <1>2, <2>8, <4>2, CallMoves
        <5>2. \A l \in 1..n : l < k + 1 => l <= k
          BY <3>1
        <5> QED
          BY <2>2, <3>2, <3>5, <5>1, <5>2 DEF Saved
      <4> QED
        BY <4>1, <4>2
    <3> QED
      BY <1>0, <2>1, <2>4, <2>8, <3>7, <3>8 DEF SaveItem
  <2> QED
    BY <1>2, <2>5, <2>6, <2>7, <2>8 DEF OnAlbum, LoadFails, SendFails, SendLost
<1>3. CASE UNCHANGED <<events, rows, relay, disabled, resolved>>
  BY <1>0, <1>3, SavedStays
<1> QED
  BY <1>1, <1>2, <1>3, TwoParts DEF Removal, allVars, vars, relayVars
------------------------------------------------------------------------------
(* Theorems. *)

AlbumInv == Gathered /\ RelayInv /\ MappedInv /\ CopiesCounted /\ NoFaultInv

LEMMA AlbumInvInit ==
    ASSUME AlbumInit
    PROVE  AlbumInv
<1>1. /\ Gathered
      /\ DOMAIN events = {} /\ DOMAIN mirror = {} /\ rows = {} /\ lost = 0
  <2>1. events = <<>> /\ mirror = <<>> /\ rows = {} /\ lost = 0
    BY DEF AlbumInit, Init
  <2> QED
    BY <2>1, GatheredInit
<1>2. RelayInv
  <2>1. \A e \in Calls : relay[e] = Fresh
    BY DEF AlbumInit
  <2>2. relay \in [Calls -> Call] /\ Fresh.at = "none"
    BY Calling DEF AlbumInit, Fresh
  <2>3. /\ mirror \in Seq(Message) /\ rows \in SUBSET Row
        /\ removed \in SUBSET Items /\ faults \in 0..MaxFaults /\ lost \in 0..faults
        /\ disabled \in BOOLEAN /\ resolved \in BOOLEAN /\ calling \in Nat
    <3>1. /\ mirror = <<>> /\ rows = {} /\ removed = {} /\ faults = 0 /\ lost = 0
          /\ disabled = FALSE /\ resolved \in BOOLEAN /\ calling = 0
      BY DEF AlbumInit
    <3>2. <<>> \in Seq(Message)
      OBVIOUS
    <3>3. 0 \in 0..MaxFaults
      BY AlbumRelayAssumption
    <3>4. mirror \in Seq(Message) /\ faults \in 0..MaxFaults /\ lost \in 0..faults
      BY <3>1, <3>2, <3>3
    <3> QED
      BY <3>1, <3>4
  <2> QED
    BY <1>1, <2>1, <2>2, <2>3 DEF RelayInv, RelayTypeOK, Message, Row
<1>3. MappedInv /\ NoFaultInv
  BY <1>1 DEF AlbumInit, MappedInv, NoFaultInv, ItemsMapped
<1>4. CopiesCounted
  <2>1. \A i \in Items : CopiesOf(i) = {}
    BY <1>1 DEF CopiesOf
  <2> QED
    BY <1>1, <2>1, FS_EmptySet DEF CopiesCounted
<1> QED
  BY <1>1, <1>2, <1>3, <1>4 DEF AlbumInv

LEMMA AlbumInvStep ==
    ASSUME AlbumInv, [AlbumNext]_allVars
    PROVE  AlbumInv'
BY GatheredStep, RelayInvStep, MappedStep, CountStep, NoFaultStep DEF AlbumInv

LEMMA AlbumInvariant == AlbumSpec => []AlbumInv
<1>1. AlbumInit => AlbumInv
  BY AlbumInvInit
<1>2. AlbumInv /\ [AlbumNext]_allVars => AlbumInv'
  BY AlbumInvStep
<1> QED
  BY <1>1, <1>2, PTL DEF AlbumSpec

\* Whatever OnAlbum does meanwhile, the client gathers albums as it does by
\* itself: what holds of Album holds here.
THEOREM GathersAsAlbum == AlbumSpec => Spec
<1>1. AlbumInit => Init
  BY DEF AlbumInit
<1>2. [AlbumNext]_allVars => [Next]_vars
  BY TwoParts DEF allVars
<1> QED
  BY <1>1, <1>2, PTL DEF AlbumSpec, Spec

\* The calls, the copies and the rows keep their types: a call that saves has
\* an item to save.
THEOREM RelayTyping == AlbumSpec => []RelayTypeOK
<1>1. AlbumInv => RelayTypeOK
  BY DEF AlbumInv, RelayInv
<1> QED
  BY <1>1, AlbumInvariant, PTL

\* For any number of items, answers that are lost or name only part of the
\* copies, refusals, retries and deletions: a row leads to the copy of its own
\* item, or nowhere (extractAlbumMessageIDs, and the loop over the items).
THEOREM RowsAreOfTheirItems == AlbumSpec => []ItemsMapped
<1>1. AlbumInv => ItemsMapped
  BY DEF AlbumInv, MappedInv
<1> QED
  BY <1>1, AlbumInvariant, PTL

\* Only a lost answer makes a second copy of an item, and each of them one: not
\* the timers, not the limit, not a late item, not a row that is not saved.
THEOREM NoSecondCopy == AlbumSpec => []CopiedOnce
<1>1. AlbumInv => CopiedOnce
  <2> SUFFICES ASSUME AlbumInv, NEW i \in Items
               PROVE  Cardinality(CopiesOf(i)) <= 1 + lost
    BY DEF CopiedOnce
  <2>1. /\ lost \in Nat /\ Cardinality(CopiesOf(i)) \in Nat
        /\ Cardinality(CopiesOf(i)) <= lost + (IF Pending(i) THEN 0 ELSE 1)
    BY FS_CardinalityType DEF AlbumInv, RelayInv, RelayTypeOK, CopiesCounted
  <2> QED
    BY <2>1
<1> QED
  BY <1>1, AlbumInvariant, PTL

\* Without a failure, an item of a full album that was handed over is deleted in
\* the target chat when it is deleted in its own: the goroutine of the chat
\* comes to the deletion when OnAlbum has saved every row.
THEOREM DeletionsFollow == AlbumSpec => FullAlbumsFollowDeletions
<1> DEFINE Follows ==
        resolved /\ calling # 0 /\ faults' = 0 =>
            \A i \in removed' \ removed :
                /\ CopiesOf(i)' # {}
                /\ \A j \in CopiesOf(i)' : ~mirror'[j].alive
<1>1. ASSUME AlbumInv, [AlbumNext]_allVars
      PROVE  [Follows]_allVars
  <2> SUFFICES ASSUME resolved, calling # 0, faults' = 0,
                      NEW i \in removed' \ removed
               PROVE  /\ CopiesOf(i)' # {}
                      /\ \A j \in CopiesOf(i)' : ~mirror'[j].alive
    OBVIOUS
  <2>1. /\ faults = 0 /\ lost = 0 /\ mirror \in Seq(Message)
        /\ Gathered /\ RelayInv /\ NoFaultInv /\ ItemsMapped
    BY <1>1, FaultsStay
       DEF AlbumInv, MappedInv, RelayInv, RelayTypeOK, Message
  <2>2. /\ ~disabled /\ \A r \in rows : r.dst # 0
        /\ calling \in DOMAIN events /\ events[calling] = Items /\ Saved(calling)
    BY <2>1 DEF NoFaultInv, Gathered, CallingInv
  <2>3. removed' # removed
    OBVIOUS
  <2>4. \A e \in Calls : ~OnAlbum(e)
    BY <2>1, <2>3, CallEffects
  <2>5. PICK k \in Items : Removal(k)
    BY <1>1, <2>3, <2>4, TwoParts DEF relayVars, allVars
  <2>6. k = i /\ i \in Items /\ DeleteMirror(i) /\ relay[calling].at = "done"
    BY <2>1, <2>2, <2>5 DEF Removal, Free, Fault
  <2>7. PICK r \in rows : r.src = i
    BY <2>2, <2>6 DEF Saved
  <2>8. r.dst \in CopiesOf(i)
    BY <2>1, <2>2, <2>7 DEF ItemsMapped
  <2>9. CopiesOf(i)' = CopiesOf(i) /\ ~mirror'[r.dst].alive
    <3>1. /\ DOMAIN mirror' = DOMAIN mirror
          /\ \A j \in DOMAIN mirror : mirror'[j].origin = mirror[j].origin
          /\ r.dst \in DOMAIN mirror => ~mirror'[r.dst].alive
      BY <2>1, <2>6, <2>7, DeleteStep
    <3> QED
      BY <2>8, <3>1 DEF CopiesOf
  <2>10. CopiesOf(i) = {r.dst}
    <3>1. IsFiniteSet(CopiesOf(i)) /\ Cardinality(CopiesOf(i)) \in Nat
      BY <1>1, <2>6, FS_CardinalityType DEF AlbumInv, CopiesCounted
    <3>2. Cardinality(CopiesOf(i)) <= 1
      BY <1>1, <2>1, <2>6, <3>1 DEF AlbumInv, CopiesCounted
    <3>3. {r.dst} \in SUBSET CopiesOf(i) /\ Cardinality({r.dst}) = 1
      BY <2>8, FS_Singleton
    <3>4. Cardinality(CopiesOf(i)) = 1
      BY <3>1, <3>2, <3>3, FS_Subset
    <3> QED
      BY <3>1, <3>3, <3>4, FS_Subset
  <2> QED
    BY <2>9, <2>10
<1> QED
  BY <1>1, AlbumInvariant, PTL DEF AlbumSpec, FullAlbumsFollowDeletions
==============================================================================
