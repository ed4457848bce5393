-------------------------------- MODULE Album --------------------------------
(***************************************************************************)
(* How tg.Client puts the items of one album together: handleAlbumMessage  *)
(* runs in the goroutine of the updates of the chat, one item at a time,   *)
(* and flushAlbum there or in the goroutine of a timer.                    *)
(*                                                                         *)
(* A buffer is a pointer that outlives its entry in the albums map, so     *)
(* buffers are numbered in the order they are stored and albums holds the  *)
(* number of the current one.                                              *)
(***************************************************************************)
EXTENDS Naturals, Sequences, FiniteSets

CONSTANTS
    Items,      \* the messages of the album
    Limit       \* the most items an album has; the code has 10

ASSUME AlbumAssumption ==
    /\ IsFiniteSet(Items) /\ Items # {}
    /\ Limit \in Nat \ {0} /\ Cardinality(Items) <= Limit

VARIABLES
    arrived,    \* items that were delivered
    handler,    \* handleAlbumMessage: its step, item and buffer
    albums,     \* the buffer in the map, 0 if there is none
    buffers,    \* every buffer ever stored
    fired,      \* timer goroutines that did not look at the map yet
    taken,      \* buffers that timer goroutines took from the map
    events,     \* history: the albums handed to OnAlbum
    early       \* history: a timer fired while items were missing

vars == <<arrived, handler, albums, buffers, fired, taken, events, early>>
------------------------------------------------------------------------------
Buffer == [items : SUBSET Items, timer : {"none", "armed", "off"}]

Handler == [at : {"idle", "append", "limit", "flush", "emit"},
            item : SUBSET Items, buf : Nat]

Idle == [at |-> "idle", item |-> {}, buf |-> 0]

TypeOK ==
    /\ arrived \in SUBSET Items
    /\ handler \in Handler
    /\ buffers \in Seq(Buffer)
    /\ albums \in 0..Len(buffers)
    /\ fired \in Nat
    /\ taken \in SUBSET (1..Len(buffers))
    /\ events \in Seq(SUBSET Items)
    /\ early \in BOOLEAN
------------------------------------------------------------------------------
(* handleAlbumMessage *)

\* LoadOrStore: the buffer of the album, stored now if there is none.
Arrive(i) ==
    /\ handler.at = "idle" /\ i \notin arrived
    /\ arrived' = arrived \cup {i}
    /\ \/ albums # 0 /\ UNCHANGED <<albums, buffers>>
       \/ /\ albums = 0
          /\ buffers' = Append(buffers, [items |-> {}, timer |-> "none"])
          /\ albums' = Len(buffers')
    /\ handler' = [at |-> "append", item |-> {i}, buf |-> albums']
    /\ UNCHANGED <<fired, taken, events, early>>

\* Mutant of AppendItem: the limit is one item short.
AppendItemShort ==
    LET b == handler.buf
        all == buffers[b].items \cup handler.item
    IN  /\ handler.at = "append"
        /\ buffers' = [buffers EXCEPT ![b] = [items |-> all, timer |-> "armed"]]
        /\ handler' = IF Cardinality(all) >= Limit - 1
                      THEN [handler EXCEPT !.at = "limit"]
                      ELSE Idle
        /\ UNCHANGED <<arrived, albums, fired, taken, events, early>>

\* The item joins the buffer and the quiet period starts again, whether the
\* timer is running or has fired.
AppendItem ==
    LET b == handler.buf
        all == buffers[b].items \cup handler.item
    IN  /\ handler.at = "append"
        /\ buffers' = [buffers EXCEPT ![b] = [items |-> all, timer |-> "armed"]]
        /\ handler' = IF Cardinality(all) >= Limit
                      THEN [handler EXCEPT !.at = "limit"]
                      ELSE Idle
        /\ UNCHANGED <<arrived, albums, fired, taken, events, early>>

\* A full album does not wait, unless its timer has fired already.
StopTimer ==
    /\ handler.at = "limit"
    /\ \/ /\ buffers[handler.buf].timer = "armed"
          /\ buffers' = [buffers EXCEPT ![handler.buf].timer = "off"]
          /\ handler' = [handler EXCEPT !.at = "flush"]
       \/ /\ buffers[handler.buf].timer # "armed"
          /\ handler' = Idle
          /\ UNCHANGED buffers
    /\ UNCHANGED <<arrived, albums, fired, taken, events, early>>

(* flushAlbum: take the buffer from the map, then copy what it holds. *)

Emit(b) == events' = IF buffers[b].items = {} THEN events
                     ELSE Append(events, buffers[b].items)

TakeNow ==
    /\ handler.at = "flush"
    /\ handler' = IF albums = 0 THEN Idle
                  ELSE [handler EXCEPT !.at = "emit", !.buf = albums]
    /\ albums' = 0
    /\ UNCHANGED <<arrived, buffers, fired, taken, events, early>>

EmitNow ==
    /\ handler.at = "emit"
    /\ Emit(handler.buf)
    /\ handler' = Idle
    /\ UNCHANGED <<arrived, albums, buffers, fired, taken, early>>

\* The quiet period of buffer b is over.
Fire(b) ==
    /\ buffers[b].timer = "armed"
    /\ buffers' = [buffers EXCEPT ![b].timer = "off"]
    /\ fired' = fired + 1
    /\ early' = (early \/ UNION {buffers[j].items : j \in DOMAIN buffers} # Items)
    /\ UNCHANGED <<arrived, handler, albums, taken, events>>

\* Mutants of Take: it does not look whether there is a buffer, or leaves the
\* buffer in the map.
TakeAnyway ==
    /\ fired > 0 /\ fired' = fired - 1
    /\ taken' = taken \cup {albums} /\ albums' = 0
    /\ UNCHANGED <<arrived, handler, buffers, events, early>>

TakeAndKeep ==
    /\ fired > 0 /\ fired' = fired - 1
    /\ taken' = IF albums = 0 THEN taken ELSE taken \cup {albums}
    /\ UNCHANGED <<arrived, handler, albums, buffers, events, early>>

Take ==
    /\ fired > 0
    /\ fired' = fired - 1
    /\ taken' = IF albums = 0 THEN taken ELSE taken \cup {albums}
    /\ albums' = 0
    /\ UNCHANGED <<arrived, handler, buffers, events, early>>

EmitTaken(b) ==
    /\ Emit(b)
    /\ taken' = taken \ {b}
    /\ UNCHANGED <<arrived, handler, albums, buffers, fired, early>>
------------------------------------------------------------------------------
Handling ==
    \/ \E i \in Items : Arrive(i)
    \/ AppendItem \/ StopTimer \/ TakeNow \/ EmitNow

Timers ==
    \/ \E b \in DOMAIN buffers : Fire(b)
    \/ Take
    \/ \E b \in taken : EmitTaken(b)

Next == Handling \/ Timers

Init ==
    /\ arrived = {}
    /\ handler = Idle
    /\ albums = 0
    /\ buffers = <<>>
    /\ fired = 0
    /\ taken = {}
    /\ events = <<>>
    /\ early = FALSE

Spec == Init /\ [][Next]_vars

\* Telegram delivers every item of an album, timers fire and goroutines run.
FairSpec == Spec /\ WF_vars(Handling) /\ WF_vars(Timers)
------------------------------------------------------------------------------
(* Properties. *)

\* No item is handed to OnAlbum twice, however the limit, the timers and late
\* items fall together (LoadAndDelete hands a buffer to one flush only).
RelayedOnce ==
    \A i, j \in DOMAIN events : i # j => events[i] \cap events[j] = {}

\* An album whose items all arrive within the quiet period is relayed as one
\* album (ARCHITECTURE.md §7: it is split when more than 500 ms pass between
\* items).
WholeUnlessSlow == <>(early \/ events = <<Items>>)

\* Every item is relayed in the end, as README.md:183 says of the split albums
\* ("Не критично, все медиа доставлены").
AllDelivered ==
    <>(\A i \in Items : \E e \in DOMAIN events : i \in events[e])
==============================================================================
