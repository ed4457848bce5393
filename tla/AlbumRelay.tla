------------------------------ MODULE AlbumRelay ------------------------------
(***************************************************************************)
(* What becomes of an album that Album puts together: OnAlbum downloads    *)
(* and uploads its items in parallel, sends them as one album and saves a  *)
(* row per item, while members delete items and OnMessageDeleted looks for *)
(* these rows.                                                             *)
(*                                                                         *)
(* OnAlbum runs where flushAlbum runs.  A full album is relayed in the     *)
(* goroutine of the chat, which handles nothing else meanwhile; any other  *)
(* album in the goroutine of its timer, next to everything else.           *)
(***************************************************************************)
EXTENDS Album, Retry

CONSTANTS
    Attempts,   \* how often an item is downloaded; the code has 3
    MaxFaults,  \* how many calls fail
    MaxRemovals \* how many items members delete

ASSUME AlbumRelayAssumption ==
    /\ Items \subseteq Nat /\ Attempts \in Nat \ {0}
    /\ MaxFaults \in Nat /\ MaxRemovals \in Nat

VARIABLES
    relay,      \* relay[e]: OnAlbum for events[e]
    mirror,     \* the messages of the target chat; an id is a position
    rows,       \* the rows of the items, [src, dst]
    disabled,   \* the pair is disabled
    resolved,   \* the target chat has a peer
    calling,    \* the event the goroutine of the chat relays, or relayed
    removed,    \* items whose deletion was handled
    faults,     \* calls that failed
    lost        \* those that did what they were asked for

relayVars == <<relay, mirror, rows, disabled, resolved, removed, faults, lost>>

allVars == <<vars, relayVars, calling>>

Calls == 1..Cardinality(Items)

\* next is the item to save, ids what the answer said.
Call == [at : {"none", "load", "send", "save", "done"}, tries : [Items -> 0..(Attempts - 1)],
         retry : RetryState, ids : Seq(Nat), next : Nat]

RelayTypeOK ==
    /\ relay \in [Calls -> Call]
    /\ \A e \in DOMAIN events : relay[e].at = "save" =>
                                   relay[e].next \in 1..Cardinality(events[e])
    /\ mirror \in Seq([origin : Items, alive : BOOLEAN])
    /\ rows \in SUBSET [src : Items, dst : Nat]
    /\ disabled \in BOOLEAN /\ resolved \in BOOLEAN
    /\ calling \in Nat
    /\ removed \in SUBSET Items
    /\ faults \in 0..MaxFaults /\ lost \in 0..faults
------------------------------------------------------------------------------
At(e, step) == e \in DOMAIN events /\ relay[e].at = step

\* The items of album e, sorted by message id (convertAlbumEvent); all of them
\* have media, without which convertAlbumEvent would skip them.
Place(i, S) == Cardinality({j \in S : j <= i})

ItemsOf(e) == [k \in 1..Cardinality(events[e]) |->
                  CHOOSE i \in events[e] : Place(i, events[e]) = k]

Fresh == [at |-> "none", tries |-> [i \in Items |-> 0], retry |-> FreshRetry,
          ids |-> <<>>, next |-> 0]

\* The call goes on at step, and forgets what it needs no more.
Enter(e, step) == relay' = [relay EXCEPT ![e] = [Fresh EXCEPT !.at = step]]

Return(e) == Enter(e, "done")

Fault == faults < MaxFaults /\ faults' = faults + 1

\* A pair that is disabled, or whose other chat has no peer, is not served.  The
\* albums of this module come from members of configured chats, so that the
\* filter IsRelevant, the first guard of OnAlbum, lets all of them pass.
Begin(e) ==
    /\ At(e, "none")
    /\ Enter(e, IF disabled \/ ~resolved THEN "done" ELSE "load")
    /\ UNCHANGED <<mirror, rows, disabled, removed, faults, lost>>

\* Every item that is not there yet arrives and is uploaded.
Load(e) ==
    /\ At(e, "load")
    /\ Enter(e, "send")
    /\ UNCHANGED <<mirror, rows, disabled, removed, faults, lost>>

\* A download fails and is tried again, an item that fails Attempts times
\* fails the album, and so does an upload, which is not tried again.
LoadFails(e) ==
    /\ At(e, "load")
    /\ Fault
    /\ \/ \E i \in events[e] :
              IF relay[e].tries[i] + 1 < Attempts
              THEN relay' = [relay EXCEPT ![e].tries[i] = @ + 1]
              ELSE Return(e)
       \/ Return(e)
    /\ UNCHANGED <<mirror, rows, disabled, removed, lost>>
------------------------------------------------------------------------------
Deliver(e) == mirror' = mirror \o [k \in 1..Len(ItemsOf(e)) |->
                                      [origin |-> ItemsOf(e)[k], alive |-> TRUE]]

NewIds(e) == [k \in 1..Len(ItemsOf(e)) |-> Len(mirror) + k]

\* Telegram's answer: the ids it assigned, in the order of the items, and the
\* new messages.
Answer(e) ==
    LET named(kind) == [k \in DOMAIN NewIds(e) |-> [kind |-> kind, id |-> NewIds(e)[k]]]
    IN  named("UpdateMessageID") \o named("UpdateNewMessage")

\* Or an answer that names only the first ones of them, or none.
ShortAnswers(e) ==
    {SubSeq(NewIds(e), 1, k) : k \in 0..(Len(ItemsOf(e)) - 1)}

\* The ids of the answer, one for each update that has one.
extractAlbumMessageIDs(answer) == [k \in DOMAIN answer |-> answer[k].id]

Sent(e, ids) ==
    relay' = [relay EXCEPT ![e] = [Fresh EXCEPT !.at = "save", !.next = 1, !.ids = ids]]

Send(e) ==
    /\ At(e, "send")
    /\ Deliver(e)
    /\ \/ Sent(e, extractAlbumMessageIDs(Answer(e))) /\ UNCHANGED faults
       \/ Fault /\ \E ids \in ShortAnswers(e) : Sent(e, ids)
    /\ UNCHANGED <<rows, disabled, removed, lost>>

AttemptFails(e, error) ==
    LET verdict == Verdict(relay[e].retry, error)
    IN  /\ IF verdict = "again"
           THEN relay' = [relay EXCEPT ![e].retry = NextTry(@, error)]
           ELSE Return(e)
        /\ disabled' = (disabled \/ verdict = "ErrChatForbidden")

SendFails(e) ==
    /\ At(e, "send")
    /\ Fault
    /\ \E error \in Errors : AttemptFails(e, error)
    /\ UNCHANGED <<mirror, rows, removed, lost>>

\* Telegram takes the album but the answer is lost.
SendLost(e) ==
    /\ At(e, "send")
    /\ Fault
    /\ AttemptFails(e, "transient")
    /\ Deliver(e)
    /\ lost' = lost + 1
    /\ UNCHANGED <<rows, removed>>
------------------------------------------------------------------------------
\* Mutant of TargetId: as for a single message, the first id is taken.
TargetIdFirst(e, k) == IF relay[e].ids = <<>> THEN 0 ELSE relay[e].ids[1]

\* The id saved for item k, 0 if the answer has too few.
TargetId(e, k) == IF k <= Len(relay[e].ids) THEN relay[e].ids[k] ELSE 0

\* Mutants of NextItem: the rest of the items is left out, or one is expected
\* that is not there.
NextItemReturns(e) == Return(e)

NextItemPast(e) == IF relay[e].next > Len(ItemsOf(e))
                   THEN Return(e)
                   ELSE relay' = [relay EXCEPT ![e].next = @ + 1]

NextItem(e) == IF relay[e].next = Len(ItemsOf(e))
               THEN Return(e)
               ELSE relay' = [relay EXCEPT ![e].next = @ + 1]

\* Mutant of SaveItem: an item whose row fails is sent again.
SaveItemOrSend(e) ==
    LET k == relay[e].next
    IN  /\ At(e, "save")
        /\ \/ /\ rows' = rows \cup {[src |-> ItemsOf(e)[k], dst |-> TargetId(e, k)]}
              /\ NextItem(e) /\ UNCHANGED faults
           \/ /\ Fault /\ UNCHANGED rows
              /\ Enter(e, "send")
        /\ UNCHANGED <<mirror, disabled, removed, lost>>

\* A row that fails, or exists already, is skipped.
SaveItem(e) ==
    LET k == relay[e].next
        item == ItemsOf(e)[k]
    IN  /\ At(e, "save")
        /\ \/ /\ rows' = IF \E r \in rows : r.src = item THEN rows
                         ELSE rows \cup {[src |-> item, dst |-> TargetId(e, k)]}
              /\ UNCHANGED faults
           \/ Fault /\ UNCHANGED rows
        /\ NextItem(e)
        /\ UNCHANGED <<mirror, disabled, removed, lost>>

OnAlbum(e) ==
    \/ Begin(e) \/ Load(e) \/ LoadFails(e) \/ Send(e) \/ SendFails(e)
    \/ SendLost(e) \/ SaveItem(e)
------------------------------------------------------------------------------
\* The goroutine of the chat is not inside OnAlbum.
Free == handler.at = "idle" /\ (calling # 0 => relay[calling].at = "done")

\* What OnMessageDeleted does for item i: find the row, delete the message.
DeleteMirror(i) ==
    LET found == {r.dst : r \in {q \in rows : q.src = i}} \cap DOMAIN mirror
    IN  mirror' = [j \in DOMAIN mirror |->
                      IF j \in found THEN [mirror[j] EXCEPT !.alive = FALSE]
                                     ELSE mirror[j]]

\* Mutant of Removal: the goroutine of the chat does not wait for a full album.
RemovalAtOnce(i) ==
    /\ handler.at = "idle" /\ i \in arrived \ removed /\ ~disabled
    /\ removed' = removed \cup {i}
    /\ DeleteMirror(i)
    /\ UNCHANGED <<relay, rows, disabled, faults, lost>>

\* A member deletes item i, and the update that says so is handled.
Removal(i) ==
    /\ Free /\ i \in arrived \ removed /\ Cardinality(removed) < MaxRemovals
    /\ removed' = removed \cup {i}
    /\ \/ ~disabled /\ DeleteMirror(i) /\ UNCHANGED faults
       \/ disabled /\ UNCHANGED <<mirror, faults>>
       \/ ~disabled /\ Fault /\ UNCHANGED mirror
    /\ UNCHANGED <<relay, rows, disabled, lost>>
------------------------------------------------------------------------------
Gathering ==
    \/ Free /\ (\E i \in Items : Arrive(i)) /\ UNCHANGED calling
    \/ (AppendItem \/ StopTimer \/ TakeNow) /\ UNCHANGED calling
    \/ EmitNow /\ calling' = Len(events')

AlbumNext ==
    \/ (Gathering \/ (Timers /\ UNCHANGED calling)) /\ UNCHANGED relayVars
    \/ /\ (\E e \in Calls : OnAlbum(e)) \/ (\E i \in Items : Removal(i))
       /\ UNCHANGED <<vars, calling, resolved>>

AlbumInit ==
    /\ Init
    /\ relay = [e \in Calls |-> Fresh]
    /\ mirror = <<>> /\ rows = {} /\ disabled = FALSE
    /\ resolved \in BOOLEAN
    /\ calling = 0 /\ removed = {}
    /\ faults = 0 /\ lost = 0

\* As FairSpec of Album, and the calls of OnAlbum run.
AlbumSpec ==
    /\ AlbumInit /\ [][AlbumNext]_allVars
    /\ WF_allVars(Gathering /\ UNCHANGED relayVars)
    /\ WF_allVars(Timers /\ UNCHANGED <<relayVars, calling>>)
    /\ \A e \in Calls : WF_allVars(OnAlbum(e) /\ UNCHANGED <<vars, calling, resolved>>)
------------------------------------------------------------------------------
(* Properties. *)

CopiesOf(i) == {j \in DOMAIN mirror : mirror[j].origin = i}

\* Whatever part of the calls fails, a row leads to the copy of its own item,
\* or nowhere: the ids of the answer are never paired with the wrong items
\* (extractAlbumMessageIDs, "one per album item").
ItemsMapped ==
    \A r \in rows : r.dst # 0 => r.dst \in CopiesOf(r.src)

\* Nothing but a lost answer makes a second copy of an item: neither the
\* timers and the limit together, nor retries, nor rows that fail to be saved.
CopiedOnce == \A i \in Items : Cardinality(CopiesOf(i)) <= 1 + lost

\* Once an album was full and handed over, the deletion of an item waits for it:
\* its copy is there by then, and goes.  (Items deleted while an album gathers, or
\* while it is relayed from its timer, are not found: their copies stay.)
FullAlbumsFollowDeletions ==
    [][resolved /\ calling # 0 /\ faults' = 0 =>
           \A i \in removed' \ removed :
               /\ CopiesOf(i)' # {}
               /\ \A j \in CopiesOf(i)' : ~mirror'[j].alive]_allVars

\* If nothing fails and no item is late, every item gets a copy, and a row that
\* leads there.
AlbumMirrored ==
    <>(early \/ faults > 0 \/ ~resolved \/
       \A i \in Items : \E j \in CopiesOf(i) : [src |-> i, dst |-> j] \in rows)
==============================================================================
