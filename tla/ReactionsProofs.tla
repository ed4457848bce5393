--------------------------- MODULE ReactionsProofs ---------------------------
(***************************************************************************)
(* What accounts show is one aggregate of a counterpart, and the aggregates *)
(* are mirrored in their order - for any rows, accounts, emojis and        *)
(* settings of the chats, whatever fails and however often sessions end.   *)
(***************************************************************************)
EXTENDS Reactions, TLAPS

\* A call of OnReactions works on an update that is still to be handled, on
\* the standard part of its aggregate, and addresses a counterpart.
HandlerInv ==
    \A k \in Messages :
        /\ ~At(k, "idle") => Pending(k)
        /\ handler[k].at \in {"source", "target", "send"}
               => handler[k].set = StandardSet(Current(k))
        /\ At(k, "send") => k \in Counterparts(handler[k].to)

\* f places the sets that a mirrored because of k among the aggregates of k,
\* none beyond the next one to be handled.
Places(a, k, f) ==
    /\ f \in [1..Len(sent[a][k]) -> 1..Len(log[k])]
    /\ \A i, j \in DOMAIN f : i < j => f[i] <= f[j]
    /\ \A i \in DOMAIN f : sent[a][k][i] = StandardSet(log[k][f[i]])
    /\ \A i \in DOMAIN f : f[i] <= seen[k] + 1

Placed == \A a \in Accounts, k \in Messages : \E f : Places(a, k, f)

IInv == TypeOK /\ HandlerInv /\ OneSnapshot /\ Placed
------------------------------------------------------------------------------
LEMMA FreshTry == FreshRetry \in RetryState
BY RetriesAssumption DEF FreshRetry, RetryState

LEMMA NextTryType ==
    ASSUME NEW s \in RetryState, NEW e \in Errors, Verdict(s, e) = "again"
    PROVE  NextTry(s, e) \in RetryState
<1>1. CASE e = "flood"
  BY <1>1, RetriesAssumption DEF RetryState, NextTry
<1>2. CASE e # "flood"
  <2>1. ~s.flooded
    BY DEF Verdict
  <2>2. e # "forbidden"
    BY <2>1 DEF Verdict
  <2>3. s.attempt < MaxRetries
    BY <1>2, <2>1, <2>2 DEF Verdict
  <2> QED
    BY <1>2, <2>3, RetriesAssumption DEF RetryState, NextTry
<1> QED
  BY <1>1, <1>2

\* findReactionMirror finds counterparts, in either direction.
LEMMA BothWays ==
    ASSUME TypeOK, NEW k \in Messages
    PROVE  /\ \A r \in FindBySource(rows, k[1], k[2]) :
                  /\ <<r.dstChat, r.dst>> \in Messages
                  /\ k \in Counterparts(<<r.dstChat, r.dst>>)
           /\ \A r \in FindByTarget(rows, k[1], k[2]) :
                  /\ <<r.srcChat, r.src>> \in Messages
                  /\ k \in Counterparts(<<r.srcChat, r.src>>)
<1>1. k = <<k[1], k[2]>>
  BY DEF Messages
<1>2. rows \subseteq Rows
  BY DEF TypeOK
<1>3. ASSUME NEW r \in FindBySource(rows, k[1], k[2])
      PROVE  /\ <<r.dstChat, r.dst>> \in Messages
             /\ k \in Counterparts(<<r.dstChat, r.dst>>)
  BY <1>1, <1>2, <1>3 DEF FindBySource, FindByTarget, Messages, Counterparts
<1>4. ASSUME NEW r \in FindByTarget(rows, k[1], k[2])
      PROVE  /\ <<r.srcChat, r.src>> \in Messages
             /\ k \in Counterparts(<<r.srcChat, r.src>>)
  BY <1>1, <1>2, <1>4 DEF FindBySource, FindByTarget, Messages, Counterparts
<1> QED
  BY <1>3, <1>4

\* The aggregate an update brings, reduced to standard emojis.
LEMMA CurrentType ==
    ASSUME TypeOK, NEW k \in Messages, Pending(k)
    PROVE  /\ seen[k] + 1 \in 1..Len(log[k])
           /\ Current(k) \in SUBSET Emojis
           /\ StandardSet(Current(k)) \in SUBSET Standard
<1>1. seen[k] + 1 \in 1..Len(log[k]) /\ log[k] \in Seq(SUBSET Emojis)
  BY DEF TypeOK, Pending
<1> QED
  BY <1>1 DEF Current, StandardSet
------------------------------------------------------------------------------
(* Steps that leave what is shown alone.                                   *)

\* The log of a message grows at its end, and seen does not fall.
Grows ==
    \A k \in Messages :
        /\ Len(log[k]) \in Nat /\ Len(log'[k]) \in Nat
        /\ Len(log[k]) <= Len(log'[k])
        /\ \A n \in 1..Len(log[k]) : log'[k][n] = log[k][n]
        /\ seen[k] \in Nat /\ seen'[k] \in Nat /\ seen[k] <= seen'[k]

LEMMA SameLog ==
    ASSUME TypeOK, UNCHANGED <<log, seen>>
    PROVE  Grows
BY DEF TypeOK, Grows

LEMMA ShownStays ==
    ASSUME IInv, Grows, UNCHANGED <<own, sent>>
    PROVE  OneSnapshot' /\ Placed'
<1>1. OneSnapshot'
  <2> SUFFICES ASSUME NEW a \in Accounts, NEW k \in Messages, own[a][k] # {}
               PROVE  \E c \in Counterparts(k) : \E n \in 1..Len(log'[c]) :
                          own[a][k] = StandardSet(log'[c][n])
    BY DEF OneSnapshot
  <2>1. PICK c \in Counterparts(k) : \E n \in 1..Len(log[c]) :
            own[a][k] = StandardSet(log[c][n])
    BY DEF IInv, OneSnapshot
  <2>2. c \in Messages
    BY DEF Counterparts, Messages, FindBySource, FindByTarget
  <2>3. PICK n \in 1..Len(log[c]) : own[a][k] = StandardSet(log[c][n])
    BY <2>1
  <2>4. n \in 1..Len(log'[c]) /\ log'[c][n] = log[c][n]
    BY <2>2 DEF Grows
  <2> QED
    BY <2>3, <2>4
<1>2. Placed'
  <2> SUFFICES ASSUME NEW a \in Accounts, NEW k \in Messages
               PROVE  \E f : Places(a, k, f)'
    BY DEF Placed
  <2>1. PICK f : Places(a, k, f)
    BY DEF IInv, Placed
  <2>2. f \in [1..Len(sent[a][k]) -> 1..Len(log'[k])]
    <3>1. 1..Len(log[k]) \subseteq 1..Len(log'[k])
      BY DEF Grows
    <3> QED
      BY <2>1, <3>1 DEF Places
  <2>3. \A i \in DOMAIN f : /\ sent[a][k][i] = StandardSet(log'[k][f[i]])
                            /\ f[i] <= seen'[k] + 1
    <3> SUFFICES ASSUME NEW i \in DOMAIN f
                 PROVE  /\ sent[a][k][i] = StandardSet(log'[k][f[i]])
                        /\ f[i] <= seen'[k] + 1
      OBVIOUS
    <3>1. /\ f[i] \in 1..Len(log[k]) /\ f[i] <= seen[k] + 1
          /\ sent[a][k][i] = StandardSet(log[k][f[i]])
      BY <2>1 DEF Places
    <3>2. log'[k][f[i]] = log[k][f[i]]
      BY <3>1 DEF Grows
    <3>3. f[i] \in Nat /\ seen[k] \in Nat /\ seen'[k] \in Nat /\ seen[k] <= seen'[k]
      BY <3>1 DEF Grows
    <3> QED
      BY <3>1, <3>2, <3>3
  <2>4. Places(a, k, f)'
    BY <2>1, <2>2, <2>3 DEF Places
  <2> QED
    BY <2>4
<1> QED
  BY <1>1, <1>2
------------------------------------------------------------------------------
(* A call that reaches Telegram.                                           *)

LEMMA CallShows ==
    ASSUME IInv, NEW k \in Messages, At(k, "send"), Reaches(k),
           UNCHANGED <<log, seen, active>>
    PROVE  /\ own' \in [Accounts -> [Messages -> SUBSET Standard]]
           /\ sent' \in [Accounts -> [Messages -> Seq(SUBSET Standard)]]
           /\ OneSnapshot' /\ Placed'
<1> DEFINE to == handler[k].to
           set == handler[k].set
           n == seen[k] + 1
<1>1. /\ to \in Messages /\ set \in SUBSET Standard /\ active \in Accounts
      /\ own \in [Accounts -> [Messages -> SUBSET Standard]]
      /\ sent \in [Accounts -> [Messages -> Seq(SUBSET Standard)]]
  BY DEF IInv, TypeOK, Handler
<1>2. /\ Pending(k) /\ set = StandardSet(log[k][n]) /\ k \in Counterparts(to)
  BY DEF IInv, HandlerInv, At, Current
<1>3. n \in 1..Len(log[k]) /\ seen[k] \in Nat /\ Len(log[k]) \in Nat
  BY <1>2, CurrentType DEF IInv, TypeOK
<1>4. own' = [own EXCEPT ![active][to] = set]
  BY DEF Reaches
<1>5. sent' = [sent EXCEPT ![active][k] = Append(@, set)]
  BY DEF Reaches
<1> HIDE DEF to, set
<1>6. \A a \in Accounts, m \in Messages :
          own'[a][m] = IF a = active /\ m = to THEN set ELSE own[a][m]
  BY <1>1, <1>4
<1>7. \A a \in Accounts, m \in Messages :
          sent'[a][m] = IF a = active /\ m = k THEN Append(sent[a][m], set)
                                              ELSE sent[a][m]
  BY <1>1, <1>5
<1>8. own' \in [Accounts -> [Messages -> SUBSET Standard]]
  BY <1>1, <1>4
<1>9. sent' \in [Accounts -> [Messages -> Seq(SUBSET Standard)]]
  <2>1. Append(sent[active][k], set) \in Seq(SUBSET Standard)
    BY <1>1
  <2> QED
    BY <1>1, <1>5, <2>1
<1>10. OneSnapshot'
  <2> SUFFICES ASSUME NEW a \in Accounts, NEW m \in Messages, own'[a][m] # {}
               PROVE  \E c \in Counterparts(m) : \E i \in 1..Len(log[c]) :
                          own'[a][m] = StandardSet(log[c][i])
    BY DEF OneSnapshot
  <2>1. CASE a = active /\ m = to
    BY <1>2, <1>3, <1>6, <2>1
  <2>2. CASE ~(a = active /\ m = to)
    BY <1>6, <2>2 DEF IInv, OneSnapshot
  <2> QED
    BY <2>1, <2>2
<1>11. Placed'
  <2> SUFFICES ASSUME NEW a \in Accounts, NEW m \in Messages
               PROVE  \E f : Places(a, m, f)'
    BY DEF Placed
  <2>1. PICK f : Places(a, m, f)
    BY DEF IInv, Placed
  <2>2. CASE ~(a = active /\ m = k)
    <3>1. sent'[a][m] = sent[a][m]
      BY <1>7, <2>2
    <3>2. Places(a, m, f)'
      BY <2>1, <3>1 DEF Places
    <3> QED
      BY <3>2
  <2>3. CASE a = active /\ m = k
    <3> DEFINE s == sent[a][k]
               g == [i \in 1..(Len(s) + 1) |-> IF i = Len(s) + 1 THEN n ELSE f[i]]
    <3>1. s \in Seq(SUBSET Standard) /\ Len(s) \in Nat
      BY <1>1
    <3>2. sent'[a][k] = Append(s, set)
      BY <1>7, <2>3
    <3> HIDE DEF s
    <3>3. Len(Append(s, set)) = Len(s) + 1
      BY <1>1, <3>1
    <3>4. /\ Append(s, set)[Len(s) + 1] = set
          /\ \A i \in 1..Len(s) : Append(s, set)[i] = s[i]
      BY <1>1, <3>1
    <3>5. /\ f \in [1..Len(s) -> 1..Len(log[k])]
          /\ \A i, j \in 1..Len(s) : i < j => f[i] <= f[j]
          /\ \A i \in 1..Len(s) : s[i] = StandardSet(log[k][f[i]]) /\ f[i] <= n
      BY <2>1, <2>3 DEF Places, s
    <3> HIDE DEF n
    <3>6. \A i \in DOMAIN g : i \in 1..Len(s) \/ i = Len(s) + 1
      BY <3>1
    <3>7. g \in [1..(Len(s) + 1) -> 1..Len(log[k])]
      BY <1>3, <3>5, <3>6
    <3>8. \A i, j \in DOMAIN g : i < j => g[i] <= g[j]
      <4> SUFFICES ASSUME NEW i \in DOMAIN g, NEW j \in DOMAIN g, i < j
                   PROVE  g[i] <= g[j]
        OBVIOUS
      <4>1. i \in 1..Len(s) /\ g[i] = f[i]
        BY <3>1, <3>6
      <4>2. CASE j = Len(s) + 1
        BY <3>5, <4>1, <4>2
      <4>3. CASE j \in 1..Len(s)
        BY <3>1, <3>5, <4>1, <4>3
      <4> QED
        BY <3>6, <4>2, <4>3
    <3>9. \A i \in DOMAIN g : /\ Append(s, set)[i] = StandardSet(log[k][g[i]])
                              /\ g[i] <= n
      <4> SUFFICES ASSUME NEW i \in DOMAIN g
                   PROVE  /\ Append(s, set)[i] = StandardSet(log[k][g[i]])
                          /\ g[i] <= n
        OBVIOUS
      <4>1. CASE i = Len(s) + 1
        <5>1. g[i] = n
          BY <4>1
        <5> QED
          BY <1>2, <1>3, <3>4, <4>1, <5>1
      <4>2. CASE i \in 1..Len(s)
        <5>1. g[i] = f[i]
          BY <3>1, <4>2
        <5> QED
          BY <3>4, <3>5, <4>2, <5>1
      <4> QED
        BY <3>6, <4>1, <4>2
    <3>10. DOMAIN g = 1..(Len(s) + 1)
      OBVIOUS
    <3> HIDE DEF g
    <3> PICK h : h = g
      OBVIOUS
    <3>11. /\ log' = log /\ seen' = seen /\ n = seen[k] + 1
           /\ sent'[a][m] = Append(s, set) /\ m = k
      BY <2>3, <3>2 DEF n
    <3>12. h \in [1..Len(sent'[a][m]) -> 1..Len(log'[m])]
      BY <3>3, <3>7, <3>11
    <3>13. /\ \A i \in DOMAIN h : sent'[a][m][i] = StandardSet(log'[m][h[i]])
           /\ \A i \in DOMAIN h : h[i] <= seen'[m] + 1
      BY <3>9, <3>11
    <3>14. Places(a, m, h)'
      BY <3>8, <3>12, <3>13 DEF Places
    <3> QED
      BY <3>14
  <2> QED
    BY <2>2, <2>3
<1> QED
  BY <1>8, <1>9, <1>10, <1>11

------------------------------------------------------------------------------
(* The steps of Next.                                                      *)

\* A step of the call about k that keeps the rest of the state's shape.
LEMMA HandlerMoves ==
    ASSUME IInv, NEW k \in Messages, NEW h \in Handler,
           handler' = [handler EXCEPT ![k] = h],
           UNCHANGED <<log, seen>>,
           h.at # "idle" => Pending(k),
           h.at \in {"source", "target", "send"}
               => h.set = StandardSet(Current(k)),
           h.at = "send" => k \in Counterparts(h.to)
    PROVE  handler' \in [Messages -> Handler] /\ HandlerInv'
<1>1. \A m \in Messages : handler'[m] = IF m = k THEN h ELSE handler[m]
  BY DEF IInv, TypeOK
<1>2. handler' \in [Messages -> Handler]
  BY DEF IInv, TypeOK
<1>3. \A m \in Messages : /\ Pending(m)' <=> Pending(m)
                          /\ Current(m)' = Current(m)
  BY DEF Pending, Current
<1>4. HandlerInv'
  BY <1>1, <1>3 DEF IInv, HandlerInv, At
<1> QED
  BY <1>2, <1>4

LEMMA LookStep ==
    ASSUME IInv, NEW k \in Messages, Look(k)
    PROVE  IInv'
<1> DEFINE set == StandardSet(Current(k))
           h == [handler[k] EXCEPT
                    !.at = IF set = cache[k] THEN "done" ELSE "source",
                    !.set = set]
<1>1. set \in SUBSET Standard
  BY CurrentType DEF Look, IInv
<1>2. handler[k] \in Handler
  BY DEF IInv, TypeOK
<1>3. handler' = [handler EXCEPT ![k] = h]
  BY <1>2 DEF Look
<1> HIDE DEF set
<1>4. h \in Handler /\ h.at \in {"done", "source"} /\ h.set = set
  BY <1>1, <1>2 DEF Handler
<1> HIDE DEF h
<1>5. handler' \in [Messages -> Handler] /\ HandlerInv'
  BY <1>3, <1>4, HandlerMoves DEF Look, set
<1>6. cache' \in [Messages -> SUBSET Standard]
  BY <1>1 DEF Look, IInv, TypeOK, set
<1>7. TypeOK'
  BY <1>5, <1>6 DEF Look, IInv, TypeOK
<1>8. OneSnapshot' /\ Placed'
  BY SameLog, ShownStays DEF Look, IInv
<1> QED
  BY <1>5, <1>7, <1>8 DEF IInv

\* The call returns without having changed anything.
LEMMA Returned ==
    ASSUME IInv, NEW k \in Messages, ~At(k, "idle"), Return(k),
           UNCHANGED <<log, seen>>
    PROVE  handler' \in [Messages -> Handler] /\ HandlerInv'
<1> DEFINE h == [handler[k] EXCEPT !.at = "done"]
<1>1. handler[k] \in Handler /\ Pending(k)
  BY DEF IInv, TypeOK, HandlerInv
<1>2. handler' = [handler EXCEPT ![k] = h]
  BY <1>1 DEF Return
<1>3. h \in Handler /\ h.at = "done"
  BY <1>1 DEF Handler
<1> HIDE DEF h
<1> QED
  BY <1>1, <1>2, <1>3, HandlerMoves

LEMMA FoundStep ==
    ASSUME IInv, NEW k \in Messages, NEW to \in Messages, Found(k, to),
           k \in Counterparts(to), handler[k].at \in {"source", "target"},
           UNCHANGED <<log, seen>>
    PROVE  handler' \in [Messages -> Handler] /\ HandlerInv'
<1>1. /\ handler[k] \in Handler /\ Pending(k) /\ ~At(k, "idle")
      /\ handler[k].set = StandardSet(Current(k))
  BY DEF IInv, TypeOK, HandlerInv, At
<1>2. CASE to[1] \in peers
  <2> DEFINE h == [handler[k] EXCEPT !.at = "send", !.to = to]
  <2>1. handler' = [handler EXCEPT ![k] = h]
    BY <1>1, <1>2 DEF Found
  <2>2. h \in Handler /\ h.at = "send" /\ h.to = to /\ h.set = handler[k].set
    BY <1>1 DEF Handler
  <2> HIDE DEF h
  <2> QED
    BY <1>1, <2>1, <2>2, HandlerMoves
<1>3. CASE to[1] \notin peers
  BY <1>1, <1>3, Returned DEF Found
<1> QED
  BY <1>2, <1>3

LEMMA FindMirrorStep ==
    ASSUME IInv, NEW k \in Messages, FindMirror(k)
    PROVE  IInv'
<1>1. /\ UNCHANGED <<users, own, log, seen, cache, rows, active, peers, sent,
                     reacts>>
      /\ handler[k].at = "source"
  BY DEF FindMirror, At
<1>2. happened' \in SUBSET Events
  BY DEF FindMirror, Happens, IInv, TypeOK, Events, Failures
<1>3. handler' \in [Messages -> Handler] /\ HandlerInv'
  <2>1. CASE \E r \in FindBySource(rows, k[1], k[2]) :
                 Found(k, <<r.dstChat, r.dst>>)
    <3>1. PICK r \in FindBySource(rows, k[1], k[2]) :
              Found(k, <<r.dstChat, r.dst>>)
      BY <2>1
    <3> QED
      BY <1>1, <3>1, BothWays, FoundStep DEF IInv
  <2>2. CASE handler' = [handler EXCEPT ![k].at = "target"]
    <3> DEFINE h == [handler[k] EXCEPT !.at = "target"]
    <3>1. /\ handler[k] \in Handler /\ Pending(k)
          /\ handler[k].set = StandardSet(Current(k))
      BY <1>1 DEF IInv, TypeOK, HandlerInv, At
    <3>2. handler' = [handler EXCEPT ![k] = h]
      BY <2>2, <3>1
    <3>3. h \in Handler /\ h.at = "target" /\ h.set = handler[k].set
      BY <3>1 DEF Handler
    <3> HIDE DEF h
    <3> QED
      BY <1>1, <3>1, <3>2, <3>3, HandlerMoves
  <2>3. CASE Return(k)
    BY <1>1, <2>3, Returned DEF At
  <2> QED
    BY <2>1, <2>2, <2>3 DEF FindMirror
<1>4. TypeOK'
  BY <1>1, <1>2, <1>3 DEF IInv, TypeOK
<1>5. OneSnapshot' /\ Placed'
  BY <1>1, SameLog, ShownStays DEF IInv
<1> QED
  BY <1>3, <1>4, <1>5 DEF IInv

LEMMA FindOriginalStep ==
    ASSUME IInv, NEW k \in Messages, FindOriginal(k)
    PROVE  IInv'
<1>1. /\ UNCHANGED <<users, own, log, seen, cache, rows, active, peers, sent,
                     reacts>>
      /\ handler[k].at = "target"
  BY DEF FindOriginal, At
<1>2. happened' \in SUBSET Events
  BY DEF FindOriginal, Happens, IInv, TypeOK, Events, Failures
<1>3. handler' \in [Messages -> Handler] /\ HandlerInv'
  <2>1. CASE \E r \in FindByTarget(rows, k[1], k[2]) :
                 Found(k, <<r.srcChat, r.src>>)
    <3>1. PICK r \in FindByTarget(rows, k[1], k[2]) :
              Found(k, <<r.srcChat, r.src>>)
      BY <2>1
    <3> QED
      BY <1>1, <3>1, BothWays, FoundStep DEF IInv
  <2>2. CASE Return(k)
    BY <1>1, <2>2, Returned DEF At
  <2> QED
    BY <2>1, <2>2 DEF FindOriginal
<1>4. TypeOK'
  BY <1>1, <1>2, <1>3 DEF IInv, TypeOK
<1>5. OneSnapshot' /\ Placed'
  BY <1>1, SameLog, ShownStays DEF IInv
<1> QED
  BY <1>3, <1>4, <1>5 DEF IInv

\* Whatever withRetry does with an error.
LEMMA Failed ==
    ASSUME IInv, NEW k \in Messages, At(k, "send"), NEW e \in Errors,
           AttemptFails(k, e), UNCHANGED <<log, seen>>
    PROVE  handler' \in [Messages -> Handler] /\ HandlerInv'
<1>1. /\ handler[k] \in Handler /\ Pending(k) /\ handler[k].at = "send"
      /\ handler[k].set = StandardSet(Current(k))
      /\ k \in Counterparts(handler[k].to)
  BY DEF IInv, TypeOK, HandlerInv, At
<1>2. CASE Verdict(handler[k].retry, e) = "again"
  <2> DEFINE h == [handler[k] EXCEPT !.retry = NextTry(@, e)]
  <2>1. handler' = [handler EXCEPT ![k] = h]
    BY <1>1, <1>2 DEF AttemptFails
  <2>2. NextTry(handler[k].retry, e) \in RetryState
    BY <1>1, <1>2, NextTryType DEF Handler
  <2>3. /\ h \in Handler /\ h.at = "send" /\ h.set = handler[k].set
        /\ h.to = handler[k].to
    BY <1>1, <2>2 DEF Handler
  <2> HIDE DEF h
  <2> QED
    BY <1>1, <2>1, <2>3, HandlerMoves
<1>3. CASE Verdict(handler[k].retry, e) # "again"
  BY <1>1, <1>3, Returned DEF AttemptFails, At
<1> QED
  BY <1>2, <1>3

LEMMA SendStep ==
    ASSUME IInv, NEW k \in Messages, Send(k)
    PROVE  IInv'
<1>1. /\ UNCHANGED <<users, log, seen, cache, rows, active, peers, reacts,
                     happened>>
      /\ At(k, "send") /\ Return(k)
  BY DEF Send
<1>2. handler' \in [Messages -> Handler] /\ HandlerInv'
  BY <1>1, Returned DEF At
<1>3. /\ own' \in [Accounts -> [Messages -> SUBSET Standard]]
      /\ sent' \in [Accounts -> [Messages -> Seq(SUBSET Standard)]]
      /\ OneSnapshot' /\ Placed'
  <2>1. CASE Permits(k)
    BY <1>1, <2>1, CallShows DEF Send
  <2>2. CASE ~Permits(k)
    <3>1. UNCHANGED <<own, sent>>
      BY <2>2 DEF Send
    <3>2. Grows
      BY <1>1, SameLog DEF IInv
    <3>3. OneSnapshot' /\ Placed'
      BY <3>1, <3>2, ShownStays
    <3> QED
      BY <3>1, <3>3 DEF IInv, TypeOK
  <2> QED
    BY <2>1, <2>2
<1>4. TypeOK'
  BY <1>1, <1>2, <1>3 DEF IInv, TypeOK
<1> QED
  BY <1>2, <1>3, <1>4 DEF IInv

LEMMA SendFailsStep ==
    ASSUME IInv, NEW k \in Messages, SendFails(k)
    PROVE  IInv'
<1>1. /\ UNCHANGED <<users, own, log, seen, cache, rows, active, peers, sent,
                     reacts>>
      /\ At(k, "send")
  BY DEF SendFails
<1>2. PICK e \in Errors : Happens(e) /\ AttemptFails(k, e)
  BY DEF SendFails
<1>3. handler' \in [Messages -> Handler] /\ HandlerInv'
  BY <1>1, <1>2, Failed
<1>4. happened' \in SUBSET Events
  BY <1>2 DEF Happens, IInv, TypeOK, Events, Failures
<1>5. TypeOK'
  BY <1>1, <1>3, <1>4 DEF IInv, TypeOK
<1>6. OneSnapshot' /\ Placed'
  BY <1>1, SameLog, ShownStays DEF IInv
<1> QED
  BY <1>3, <1>5, <1>6 DEF IInv

LEMMA SendLostStep ==
    ASSUME IInv, NEW k \in Messages, SendLost(k)
    PROVE  IInv'
<1>1. /\ UNCHANGED <<users, log, seen, cache, rows, active, peers, reacts>>
      /\ At(k, "send") /\ Reaches(k) /\ Happens("lost")
      /\ AttemptFails(k, "transient")
  BY DEF SendLost
<1>2. "transient" \in Errors
  BY DEF Errors
<1>3. handler' \in [Messages -> Handler] /\ HandlerInv'
  BY <1>1, <1>2, Failed
<1>4. /\ own' \in [Accounts -> [Messages -> SUBSET Standard]]
      /\ sent' \in [Accounts -> [Messages -> Seq(SUBSET Standard)]]
      /\ OneSnapshot' /\ Placed'
  BY <1>1, CallShows
<1>5. happened' \in SUBSET Events
  BY <1>1 DEF Happens, IInv, TypeOK, Events, Failures
<1>6. TypeOK'
  BY <1>1, <1>3, <1>4, <1>5 DEF IInv, TypeOK
<1> QED
  BY <1>3, <1>4, <1>6 DEF IInv

LEMMA FinishStep ==
    ASSUME IInv, NEW k \in Messages, Finish(k)
    PROVE  IInv'
<1>1. /\ UNCHANGED <<users, own, log, cache, rows, active, peers, sent, reacts,
                     happened>>
      /\ At(k, "done") /\ Pending(k)
  BY DEF Finish, IInv, HandlerInv, At
<1>2. /\ seen' = [seen EXCEPT ![k] = @ + 1]
      /\ handler' = [handler EXCEPT ![k] = Idle(k)]
  BY DEF Finish
<1>3. Idle(k) \in Handler /\ Idle(k).at = "idle"
  BY FreshTry DEF Idle, Handler
<1>4. handler' \in [Messages -> Handler]
  BY <1>2, <1>3 DEF IInv, TypeOK
<1>5. \A m \in Messages :
          /\ handler'[m] = IF m = k THEN Idle(k) ELSE handler[m]
          /\ seen'[m] = IF m = k THEN seen[k] + 1 ELSE seen[m]
  BY <1>2 DEF IInv, TypeOK
<1>6. seen' \in [Messages -> Nat] /\ \A m \in Messages : seen'[m] <= Len(log[m])
  <2>1. seen[k] \in Nat /\ Len(log[k]) \in Nat /\ seen[k] + 1 <= Len(log[k])
    BY <1>1 DEF IInv, TypeOK, Pending
  <2> QED
    BY <1>2, <1>5, <2>1 DEF IInv, TypeOK
<1>7. TypeOK'
  BY <1>1, <1>4, <1>6 DEF IInv, TypeOK
<1>8. HandlerInv'
  BY <1>1, <1>3, <1>5 DEF IInv, HandlerInv, At, Pending, Current
<1>9. Grows
  <2>1. \A m \in Messages : /\ Len(log[m]) \in Nat /\ seen[m] \in Nat
                            /\ seen'[m] \in Nat /\ seen[m] <= seen'[m]
    <3> SUFFICES ASSUME NEW m \in Messages
                 PROVE  /\ Len(log[m]) \in Nat /\ seen[m] \in Nat
                        /\ seen'[m] \in Nat /\ seen[m] <= seen'[m]
      OBVIOUS
    <3>1. seen[m] \in Nat /\ log[m] \in Seq(SUBSET Emojis)
      BY DEF IInv, TypeOK
    <3>2. seen'[m] = seen[m] + 1 \/ seen'[m] = seen[m]
      BY <1>5
    <3> QED
      BY <3>1, <3>2
  <2> QED
    BY <1>1, <2>1 DEF Grows
<1>10. OneSnapshot' /\ Placed'
  BY <1>1, <1>9, ShownStays
<1> QED
  BY <1>7, <1>8, <1>10 DEF IInv

LEMMA ReactStep ==
    ASSUME IInv, NEW k \in Messages, NEW e \in Emojis, React(k, e)
    PROVE  IInv'
<1>1. /\ UNCHANGED <<own, seen, cache, handler, rows, active, peers, sent,
                     happened>>
      /\ reacts' \in Nat
  BY DEF React, IInv, TypeOK
<1>2. users' \in [Messages -> SUBSET Emojis]
  BY DEF React, IInv, TypeOK
<1> DEFINE x == Aggregate(k, users'[k])
<1>3. x \in SUBSET Emojis
  BY <1>2 DEF Aggregate, Emojis, IInv, TypeOK
<1>4. log' = [log EXCEPT ![k] = Append(@, x)]
  BY DEF React
<1> HIDE DEF x
<1>5. log[k] \in Seq(SUBSET Emojis) /\ log \in [Messages -> Seq(SUBSET Emojis)]
  BY DEF IInv, TypeOK
<1>6. /\ Append(log[k], x) \in Seq(SUBSET Emojis)
      /\ Len(Append(log[k], x)) = Len(log[k]) + 1 /\ Len(log[k]) \in Nat
      /\ \A n \in 1..Len(log[k]) : Append(log[k], x)[n] = log[k][n]
  BY <1>3, <1>5
<1>7. /\ log' \in [Messages -> Seq(SUBSET Emojis)]
      /\ \A m \in Messages :
             log'[m] = IF m = k THEN Append(log[k], x) ELSE log[m]
  BY <1>4, <1>5, <1>6
<1>8. Grows
  <2> SUFFICES ASSUME NEW m \in Messages
               PROVE  /\ Len(log[m]) \in Nat /\ Len(log'[m]) \in Nat
                      /\ Len(log[m]) <= Len(log'[m])
                      /\ \A n \in 1..Len(log[m]) : log'[m][n] = log[m][n]
    BY <1>1 DEF Grows, IInv, TypeOK
  <2>1. log[m] \in Seq(SUBSET Emojis) /\ Len(log[m]) \in Nat
    BY <1>5
  <2>2. CASE m = k
    BY <1>6, <1>7, <2>1, <2>2
  <2>3. CASE m # k
    BY <1>7, <2>1, <2>3
  <2> QED
    BY <2>2, <2>3
<1>9. \A m \in Messages : seen'[m] <= Len(log'[m])
  BY <1>1, <1>8 DEF Grows, IInv, TypeOK
<1>10. TypeOK'
  BY <1>1, <1>2, <1>7, <1>9 DEF IInv, TypeOK
<1>11. \A m \in Messages : Pending(m) => Pending(m)' /\ Current(m)' = Current(m)
  <2> SUFFICES ASSUME NEW m \in Messages, Pending(m)
               PROVE  Pending(m)' /\ Current(m)' = Current(m)
    OBVIOUS
  <2>1. seen[m] + 1 \in 1..Len(log[m]) /\ seen[m] \in Nat
    BY CurrentType DEF IInv, TypeOK
  <2>2. seen' = seen /\ log'[m][seen[m] + 1] = log[m][seen[m] + 1]
    BY <1>1, <1>8, <2>1 DEF Grows
  <2>3. seen[m] < Len(log'[m])
    BY <1>8, <2>1 DEF Grows
  <2> QED
    BY <2>2, <2>3 DEF Pending, Current
<1>12. HandlerInv'
  BY <1>1, <1>11 DEF IInv, HandlerInv, At
<1>13. OneSnapshot' /\ Placed'
  BY <1>1, <1>8, ShownStays
<1> QED
  BY <1>10, <1>12, <1>13 DEF IInv

LEMMA RestartStep ==
    ASSUME IInv, NEW a \in Accounts, NEW resolved \in PeerSets,
           NEW missed \in SUBSET Messages, Restart(a, resolved, missed)
    PROVE  IInv'
<1>1. /\ UNCHANGED <<users, own, log, rows, sent, reacts>>
      /\ active' = a /\ peers' = resolved
  BY DEF Restart
<1>2. peers' \in SUBSET Chats /\ happened' \in SUBSET Events
  BY <1>1, ReactionsAssumption
     DEF Restart, Happens, IInv, TypeOK, Events, Failures
<1>3. cache' \in [Messages -> SUBSET Standard]
  BY DEF Restart
<1>4. \A m \in Messages : handler'[m] = Idle(m)
  BY DEF Restart
<1>5. \A m \in Messages : Idle(m) \in Handler /\ Idle(m).at = "idle"
  BY FreshTry DEF Idle, Handler
<1>6. handler' \in [Messages -> Handler]
  BY <1>5 DEF Restart
<1>7. \A m \in Messages : /\ seen[m] \in Nat /\ Len(log[m]) \in Nat
                          /\ seen[m] <= Len(log[m])
  BY DEF IInv, TypeOK
<1>8. /\ seen' \in [Messages -> Nat]
      /\ \A m \in Messages : seen[m] <= seen'[m] /\ seen'[m] <= Len(log[m])
  <2>1. seen' = [m \in Messages |->
                     IF m \in missed THEN Len(log[m]) ELSE seen[m]]
    BY DEF Restart
  <2> QED
    BY <1>7, <2>1
<1>9. TypeOK'
  BY <1>1, <1>2, <1>3, <1>6, <1>8 DEF IInv, TypeOK
<1>10. HandlerInv'
  BY <1>4, <1>5 DEF HandlerInv, At
<1>11. Grows
  BY <1>1, <1>7, <1>8 DEF Grows
<1>12. OneSnapshot' /\ Placed'
  BY <1>1, <1>11, ShownStays
<1> QED
  BY <1>9, <1>10, <1>12 DEF IInv

\* Steps that touch neither logs nor calls.
LEMMA QuietStep ==
    ASSUME IInv, UNCHANGED <<log, seen, handler, own, sent>>, TypeOK'
    PROVE  IInv'
<1>1. HandlerInv'
  BY DEF IInv, HandlerInv, At, Pending, Current
<1>2. OneSnapshot' /\ Placed'
  BY SameLog, ShownStays DEF IInv
<1> QED
  BY <1>1, <1>2 DEF IInv
------------------------------------------------------------------------------
LEMMA Initially == Init => IInv
<1> SUFFICES ASSUME Init PROVE IInv
  OBVIOUS
<1>1. \A k \in Messages : Idle(k) \in Handler /\ Idle(k).at = "idle"
  BY FreshTry DEF Idle, Handler
<1>2. handler \in [Messages -> Handler]
  BY <1>1 DEF Init
<1>3. peers \in SUBSET Chats
  BY ReactionsAssumption DEF Init
<1>4. \A k \in Messages : seen[k] = 0 /\ log[k] = <<>> /\ Len(log[k]) = 0
  BY DEF Init
<1>5. TypeOK
  BY <1>2, <1>3, <1>4 DEF Init, TypeOK
<1>6. HandlerInv
  BY <1>1 DEF Init, HandlerInv, At
<1>7. OneSnapshot
  BY DEF Init, OneSnapshot
<1>8. Placed
  <2> SUFFICES ASSUME NEW a \in Accounts, NEW k \in Messages
               PROVE  \E f : Places(a, k, f)
    BY DEF Placed
  <2>1. sent[a][k] = <<>> /\ Len(sent[a][k]) = 0
    BY DEF Init
  <2> DEFINE f == [i \in 1..0 |-> 1]
  <2>2. Places(a, k, f)
    BY <2>1 DEF Places
  <2> QED
    BY <2>2
<1> QED
  BY <1>5, <1>6, <1>7, <1>8 DEF IInv

LEMMA Steps == IInv /\ [Next]_vars => IInv'
<1> SUFFICES ASSUME IInv, [Next]_vars PROVE IInv'
  OBVIOUS
<1>1. CASE UNCHANGED vars
  <2>1. TypeOK'
    BY <1>1 DEF vars, IInv, TypeOK
  <2> QED
    BY <1>1, <2>1, QuietStep DEF vars
<1>2. ASSUME NEW k \in Messages, NEW e \in Emojis, React(k, e) PROVE IInv'
  BY <1>2, ReactStep
<1>3. ASSUME NEW r \in Rows, Save(r) PROVE IInv'
  <2>1. TypeOK'
    BY <1>3 DEF Save, Happens, IInv, TypeOK, Events, Failures
  <2> QED
    BY <1>3, <2>1, QuietStep DEF Save
<1>4. ASSUME NEW k \in Messages, Evict(k) PROVE IInv'
  <2>1. TypeOK'
    BY <1>4 DEF Evict, Happens, IInv, TypeOK, Events, Failures
  <2> QED
    BY <1>4, <2>1, QuietStep DEF Evict
<1>5. ASSUME NEW k \in Messages, OnReactions(k) PROVE IInv'
  BY <1>5, LookStep, FindMirrorStep, FindOriginalStep, SendStep,
     SendFailsStep, SendLostStep, FinishStep DEF OnReactions
<1>6. ASSUME NEW a \in Accounts, NEW resolved \in PeerSets,
             NEW missed \in SUBSET Messages, Restart(a, resolved, missed)
      PROVE  IInv'
  BY <1>6, RestartStep
<1> QED
  BY <1>1, <1>2, <1>3, <1>4, <1>5, <1>6 DEF Next, Members, Sessions

\* The invariant with what it rests on: the types, what a call relies on
\* between its steps, and the places of the mirrored sets.
THEOREM Inductive == Spec => []IInv
<1> QED
  BY Initially, Steps, PTL DEF Spec

\* What an account shows on a message is one aggregate of a counterpart.
THEOREM ShowsOneSnapshot == Spec => []OneSnapshot
<1>1. IInv => OneSnapshot
  BY DEF IInv
<1> QED
  BY <1>1, Inductive, PTL

\* Aggregates are mirrored in their order (OnReactions for one message at a
\* time, and a retry that repeats its own set).
THEOREM InOrder == Spec => []MirrorsMoveForward
<1>1. IInv => MirrorsMoveForward
  BY DEF IInv, Placed, Places, MirrorsMoveForward
<1> QED
  BY <1>1, Inductive, PTL

\* Types.
THEOREM Typing == Spec => []TypeOK
<1>1. IInv => TypeOK
  BY DEF IInv
<1> QED
  BY <1>1, Inductive, PTL
------------------------------------------------------------------------------
(* The cache.  OnReactions writes it first, so that it is wrong while a call *)
(* is under way; it is right again when the call is done.                    *)

\* A message is in one row at most, as its source or as its mirror: sources are
\* unique (the unique index), mirrors are messages the bridge has just sent, and
\* no message is both unless an account copies the copies of another one.
OnePartner ==
    \A k \in Messages : \A c, d \in Counterparts(k) : c = d

\* The account shows on c what the cache says of k.
Shown(k, c) ==
    cache[k] # {} /\ cache[k] \subseteq Allowed[c[1]] => own[active][c] = cache[k]

CacheInv ==
    Undisturbed => \A k \in Messages :
        /\ handler[k].at \in {"source", "target", "send"} =>
               cache[k] = handler[k].set
        /\ handler[k].at = "target" => FindBySource(Rows, k[1], k[2]) = {}
        /\ handler[k].at \in {"idle", "done"} =>
               \A c \in Counterparts(k) : Shown(k, c)

\* Every message of a row has a counterpart, whose counterpart it is.
LEMMA Paired ==
    ASSUME NEW k \in Messages
    PROVE  /\ Counterparts(k) \subseteq Messages
           /\ \A c \in Counterparts(k) : k \in Counterparts(c)
           /\ FindBySource(Rows, k[1], k[2]) = {} =>
                  FindByTarget(Rows, k[1], k[2]) # {}
BY DEF Counterparts, Messages, FindBySource, FindByTarget

\* What disturbed a session is over when another one begins, and not before.
LEMMA DisturbedStays ==
    ASSUME IInv, Undisturbed', [Next]_vars
    PROVE  \/ Undisturbed
           \/ \E a \in Accounts, resolved \in PeerSets, missed \in SUBSET Messages :
                  Restart(a, resolved, missed)
<1>1. ASSUME UNCHANGED peers, happened \subseteq happened',
             rows' = rows \/ "save" \in happened'
      PROVE  Undisturbed
  BY <1>1 DEF Undisturbed, Never
<1>2. CASE UNCHANGED vars
  BY <1>1, <1>2 DEF vars
<1>3. ASSUME NEW k \in Messages, NEW e \in Emojis, React(k, e)
      PROVE  Undisturbed
  BY <1>1, <1>3 DEF React
<1>4. ASSUME NEW r \in Rows, Save(r)
      PROVE  Undisturbed
  BY <1>1, <1>4 DEF Save, Happens
<1>5. ASSUME NEW k \in Messages, OnReactions(k) \/ Evict(k)
      PROVE  Undisturbed
  BY <1>1, <1>5
     DEF OnReactions, Evict, Look, FindMirror, FindOriginal, Send, SendFails,
         SendLost, Finish, Happens
<1> QED
  BY <1>2, <1>3, <1>4, <1>5 DEF Next, Members, Sessions

\* A step of the call about k, which changes the cache of k and what is shown on
\* its counterpart at most.
LEMMA CacheKept ==
    ASSUME IInv, CacheInv, Undisturbed, OnePartner, UNCHANGED active,
           NEW k \in Messages, NEW h \in Handler,
           handler' = [handler EXCEPT ![k] = h],
           \A m \in Messages : m # k => cache'[m] = cache[m],
           \A c \in Messages : c \notin Counterparts(k) =>
                                   own'[active][c] = own[active][c],
           h.at \in {"source", "target", "send"} => cache'[k] = h.set,
           h.at = "target" => FindBySource(Rows, k[1], k[2]) = {},
           h.at \in {"idle", "done"} => \A c \in Counterparts(k) : Shown(k, c)'
    PROVE  CacheInv'
<1>1. \A m \in Messages : handler'[m] = IF m = k THEN h ELSE handler[m]
  BY DEF IInv, TypeOK
<1>2. ASSUME NEW m \in Messages, m # k
      PROVE  /\ handler'[m].at \in {"source", "target", "send"} =>
                    cache'[m] = handler'[m].set
             /\ handler'[m].at = "target" => FindBySource(Rows, m[1], m[2]) = {}
             /\ handler'[m].at \in {"idle", "done"} =>
                    \A c \in Counterparts(m) : Shown(m, c)'
  <2>1. handler'[m] = handler[m] /\ cache'[m] = cache[m]
    BY <1>1, <1>2
  <2>2. \A c \in Counterparts(m) : own'[active][c] = own[active][c]
    BY <1>2, Paired DEF OnePartner
  <2> QED
    BY <2>1, <2>2 DEF CacheInv, Shown
<1> QED
  BY <1>1, <1>2 DEF CacheInv

LEMMA CacheStep ==
    ASSUME IInv, CacheInv, Undisturbed, Undisturbed', OnePartner,
           NEW k \in Messages, OnReactions(k)
    PROVE  CacheInv'
<1>0. /\ handler \in [Messages -> Handler] /\ handler[k] \in Handler
      /\ cache \in [Messages -> SUBSET Standard]
      /\ own \in [Accounts -> [Messages -> SUBSET Standard]] /\ active \in Accounts
      /\ rows = Rows /\ peers = Chats
  BY DEF IInv, TypeOK, Undisturbed
<1>1. ASSUME NEW event \in Failures
      PROVE  ~Happens(event)
  BY <1>1 DEF Happens, Undisturbed, Never
<1>2. "db" \in Failures /\ "lost" \in Failures /\ Errors \subseteq Failures
  BY DEF Failures
<1>3. CASE Look(k)
  <2> DEFINE set == StandardSet(Current(k))
             h == [handler[k] EXCEPT
                      !.at = IF set = cache[k] THEN "done" ELSE "source",
                      !.set = set]
  <2>1. set \in SUBSET Standard
    BY <1>3, CurrentType DEF Look, IInv
  <2>2. /\ handler' = [handler EXCEPT ![k] = h]
        /\ cache' = [cache EXCEPT ![k] = set]
        /\ UNCHANGED <<own, active>> /\ handler[k].at = "idle"
    BY <1>0, <1>3 DEF Look, At
  <2> HIDE DEF set
  <2>3. /\ h \in Handler /\ h.set = set
        /\ h.at = IF set = cache[k] THEN "done" ELSE "source"
    BY <1>0, <2>1 DEF Handler
  <2> HIDE DEF h
  <2>4. cache'[k] = set /\ \A m \in Messages : m # k => cache'[m] = cache[m]
    BY <1>0, <2>2
  <2>5. set = cache[k] => \A c \in Counterparts(k) : Shown(k, c)'
    BY <2>2, <2>4 DEF CacheInv, Shown
  <2> QED
    BY <2>2, <2>3, <2>4, <2>5, CacheKept
<1>4. ASSUME handler[k].at \in {"source", "target"},
             NEW to \in Counterparts(k), Found(k, to), UNCHANGED <<cache, own, active>>
      PROVE  CacheInv'
  <2> DEFINE h == [handler[k] EXCEPT !.at = "send", !.to = to]
  <2>1. to \in Messages
    BY <1>4, Paired
  <2>2. to[1] \in peers
    BY <1>0, <2>1 DEF Chats
  <2>3. handler' = [handler EXCEPT ![k] = h]
    BY <1>0, <1>4, <2>2 DEF Found
  <2>4. h \in Handler /\ h.at = "send" /\ h.set = handler[k].set
    BY <1>0, <2>1 DEF Handler
  <2>5. cache[k] = handler[k].set
    BY <1>4 DEF CacheInv
  <2> HIDE DEF h
  <2> QED
    BY <1>4, <2>3, <2>4, <2>5, CacheKept
<1>5. CASE FindMirror(k)
  <2>1. handler[k].at = "source" /\ UNCHANGED <<cache, own, active>>
    BY <1>5 DEF FindMirror, At
  <2>2. ASSUME NEW r \in FindBySource(rows, k[1], k[2]),
               Found(k, <<r.dstChat, r.dst>>)
        PROVE  CacheInv'
    <3>1. <<r.dstChat, r.dst>> \in Counterparts(k)
      BY <1>0 DEF Counterparts
    <3> QED
      BY <1>4, <2>1, <2>2, <3>1
  <2>3. CASE /\ FindBySource(rows, k[1], k[2]) = {}
             /\ handler' = [handler EXCEPT ![k].at = "target"]
    <3> DEFINE h == [handler[k] EXCEPT !.at = "target"]
    <3>1. handler' = [handler EXCEPT ![k] = h]
      BY <1>0, <2>3
    <3>2. h \in Handler /\ h.at = "target" /\ h.set = handler[k].set
      BY <1>0 DEF Handler
    <3>3. cache[k] = handler[k].set /\ FindBySource(Rows, k[1], k[2]) = {}
      BY <1>0, <2>1, <2>3 DEF CacheInv
    <3> HIDE DEF h
    <3> QED
      BY <2>1, <3>1, <3>2, <3>3, CacheKept
  <2> QED
    BY <1>1, <1>2, <1>5, <2>2, <2>3 DEF FindMirror
<1>6. CASE FindOriginal(k)
  <2>1. handler[k].at = "target" /\ UNCHANGED <<cache, own, active>>
    BY <1>6 DEF FindOriginal, At
  <2>2. ASSUME NEW r \in FindByTarget(rows, k[1], k[2]),
               Found(k, <<r.srcChat, r.src>>)
        PROVE  CacheInv'
    <3>1. <<r.srcChat, r.src>> \in Counterparts(k)
      BY <1>0 DEF Counterparts
    <3> QED
      BY <1>4, <2>1, <2>2, <3>1
  <2>3. FindByTarget(rows, k[1], k[2]) # {}
    BY <1>0, <2>1, Paired DEF CacheInv
  <2> QED
    BY <1>1, <1>2, <1>6, <2>2, <2>3 DEF FindOriginal
<1>7. CASE Send(k)
  <2> DEFINE to == handler[k].to
             set == handler[k].set
             h == [handler[k] EXCEPT !.at = "done"]
  <2>1. handler[k].at = "send" /\ UNCHANGED <<cache, active>>
    BY <1>7 DEF Send, At
  <2>2. to \in Counterparts(k) /\ to \in Messages /\ cache[k] = set
    BY <1>0, <2>1, Paired DEF IInv, HandlerInv, At, Handler, CacheInv
  <2>3. handler' = [handler EXCEPT ![k] = h]
    BY <1>0, <1>7 DEF Send, Return
  <2>4. h \in Handler /\ h.at = "done"
    BY <1>0 DEF Handler
  <2> HIDE DEF h
  <2>5. \A c \in Counterparts(k) : c = to
    BY <2>2 DEF OnePartner
  <2>6. CASE Permits(k)
    <3>1. own' = [own EXCEPT ![active][to] = set]
      BY <1>7, <2>6 DEF Send, Reaches
    <3>2. /\ own'[active][to] = set
          /\ \A c \in Messages : c # to => own'[active][c] = own[active][c]
      BY <1>0, <2>2, <3>1
    <3>3. \A c \in Counterparts(k) : Shown(k, c)'
      BY <2>1, <2>2, <2>5, <3>2 DEF Shown
    <3> QED
      BY <2>1, <2>2, <2>3, <2>4, <3>2, <3>3, CacheKept
  <2>7. CASE ~Permits(k)
    <3>1. UNCHANGED own
      BY <1>7, <2>7 DEF Send
    <3>2. \A c \in Counterparts(k) : Shown(k, c)'
      BY <2>1, <2>2, <2>5, <2>7 DEF Shown, Permits
    <3> QED
      BY <2>1, <2>3, <2>4, <3>1, <3>2, CacheKept
  <2> QED
    BY <2>6, <2>7
<1>8. CASE Finish(k)
  <2>1. /\ handler[k].at = "done" /\ UNCHANGED <<cache, own, active>>
        /\ handler' = [handler EXCEPT ![k] = Idle(k)]
    BY <1>8 DEF Finish, At
  <2>2. Idle(k) \in Handler /\ Idle(k).at = "idle"
    BY FreshTry DEF Idle, Handler
  <2>3. \A c \in Counterparts(k) : Shown(k, c)'
    BY <2>1 DEF CacheInv, Shown
  <2> QED
    BY <2>1, <2>2, <2>3, CacheKept
<1>9. ~SendFails(k) /\ ~SendLost(k)
  BY <1>1, <1>2 DEF SendFails, SendLost
<1> QED
  BY <1>3, <1>5, <1>6, <1>7, <1>8, <1>9 DEF OnReactions

\* As long as a session is undisturbed, what the cache holds of a message that is
\* not being handled is what the account shows on its counterpart, where this
\* may be shown, whatever was evicted and however many sessions there were.
THEOREM CacheMayBeTrusted == OnePartner => (Spec => []CacheIsRight)
<1> SUFFICES ASSUME OnePartner
             PROVE  Spec => []CacheIsRight
  OBVIOUS
<1>1. ASSUME Init
      PROVE  CacheInv
  <2>1. \A k \in Messages : handler[k].at = "idle" /\ cache[k] = {}
    BY <1>1 DEF Init, Idle
  <2> QED
    BY <2>1 DEF CacheInv, Shown
<1>2. ASSUME IInv, CacheInv, [Next]_vars
      PROVE  CacheInv'
  <2> SUFFICES ASSUME Undisturbed'
               PROVE  CacheInv'
    BY DEF CacheInv
  <2>1. ASSUME NEW a \in Accounts, NEW resolved \in PeerSets,
               NEW missed \in SUBSET Messages, Restart(a, resolved, missed)
        PROVE  CacheInv'
    <3>1. \A k \in Messages : handler'[k].at = "idle" /\ cache'[k] = {}
      BY <2>1 DEF Restart, Idle
    <3> QED
      BY <3>1 DEF CacheInv, Shown
  <2>2. ASSUME Undisturbed, UNCHANGED <<handler, cache, own, active>>
        PROVE  CacheInv'
    BY <1>2, <2>2 DEF CacheInv, Shown
  <2>3. ASSUME Undisturbed, NEW k \in Messages, Evict(k)
        PROVE  CacheInv'
    <3>1. /\ cache'[k] = {} /\ \A m \in Messages : m # k => cache'[m] = cache[m]
          /\ handler[k].at = "idle" /\ UNCHANGED <<handler, own, active>>
      BY <1>2, <2>3 DEF Evict, At, IInv, TypeOK
    <3> QED
      BY <1>2, <2>3, <3>1 DEF CacheInv, Shown
  <2>4. ASSUME Undisturbed, NEW k \in Messages, OnReactions(k)
        PROVE  CacheInv'
    BY <1>2, <2>4, CacheStep
  <2>5. CASE Undisturbed
    BY <1>2, <2>1, <2>2, <2>3, <2>4, <2>5
       DEF Next, Members, Sessions, React, Save, vars
  <2> QED
    BY <1>2, <2>1, <2>5, DisturbedStays
<1>3. CacheInv => CacheIsRight
  BY DEF CacheInv, CacheIsRight, Shown, At
<1>4. Init => CacheInv
  BY <1>1
<1>5. IInv /\ CacheInv /\ [Next]_vars => CacheInv'
  BY <1>2
<1> QED
  BY <1>3, <1>4, <1>5, Inductive, PTL DEF Spec
==============================================================================
