----------------------------- MODULE ShiftsProofs ----------------------------
(***************************************************************************)
(* The schedule names one account for every time of day, and a session is  *)
(* that of the account the clock names; every updates manager but that of  *)
(* the account being served has been told to end and, unless a Disconnect  *)
(* times out, is gone: for any accounts, shifts, length of the day and     *)
(* failures.                                                               *)
(***************************************************************************)
EXTENDS Shifts, FiniteSetTheorems, WellFoundedInduction, TLAPS

(* The arithmetic of the schedule. *)

\* The minutes a validator marks for a shift are those at which it runs.
LEMMA RunsInItsMinutes ==
    ASSUME NEW phones, NEW sh \in Shift(phones), NEW m \in 0..(Day - 1)
    PROVE  IsActive(sh, m) <=> m \in Minutes(sh)
BY DEF IsActive, Minutes

\* An active shift runs until its switch time, at midnight of the next day
\* included, and no longer.
LEMMA RunsUntilSwitch ==
    ASSUME NEW phones, NEW sh \in Shift(phones), sh.from # sh.to,
           NEW m \in 0..(Day - 1), IsActive(sh, m)
    PROVE  /\ SwitchTime(sh, m) \in Nat /\ m < SwitchTime(sh, m)
           /\ \A t \in m..(SwitchTime(sh, m) - 1) :
                  IF t < Day THEN t \in Minutes(sh) ELSE t - Day \in Minutes(sh)
           /\ SwitchTime(sh, m) < Day => SwitchTime(sh, m) \notin Minutes(sh)
<1>1. /\ sh.from \in 0..(Day - 1) /\ sh.to \in 0..(Day - 1)
      /\ m \in Nat /\ m < Day /\ Day \in Nat
  BY DayAssumption DEF Shift
<1>2. CASE sh.from < sh.to
  <2>1. SwitchTime(sh, m) = sh.to /\ sh.from <= m /\ m < sh.to
    BY <1>1, <1>2 DEF SwitchTime, IsActive
  <2>2. Minutes(sh) = {t \in 0..(Day - 1) : sh.from <= t /\ t < sh.to}
    BY <1>2 DEF Minutes
  <2> QED
    BY <1>1, <2>1, <2>2
<1>3. CASE sh.to < sh.from
  <2>1. Minutes(sh) = {t \in 0..(Day - 1) : sh.from <= t \/ t < sh.to}
    BY <1>1, <1>3 DEF Minutes
  <2>2. CASE m >= sh.from
    <3>1. SwitchTime(sh, m) = Day + sh.to
      BY <1>1, <1>3, <2>2 DEF SwitchTime
    <3> QED
      BY <1>1, <1>3, <2>1, <2>2, <3>1
  <2>3. CASE m < sh.from
    <3>1. SwitchTime(sh, m) = sh.to /\ m < sh.to
      BY <1>1, <1>3, <2>3 DEF SwitchTime, IsActive
    <3> QED
      BY <1>1, <1>3, <2>1, <2>3, <3>1
  <2> QED
    BY <1>1, <2>2, <2>3
<1> QED
  BY <1>1, <1>2, <1>3

\* Under a validated schedule activeShift names the one shift that covers the
\* time of day, and this shift covers every minute up to the time at which
\* the scheduler will hand over; the case without an active shift is never
\* reached (activeShift, scheduler.go:164-207, validate.go:53-147).
THEOREM CoversItsTime ==
    ASSUME NEW phones, NEW shifts \in Seq(Shift(phones)),
           NEW accounts, validateSchedule(shifts, accounts),
           NEW m \in 0..(Day - 1)
    PROVE  LET duty == activeShift(shifts, m)
           IN  \E i \in DOMAIN shifts :
                  /\ \A j \in DOMAIN shifts : m \in Minutes(shifts[j]) <=> j = i
                  /\ duty.phone = shifts[i].phone
                  /\ duty.next \in Nat /\ m < duty.next
                  /\ \A t \in m..(duty.next - 1) :
                         IF t < Day THEN t \in Minutes(shifts[i])
                                    ELSE t - Day \in Minutes(shifts[i])
                  /\ duty.next < Day => duty.next \notin Minutes(shifts[i])
<1> DEFINE running == {i \in DOMAIN shifts : IsActive(shifts[i], m)}
<1>1. \A i \in DOMAIN shifts : shifts[i] \in Shift(phones)
  OBVIOUS
<1>2. PICK i \in DOMAIN shifts : m \in Minutes(shifts[i])
  BY DEF validateSchedule
<1>3. \A j \in DOMAIN shifts : m \in Minutes(shifts[j]) <=> j = i
  BY <1>2 DEF validateSchedule
<1>4. running = {i}
  BY <1>1, <1>3, RunsInItsMinutes
<1>5. (CHOOSE k \in running : \A j \in running : k <= j) = i
  <2>1. i \in Nat
    OBVIOUS
  <2> HIDE DEF running
  <2> QED
    BY <1>4, <2>1
<1>6. activeShift(shifts, m) = [phone |-> shifts[i].phone,
                                next |-> SwitchTime(shifts[i], m)]
  BY <1>4, <1>5 DEF activeShift
<1>7. /\ shifts[i] \in Shift(phones) /\ shifts[i].from # shifts[i].to
      /\ IsActive(shifts[i], m)
  BY <1>1, <1>2, RunsInItsMinutes DEF validateSchedule
<1> QED
  BY <1>3, <1>6, <1>7, RunsUntilSwitch
LEMMA Smallest ==
    ASSUME NEW S, S \subseteq Nat, S # {}
    PROVE  \E i \in S : \A j \in S : i <= j
<1> DEFINE less == OpToRel(<, Nat)
<1>1. IsWellFoundedOn(less, Nat)
  BY NatLessThanWellFounded
<1>2. \A i, j \in Nat : i < j => <<i, j>> \in less
  BY DEF OpToRel
<1> HIDE DEF less
<1>3. \E i \in S : \A j \in S : <<j, i>> \notin less
  BY <1>1, WFMin
<1>4. PICK i \in S : \A j \in S : <<j, i>> \notin less
  BY <1>3
<1>5. \A j \in S : i \in Nat /\ j \in Nat /\ ~(j < i)
  BY <1>2, <1>4
<1> QED
  BY <1>5

\* Whatever shifts there are, activeShift takes one of them and a time.
LEMMA TakesAShift ==
    ASSUME NEW phones, NEW shifts \in Seq(Shift(phones)), shifts # <<>>,
           NEW m \in Nat
    PROVE  /\ \E i \in DOMAIN shifts : activeShift(shifts, m).phone = shifts[i].phone
           /\ activeShift(shifts, m).next \in Nat
<1> DEFINE running == {i \in DOMAIN shifts : IsActive(shifts[i], m)}
           first == CHOOSE i \in running : \A j \in running : i <= j
<1>1. /\ \A i \in DOMAIN shifts : shifts[i] \in Shift(phones)
      /\ DOMAIN shifts \subseteq Nat /\ 1 \in DOMAIN shifts
  OBVIOUS
<1>2. \A i \in DOMAIN shifts : /\ SwitchTime(shifts[i], m) \in Nat
                               /\ NextStart(shifts[i], m) \in Nat
  BY <1>1, DayAssumption DEF Shift, SwitchTime, NextStart
<1>3. CASE running = {}
  <2>1. activeShift(shifts, m) = [phone |-> shifts[1].phone,
                                  next |-> NextStart(shifts[1], m)]
    BY <1>3 DEF activeShift
  <2> QED
    BY <1>1, <1>2, <2>1
<1>4. CASE running # {}
  <2>1. first \in running
    BY <1>1, <1>4, Smallest
  <2>2. activeShift(shifts, m) = [phone |-> shifts[first].phone,
                                  next |-> SwitchTime(shifts[first], m)]
    BY <1>4 DEF activeShift
  <2> HIDE DEF first
  <2>3. first \in DOMAIN shifts
    BY <2>1
  <2> HIDE DEF running
  <2> QED
    BY <1>2, <2>2, <2>3
<1> QED
  BY <1>3, <1>4

\* Under a validated schedule it takes one that runs, in the last unit of a
\* day of Day + 1 too: a shift that covers the last unit of a usual day goes
\* on past midnight.
LEMMA TakesARunningShift ==
    ASSUME NEW phones, NEW shifts \in Seq(Shift(phones)),
           NEW accounts, validateSchedule(shifts, accounts),
           NEW m \in 0..Day
    PROVE  \E i \in DOMAIN shifts :
               /\ IsActive(shifts[i], m)
               /\ activeShift(shifts, m) =
                     [phone |-> shifts[i].phone, next |-> SwitchTime(shifts[i], m)]
<1> DEFINE running == {i \in DOMAIN shifts : IsActive(shifts[i], m)}
           first == CHOOSE i \in running : \A j \in running : i <= j
<1>1. /\ \A i \in DOMAIN shifts : shifts[i] \in Shift(phones)
      /\ DOMAIN shifts \subseteq Nat
  OBVIOUS
<1>2. running # {}
  <2>1. CASE m < Day
    <3>1. PICK i \in DOMAIN shifts : m \in Minutes(shifts[i])
      BY <2>1, DayAssumption DEF validateSchedule
    <3> QED
      BY <1>1, <3>1 DEF Minutes, IsActive
  <2>2. CASE m = Day
    <3>1. PICK i \in DOMAIN shifts : Day - 1 \in Minutes(shifts[i])
      BY DayAssumption DEF validateSchedule
    <3>2. ~(shifts[i].from < shifts[i].to)
      BY <1>1, <3>1, DayAssumption DEF Minutes, Shift
    <3>3. IsActive(shifts[i], m)
      BY <1>1, <2>2, <3>2, DayAssumption DEF IsActive, Shift
    <3> QED
      BY <3>3
  <2> QED
    BY <2>1, <2>2, DayAssumption
<1>3. first \in running
  BY <1>1, <1>2, Smallest
<1>4. activeShift(shifts, m) = [phone |-> shifts[first].phone,
                                next |-> SwitchTime(shifts[first], m)]
  BY <1>2 DEF activeShift
<1> QED
  BY <1>3, <1>4
------------------------------------------------------------------------------
(* Managers and sessions. *)

\* Only the account being served holds a session (stopBG # nil), and a manager
\* that was not told to end belongs to a session.
Sessions ==
    \A a \in Accounts :
        /\ client[a].held => up /\ a = ctrl /\ pc \in {"resolve", "wait"}
        /\ client[a].gaps = "on" => client[a].held

\* What makes Sessions inductive: the steps that touch a client have an account
\* to serve, and a Disconnect goes on to a step without a session.
IInv ==
    /\ client \in [Accounts -> Client]
    /\ pc \in {"connect", "resolve", "wait", "cleanup", "disconnect"}
           => ctrl \in Accounts
    /\ after \in {"pick", "retry", "pause", "stopped"}
    /\ pc = "cleanup" => after \in {"retry", "stopped"}
    /\ Sessions

USE DEF Accounts

LEMMA ClientSteps ==
    ASSUME NEW k \in Client
    PROVE  /\ [k EXCEPT !.spent = TRUE] \in Client
           /\ Closed(k) \in Client
           /\ [k EXCEPT !.bridge = TRUE] \in Client
           /\ [k EXCEPT !.gaps = "off"] \in Client
           /\ \A g \in {"off", "on", "ending", "left"} :
                 /\ [k EXCEPT !.held = TRUE, !.gaps = g] \in Client
                 /\ [k EXCEPT !.held = FALSE, !.spent = TRUE, !.gaps = g] \in Client
BY DEF Client, Closed

LEMMA NewClients ==
    /\ Fresh \in Client /\ ~Fresh.held /\ Fresh.gaps = "off"
    /\ Gone \in Client /\ ~Gone.held /\ Gone.gaps = "off"
BY DEF Fresh, Gone, Client

\* Nobody is connected while the scheduler has no session.
LEMMA NobodyConnected ==
    ASSUME IInv, pc \notin {"resolve", "wait"}
    PROVE  \A a \in Accounts : ~client[a].held /\ client[a].gaps # "on"
BY DEF IInv, Sessions

LEMMA DisconnectStep ==
    ASSUME IInv, pc \in {"resolve", "wait"}, UNCHANGED <<up, setup>>,
           NEW step \in {"cleanup", "disconnect"},
           NEW then \in {"retry", "pause", "stopped"}, Disconnect(step, then),
           step = "cleanup" => then \in {"retry", "stopped"}
    PROVE  IInv'
<1>1. ctrl \in Accounts /\ client[ctrl] \in Client
  BY DEF IInv
<1>2. PICK g \in {"off", "ending", "left"} :
          client' = [client EXCEPT ![ctrl] =
                  [client[ctrl] EXCEPT !.held = FALSE, !.spent = TRUE, !.gaps = g]]
  BY <1>1 DEF Disconnect, Client
<1>3. client' \in [Accounts -> Client]
  BY <1>1, <1>2, ClientSteps DEF IInv
<1>4. \A a \in Accounts : ~client'[a].held /\ client'[a].gaps # "on"
  <2>1. ~client'[ctrl].held /\ client'[ctrl].gaps # "on"
    BY <1>1, <1>2 DEF IInv, Client
  <2>2. \A a \in Accounts : a # ctrl => client'[a] = client[a]
    BY <1>2 DEF IInv
  <2> QED
    BY <2>1, <2>2 DEF IInv, Sessions
<1> QED
  BY <1>1, <1>3, <1>4 DEF IInv, Disconnect, Sessions

LEMMA SchedulerStep ==
    ASSUME IInv, Scheduler, UNCHANGED setup
    PROVE  IInv'
<1>1. up /\ client \in [Accounts -> Client]
  BY DEF IInv, Scheduler
<1>2. CASE Pick
  BY <1>2, NobodyConnected DEF Pick, IInv, Sessions
<1>3. CASE Connect
  <2>1. ctrl \in Accounts /\ client[ctrl] \in Client /\ UNCHANGED up
    BY <1>3 DEF Connect, IInv
  <2>2. PICK g \in {"off", "on", "ending", "left"} :
            client' = [client EXCEPT ![ctrl] =
                          [client[ctrl] EXCEPT !.held = TRUE, !.gaps = g]]
    BY <1>1, <1>3, <2>1 DEF Connect, Client
  <2>3. client' \in [Accounts -> Client]
    BY <1>1, <2>1, <2>2, ClientSteps
  <2>4. \A a \in Accounts : a # ctrl => client'[a] = client[a]
    BY <1>1, <2>2
  <2>5. client'[ctrl].held
    BY <1>1, <2>1, <2>2 DEF Client
  <2> QED
    BY <1>1, <1>3, <2>1, <2>3, <2>4, <2>5, NobodyConnected
       DEF Connect, Goto, IInv, Sessions
<1>4. CASE ConnectFails
  <2>1. ctrl \in Accounts /\ client[ctrl] \in Client
    BY <1>4 DEF ConnectFails, IInv
  <2>2. client' = [client EXCEPT ![ctrl] =
                      [client[ctrl] EXCEPT !.spent = TRUE]]
    BY <1>4 DEF ConnectFails
  <2>3. client' \in [Accounts -> Client]
    BY <1>1, <2>1, <2>2, ClientSteps
  <2>4. \A a \in Accounts : /\ client'[a].held = client[a].held
                            /\ client'[a].gaps = client[a].gaps
    BY <1>1, <2>1, <2>2 DEF Client
  <2>5. \A a \in Accounts : ~client'[a].held /\ client'[a].gaps # "on"
    BY <1>4, <2>4, NobodyConnected DEF ConnectFails
  <2> QED
    BY <1>4, <2>3, <2>5 DEF ConnectFails, Goto, IInv, Sessions
<1>5. CASE SetBridge
  <2>1. ctrl \in Accounts /\ client[ctrl] \in Client
    BY <1>5 DEF SetBridge, IInv
  <2>2. client' = [client EXCEPT ![ctrl] =
                      [client[ctrl] EXCEPT !.bridge = TRUE]]
    BY <1>5 DEF SetBridge
  <2>3. client' \in [Accounts -> Client]
    BY <1>1, <2>1, <2>2, ClientSteps
  <2>4. \A a \in Accounts : /\ client'[a].held = client[a].held
                            /\ client'[a].gaps = client[a].gaps
    BY <1>1, <2>1, <2>2 DEF Client
  <2> QED
    BY <1>5, <2>1, <2>3, <2>4 DEF SetBridge, Goto, IInv, Sessions
<1>6. CASE ResolveFails
  BY <1>6, DisconnectStep DEF ResolveFails
<1>7. CASE ShiftEnds \/ Shutdown
  BY <1>7, DisconnectStep DEF ShiftEnds, Shutdown
<1>8. CASE CloseBolt
  <2>1. ctrl \in Accounts /\ client[ctrl] \in Client
    BY <1>8 DEF CloseBolt, IInv
  <2>2. client' = [client EXCEPT ![ctrl] = Closed(client[ctrl])]
    BY <1>8 DEF CloseBolt
  <2>3. client' \in [Accounts -> Client]
    BY <1>1, <2>1, <2>2, ClientSteps
  <2>4. \A a \in Accounts : ~client[a].held /\ client[a].gaps # "on"
    BY <1>8, NobodyConnected DEF CloseBolt
  <2>5. \A a \in Accounts : ~client'[a].held /\ client'[a].gaps # "on"
    BY <1>1, <2>1, <2>2, <2>4 DEF Client, Closed
  <2> QED
    BY <1>8, <2>3, <2>5 DEF CloseBolt, Leave, IInv, Sessions
<1>9. CASE Sleep
  <2>1. \A a \in Accounts : ~client[a].held /\ client[a].gaps # "on"
    BY <1>9, NobodyConnected DEF Sleep
  <2> QED
    BY <1>9, <2>1 DEF Sleep, Goto, IInv, Sessions
<1>10. CASE Exit
  BY <1>10, NewClients DEF Exit, Down, IInv, Sessions
<1> QED
  BY <1>2, <1>3, <1>4, <1>5, <1>6, <1>7, <1>8, <1>9, <1>10 DEF Scheduler

\* An updates manager ends without the session, or after it.
LEMMA ManagerEndStep ==
    ASSUME IInv, NEW a \in Accounts, ManagerEnds(a), UNCHANGED setup
    PROVE  IInv'
<1>1. client' = [client EXCEPT ![a] = [client[a] EXCEPT !.gaps = "off"]]
  BY DEF ManagerEnds
<1>2. client' \in [Accounts -> Client]
  BY <1>1, ClientSteps DEF IInv
<1>3. \A b \in Accounts : /\ client'[b].held = client[b].held
                          /\ client'[b].gaps \in {client[b].gaps, "off"}
  BY <1>1 DEF IInv, Client
<1> QED
  BY <1>2, <1>3 DEF ManagerEnds, scheduler, IInv, Sessions

LEMMA Inductive ==
    ASSUME IInv, [Next]_vars
    PROVE  IInv'
<1>0. UNCHANGED setup
  BY DEF Next, vars
<1>1. CASE Scheduler
  BY <1>0, <1>1, SchedulerStep
<1>2. ASSUME NEW a \in Accounts, Dispatch(a)
      PROVE  IInv'
  BY <1>0, <1>2 DEF Dispatch, scheduler, IInv, Sessions
<1>3. ASSUME NEW a \in Accounts, Drain(a) \/ ManagerFails(a)
      PROVE  IInv'
  BY <1>0, <1>3, ManagerEndStep DEF Drain, ManagerFails
<1>4. CASE HardExit \/ Crash
  BY <1>0, <1>4, NewClients DEF HardExit, Crash, Down, IInv, Sessions
<1>5. CASE Boot
  BY <1>0, <1>5, NewClients DEF Boot, scheduler, IInv, Sessions
<1>6. CASE World \/ Signal \/ UNCHANGED vars
  BY <1>0, <1>6 DEF World, Signal, vars, scheduler, IInv, Sessions
<1> QED
  BY <1>1, <1>2, <1>3, <1>4, <1>5, <1>6 DEF Next, Manager

LEMMA Connected == Spec => []IInv
<1>1. Init => IInv
  BY NewClients DEF Init, IInv, Sessions
<1>2. IInv /\ [Next]_vars => IInv'
  BY Inductive
<1> QED
  BY <1>1, <1>2, PTL DEF Spec

\* Every updates manager but that of the account being served has been told to
\* end (OthersToldToEnd), for any accounts, shifts and failures, timeouts of
\* Disconnect included: what such a timeout leaves behind has a cancelled
\* context (checked on small instances by shifts_rough).
THEOREM OthersAreToldToEnd == Spec => []OthersToldToEnd
<1>1. IInv => OthersToldToEnd
  BY DEF IInv, Sessions, OthersToldToEnd
<1> QED
  BY <1>1, Connected, PTL
------------------------------------------------------------------------------
(* One updates manager at a time.                                          *)

\* Without a timeout an updates manager belongs to the account being served;
\* it outlives its Disconnect only in a process that is going to stop.
ManagerInv ==
    "timeout" \notin happened =>
        \A a \in Accounts : Runs(a) =>
            /\ up /\ a = ctrl
            /\ \/ client[a].gaps = "on" /\ pc \in {"resolve", "wait"}
               \/ client[a].gaps = "ending" /\ pc \in {"cleanup", "disconnect"}
               \/ client[a].gaps = "left" /\ stop /\ pc \in {"retry", "stopped"}

\* Nobody runs where nobody may.
LEMMA NobodyRuns ==
    ASSUME ManagerInv, "timeout" \notin happened,
           \/ pc \in {"pick", "connect", "pause"}
           \/ pc \in {"retry", "stopped"} /\ ~stop
    PROVE  \A a \in Accounts : ~Runs(a)
BY DEF ManagerInv

LEMMA NewOnesDoNotRun == Fresh.gaps = "off" /\ Gone.gaps = "off"
BY DEF Fresh, Gone

LEMMA NoneRunsAfter ==
    ASSUME "timeout" \notin happened' => \A a \in Accounts : ~Runs(a)',
           UNCHANGED setup
    PROVE  ManagerInv'
BY DEF ManagerInv

\* Disconnect tells the manager of the account being served to end.
LEMMA ManagerDisconnect ==
    ASSUME IInv, ManagerInv, pc \in {"resolve", "wait"}, up,
           UNCHANGED <<up, setup>>, happened \subseteq happened',
           NEW step \in {"cleanup", "disconnect"}, NEW then, Disconnect(step, then)
    PROVE  ManagerInv'
<1> SUFFICES ASSUME "timeout" \notin happened', NEW a \in Accounts, Runs(a)'
             PROVE  up' /\ a = ctrl' /\ client'[a].gaps = "ending"
                    /\ pc' \in {"cleanup", "disconnect"}
  BY DEF ManagerInv
<1>1. ctrl \in Accounts /\ client[ctrl] \in Client
      /\ client \in [Accounts -> Client]
  BY DEF IInv
<1>2. \A b \in Accounts : Runs(b) => b = ctrl /\ client[b].gaps = "on"
  BY DEF ManagerInv
<1>3. \A b \in Accounts : b # ctrl => client'[b] = client[b]
  BY <1>1 DEF Disconnect
<1>4. client'[ctrl].gaps = IF client[ctrl].gaps = "on" THEN "ending"
                                                      ELSE client[ctrl].gaps
  BY <1>1 DEF Disconnect, Client
<1>5. a = ctrl
  BY <1>2, <1>3 DEF Runs
<1>6. client'[ctrl].gaps = "ending"
  BY <1>1, <1>2, <1>4, <1>5 DEF Runs
<1> QED
  BY <1>5, <1>6 DEF Disconnect

LEMMA ManagerScheduler ==
    ASSUME IInv, ManagerInv, Scheduler, UNCHANGED setup
    PROVE  ManagerInv'
<1>0. up /\ client \in [Accounts -> Client]
  BY DEF IInv, Scheduler
<1>1. CASE Pick
  <2>1. UNCHANGED <<client, happened>> /\ pc = "pick"
    BY <1>1 DEF Pick
  <2> QED
    BY <2>1, NobodyRuns, NoneRunsAfter DEF Runs
<1>2. CASE Connect
  <2>1. ctrl \in Accounts /\ client[ctrl] \in Client /\ pc = "connect"
        /\ pc' = "resolve" /\ UNCHANGED <<up, happened, ctrl>>
    BY <1>2 DEF Connect, Goto, IInv
  <2>2. "timeout" \notin happened => \A a \in Accounts : ~Runs(a)
    BY <2>1, NobodyRuns
  <2>3. \A a \in Accounts : a # ctrl => client'[a] = client[a]
    BY <1>0, <1>2 DEF Connect
  <2>4. client'[ctrl].gaps \in {"on", client[ctrl].gaps}
    BY <1>0, <1>2, <2>1 DEF Connect, Client
  <2> QED
    BY <1>0, <2>1, <2>2, <2>3, <2>4 DEF ManagerInv, Runs
<1>3. CASE ConnectFails
  <2>1. \A a \in Accounts : Runs(a)' => Runs(a)
    BY <1>0, <1>3 DEF ConnectFails, IInv, Runs, Client
  <2>2. happened \subseteq happened' /\ pc = "connect"
    BY <1>3 DEF ConnectFails, Happens
  <2>3. "timeout" \notin happened => \A a \in Accounts : ~Runs(a)
    BY <2>2, NobodyRuns
  <2> QED
    BY <2>1, <2>2, <2>3, NoneRunsAfter
<1>4. CASE SetBridge
  <2>1. ctrl \in Accounts /\ pc = "resolve" /\ pc' = "wait"
        /\ UNCHANGED <<up, stop, ctrl, happened>>
    BY <1>4 DEF SetBridge, Goto, IInv
  <2>2. \A a \in Accounts : client'[a].gaps = client[a].gaps
    BY <1>0, <1>4 DEF SetBridge, IInv, Client
  <2> QED
    BY <2>1, <2>2 DEF ManagerInv, Runs
<1>5. CASE ResolveFails
  BY <1>0, <1>5, ManagerDisconnect DEF ResolveFails, Happens
<1>6. CASE ShiftEnds \/ Shutdown
  BY <1>0, <1>6, ManagerDisconnect DEF ShiftEnds, Shutdown
<1>7. CASE CloseBolt
  <2>1. ctrl \in Accounts /\ client[ctrl] \in Client
        /\ pc \in {"cleanup", "disconnect"}
    BY <1>7 DEF CloseBolt, IInv
  <2>2. pc' = after /\ UNCHANGED <<up, stop, ctrl>>
    BY <1>7 DEF CloseBolt, Leave
  <2>3. \A a \in Accounts : a # ctrl => client'[a] = client[a]
    BY <1>0, <1>7 DEF CloseBolt
  <2>4. client'[ctrl].gaps = IF client[ctrl].gaps = "ending" THEN "left"
                                                        ELSE client[ctrl].gaps
    BY <1>0, <1>7, <2>1 DEF CloseBolt, Closed, Client
  <2>5. "timeout" \notin happened => \A a \in Accounts :
            Runs(a) => a = ctrl /\ client[a].gaps = "ending"
    BY <2>1 DEF ManagerInv
  <2>6. CASE client[ctrl].gaps # "ending" /\ UNCHANGED happened
    <3>1. "timeout" \notin happened' => \A a \in Accounts : ~Runs(a)'
      BY <2>3, <2>4, <2>5, <2>6 DEF Runs
    <3> QED
      BY <3>1, NoneRunsAfter
  <2>7. CASE pc = "cleanup" /\ stop /\ UNCHANGED happened
    <3>1. after \in {"retry", "stopped"}
      BY <2>7 DEF IInv
    <3> SUFFICES ASSUME "timeout" \notin happened', NEW a \in Accounts, Runs(a)'
                 PROVE  up' /\ a = ctrl' /\ client'[a].gaps = "left"
                        /\ stop' /\ pc' \in {"retry", "stopped"}
      BY DEF ManagerInv
    <3>2. a = ctrl
      BY <2>3, <2>5, <2>7 DEF Runs
    <3>3. client'[a].gaps = "left"
      BY <2>1, <2>4, <2>5, <2>7, <3>2 DEF Runs
    <3> QED
      BY <1>0, <2>2, <2>7, <3>1, <3>2, <3>3
  <2>8. CASE Happens("timeout")
    BY <2>8 DEF Happens, ManagerInv
  <2> QED
    BY <1>7, <2>6, <2>7, <2>8 DEF CloseBolt
<1>8. CASE Sleep
  <2>1. CASE pc = "retry" /\ stop
    BY <1>8, <2>1 DEF Sleep, Goto, ManagerInv, Runs
  <2>2. CASE ~(pc = "retry" /\ stop)
    <3>1. UNCHANGED <<client, happened>> /\ pc \in {"retry", "pause"}
      BY <1>8 DEF Sleep
    <3> QED
      BY <2>2, <3>1, NobodyRuns, NoneRunsAfter DEF Runs
  <2> QED
    BY <2>1, <2>2
<1>9. CASE Exit
  BY <1>9, NewOnesDoNotRun, NoneRunsAfter DEF Exit, Down, Runs
<1> QED
  BY <1>1, <1>2, <1>3, <1>4, <1>5, <1>6, <1>7, <1>8, <1>9 DEF Scheduler

LEMMA ManagerStep ==
    ASSUME IInv, ManagerInv, [Next]_vars
    PROVE  ManagerInv'
<1>0. UNCHANGED setup
  BY DEF Next, vars
<1>1. CASE Scheduler
  BY <1>0, <1>1, ManagerScheduler
<1>2. ASSUME NEW a \in Accounts, Dispatch(a)
      PROVE  ManagerInv'
  BY <1>0, <1>2 DEF Dispatch, scheduler, ManagerInv, Runs
<1>3. ASSUME NEW a \in Accounts, Drain(a) \/ ManagerFails(a)
      PROVE  ManagerInv'
  <2>1. ManagerEnds(a) /\ happened \subseteq happened'
    BY <1>3 DEF Drain, ManagerFails, Happens
  <2>2. \A b \in Accounts : Runs(b)' =>
            Runs(b) /\ client'[b].gaps = client[b].gaps
    BY <1>0, <2>1 DEF ManagerEnds, IInv, Runs, Client
  <2> QED
    BY <1>0, <2>1, <2>2 DEF ManagerEnds, scheduler, ManagerInv
<1>4. CASE HardExit \/ Crash
  BY <1>0, <1>4, NewOnesDoNotRun, NoneRunsAfter DEF HardExit, Crash, Down, Runs
<1>5. CASE Boot
  BY <1>0, <1>5, NewOnesDoNotRun, NoneRunsAfter DEF Boot, Runs
<1>6. CASE World \/ UNCHANGED vars
  BY <1>0, <1>6 DEF World, vars, scheduler, ManagerInv, Runs
<1>7. CASE Signal
  BY <1>0, <1>7 DEF Signal, Happens, scheduler, ManagerInv, Runs
<1> QED
  BY <1>1, <1>2, <1>3, <1>4, <1>5, <1>6, <1>7 DEF Next, Manager

LEMMA OneOfThem ==
    ASSUME ManagerInv
    PROVE  OneManagerRuns
<1>1. SUFFICES ASSUME "timeout" \notin happened
               PROVE  Cardinality({a \in Accounts : Runs(a)}) <= 1
  BY DEF OneManagerRuns
<1>2. {a \in Accounts : Runs(a)} \subseteq {ctrl}
  BY <1>1 DEF ManagerInv
<1>3. IsFiniteSet({ctrl}) /\ Cardinality({ctrl}) = 1
  BY FS_Singleton
<1>4. /\ IsFiniteSet({a \in Accounts : Runs(a)})
      /\ Cardinality({a \in Accounts : Runs(a)}) <= Cardinality({ctrl})
  BY <1>2, <1>3, FS_Subset
<1> QED
  BY <1>3, <1>4

\* Unless a Disconnect times out, an account's updates manager is gone before
\* that of the next one starts, for any accounts, shifts and other failures
\* (Disconnect waits for gapsErr; checked on small instances by shifts_rough).
THEOREM OneUpdatesManager == Spec => []OneManagerRuns
<1>1. Init => IInv /\ ManagerInv
  BY NewClients DEF Init, IInv, Sessions, ManagerInv, Runs
<1>2. IInv /\ ManagerInv /\ [Next]_vars => (IInv /\ ManagerInv)'
  BY Inductive, ManagerStep
<1>3. ManagerInv => OneManagerRuns
  BY OneOfThem
<1> QED
  BY <1>1, <1>2, <1>3, PTL DEF Spec
------------------------------------------------------------------------------
(* Types. *)

LEMMA Setting ==
    ASSUME TypeOK
    PROVE  /\ Accounts # {} /\ Accounts \subseteq Phones
           /\ Roster \in Seq(Shift(Phones))
           /\ \A i \in DOMAIN Roster : Roster[i].phone \in Phones
           /\ Day \in Nat /\ Day >= 2
           /\ length \in Nat /\ yesterday \in Nat
           /\ length \in {Day - 1, Day, Day + 1}
           /\ yesterday \in {Day - 1, Day, Day + 1}
           /\ Today \in 0..(length - 1) /\ Today \in 0..Day
<1>1. setup \in Setups /\ length \in Lengths /\ yesterday \in Lengths
  BY DEF TypeOK
<1>2. /\ Accounts # {} /\ Roster \in Seq(Shift(Phones))
      /\ Lengths \subseteq {Day - 1, Day, Day + 1}
      /\ JumpAt \in 1..(Day - 1)
  BY <1>1, ShiftsAssumption DEF Roster, Phones
<1>3. Day \in Nat /\ Day >= 2
  BY <1>2, DayAssumption
<1>4. Today \in 0..(length - 1) /\ Today \in 0..Day
  BY <1>1, <1>2, <1>3 DEF TypeOK, Today
<1> QED
  BY <1>1, <1>2, <1>3, <1>4 DEF Roster, Phones, PhonesOf

LEMMA PickTypes ==
    ASSUME TypeOK, Pick
    PROVE  ctrl' \in Phones /\ next' \in Nat
<1>0. /\ Accounts # {} /\ Accounts \subseteq Phones
      /\ Roster \in Seq(Shift(Phones)) /\ Today \in Nat
      /\ \A i \in DOMAIN Roster : Roster[i].phone \in Phones
  BY Setting
<1>1. CASE Shifted
  <2>1. /\ \E i \in DOMAIN Roster :
               activeShift(Roster, Today).phone = Roster[i].phone
        /\ activeShift(Roster, Today).next \in Nat
    BY <1>0, <1>1, TakesAShift DEF Shifted
  <2>2. /\ ctrl' = activeShift(Roster, Today).phone
        /\ next' = midnight + activeShift(Roster, Today).next
    BY <1>1 DEF Pick, OnDuty, NextSwitch
  <2>3. midnight \in Nat
    BY DEF TypeOK
  <2> QED
    BY <1>0, <2>1, <2>2, <2>3
<1>2. CASE ~Shifted
  BY <1>0, <1>2 DEF Pick, OnDuty, TypeOK
<1> QED
  BY <1>1, <1>2

LEMMA TickTypes ==
    ASSUME TypeOK, Tick
    PROVE  /\ clock' \in Nat /\ midnight' \in Nat /\ sent' \in Nat
           /\ clock' - midnight' \in 0..(length' - 1)
           /\ length' \in Lengths /\ yesterday' \in Lengths
<1>1. /\ clock \in Nat /\ midnight \in Nat /\ sent \in Nat
      /\ clock - midnight \in 0..(length - 1)
      /\ length \in Lengths /\ yesterday \in Lengths
  BY DEF TypeOK
<1>2. Day \in Lengths /\ \A l \in Lengths : l \in Nat /\ l >= 1
  BY ShiftsAssumption, DayAssumption
<1>3. CASE clock + 1 = midnight + length
  BY <1>1, <1>2, <1>3 DEF Tick
<1>4. CASE clock + 1 # midnight + length
  BY <1>1, <1>2, <1>4 DEF Tick
<1> QED
  BY <1>3, <1>4

LEMMA EventsStay ==
    ASSUME TypeOK, NEW event \in Events, Happens(event)
    PROVE  happened' \in SUBSET Events
BY DEF TypeOK, Happens

LEMMA TypeStep ==
    ASSUME TypeOK, IInv, [Next]_vars
    PROVE  TypeOK'
<1> USE DEF TypeOK
<1>0. client' \in [Accounts -> Client]' /\ UNCHANGED setup
  BY Inductive DEF IInv, Next, vars
<1>1. CASE Scheduler
  <2> USE <1>0 DEF world, disk, Goto
  <2>1. CASE Pick
    BY <2>1, PickTypes DEF Pick, Steps, Phones
  <2>2. CASE Connect
    BY <2>2 DEF Connect, Steps, Phones
  <2>3. CASE ConnectFails
    BY <2>3, EventsStay DEF ConnectFails, Steps, Phones, Events
  <2>4. CASE SetBridge
    BY <2>4 DEF SetBridge, Steps, Phones
  <2>5. CASE ResolveFails
    BY <2>5, EventsStay DEF ResolveFails, Disconnect, Steps, Phones, Events
  <2>6. CASE ShiftEnds \/ Shutdown
    BY <2>6 DEF ShiftEnds, Shutdown, Disconnect, Steps, Phones
  <2>7. CASE CloseBolt
    BY <2>7, EventsStay DEF CloseBolt, Leave, Steps, Phones, Events
  <2>8. CASE Sleep
    BY <2>8 DEF Sleep, Steps, Phones
  <2>9. CASE Exit
    BY <2>9 DEF Exit, Down, Steps, Phones
  <2> QED
    BY <1>1, <2>1, <2>2, <2>3, <2>4, <2>5, <2>6, <2>7, <2>8, <2>9
       DEF Scheduler
<1>2. ASSUME NEW a \in Accounts, Dispatch(a)
      PROVE  TypeOK'
  <2>1. given' \in {given, given \cup {pts[a] + 1}}
        /\ pts' \in {pts, [pts EXCEPT ![a] = pts[a] + 1]}
    BY <1>2 DEF Dispatch
  <2>2. pts[a] + 1 \in Nat
    BY DEF TypeOK
  <2>3. given' \in SUBSET Nat
    <3>1. given \in SUBSET Nat
      BY DEF TypeOK
    <3> QED
      BY <2>1, <2>2, <3>1
  <2>4. pts' \in [Accounts -> Nat]
    <3>1. pts \in [Accounts -> Nat]
      BY DEF TypeOK
    <3> QED
      BY <2>1, <2>2, <3>1
  <2> QED
    BY <1>0, <1>2, <2>3, <2>4 DEF Dispatch, scheduler, world, Phones
<1>3. ASSUME NEW a \in Accounts, Drain(a) \/ ManagerFails(a)
      PROVE  TypeOK'
  BY <1>0, <1>3, EventsStay
     DEF Drain, ManagerFails, ManagerEnds, scheduler, world, disk, Phones, Events
<1>4. CASE HardExit \/ Crash
  <2>1. Down /\ happened' \in SUBSET Events
    BY <1>4, EventsStay DEF HardExit, Crash, Events
  <2> QED
    BY <1>0, <2>1 DEF Down, Steps, world, disk, Phones
<1>5. CASE Signal
  BY <1>0, <1>5, EventsStay DEF Signal, scheduler, world, disk, Phones, Events
<1>6. CASE Boot
  BY <1>0, <1>6 DEF Boot, scheduler, world, disk, Phones
<1>7. CASE World
  <2>1. CASE Tick
    BY <1>0, <1>7, <2>1, TickTypes DEF World, scheduler, disk, Phones
  <2>2. CASE Post
    BY <1>0, <1>7, <2>2 DEF World, Post, scheduler, disk, Phones
  <2> QED
    BY <1>7, <2>1, <2>2 DEF World
<1>8. CASE UNCHANGED vars
  BY <1>0, <1>8 DEF vars, scheduler, world, disk, Phones
<1> QED
  BY <1>1, <1>2, <1>3, <1>4, <1>5, <1>6, <1>7, <1>8 DEF Next, Manager

\* The type invariant, for any accounts, shifts, lengths of days and failures:
\* in particular activeShift always returns one of the shifts and a time.
THEOREM Typing == Spec => []TypeOK
<1>1. Init => IInv /\ TypeOK
  <2> SUFFICES ASSUME Init
               PROVE  IInv /\ TypeOK
    OBVIOUS
  <2>1. IInv
    BY NewClients DEF Init, IInv, Sessions
  <2>2. Day \in Lengths /\ Start \in 0..(Day - 1) /\ Day \in Nat
    BY ShiftsAssumption, DayAssumption
  <2>3. \A i \in 0..(Day - 1) : i - 0 \in 0..(Day - 1) /\ i \in Nat
    BY <2>2
  <2> QED
    BY <2>1, <2>2, <2>3 DEF Init, IInv, TypeOK, Steps, Phones, PhonesOf
<1>2. IInv /\ TypeOK /\ [Next]_vars => (IInv /\ TypeOK)'
  BY Inductive, TypeStep
<1> QED
  BY <1>1, <1>2, PTL DEF Spec
------------------------------------------------------------------------------
(* Whose session it is. *)

\* Why the session that waits for next is one of shift sh: this shift runs now
\* and ends at next, or it was picked yesterday and ends at a time counted
\* from the midnight before.
Due(sh) ==
    \/ IsActive(sh, Today) /\ next = midnight + SwitchTime(sh, Today)
    \/ sh.to < sh.from /\ next = midnight + Day + sh.to - yesterday

\* A day with a clock change is followed by a usual one.
OneChange == length = Day \/ yesterday = Day

\* From its pick to its end, the account served is that of a due shift.
SessionInv ==
    /\ pc \in {"connect", "resolve", "wait"} /\ clock < next
    /\ validateSchedule(Roster, Accounts)
    => \E i \in DOMAIN Roster : Roster[i].phone = ctrl /\ Due(Roster[i])

\* A shift that is due stays due as time passes, until it ends; it does not
\* go on past a second midnight.
LEMMA StaysDue ==
    ASSUME TypeOK, Tick, UNCHANGED next, clock' < next,
           NEW sh \in Shift(Phones), sh.from # sh.to, Due(sh)
    PROVE  Due(sh)'
<1>1. /\ sh.from \in 0..(Day - 1) /\ sh.to \in 0..(Day - 1)
      /\ Day \in Nat /\ Day >= 2
      /\ length \in Day - 1 .. Day + 1 /\ yesterday \in Day - 1 .. Day + 1
  BY Setting DEF Shift
<1>2. /\ clock \in Nat /\ midnight \in Nat /\ next \in Nat
      /\ Today = clock - midnight /\ Today \in 0..(length - 1)
      /\ clock' = clock + 1
  BY Setting DEF TypeOK, Tick, Today
<1>3. CASE clock + 1 # midnight + length
  <2>1. Today' = Today + 1 /\ UNCHANGED <<midnight, yesterday>>
    BY <1>2, <1>3 DEF Tick, Today
  <2>2. CASE IsActive(sh, Today) /\ next = midnight + SwitchTime(sh, Today)
    <3>1. CASE sh.from < sh.to
      BY <1>1, <1>2, <2>1, <2>2, <3>1 DEF Due, IsActive, SwitchTime
    <3>2. CASE sh.to < sh.from /\ Today >= sh.from
      BY <1>1, <1>2, <2>1, <2>2, <3>2 DEF Due, IsActive, SwitchTime
    <3>3. CASE sh.to < sh.from /\ Today < sh.from
      BY <1>1, <1>2, <2>1, <2>2, <3>3 DEF Due, IsActive, SwitchTime
    <3> QED
      BY <1>1, <1>2, <3>1, <3>2, <3>3
  <2>3. CASE sh.to < sh.from /\ next = midnight + Day + sh.to - yesterday
    BY <2>1, <2>3 DEF Due
  <2> QED
    BY <2>2, <2>3 DEF Due
<1>4. CASE clock + 1 = midnight + length
  <2>1. midnight' = midnight + length /\ yesterday' = length /\ clock' = midnight'
    BY <1>2, <1>4 DEF Tick
  <2>2. CASE IsActive(sh, Today) /\ next = midnight + SwitchTime(sh, Today)
    <3>1. ~(sh.from < sh.to) /\ Today >= sh.from
      BY <1>1, <1>2, <2>1, <2>2 DEF IsActive, SwitchTime
    <3>2. next = midnight + Day + sh.to
      BY <1>1, <1>2, <2>2, <3>1 DEF SwitchTime
    <3> QED
      BY <1>1, <1>2, <2>1, <3>1, <3>2 DEF Due
  <2>3. CASE sh.to < sh.from /\ next = midnight + Day + sh.to - yesterday
    BY <1>1, <1>2, <2>1, <2>3
  <2> QED
    BY <2>2, <2>3 DEF Due
<1> QED
  BY <1>3, <1>4

\* The shift that is picked is due.
LEMMA PickedIsDue ==
    ASSUME TypeOK, Pick, UNCHANGED setup, validateSchedule(Roster, Accounts)
    PROVE  \E i \in DOMAIN Roster : Roster[i].phone = ctrl' /\ Due(Roster[i])'
<1>1. Roster \in Seq(Shift(Phones)) /\ Today \in 0..Day /\ Shifted
  BY Setting DEF validateSchedule, Shifted
<1>2. PICK i \in DOMAIN Roster :
          /\ IsActive(Roster[i], Today)
          /\ activeShift(Roster, Today) =
                [phone |-> Roster[i].phone, next |-> SwitchTime(Roster[i], Today)]
  BY <1>1, TakesARunningShift
<1>3. ctrl' = Roster[i].phone /\ next' = midnight + SwitchTime(Roster[i], Today)
  BY <1>1, <1>2 DEF Pick, OnDuty, NextSwitch
<1>4. UNCHANGED <<clock, midnight, yesterday, setup>>
  BY DEF Pick, world
<1> QED
  BY <1>2, <1>3, <1>4 DEF Due, Today, Roster

LEMMA OneChangeStep ==
    ASSUME OneChange, [Next]_vars
    PROVE  OneChange'
<1>1. CASE Tick
  BY <1>1 DEF OneChange, Tick
<1>2. CASE UNCHANGED <<length, yesterday>>
  BY <1>2 DEF OneChange
<1> QED
  BY <1>1, <1>2
     DEF Next, World, Post, Scheduler, Manager, Pick, Connect, ConnectFails,
         SetBridge, ResolveFails, ShiftEnds, Shutdown, CloseBolt, Sleep, Exit,
         Dispatch, Drain, ManagerFails, ManagerEnds, HardExit, Crash, Signal,
         Boot, Down, world, vars

LEMMA SessionStep ==
    ASSUME TypeOK, IInv, SessionInv, [Next]_vars
    PROVE  SessionInv'
<1>0. UNCHANGED setup
  BY DEF Next, vars
<1>1. CASE Pick
  <2> SUFFICES ASSUME validateSchedule(Roster, Accounts)
               PROVE  SessionInv'
    BY <1>0 DEF SessionInv, Roster
  <2> QED
    BY <1>0, <1>1, PickedIsDue DEF SessionInv, Roster
<1>2. CASE Tick /\ World
  <2>1. UNCHANGED <<pc, ctrl, next>>
    BY <1>2 DEF World, scheduler
  <2> SUFFICES ASSUME pc \in {"connect", "resolve", "wait"}, clock' < next,
                      validateSchedule(Roster, Accounts)
               PROVE  \E i \in DOMAIN Roster :
                          Roster[i].phone = ctrl /\ Due(Roster[i])'
    BY <1>0, <2>1 DEF SessionInv, Roster
  <2>2. clock < next
    BY <1>2 DEF Tick, TypeOK
  <2>3. PICK i \in DOMAIN Roster : Roster[i].phone = ctrl /\ Due(Roster[i])
    BY <2>2 DEF SessionInv
  <2>4. Roster[i] \in Shift(Phones) /\ Roster[i].from # Roster[i].to
    BY Setting DEF validateSchedule
  <2>5. Due(Roster[i])'
    BY <1>0, <1>2, <2>1, <2>3, <2>4, StaysDue DEF Roster
  <2> QED
    BY <2>3, <2>5
<1>3. CASE UNCHANGED <<pc, ctrl, next, clock, midnight, yesterday>>
  BY <1>0, <1>3 DEF SessionInv, Due, Today, Roster
<1>4. CASE pc' \notin {"connect", "resolve", "wait"}
  BY <1>4 DEF SessionInv
<1>5. CASE /\ pc \in {"connect", "resolve"}
           /\ UNCHANGED <<ctrl, next, clock, midnight, yesterday>>
  BY <1>0, <1>5 DEF SessionInv, Due, Today, Roster
<1>6. CASE Scheduler
  <2>1. CASE Connect \/ SetBridge
    BY <1>5, <2>1 DEF Connect, SetBridge, Goto, world
  <2>2. CASE ConnectFails \/ ResolveFails \/ ShiftEnds \/ Shutdown \/ Sleep
    BY <1>4, <2>2
       DEF ConnectFails, ResolveFails, ShiftEnds, Shutdown, Sleep, Disconnect, Goto
  <2>3. CASE CloseBolt
    BY <1>4, <2>3 DEF CloseBolt, Leave, IInv
  <2>4. CASE Exit
    BY <1>4, <2>4 DEF Exit, Down
  <2> QED
    BY <1>1, <1>6, <2>1, <2>2, <2>3, <2>4 DEF Scheduler
<1>7. CASE \E a \in Accounts : Manager(a)
  BY <1>3, <1>7
     DEF Manager, Dispatch, Drain, ManagerFails, ManagerEnds, scheduler, world
<1>8. CASE HardExit \/ Crash
  BY <1>4, <1>8 DEF HardExit, Crash, Down
<1>9. CASE Boot \/ Signal
  BY <1>3, <1>9 DEF Boot, Signal, scheduler, world
<1>10. CASE World /\ Post
  BY <1>3, <1>10 DEF World, Post, scheduler
<1>11. CASE UNCHANGED vars
  BY <1>3, <1>11 DEF vars, scheduler, world
<1> QED
  BY <1>2, <1>6, <1>7, <1>8, <1>9, <1>10, <1>11 DEF Next, World

\* What the clocks show while a shift is due.
LEMMA DueByTheClock ==
    ASSUME TypeOK, OneChange, clock < next,
           NEW sh \in Shift(Phones), sh.from # sh.to, Due(sh)
    PROVE  \E d \in (IF Changed THEN {-1, 0, 1} ELSE {0}) :
               (WallClock + d) % Day \in Minutes(sh)
<1>1. /\ sh.from \in 0..(Day - 1) /\ sh.to \in 0..(Day - 1)
      /\ Day \in Nat /\ Day >= 2
      /\ length \in Day - 1 .. Day + 1 /\ yesterday \in Day - 1 .. Day + 1
      /\ clock \in Nat /\ midnight \in Nat /\ next \in Nat
      /\ Today = clock - midnight /\ Today \in 0..(length - 1)
      /\ JumpAt \in 1..(Day - 1)
  BY Setting, ShiftsAssumption DEF Shift, TypeOK, Today
<1> DEFINE shown(t) == \E d \in (IF Changed THEN {-1, 0, 1} ELSE {0}) :
                           WallClock + d = t
<1>2. \A t \in 0..(Day - 1) : t % Day = t
  BY <1>1, Z3
<1>3. (-1) % Day = Day - 1
  BY <1>1, Z3
<1>4. ASSUME Today < Day
      PROVE  shown(Today)
  BY <1>1, <1>4 DEF WallClock, Changed
<1>5. ASSUME Today >= Day
      PROVE  shown(Day - 1)
  BY <1>1, <1>5 DEF WallClock, Changed
<1>6. ASSUME yesterday = Day - 1
      PROVE  shown(Today - 1) /\ Today < Day
  BY <1>1, <1>6 DEF WallClock, Changed, OneChange
<1>7. ASSUME NEW t \in -1 .. Day - 1, shown(t), t % Day \in Minutes(sh)
      PROVE  \E d \in (IF Changed THEN {-1, 0, 1} ELSE {0}) :
                 (WallClock + d) % Day \in Minutes(sh)
  BY <1>7
<1> HIDE DEF shown
<1>8. CASE IsActive(sh, Today) /\ next = midnight + SwitchTime(sh, Today)
  <2>1. CASE Today < Day
    <3>1. Today \in Minutes(sh)
      BY <1>1, <1>8, <2>1 DEF IsActive, Minutes
    <3> QED
      BY <1>1, <1>2, <1>4, <1>7, <2>1, <3>1
  <2>2. CASE Today >= Day
    <3>1. Day - 1 \in Minutes(sh)
      BY <1>1, <1>8, <2>2 DEF IsActive, Minutes
    <3> QED
      BY <1>1, <1>2, <1>5, <1>7, <2>2, <3>1
  <2> QED
    BY <1>1, <2>1, <2>2
<1>9. CASE sh.to < sh.from /\ next = midnight + Day + sh.to - yesterday
  <2>1. Minutes(sh) = {m \in 0..(Day - 1) : sh.from <= m \/ m < sh.to}
    BY <1>1, <1>9 DEF Minutes
  <2>2. CASE Today < sh.to
    BY <1>1, <1>2, <1>4, <1>7, <2>1, <2>2
  <2>3. CASE ~(Today < sh.to)
    <3>1. yesterday = Day - 1 /\ Today = sh.to
      BY <1>1, <1>9, <2>3
    <3>2. (Today - 1) % Day \in Minutes(sh)
      <4>1. CASE Today = 0
        BY <1>1, <1>3, <1>9, <2>1, <4>1
      <4>2. CASE Today > 0
        BY <1>1, <1>2, <2>1, <3>1, <4>2
      <4> QED
        BY <1>1, <4>1, <4>2
    <3> QED
      BY <1>1, <1>6, <1>7, <3>1, <3>2
  <2> QED
    BY <2>2, <2>3
<1> QED
  BY <1>8, <1>9 DEF Due

\* Under a validated schedule a session that waits for its end is that of the
\* account the schedule names for the time the clocks show - for every length
\* of the day and every schedule, to the unit; around a change of the clocks
\* one unit off at most (activeShift, runShifted; checked on small instances
\* by shifts_rough).
THEOREM OnDutyByTheClock == Spec => []DutyByTheClock
<1> DEFINE Inv == IInv /\ TypeOK /\ OneChange /\ SessionInv
<1>1. Init => OneChange /\ SessionInv
  BY DEF Init, OneChange, SessionInv
<1>2. Inv /\ [Next]_vars => OneChange' /\ SessionInv'
  BY OneChangeStep, SessionStep
<1>3. Inv => DutyByTheClock
  <2> SUFFICES ASSUME Inv, pc = "wait", clock < next,
                      validateSchedule(Roster, Accounts)
               PROVE  \E i \in DOMAIN Roster,
                         d \in (IF Changed THEN {-1, 0, 1} ELSE {0}) :
                          /\ Roster[i].phone = ctrl
                          /\ (WallClock + d) % Day \in Minutes(Roster[i])
    BY DEF DutyByTheClock
  <2>1. PICK i \in DOMAIN Roster : Roster[i].phone = ctrl /\ Due(Roster[i])
    BY DEF SessionInv
  <2>2. Roster[i] \in Shift(Phones) /\ Roster[i].from # Roster[i].to
    BY Setting DEF validateSchedule
  <2> QED
    BY <2>1, <2>2, DueByTheClock
<1>4. Spec => []IInv
  BY Connected
<1> QED
  BY <1>1, <1>2, <1>3, <1>4, Typing, PTL DEF Spec
==============================================================================
