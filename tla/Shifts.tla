------------------------------- MODULE Shifts --------------------------------
(***************************************************************************)
(* The life of the process: the scheduler that connects the account on     *)
(* duty and hands over at shift boundaries, the controllers that wire a    *)
(* bridge into each session, the clients with their state files, and       *)
(* shutdowns and crashes.                                                  *)
(*                                                                         *)
(* The messages of the chats are numbered; every account gets them all, in *)
(* order, from where its own state file stands (what a bridge does with    *)
(* one is the subject of Relay).  The updates manager of a client is a     *)
(* goroutine of its own: it hands out updates while the scheduler is       *)
(* anywhere between two steps.  Time is counted in units of a day as the   *)
(* wall clock shows it, and passes at any step; where clocks are changed,  *)
(* a day is one unit shorter or longer.                                    *)
(***************************************************************************)
EXTENDS Integers, Sequences, FiniteSets, Schedule

CONSTANTS
    Setups,     \* configurations: [accounts, shifts, reusable]
    Start,      \* when the first process starts, on a day of usual length
    Lengths,    \* how long days may be
    JumpAt,     \* the time of day at which clocks are changed
    MaxTicks,   \* how many units of time pass
    MaxPosts,   \* how many messages are written
    MaxFailures \* how much else happens, each kind once at most

\* The phones a configuration names.
PhonesOf(s) == s.accounts \cup {s.shifts[i].phone : i \in DOMAIN s.shifts}

Events == {"stop", "crash", "connect", "resolve", "manager", "timeout"}

\* What validateSchedule lets through; with one account it does not look at
\* the shifts, and time.Parse makes times of day of whatever they say.
\* reusable says whether a telegram.Client of gotd may run again after it was
\* stopped.
ASSUME ShiftsAssumption ==
    /\ \A s \in Setups :
           /\ s.accounts # {} /\ s.reusable \in BOOLEAN
           /\ s.shifts \in Seq(Shift(PhonesOf(s)))
           /\ \/ Cardinality(s.accounts) = 1
              \/ validateSchedule(s.shifts, s.accounts)
    /\ Start \in 0..(Day - 1)
    /\ Day \in Lengths /\ Lengths \subseteq {Day - 1, Day, Day + 1}
    /\ JumpAt \in 1..(Day - 1)

VARIABLES
    setup,      \* the configuration the processes run with
    up,         \* the process runs
    stop,       \* its context is cancelled
    pc,         \* the step of the scheduler
    ctrl,       \* the account it serves
    next,       \* the time it waits for
    after,      \* what follows the Disconnect in progress
    client,     \* client[a]: the tg.Client of account a
    clock,      \* the time, since the midnight before Start
    midnight,   \* when today began
    length,     \* how long today is
    yesterday,  \* how long yesterday was
    sent,       \* messages written to the chats so far
    pts,        \* pts[a]: the messages account a has handled, on disk
    given,      \* history: the messages some bridge was given
    happened    \* the events there were

world == <<clock, midnight, length, yesterday, sent>>
disk == <<pts, given>>
scheduler == <<pc, ctrl, next, after>>
vars == <<setup, up, stop, scheduler, client, world, disk, happened>>
------------------------------------------------------------------------------
(* A client: whether its state file is open, whether it is connected       *)
(* (stopBG # nil), its updates manager, its bridge, and whether its        *)
(* telegram.Client was stopped before.  The manager runs from "on", is     *)
(* waited for while "ending", and "left" behind once nobody waits.         *)
Client == [open : BOOLEAN, held : BOOLEAN,
           gaps : {"off", "on", "ending", "left"},
           bridge : BOOLEAN, spent : BOOLEAN]

Fresh == [open |-> TRUE, held |-> FALSE, gaps |-> "off", bridge |-> FALSE,
          spent |-> FALSE]

Gone == [Fresh EXCEPT !.open = FALSE]

Steps == {"pick", "connect", "resolve", "wait", "retry", "cleanup",
          "disconnect", "pause", "stopped"}

\* The phones that have a controller.
Accounts == setup.accounts

Roster == setup.shifts

Shifted == Roster # <<>>

Phones == PhonesOf(setup)

TypeOK ==
    /\ setup \in Setups
    /\ up \in BOOLEAN /\ stop \in BOOLEAN
    /\ pc \in Steps /\ after \in Steps
    /\ ctrl \in Phones
    /\ client \in [Accounts -> Client]
    /\ next \in Nat /\ clock \in Nat /\ midnight \in Nat /\ sent \in Nat
    /\ clock - midnight \in 0..(length - 1)
    /\ length \in Lengths /\ yesterday \in Lengths
    /\ pts \in [Accounts -> Nat]
    /\ given \in SUBSET Nat
    /\ happened \in SUBSET Events

\* The time since midnight is that of a clock which is never changed.
Today == clock - midnight

\* Mutant of OnDuty: the shift instead of its phone.
ShiftOnDuty == IF Shifted THEN activeShift(Roster, Today)
                          ELSE CHOOSE a \in Accounts : TRUE

\* Who is on duty now, and until when.
OnDuty == IF Shifted THEN activeShift(Roster, Today).phone
                     ELSE CHOOSE a \in Accounts : TRUE

NextSwitch == midnight + activeShift(Roster, Today).next

Happens(event) ==
    /\ event \notin happened /\ Cardinality(happened) < MaxFailures
    /\ happened' = happened \cup {event}

Goto(step) == pc' = step /\ UNCHANGED <<ctrl, next, after>>
------------------------------------------------------------------------------
(* The scheduler. *)

Pick ==
    /\ pc = "pick"
    /\ ctrl' = OnDuty
    /\ next' = IF Shifted THEN NextSwitch ELSE next
    /\ pc' = IF OnDuty \in Accounts THEN "connect" ELSE "retry"
    /\ UNCHANGED <<up, stop, after, client, world, disk, happened>>

\* The session starts: the updates manager runs from here on, with whatever
\* bridge the client has; if its state file is closed it exits at once.
Connect ==
    /\ pc = "connect" /\ ~client[ctrl].held
    /\ client[ctrl].spent => setup.reusable
    /\ client' = [client EXCEPT ![ctrl].held = TRUE,
           ![ctrl].gaps = IF client[ctrl].open THEN "on" ELSE @]
    /\ Goto("resolve")
    /\ UNCHANGED <<up, stop, world, disk, happened>>

\* Connect returns an error: there is a session already, Telegram cannot be
\* reached or refuses, or the context is cancelled.  Without shifts Run
\* returns it too.
ConnectFails ==
    /\ pc = "connect"
    /\ \/ /\ client[ctrl].held \/ (client[ctrl].spent /\ ~setup.reusable) \/ stop
          /\ UNCHANGED happened
       \/ Happens("connect")
    /\ client' = [client EXCEPT ![ctrl].spent = TRUE]
    /\ Goto(IF Shifted THEN "retry" ELSE "stopped")
    /\ UNCHANGED <<up, stop, world, disk>>


\* ResolvePeers succeeds and the new bridge takes over.
SetBridge ==
    /\ pc = "resolve"
    /\ client' = [client EXCEPT ![ctrl].bridge = TRUE]
    /\ Goto("wait")
    /\ UNCHANGED <<up, stop, world, disk, happened>>

\* Mutant of Disconnect: it does not cancel the context.
DisconnectQuietly(step, then) ==
    /\ client' = [client EXCEPT ![ctrl].held = FALSE, ![ctrl].spent = TRUE]
    /\ pc' = step /\ after' = then
    /\ UNCHANGED <<ctrl, next>>

\* Disconnect, first part: forget the session and cancel its context.
Disconnect(step, then) ==
    /\ client' = [client EXCEPT ![ctrl].held = FALSE, ![ctrl].spent = TRUE,
                      ![ctrl].gaps = IF @ = "on" THEN "ending" ELSE @]
    /\ pc' = step /\ after' = then
    /\ UNCHANGED <<ctrl, next>>

ResolveFails ==
    /\ pc = "resolve"
    /\ (stop /\ UNCHANGED happened) \/ Happens("resolve")
    /\ Disconnect("cleanup", IF Shifted THEN "retry" ELSE "stopped")
    /\ UNCHANGED <<up, stop, world, disk>>

ShiftEnds ==
    /\ pc = "wait" /\ Shifted /\ clock >= next
    /\ Disconnect("disconnect", "pause")
    /\ UNCHANGED <<up, stop, world, disk, happened>>

Shutdown ==
    /\ pc = "wait" /\ stop
    /\ Disconnect("disconnect", "stopped")
    /\ UNCHANGED <<up, stop, world, disk, happened>>

\* The rest of Disconnect: the state file is closed, for good, and a manager
\* that still runs is left to itself.
Closed(c) == [c EXCEPT !.open = FALSE,
                       !.gaps = IF @ = "ending" THEN "left" ELSE @]

\* Disconnect returns, and this round of the scheduler with it.
Leave == pc' = after /\ after' = "pick" /\ next' = 0 /\ UNCHANGED ctrl

\* Mutant of CloseBolt: it does not wait for the goroutines.
CloseBoltAtOnce ==
    /\ pc \in {"cleanup", "disconnect"}
    /\ client' = [client EXCEPT ![ctrl] = Closed(@)]
    /\ Leave
    /\ UNCHANGED <<up, stop, world, disk, happened>>

\* Disconnect, second part: wait for the goroutines, up to a timeout.  Only the
\* cleanup after ResolvePeers does so with the context of the scheduler, and
\* not at all once that is cancelled.
CloseBolt ==
    /\ pc \in {"cleanup", "disconnect"}
    /\ \/ client[ctrl].gaps # "ending" /\ UNCHANGED happened
       \/ pc = "cleanup" /\ stop /\ UNCHANGED happened
       \/ Happens("timeout")
    /\ client' = [client EXCEPT ![ctrl] = Closed(@)]
    /\ Leave
    /\ UNCHANGED <<up, stop, world, disk>>

\* Mutant of Sleep: no sleep watches the context.
SleepThrough ==
    /\ pc \in {"retry", "pause"} /\ Goto("pick")
    /\ UNCHANGED <<up, stop, client, world, disk, happened>>

\* The sleeps between two rounds of the loop; a pause of the hand-over does
\* not watch the context.
Sleep ==
    /\ \/ pc = "retry" /\ stop /\ Goto("stopped")
       \/ pc = "retry" /\ ~stop /\ Goto("pick")
       \/ pc = "pause" /\ Goto("pick")
    /\ UNCHANGED <<up, stop, client, world, disk, happened>>
------------------------------------------------------------------------------
(* The updates manager of account a. *)

Runs(a) == client[a].gaps # "off"

\* The next message goes to the bridge, or to nobody while there is none, and
\* counts as handled; a closed state file keeps no record of it.
Dispatch(a) ==
    /\ Runs(a) /\ pts[a] < sent
    /\ given' = IF client[a].bridge THEN given \cup {pts[a] + 1} ELSE given
    /\ pts' = IF client[a].open THEN [pts EXCEPT ![a] = @ + 1] ELSE pts
    /\ UNCHANGED <<up, stop, scheduler, client, world, happened>>

ManagerEnds(a) ==
    /\ client' = [client EXCEPT ![a].gaps = "off"]
    /\ UNCHANGED <<up, stop, scheduler, world, disk>>

\* It returns once its context is cancelled, by Disconnect or with that of the
\* scheduler.
Drain(a) ==
    /\ client[a].gaps \in {"ending", "left"} \/ (client[a].gaps = "on" /\ stop)
    /\ ManagerEnds(a)
    /\ UNCHANGED happened

\* It returns by an error of its own, which is logged; nobody watches gapsErr
\* before Disconnect, so the session goes on without it.
ManagerFails(a) ==
    /\ Runs(a) /\ Happens("manager")
    /\ ManagerEnds(a)
------------------------------------------------------------------------------
(* The process; with it goes all it had in memory. *)

Down ==
    /\ up' = FALSE
    /\ client' = [a \in Accounts |-> Gone]
    /\ pc' = "pick" /\ after' = "pick" /\ next' = 0
    /\ UNCHANGED <<stop, ctrl, world, disk>>

\* main returns after the scheduler.
Exit == pc = "stopped" /\ Down /\ UNCHANGED happened

\* The hard-shutdown timer, 30 s after the signal.
HardExit == stop /\ Down /\ UNCHANGED happened

Crash == Happens("crash") /\ Down

\* The process starts: a new client for every account.
Boot ==
    /\ ~up
    /\ up' = TRUE /\ stop' = FALSE
    /\ client' = [a \in Accounts |-> Fresh]
    /\ UNCHANGED <<scheduler, world, disk, happened>>
------------------------------------------------------------------------------
(* The world: people write, time passes, operators send SIGTERM. *)

Post ==
    /\ sent < MaxPosts /\ sent' = sent + 1
    /\ UNCHANGED <<clock, midnight, length, yesterday>>

\* A day with a clock change is followed by usual ones.
Tick ==
    /\ clock < Start + MaxTicks
    /\ clock' = clock + 1
    /\ IF clock' = midnight + length
       THEN /\ midnight' = clock' /\ yesterday' = length
            /\ length' \in IF length = Day THEN Lengths ELSE {Day}
       ELSE UNCHANGED <<midnight, length, yesterday>>
    /\ UNCHANGED sent

World ==
    /\ Post \/ Tick
    /\ UNCHANGED <<up, stop, scheduler, client, disk, happened>>

Signal ==
    /\ ~stop /\ Happens("stop") /\ stop' = TRUE
    /\ UNCHANGED <<up, scheduler, client, world, disk>>
------------------------------------------------------------------------------
Scheduler == up /\
    (\/ Pick \/ Connect \/ ConnectFails \/ SetBridge \/ ResolveFails
     \/ ShiftEnds \/ Shutdown \/ CloseBolt \/ Sleep \/ Exit)

Manager(a) == up /\ (Dispatch(a) \/ Drain(a) \/ ManagerFails(a))

Next ==
    /\ \/ Scheduler
       \/ \E a \in Accounts : Manager(a)
       \/ up /\ (HardExit \/ Crash \/ Signal)
       \/ Boot
       \/ World
    /\ UNCHANGED setup

Init ==
    /\ setup \in Setups
    /\ up = TRUE /\ stop = FALSE
    /\ pc = "pick" /\ after = "pick"
    /\ ctrl \in Accounts
    /\ client = [a \in Accounts |-> Fresh]
    /\ next = 0 /\ clock = Start /\ midnight = 0 /\ sent = 0
    /\ length = Day /\ yesterday = Day
    /\ pts = [a \in Accounts |-> 0]
    /\ given = {}
    /\ happened = {}

Spec == Init /\ [][Next]_vars

\* The goroutines of the scheduler and of the updates managers keep running;
\* waits for the network end with an answer, an error or a timeout.  A select
\* takes one of the ready cases at random, so that the loop does not pass by a
\* cancelled context for ever.
FairSpec ==
    /\ Spec
    /\ WF_vars(Scheduler /\ UNCHANGED setup)
    /\ SF_vars(up /\ Shutdown /\ UNCHANGED setup)
    /\ \A a \in UNION {s.accounts : s \in Setups} :
           /\ WF_vars(up /\ a \in Accounts /\ Dispatch(a) /\ UNCHANGED setup)
           /\ WF_vars(up /\ a \in Accounts /\ Drain(a) /\ UNCHANGED setup)
------------------------------------------------------------------------------
(* Properties. *)

\* Every updates manager but that of the account being served has been told to
\* end, whatever fails: only a manager whose Disconnect did not wait for it is
\* still at work next to the one that took over, and its context is cancelled
\* (cancel, client.go:451).
OthersToldToEnd ==
    \A a \in Accounts :
        client[a].gaps = "on" => up /\ a = ctrl /\ pc \in {"resolve", "wait"}

\* As long as no Disconnect times out, the updates manager of one account is
\* gone before that of the next one starts (Disconnect waits for gapsErr).
\* After a timeout two of them may work, and relay what comes twice.
OneManagerRuns ==
    "timeout" \notin happened => Cardinality({a \in Accounts : Runs(a)}) <= 1

Serves(a) == client[a].gaps = "on" /\ client[a].bridge /\ pts[a] = sent

\* While the process is left running, the account on duty comes to serve the
\* chats and catches up with every message, those of its absence included
\* (ARCHITECTURE.md:117, "продолжает catch_up с той точки, где остановился").
CatchesUp == <>[](~up \/ stop \/ (OnDuty \in Accounts /\ Serves(OnDuty)))

\* Clocks are changed today or were yesterday: shifts may end one unit off.
Changed == length # Day \/ yesterday # Day

\* Connected, and no updates manager: one that failed is not started again.
Deaf(a) == "manager" \in happened /\ client[a].held /\ ~Runs(a)


\* What the clocks on the walls show.
WallClock ==
    IF length = Day - 1 /\ Today >= JumpAt THEN Today + 1
    ELSE IF length = Day + 1 /\ Today > JumpAt THEN Today - 1
    ELSE Today

\* While a session waits for its end, it is the one the schedule names for
\* this time of day - to the unit, or one unit off around a change of the
\* clocks (activeShift counts from midnight, scheduler.go:168).
DutyByTheClock ==
    LET off == IF Changed THEN {-1, 0, 1} ELSE {0}
    IN  pc = "wait" /\ clock < next /\ validateSchedule(Roster, Accounts) =>
            \E i \in DOMAIN Roster, d \in off :
                /\ Roster[i].phone = ctrl
                /\ (WallClock + d) % Day \in Minutes(Roster[i])

\* A shutdown completes by itself, wherever it finds the scheduler; the timer
\* that forces the exit is not needed for it.
ShutdownCompletes == stop ~> ~up

\* A message an account has handled was given to a bridge: the updates
\* manager resumes instead of "missing updates entirely"
\* (internal/tg/client.go:148).
HandledMeansGiven == \A a \in Accounts : 1..pts[a] \subseteq given
==============================================================================
