------------------------------ MODULE Schedule -------------------------------
(***************************************************************************)
(* The arithmetic of shifts: what validateSchedule accepts and what        *)
(* activeShift makes of it.  Times of day are numbers of units since       *)
(* midnight; the validator counts in minutes.  A shift whose To is not     *)
(* after its From goes on past midnight.                                   *)
(***************************************************************************)
EXTENDS Naturals, Sequences

CONSTANT Day        \* the units of a day without a clock change

ASSUME DayAssumption == Day \in Nat \ {0}

\* A shift of the scheduler; no time is later than the last one of a day.
Shift(phones) == [phone : phones, from : 0..(Day - 1), to : 0..(Day - 1)]

\* The minutes of the day a shift takes, as validateSchedule marks them.
Minutes(sh) ==
    IF sh.from < sh.to THEN {m \in 0..(Day - 1) : sh.from <= m /\ m < sh.to}
                       ELSE {m \in 0..(Day - 1) : sh.from <= m \/ m < sh.to}

\* Two accounts need shifts of theirs that cover the day without overlaps.
validateSchedule(shifts, phones) ==
    /\ shifts # <<>>
    /\ \A i \in DOMAIN shifts : /\ shifts[i].phone \in phones
                                /\ shifts[i].from # shifts[i].to
    /\ \A i, j \in DOMAIN shifts :
           i # j => Minutes(shifts[i]) \cap Minutes(shifts[j]) = {}
    /\ \A m \in 0..(Day - 1) : \E i \in DOMAIN shifts : m \in Minutes(shifts[i])
------------------------------------------------------------------------------
\* Whether a shift runs, current units after midnight.
IsActive(sh, current) ==
    IF sh.from < sh.to THEN current >= sh.from /\ current < sh.to
                       ELSE current >= sh.from \/ current < sh.to

\* Mutant of SwitchTime: midnight is always the next one.
SwitchTimeTomorrow(sh, current) ==
    IF sh.from < sh.to THEN sh.to ELSE Day + sh.to

\* When an active shift ends, in units since midnight.
SwitchTime(sh, current) ==
    IF sh.from >= sh.to /\ current >= sh.from THEN Day + sh.to ELSE sh.to

\* Without an active shift: the first one is taken, until it starts.
NextStart(sh, current) ==
    IF current >= sh.from THEN sh.from + Day ELSE sh.from

\* activeShift: the first shift that runs, and when it ends.
activeShift(shifts, current) ==
    LET running == {i \in DOMAIN shifts : IsActive(shifts[i], current)}
    IN  IF running = {}
        THEN [phone |-> shifts[1].phone, next |-> NextStart(shifts[1], current)]
        ELSE LET i == CHOOSE i \in running : \A j \in running : i <= j
             IN  [phone |-> shifts[i].phone,
                  next |-> SwitchTime(shifts[i], current)]
==============================================================================
