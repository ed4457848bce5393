------------------------------ MODULE MCShifts -------------------------------
(***************************************************************************)
(* Small instances of Shifts: a day of four units, one account without     *)
(* shifts or with those left over from two, and two accounts that change   *)
(* at daytime or at midnight.                                              *)
(***************************************************************************)
EXTENDS Shifts

CONSTANTS A, B

From(phone, from, to) == [phone |-> phone, from |-> from, to |-> to]

DayAndNight == <<From(A, 1, 2), From(B, 2, 1)>>

AtMidnight == <<From(B, 2, 0), From(A, 0, 2)>>

Alone(reusable) == [accounts |-> {A}, shifts |-> <<>>, reusable |-> reusable]

Two(shifts) == [accounts |-> {A, B}, shifts |-> shifts, reusable |-> TRUE]

\* A's partner was taken out of the configuration, its shift was not.
LeftOver == [accounts |-> {A}, shifts |-> DayAndNight, reusable |-> TRUE]

EverySetup == {Alone(FALSE), LeftOver, Two(DayAndNight), Two(AtMidnight)}

OnlyTwo == {Two(DayAndNight)}

OnlyAlone == {Alone(TRUE)}

UsualDays == {Day}

\* Clocks may be changed on the second day.
AnyDays == {Day - 1, Day, Day + 1}
==============================================================================
