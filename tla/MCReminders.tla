---------------------------- MODULE MCReminders ----------------------------
(* Small instances of Reminders.                                            *)
EXTENDS Reminders, TLC

CONSTANTS evening, east, west, nc, bc, first, r1, r2

\* A net in UTC, with both its duties taken, one by an operator without an address or
\* an account any more, and a net of the next weekday.
UtcSchedules == {evening, east}
UtcDay == evening :> 0 @@ east :> 1
UtcStart == evening :> 2 @@ east :> 3
UtcZone == evening :> 0 @@ east :> 1

TwoSignups == {nc, bc}
TwoScheduleOf == nc :> evening @@ bc :> evening
TwoDates == nc :> 0 @@ bc :> 0

\* An evening net west of UTC: 18:00 at UTC-12 is 06:00 UTC the day after.
WestSchedules == {west}
WestDay == west :> 0
WestStart == west :> 3
WestZone == west :> -2
WestSignups == {nc}
WestScheduleOf == nc :> west
WestDates == nc :> 0

OneShift == {first}
ShiftTime == first :> 2

TwoRuns == {r1, r2}
OneRun == {r1}
Symmetry == Permutations(TwoRuns)
=============================================================================
