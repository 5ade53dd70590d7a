----------------------------- MODULE Reminders -----------------------------
(***************************************************************************)
(* send_reminders.py: a script that cron starts every few minutes.  A run  *)
(* looks for duty sign-ups whose net starts soon, schedule by schedule, and *)
(* then for Net Control shifts of active activations; it sends first, and  *)
(* records what it has sent with one commit per schedule and one for all   *)
(* the shifts.                                                             *)
(***************************************************************************)
EXTENDS Integers, FiniteSets

CONSTANTS
    Schedules,      \* the weekly schedules of a net
    DayOfWeek,      \* the weekday of each, 0..Week - 1, in its own zone
    StartTime,      \* its local time of day, 0..Day - 1
    Zone,           \* how far its zone is ahead of UTC
    Signups,        \* duty sign-ups
    ScheduleOf,     \* the schedule of each
    DateOf,         \* its slot_date, in days
    Shifts,         \* shifts in the Net Control rotation of an activation
    ShiftStart,     \* scheduled_start of each
    Reachable,      \* those with an address or an account to notify
    Before,         \* reminder_minutes_before
    Day, Week,      \* units of time in a day, days in a week
    Horizon,        \* bound on the clock, and on the start of runs
    Runs,           \* runs of the script that can overlap
    Punctual,       \* cron gets a whole run done in each unit of time
    Removals,       \* whether rows are deleted and the session ended
    MaxFaults       \* bound on runs that die

ASSUME RemindersAssumption ==
    /\ Signups \cap Shifts = {}
    /\ Day \in Nat \ {0} /\ Week \in Nat \ {0}
    /\ Before \in Nat /\ Horizon \in Nat /\ MaxFaults \in Nat
    /\ Punctual \in BOOLEAN /\ Removals \in BOOLEAN
    /\ DayOfWeek \in [Schedules -> Nat]
    /\ StartTime \in [Schedules -> Nat] /\ Zone \in [Schedules -> Int]
    /\ ScheduleOf \in [Signups -> Schedules] /\ DateOf \in [Signups -> Nat]
    /\ ShiftStart \in [Shifts -> Int]
    /\ \A i \in Signups : DateOf[i] % Week = DayOfWeek[ScheduleOf[i]]

Items == Signups \cup Shifts

VARIABLES
    now,        \* the UTC clock
    active,     \* whether the activation session is under way
    row,        \* whether each sign-up and shift is yet to come, there or gone
    waited,     \* history: those there since this unit of time began
    marked,     \* those with reminder_sent_at
    run,        \* the runs under way
    caught,     \* whether a run begun in this unit of time has been completed
    tried,      \* history: how often a mail or a push to each was tried
    lost,       \* history: how many of these were never recorded
    shared,     \* history: those that two runs held at once
    faults      \* history: runs that died

vars == <<now, active, row, waited, marked, run, caught,
          tried, lost, shared, faults>>

\* A run: the time it has taken down, the schedules it has not come to, the rows
\* it has read and not come to, and those it has sent and not recorded.
Run == [phase : {"idle", "signups", "shifts"}, at : 0..Horizon,
        todo : SUBSET Schedules, batch : SUBSET Items, sent : SUBSET Items]

Idle == [phase |-> "idle", at |-> 0, todo |-> {}, batch |-> {}, sent |-> {}]

Holding(r) == run[r].batch \cup run[r].sent

\* A well-typed run has nothing but sign-ups in hand until it comes to the shifts.
TypeOK ==
    /\ now \in 0..Horizon
    /\ active \in BOOLEAN /\ caught \in BOOLEAN
    /\ row \in [Items -> {"new", "there", "gone"}]
    /\ waited \subseteq Items /\ marked \subseteq Items
    /\ shared \subseteq Items
    /\ run \in [Runs -> Run]
    /\ \A r \in Runs :
          /\ run[r].phase = "idle" => run[r] = Idle
          /\ run[r].phase = "signups" => Holding(r) \subseteq Signups
          /\ run[r].phase = "shifts" => run[r].todo = {} /\ Holding(r) \subseteq Shifts
    /\ tried \in [Items -> Nat] /\ lost \in [Items -> Nat]
    /\ faults \in 0..MaxFaults

-----------------------------------------------------------------------------
(* The clock and the rows, which the web application edits.                *)

Today(t) == t \div Day

\* occurrence_start_utc
OccurrenceStart(s, date) == date * Day + StartTime[s] - Zone[s]

Start(i) == IF i \in Signups THEN OccurrenceStart(ScheduleOf[i], DateOf[i])
                             ELSE ShiftStart[i]

InWindow(start, t) == start - Before <= t /\ t < start

There == {i \in Items : row[i] = "there"}

Tick ==
    /\ now < Horizon
    /\ Punctual => caught
    /\ now' = now + 1
    /\ caught' = FALSE
    /\ waited' = There
    /\ UNCHANGED <<active, row, marked, run,
                   tried, lost, shared, faults>>

\* create_signup, create_net_control_shift
Create(i) ==
    /\ row[i] = "new"
    /\ i \in Shifts => active
    /\ row' = [row EXCEPT ![i] = "there"]
    /\ UNCHANGED <<now, active, waited, marked, run, caught,
                   tried, lost, shared, faults>>

Remove(gone) ==
    /\ Removals
    /\ row' = [i \in Items |-> IF i \in gone THEN "gone" ELSE row[i]]
    /\ UNCHANGED <<now, active, waited, marked, run, caught,
                   tried, lost, shared, faults>>

\* delete_signup, delete_net_control_shift
Delete(i) == row[i] = "there" /\ Remove({i})

\* A schedule goes with its sign-ups; a run that has read it finds none of them.
DeleteSchedule(s) == Remove({i \in Signups : ScheduleOf[i] = s})

EndSession ==
    /\ Removals /\ active
    /\ active' = FALSE
    /\ UNCHANGED <<now, row, waited, marked, run, caught,
                   tried, lost, shared, faults>>

-----------------------------------------------------------------------------
(* send_due_reminders.                                                     *)

\* now_utc is read once; the schedules of its weekday by one SELECT.
StartRun(r) ==
    /\ run[r].phase = "idle" /\ now < Horizon
    /\ run' = [run EXCEPT ![r] =
                 [Idle EXCEPT !.phase = "signups", !.at = now,
                              !.todo = {s \in Schedules :
                                          DayOfWeek[s] = Today(now) % Week}]]
    /\ UNCHANGED <<now, active, row, waited, marked, caught,
                   tried, lost, shared, faults>>

HeldByOthers(r) == UNION {Holding(q) : q \in Runs \ {r}}

\* Mutant: the window is closed at both ends.
SignupsOfLate(s, t) ==
    IF ~InWindow(OccurrenceStart(s, Today(t)), t + 1) THEN {}
    ELSE {i \in There \cap Signups :
            ScheduleOf[i] = s /\ DateOf[i] = Today(t) /\ i \notin marked}

\* Mutant: sign-ups that have been reminded are read again.
SignupsOfAll(s, t) ==
    IF ~InWindow(OccurrenceStart(s, Today(t)), t) THEN {}
    ELSE {i \in There \cap Signups : ScheduleOf[i] = s /\ DateOf[i] = Today(t)}

\* The sign-ups of one schedule that a run of time t reads.
SignupsOf(s, t) ==
    IF ~InWindow(OccurrenceStart(s, Today(t)), t) THEN {}
    ELSE {i \in There \cap Signups :
            ScheduleOf[i] = s /\ DateOf[i] = Today(t) /\ i \notin marked}

TakeSchedule(r) ==
    /\ run[r].phase = "signups" /\ Holding(r) = {}
    /\ \E s \in run[r].todo :
          LET read == SignupsOf(s, run[r].at)
          IN  /\ run' = [run EXCEPT ![r].todo = @ \ {s}, ![r].batch = read]
              /\ shared' = shared \cup (read \cap HeldByOthers(r))
    /\ UNCHANGED <<now, active, row, waited, marked, caught,
                   tried, lost, faults>>

ReadShifts == IF active THEN {i \in There \cap Shifts : i \notin marked} ELSE {}

TakeShifts(r) ==
    /\ run[r].phase = "signups" /\ run[r].todo = {} /\ Holding(r) = {}
    /\ run' = [run EXCEPT ![r].phase = "shifts", ![r].batch = ReadShifts]
    /\ shared' = shared \cup (ReadShifts \cap HeldByOthers(r))
    /\ UNCHANGED <<now, active, row, waited, marked, caught,
                   tried, lost, faults>>

\* A mail or a push is tried.  Neither raises: one that fails is logged, and one to
\* an account without a device does nothing.
Send(i) == tried' = [tried EXCEPT ![i] = @ + 1]

Skip(r, i) ==
    /\ run' = [run EXCEPT ![r].batch = @ \ {i}]
    /\ UNCHANGED tried

\* reminder_sent_at is set on the object, not yet in the database.
Handled(r, i) == run' = [run EXCEPT ![r].batch = @ \ {i}, ![r].sent = @ \cup {i}]

\* Mutant: a sign-up nobody can be reached for counts as done with.
RemindSignupAll(r, i) ==
    /\ run[r].phase = "signups" /\ i \in run[r].batch
    /\ Handled(r, i)
    /\ IF i \in Reachable THEN Send(i) ELSE UNCHANGED tried
    /\ UNCHANGED <<now, active, row, waited, marked, caught, lost, shared, faults>>

\* With neither an address nor an account there is nothing to try.
RemindSignup(r, i) ==
    /\ run[r].phase = "signups" /\ i \in run[r].batch
    /\ IF i \in Reachable THEN Handled(r, i) /\ Send(i) ELSE Skip(r, i)
    /\ UNCHANGED <<now, active, row, waited, marked, caught, lost, shared, faults>>

\* A shift is marked even if its callsign matches no account.
RemindShift(r, i) ==
    /\ run[r].phase = "shifts" /\ i \in run[r].batch
    /\ IF ~InWindow(ShiftStart[i], run[r].at) THEN Skip(r, i)
       ELSE /\ Handled(r, i)
            /\ IF i \in Reachable THEN Send(i) ELSE UNCHANGED tried
    /\ UNCHANGED <<now, active, row, waited, marked, caught, lost, shared, faults>>

\* A run that ends without a commit forgets what it has sent.
Abandon(r) ==
    /\ run' = [run EXCEPT ![r] = Idle]
    /\ lost' = [i \in Items |-> IF i \in run[r].sent THEN lost[i] + 1 ELSE lost[i]]
    /\ UNCHANGED marked

\* One commit for what the batch has sent.  An UPDATE of one row that is gone
\* raises StaleDataError and ends the run; of several rows sent down together the
\* driver does not count, and those that are there are recorded.
Refused(r) == Cardinality(run[r].sent) = 1 /\ ~(run[r].sent \subseteq There)

Commit(r) ==
    /\ run[r].phase # "idle" /\ run[r].batch = {} /\ run[r].sent # {}
    /\ IF Refused(r) THEN Abandon(r)
       ELSE /\ marked' = marked \cup (run[r].sent \cap There)
            /\ run' = [run EXCEPT ![r].sent = {}]
            /\ UNCHANGED lost
    /\ UNCHANGED <<now, active, row, waited, caught,
                   tried, shared, faults>>

EndRun(r) ==
    /\ run[r].phase = "shifts" /\ Holding(r) = {}
    /\ run' = [run EXCEPT ![r] = Idle]
    /\ caught' = (caught \/ run[r].at = now)
    /\ UNCHANGED <<now, active, row, waited, marked,
                   tried, lost, shared, faults>>

\* The process is killed, or the database cannot be reached.
Die(r) ==
    /\ run[r].phase # "idle" /\ faults < MaxFaults
    /\ Abandon(r)
    /\ faults' = faults + 1
    /\ UNCHANGED <<now, active, row, waited, caught, tried, shared>>

-----------------------------------------------------------------------------
Init ==
    /\ now = 0 /\ active = TRUE /\ caught = FALSE
    /\ row = [i \in Items |-> "new"]
    /\ waited = {} /\ marked = {} /\ shared = {}
    /\ run = [r \in Runs |-> Idle]
    /\ tried = [i \in Items |-> 0] /\ lost = [i \in Items |-> 0]
    /\ faults = 0

Edit ==
    \/ \E i \in Items : Create(i) \/ Delete(i)
    \/ \E s \in Schedules : DeleteSchedule(s)
    \/ EndSession

Proceed(r) ==
    \/ StartRun(r) \/ TakeSchedule(r) \/ TakeShifts(r)
    \/ \E i \in Signups : RemindSignup(r, i)
    \/ \E i \in Shifts : RemindShift(r, i)
    \/ Commit(r) \/ EndRun(r)

Next == Tick \/ Edit \/ \E r \in Runs : Proceed(r) \/ Die(r)

Spec == Init /\ [][Next]_vars

-----------------------------------------------------------------------------
(* Properties.                                                             *)

\* A reminder is tried again only after one that was never recorded (the run died,
\* or its commit was refused), or if two runs had read the row at once.
AgainIsExcused == \A i \in Items : tried[i] > 1 + lost[i] => i \in shared

\* A sign-up is marked only once a mail or a push for it has been tried: one with
\* nobody to reach stays unmarked, whatever is sent and recorded around it ("leave
\* reminder_sent_at unset", before the loop's continue).
MarkedWasTried == \A i \in Signups \cap marked : tried[i] > 0

\* With a run in every unit of time, whoever has been signed up, or stood in the
\* rotation, for one whole unit of their window is recorded as reminded when it is over.
EveryDueIsReminded ==
    [][now' > now =>
         \A i \in waited \cap There \cap Reachable :
            /\ InWindow(Start(i), now)
            /\ i \in Shifts => active
            => i \in marked]_vars
=============================================================================
