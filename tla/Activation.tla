----------------------------- MODULE Activation -----------------------------
(***************************************************************************)
(* Activation sessions of one ARES net (routers/sessions.py and            *)
(* routers/tactical.py): a session is opened in several commits, its       *)
(* tactical positions are manned by sign-on and sign-off, and its plan is  *)
(* copied from a reusable activation schedule.                             *)
(*                                                                         *)
(* Handlers run concurrently (several workers, one event loop each, against*)
(* PostgreSQL at READ COMMITTED).  A handler whose reads and whose commit  *)
(* can be separated by another request holds a slot and a request record;  *)
(* a handler whose outcome is decided by its last statement alone is one   *)
(* action.                                                                 *)
(***************************************************************************)
EXTENDS Naturals, Sequences, FiniteSets

CONSTANTS
    Users,          \* accounts with some access to the net
    FullAccess,     \* those with owner, admin or editor access
    Callsigns,
    NoCallsign,
    OwnCallsigns,   \* the callsign and GMRS callsign of each account
    Slots,          \* requests that can be in flight at once
    Failures,       \* whether a request can die between two of its steps
    Ops,            \* the kinds of request clients send in this instance
    MaxSessions,    \* bounds on the rows clients ask for
    MaxSchedules,
    MaxPlan,
    MaxCheckins

AllOps == {"start", "schedule", "plan", "signon", "signoff", "end", "delete", "remove"}

ASSUME ActivationAssumption ==
    /\ FullAccess \subseteq Users
    /\ OwnCallsigns \in [Users -> SUBSET Callsigns]
    /\ NoCallsign \notin Callsigns
    /\ Failures \in BOOLEAN
    /\ Ops \subseteq AllOps
    /\ MaxSessions \in Nat /\ MaxSchedules \in Nat /\ MaxPlan \in Nat /\ MaxCheckins \in Nat

VARIABLES
    sessions,   \* net_sessions with is_activation
    schedules,  \* activation_schedules
    plan,       \* tactical_positions and net_control_shifts
    log,        \* checkins made by tactical sign-on
    req         \* the requests in flight

vars == <<sessions, schedules, plan, log, req>>

-----------------------------------------------------------------------------
(* Tables are append-only: a row's primary key is its index, a deleted row *)
(* stays with live = FALSE, and Null is the absent key.                    *)

Null == 0

Session == [live : BOOLEAN, ended : BOOLEAN, offline : BOOLEAN, locked : BOOLEAN]

Schedule == [live : BOOLEAN]

\* A planned row: LIVE when session is set, a TEMPLATE MEMBER when schedule is.
PlanRow == [live : BOOLEAN, kind : {"net_control", "position", "shift"},
            session : Nat, schedule : Nat]

\* One shift of one operator.  open: signed_off_at is null.  seen is history:
\* the length of the log when the request that wrote the row last looked at it.
Checkin == [live : BOOLEAN, session : Nat, callsign : Callsigns,
            position : Nat, open : BOOLEAN, seen : Nat]

Steps == {"idle", "stamp", "net_control", "duty", "templates", "copy",
          "occupant", "sign_on", "sign_off", "end"}

Request == [step : Steps, user : Users \cup {NoCallsign}, session : Nat,
            position : Nat, callsign : Callsigns \cup {NoCallsign},
            schedule : Nat, outgoing : Nat, seen : Nat, copies : Nat]

Idle == [step |-> "idle", user |-> NoCallsign, session |-> Null,
         position |-> Null, callsign |-> NoCallsign, schedule |-> Null,
         outgoing |-> Null, seen |-> 0, copies |-> 0]

TypeOK ==
    /\ sessions \in Seq(Session)
    /\ schedules \in Seq(Schedule)
    /\ plan \in Seq(PlanRow)
    /\ log \in Seq(Checkin)
    /\ req \in [Slots -> Request]

Live(table, id) == id \in DOMAIN table /\ table[id].live

\* The open rows of position x; its occupant is the latest of them, if any.
OpenRows(x) ==
    {i \in DOMAIN log : log[i].live /\ log[i].open /\ log[i].position = x}

\* Mutant: the occupant is taken from the other end of the order.
IsOldestOccupant(i, x) ==
    IF i = Null THEN OpenRows(x) = {}
    ELSE i \in OpenRows(x) /\ \A j \in OpenRows(x) : i <= j

IsOccupant(i, x) ==
    IF i = Null THEN OpenRows(x) = {}
    ELSE i \in OpenRows(x) /\ \A j \in OpenRows(x) : j <= i

Members(k, kinds) ==
    {x \in DOMAIN plan : plan[x].live /\ plan[x].schedule = k /\ plan[x].kind \in kinds}

Closing(rows, i) ==
    [j \in DOMAIN rows |-> IF j = i THEN [rows[j] EXCEPT !.open = FALSE] ELSE rows[j]]

Shift(s, c, x, seen) ==
    [live |-> TRUE, session |-> s, callsign |-> c, position |-> x,
     open |-> TRUE, seen |-> seen]

Planned(kind, s, k) ==
    [live |-> TRUE, kind |-> kind, session |-> s, schedule |-> k]

\* Mutant: a copied position is flagged as Net Control.
CopiesFlagged(kind, s, n) ==
    [i \in 1..n |-> Planned(IF kind = "position" THEN "net_control" ELSE kind, s, Null)]

Copies(kind, s, n) == [i \in 1..n |-> Planned(kind, s, Null)]

Continue(p, r) == req' = [req EXCEPT ![p] = r]

Reply(p) == Continue(p, Idle)

At(p, step) == req[p].step = step

\* Mutant: no foreign keys, and an UPDATE of no row goes unnoticed.
WritableAlways(r) == TRUE

\* The rows an in-flight commit updates or refers to are still there.
Writable(r) ==
    /\ Live(sessions, r.session)
    /\ r.position # Null => Live(plan, r.position)
    /\ r.outgoing # Null => Live(log, r.outgoing)

-----------------------------------------------------------------------------
(* start_session for an activation: one commit per step.                   *)

\* The first commit.  The net-control callsign comes from the override, the
\* sign-up for the day or the operator (whose account may be gone by then).
StartSession(p, offline, duty, k) ==
    /\ "start" \in Ops
    /\ At(p, "idle")
    /\ Len(sessions) < MaxSessions
    /\ k # Null => Live(schedules, k)
    /\ sessions' = Append(sessions, [live |-> TRUE, ended |-> FALSE,
                                     offline |-> offline, locked |-> FALSE])
    /\ Continue(p, [Idle EXCEPT !.step = IF offline THEN "stamp" ELSE "net_control",
                                !.session = Len(sessions) + 1,
                                !.callsign = duty,
                                !.schedule = k])
    /\ UNCHANGED <<schedules, plan, log>>

\* Mutant: the handler returns once the entry is stamped.
StampEndedAndReply(p) ==
    /\ At(p, "stamp") /\ Writable(req[p])
    /\ sessions' = [sessions EXCEPT ![req[p].session].ended = TRUE]
    /\ Reply(p)
    /\ UNCHANGED <<schedules, plan, log>>

\* A backfilled entry gets its ended_at in a second commit.
StampEnded(p) ==
    /\ At(p, "stamp") /\ Writable(req[p])
    /\ sessions' = [sessions EXCEPT ![req[p].session].ended = TRUE]
    /\ Continue(p, [req[p] EXCEPT !.step = "net_control"])
    /\ UNCHANGED <<schedules, plan, log>>

AfterDuty(r) ==
    IF r.schedule = Null THEN Idle
    ELSE [r EXCEPT !.step = "templates", !.position = Null,
                   !.callsign = NoCallsign, !.seen = 0]

CreateNetControl(p) ==
    LET r == [req[p] EXCEPT !.position = Len(plan) + 1, !.seen = Len(log)]
    IN  /\ At(p, "net_control") /\ Writable(req[p])
        /\ plan' = Append(plan, Planned("net_control", req[p].session, Null))
        /\ Continue(p, IF r.callsign = NoCallsign THEN AfterDuty(r)
                       ELSE [r EXCEPT !.step = "duty"])
        /\ UNCHANGED <<sessions, schedules, log>>

\* The operator on duty is signed on without a look at the position.
SignOnDuty(p) ==
    LET r == req[p]
    IN  /\ At(p, "duty") /\ Writable(r)
        /\ log' = Append(log, Shift(r.session, r.callsign, r.position, r.seen))
        /\ Continue(p, AfterDuty(r))
        /\ UNCHANGED <<sessions, schedules, plan>>

\* Two SELECTs: the template positions first, the shifts just before the commit.
ReadTemplates(p) ==
    /\ At(p, "templates")
    /\ Continue(p, [req[p] EXCEPT !.step = "copy",
                      !.copies = Cardinality(Members(req[p].schedule, {"position"}))])
    /\ UNCHANGED <<sessions, schedules, plan, log>>

CopyTemplates(p) ==
    LET r == req[p]
    IN  /\ At(p, "copy") /\ Writable(r)
        /\ plan' = plan \o Copies("position", r.session, r.copies)
                        \o Copies("shift", r.session,
                                  Cardinality(Members(r.schedule, {"shift"})))
        /\ Reply(p)
        /\ UNCHANGED <<sessions, schedules, log>>

-----------------------------------------------------------------------------
(* sign_on_tactical_position: position and session are checked, then the   *)
(* occupant is read, then the outgoing row is closed and the new one added *)
(* in one commit.                                                          *)

\* Mutant: no look at whether the session has ended.
BeginSignOnUnchecked(p, u, x, c) ==
    /\ "signon" \in Ops
    /\ At(p, "idle")
    /\ Len(log) < MaxCheckins
    /\ Live(plan, x) /\ plan[x].kind # "shift" /\ plan[x].session # Null
    /\ Continue(p, [Idle EXCEPT !.step = "occupant", !.user = u,
                                !.session = plan[x].session,
                                !.position = x, !.callsign = c])
    /\ UNCHANGED <<sessions, schedules, plan, log>>

BeginSignOn(p, u, x, c) ==
    /\ "signon" \in Ops
    /\ At(p, "idle")
    /\ Len(log) < MaxCheckins
    /\ Live(plan, x) /\ plan[x].kind # "shift" /\ plan[x].session # Null
    /\ ~sessions[plan[x].session].ended
    /\ Continue(p, [Idle EXCEPT !.step = "occupant", !.user = u,
                                !.session = plan[x].session,
                                !.position = x, !.callsign = c])
    /\ UNCHANGED <<sessions, schedules, plan, log>>

\* Mutant: any position may be taken, occupied or not.
MaySignOnAnywhere(u, c, outgoing) == u \in FullAccess \/ c \in OwnCallsigns[u]

\* Without full net access a caller signs on only as itself, and only where
\* nobody else is.
MaySignOn(u, c, outgoing) ==
    \/ u \in FullAccess
    \/ /\ c \in OwnCallsigns[u]
       /\ outgoing # Null => log[outgoing].callsign \in OwnCallsigns[u]

ReadOccupant(p) ==
    LET r == req[p]
    IN  /\ At(p, "occupant")
        /\ \E outgoing \in OpenRows(r.position) \cup {Null} :
              /\ IsOccupant(outgoing, r.position)
              /\ IF MaySignOn(r.user, r.callsign, outgoing)
                 THEN Continue(p, [r EXCEPT !.step = "sign_on", !.outgoing = outgoing,
                                            !.seen = Len(log)])
                 ELSE Reply(p)
        /\ UNCHANGED <<sessions, schedules, plan, log>>

SignOn(p) ==
    LET r == req[p]
    IN  /\ At(p, "sign_on") /\ Writable(r)
        /\ log' = Append(Closing(log, r.outgoing),
                         Shift(r.session, r.callsign, r.position, r.seen))
        /\ Reply(p)
        /\ UNCHANGED <<sessions, schedules, plan>>

(* sign_off_tactical_position: no look at whether the session has ended.   *)

MaySignOff(u, outgoing) ==
    \/ u \in FullAccess
    \/ log[outgoing].callsign \in OwnCallsigns[u]

BeginSignOff(p, u, x) ==
    /\ "signoff" \in Ops
    /\ At(p, "idle")
    /\ Live(plan, x)
    /\ \E outgoing \in OpenRows(x) :
          /\ IsOccupant(outgoing, x) /\ MaySignOff(u, outgoing)
          /\ Continue(p, [Idle EXCEPT !.step = "sign_off", !.user = u,
                                      !.session = log[outgoing].session,
                                      !.outgoing = outgoing])
    /\ UNCHANGED <<sessions, schedules, plan, log>>

SignOff(p) ==
    /\ At(p, "sign_off") /\ Writable(req[p])
    /\ log' = Closing(log, req[p].outgoing)
    /\ Reply(p)
    /\ UNCHANGED <<sessions, schedules, plan>>

-----------------------------------------------------------------------------
(* end_session and delete_session.                                         *)

MayEnd(s) == IF s.offline THEN ~s.locked ELSE ~s.ended

BeginEnd(p, s) ==
    /\ "end" \in Ops
    /\ At(p, "idle")
    /\ Live(sessions, s) /\ MayEnd(sessions[s])
    /\ Continue(p, [Idle EXCEPT !.step = "end", !.session = s])
    /\ UNCHANGED <<sessions, schedules, plan, log>>

EndSession(p) ==
    LET s == req[p].session
    IN  /\ At(p, "end") /\ Writable(req[p])
        /\ sessions' = IF sessions[s].offline
                       THEN [sessions EXCEPT ![s].locked = TRUE]
                       ELSE [sessions EXCEPT ![s].ended = TRUE]
        /\ Reply(p)
        /\ UNCHANGED <<schedules, plan, log>>

\* The rows of a deleted parent go with it.
Cascade(table, gone) ==
    [i \in DOMAIN table |->
        IF i \in gone THEN [table[i] EXCEPT !.live = FALSE] ELSE table[i]]

DeleteSession(s) ==
    /\ "delete" \in Ops
    /\ Live(sessions, s)
    /\ sessions' = Cascade(sessions, {s})
    /\ plan' = Cascade(plan, {x \in DOMAIN plan : plan[x].session = s})
    /\ log' = Cascade(log, {i \in DOMAIN log : log[i].session = s})
    /\ UNCHANGED <<schedules, req>>

-----------------------------------------------------------------------------
(* The plan: activation schedules, their members, and live rows.           *)

CreateSchedule ==
    /\ "schedule" \in Ops /\ Len(schedules) < MaxSchedules
    /\ schedules' = Append(schedules, [live |-> TRUE])
    /\ UNCHANGED <<sessions, plan, log, req>>

DeleteSchedule(k) ==
    /\ "schedule" \in Ops /\ Live(schedules, k)
    /\ schedules' = Cascade(schedules, {k})
    /\ plan' = Cascade(plan, {x \in DOMAIN plan : plan[x].schedule = k})
    /\ UNCHANGED <<sessions, log, req>>

CreateMember(k, kind) ==
    /\ "schedule" \in Ops /\ Len(plan) < MaxPlan /\ Live(schedules, k)
    /\ plan' = Append(plan, Planned(kind, Null, k))
    /\ UNCHANGED <<sessions, schedules, log, req>>

CreateLive(s, kind) ==
    /\ "plan" \in Ops /\ Len(plan) < MaxPlan /\ Live(sessions, s)
    /\ plan' = Append(plan, Planned(kind, s, Null))
    /\ UNCHANGED <<sessions, schedules, log, req>>

\* Check-ins of a deleted position keep their history, their reference becomes null.
DeletePlanned(x) ==
    /\ "plan" \in Ops /\ Live(plan, x) /\ plan[x].kind # "net_control"
    /\ plan' = Cascade(plan, {x})
    /\ log' = [i \in DOMAIN log |-> IF log[i].position = x
                                    THEN [log[i] EXCEPT !.position = Null] ELSE log[i]]
    /\ UNCHANGED <<sessions, schedules, req>>

\* delete_checkin
DeleteCheckin(i) ==
    /\ "remove" \in Ops /\ Live(log, i)
    /\ log' = Cascade(log, {i})
    /\ UNCHANGED <<sessions, schedules, plan, req>>

-----------------------------------------------------------------------------
(* A commit whose rows have gone is refused (a foreign key, or an UPDATE   *)
(* that matches no row) and rolled back whole.                             *)
Refuse(p) ==
    /\ req[p].step \notin {"idle", "templates", "occupant"} /\ ~Writable(req[p])
    /\ Reply(p)
    /\ UNCHANGED <<sessions, schedules, plan, log>>

\* The worker is stopped or loses its database connection.
Fail(p) ==
    /\ Failures /\ ~At(p, "idle")
    /\ Reply(p)
    /\ UNCHANGED <<sessions, schedules, plan, log>>

Init ==
    /\ sessions = <<>> /\ schedules = <<>> /\ plan = <<>> /\ log = <<>>
    /\ req = [p \in Slots |-> Idle]

\* What the server does by itself once a request is in flight.
Proceed(p) ==
    \/ StampEnded(p) \/ CreateNetControl(p) \/ SignOnDuty(p)
    \/ ReadTemplates(p) \/ CopyTemplates(p)
    \/ ReadOccupant(p) \/ SignOn(p) \/ SignOff(p) \/ EndSession(p)
    \/ Refuse(p)

Begin(p) ==
    \/ \E offline \in BOOLEAN, duty \in Callsigns \cup {NoCallsign},
          k \in DOMAIN schedules \cup {Null} : StartSession(p, offline, duty, k)
    \/ \E u \in Users, x \in DOMAIN plan, c \in Callsigns : BeginSignOn(p, u, x, c)
    \/ \E u \in Users, x \in DOMAIN plan : BeginSignOff(p, u, x)
    \/ \E s \in DOMAIN sessions : BeginEnd(p, s)

Edit ==
    \/ \E s \in DOMAIN sessions : DeleteSession(s)
    \/ CreateSchedule
    \/ \E k \in DOMAIN schedules : DeleteSchedule(k)
    \/ \E kind \in {"position", "shift"} :
          \/ \E k \in DOMAIN schedules : CreateMember(k, kind)
          \/ \E s \in DOMAIN sessions : CreateLive(s, kind)
    \/ \E x \in DOMAIN plan : DeletePlanned(x)
    \/ \E i \in DOMAIN log : DeleteCheckin(i)

Next == Edit \/ \E p \in Slots : Begin(p) \/ Proceed(p) \/ Fail(p)

Spec == Init /\ [][Next]_vars

\* The event loop keeps running every request it has accepted.
Fairness == \A p \in Slots : WF_vars(Proceed(p))

-----------------------------------------------------------------------------
(* Properties.                                                             *)

\* Keys held by rows and by requests are keys that have been issued, and a
\* request that is about to log a check-in knows the callsign.
RowKeys ==
    /\ \A x \in DOMAIN plan : plan[x].session <= Len(sessions)
    /\ \A i \in DOMAIN log :
          /\ log[i].session <= Len(sessions)
          /\ log[i].position <= Len(plan)
          /\ log[i].seen < i

RequestKeys(r, lastSession, lastPlanned, lastLogged) ==
    /\ r.session <= lastSession
    /\ r.position <= lastPlanned
    /\ r.outgoing <= lastLogged
    /\ r.seen <= lastLogged
    /\ r.step \in {"duty", "occupant", "sign_on"} => r.callsign \in Callsigns

KnownKeys ==
    /\ RowKeys
    /\ \A p \in Slots : RequestKeys(req[p], Len(sessions), Len(plan), Len(log))

\* Every reference of a live row leads to a live row of the same session: a
\* planned row is live or a template member and never both, its parent exists,
\* and an operator holds only a position of the session that logged it
\* (models.py TacticalPosition "exactly one of two things"; cascades).
Referential ==
    /\ \A x \in DOMAIN plan : plan[x].live =>
          \/ plan[x].schedule = Null /\ Live(sessions, plan[x].session)
          \/ /\ plan[x].session = Null /\ Live(schedules, plan[x].schedule)
             /\ plan[x].kind # "net_control"
    /\ \A i \in DOMAIN log : log[i].live =>
          /\ Live(sessions, log[i].session)
          /\ log[i].position # Null =>
                /\ Live(plan, log[i].position)
                /\ plan[log[i].position].session = log[i].session

\* A row of position x after row i, up to row j, was written unaware of row i.
Overlapped(x, i, j) ==
    \E k \in (i + 1)..j : log[k].position = x /\ log[k].seen < i

\* Two open rows of one position can only come from a sign-on that overlapped
\* another one: some later row up to the newer of the two was written by a
\* request that had looked at the position before the older one was committed
\* (_current_occupant's comment on racing operators).
DoubleOccupancyIsRaced ==
    \A x \in DOMAIN plan : \A i, j \in OpenRows(x) :
        i < j => Overlapped(x, i, j)

\* With requests that do not overlap, a position has one occupant at most.
SingleOccupant ==
    \A x \in DOMAIN plan : \A i, j \in OpenRows(x) : i = j

\* Who is on position x, and whether nobody may sign on to it any more: the position has
\* gone, or its session has ended and the operator of the day is not on the way to it.
HolderOf(x) ==
    IF OpenRows(x) = {} THEN NoCallsign
    ELSE log[CHOOSE i \in OpenRows(x) : IsOccupant(i, x)].callsign

IsClosed(x) ==
    \/ ~plan[x].live
    \/ /\ plan[x].session # Null /\ sessions[plan[x].session].ended
       /\ \A p \in Slots : ~(At(p, "duty") /\ req[p].position = x)

NetControlOf(s) ==
    {x \in DOMAIN plan : plan[x].live /\ plan[x].session = s
                                      /\ plan[x].kind = "net_control"}

Opening(p, s) == req[p].session = s /\ req[p].step \in {"stamp", "net_control"}

\* A session has at most one Net Control position, and none before
\* start_session has reached that commit, whatever else is going on.
OneNetControl ==
    \A s \in DOMAIN sessions :
        /\ \A x, y \in NetControlOf(s) : x = y
        /\ \A p \in Slots : Opening(p, s) => NetControlOf(s) = {}

\* A request closes somebody's shift only with full access to the net or when
\* the shift is its caller's own, however the requests interleave
\* (sign_on_tactical_position: "self-service rather than roster management").
SelfServiceClosesOwn ==
    [][\A i \in DOMAIN log : log[i].open /\ ~log'[i].open =>
           \E p \in Slots :
               /\ req'[p] # req[p]
               /\ \/ req[p].user \in FullAccess
                  \/ log[i].callsign \in OwnCallsigns[req[p].user]]_vars

Signing(p, s) ==
    req[p].session = s /\ req[p].step \in {"stamp", "net_control", "duty", "occupant", "sign_on"}

\* Once a session has ended and the sign-ons that had seen it open are through,
\* nobody is signed on to it any more.
EndedStaysQuiet ==
    [][\A s \in DOMAIN sessions :
           sessions[s].ended /\ (\A p \in Slots : ~Signing(p, s)) =>
               /\ \A p \in Slots : ~Signing(p, s)'
               /\ \A i \in DOMAIN log' \ DOMAIN log : log'[i].session # s]_vars
=============================================================================
