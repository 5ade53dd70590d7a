------------------------------ MODULE Signups ------------------------------
(***************************************************************************)
(* Duty sign-ups of one net (routers/schedules.py): operators claim Net    *)
(* Control, the broadcast, or both for a date of a weekly schedule, while  *)
(* the net is shared, unshared and handed over (routers/nets.py) and super *)
(* admins come and go (routers/admin.py).  create_signup settles who may   *)
(* claim what by reads made one after the other, looks for conflicts, and  *)
(* commits at the end.                                                     *)
(***************************************************************************)
EXTENDS Naturals, Sequences

CONSTANTS
    Users,          \* accounts
    Members,        \* those approved in the net's organisation
    Schedules,
    Dates,          \* dates that fall on the weekday of every schedule
    HasBroadcast,   \* whether the net has a broadcaster
    Slots,          \* requests that can be in flight at once
    MaxSignups      \* bound on the rows clients ask for

ASSUME SignupsAssumption ==
    /\ Members \subseteq Users /\ Members # {}
    /\ HasBroadcast \in BOOLEAN /\ MaxSignups \in Nat

VARIABLES
    owner,      \* nets.owner_id
    admins,     \* the super admins, users.is_admin
    grant,      \* what each user's share allows here, their own or everyone's
    schedules,  \* net_schedules that exist
    signups,    \* net_control_signups
    req,        \* the requests in flight
    held,       \* history: requests whose sender had full access while it was read
    ruled       \* history: requests whose sender owned the net before it was loaded

vars == <<owner, admins, grant, schedules, signups, req, held, ruled>>

Roles == {"net_control", "broadcaster", "both"}

Grants == {"none", "broadcaster", "edit"}

\* The duties a role covers.
Duties(role) == IF role = "both" THEN {"net_control", "broadcaster"} ELSE {role}

Date == [schedule : Schedules, date : Dates]

\* A row's key is its index; a deleted one stays with live = FALSE.  seen is the
\* length of the table when its request looked for conflicts: history.
Signup == [live : BOOLEAN, slot : Date, role : Roles, user : Users, seen : Nat]

\* by is the sender; admin, owned what they were when the account was loaded, and
\* the net; the first is of no use after that.
Request == [step : {"load", "shares", "role", "check", "insert"},
            slot : Date, role : Roles, user : Users, by : Users,
            admin : BOOLEAN, owned : BOOLEAN, seen : Nat]

Idle == [step |-> "idle"]

TypeOK ==
    /\ owner \in Users /\ admins \subseteq Users
    /\ grant \in [Users -> Grants]
    /\ schedules \subseteq Schedules
    /\ signups \in Seq(Signup)
    /\ req \in [Slots -> Request \cup {Idle}]
    /\ held \subseteq Slots /\ ruled \subseteq Slots
    /\ \A i \in DOMAIN signups : signups[i].live => signups[i].slot.schedule \in schedules

Live == {i \in DOMAIN signups : signups[i].live}

OnDate(slot) == {i \in Live : signups[i].slot = slot}

-----------------------------------------------------------------------------
(* create_signup: who may.                                                 *)

\* The users _get_editable_net lets through.
Editors == {u \in Users : u = owner \/ u \in admins \/ grant[u] = "edit"}

\* get_current_user has loaded the account.
BeginSignup(p, u, slot, role, assignee) ==
    /\ req[p] = Idle
    /\ Len(signups) < MaxSignups
    /\ slot.schedule \in schedules
    /\ req' = [req EXCEPT ![p] = [step |-> "load", slot |-> slot, role |-> role,
                                  user |-> assignee, by |-> u, admin |-> u \in admins,
                                  owned |-> FALSE, seen |-> 0]]
    /\ UNCHANGED <<owner, admins, grant, schedules, signups>>

Enter(p, r) ==
    /\ req' = [req EXCEPT ![p] = r]
    /\ UNCHANGED <<owner, admins, grant, schedules, signups>>

\* _get_owned_net: a super admin goes past the organisation and the owner.
LoadNet(p) ==
    /\ req[p].step = "load"
    /\ LET r == [req[p] EXCEPT !.admin = FALSE, !.owned = (req[p].by = owner)]
       IN  Enter(p, IF req[p].admin \/ r.owned THEN [r EXCEPT !.step = "check"]
                    ELSE IF r.by \in Members THEN [r EXCEPT !.step = "shares"]
                    ELSE Idle)

ReadShares(p) ==
    /\ req[p].step = "shares"
    /\ Enter(p, [req[p] EXCEPT !.step =
                   IF grant[req[p].by] = "edit" THEN "check" ELSE "role"])

\* Mutant: the broadcaster's share is not held to the broadcast.
SelfBroadcastAny(r) == r.user = r.by

\* A broadcaster's share signs its own user up, and for the broadcast only.
SelfBroadcast(r) == r.role = "broadcaster" /\ r.user = r.by

\* _get_net_for_role, to which full access is as good as the broadcaster's
ReadRole(p) ==
    /\ req[p].step = "role"
    /\ Enter(p, IF grant[req[p].by] # "none" /\ SelfBroadcast(req[p])
                THEN [req[p] EXCEPT !.step = "check"] ELSE Idle)

-----------------------------------------------------------------------------
(* create_signup: conflicts and commit.                                    *)

\* Mutant: only the same role is a conflict.
ClashesSame(role, taken) == role \in taken

Clashes(role, taken) ==
    \/ "both" \in taken
    \/ role = "both" /\ taken # {}
    \/ role \in taken

\* Only the owner, as loaded, assigns others, and only members.
MayAssign(r) == r.user = r.by \/ (r.owned /\ r.user \in Members)

\* The schedule and the roles taken on the date are read.
CheckConflict(p) ==
    /\ req[p].step = "check"
    /\ LET r == req[p]
           taken == {signups[i].role : i \in OnDate(r.slot)}
       IN  Enter(p, IF /\ r.slot.schedule \in schedules
                       /\ r.role # "net_control" => HasBroadcast
                       /\ ~Clashes(r.role, taken) /\ MayAssign(r)
                    THEN [r EXCEPT !.step = "insert", !.seen = Len(signups)]
                    ELSE Idle)

\* uq_signup_schedule_date_role, and the key of the schedule.
Insertable(r) ==
    /\ r.slot.schedule \in schedules
    /\ \A i \in OnDate(r.slot) : signups[i].role # r.role

Insert(p) ==
    /\ req[p].step = "insert"
    /\ IF Insertable(req[p])
       THEN signups' = Append(signups,
                         [live |-> TRUE, slot |-> req[p].slot, role |-> req[p].role,
                          user |-> req[p].user, seen |-> req[p].seen])
       ELSE UNCHANGED signups
    /\ req' = [req EXCEPT ![p] = Idle]
    /\ UNCHANGED <<owner, admins, grant, schedules>>

-----------------------------------------------------------------------------
(* The other endpoints: one read of what they check, one commit.           *)

Withdraw(gone) ==
    signups' = [i \in DOMAIN signups |->
                  IF i \in gone THEN [signups[i] EXCEPT !.live = FALSE] ELSE signups[i]]

DeleteSignup(u, i) ==
    /\ i \in Live
    /\ u \in {signups[i].user, owner}
    /\ Withdraw({i})
    /\ UNCHANGED <<owner, admins, grant, schedules, req>>

CreateSchedule(u, s) ==
    /\ u \in Editors /\ s \notin schedules
    /\ \A i \in DOMAIN signups : signups[i].slot.schedule # s
    /\ \A p \in Slots : req[p] # Idle => req[p].slot.schedule # s
    /\ schedules' = schedules \cup {s}
    /\ UNCHANGED <<owner, admins, grant, signups, req>>

DeleteSchedule(u, s) ==
    /\ u \in Editors /\ s \in schedules
    /\ schedules' = schedules \ {s}
    /\ Withdraw({i \in Live : signups[i].slot.schedule = s})
    /\ UNCHANGED <<owner, admins, grant, req>>

\* update_net_shares, an entry at a time; shares count for members only.
Share(u, allowed) ==
    /\ u \in Members
    /\ grant' = [grant EXCEPT ![u] = allowed]
    /\ UNCHANGED <<owner, admins, schedules, signups, req>>

\* transfer_net_owner
TransferNetOwner(u) ==
    /\ u \in Members
    /\ owner' = u
    /\ UNCHANGED <<admins, grant, schedules, signups, req>>

\* admin_make_admin, admin_remove_admin: by a super admin, who stays one.
MakeAdmin(a, u) ==
    /\ a \in admins
    /\ admins' = admins \cup {u}
    /\ UNCHANGED <<owner, grant, schedules, signups, req>>

RemoveAdmin(a, u) ==
    /\ a \in admins /\ u # a
    /\ admins' = admins \ {u}
    /\ UNCHANGED <<owner, grant, schedules, signups, req>>

-----------------------------------------------------------------------------
(* What a request's sender was while the handler was reading it: full access *)
(* is read until the shares have been, the owner until the net has been.     *)

Trusted(p) == req[p].step \in {"load", "shares"} /\ req[p].by \in Editors

Ruling(p) == req[p].step = "load" /\ req[p].by = owner

Remember ==
    /\ held' = {p \in Slots : (p \in held /\ req'[p] # Idle) \/ Trusted(p)'}
    /\ ruled' = {p \in Slots : (p \in ruled /\ req'[p] # Idle) \/ Ruling(p)'}

-----------------------------------------------------------------------------
Init ==
    /\ owner \in Members /\ admins \in {{u} : u \in Users}
    /\ grant = [u \in Users |-> "none"]
    /\ schedules = {} /\ signups = <<>>
    /\ req = [p \in Slots |-> Idle]
    /\ held = {} /\ ruled = {}

Administer ==
    \/ \E u \in Users, allowed \in Grants : Share(u, allowed)
    \/ \E u \in Users : TransferNetOwner(u)
    \/ \E a, u \in Users : MakeAdmin(a, u) \/ RemoveAdmin(a, u)
    \/ \E u \in Users, s \in Schedules : CreateSchedule(u, s) \/ DeleteSchedule(u, s)
    \/ \E u \in Users, i \in DOMAIN signups : DeleteSignup(u, i)

Proceed(p) ==
    \/ \E u, assignee \in Users, slot \in Date, role \in Roles :
          BeginSignup(p, u, slot, role, assignee)
    \/ LoadNet(p) \/ ReadShares(p) \/ ReadRole(p)
    \/ CheckConflict(p)
    \/ Insert(p)

Step == Administer \/ \E p \in Slots : Proceed(p)

Next == Step /\ Remember

Spec == Init /\ [][Next]_vars

-----------------------------------------------------------------------------
(* Properties.                                                             *)

\* Two sign-ups of one date share a duty only if the later one had looked for
\* conflicts before the earlier one was committed ("'both' occupies the date
\* exclusively", create_signup and NetControlSignup).
DoubleDutyIsRaced ==
    \A i, j \in Live :
       /\ i < j /\ signups[i].slot = signups[j].slot
       /\ Duties(signups[i].role) \cap Duties(signups[j].role) # {}
       => signups[j].seen < i

\* With one request at a time, a duty of a date has one holder.
SingleDuty ==
    \A i, j \in Live :
       /\ i # j /\ signups[i].slot = signups[j].slot
       => Duties(signups[i].role) \cap Duties(signups[j].role) = {}

\* Net Control is claimed only on access its sender still had while the request was
\* being decided, as a super admin, the owner or by a share: access withdrawn before
\* the request was sent counts for nothing, whatever is withdrawn between its reads;
\* and somebody else is put down only by one who owned the net then ("A Broadcaster-
\* role share ... never assign someone else, never claim net_control/both").
DutyIsEntrusted ==
    [][\A p \in Slots :
          Len(signups') > Len(signups) /\ req[p] # req'[p] =>
             /\ req[p].role # "broadcaster" => p \in held
             /\ req[p].user # req[p].by => p \in ruled]_vars
=============================================================================
