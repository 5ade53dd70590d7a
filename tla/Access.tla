-------------------------------- MODULE Access --------------------------------
(***************************************************************************)
(* Who may do what: accounts, organisations, memberships and their roles,  *)
(* one net with its owner and shares (routers/auth.py register,            *)
(* routers/orgs.py, routers/admin.py, routers/nets.py, routers/helpers.py, *)
(* bootstrap.py).  Every handler loads rows and checks them in one step    *)
(* and writes in another, at its commit; others may commit in between.     *)
(* Where a handler commits twice, the process may die in between.          *)
(***************************************************************************)
EXTENDS Naturals

CONSTANTS
    Users,          \* accounts that can exist
    Reserved,       \* the one bootstrap.py creates
    Orgs,           \* organisations that can exist, by slug
    None,
    Extras,         \* ORG_EXTRA_ROLES
    NetRoles,       \* NET_EXTRA_ROLES
    Default,        \* net_control_op, what a plain approval grants
    Slots,          \* requests that can be in flight at once
    MaxRequests     \* bound on the requests accepted

ASSUME AccessAssumption ==
    /\ Reserved \in Users /\ None \notin Orgs \cup Users \cup BOOLEAN /\ Users \cap Orgs = {}
    /\ NetRoles \subseteq Extras /\ Default \in Extras \ NetRoles
    /\ MaxRequests \in Nat

VARIABLES
    user,       \* users
    orgs,       \* organizations: registration_open, or None
    member,     \* organization_memberships
    extra,      \* organization_membership_roles
    net,        \* one row of nets
    shares,     \* net_shares and net_share_roles of that net
    seeding,    \* SEED_DEFAULT_ADMIN
    req,        \* the requests in flight
    accepted,   \* requests accepted so far
    firsts,     \* history: who registered as the first user, for which organisation
    overtaken,  \* history: a super admin was removed by one who no longer was one
    loose       \* history: organisations a half-done request or a rejection emptied

tables == <<user, orgs, member, extra, net, shares>>
vars == <<tables, seeding, req, accepted, firsts, overtaken, loose>>

Account == [active : BOOLEAN, super : BOOLEAN, org : Orgs \cup {None}]

Membership == [role : {"member", "admin"}, approved : BOOLEAN]

\* user = None is the row that shares with everybody.  began and made are the numbers
\* of requests accepted when its writer wiped the old rows and when it committed.
Share == [user : Users \cup {None}, edit : BOOLEAN, roles : SUBSET NetRoles,
          began : Nat, made : Nat]

\* What update_net_shares is asked for.
Entry == [user : Users \cup {None}, edit : BOOLEAN, roles : SUBSET NetRoles]

Net == [owner : Users, org : Orgs \cup {None}]

\* registered and invited: the account is committed, its membership is not.
Operations ==
    {"deleteUser", "moveUser", "deactivate", "makeAdmin", "removeAdmin", "approveUser",
     "addToOrg", "approveMember", "rejectMember", "setRole", "setExtra", "updateOrg",
     "register", "registered", "invite", "invited", "join", "switch",
     "createNet", "deleteNet", "transfer", "moveNet", "shares"}

\* was, row, had, pending and seen are the account, membership, roles, pending requests
\* and shares as loaded; flag is the switch, or that the organisation is to be founded.
Request == [op : Operations, by : Users \cup {None}, user : Users \cup {None},
            org : Orgs \cup {None}, role : {"member", "admin"}, extra : SUBSET Extras,
            flag : BOOLEAN, first : BOOLEAN, config : SUBSET Entry, was : Account \cup {None},
            row : Membership \cup {None}, had : SUBSET Extras, pending : SUBSET Orgs,
            seen : SUBSET Share, at : Nat]

ASSUME RowAssumption == None \notin Account \cup Membership \cup Net

Idle == [op |-> "idle"]

Exists(u) == user[u] # None

MembersOf(o) == {u \in Users : member[u][o] # None}

Orphans == {o \in Orgs : orgs[o] # None /\ MembersOf(o) = {}}

TypeOK ==
    /\ user \in [Users -> Account \cup {None}]
    /\ orgs \in [Orgs -> BOOLEAN \cup {None}]
    /\ member \in [Users -> [Orgs -> Membership \cup {None}]]
    /\ extra \in [Users -> [Orgs -> SUBSET Extras]]
    /\ net \in Net \cup {None} /\ shares \subseteq Share
    /\ \A u \in Users, o \in Orgs :
          /\ member[u][o] # None => Exists(u) /\ orgs[o] # None
          /\ extra[u][o] # {} => member[u][o] # None
          /\ Exists(u) /\ user[u].org = o => orgs[o] # None
    /\ net # None => Exists(net.owner) /\ (net.org # None => orgs[net.org] # None)
    /\ \A s \in shares : net # None /\ (s.user # None => Exists(s.user))

-----------------------------------------------------------------------------
(* Who is let in.                                                          *)

\* get_current_user
Signed(u) == Exists(u) /\ user[u].active

\* require_admin
Super(u) == Signed(u) /\ user[u].super

Approved(u, o) == member[u][o] # None /\ member[u][o].approved

OrgAdmin(u, o) == Approved(u, o) /\ member[u][o].role = "admin"

\* require_org_admin
MayAdminister(u, o) == Super(u) \/ (Signed(u) /\ OrgAdmin(u, o))

\* _org_role_set
RoleSet(u, o) == IF o # None /\ Approved(u, o) THEN extra[u][o] ELSE {}

SharesOf(u) == {s \in shares : s.user \in {u, None}}

InOrg(u) == net.org = user[u].org

\* _get_owned_net, _get_editable_net, _get_net_for_user, _get_net_for_role
Owns(u) == net # None /\ (Super(u) \/ (Signed(u) /\ InOrg(u) /\ net.owner = u))

Edits(u) ==
    \/ Owns(u)
    \/ net # None /\ Signed(u) /\ InOrg(u) /\ \E s \in SharesOf(u) : s.edit

Reaches(u) ==
    \/ Owns(u)
    \/ net # None /\ Signed(u) /\ InOrg(u) /\ SharesOf(u) # {}

Plays(u, role) ==
    /\ Reaches(u)
    /\ \/ Owns(u)
       \/ \E s \in SharesOf(u) : s.edit \/ role \in s.roles

-----------------------------------------------------------------------------
(* What the clients are shown: list_nets, _net_to_out, _net_ids_with_role. *)

\* Mutant: the editors' rows alone are listed.
ListsEditors(u) ==
    /\ Signed(u) /\ net # None
    /\ Super(u) \/ (InOrg(u) /\ (net.owner = u \/ \E s \in SharesOf(u) : s.edit))

Lists(u) ==
    /\ Signed(u) /\ net # None
    /\ Super(u) \/ (InOrg(u) /\ (net.owner = u \/ \E s \in shares : s.user \in {u, None}))

Everybody == {s \in shares : s.user = None}

\* Which of the rows that share with everybody is come upon first.
Found == IF Everybody = {} THEN {{}} ELSE {{s} : s \in Everybody}

ShownEditable(u, found) ==
    \/ net.owner = u \/ user[u].super
    \/ \E s \in found : s.edit
    \/ \E s \in shares : s.user = u /\ s.edit

Assigned(u, role) ==
    /\ Signed(u) /\ net # None /\ InOrg(u)
    /\ \E s \in SharesOf(u) : role \in s.roles

-----------------------------------------------------------------------------
(* Requests.  The ORM writes the attributes a handler changed, no others;  *)
(* a request that holds a row another one has deleted fails.               *)

Flush(was, new, now) == [a \in DOMAIN now |-> IF new[a] = was[a] THEN now[a] ELSE new[a]]

Pending(u) == {o \in Orgs : member[u][o] # None /\ ~member[u][o].approved}

Ask(op, by, u, o) ==
    [op |-> op, by |-> by, user |-> u, org |-> o, role |-> "member", extra |-> {},
     flag |-> FALSE, first |-> FALSE, config |-> {}, at |-> accepted, seen |-> {},
     was |-> IF u = None THEN None ELSE user[u],
     row |-> IF u = None \/ o = None THEN None ELSE member[u][o],
     had |-> IF u = None \/ o = None THEN {} ELSE extra[u][o],
     pending |-> IF u = None THEN {} ELSE Pending(u)]

Accept(p, r) ==
    /\ accepted' = accepted + 1
    /\ req' = [req EXCEPT ![p] = r]
    /\ UNCHANGED <<tables, seeding, firsts, overtaken, loose>>

Drop(lost) == req' = [q \in Slots |-> IF q \in lost THEN Idle ELSE req[q]]

Commits(p, op) == req[p] # Idle /\ req[p].op = op

\* Mutant: the caller's own account is not refused.
ReviewAnyUser(p, a, u, op) ==
    /\ Super(a) /\ Exists(u)
    /\ Accept(p, Ask(op, a, u, None))

\* The endpoints of admin.py on one account: a super admin's, four
\* of which refuse the caller's own account.
ReviewUser(p, a, u, op) ==
    /\ Super(a) /\ Exists(u)
    /\ op \in {"deleteUser", "deactivate", "removeAdmin"} => a # u
    /\ Accept(p, Ask(op, a, u, None))

PlaceUser(p, a, u, o, role, op) ==
    /\ Super(a) /\ Exists(u) /\ orgs[o] # None
    /\ op = "addToOrg" => ~Approved(u, o)
    /\ Accept(p, [Ask(op, a, u, o) EXCEPT !.role = role])

\* The endpoints of orgs.py on one membership.
ReviewMember(p, a, u, o, op, role, roles) ==
    /\ MayAdminister(a, o) /\ member[u][o] # None
    /\ op = "rejectMember" => ~Approved(u, o)
    /\ op \in {"setRole", "setExtra"} => Approved(u, o)
    /\ op = "setRole" => a # u
    /\ Accept(p, [Ask(op, a, u, o) EXCEPT !.role = role, !.extra = roles])

UpdateOrg(p, a, o, open) ==
    /\ MayAdminister(a, o) /\ orgs[o] # None
    /\ Accept(p, [Ask("updateOrg", a, None, o) EXCEPT !.flag = open])

\* _get_or_create_org, for those who come by themselves
Joinable(o) == orgs[o] # FALSE

\* register: the first user of all is a super admin.
Register(p, u, o) ==
    /\ ~Exists(u) /\ Joinable(o)
    /\ Accept(p, [Ask("register", None, u, o) EXCEPT
                    !.flag = (orgs[o] = None), !.first = \A v \in Users : ~Exists(v),
                    !.role = IF orgs[o] = None THEN "admin" ELSE "member"])

\* _create_invited_user; only a super admin founds an organisation for the account.
Invite(p, a, u, o, role) ==
    /\ ~Exists(u)
    /\ IF orgs[o] = None THEN Super(a) /\ role = "admin" ELSE MayAdminister(a, o)
    /\ Accept(p, [Ask("invite", a, u, o) EXCEPT !.flag = (orgs[o] = None), !.role = role])

JoinOrg(p, u, o) ==
    /\ Signed(u) /\ Joinable(o) /\ member[u][o] = None
    /\ Accept(p, [Ask("join", u, u, o) EXCEPT !.flag = (orgs[o] = None)])

SwitchOrg(p, u, o) ==
    /\ Signed(u)
    /\ Approved(u, o) \/ (Super(u) /\ orgs[o] # None)
    /\ Accept(p, Ask("switch", u, u, o))

\* Bound: one net at a time.
CreateNet(p, u) ==
    /\ Signed(u) /\ user[u].org # None
    /\ net = None /\ \A q \in Slots : ~Commits(q, "createNet")
    /\ Accept(p, Ask("createNet", u, u, user[u].org))

DeleteNet(p, u) ==
    /\ Owns(u)
    /\ Accept(p, Ask("deleteNet", u, None, net.org))

MayTransfer(u) ==
    \/ Super(u)
    \/ Signed(u) /\ InOrg(u) /\ (net.owner = u \/ (net.org # None /\ OrgAdmin(u, net.org)))

TransferNetOwner(p, a, u) ==
    /\ net # None /\ MayTransfer(a)
    /\ net.org # None /\ Approved(u, net.org)
    /\ Accept(p, Ask("transfer", a, u, net.org))

MoveNet(p, a, o) ==
    /\ Super(a) /\ net # None /\ orgs[o] # None
    /\ Accept(p, Ask("moveNet", a, None, o))

UpdateNetShares(p, u, config) ==
    /\ Owns(u)
    /\ Accept(p, [Ask("shares", u, None, net.org) EXCEPT !.config = config, !.seen = shares])

-----------------------------------------------------------------------------
(* Commits.                                                                *)

Finish(p) == Drop({p})

\* The request fails: nothing is written.
Fail(p) ==
    /\ Drop({p})
    /\ UNCHANGED <<tables, firsts, overtaken, loose>>

NetOps == {"deleteNet", "transfer", "moveNet", "shares"}

\* The accounts of these requests are committed, their memberships are not.
HalfDone == {q \in Slots : req[q] # Idle /\ req[q].op \in {"registered", "invited"}}

Among(qs) == {req[q].user : q \in qs} \cup {req[q].org : q \in qs}

\* The other requests that hold a membership of u in os.
Holding(p, u, os) ==
    {q \in Slots \ {p} : /\ req[q] # Idle /\ req[q].user = u
                         /\ \/ req[q].row # None /\ req[q].org \in os
                            \/ req[q].op = "approveUser" /\ req[q].pending \cap os # {}}

\* Mutant: only organisations that had approved the account are looked at.
EmptiedOfApproved(u, left) ==
    {o \in Orgs : Approved(u, o) /\ \A v \in Users : left[v][o] = None}

Emptied(u, left) ==
    {o \in Orgs : member[u][o] # None /\ \A v \in Users : left[v][o] = None}

\* These insert their organisation themselves: it is no row that they hold.
Founding == {q \in Slots : req[q] # Idle /\ req[q].op \in {"register", "invite", "join"} /\ req[q].flag}

\* db.delete(user) or the bulk delete of its memberships, then _delete_orphaned_orgs:
\* keeps is the account's row afterwards, rows are its memberships.
Leave(p, u, keeps, rows) ==
    LET left == [member EXCEPT ![u] = rows]
        gone == Emptied(u, left)
        bare == net # None /\ net.owner = u /\ keeps = None
        lost == Holding(p, u, Orgs) \cup
                {q \in Slots \ {p} : /\ req[q] # Idle
                                     /\ \/ req[q].user = u /\ keeps = None
                                        \/ /\ req[q].org \in gone /\ q \notin Founding
                                           /\ req[q].op \notin NetOps \ {"moveNet"}
                                        \/ bare /\ req[q].op \in NetOps}
    IN  /\ member' = left
        /\ extra' = [extra EXCEPT ![u] = [o \in Orgs |->
                        IF rows[o] # None /\ rows[o].role # "admin" THEN {Default} ELSE {}]]
        /\ orgs' = [o \in Orgs |-> IF o \in gone THEN None ELSE orgs[o]]
        /\ user' = [v \in Users |->
                      LET row == IF v = u THEN keeps ELSE user[v]
                      IN  IF row # None /\ row.org \in gone THEN [row EXCEPT !.org = None] ELSE row]
        /\ net' = IF bare THEN None
                  ELSE IF net # None /\ net.org \in gone THEN [net EXCEPT !.org = None] ELSE net
        /\ shares' = IF bare THEN {} ELSE {s \in shares : keeps = None => s.user # u}
        /\ loose' = (loose \cup Among(HalfDone \cap lost)) \ (gone \cup {u})
        /\ firsts' = {f \in firsts : f.org \notin gone}
        /\ Drop({p} \cup lost)

\* The account's row with the attributes that the handler has set to something new.
Saved(r, new) == Flush(r.was, new, user[r.user])

NoRows == [o \in Orgs |-> None]

\* admin_delete_user, admin_reject_user
DeleteUser(p) ==
    /\ Commits(p, "deleteUser")
    /\ Leave(p, req[p].user, None, NoRows)
    /\ overtaken' = (overtaken \/ ~Super(req[p].by))

\* admin_reassign_user_org
MoveUser(p) ==
    /\ Commits(p, "moveUser")
    /\ LET r == req[p]
           rows == [NoRows EXCEPT ![r.org] = [role |-> r.role, approved |-> TRUE]]
       IN  Leave(p, r.user, Saved(r, [r.was EXCEPT !.active = TRUE, !.org = r.org]), rows)
    /\ UNCHANGED overtaken

Accounted(p, new) ==
    /\ user' = [user EXCEPT ![req[p].user] = Saved(req[p], new)]
    /\ UNCHANGED <<orgs, net, shares, firsts>>

Deactivate(p) ==
    /\ Commits(p, "deactivate")
    /\ Accounted(p, [req[p].was EXCEPT !.active = FALSE])
    /\ overtaken' = (overtaken \/ ~Super(req[p].by))
    /\ UNCHANGED <<member, extra, loose>> /\ Finish(p)

MakeAdmin(p) ==
    /\ Commits(p, "makeAdmin")
    /\ Accounted(p, [req[p].was EXCEPT !.super = TRUE, !.active = TRUE])
    /\ UNCHANGED <<member, extra, overtaken, loose>> /\ Finish(p)

RemoveAdmin(p) ==
    /\ Commits(p, "removeAdmin")
    /\ Accounted(p, [req[p].was EXCEPT !.super = FALSE])
    /\ overtaken' = (overtaken \/ ~Super(req[p].by))
    /\ UNCHANGED <<member, extra, loose>> /\ Finish(p)

\* admin_approve_user: every membership that was pending is approved with it.
ApproveUser(p) ==
    /\ Commits(p, "approveUser")
    /\ LET r == req[p] IN
       /\ Accounted(p, [r.was EXCEPT !.active = TRUE])
       /\ member' = [member EXCEPT ![r.user] = [o \in Orgs |->
                        IF o \in r.pending THEN [@[o] EXCEPT !.approved = TRUE] ELSE @[o]]]
       /\ extra' = [extra EXCEPT ![r.user] = [o \in Orgs |->
                       IF o \in r.pending /\ member[r.user][o].role # "admin"
                       THEN @[o] \cup {Default} ELSE @[o]]]
    /\ UNCHANGED <<overtaken, loose>> /\ Finish(p)

\* admin_add_user_to_org: uq_org_membership_org_user
AddToOrg(p) ==
    /\ Commits(p, "addToOrg")
    /\ LET r == req[p]
           now == member[r.user][r.org]
           new == [role |-> r.role, approved |-> TRUE]
       IN  IF r.row = None /\ now # None THEN Fail(p)
           ELSE /\ Accounted(p, [r.was EXCEPT !.active = TRUE])
                /\ member' = [member EXCEPT ![r.user][r.org] =
                                IF r.row = None THEN new ELSE Flush(r.row, new, now)]
                /\ loose' = loose \ {r.user, r.org}
                /\ UNCHANGED <<extra, overtaken>> /\ Finish(p)

\* approve_org_member: uq_org_membership_extra_role
ApproveMember(p) ==
    /\ Commits(p, "approveMember")
    /\ LET r == req[p] IN
       IF r.extra \cap extra[r.user][r.org] # {} THEN Fail(p)
       ELSE /\ Accounted(p, [r.was EXCEPT !.active = TRUE])
            /\ member' = [member EXCEPT ![r.user][r.org] =
                            Flush(r.row, [r.row EXCEPT !.approved = TRUE], @)]
            /\ extra' = [extra EXCEPT ![r.user][r.org] = @ \cup r.extra]
            /\ UNCHANGED <<overtaken, loose>> /\ Finish(p)

\* reject_org_member, of a request as loaded; nobody looks whether anyone is left.
RejectMember(p) ==
    /\ Commits(p, "rejectMember")
    /\ LET r == req[p] IN
       /\ member' = [member EXCEPT ![r.user][r.org] = None]
       /\ extra' = [extra EXCEPT ![r.user][r.org] = {}]
       /\ loose' = loose \cup {r.user, r.org}
       /\ Drop({p} \cup Holding(p, r.user, {r.org}))
    /\ UNCHANGED <<user, orgs, net, shares, firsts, overtaken>>

\* update_org_member_role
SetRole(p) ==
    /\ Commits(p, "setRole")
    /\ LET r == req[p] IN
       member' = [member EXCEPT ![r.user][r.org] =
                    Flush(r.row, [r.row EXCEPT !.role = r.role], @)]
    /\ UNCHANGED <<user, orgs, extra, net, shares, firsts, overtaken, loose>> /\ Finish(p)

\* update_org_member_extra_roles: the rows found are deleted, the new ones inserted.
SetExtra(p) ==
    /\ Commits(p, "setExtra")
    /\ LET r == req[p]
           left == extra[r.user][r.org] \ r.had
       IN  IF left \cap r.extra # {} THEN Fail(p)
           ELSE /\ extra' = [extra EXCEPT ![r.user][r.org] = left \cup r.extra]
                /\ UNCHANGED <<user, orgs, member, net, shares, firsts, overtaken, loose>>
                /\ Finish(p)

SetOpen(p) ==
    /\ Commits(p, "updateOrg")
    /\ orgs' = [orgs EXCEPT ![req[p].org] = req[p].flag]
    /\ UNCHANGED <<user, member, extra, net, shares, firsts, overtaken, loose>> /\ Finish(p)

\* Mutant: the new organisation is not flushed.
FoundedNever(r) == UNCHANGED orgs

\* The organisation is there, or is founded with this commit: its slug is unique.
Stands(r) == (orgs[r.org] = None) = r.flag

Founded(r) == orgs' = [orgs EXCEPT ![r.org] = IF r.flag THEN TRUE ELSE @]

\* The first commit of register and of _create_invited_user: the account.
CommitAccount(p) ==
    /\ req[p] # Idle /\ req[p].op \in {"register", "invite"}
    /\ LET r == req[p]
           new == [active |-> r.first \/ r.op = "invite", super |-> r.first, org |-> r.org]
       IN  IF Exists(r.user) \/ ~Stands(r) THEN Fail(p)
           ELSE /\ user' = [user EXCEPT ![r.user] = new]
                /\ Founded(r)
                /\ firsts' = IF r.first THEN firsts \cup {[user |-> r.user, org |-> r.org]} ELSE firsts
                /\ req' = [req EXCEPT ![p].op = IF @ = "invite" THEN "invited" ELSE "registered"]
                /\ UNCHANGED <<member, extra, net, shares, overtaken, loose>>

Insert(r, row, roles) ==
    /\ member' = [member EXCEPT ![r.user][r.org] = row]
    /\ extra' = [extra EXCEPT ![r.user][r.org] = roles]
    /\ loose' = loose \ {r.user, r.org}

\* The second: its membership.
CommitMembership(p) ==
    /\ p \in HalfDone
    /\ LET r == req[p] IN
       IF member[r.user][r.org] # None THEN Fail(p)
       ELSE /\ Insert(r, [role |-> r.role, approved |-> r.op = "invited" \/ r.first \/ r.flag],
                      IF r.op = "invited" /\ r.role # "admin" THEN {Default} ELSE {})
            /\ UNCHANGED <<user, orgs, net, shares, firsts, overtaken>> /\ Finish(p)

\* join_org: always pending, founder or not.
CommitJoin(p) ==
    /\ Commits(p, "join")
    /\ LET r == req[p] IN
       IF member[r.user][r.org] # None \/ ~Stands(r) THEN Fail(p)
       ELSE /\ Insert(r, [role |-> IF r.flag THEN "admin" ELSE "member", approved |-> FALSE], {})
            /\ Founded(r)
            /\ UNCHANGED <<user, net, shares, firsts, overtaken>> /\ Finish(p)

\* switch_current_org
CommitSwitch(p) ==
    /\ Commits(p, "switch")
    /\ Accounted(p, [req[p].was EXCEPT !.org = req[p].org])
    /\ UNCHANGED <<member, extra, overtaken, loose>> /\ Finish(p)

\* create_net, delete_net, transfer_net_owner, admin_reassign_net_org
CommitNet(p) ==
    /\ req[p] # Idle
    /\ LET r == req[p] IN
       \/ /\ r.op = "createNet"
          /\ net' = [owner |-> r.user, org |-> r.org]
          /\ UNCHANGED shares /\ Finish(p)
       \/ /\ r.op = "transfer"
          /\ net' = [net EXCEPT !.owner = r.user]
          /\ UNCHANGED shares /\ Finish(p)
       \/ /\ r.op = "moveNet"
          /\ net' = [net EXCEPT !.org = r.org]
          /\ UNCHANGED shares /\ Finish(p)
       \/ /\ r.op = "deleteNet"
          /\ net' = None /\ shares' = {}
          /\ Drop({p} \cup {q \in Slots : req[q] # Idle /\ req[q].op \in NetOps})
    /\ UNCHANGED <<user, orgs, member, extra, firsts, overtaken, loose>>

\* The rows update_net_shares writes: roles only as far as the member holds them.
Rows(r) ==
    {[user |-> e.user, edit |-> e.edit, began |-> r.at, made |-> accepted,
      roles |-> IF e.user = None THEN e.roles ELSE e.roles \cap RoleSet(e.user, r.org)]
     : e \in r.config}

\* uq_net_share_net_user, which the rows without user escape
Fits(r, left) ==
    \A e \in r.config : e.user # None => Exists(e.user) /\ \A s \in left : s.user # e.user

\* Mutant: the rows found are not wiped.
CommitSharesUnwiped(p) ==
    /\ Commits(p, "shares")
    /\ IF Fits(req[p], shares)
       THEN /\ shares' = shares \cup Rows(req[p])
            /\ UNCHANGED <<user, orgs, member, extra, net, firsts, overtaken, loose>> /\ Finish(p)
       ELSE Fail(p)

CommitShares(p) ==
    /\ Commits(p, "shares")
    /\ LET left == shares \ req[p].seen IN
       IF Fits(req[p], left)
       THEN /\ shares' = left \cup Rows(req[p])
            /\ UNCHANGED <<user, orgs, member, extra, net, firsts, overtaken, loose>> /\ Finish(p)
       ELSE Fail(p)

Founder == [active |-> TRUE, super |-> TRUE, org |-> None]

\* The process dies and starts again: ensure_default_admin.
Restart ==
    /\ accepted < MaxRequests /\ accepted' = accepted + 1
    /\ req' = [p \in Slots |-> Idle]
    /\ loose' = loose \cup Among(HalfDone)
    /\ user' = IF seeding /\ ~Exists(Reserved) /\ \A u \in Users : Exists(u) => ~user[u].super
               THEN [user EXCEPT ![Reserved] = Founder]
               ELSE user
    /\ UNCHANGED <<orgs, member, extra, net, shares, seeding, firsts, overtaken>>

-----------------------------------------------------------------------------
Idling == req = [p \in Slots |-> Idle] /\ accepted = 0

\* An instance that has just started for the first time.
Fresh ==
    /\ seeding \in BOOLEAN
    /\ user = [u \in Users |-> IF seeding /\ u = Reserved THEN Founder ELSE None]
    /\ orgs = [o \in Orgs |-> None]
    /\ member = [u \in Users |-> NoRows]
    /\ extra = [u \in Users |-> [o \in Orgs |-> {}]]
    /\ net = None /\ shares = {}

\* One where the super admin runs an organisation and its net, u is an operator, and
\* nothing is being done.
Established(u, o) ==
    /\ seeding = TRUE
    /\ user = [v \in Users |-> IF v = Reserved THEN [Founder EXCEPT !.org = o]
                              ELSE IF v = u THEN [Founder EXCEPT !.super = FALSE, !.org = o] ELSE None]
    /\ orgs = [x \in Orgs |-> IF x = o THEN TRUE ELSE None]
    /\ member = [v \in Users |->
                  IF v \in {Reserved, u}
                  THEN [NoRows EXCEPT ![o] =
                          [role |-> IF v = u THEN "member" ELSE "admin", approved |-> TRUE]]
                  ELSE NoRows]
    /\ extra = [v \in Users |-> [x \in Orgs |-> IF v = u /\ x = o THEN {Default} ELSE {}]]
    /\ net = [owner |-> u, org |-> o] /\ shares = {}

Init ==
    /\ Idling /\ firsts = {} /\ overtaken = FALSE /\ loose = {}
    /\ Fresh \/ \E u \in Users \ {Reserved}, o \in Orgs : Established(u, o)

Review(p) == \E a, u \in Users :
    \/ \E op \in {"deleteUser", "deactivate", "removeAdmin", "makeAdmin", "approveUser"} :
          ReviewUser(p, a, u, op)
    \/ \E o \in Orgs, role \in {"member", "admin"} :
          \/ \E op \in {"moveUser", "addToOrg"} : PlaceUser(p, a, u, o, role, op)
          \/ ReviewMember(p, a, u, o, "setRole", role, {})
          \/ Invite(p, a, u, o, role)
    \/ \E o \in Orgs :
          \/ ReviewMember(p, a, u, o, "rejectMember", "member", {})
          \/ \E roles \in SUBSET Extras, op \in {"approveMember", "setExtra"} :
                ReviewMember(p, a, u, o, op, "member", roles)
    \/ TransferNetOwner(p, a, u)

Apply(p) == \E u \in Users :
    \/ \E o \in Orgs :
          \/ Register(p, u, o) \/ JoinOrg(p, u, o) \/ SwitchOrg(p, u, o) \/ MoveNet(p, u, o)
          \/ \E open \in BOOLEAN : UpdateOrg(p, u, o, open)
    \/ CreateNet(p, u) \/ DeleteNet(p, u)
    \/ \E config \in {{}} \cup {{e} : e \in Entry} : UpdateNetShares(p, u, config)

Commit(p) ==
    /\ \/ DeleteUser(p) \/ MoveUser(p) \/ Deactivate(p) \/ MakeAdmin(p) \/ RemoveAdmin(p)
       \/ ApproveUser(p) \/ AddToOrg(p)
       \/ ApproveMember(p) \/ RejectMember(p) \/ SetRole(p) \/ SetExtra(p) \/ SetOpen(p)
       \/ CommitAccount(p) \/ CommitMembership(p) \/ CommitJoin(p) \/ CommitSwitch(p)
       \/ CommitNet(p) \/ CommitShares(p)
    /\ UNCHANGED <<seeding, accepted>>

Free(p) == req[p] = Idle /\ accepted < MaxRequests

Next ==
    \/ Restart
    \/ \E p \in Slots : (Free(p) /\ (Review(p) \/ Apply(p))) \/ Commit(p)

Spec == Init /\ [][Next]_vars

-----------------------------------------------------------------------------
(* Properties.                                                             *)

\* Somebody can administer the instance, from its first account on, unless a super
\* admin was removed by a request of one who had been removed meanwhile ("at least
\* one super admin remains after every call", admin_remove_admin); and until then two
\* who both register as the first account never do so for one organisation as long as
\* it stands, since only its unique slug stops the second.
AdministratorStands ==
    \/ overtaken
    \/ /\ (\E u \in Users : Exists(u)) => \E u \in Users : Super(u)
       /\ \A f, g \in firsts : f # g => f.org # g.org

\* An organisation without members, or an account without memberships, is what a
\* rejection or an interrupted registration left (_delete_orphaned_orgs).
NothingStranded ==
    /\ Orphans \subseteq loose \cup Among(HalfDone)
    /\ \A u \in Users \ {Reserved} :
          Exists(u) /\ member[u] = NoRows => u \in loose \cup Among(HalfDone)

\* The shares of a net come from one update, unless two updates overlapped.
MixedSharesOverlap ==
    \A s, t \in shares : s.began # t.began => t.began < s.made

\* The lists and flags clients are shown agree with what the endpoints allow: no flag
\* promises more, and it promises no less unless the net is shared with everybody twice.
ShownIsGranted ==
    \A u \in Users :
       /\ Lists(u) <=> Reaches(u)
       /\ \A found \in Found :
             /\ Lists(u) /\ ShownEditable(u, found) => Edits(u)
             /\ Edits(u) /\ found = Everybody => ShownEditable(u, found)
       /\ \A role \in NetRoles : Assigned(u, role) => Plays(u, role)
=============================================================================
