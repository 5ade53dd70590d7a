----------------------------- MODULE AccessProofs -----------------------------
(***************************************************************************)
(* Theorems about Access, for every set of accounts, organisations, roles  *)
(* and slots and every number of requests.                                 *)
(***************************************************************************)
EXTENDS Access, TLAPS

(***************************************************************************)
(* What a request in flight relies on: its fields are what its endpoint    *)
(* loaded, and the rows it holds are still there.                          *)
(***************************************************************************)

Removals == {"deleteUser", "deactivate", "removeAdmin"}

OnMember == {"setRole", "approveMember", "rejectMember", "setExtra"}

\* These have loaded an account.
Personal == Removals \cup OnMember \cup
    {"makeAdmin", "approveUser", "moveUser", "addToOrg", "join", "switch", "createNet", "transfer"}

Newcomers == {"register", "invite"}

Halves == {"registered", "invited"}

\* These hold an organisation.
Placed == OnMember \cup Halves \cup
    {"moveUser", "addToOrg", "switch", "updateOrg", "moveNet", "createNet"}

Shape(r) ==
    /\ r.op \in Personal => r.user \in Users /\ r.was \in Account
    /\ r.op \in Newcomers \cup Halves => r.user \in Users /\ r.org \in Orgs /\ r.row = None
    /\ r.op \in Placed \cup {"join"} => r.org \in Orgs
    /\ r.op \in OnMember => r.row # None
    /\ r.op \in Removals => r.by \in Users /\ r.by # r.user
    /\ r.first => r.op \in {"register", "registered"}

\* The rows that r holds are in these tables.
Holds(us, os, ms, n, r) ==
    /\ r.op \in Personal \cup Halves => us[r.user] # None
    /\ r.op \in Placed => os[r.org] # None
    /\ r.row # None => r.user \in Users /\ r.org \in Orgs /\ ms[r.user][r.org] # None
    /\ r.op = "approveUser" => \A o \in r.pending : ms[r.user][o] # None
    /\ r.op \in NetOps => n # None

ReqInv ==
    /\ req \in [Slots -> Request \cup {Idle}]
    /\ \A p \in Slots, r \in Request :
          req[p] = r => Shape(r) /\ Holds(user, orgs, member, net, r)

TypeInv == TypeOK /\ accepted \in Nat /\ ReqInv

(***************************************************************************)
(* Who administers the instance.                                           *)
(***************************************************************************)

Manned == \E u \in Users : Super(u)

\* Nobody has an account yet.
Untouched ==
    /\ \A u \in Users : ~Exists(u)
    /\ \A o \in Orgs : orgs[o] = None
    /\ firsts = {}
    /\ \A p \in Slots, r \in Request : req[p] = r => r.op = "register" /\ r.first

FirstsStand ==
    /\ \A f \in firsts : f.org \in Orgs /\ orgs[f.org] # None
    /\ \A f, g \in firsts : f # g => f.org # g.org
    /\ \A p \in Slots, r \in Request : req[p] = r /\ r.op = "register" /\ r.first => r.flag

AdminInv == TypeInv /\ (overtaken \/ ((Untouched \/ Manned) /\ FirstsStand))

(***************************************************************************)
(* Which update a share comes from.                                        *)
(***************************************************************************)

SharesInv ==
    /\ TypeInv /\ MixedSharesOverlap
    /\ \A s \in shares : s.began < accepted /\ s.made <= accepted
    /\ \A p \in Slots, r \in Request :
          req[p] = r => /\ r.at < accepted
                        /\ r.op = "shares" => \A s \in shares \ r.seen : r.at < s.made

-----------------------------------------------------------------------------
(***************************************************************************)
(* Rows, and what a handler writes of them.                                *)
(***************************************************************************)

LEMMA NoneIsNoRow ==
    /\ None \notin Account /\ None \notin Membership /\ None \notin Net
    /\ None \notin Users /\ None \notin Orgs /\ None \notin BOOLEAN
BY AccessAssumption, RowAssumption

LEMMA IdleIsNoRequest == Idle \notin Request
<1> SUFFICES ASSUME Idle \in Request PROVE FALSE
  OBVIOUS
<1>1. DOMAIN Idle = {"op"}
  BY DEF Idle
<1>2. "by" \in DOMAIN Idle
  BY DEF Request
<1> QED
  BY <1>1, <1>2

\* An account is saved with the attributes the handler changed, and its others as they are.
LEMMA FlushedAccount ==
    ASSUME NEW was \in Account, NEW new \in Account, NEW now \in Account
    PROVE  /\ Flush(was, new, now) \in Account
           /\ Flush(was, new, now).active =
                 IF new.active = was.active THEN now.active ELSE new.active
           /\ Flush(was, new, now).super =
                 IF new.super = was.super THEN now.super ELSE new.super
           /\ Flush(was, new, now).org = IF new.org = was.org THEN now.org ELSE new.org
BY DEF Flush, Account

\* A table of rows by two keys, of which one is written.
LEMMA CellWritten ==
    ASSUME NEW S, NEW T, NEW V, NEW f \in [S -> [T -> V]], NEW u \in S, NEW o \in T, NEW c \in V
    PROVE  /\ [f EXCEPT ![u][o] = c] \in [S -> [T -> V]]
           /\ \A x \in S, y \in T :
                 [f EXCEPT ![u][o] = c][x][y] = IF x = u /\ y = o THEN c ELSE f[x][y]
OBVIOUS

LEMMA AmendedMembership ==
    ASSUME NEW m \in Membership
    PROVE  /\ [m EXCEPT !.approved = TRUE] \in Membership
           /\ \A role \in {"member", "admin"} : [m EXCEPT !.role = role] \in Membership
BY DEF Membership

LEMMA FlushedMembership ==
    ASSUME NEW was \in Membership, NEW new \in Membership, NEW now \in Membership
    PROVE  Flush(was, new, now) \in Membership
BY DEF Flush, Membership

(***************************************************************************)
(* A request is accepted.                                                  *)
(***************************************************************************)

LEMMA Asked ==
    ASSUME TypeInv, NEW op \in Operations, NEW by \in Users \cup {None},
           NEW u \in Users \cup {None}, NEW o \in Orgs \cup {None}
    PROVE  Ask(op, by, u, o) \in Request
<1>1. u \in Users => u # None /\ user[u] \in Account \cup {None} /\ Pending(u) \subseteq Orgs
  BY NoneIsNoRow DEF TypeInv, TypeOK, Pending
<1>2. o \in Orgs => o # None
  BY NoneIsNoRow
<1>3. u \in Users /\ o \in Orgs =>
        member[u][o] \in Membership \cup {None} /\ extra[u][o] \subseteq Extras
  BY DEF TypeInv, TypeOK
<1>4. accepted \in Nat
  BY DEF TypeInv
<1> QED
  BY <1>1, <1>2, <1>3, <1>4 DEF Ask, Request

\* What the checks of an endpoint say of the rows it goes on with.
LEMMA Present ==
    ASSUME TypeInv
    PROVE  /\ \A u \in Users : Exists(u) => user[u] \in Account
           /\ \A u \in Users : Super(u) \/ Signed(u) => Exists(u)
           /\ \A u \in Users, o \in Orgs : member[u][o] # None => Exists(u) /\ orgs[o] # None
           /\ \A u \in Users, o \in Orgs : Approved(u, o) => member[u][o] # None
           /\ \A u \in Users : Pending(u) \subseteq Orgs
           /\ \A u \in Users : \A o \in Pending(u) : member[u][o] # None
           /\ net # None => net \in Net
           /\ \A u \in Users, o \in Orgs : MayAdminister(u, o) => Exists(u)
           /\ \A u \in Users : Owns(u) => Exists(u)
BY DEF TypeInv, TypeOK, Exists, Super, Signed, Approved, Pending, MayAdminister, Owns

\* How r is accepted: what it holds is there, and it knows what it has to know.
Taken(p, r) ==
    /\ Accept(p, r) /\ Shape(r) /\ Holds(user, orgs, member, net, r)
    /\ r.at = accepted
    /\ r.op = "shares" => r.seen = shares
    /\ IF r.op = "register"
       THEN /\ r.first => \A v \in Users : ~Exists(v)
            /\ (\A v \in Users : ~Exists(v)) => r.first
            /\ orgs[r.org] = None => r.flag
       ELSE \E v \in Users : Exists(v)

LEMMA Accepting ==
    ASSUME TypeInv, NEW p \in Slots, NEW r \in Request, Taken(p, r)
    PROVE  TypeInv'
<1>1. UNCHANGED <<user, orgs, member, extra, net, shares>> /\ accepted' = accepted + 1
      /\ req' = [req EXCEPT ![p] = r]
  BY DEF Taken, Accept, tables
<1>2. TypeOK'
  BY <1>1 DEF TypeInv, TypeOK, Exists
<1>3. req' \in [Slots -> Request \cup {Idle}]
  BY <1>1 DEF TypeInv, ReqInv
<1>4. ASSUME NEW q \in Slots, NEW s \in Request, req'[q] = s
      PROVE  Shape(s) /\ Holds(user, orgs, member, net, s)
  BY <1>1, <1>4 DEF Taken, TypeInv, ReqInv
<1>5. ReqInv'
  BY <1>1, <1>3, <1>4 DEF ReqInv
<1> QED
  BY <1>1, <1>2, <1>5 DEF TypeInv

LEMMA Amended ==
    ASSUME NEW k \in Request, NEW f \in BOOLEAN, NEW g \in BOOLEAN,
           NEW role \in {"member", "admin"}
    PROVE  /\ [k EXCEPT !.flag = f, !.role = role] \in Request
           /\ [k EXCEPT !.flag = f, !.first = g, !.role = role] \in Request
           /\ [k EXCEPT !.role = role] \in Request /\ [k EXCEPT !.flag = f] \in Request
<1>1. /\ [k EXCEPT !.role = role] \in Request
      /\ [k EXCEPT !.flag = f] \in Request
  BY DEF Request
<1>2. [k EXCEPT !.flag = f, !.role = role] \in Request
  BY DEF Request
<1>3. [k EXCEPT !.flag = f, !.first = g, !.role = role] \in Request
  BY DEF Request
<1> QED
  BY <1>1, <1>2, <1>3

LEMMA ReviewUserTaken ==
    ASSUME TypeInv, NEW p \in Slots, NEW a \in Users, NEW u \in Users,
           NEW op \in Removals \cup {"makeAdmin", "approveUser"},
           ReviewUser(p, a, u, op)
    PROVE  \E r \in Request : Taken(p, r)
<1> DEFINE r == Ask(op, a, u, None)
<1>1. /\ Exists(u) /\ user[u] \in Account /\ op \in Operations
      /\ op \in Removals => a # u
      /\ op # "register" /\ op # "shares"
  BY Present DEF ReviewUser, Removals, Operations
<1>2. Accept(p, r)
  BY DEF ReviewUser
<1>3. r \in Request
  BY <1>1, Asked DEF Operations
<1>4. /\ r.op = op /\ r.by = a /\ r.user = u
      /\ r.first = FALSE /\ r.was = user[u] /\ r.row = None /\ r.pending = Pending(u) /\ r.at = accepted
  BY <1>1, NoneIsNoRow DEF Ask
<1> HIDE DEF r
<1>5. Shape(r)
  BY <1>1, <1>3, <1>4, NoneIsNoRow DEF Shape, Personal, Placed, Newcomers, Halves, OnMember, Removals
<1>6. Holds(user, orgs, member, net, r)
  BY <1>1, <1>3, <1>4, Present DEF Holds, Exists, Personal, Placed, Halves, OnMember, Removals, NetOps
<1>7. \E v \in Users : Exists(v)
  BY <1>1, Present DEF ReviewUser
<1> QED
  BY <1>2, <1>3, <1>4, <1>7, <1>1, <1>5, <1>6 DEF Taken

LEMMA PlaceUserTaken ==
    ASSUME TypeInv, NEW p \in Slots, NEW a \in Users, NEW u \in Users, NEW o \in Orgs,
           NEW role \in {"member", "admin"}, NEW op \in {"moveUser", "addToOrg"},
           PlaceUser(p, a, u, o, role, op)
    PROVE  \E r \in Request : Taken(p, r)
<1> DEFINE k == Ask(op, a, u, o)
<1> DEFINE r == [k EXCEPT !.role = role]
<1>1. Exists(u) /\ user[u] \in Account /\ orgs[o] # None /\ op \in Operations
  BY Present DEF PlaceUser, Operations
<1>2. Accept(p, r)
  BY DEF PlaceUser
<1>3. k \in Request
  BY <1>1, Asked DEF Operations
<1>4. /\ k.op = op /\ k.user = u /\ k.org = o
      /\ k.first = FALSE /\ k.was = user[u] /\ k.row = member[u][o] /\ k.at = accepted
  BY <1>1, NoneIsNoRow DEF Ask
<1> HIDE DEF k
<1>5. r \in Request
  BY <1>1, <1>3, Amended
<1>6. /\ r.op = op /\ r.user = u /\ r.org = o
      /\ r.first = FALSE /\ r.was = user[u] /\ r.row = member[u][o] /\ r.at = accepted
  BY <1>3, <1>4 DEF Request
<1> HIDE DEF r
<1>7. Shape(r)
  BY <1>1, <1>5, <1>6, NoneIsNoRow DEF Shape, Personal, Placed, Newcomers, Halves, OnMember, Removals
<1>8. Holds(user, orgs, member, net, r)
  BY <1>1, <1>5, <1>6, Present DEF Holds, Exists, Personal, Placed, Halves, OnMember, Removals, NetOps
<1>9. \E v \in Users : Exists(v)
  BY <1>1, Present DEF PlaceUser
<1> QED
  BY <1>2, <1>5, <1>6, <1>9, <1>7, <1>8 DEF Taken

LEMMA ReviewMemberTaken ==
    ASSUME TypeInv, NEW p \in Slots, NEW a \in Users, NEW u \in Users, NEW o \in Orgs,
           NEW role \in {"member", "admin"}, NEW roles \in SUBSET Extras,
           NEW op \in {"setRole", "rejectMember", "approveMember", "setExtra"},
           ReviewMember(p, a, u, o, op, role, roles)
    PROVE  \E r \in Request : Taken(p, r)
<1> DEFINE k == Ask(op, a, u, o)
<1> DEFINE r == [k EXCEPT !.role = role, !.extra = roles]
<1>1. /\ Exists(u) /\ user[u] \in Account /\ orgs[o] # None /\ member[u][o] # None
      /\ op \in Operations
  BY Present DEF ReviewMember, Operations
<1>2. Accept(p, r)
  BY DEF ReviewMember
<1>3. k \in Request
  BY <1>1, Asked DEF Operations
<1>4. /\ k.op = op /\ k.user = u /\ k.org = o
      /\ k.first = FALSE /\ k.was = user[u] /\ k.row = member[u][o] /\ k.at = accepted
  BY <1>1, NoneIsNoRow DEF Ask
<1> HIDE DEF k
<1>5. r \in Request
  BY <1>1, <1>3 DEF Request
<1>6. /\ r.op = op /\ r.user = u /\ r.org = o
      /\ r.first = FALSE /\ r.was = user[u] /\ r.row = member[u][o] /\ r.at = accepted
  BY <1>3, <1>4 DEF Request
<1> HIDE DEF r
<1>7. Shape(r)
  BY <1>1, <1>5, <1>6, NoneIsNoRow DEF Shape, Personal, Placed, Newcomers, Halves, OnMember, Removals
<1>8. Holds(user, orgs, member, net, r)
  BY <1>1, <1>5, <1>6, Present DEF Holds, Exists, Personal, Placed, Halves, OnMember, Removals, NetOps
<1>9. \E v \in Users : Exists(v)
  BY <1>1, Present DEF ReviewMember
<1> QED
  BY <1>2, <1>5, <1>6, <1>9, <1>7, <1>8 DEF Taken

LEMMA UpdateOrgTaken ==
    ASSUME TypeInv, NEW p \in Slots, NEW a \in Users, NEW o \in Orgs, NEW open \in BOOLEAN,
           UpdateOrg(p, a, o, open)
    PROVE  \E r \in Request : Taken(p, r)
<1> DEFINE k == Ask("updateOrg", a, None, o)
<1> DEFINE r == [k EXCEPT !.flag = open]
<1>1. orgs[o] # None
  BY DEF UpdateOrg
<1>2. Accept(p, r)
  BY DEF UpdateOrg
<1>3. k \in Request
  BY <1>1, Asked DEF Operations
<1>4. /\ k.op = "updateOrg" /\ k.org = o /\ k.first = FALSE
      /\ k.row = None /\ k.at = accepted
  BY <1>1, NoneIsNoRow DEF Ask
<1> HIDE DEF k
<1>5. r \in Request
  BY <1>1, <1>3, Amended
<1>6. /\ r.op = "updateOrg" /\ r.org = o /\ r.first = FALSE
      /\ r.row = None /\ r.at = accepted
  BY <1>3, <1>4 DEF Request
<1> HIDE DEF r
<1>7. Shape(r)
  BY <1>1, <1>5, <1>6, NoneIsNoRow DEF Shape, Personal, Placed, Newcomers, Halves, OnMember, Removals
<1>8. Holds(user, orgs, member, net, r)
  BY <1>1, <1>5, <1>6, Present DEF Holds, Exists, Personal, Placed, Halves, OnMember, Removals, NetOps
<1>9. \E v \in Users : Exists(v)
  BY <1>1, Present DEF UpdateOrg
<1> QED
  BY <1>2, <1>5, <1>6, <1>9, <1>7, <1>8 DEF Taken

LEMMA JoinOrgTaken ==
    ASSUME TypeInv, NEW p \in Slots, NEW u \in Users, NEW o \in Orgs,
           JoinOrg(p, u, o)
    PROVE  \E r \in Request : Taken(p, r)
<1> DEFINE k == Ask("join", u, u, o)
<1> DEFINE founds == (orgs[o] = None)
<1> DEFINE r == [k EXCEPT !.flag = founds]
<1>1. /\ Exists(u) /\ user[u] \in Account /\ member[u][o] = None /\ founds \in BOOLEAN
  BY Present DEF JoinOrg
<1>2. Accept(p, r)
  BY DEF JoinOrg
<1>3. k \in Request
  BY <1>1, Asked DEF Operations
<1>4. /\ k.op = "join" /\ k.user = u /\ k.org = o
      /\ k.first = FALSE /\ k.was = user[u] /\ k.row = member[u][o] /\ k.at = accepted
  BY <1>1, NoneIsNoRow DEF Ask
<1> HIDE DEF k, founds
<1>5. r \in Request
  BY <1>1, <1>3, Amended
<1>6. /\ r.op = "join" /\ r.user = u /\ r.org = o
      /\ r.first = FALSE /\ r.was = user[u] /\ r.row = member[u][o] /\ r.at = accepted
  BY <1>3, <1>4 DEF Request
<1> HIDE DEF r
<1>7. Shape(r)
  BY <1>1, <1>5, <1>6, NoneIsNoRow DEF Shape, Personal, Placed, Newcomers, Halves, OnMember, Removals
<1>8. Holds(user, orgs, member, net, r)
  BY <1>1, <1>5, <1>6, Present DEF Holds, Exists, Personal, Placed, Halves, OnMember, Removals, NetOps
<1>9. \E v \in Users : Exists(v)
  BY <1>1, Present DEF JoinOrg
<1> QED
  BY <1>2, <1>5, <1>6, <1>9, <1>7, <1>8 DEF Taken

LEMMA SwitchOrgTaken ==
    ASSUME TypeInv, NEW p \in Slots, NEW u \in Users, NEW o \in Orgs,
           SwitchOrg(p, u, o)
    PROVE  \E r \in Request : Taken(p, r)
<1> DEFINE r == Ask("switch", u, u, o)
<1>1. Exists(u) /\ user[u] \in Account /\ orgs[o] # None
  BY Present DEF SwitchOrg
<1>2. Accept(p, r)
  BY DEF SwitchOrg
<1>3. r \in Request
  BY <1>1, Asked DEF Operations
<1>4. /\ r.op = "switch" /\ r.user = u /\ r.org = o
      /\ r.first = FALSE /\ r.was = user[u] /\ r.row = member[u][o] /\ r.at = accepted
  BY <1>1, NoneIsNoRow DEF Ask
<1> HIDE DEF r
<1>5. Shape(r)
  BY <1>1, <1>3, <1>4, NoneIsNoRow DEF Shape, Personal, Placed, Newcomers, Halves, OnMember, Removals
<1>6. Holds(user, orgs, member, net, r)
  BY <1>1, <1>3, <1>4, Present DEF Holds, Exists, Personal, Placed, Halves, OnMember, Removals, NetOps
<1>7. \E v \in Users : Exists(v)
  BY <1>1, Present DEF SwitchOrg
<1> QED
  BY <1>2, <1>3, <1>4, <1>7, <1>5, <1>6 DEF Taken

LEMMA CreateNetTaken ==
    ASSUME TypeInv, NEW p \in Slots, NEW u \in Users,
           CreateNet(p, u)
    PROVE  \E r \in Request : Taken(p, r)
<1> DEFINE o == user[u].org
<1> DEFINE r == Ask("createNet", u, u, o)
<1>1. /\ Exists(u) /\ user[u] \in Account
      /\ o \in Orgs /\ orgs[o] # None
  BY Present DEF CreateNet, TypeInv, TypeOK, Account
<1>2. Accept(p, r)
  BY DEF CreateNet
<1>3. r \in Request
  BY <1>1, Asked DEF Operations
<1>4. /\ r.op = "createNet" /\ r.user = u /\ r.org = o
      /\ r.first = FALSE /\ r.was = user[u] /\ r.row = member[u][o] /\ r.at = accepted
  BY <1>1, NoneIsNoRow DEF Ask
<1> HIDE DEF r
<1>5. Shape(r)
  BY <1>1, <1>3, <1>4, NoneIsNoRow DEF Shape, Personal, Placed, Newcomers, Halves, OnMember, Removals
<1>6. Holds(user, orgs, member, net, r)
  BY <1>1, <1>3, <1>4, Present DEF Holds, Exists, Personal, Placed, Halves, OnMember, Removals, NetOps
<1>7. \E v \in Users : Exists(v)
  BY <1>1, Present DEF CreateNet
<1> QED
  BY <1>2, <1>3, <1>4, <1>7, <1>5, <1>6 DEF Taken

LEMMA DeleteNetTaken ==
    ASSUME TypeInv, NEW p \in Slots, NEW u \in Users,
           DeleteNet(p, u)
    PROVE  \E r \in Request : Taken(p, r)
<1> DEFINE o == net.org
<1> DEFINE r == Ask("deleteNet", u, None, o)
<1>1. net # None /\ o \in Orgs \cup {None}
  BY Present DEF DeleteNet, Owns, Net
<1>2. Accept(p, r)
  BY DEF DeleteNet
<1>3. r \in Request
  BY <1>1, Asked DEF Operations
<1>4. /\ r.op = "deleteNet" /\ r.first = FALSE /\ r.row = None
      /\ r.at = accepted
  BY <1>1, NoneIsNoRow DEF Ask
<1> HIDE DEF r
<1>5. Shape(r)
  BY <1>1, <1>3, <1>4, NoneIsNoRow DEF Shape, Personal, Placed, Newcomers, Halves, OnMember, Removals
<1>6. Holds(user, orgs, member, net, r)
  BY <1>1, <1>3, <1>4, Present DEF Holds, Exists, Personal, Placed, Halves, OnMember, Removals, NetOps
<1>7. \E v \in Users : Exists(v)
  BY <1>1, Present DEF DeleteNet
<1> QED
  BY <1>2, <1>3, <1>4, <1>7, <1>5, <1>6 DEF Taken

LEMMA TransferNetOwnerTaken ==
    ASSUME TypeInv, NEW p \in Slots, NEW a \in Users, NEW u \in Users,
           TransferNetOwner(p, a, u)
    PROVE  \E r \in Request : Taken(p, r)
<1> DEFINE o == net.org
<1> DEFINE r == Ask("transfer", a, u, o)
<1>1. /\ net # None /\ o \in Orgs /\ Exists(u) /\ user[u] \in Account
  BY Present DEF TransferNetOwner, Net
<1>2. Accept(p, r)
  BY DEF TransferNetOwner
<1>3. r \in Request
  BY <1>1, Asked DEF Operations
<1>4. /\ r.op = "transfer" /\ r.user = u /\ r.org = o
      /\ r.first = FALSE /\ r.was = user[u] /\ r.row = member[u][o] /\ r.at = accepted
  BY <1>1, NoneIsNoRow DEF Ask
<1> HIDE DEF r
<1>5. Shape(r)
  BY <1>1, <1>3, <1>4, NoneIsNoRow DEF Shape, Personal, Placed, Newcomers, Halves, OnMember, Removals
<1>6. Holds(user, orgs, member, net, r)
  BY <1>1, <1>3, <1>4, Present DEF Holds, Exists, Personal, Placed, Halves, OnMember, Removals, NetOps
<1>7. \E v \in Users : Exists(v)
  BY <1>1, Present DEF TransferNetOwner
<1> QED
  BY <1>2, <1>3, <1>4, <1>7, <1>5, <1>6 DEF Taken

LEMMA MoveNetTaken ==
    ASSUME TypeInv, NEW p \in Slots, NEW a \in Users, NEW o \in Orgs,
           MoveNet(p, a, o)
    PROVE  \E r \in Request : Taken(p, r)
<1> DEFINE r == Ask("moveNet", a, None, o)
<1>1. net # None /\ orgs[o] # None
  BY DEF MoveNet
<1>2. Accept(p, r)
  BY DEF MoveNet
<1>3. r \in Request
  BY <1>1, Asked DEF Operations
<1>4. /\ r.op = "moveNet" /\ r.org = o /\ r.first = FALSE
      /\ r.row = None /\ r.at = accepted
  BY <1>1, NoneIsNoRow DEF Ask
<1> HIDE DEF r
<1>5. Shape(r)
  BY <1>1, <1>3, <1>4, NoneIsNoRow DEF Shape, Personal, Placed, Newcomers, Halves, OnMember, Removals
<1>6. Holds(user, orgs, member, net, r)
  BY <1>1, <1>3, <1>4, Present DEF Holds, Exists, Personal, Placed, Halves, OnMember, Removals, NetOps
<1>7. \E v \in Users : Exists(v)
  BY <1>1, Present DEF MoveNet
<1> QED
  BY <1>2, <1>3, <1>4, <1>7, <1>5, <1>6 DEF Taken

LEMMA UpdateNetSharesTaken ==
    ASSUME TypeInv, NEW p \in Slots, NEW u \in Users, NEW config \in SUBSET Entry,
           UpdateNetShares(p, u, config)
    PROVE  \E r \in Request : Taken(p, r)
<1> DEFINE o == net.org
<1> DEFINE k == Ask("shares", u, None, o)
<1> DEFINE r == [k EXCEPT !.config = config, !.seen = shares]
<1>1. net # None /\ o \in Orgs \cup {None} /\ shares \subseteq Share
  BY Present DEF UpdateNetShares, Owns, Net, TypeInv, TypeOK
<1>2. Accept(p, r)
  BY DEF UpdateNetShares
<1>3. k \in Request
  BY <1>1, Asked DEF Operations
<1>4. /\ k.op = "shares" /\ k.first = FALSE /\ k.row = None
      /\ k.at = accepted
  BY <1>1, NoneIsNoRow DEF Ask
<1> HIDE DEF k
<1>5. r \in Request
  BY <1>1, <1>3 DEF Request
<1>6. /\ r.op = "shares" /\ r.first = FALSE /\ r.row = None
      /\ r.at = accepted
  BY <1>3, <1>4 DEF Request
<1>7. r.seen = shares
  BY <1>3 DEF Request
<1> HIDE DEF r
<1>8. Shape(r)
  BY <1>1, <1>5, <1>6, <1>7, NoneIsNoRow DEF Shape, Personal, Placed, Newcomers, Halves, OnMember, Removals
<1>9. Holds(user, orgs, member, net, r)
  BY <1>1, <1>5, <1>6, <1>7, Present DEF Holds, Exists, Personal, Placed, Halves, OnMember, Removals, NetOps
<1>10. \E v \in Users : Exists(v)
  BY <1>1, Present DEF UpdateNetShares
<1> QED
  BY <1>2, <1>5, <1>6, <1>7, <1>10, <1>8, <1>9 DEF Taken

LEMMA RegisterTaken ==
    ASSUME TypeInv, NEW p \in Slots, NEW u \in Users, NEW o \in Orgs,
           Register(p, u, o)
    PROVE  \E r \in Request : Taken(p, r)
<1> DEFINE k == Ask("register", None, u, o)
<1> DEFINE founds == (orgs[o] = None)
<1> DEFINE alone == \A v \in Users : ~Exists(v)
<1> DEFINE role == IF orgs[o] = None THEN "admin" ELSE "member"
<1> DEFINE r == [k EXCEPT !.flag = founds, !.first = alone, !.role = role]
<1>1. /\ member[u][o] = None /\ founds \in BOOLEAN /\ alone \in BOOLEAN
      /\ role \in {"member", "admin"}
  BY Present DEF Register
<1>2. Accept(p, r)
  BY DEF Register
<1>3. k \in Request
  BY <1>1, Asked DEF Operations
<1>4. /\ k.op = "register" /\ k.user = u /\ k.org = o
      /\ k.row = member[u][o] /\ k.at = accepted
  BY <1>1, NoneIsNoRow DEF Ask
<1> HIDE DEF k, founds, alone, role
<1>5. r \in Request
  BY <1>1, <1>3, Amended
<1>6. /\ r.op = "register" /\ r.user = u /\ r.org = o
      /\ r.row = member[u][o] /\ r.at = accepted
  BY <1>3, <1>4 DEF Request
<1>7. /\ alone => r.first
      /\ r.first => alone
      /\ founds => r.flag
  BY <1>1, <1>3 DEF Request
<1> HIDE DEF r
<1>8. Shape(r)
  BY <1>1, <1>5, <1>6, <1>7, NoneIsNoRow DEF Shape, Personal, Placed, Newcomers, Halves, OnMember, Removals
<1>9. Holds(user, orgs, member, net, r)
  BY <1>1, <1>5, <1>6, <1>7, Present DEF Holds, Exists, Personal, Placed, Halves, OnMember, Removals, NetOps
<1>10. /\ r.first => \A v \in Users : ~Exists(v)
       /\ (\A v \in Users : ~Exists(v)) => r.first
       /\ orgs[r.org] = None => r.flag
  <2>1. r.first => \A v \in Users : ~Exists(v)
    BY <1>7, Zenon DEF alone
  <2>2. (\A v \in Users : ~Exists(v)) => r.first
    BY <1>7, Zenon DEF alone
  <2>3. orgs[r.org] = None => r.flag
    BY <1>6, <1>7, Zenon DEF founds
  <2> QED
    BY <2>1, <2>2, <2>3
<1> QED
  BY <1>2, <1>5, <1>6, <1>7, <1>10, <1>8, <1>9 DEF Taken

LEMMA InviteTaken ==
    ASSUME TypeInv, NEW p \in Slots, NEW a \in Users, NEW u \in Users, NEW o \in Orgs,
           NEW role \in {"member", "admin"},
           Invite(p, a, u, o, role)
    PROVE  \E r \in Request : Taken(p, r)
<1> DEFINE k == Ask("invite", a, u, o)
<1> DEFINE founds == (orgs[o] = None)
<1> DEFINE r == [k EXCEPT !.flag = founds, !.role = role]
<1>1. member[u][o] = None /\ founds \in BOOLEAN
  BY Present DEF Invite
<1>2. Accept(p, r)
  BY DEF Invite
<1>3. k \in Request
  BY <1>1, Asked DEF Operations
<1>4. /\ k.op = "invite" /\ k.user = u /\ k.org = o
      /\ k.first = FALSE /\ k.row = member[u][o] /\ k.at = accepted
  BY <1>1, NoneIsNoRow DEF Ask
<1> HIDE DEF k, founds
<1>5. r \in Request
  BY <1>1, <1>3, Amended
<1>6. /\ r.op = "invite" /\ r.user = u /\ r.org = o
      /\ r.first = FALSE /\ r.row = member[u][o] /\ r.at = accepted
  BY <1>3, <1>4 DEF Request
<1> HIDE DEF r
<1>7. Shape(r)
  BY <1>1, <1>5, <1>6, NoneIsNoRow DEF Shape, Personal, Placed, Newcomers, Halves, OnMember, Removals
<1>8. Holds(user, orgs, member, net, r)
  BY <1>1, <1>5, <1>6, Present DEF Holds, Exists, Personal, Placed, Halves, OnMember, Removals, NetOps
<1>9. \E v \in Users : Exists(v)
  BY <1>1, Present DEF Invite
<1> QED
  BY <1>2, <1>5, <1>6, <1>9, <1>7, <1>8 DEF Taken

LEMMA SomebodyTaken ==
    ASSUME TypeInv, NEW p \in Slots, Review(p) \/ Apply(p)
    PROVE  \E r \in Request : Taken(p, r)
<1>1. CASE Review(p)
  <2>1. PICK a \in Users, u \in Users :
          \/ \E op \in {"deleteUser", "deactivate", "removeAdmin", "makeAdmin", "approveUser"} :
                ReviewUser(p, a, u, op)
          \/ \E o \in Orgs, role \in {"member", "admin"} :
                \/ \E op \in {"moveUser", "addToOrg"} : PlaceUser(p, a, u, o, role, op)
                \/ ReviewMember(p, a, u, o, "setRole", role, {})
                \/ Invite(p, a, u, o, role)
          \/ \E o \in Orgs :
                \/ ReviewMember(p, a, u, o, "rejectMember", "member", {})
                \/ \E roles \in SUBSET Extras, op \in {"approveMember", "setExtra"} :
                      ReviewMember(p, a, u, o, op, "member", roles)
          \/ TransferNetOwner(p, a, u)
    BY <1>1 DEF Review
  <2>2. ASSUME NEW op \in {"deleteUser", "deactivate", "removeAdmin", "makeAdmin", "approveUser"},
               ReviewUser(p, a, u, op)
        PROVE  \E r \in Request : Taken(p, r)
    BY <2>2, ReviewUserTaken DEF Removals
  <2>3. ASSUME NEW o \in Orgs, NEW role \in {"member", "admin"},
               \/ \E op \in {"moveUser", "addToOrg"} : PlaceUser(p, a, u, o, role, op)
               \/ ReviewMember(p, a, u, o, "setRole", role, {})
               \/ Invite(p, a, u, o, role)
        PROVE  \E r \in Request : Taken(p, r)
    BY <2>3, PlaceUserTaken, ReviewMemberTaken, InviteTaken
  <2>4. ASSUME NEW o \in Orgs,
               \/ ReviewMember(p, a, u, o, "rejectMember", "member", {})
               \/ \E roles \in SUBSET Extras, op \in {"approveMember", "setExtra"} :
                     ReviewMember(p, a, u, o, op, "member", roles)
        PROVE  \E r \in Request : Taken(p, r)
    BY <2>4, ReviewMemberTaken
  <2> QED
    BY <2>1, <2>2, <2>3, <2>4, TransferNetOwnerTaken
<1>2. CASE Apply(p)
  <2>1. PICK u \in Users :
          \/ \E o \in Orgs :
                \/ Register(p, u, o) \/ JoinOrg(p, u, o) \/ SwitchOrg(p, u, o) \/ MoveNet(p, u, o)
                \/ \E open \in BOOLEAN : UpdateOrg(p, u, o, open)
          \/ CreateNet(p, u) \/ DeleteNet(p, u)
          \/ \E config \in {{}} \cup {{e} : e \in Entry} : UpdateNetShares(p, u, config)
    BY <1>2 DEF Apply
  <2>2. ASSUME NEW o \in Orgs,
               \/ Register(p, u, o) \/ JoinOrg(p, u, o) \/ SwitchOrg(p, u, o) \/ MoveNet(p, u, o)
               \/ \E open \in BOOLEAN : UpdateOrg(p, u, o, open)
        PROVE  \E r \in Request : Taken(p, r)
    BY <2>2, RegisterTaken, JoinOrgTaken, SwitchOrgTaken, MoveNetTaken, UpdateOrgTaken
  <2>3. ASSUME NEW config \in {{}} \cup {{e} : e \in Entry}, UpdateNetShares(p, u, config)
        PROVE  \E r \in Request : Taken(p, r)
    <3>1. config \in SUBSET Entry
      OBVIOUS
    <3> QED
      BY <2>3, <3>1, UpdateNetSharesTaken
  <2> QED
    BY <2>1, <2>2, <2>3, CreateNetTaken, DeleteNetTaken
<1> QED
  BY <1>1, <1>2

(***************************************************************************)
(* A request commits.                                                      *)
(***************************************************************************)

\* What a commit finds: the request, and the rows that it holds.
LEMMA Committing ==
    ASSUME TypeInv, NEW p \in Slots, req[p] # Idle
    PROVE  /\ req[p] \in Request /\ Shape(req[p])
           /\ Holds(user, orgs, member, net, req[p])
BY DEF TypeInv, ReqInv

LEMMA Dropped ==
    ASSUME TypeInv, NEW lost, Drop(lost)
    PROVE  /\ req' \in [Slots -> Request \cup {Idle}]
           /\ \A q \in Slots : req'[q] \in {req[q], Idle}
           /\ \A q \in Slots : req'[q] \in Request => q \notin lost /\ req'[q] = req[q]
BY IdleIsNoRequest DEF Drop, TypeInv, ReqInv

\* Nothing that was there is gone.
Grows ==
    /\ \A u \in Users : Exists(u) => user'[u] # None
    /\ \A o \in Orgs : orgs[o] # None => orgs'[o] # None
    /\ \A u \in Users, o \in Orgs : member[u][o] # None => member'[u][o] # None
    /\ net # None => net' # None

LEMMA HoldsGrows ==
    ASSUME TypeInv, Grows, NEW r \in Request, Shape(r), Holds(user, orgs, member, net, r)
    PROVE  Holds(user', orgs', member', net', r)
<1>1. r.op \in Personal \cup Halves => r.user \in Users
  BY DEF Shape
<1>2. r.op \in Placed => r.org \in Orgs
  BY DEF Shape
<1>3. r.pending \subseteq Orgs
  BY DEF Request
<1>4. r.op = "approveUser" => r.user \in Users
  BY <1>1 DEF Personal
<1> QED
  BY <1>1, <1>2, <1>3, <1>4 DEF Holds, Grows, Exists

\* The tables are sound again if only memberships, roles, accounts and organisations
\* have been added to or changed in place.
LEMMA TablesGrow ==
    ASSUME TypeOK, Grows, UNCHANGED <<net, shares>>,
           user' \in [Users -> Account \cup {None}],
           orgs' \in [Orgs -> BOOLEAN \cup {None}],
           member' \in [Users -> [Orgs -> Membership \cup {None}]],
           extra' \in [Users -> [Orgs -> SUBSET Extras]],
           \A u \in Users, o \in Orgs :
              /\ user'[u] # None /\ user'[u].org = o => orgs'[o] # None
              /\ member'[u][o] # None => user'[u] # None /\ orgs'[o] # None
              /\ extra'[u][o] # {} => member'[u][o] # None
    PROVE  TypeOK'
<1>1. net # None => net.owner \in Users /\ net.org \in Orgs \cup {None}
  BY DEF TypeOK, Net
<1>2. \A s \in shares : s.user \in Users \cup {None}
  BY DEF TypeOK, Share
<1>3. net' # None => Exists(net.owner)' /\ (net'.org # None => orgs'[net'.org] # None)
  BY <1>1 DEF TypeOK, Grows, Exists
<1>4. \A s \in shares' : net' # None /\ (s.user # None => Exists(s.user)')
  BY <1>2 DEF TypeOK, Grows, Exists
<1> QED
  BY <1>3, <1>4 DEF TypeOK, Exists

\* A commit of this kind ends the request and keeps what the others hold.
LEMMA CommitGrows ==
    ASSUME TypeInv, TypeOK', Grows, UNCHANGED accepted,
           NEW lost, Drop(lost)
    PROVE  TypeInv'
<1>1. ASSUME NEW q \in Slots, NEW s \in Request, req'[q] = s
      PROVE  Shape(s) /\ Holds(user', orgs', member', net', s)
  <2>1. req[q] = s
    BY <1>1, Dropped
  <2>2. Shape(s) /\ Holds(user, orgs, member, net, s)
    BY <2>1 DEF TypeInv, ReqInv
  <2> QED
    BY <2>2, HoldsGrows
<1>2. ReqInv'
  BY <1>1, Dropped DEF ReqInv
<1> QED
  BY <1>2 DEF TypeInv

\* An account whose attributes a handler saves.
LEMMA SavedAccount ==
    ASSUME TypeInv, NEW r \in Request, r.user \in Users, r.was \in Account, Exists(r.user),
           NEW new \in Account,
           new.org # r.was.org /\ new.org \in Orgs => orgs[new.org] # None
    PROVE  /\ Saved(r, new) \in Account
           /\ Saved(r, new).org \in Orgs => orgs[Saved(r, new).org] # None
           /\ user[r.user].active /\ (new.active \/ new.active = r.was.active) => Saved(r, new).active
           /\ user[r.user].super /\ (new.super \/ new.super = r.was.super) => Saved(r, new).super
<1>1. user[r.user] \in Account
  BY Present
<1>2. user[r.user].org \in Orgs => orgs[user[r.user].org] # None
  BY DEF TypeInv, TypeOK
<1> DEFINE was == r.was  now == user[r.user]  f == Flush(was, new, now)
<1>3. was \in Account /\ now \in Account /\ f = Saved(r, new)
  BY <1>1 DEF Saved
<1>4. now.org \in Orgs => orgs[now.org] # None
  BY <1>2
<1>5. new.org # was.org /\ new.org \in Orgs => orgs[new.org] # None
  OBVIOUS
<1>6. f \in Account /\ (f.org = now.org \/ (f.org = new.org /\ new.org # was.org))
  BY <1>3, FlushedAccount
<1>7. now.active /\ (new.active \/ new.active = was.active) => f.active
  BY <1>3, FlushedAccount
<1>8. now.super /\ (new.super \/ new.super = was.super) => f.super
  BY <1>3, FlushedAccount
<1>9. f.org \in Orgs => orgs[f.org] # None
  BY <1>4, <1>5, <1>6
<1> QED
  BY <1>3, <1>6, <1>7, <1>8, <1>9

LEMMA AccountedTables ==
    ASSUME TypeInv, NEW p \in Slots, req[p] \in Request, req[p].user \in Users,
           req[p].was \in Account, Exists(req[p].user),
           NEW new \in Account, Accounted(p, new),
           new.org # req[p].was.org /\ new.org \in Orgs => orgs[new.org] # None
    PROVE  /\ user' \in [Users -> Account \cup {None}]
           /\ \A u \in Users : user'[u] # None <=> Exists(u)
           /\ \A u \in Users, o \in Orgs : user'[u] # None /\ user'[u].org = o => orgs'[o] # None
           /\ \A u \in Users : u # req[p].user => user'[u] = user[u]
           /\ user'[req[p].user] = Saved(req[p], new)
           /\ UNCHANGED <<orgs, net, shares, firsts>>
<1> DEFINE r == req[p]
<1> DEFINE a == Saved(r, new)
<1>1. a \in Account /\ (a.org \in Orgs => orgs[a.org] # None)
  BY SavedAccount
<1>2. user' = [user EXCEPT ![r.user] = a] /\ UNCHANGED <<orgs, net, shares, firsts>>
  BY DEF Accounted
<1>3. user \in [Users -> Account \cup {None}] /\ r.user \in Users /\ Exists(r.user)
  BY DEF TypeInv, TypeOK
<1>4. \A u \in Users, o \in Orgs : user[u] # None /\ user[u].org = o => orgs[o] # None
  BY DEF TypeInv, TypeOK, Exists
<1> HIDE DEF a, r
<1>5. user' \in [Users -> Account \cup {None}]
  BY <1>1, <1>2, <1>3
<1>6. \A u \in Users : user'[u] = IF u = r.user THEN a ELSE user[u]
  BY <1>2, <1>3
<1>7. \A u \in Users : user'[u] # None <=> Exists(u)
  BY <1>1, <1>3, <1>6, NoneIsNoRow DEF Exists
<1>8. \A u \in Users, o \in Orgs : user'[u] # None /\ user'[u].org = o => orgs'[o] # None
  BY <1>1, <1>2, <1>4, <1>6
<1> QED
  BY <1>2, <1>3, <1>5, <1>6, <1>7, <1>8 DEF a, r

\* The commits that write one account and nothing else.
LEMMA AccountOnlyTyped ==
    ASSUME TypeInv, NEW p \in Slots, req[p] \in Request, req[p].user \in Users,
           req[p].was \in Account, Exists(req[p].user),
           NEW new \in Account, Accounted(p, new),
           new.org # req[p].was.org /\ new.org \in Orgs => orgs[new.org] # None,
           UNCHANGED <<member, extra, accepted>>, Finish(p)
    PROVE  TypeInv'
<1>1. /\ user' \in [Users -> Account \cup {None}]
      /\ \A u \in Users : user'[u] # None <=> Exists(u)
      /\ \A u \in Users, o \in Orgs : user'[u] # None /\ user'[u].org = o => orgs'[o] # None
      /\ UNCHANGED <<orgs, net, shares>>
  BY AccountedTables
<1>2. Grows
  BY <1>1 DEF Grows
<1>3. TypeOK'
  <2>1. \A u \in Users, o \in Orgs :
           /\ member'[u][o] # None => user'[u] # None /\ orgs'[o] # None
           /\ extra'[u][o] # {} => member'[u][o] # None
    BY <1>1 DEF TypeInv, TypeOK
  <2>2. /\ orgs' \in [Orgs -> BOOLEAN \cup {None}]
        /\ member' \in [Users -> [Orgs -> Membership \cup {None}]]
        /\ extra' \in [Users -> [Orgs -> SUBSET Extras]]
    BY <1>1 DEF TypeInv, TypeOK
  <2> QED
    BY <1>1, <1>2, <2>1, <2>2, TablesGrow DEF TypeInv
<1> QED
  BY <1>2, <1>3, CommitGrows DEF Finish

\* What a request of this kind holds.
LEMMA PersonalCommit ==
    ASSUME TypeInv, NEW p \in Slots, req[p] # Idle, req[p].op \in Personal
    PROVE  /\ req[p] \in Request /\ req[p].user \in Users /\ req[p].was \in Account
           /\ Exists(req[p].user)
           /\ req[p].op \in Placed => req[p].org \in Orgs /\ orgs[req[p].org] # None
           /\ req[p].row # None => req[p].org \in Orgs /\ member[req[p].user][req[p].org] # None
           /\ req[p].op \in OnMember => req[p].row # None
BY Committing DEF Shape, Holds, Exists

LEMMA AccountCommitsTyped ==
    ASSUME TypeInv, NEW p \in Slots,
           Deactivate(p) \/ MakeAdmin(p) \/ RemoveAdmin(p) \/ CommitSwitch(p),
           UNCHANGED accepted
    PROVE  TypeInv'
<1> DEFINE r == req[p]
<1>1. r # Idle /\ r.op \in Personal
  BY DEF Deactivate, MakeAdmin, RemoveAdmin, CommitSwitch, Commits, Personal, Removals
<1>2. r \in Request /\ r.user \in Users /\ r.was \in Account /\ Exists(r.user)
  BY <1>1, PersonalCommit
<1>3. /\ UNCHANGED <<member, extra>> /\ Finish(p)
      /\ \/ Accounted(p, [r.was EXCEPT !.active = FALSE])
         \/ Accounted(p, [r.was EXCEPT !.super = TRUE, !.active = TRUE])
         \/ Accounted(p, [r.was EXCEPT !.super = FALSE])
         \/ r.op = "switch" /\ Accounted(p, [r.was EXCEPT !.org = r.org])
  BY DEF Deactivate, MakeAdmin, RemoveAdmin, CommitSwitch, Commits
<1>4. r.op = "switch" => r.org \in Orgs /\ orgs[r.org] # None
  BY <1>1, PersonalCommit DEF Placed
<1>5. \A new \in Account :
         /\ Accounted(p, new)
         /\ new.org = r.was.org \/ (new.org \in Orgs /\ orgs[new.org] # None)
         => TypeInv'
  BY <1>2, <1>3, AccountOnlyTyped
<1>6. /\ [r.was EXCEPT !.active = FALSE] \in Account
      /\ [r.was EXCEPT !.active = FALSE].org = r.was.org
      /\ [r.was EXCEPT !.super = TRUE, !.active = TRUE] \in Account
      /\ [r.was EXCEPT !.super = TRUE, !.active = TRUE].org = r.was.org
      /\ [r.was EXCEPT !.super = FALSE] \in Account
      /\ [r.was EXCEPT !.super = FALSE].org = r.was.org
  BY <1>2 DEF Account
<1>7. r.op = "switch" => /\ [r.was EXCEPT !.org = r.org] \in Account
                         /\ [r.was EXCEPT !.org = r.org].org = r.org
  BY <1>2, <1>4 DEF Account
<1> HIDE DEF r
<1> QED
  BY <1>3, <1>4, <1>5, <1>6, <1>7

LEMMA FailTyped ==
    ASSUME TypeInv, NEW p \in Slots, Fail(p), UNCHANGED accepted
    PROVE  TypeInv'
<1>1. UNCHANGED <<user, orgs, member, extra, net, shares>> /\ Drop({p})
  BY DEF Fail, tables
<1>2. Grows
  BY <1>1 DEF Grows, Exists
<1>3. TypeOK'
  BY <1>1 DEF TypeInv, TypeOK, Exists
<1> QED
  BY <1>1, <1>2, <1>3, CommitGrows

\* Memberships and roles that are written where a membership is.
LEMMA RowsTyped ==
    ASSUME TypeInv, NEW p \in Slots, Finish(p), UNCHANGED <<net, shares, accepted>>,
           Grows,
           user' \in [Users -> Account \cup {None}],
           orgs' \in [Orgs -> BOOLEAN \cup {None}],
           member' \in [Users -> [Orgs -> Membership \cup {None}]],
           extra' \in [Users -> [Orgs -> SUBSET Extras]],
           \A u \in Users, o \in Orgs :
              /\ user'[u] # None /\ user'[u].org = o => orgs'[o] # None
              /\ member'[u][o] # None => user'[u] # None /\ orgs'[o] # None
              /\ extra'[u][o] # {} => member'[u][o] # None
    PROVE  TypeInv'
BY TablesGrow, CommitGrows DEF TypeInv, Finish

LEMMA ApproveUserTyped ==
    ASSUME TypeInv, NEW p \in Slots, ApproveUser(p), UNCHANGED accepted
    PROVE  TypeInv'
<1> DEFINE r == req[p]
<1> DEFINE new == [r.was EXCEPT !.active = TRUE]
<1>1. r # Idle /\ r.op = "approveUser" /\ r.op \in Personal
  BY DEF ApproveUser, Commits, Personal
<1>2. r \in Request /\ r.user \in Users /\ r.was \in Account /\ Exists(r.user)
  BY <1>1, PersonalCommit
<1>3. \A o \in r.pending : o \in Orgs /\ member[r.user][o] # None
  BY <1>1, <1>2, Committing DEF Holds, Request
<1>4. /\ Accounted(p, new) /\ Finish(p)
      /\ member' = [member EXCEPT ![r.user] = [o \in Orgs |->
                       IF o \in r.pending THEN [@[o] EXCEPT !.approved = TRUE] ELSE @[o]]]
      /\ extra' = [extra EXCEPT ![r.user] = [o \in Orgs |->
                      IF o \in r.pending /\ member[r.user][o].role # "admin"
                      THEN @[o] \cup {Default} ELSE @[o]]]
  BY DEF ApproveUser
<1>5. new \in Account /\ new.org = r.was.org
  BY <1>2 DEF Account
<1> HIDE DEF new
<1>6. /\ user' \in [Users -> Account \cup {None}]
      /\ \A u \in Users : user'[u] # None <=> Exists(u)
      /\ \A u \in Users, o \in Orgs : user'[u] # None /\ user'[u].org = o => orgs'[o] # None
      /\ UNCHANGED <<orgs, net, shares>>
  BY <1>2, <1>4, <1>5, AccountedTables
<1> HIDE DEF r
<1>7. /\ member \in [Users -> [Orgs -> Membership \cup {None}]]
      /\ extra \in [Users -> [Orgs -> SUBSET Extras]] /\ Default \in Extras
  BY AccessAssumption DEF TypeInv, TypeOK
<1> DEFINE Yes(m) == [m EXCEPT !.approved = TRUE]
<1>8. \A u \in Users, o \in Orgs : member'[u][o] =
        IF u = r.user /\ o \in r.pending THEN Yes(member[u][o]) ELSE member[u][o]
  BY <1>2, <1>4, <1>7
<1>9. \A m \in Membership : Yes(m) \in Membership
  BY AmendedMembership
<1> HIDE DEF Yes
<1>10. \A u \in Users, o \in Orgs :
         /\ member'[u][o] \in Membership \cup {None}
         /\ member'[u][o] # None <=> member[u][o] # None
  <2> TAKE u \in Users, o \in Orgs
  <2>1. CASE u = r.user /\ o \in r.pending
    BY <1>3, <1>7, <1>8, <1>9, <2>1, NoneIsNoRow
  <2>2. CASE ~(u = r.user /\ o \in r.pending)
    BY <1>7, <1>8, <2>2
  <2> QED
    BY <2>1, <2>2
<1>11. \A u \in Users, o \in Orgs :
         /\ extra'[u][o] \in SUBSET Extras
         /\ extra'[u][o] # {} => extra[u][o] # {} \/ (u = r.user /\ o \in r.pending)
  BY <1>2, <1>4, <1>7
<1>12. /\ member' \in [Users -> [Orgs -> Membership \cup {None}]]
       /\ extra' \in [Users -> [Orgs -> SUBSET Extras]]
  BY <1>2, <1>4, <1>7, <1>10, <1>11
<1>13. Grows
  BY <1>6, <1>10 DEF Grows
<1>14. \A u \in Users, o \in Orgs :
         /\ member'[u][o] # None => user'[u] # None /\ orgs'[o] # None
         /\ extra'[u][o] # {} => member'[u][o] # None
  BY <1>3, <1>6, <1>10, <1>11 DEF TypeInv, TypeOK
<1>15. orgs' \in [Orgs -> BOOLEAN \cup {None}]
  BY <1>6 DEF TypeInv, TypeOK
<1> QED
  BY <1>4, <1>6, <1>12, <1>13, <1>14, <1>15, RowsTyped

\* One membership and its roles are written: of an account that exists, in an
\* organisation that stands.
LEMMA OneRowTyped ==
    ASSUME TypeInv, NEW p \in Slots, Finish(p), UNCHANGED <<net, shares, accepted>>,
           NEW u \in Users, NEW o \in Orgs,
           NEW row \in Membership, NEW roles \in SUBSET Extras,
           member' = [member EXCEPT ![u][o] = row] \/ (member[u][o] # None /\ UNCHANGED member),
           extra' = [extra EXCEPT ![u][o] = roles] \/ UNCHANGED extra,
           user' \in [Users -> Account \cup {None}],
           \A v \in Users : user'[v] # None <=> Exists(v),
           \A v \in Users, x \in Orgs : user'[v] # None /\ user'[v].org = x => orgs'[x] # None,
           orgs' \in [Orgs -> BOOLEAN \cup {None}],
           \A x \in Orgs : orgs[x] # None => orgs'[x] # None,
           Exists(u), orgs'[o] # None
    PROVE  TypeInv'
<1>1. /\ member \in [Users -> [Orgs -> Membership \cup {None}]]
      /\ extra \in [Users -> [Orgs -> SUBSET Extras]]
      /\ \A v \in Users, x \in Orgs :
            /\ member[v][x] # None => Exists(v) /\ orgs[x] # None
            /\ extra[v][x] # {} => member[v][x] # None
  BY DEF TypeInv, TypeOK
<1>2. /\ member' \in [Users -> [Orgs -> Membership \cup {None}]]
      /\ \A v \in Users, x \in Orgs : v # u \/ x # o => member'[v][x] = member[v][x]
      /\ member'[u][o] # None
  <2>1. CASE member[u][o] # None /\ UNCHANGED member
    BY <1>1, <2>1
  <2>2. CASE member' = [member EXCEPT ![u][o] = row]
    <3> DEFINE V == Membership \cup {None}
    <3>1. row \in V /\ member \in [Users -> [Orgs -> V]]
      BY <1>1
    <3> HIDE DEF V
    <3>2. /\ member' \in [Users -> [Orgs -> V]]
          /\ \A v \in Users, x \in Orgs :
                member'[v][x] = IF v = u /\ x = o THEN row ELSE member[v][x]
      BY <2>2, <3>1, CellWritten
    <3> QED
      BY <3>2, NoneIsNoRow DEF V
  <2> QED
    BY <2>1, <2>2
<1>3. /\ extra' \in [Users -> [Orgs -> SUBSET Extras]]
      /\ \A v \in Users, x \in Orgs : v # u \/ x # o => extra'[v][x] = extra[v][x]
  <2>1. CASE UNCHANGED extra
    BY <1>1, <2>1
  <2>2. CASE extra' = [extra EXCEPT ![u][o] = roles]
    <3> DEFINE V == SUBSET Extras
    <3>1. roles \in V /\ extra \in [Users -> [Orgs -> V]]
      BY <1>1
    <3> HIDE DEF V
    <3>2. /\ extra' \in [Users -> [Orgs -> V]]
          /\ \A v \in Users, x \in Orgs :
                extra'[v][x] = IF v = u /\ x = o THEN roles ELSE extra[v][x]
      BY <2>2, <3>1, CellWritten
    <3> QED
      BY <3>2 DEF V
  <2> QED
    BY <2>1, <2>2
<1>4. Grows
  BY <1>2 DEF Grows
<1>5. \A v \in Users, x \in Orgs :
        /\ member'[v][x] # None => user'[v] # None /\ orgs'[x] # None
        /\ extra'[v][x] # {} => member'[v][x] # None
  BY <1>1, <1>2, <1>3
<1> QED
  BY <1>2, <1>3, <1>4, <1>5, RowsTyped

\* update_org_member_role, update_org_member_extra_roles
LEMMA SetRoleTyped ==
    ASSUME TypeInv, NEW p \in Slots, SetRole(p), UNCHANGED accepted
    PROVE  TypeInv'
<1> DEFINE r == req[p]
<1> DEFINE new == [r.row EXCEPT !.role = r.role]
<1> DEFINE row == Flush(r.row, new, member[r.user][r.org])
<1>1. r # Idle /\ r.op \in Personal /\ r.op \in OnMember /\ r.op \in Placed
  BY DEF SetRole, Commits, Personal, Placed, OnMember
<1>2. /\ r \in Request /\ r.user \in Users /\ r.org \in Orgs /\ Exists(r.user)
      /\ orgs[r.org] # None /\ r.row # None /\ member[r.user][r.org] # None
  BY <1>1, PersonalCommit
<1>3. member[r.user][r.org] \in Membership /\ r.row \in Membership /\ new \in Membership
  <2>1. member[r.user][r.org] \in Membership
    BY <1>2 DEF TypeInv, TypeOK
  <2>2. r.row \in Membership /\ r.role \in {"member", "admin"}
    BY <1>2 DEF Request
  <2> QED
    BY <2>1, <2>2, AmendedMembership
<1>4. row \in Membership
  BY <1>3, FlushedMembership
<1>5. /\ member' = [member EXCEPT ![r.user][r.org] = row] /\ Finish(p)
      /\ UNCHANGED <<user, orgs, extra, net, shares>>
  BY DEF SetRole
<1> HIDE DEF r, new, row
<1>6. /\ user' \in [Users -> Account \cup {None}]
      /\ \A v \in Users : user'[v] # None <=> Exists(v)
      /\ \A v \in Users, x \in Orgs : user'[v] # None /\ user'[v].org = x => orgs'[x] # None
      /\ orgs' \in [Orgs -> BOOLEAN \cup {None}]
  BY <1>5 DEF TypeInv, TypeOK, Exists
<1> DEFINE none == {}
<1>7. none \in SUBSET Extras
  OBVIOUS
<1> HIDE DEF none
<1> QED
  BY <1>2, <1>4, <1>5, <1>6, <1>7, OneRowTyped

LEMMA SetExtraTyped ==
    ASSUME TypeInv, NEW p \in Slots, SetExtra(p), UNCHANGED accepted
    PROVE  TypeInv'
<1> DEFINE r == req[p]
<1> DEFINE roles == (extra[r.user][r.org] \ r.had) \cup r.extra
<1>1. r # Idle /\ r.op \in Personal /\ r.op \in OnMember /\ r.op \in Placed
  BY DEF SetExtra, Commits, Personal, Placed, OnMember
<1>2. /\ r \in Request /\ r.user \in Users /\ r.org \in Orgs /\ Exists(r.user)
      /\ orgs[r.org] # None /\ member[r.user][r.org] # None
  BY <1>1, PersonalCommit
<1>3. member[r.user][r.org] \in Membership /\ roles \in SUBSET Extras
  BY <1>2 DEF TypeInv, TypeOK, Request
<1>4. CASE Fail(p)
  BY <1>4, FailTyped
<1>5. CASE /\ extra' = [extra EXCEPT ![r.user][r.org] = roles]
           /\ UNCHANGED <<user, orgs, member, net, shares>> /\ Finish(p)
  <2>1. /\ user' \in [Users -> Account \cup {None}]
        /\ \A v \in Users : user'[v] # None <=> Exists(v)
        /\ \A v \in Users, x \in Orgs : user'[v] # None /\ user'[v].org = x => orgs'[x] # None
        /\ orgs' \in [Orgs -> BOOLEAN \cup {None}]
    BY <1>5 DEF TypeInv, TypeOK, Exists
  <2> HIDE DEF r, roles
  <2> QED
    BY <1>2, <1>3, <1>5, <2>1, OneRowTyped
<1> QED
  BY <1>4, <1>5 DEF SetExtra

\* admin_add_user_to_org: the membership is new, or one that the request holds.
LEMMA AddToOrgTyped ==
    ASSUME TypeInv, NEW p \in Slots, AddToOrg(p), UNCHANGED accepted
    PROVE  TypeInv'
<1> DEFINE r == req[p]
<1> DEFINE now == member[r.user][r.org]
<1> DEFINE new == [role |-> r.role, approved |-> TRUE]
<1> DEFINE row == IF r.row = None THEN new ELSE Flush(r.row, new, now)
<1> DEFINE acc == [r.was EXCEPT !.active = TRUE]
<1>1. r # Idle /\ r.op \in Personal /\ r.op \in Placed
  BY DEF AddToOrg, Commits, Personal, Placed
<1>2. /\ r \in Request /\ r.user \in Users /\ r.org \in Orgs /\ Exists(r.user)
      /\ r.was \in Account /\ orgs[r.org] # None /\ (r.row # None => now # None)
  BY <1>1, PersonalCommit
<1>3. new \in Membership
  BY <1>2 DEF Request, Membership
<1>4. row \in Membership
  <2>1. now \in Membership \cup {None} /\ r.row \in Membership \cup {None}
    BY <1>2 DEF TypeInv, TypeOK, Request
  <2> QED
    BY <1>2, <1>3, <2>1, FlushedMembership
<1>5. CASE Fail(p)
  BY <1>5, FailTyped
<1>6. CASE /\ Accounted(p, acc) /\ UNCHANGED extra /\ Finish(p)
           /\ member' = [member EXCEPT ![r.user][r.org] = row]
  <2>1. acc \in Account /\ acc.org = r.was.org
    BY <1>2 DEF Account
  <2> HIDE DEF acc
  <2>2. /\ user' \in [Users -> Account \cup {None}]
        /\ \A v \in Users : user'[v] # None <=> Exists(v)
        /\ \A v \in Users, x \in Orgs : user'[v] # None /\ user'[v].org = x => orgs'[x] # None
        /\ UNCHANGED <<orgs, net, shares>>
    BY <1>2, <1>6, <2>1, AccountedTables
  <2>3. orgs' \in [Orgs -> BOOLEAN \cup {None}]
    BY <2>2 DEF TypeInv, TypeOK
  <2> DEFINE none == {}
  <2>4. none \in SUBSET Extras
    OBVIOUS
  <2> HIDE DEF r, row, none
  <2> QED
    BY <1>2, <1>4, <1>6, <2>2, <2>3, <2>4, OneRowTyped
<1> QED
  BY <1>5, <1>6 DEF AddToOrg

LEMMA ApproveMemberTyped ==
    ASSUME TypeInv, NEW p \in Slots, ApproveMember(p), UNCHANGED accepted
    PROVE  TypeInv'
<1> DEFINE r == req[p]
<1> DEFINE new == [r.row EXCEPT !.approved = TRUE]
<1> DEFINE row == Flush(r.row, new, member[r.user][r.org])
<1> DEFINE roles == extra[r.user][r.org] \cup r.extra
<1> DEFINE acc == [r.was EXCEPT !.active = TRUE]
<1>1. r # Idle /\ r.op \in Personal /\ r.op \in OnMember /\ r.op \in Placed
  BY DEF ApproveMember, Commits, Personal, Placed, OnMember
<1>2. /\ r \in Request /\ r.user \in Users /\ r.org \in Orgs /\ Exists(r.user) /\ r.was \in Account
      /\ orgs[r.org] # None /\ r.row # None /\ member[r.user][r.org] # None
  BY <1>1, PersonalCommit
<1>3. member[r.user][r.org] \in Membership /\ roles \in SUBSET Extras
  BY <1>2 DEF TypeInv, TypeOK, Request
<1>4. r.row \in Membership
  BY <1>2 DEF Request
<1>5. row \in Membership
  BY <1>3, <1>4, AmendedMembership, FlushedMembership
<1>6. CASE Fail(p)
  BY <1>6, FailTyped
<1>7. CASE /\ Accounted(p, acc) /\ Finish(p)
           /\ member' = [member EXCEPT ![r.user][r.org] = row]
           /\ extra' = [extra EXCEPT ![r.user][r.org] = roles]
  <2>1. acc \in Account /\ acc.org = r.was.org
    BY <1>2 DEF Account
  <2> HIDE DEF acc
  <2>2. /\ user' \in [Users -> Account \cup {None}]
        /\ \A v \in Users : user'[v] # None <=> Exists(v)
        /\ \A v \in Users, x \in Orgs : user'[v] # None /\ user'[v].org = x => orgs'[x] # None
        /\ UNCHANGED <<orgs, net, shares>>
    BY <1>2, <1>7, <2>1, AccountedTables
  <2>3. orgs' \in [Orgs -> BOOLEAN \cup {None}]
    BY <2>2 DEF TypeInv, TypeOK
  <2> HIDE DEF r, row, roles
  <2> QED
    BY <1>2, <1>3, <1>5, <1>7, <2>2, <2>3, OneRowTyped
<1> QED
  BY <1>6, <1>7 DEF ApproveMember

LEMMA SetOpenTyped ==
    ASSUME TypeInv, NEW p \in Slots, SetOpen(p), UNCHANGED accepted
    PROVE  TypeInv'
<1> DEFINE r == req[p]
<1>1. r # Idle /\ r.op \in Placed
  BY DEF SetOpen, Commits, Placed
<1>2. r \in Request /\ r.org \in Orgs /\ r.flag \in BOOLEAN
  BY <1>1, Committing DEF Shape, Request
<1>3. /\ orgs' = [orgs EXCEPT ![r.org] = r.flag]
      /\ UNCHANGED <<user, member, extra, net, shares>> /\ Finish(p)
  BY DEF SetOpen
<1> HIDE DEF r
<1>4. /\ orgs' \in [Orgs -> BOOLEAN \cup {None}]
      /\ \A o \in Orgs : orgs[o] # None => orgs'[o] # None
  BY <1>2, <1>3, NoneIsNoRow DEF TypeInv, TypeOK
<1>5. Grows
  BY <1>3, <1>4 DEF Grows, Exists
<1>6. \A u \in Users, o \in Orgs :
        /\ user'[u] # None /\ user'[u].org = o => orgs'[o] # None
        /\ member'[u][o] # None => user'[u] # None /\ orgs'[o] # None
        /\ extra'[u][o] # {} => member'[u][o] # None
  BY <1>3, <1>4 DEF TypeInv, TypeOK, Exists
<1>7. /\ user' \in [Users -> Account \cup {None}]
      /\ member' \in [Users -> [Orgs -> Membership \cup {None}]]
      /\ extra' \in [Users -> [Orgs -> SUBSET Extras]]
  BY <1>3 DEF TypeInv, TypeOK
<1> QED
  BY <1>3, <1>4, <1>5, <1>6, <1>7, RowsTyped

\* The organisation of one who comes by himself or is invited stands once it is founded.
LEMMA FoundedOrg ==
    ASSUME TypeInv, NEW r \in Request, r.org \in Orgs, Stands(r), Founded(r)
    PROVE  /\ orgs' \in [Orgs -> BOOLEAN \cup {None}]
           /\ \A o \in Orgs : orgs[o] # None => orgs'[o] # None
           /\ orgs'[r.org] # None
           /\ \A o \in Orgs : o # r.org => orgs'[o] = orgs[o]
<1>1. orgs \in [Orgs -> BOOLEAN \cup {None}]
  BY DEF TypeInv, TypeOK
<1>2. CASE r.flag
  <2>1. orgs' = [orgs EXCEPT ![r.org] = TRUE]
    BY <1>2 DEF Founded
  <2> QED
    BY <1>1, <2>1, NoneIsNoRow
<1>3. CASE ~r.flag
  <2>1. orgs[r.org] # None
    BY <1>3 DEF Stands
  <2>2. orgs' = [orgs EXCEPT ![r.org] = orgs[r.org]]
    BY <1>1, <1>3 DEF Founded
  <2> QED
    BY <1>1, <2>1, <2>2
<1> QED
  BY <1>2, <1>3

LEMMA CommitAccountTyped ==
    ASSUME TypeInv, NEW p \in Slots, CommitAccount(p), UNCHANGED accepted
    PROVE  TypeInv'
<1> DEFINE r == req[p]
<1> DEFINE new == [active |-> r.first \/ r.op = "invite", super |-> r.first, org |-> r.org]
<1> DEFINE op == IF r.op = "invite" THEN "invited" ELSE "registered"
<1> DEFINE s == [r EXCEPT !.op = op]
<1>1. r # Idle /\ r.op \in Newcomers
  BY DEF CommitAccount, Newcomers
<1>2. /\ r \in Request /\ r.user \in Users /\ r.org \in Orgs /\ r.row = None
      /\ r.first \in BOOLEAN /\ Shape(r)
  BY <1>1, Committing DEF Shape, Request
<1>3. CASE Fail(p)
  BY <1>3, FailTyped
<1>4. CASE /\ ~Exists(r.user) /\ Stands(r) /\ Founded(r)
           /\ user' = [user EXCEPT ![r.user] = new]
           /\ req' = [req EXCEPT ![p] = s]
           /\ UNCHANGED <<member, extra, net, shares>>
  <2>1. new \in Account
    <3>1. (r.first \/ r.op = "invite") \in BOOLEAN
      OBVIOUS
    <3> DEFINE active == r.first \/ r.op = "invite"
    <3> HIDE DEF active
    <3>2. [active |-> active, super |-> r.first, org |-> r.org] \in Account
      BY <1>2, <3>1 DEF Account, active
    <3> QED
      BY <3>2 DEF active
  <2>2. new.org = r.org
    OBVIOUS
  <2> HIDE DEF new
  <2>3. /\ orgs' \in [Orgs -> BOOLEAN \cup {None}]
        /\ \A o \in Orgs : orgs[o] # None => orgs'[o] # None
        /\ orgs'[r.org] # None
    BY <1>2, <1>4, FoundedOrg
  <2>4. s \in Request /\ s.op = op /\ s.user = r.user /\ s.org = r.org /\ s.row = None
        /\ s.first = r.first /\ s.pending = r.pending
    BY <1>2 DEF Request, Operations
  <2>5. op \in Halves /\ (r.first => op = "registered")
    BY <1>1, <1>2 DEF Halves, Shape, Newcomers
  <2> HIDE DEF s, op
  <2>6. /\ user' \in [Users -> Account \cup {None}]
        /\ \A u \in Users : user'[u] = IF u = r.user THEN new ELSE user[u]
    BY <1>2, <1>4, <2>1 DEF TypeInv, TypeOK
  <2>7. Grows /\ user'[r.user] # None
    BY <1>2, <1>4, <2>1, <2>3, <2>6, NoneIsNoRow DEF Grows, Exists
  <2>8. \A u \in Users, o \in Orgs :
          /\ user'[u] # None /\ user'[u].org = o => orgs'[o] # None
          /\ member'[u][o] # None => user'[u] # None /\ orgs'[o] # None
          /\ extra'[u][o] # {} => member'[u][o] # None
    <3> TAKE u \in Users, o \in Orgs
    <3>1. user'[u] # None /\ user'[u].org = o => orgs'[o] # None
      <4>1. CASE u = r.user
        BY <2>2, <2>3, <2>6, <4>1
      <4>2. CASE u # r.user
        BY <2>3, <2>6, <4>2 DEF TypeInv, TypeOK, Exists
      <4> QED
        BY <4>1, <4>2
    <3>2. member'[u][o] # None => user'[u] # None /\ orgs'[o] # None
      BY <1>4, <2>3, <2>7 DEF TypeInv, TypeOK, Grows
    <3> QED
      BY <1>4, <3>1, <3>2 DEF TypeInv, TypeOK
  <2>9. TypeOK'
    <3>1. /\ member' \in [Users -> [Orgs -> Membership \cup {None}]]
          /\ extra' \in [Users -> [Orgs -> SUBSET Extras]]
      BY <1>4 DEF TypeInv, TypeOK
    <3> QED
      BY <1>4, <2>3, <2>6, <2>7, <2>8, <3>1, TablesGrow DEF TypeInv
  <2>10. Shape(s) /\ Holds(user', orgs', member', net', s)
    <3>1. s.op \notin Personal /\ s.op \notin Newcomers /\ s.op \notin NetOps
          /\ s.op \notin OnMember /\ s.op \notin Removals /\ s.op # "join"
          /\ s.op # "approveUser"
      BY <2>4, <2>5 DEF Personal, Newcomers, NetOps, OnMember, Removals, Halves
    <3>2. Shape(s)
      BY <1>2, <2>4, <2>5, <3>1 DEF Shape
    <3> QED
      BY <2>3, <2>4, <2>7, <3>1, <3>2 DEF Holds
  <2>11. ASSUME NEW q \in Slots, NEW t \in Request, req'[q] = t
         PROVE  Shape(t) /\ Holds(user', orgs', member', net', t)
    <3>1. CASE q = p
      BY <1>4, <2>10, <2>11, <3>1 DEF TypeInv, ReqInv
    <3>2. CASE q # p
      <4>1. req[q] = t
        BY <1>4, <2>11, <3>2 DEF TypeInv, ReqInv
      <4> QED
        BY <2>7, <4>1, HoldsGrows DEF TypeInv, ReqInv
    <3> QED
      BY <3>1, <3>2
  <2>12. req' \in [Slots -> Request \cup {Idle}]
    BY <1>4, <2>4 DEF TypeInv, ReqInv
  <2> QED
    BY <2>9, <2>11, <2>12 DEF TypeInv, ReqInv
<1> QED
  BY <1>3, <1>4 DEF CommitAccount

LEMMA CommitMembershipTyped ==
    ASSUME TypeInv, NEW p \in Slots, CommitMembership(p), UNCHANGED accepted
    PROVE  TypeInv'
<1> DEFINE r == req[p]
<1> DEFINE yes == r.op = "invited" \/ r.first \/ r.flag
<1> DEFINE row == [role |-> r.role, approved |-> yes]
<1> DEFINE roles == IF r.op = "invited" /\ r.role # "admin" THEN {Default} ELSE {}
<1>1. r # Idle /\ r.op \in Halves
  BY DEF CommitMembership, HalfDone, Halves
<1>2. /\ r \in Request /\ r.user \in Users /\ r.org \in Orgs
      /\ Exists(r.user) /\ orgs[r.org] # None
  BY <1>1, Committing DEF Shape, Holds, Placed, Exists
<1>3. yes \in BOOLEAN /\ roles \in SUBSET Extras
  BY AccessAssumption
<1>4. CASE Fail(p)
  BY <1>4, FailTyped
<1>5. CASE /\ Insert(r, row, roles) /\ Finish(p)
           /\ UNCHANGED <<user, orgs, net, shares>>
  <2> HIDE DEF yes
  <2>1. row \in Membership
    BY <1>2, <1>3 DEF Membership, Request
  <2> HIDE DEF r, row, roles
  <2>2. /\ user' \in [Users -> Account \cup {None}]
        /\ \A v \in Users : user'[v] # None <=> Exists(v)
        /\ \A v \in Users, x \in Orgs : user'[v] # None /\ user'[v].org = x => orgs'[x] # None
        /\ orgs' \in [Orgs -> BOOLEAN \cup {None}]
    BY <1>5 DEF TypeInv, TypeOK, Exists
  <2> QED
    BY <1>2, <1>3, <1>5, <2>1, <2>2, OneRowTyped DEF Insert
<1> QED
  BY <1>4, <1>5 DEF CommitMembership

LEMMA CommitJoinTyped ==
    ASSUME TypeInv, NEW p \in Slots, CommitJoin(p), UNCHANGED accepted
    PROVE  TypeInv'
<1> DEFINE r == req[p]
<1> DEFINE row == [role |-> IF r.flag THEN "admin" ELSE "member", approved |-> FALSE]
<1> DEFINE none == {}
<1>1. r # Idle /\ r.op = "join" /\ r.op \in Personal
  BY DEF CommitJoin, Commits, Personal
<1>2. r \in Request /\ r.user \in Users /\ r.org \in Orgs /\ Exists(r.user)
  BY <1>1, PersonalCommit, Committing DEF Shape
<1>3. row \in Membership /\ none \in SUBSET Extras
  BY DEF Membership
<1>4. CASE Fail(p)
  BY <1>4, FailTyped
<1>5. CASE /\ Stands(r) /\ Insert(r, row, none) /\ Founded(r) /\ Finish(p)
           /\ UNCHANGED <<user, net, shares>>
  <2>1. /\ orgs' \in [Orgs -> BOOLEAN \cup {None}]
        /\ \A o \in Orgs : orgs[o] # None => orgs'[o] # None
        /\ orgs'[r.org] # None
    BY <1>2, <1>5, FoundedOrg
  <2> HIDE DEF r, row, none
  <2>2. /\ user' \in [Users -> Account \cup {None}]
        /\ \A v \in Users : user'[v] # None <=> Exists(v)
        /\ \A v \in Users, x \in Orgs : user'[v] # None /\ user'[v].org = x => orgs'[x] # None
    BY <1>5, <2>1 DEF TypeInv, TypeOK, Exists
  <2> QED
    BY <1>2, <1>3, <1>5, <2>1, <2>2, OneRowTyped DEF Insert
<1> QED
  BY <1>4, <1>5 DEF CommitJoin

\* A commit that deletes rows drops the requests that hold them.
LEMMA CommitDrops ==
    ASSUME TypeInv, TypeOK', UNCHANGED accepted, NEW lost, Drop(lost),
           \A q \in Slots, s \in Request :
              req[q] = s /\ q \notin lost => Holds(user', orgs', member', net', s)
    PROVE  TypeInv'
<1>1. ASSUME NEW q \in Slots, NEW s \in Request, req'[q] = s
      PROVE  Shape(s) /\ Holds(user', orgs', member', net', s)
  <2>1. req[q] = s /\ q \notin lost
    BY <1>1, Dropped
  <2> QED
    BY <2>1 DEF TypeInv, ReqInv
<1> QED
  BY <1>1, Dropped DEF TypeInv, ReqInv

LEMMA RejectMemberTyped ==
    ASSUME TypeInv, NEW p \in Slots, RejectMember(p), UNCHANGED accepted
    PROVE  TypeInv'
<1> DEFINE r == req[p]
<1> DEFINE none == {}
<1> DEFINE V == Membership \cup {None}
<1> DEFINE W == SUBSET Extras
<1>1. r # Idle /\ r.op \in Personal /\ r.op \in OnMember /\ r.op \in Placed
  BY DEF RejectMember, Commits, Personal, Placed, OnMember
<1>2. r \in Request /\ r.user \in Users /\ r.org \in Orgs
  BY <1>1, PersonalCommit
<1>3. /\ member' = [member EXCEPT ![r.user][r.org] = None]
      /\ extra' = [extra EXCEPT ![r.user][r.org] = none]
      /\ Drop({p} \cup Holding(p, r.user, {r.org}))
      /\ UNCHANGED <<user, orgs, net, shares>>
  BY DEF RejectMember
<1>4. /\ member \in [Users -> [Orgs -> V]] /\ extra \in [Users -> [Orgs -> W]]
      /\ None \in V /\ none \in W
  BY DEF TypeInv, TypeOK
<1> HIDE DEF V, W, none
<1>5. /\ member' \in [Users -> [Orgs -> V]]
      /\ \A u \in Users, o \in Orgs :
            member'[u][o] = IF u = r.user /\ o = r.org THEN None ELSE member[u][o]
  BY <1>2, <1>3, <1>4, CellWritten
<1>6. /\ extra' \in [Users -> [Orgs -> W]]
      /\ \A u \in Users, o \in Orgs :
            extra'[u][o] = IF u = r.user /\ o = r.org THEN none ELSE extra[u][o]
  BY <1>2, <1>3, <1>4, CellWritten
<1>7. \A u \in Users, o \in Orgs :
        /\ member'[u][o] # None => member[u][o] # None
        /\ extra'[u][o] # {} => extra[u][o] # {} /\ member'[u][o] = member[u][o]
  BY <1>5, <1>6 DEF none
<1>8. TypeOK'
  <2>1. /\ member' \in [Users -> [Orgs -> Membership \cup {None}]]
        /\ extra' \in [Users -> [Orgs -> SUBSET Extras]]
    BY <1>5, <1>6 DEF V, W
  <2>2. \A u \in Users, o \in Orgs :
          /\ member'[u][o] # None => Exists(u)' /\ orgs'[o] # None
          /\ extra'[u][o] # {} => member'[u][o] # None
          /\ Exists(u)' /\ user'[u].org = o => orgs'[o] # None
    BY <1>3, <1>7 DEF TypeInv, TypeOK, Exists
  <2> QED
    BY <1>3, <2>1, <2>2 DEF TypeInv, TypeOK, Exists
<1> DEFINE lost == {p} \cup Holding(p, r.user, {r.org})
<1>9. ASSUME NEW q \in Slots, NEW s \in Request, req[q] = s, q \notin lost
      PROVE  Holds(user', orgs', member', net', s)
  <2>1. Shape(s) /\ Holds(user, orgs, member, net, s)
    BY <1>9 DEF TypeInv, ReqInv
  <2>2. q # p /\ s # Idle
    BY <1>9, IdleIsNoRequest
  <2>3. /\ s.user = r.user /\ s.row # None => s.org # r.org
        /\ s.user = r.user /\ s.op = "approveUser" => r.org \notin s.pending
    BY <1>9, <2>2 DEF Holding
  <2>4. s.row # None => member'[s.user][s.org] # None
    BY <1>5, <2>1, <2>3 DEF Holds
  <2>5. s.op = "approveUser" => \A o \in s.pending : member'[s.user][o] # None
    <3>1. s.op = "approveUser" => s.user \in Users /\ s.pending \subseteq Orgs
      BY <2>1 DEF Shape, Personal, Request
    <3> QED
      BY <1>5, <2>1, <2>3, <3>1 DEF Holds
  <2> QED
    BY <1>3, <2>1, <2>4, <2>5 DEF Holds
<1> HIDE DEF lost
<1>10. Drop(lost)
  BY <1>3 DEF lost
<1> QED
  BY <1>8, <1>9, <1>10, CommitDrops

LEMMA CommitNetTyped ==
    ASSUME TypeInv, NEW p \in Slots, CommitNet(p), UNCHANGED accepted
    PROVE  TypeInv'
<1> DEFINE r == req[p]
<1>1. r \in Request /\ Shape(r) /\ Holds(user, orgs, member, net, r)
      /\ UNCHANGED <<user, orgs, member, extra>>
  BY Committing DEF CommitNet
<1>2. net # None => net \in Net /\ Exists(net.owner) /\ (net.org # None => orgs[net.org] # None)
  BY DEF TypeInv, TypeOK
<1>3. ASSUME net' \in Net, Exists(net'.owner), net'.org # None => orgs[net'.org] # None,
             UNCHANGED shares, Finish(p)
      PROVE  TypeInv'
  <2>1. TypeOK'
    BY <1>1, <1>3, NoneIsNoRow DEF TypeInv, TypeOK, Exists
  <2>2. Grows
    BY <1>1, <1>3, NoneIsNoRow DEF Grows, Exists
  <2> DEFINE lost == {p}
  <2>3. Drop(lost) /\ UNCHANGED accepted
    BY <1>3 DEF Finish
  <2> HIDE DEF lost
  <2> QED
    BY <2>1, <2>2, <2>3, CommitGrows
<1>4. CASE r.op = "createNet" /\ net' = [owner |-> r.user, org |-> r.org]
           /\ UNCHANGED shares /\ Finish(p)
  <2>1. r.user \in Users /\ Exists(r.user) /\ r.org \in Orgs /\ orgs[r.org] # None
    BY <1>1, <1>4 DEF Shape, Holds, Exists, Personal, Placed
  <2>2. net' \in Net /\ net'.owner = r.user /\ net'.org = r.org
    BY <1>4, <2>1 DEF Net
  <2> QED
    BY <1>3, <1>4, <2>1, <2>2
<1>5. CASE r.op = "transfer" /\ net' = [net EXCEPT !.owner = r.user]
           /\ UNCHANGED shares /\ Finish(p)
  <2>1. r.user \in Users /\ Exists(r.user) /\ net # None
    BY <1>1, <1>5 DEF Shape, Holds, Exists, Personal, NetOps
  <2>2. net' \in Net /\ net'.owner = r.user /\ net'.org = net.org
    BY <1>2, <1>5, <2>1 DEF Net
  <2> QED
    BY <1>2, <1>3, <1>5, <2>1, <2>2
<1>6. CASE r.op = "moveNet" /\ net' = [net EXCEPT !.org = r.org]
           /\ UNCHANGED shares /\ Finish(p)
  <2>1. r.org \in Orgs /\ orgs[r.org] # None /\ net # None
    BY <1>1, <1>6 DEF Shape, Holds, Placed, NetOps
  <2>2. net' \in Net /\ net'.owner = net.owner /\ net'.org = r.org
    BY <1>2, <1>6, <2>1 DEF Net
  <2> QED
    BY <1>2, <1>3, <1>6, <2>1, <2>2
<1>7. CASE /\ net' = None /\ shares' = {}
           /\ Drop({p} \cup {q \in Slots : req[q] # Idle /\ req[q].op \in NetOps})
  <2>1. TypeOK'
    BY <1>1, <1>7 DEF TypeInv, TypeOK, Exists
  <2>2. \A q \in Slots, s \in Request :
          req[q] = s /\ s.op \notin NetOps => Holds(user', orgs', member', net', s)
    BY <1>1 DEF TypeInv, ReqInv, Holds
  <2> DEFINE lost == {p} \cup {q \in Slots : req[q] # Idle /\ req[q].op \in NetOps}
  <2>3. \A q \in Slots, s \in Request : req[q] = s /\ q \notin lost => s.op \notin NetOps
    BY IdleIsNoRequest
  <2>4. Drop(lost)
    BY <1>7
  <2>5. \A q \in Slots, s \in Request :
          req[q] = s /\ q \notin lost => Holds(user', orgs', member', net', s)
    BY <2>2, <2>3
  <2> HIDE DEF lost, r
  <2> QED
    BY <2>1, <2>4, <2>5, CommitDrops
<1> HIDE DEF r
<1> QED
  BY <1>4, <1>5, <1>6, <1>7 DEF CommitNet, r

LEMMA RowsOfAnUpdate ==
    ASSUME TypeInv, NEW r \in Request
    PROVE  /\ Rows(r) \subseteq Share
           /\ \A s \in Rows(r) : /\ s.began = r.at /\ s.made = accepted
                                 /\ \E e \in r.config : s.user = e.user
<1>1. r.config \subseteq Entry /\ r.at \in Nat /\ accepted \in Nat
  BY DEF Request, TypeInv
<1>2. ASSUME NEW e \in r.config
      PROVE  [user |-> e.user, edit |-> e.edit, began |-> r.at, made |-> accepted,
              roles |-> IF e.user = None THEN e.roles ELSE e.roles \cap RoleSet(e.user, r.org)]
             \in Share
  <2>1. e \in Entry
    BY <1>1
  <2> DEFINE some == IF e.user = None THEN e.roles ELSE e.roles \cap RoleSet(e.user, r.org)
  <2>2. some \in SUBSET NetRoles
    BY <2>1 DEF Entry
  <2> HIDE DEF some
  <2>3. [user |-> e.user, edit |-> e.edit, began |-> r.at, made |-> accepted, roles |-> some]
        \in Share
    BY <1>1, <2>1, <2>2 DEF Entry, Share
  <2> QED
    BY <2>3 DEF some
<1> QED
  BY <1>2 DEF Rows

LEMMA CommitSharesTyped ==
    ASSUME TypeInv, NEW p \in Slots, CommitShares(p), UNCHANGED accepted
    PROVE  TypeInv'
<1> DEFINE r == req[p]
<1>1. r \in Request /\ Holds(user, orgs, member, net, r) /\ r.op = "shares"
  BY Committing DEF CommitShares, Commits
<1>2. net # None
  BY <1>1 DEF Holds, NetOps
<1>3. CASE Fail(p)
  BY <1>3, FailTyped
<1>4. CASE /\ Fits(r, shares \ r.seen) /\ shares' = (shares \ r.seen) \cup Rows(r)
           /\ UNCHANGED <<user, orgs, member, extra, net>> /\ Finish(p)
  <2>1. \A s \in shares' : s \in Share /\ (s.user # None => Exists(s.user))
    <3> TAKE s \in shares'
    <3>1. CASE s \in shares
      BY <3>1 DEF TypeInv, TypeOK
    <3>2. CASE s \in Rows(r)
      <4>1. PICK e \in r.config : s.user = e.user
        BY <1>1, <3>2, RowsOfAnUpdate
      <4> QED
        BY <1>1, <1>4, <3>2, <4>1, RowsOfAnUpdate DEF Fits
    <3> QED
      BY <1>4, <3>1, <3>2
  <2>2. TypeOK'
    BY <1>2, <1>4, <2>1 DEF TypeInv, TypeOK, Exists
  <2>3. Grows
    BY <1>4 DEF Grows, Exists
  <2> QED
    BY <1>4, <2>2, <2>3, CommitGrows DEF Finish
<1> QED
  BY <1>3, <1>4 DEF CommitShares

(***************************************************************************)
(* An account leaves: its memberships are deleted, and the organisations   *)
(* that are left without any.                                              *)
(***************************************************************************)

\* What Leave is called with.
Leaving(u, keeps, rows) ==
    /\ u \in Users /\ Exists(u)
    /\ keeps \in Account \cup {None} /\ rows \in [Orgs -> Membership \cup {None}]
    /\ \A o \in Orgs : rows[o] # None => orgs[o] # None /\ keeps # None
    /\ keeps # None /\ keeps.org \in Orgs => orgs[keeps.org] # None

Left(u, rows) == [member EXCEPT ![u] = rows]

LEMMA LeftRows ==
    ASSUME TypeInv, NEW u, NEW keeps, NEW rows, Leaving(u, keeps, rows)
    PROVE  /\ Left(u, rows) \in [Users -> [Orgs -> Membership \cup {None}]]
           /\ \A v \in Users, o \in Orgs :
                 Left(u, rows)[v][o] = IF v = u THEN rows[o] ELSE member[v][o]
BY DEF TypeInv, TypeOK, Leaving, Left

\* The organisations that go are those where u was the last.
LEMMA GoneOrgs ==
    ASSUME TypeInv, NEW u, NEW keeps, NEW rows, Leaving(u, keeps, rows)
    PROVE  /\ Emptied(u, Left(u, rows)) \subseteq Orgs
           /\ \A o \in Emptied(u, Left(u, rows)) :
                 member[u][o] # None /\ \A v \in Users : Left(u, rows)[v][o] = None
           /\ \A o \in Orgs : member[u][o] # None /\ o \notin Emptied(u, Left(u, rows)) =>
                 \E v \in Users : Left(u, rows)[v][o] # None
BY DEF Emptied

LEMMA LeaveTables ==
    ASSUME TypeInv, NEW p \in Slots, NEW u, NEW keeps, NEW rows, Leaving(u, keeps, rows),
           Leave(p, u, keeps, rows), NEW gone, gone = Emptied(u, Left(u, rows))
    PROVE  /\ member' = Left(u, rows)
           /\ orgs' \in [Orgs -> BOOLEAN \cup {None}]
           /\ \A o \in Orgs : orgs'[o] = IF o \in gone THEN None ELSE orgs[o]
           /\ user' \in [Users -> Account \cup {None}]
           /\ \A v \in Users :
                 /\ v # u => (user'[v] # None <=> Exists(v))
                 /\ v # u /\ Exists(v) => /\ user'[v].active = user[v].active
                                          /\ user'[v].super = user[v].super
                                          /\ user'[v].org \in {user[v].org, None}
                                          /\ user'[v].org \notin gone
           /\ user'[u] # None <=> keeps # None
           /\ keeps # None => /\ user'[u].active = keeps.active
                              /\ user'[u].super = keeps.super
                              /\ user'[u].org \in {keeps.org, None}
                              /\ user'[u].org \notin gone
           /\ extra' \in [Users -> [Orgs -> SUBSET Extras]]
           /\ \A v \in Users, o \in Orgs :
                 /\ v # u => extra'[v][o] = extra[v][o]
                 /\ extra'[u][o] # {} => rows[o] # None
           /\ firsts' = {f \in firsts : f.org \notin gone}
<1>1. /\ user \in [Users -> Account \cup {None}] /\ orgs \in [Orgs -> BOOLEAN \cup {None}]
      /\ extra \in [Users -> [Orgs -> SUBSET Extras]] /\ Default \in Extras
  BY AccessAssumption DEF TypeInv, TypeOK
<1>2. /\ u \in Users /\ keeps \in Account \cup {None} /\ rows \in [Orgs -> Membership \cup {None}]
  BY DEF Leaving
<1>3. gone \subseteq Orgs /\ None \notin gone
  BY GoneOrgs, NoneIsNoRow
<1>4. member' = Left(u, rows)
  BY DEF Leave, Left
<1>5. orgs' = [o \in Orgs |-> IF o \in gone THEN None ELSE orgs[o]]
  BY DEF Leave, Left
<1>6. /\ orgs' \in [Orgs -> BOOLEAN \cup {None}]
      /\ \A o \in Orgs : orgs'[o] = IF o \in gone THEN None ELSE orgs[o]
  BY <1>1, <1>5
<1> DEFINE Kept(v) == IF v = u THEN keeps ELSE user[v]
<1> DEFINE Bared(a) == IF a # None /\ a.org \in gone THEN [a EXCEPT !.org = None] ELSE a
<1>7. user' = [v \in Users |-> Bared(Kept(v))]
  BY DEF Leave, Left
<1>8. \A a \in Account : /\ Bared(a) \in Account
                         /\ Bared(a).active = a.active /\ Bared(a).super = a.super
                         /\ Bared(a).org \in {a.org, None} /\ Bared(a).org \notin gone
  BY <1>3, NoneIsNoRow DEF Account
<1>9. Bared(None) = None
  OBVIOUS
<1>10. \A v \in Users : Kept(v) \in Account \cup {None}
  BY <1>1, <1>2
<1>11. \A v \in Users : v # u => Kept(v) = user[v]
  OBVIOUS
<1>12. Kept(u) = keeps
  OBVIOUS
<1> HIDE DEF Kept, Bared
<1>13. /\ user' \in [Users -> Account \cup {None}]
       /\ \A v \in Users : user'[v] = Bared(Kept(v))
  BY <1>7, <1>8, <1>9, <1>10
<1>14. \A v \in Users : /\ user'[v] # None <=> Kept(v) # None
                        /\ Kept(v) # None => /\ user'[v].active = Kept(v).active
                                             /\ user'[v].super = Kept(v).super
                                             /\ user'[v].org \in {Kept(v).org, None}
                                             /\ user'[v].org \notin gone
  BY <1>8, <1>9, <1>10, <1>13, NoneIsNoRow
<1>15. /\ \A v \in Users :
             /\ v # u => (user'[v] # None <=> Exists(v))
             /\ v # u /\ Exists(v) => /\ user'[v].active = user[v].active
                                      /\ user'[v].super = user[v].super
                                      /\ user'[v].org \in {user[v].org, None}
                                      /\ user'[v].org \notin gone
       /\ user'[u] # None <=> keeps # None
       /\ keeps # None => /\ user'[u].active = keeps.active
                          /\ user'[u].super = keeps.super
                          /\ user'[u].org \in {keeps.org, None}
                          /\ user'[u].org \notin gone
  BY <1>2, <1>11, <1>12, <1>14 DEF Exists
<1> DEFINE roles == [o \in Orgs |-> IF rows[o] # None /\ rows[o].role # "admin" THEN {Default} ELSE {}]
<1>16. /\ roles \in [Orgs -> SUBSET Extras]
       /\ \A o \in Orgs : roles[o] # {} => rows[o] # None
  BY <1>1
<1>17. extra' = [extra EXCEPT ![u] = roles]
  BY DEF Leave
<1> HIDE DEF roles
<1>18. /\ extra' \in [Users -> [Orgs -> SUBSET Extras]]
       /\ \A v \in Users, o \in Orgs :
             /\ v # u => extra'[v][o] = extra[v][o]
             /\ extra'[u][o] # {} => rows[o] # None
  BY <1>1, <1>2, <1>16, <1>17
<1>19. firsts' = {f \in firsts : f.org \notin gone}
  BY DEF Leave, Left
<1> QED
  BY <1>4, <1>6, <1>13, <1>15, <1>18, <1>19

\* The net goes with its owner.
Bare(u, keeps) == net # None /\ net.owner = u /\ keeps = None

\* Who is thrown out by it.
Losing(p, u, keeps, gone) ==
    Holding(p, u, Orgs) \cup
    {q \in Slots \ {p} : /\ req[q] # Idle
                         /\ \/ req[q].user = u /\ keeps = None
                            \/ /\ req[q].org \in gone /\ q \notin Founding
                               /\ req[q].op \notin NetOps \ {"moveNet"}
                            \/ Bare(u, keeps) /\ req[q].op \in NetOps}

\* What becomes of the net and its shares.
NetLeft(u, keeps, gone) ==
    /\ Bare(u, keeps) => net' = None /\ shares' = {}
    /\ ~Bare(u, keeps) /\ net # None =>
          /\ net' \in Net /\ net'.owner = net.owner
          /\ net'.org \in {net.org, None} /\ net'.org \notin gone
    /\ net = None => net' = None
    /\ shares' \subseteq shares
    /\ \A s \in shares' : s.user = u => keeps # None

Outside(p, u, keeps, gone) ==
    /\ Drop({p} \cup Losing(p, u, keeps, gone))
    /\ loose' = (loose \cup Among(HalfDone \cap Losing(p, u, keeps, gone))) \ (gone \cup {u})
    /\ NetLeft(u, keeps, gone)

LEMMA LeaveNet ==
    ASSUME TypeInv, NEW p \in Slots, NEW u, NEW keeps, NEW rows, Leaving(u, keeps, rows),
           Leave(p, u, keeps, rows)
    PROVE  Outside(p, u, keeps, Emptied(u, Left(u, rows)))
<1> DEFINE gone == Emptied(u, Left(u, rows))
<1>1. /\ Drop({p} \cup Losing(p, u, keeps, gone))
      /\ loose' = (loose \cup Among(HalfDone \cap Losing(p, u, keeps, gone))) \ (gone \cup {u})
  BY DEF Leave, Left, Losing, Bare
<1> DEFINE bare == Bare(u, keeps)
<1>2. /\ net' = IF bare THEN None
                ELSE IF net # None /\ net.org \in gone THEN [net EXCEPT !.org = None] ELSE net
      /\ shares' = IF bare THEN {} ELSE {s \in shares : keeps = None => s.user # u}
  BY DEF Leave, Left, Bare
<1>3. net # None => net \in Net
  BY Present
<1>4. None \notin gone
  BY GoneOrgs, NoneIsNoRow
<1> HIDE DEF gone
<1>5. ASSUME bare PROVE NetLeft(u, keeps, gone)
  BY <1>2, <1>5 DEF Bare, NetLeft
<1>6. ASSUME ~bare PROVE NetLeft(u, keeps, gone)
  <2>1. net # None => /\ net' \in Net /\ net'.owner = net.owner
                      /\ net'.org \in {net.org, None} /\ net'.org \notin gone
    <3>1. CASE net # None /\ net.org \in gone
      BY <1>2, <1>3, <1>4, <1>6, <3>1 DEF Net
    <3>2. CASE net # None /\ net.org \notin gone
      BY <1>2, <1>3, <1>6, <3>2
    <3> QED
      BY <3>1, <3>2
  <2>2. net = None => net' = None
    BY <1>2, <1>6
  <2>3. shares' \subseteq shares /\ (keeps = None => \A s \in shares' : s.user # u)
    BY <1>2, <1>6
  <2> QED
    BY <1>6, <2>1, <2>2, <2>3 DEF NetLeft
<1> QED
  BY <1>1, <1>5, <1>6 DEF Outside, gone

LEMMA LeaveTyped ==
    ASSUME TypeInv, NEW p \in Slots, NEW u, NEW keeps, NEW rows, Leaving(u, keeps, rows),
           Leave(p, u, keeps, rows), UNCHANGED accepted
    PROVE  TypeInv'
<1>1. PICK gone : gone = Emptied(u, Left(u, rows))
  OBVIOUS
<1>2. /\ member' = Left(u, rows)
      /\ orgs' \in [Orgs -> BOOLEAN \cup {None}]
      /\ \A o \in Orgs : orgs'[o] = IF o \in gone THEN None ELSE orgs[o]
      /\ user' \in [Users -> Account \cup {None}]
      /\ \A v \in Users :
            /\ v # u => (user'[v] # None <=> Exists(v))
            /\ v # u /\ Exists(v) => user'[v].org \in {user[v].org, None} /\ user'[v].org \notin gone
      /\ user'[u] # None <=> keeps # None
      /\ keeps # None => user'[u].org \in {keeps.org, None} /\ user'[u].org \notin gone
      /\ extra' \in [Users -> [Orgs -> SUBSET Extras]]
      /\ \A v \in Users, o \in Orgs :
            /\ v # u => extra'[v][o] = extra[v][o]
            /\ extra'[u][o] # {} => rows[o] # None
  BY <1>1, LeaveTables
<1>3. /\ gone \subseteq Orgs
      /\ \A o \in gone : member[u][o] # None /\ \A v \in Users : member'[v][o] = None
  BY <1>1, <1>2, GoneOrgs
<1>4. /\ member' \in [Users -> [Orgs -> Membership \cup {None}]]
      /\ \A v \in Users, o \in Orgs : member'[v][o] = IF v = u THEN rows[o] ELSE member[v][o]
  BY <1>2, LeftRows
<1>5. /\ Drop({p} \cup Losing(p, u, keeps, gone))
      /\ Bare(u, keeps) => net' = None /\ shares' = {}
      /\ ~Bare(u, keeps) /\ net # None =>
            /\ net' \in Net /\ net'.owner = net.owner
            /\ net'.org \in {net.org, None} /\ net'.org \notin gone
      /\ net = None => net' = None
      /\ shares' \subseteq shares
      /\ \A s \in shares' : s.user = u => keeps # None
  <2>1. Outside(p, u, keeps, gone)
    BY <1>1, LeaveNet
  <2> QED
    BY <2>1 DEF Outside, NetLeft
<1>6. /\ u \in Users /\ Exists(u)
      /\ \A o \in Orgs : rows[o] # None => orgs[o] # None /\ keeps # None
      /\ keeps # None /\ keeps.org \in Orgs => orgs[keeps.org] # None
  BY DEF Leaving
<1>7. \A v \in Users, o \in Orgs :
        /\ member'[v][o] # None => user'[v] # None /\ orgs'[o] # None
        /\ extra'[v][o] # {} => member'[v][o] # None
        /\ user'[v] # None /\ user'[v].org = o => orgs'[o] # None
  <2> TAKE v \in Users, o \in Orgs
  <2>1. /\ member[v][o] # None => Exists(v) /\ orgs[o] # None
        /\ extra[v][o] # {} => member[v][o] # None
        /\ Exists(v) /\ user[v].org = o => orgs[o] # None
    BY DEF TypeInv, TypeOK
  <2>2. member'[v][o] # None => o \notin gone
    BY <1>3
  <2>3. CASE v = u
    BY <1>2, <1>4, <1>6, <2>2, <2>3, NoneIsNoRow
  <2>4. CASE v # u
    BY <1>2, <1>4, <2>1, <2>2, <2>4, NoneIsNoRow
  <2> QED
    BY <2>3, <2>4
<1>8. /\ net' \in Net \cup {None}
      /\ net' # None => user'[net'.owner] # None /\ (net'.org # None => orgs'[net'.org] # None)
  <2>1. net # None => /\ Exists(net.owner) /\ net \in Net
                      /\ net.org # None => orgs[net.org] # None
    BY DEF TypeInv, TypeOK
  <2>2. net # None => net.owner \in Users /\ net.org \in Orgs \cup {None}
    BY <2>1 DEF Net
  <2>3. CASE Bare(u, keeps)
    BY <1>5, <2>3
  <2>4. CASE ~Bare(u, keeps)
    BY <1>2, <1>5, <2>1, <2>2, <2>4 DEF Bare
  <2> QED
    BY <2>3, <2>4
<1>9. shares' \subseteq Share /\ \A s \in shares' : net' # None /\ (s.user # None => user'[s.user] # None)
  <2>1. \A s \in shares : s \in Share /\ net # None /\ (s.user # None => Exists(s.user))
    BY DEF TypeInv, TypeOK
  <2>2. \A s \in shares : s.user # None => s.user \in Users
    BY <2>1 DEF Share
  <2>3. CASE Bare(u, keeps)
    BY <1>5, <2>3
  <2>4. CASE ~Bare(u, keeps)
    BY <1>2, <1>5, <2>1, <2>2, <2>4, NoneIsNoRow DEF Bare
  <2> QED
    BY <2>3, <2>4
<1>10. TypeOK'
  BY <1>2, <1>4, <1>7, <1>8, <1>9 DEF TypeOK, Exists
<1> DEFINE lost == {p} \cup Losing(p, u, keeps, gone)
<1>11. ASSUME NEW q \in Slots, NEW s \in Request, req[q] = s, q \notin lost
       PROVE  Holds(user', orgs', member', net', s)
  <2>1. Shape(s) /\ Holds(user, orgs, member, net, s) /\ s # Idle
    BY <1>11, IdleIsNoRequest DEF TypeInv, ReqInv
  <2>2. /\ ~(s.user = u /\ s.row # None /\ s.org \in Orgs)
        /\ ~(s.user = u /\ s.op = "approveUser" /\ s.pending \cap Orgs # {})
    BY <1>11, <2>1 DEF Losing, Holding
  <2>3. /\ ~(s.user = u /\ keeps = None)
        /\ s.org \in gone => q \in Founding \/ s.op \in NetOps \ {"moveNet"}
        /\ ~(Bare(u, keeps) /\ s.op \in NetOps)
    BY <1>11, <2>1 DEF Losing
  <2>4. s.op \in Personal \cup Halves => user'[s.user] # None
    BY <1>2, <2>1, <2>3 DEF Shape, Holds, Exists
  <2>5. s.op \in Placed => orgs'[s.org] # None
    <3>1. s.op \in Placed => s.op \notin NetOps \ {"moveNet"} /\ q \notin Founding
      BY <1>11 DEF Founding, Placed, NetOps, OnMember, Halves
    <3> QED
      BY <1>2, <2>1, <2>3, <3>1 DEF Shape, Holds
  <2>6. s.row # None => s.user \in Users /\ s.org \in Orgs /\ member'[s.user][s.org] # None
    BY <1>4, <2>1, <2>2 DEF Holds
  <2>7. s.op = "approveUser" => \A o \in s.pending : member'[s.user][o] # None
    <3>1. s.op = "approveUser" => s.user \in Users /\ s.pending \subseteq Orgs
      BY <2>1 DEF Shape, Personal, Request
    <3> QED
      BY <1>4, <2>1, <2>2, <3>1 DEF Holds
  <2>8. s.op \in NetOps => net' # None
    BY <1>5, <2>1, <2>3, NoneIsNoRow DEF Holds
  <2> QED
    BY <2>4, <2>5, <2>6, <2>7, <2>8 DEF Holds
<1> HIDE DEF lost
<1>12. Drop(lost)
  BY <1>5 DEF lost
<1> QED
  BY <1>10, <1>11, <1>12, CommitDrops

\* admin_delete_user, admin_reject_user
LEMMA DeleteUserLeaves ==
    ASSUME TypeInv, NEW p \in Slots, DeleteUser(p)
    PROVE  /\ Leaving(req[p].user, None, NoRows)
           /\ Leave(p, req[p].user, None, NoRows)
<1> DEFINE r == req[p]
<1>1. r # Idle /\ r.op \in Personal
  BY DEF DeleteUser, Commits, Personal, Removals
<1>2. r.user \in Users /\ Exists(r.user)
  BY <1>1, PersonalCommit
<1>3. NoRows \in [Orgs -> Membership \cup {None}] /\ \A o \in Orgs : NoRows[o] = None
  BY DEF NoRows
<1> QED
  BY <1>2, <1>3 DEF Leaving, DeleteUser

\* What admin_reassign_user_org leaves of the account and its memberships.
MovedAccount(r) == Saved(r, [r.was EXCEPT !.active = TRUE, !.org = r.org])

MovedRows(r) == [NoRows EXCEPT ![r.org] = [role |-> r.role, approved |-> TRUE]]

LEMMA MoveUserLeaves ==
    ASSUME TypeInv, NEW p \in Slots, MoveUser(p)
    PROVE  /\ Leaving(req[p].user, MovedAccount(req[p]), MovedRows(req[p]))
           /\ Leave(p, req[p].user, MovedAccount(req[p]), MovedRows(req[p]))
           /\ user[req[p].user].active => MovedAccount(req[p]).active
           /\ user[req[p].user].super => MovedAccount(req[p]).super
           /\ MovedRows(req[p])[req[p].org] # None
<1> DEFINE r == req[p]
<1> DEFINE new == [r.was EXCEPT !.active = TRUE, !.org = r.org]
<1> DEFINE row == [role |-> r.role, approved |-> TRUE]
<1>1. r # Idle /\ r.op \in Personal /\ r.op \in Placed
  BY DEF MoveUser, Commits, Personal, Placed
<1>2. /\ r \in Request /\ r.user \in Users /\ r.org \in Orgs /\ Exists(r.user)
      /\ r.was \in Account /\ orgs[r.org] # None
  BY <1>1, PersonalCommit
<1>3. new \in Account /\ new.org = r.org /\ new.active = TRUE /\ new.super = r.was.super
  BY <1>2 DEF Account
<1>4. row \in Membership
  BY <1>2 DEF Request, Membership
<1>5. /\ NoRows \in [Orgs -> Membership \cup {None}] /\ \A o \in Orgs : NoRows[o] = None
      /\ MovedRows(r) = [NoRows EXCEPT ![r.org] = row] /\ MovedAccount(r) = Saved(r, new)
  BY DEF NoRows, MovedRows, MovedAccount
<1>6. Leave(p, r.user, MovedAccount(r), MovedRows(r))
  BY DEF MoveUser, MovedAccount, MovedRows
<1> HIDE DEF r, new, row
<1>7. /\ MovedAccount(r) \in Account
      /\ MovedAccount(r).org \in Orgs => orgs[MovedAccount(r).org] # None
  BY <1>2, <1>3, <1>5, SavedAccount
<1>8. user[r.user].active => MovedAccount(r).active
  BY <1>2, <1>3, <1>5, SavedAccount
<1>9. user[r.user].super => MovedAccount(r).super
  BY <1>2, <1>3, <1>5, SavedAccount
<1>10. /\ MovedRows(r) \in [Orgs -> Membership \cup {None}]
       /\ \A o \in Orgs : MovedRows(r)[o] # None => o = r.org
       /\ MovedRows(r)[r.org] # None
  BY <1>2, <1>4, <1>5, NoneIsNoRow
<1>11. Leaving(r.user, MovedAccount(r), MovedRows(r))
  BY <1>2, <1>7, <1>10, NoneIsNoRow DEF Leaving
<1> QED
  BY <1>6, <1>8, <1>9, <1>10, <1>11 DEF r

LEMMA LeavesTyped ==
    ASSUME TypeInv, NEW p \in Slots, DeleteUser(p) \/ MoveUser(p), UNCHANGED accepted
    PROVE  TypeInv'
<1>1. ASSUME NEW u, NEW keeps, NEW rows, Leaving(u, keeps, rows), Leave(p, u, keeps, rows)
      PROVE  TypeInv'
  BY <1>1, LeaveTyped
<1>2. CASE DeleteUser(p)
  <2> DEFINE u == req[p].user  keeps == None  rows == NoRows
  <2>1. Leaving(u, keeps, rows) /\ Leave(p, u, keeps, rows)
    BY <1>2, DeleteUserLeaves
  <2> HIDE DEF u, keeps, rows
  <2> QED
    BY <1>1, <2>1
<1>3. CASE MoveUser(p)
  <2> DEFINE u == req[p].user  keeps == MovedAccount(req[p])  rows == MovedRows(req[p])
  <2>1. Leaving(u, keeps, rows) /\ Leave(p, u, keeps, rows)
    BY <1>3, MoveUserLeaves
  <2> HIDE DEF u, keeps, rows
  <2> QED
    BY <1>1, <2>1
<1> QED
  BY <1>2, <1>3

(***************************************************************************)
(* The process starts again, and starts for the first time.                *)
(***************************************************************************)

LEMMA FounderIs ==
    Founder \in Account /\ Founder.active = TRUE /\ Founder.super = TRUE /\ Founder.org = None
BY DEF Founder, Account

LEMMA Employed ==
    ASSUME NEW a \in Account, NEW o \in Orgs
    PROVE  /\ [a EXCEPT !.org = o] \in Account /\ [a EXCEPT !.org = o].org = o
           /\ [a EXCEPT !.org = o].active = a.active /\ [a EXCEPT !.org = o].super = a.super
           /\ [a EXCEPT !.super = FALSE, !.org = o] \in Account
           /\ [a EXCEPT !.super = FALSE, !.org = o].org = o
BY DEF Account

LEMMA RestartTyped ==
    ASSUME TypeInv, Restart
    PROVE  TypeInv'
<1>1. /\ UNCHANGED <<orgs, member, extra, net, shares>>
      /\ req' = [p \in Slots |-> Idle] /\ accepted' = accepted + 1
      /\ UNCHANGED user \/ (~Exists(Reserved) /\ user' = [user EXCEPT ![Reserved] = Founder])
  BY DEF Restart
<1>2. /\ user' \in [Users -> Account \cup {None}]
      /\ \A u \in Users : Exists(u) => user'[u] = user[u]
      /\ \A u \in Users : user'[u] = user[u] \/ user'[u] = Founder
  BY <1>1, FounderIs, AccessAssumption DEF TypeInv, TypeOK, Exists
<1>3. \A u \in Users, o \in Orgs : user'[u] # None /\ user'[u].org = o => orgs'[o] # None
  <2> TAKE u \in Users, o \in Orgs
  <2>1. CASE user'[u] = user[u]
    BY <1>1, <2>1 DEF TypeInv, TypeOK, Exists
  <2>2. CASE user'[u] = Founder
    BY <2>2, FounderIs, NoneIsNoRow
  <2> QED
    BY <1>2, <2>1, <2>2
<1>4. Grows
  BY <1>1, <1>2 DEF Grows, Exists
<1>5. \A u \in Users, o \in Orgs :
        /\ member'[u][o] # None => user'[u] # None /\ orgs'[o] # None
        /\ extra'[u][o] # {} => member'[u][o] # None
  BY <1>1, <1>2 DEF TypeInv, TypeOK, Exists
<1>6. /\ orgs' \in [Orgs -> BOOLEAN \cup {None}]
      /\ member' \in [Users -> [Orgs -> Membership \cup {None}]]
      /\ extra' \in [Users -> [Orgs -> SUBSET Extras]]
  BY <1>1 DEF TypeInv, TypeOK
<1>7. TypeOK'
  BY <1>1, <1>2, <1>3, <1>4, <1>5, <1>6, TablesGrow DEF TypeInv
<1>8. ReqInv'
  BY <1>1, IdleIsNoRequest DEF ReqInv
<1> QED
  BY <1>1, <1>7, <1>8 DEF TypeInv

LEMMA InitTyped ==
    ASSUME Init
    PROVE  TypeInv
<1>1. NoRows \in [Orgs -> Membership \cup {None}] /\ \A o \in Orgs : NoRows[o] = None
  BY DEF NoRows
<1>2. ReqInv /\ accepted \in Nat
  <2>1. req = [p \in Slots |-> Idle] /\ accepted = 0
    BY DEF Init, Idling
  <2> QED
    BY <2>1, IdleIsNoRequest DEF ReqInv
<1>3. CASE Fresh
  <2>1. /\ user \in [Users -> Account \cup {None}]
        /\ \A u \in Users : user[u] # None => user[u] = Founder
    BY <1>3, FounderIs DEF Fresh
  <2>2. /\ orgs \in [Orgs -> BOOLEAN \cup {None}] /\ net = None /\ shares = {}
        /\ member \in [Users -> [Orgs -> Membership \cup {None}]]
        /\ \A u \in Users, o \in Orgs : member[u][o] = None /\ extra[u][o] = {}
        /\ extra \in [Users -> [Orgs -> SUBSET Extras]]
    BY <1>1, <1>3 DEF Fresh
  <2>3. \A u \in Users, o \in Orgs : Exists(u) => user[u].org # o
    BY <2>1, FounderIs, NoneIsNoRow DEF Exists
  <2> QED
    BY <1>2, <2>1, <2>2, <2>3 DEF TypeInv, TypeOK
<1>4. ASSUME NEW u \in Users \ {Reserved}, NEW o \in Orgs, Established(u, o)
      PROVE  TypeInv
  <2>1. /\ user \in [Users -> Account \cup {None}]
        /\ \A v \in Users : Exists(v) <=> v \in {Reserved, u}
        /\ \A v \in Users : Exists(v) => user[v].org = o
      <3> DEFINE A == [Founder EXCEPT !.org = o]  B == [Founder EXCEPT !.super = FALSE, !.org = o]
    <3>1. A \in Account /\ B \in Account /\ A.org = o /\ B.org = o
      BY FounderIs, Employed
    <3>2. user = [v \in Users |-> IF v = Reserved THEN A ELSE IF v = u THEN B ELSE None]
      BY <1>4 DEF Established
    <3> HIDE DEF A, B
    <3> QED
      BY <3>1, <3>2, NoneIsNoRow DEF Exists
  <2>2. orgs \in [Orgs -> BOOLEAN \cup {None}] /\ \A x \in Orgs : orgs[x] # None <=> x = o
    BY <1>4, NoneIsNoRow DEF Established
  <2> DEFINE Row(v) == [role |-> IF v = u THEN "member" ELSE "admin", approved |-> TRUE]
  <2> DEFINE Line(v) == [NoRows EXCEPT ![o] = Row(v)]
  <2>3. \A v \in Users : Row(v) \in Membership
    BY DEF Membership
  <2>4. member = [v \in Users |-> IF v \in {Reserved, u} THEN Line(v) ELSE NoRows]
    BY <1>4 DEF Established
  <2> HIDE DEF Row
  <2>5. \A v \in Users : /\ Line(v) \in [Orgs -> Membership \cup {None}]
                         /\ Line(v)[o] # None
                         /\ \A x \in Orgs : Line(v)[x] # None => x = o
    BY <1>1, <2>3, NoneIsNoRow
  <2> HIDE DEF Line
  <2>6. /\ member \in [Users -> [Orgs -> Membership \cup {None}]]
        /\ \A v \in Users, x \in Orgs : member[v][x] # None <=> v \in {Reserved, u} /\ x = o
    BY <1>1, <2>4, <2>5
  <2>7. /\ extra \in [Users -> [Orgs -> SUBSET Extras]]
        /\ \A v \in Users, x \in Orgs : extra[v][x] # {} => v = u /\ x = o
    <3>1. Default \in Extras
      BY AccessAssumption
    <3>2. extra = [v \in Users |-> [x \in Orgs |-> IF v = u /\ x = o THEN {Default} ELSE {}]]
      BY <1>4 DEF Established
    <3> QED
      BY <3>1, <3>2
  <2>8. net \in Net /\ net.owner = u /\ net.org = o /\ shares = {}
    BY <1>4 DEF Established, Net
  <2>9. \A v \in Users, x \in Orgs :
          /\ member[v][x] # None => Exists(v) /\ orgs[x] # None
          /\ extra[v][x] # {} => member[v][x] # None
          /\ Exists(v) /\ user[v].org = x => orgs[x] # None
    BY <2>1, <2>2, <2>6, <2>7
  <2>10. Exists(net.owner) /\ orgs[net.org] # None
    BY <1>4, <2>1, <2>2, <2>8
  <2> QED
    BY <1>2, <2>1, <2>2, <2>6, <2>7, <2>8, <2>9, <2>10 DEF TypeInv, TypeOK
<1> QED
  BY <1>3, <1>4 DEF Init

LEMMA CommitTyped ==
    ASSUME TypeInv, NEW p \in Slots, Commit(p)
    PROVE  TypeInv'
<1>1. UNCHANGED accepted
  BY DEF Commit
<1> QED
  BY <1>1, LeavesTyped, AccountCommitsTyped, ApproveUserTyped, AddToOrgTyped,
     ApproveMemberTyped, RejectMemberTyped, SetRoleTyped, SetExtraTyped, SetOpenTyped,
     CommitAccountTyped, CommitMembershipTyped, CommitJoinTyped, CommitNetTyped,
     CommitSharesTyped DEF Commit

LEMMA StepTyped ==
    ASSUME TypeInv, [Next]_vars
    PROVE  TypeInv'
<1>1. CASE Restart
  BY <1>1, RestartTyped
<1>2. ASSUME NEW p \in Slots, Review(p) \/ Apply(p) PROVE TypeInv'
  <2>1. PICK r \in Request : Taken(p, r)
    BY <1>2, SomebodyTaken
  <2> QED
    BY <2>1, Accepting
<1>3. ASSUME NEW p \in Slots, Commit(p) PROVE TypeInv'
  BY <1>3, CommitTyped
<1>4. CASE UNCHANGED vars
  BY <1>4 DEF vars, tables, TypeInv, TypeOK, ReqInv, Exists
<1> QED
  BY <1>1, <1>2, <1>3, <1>4 DEF Next

LEMMA AlwaysTyped == Spec => []TypeInv
<1>1. Init => TypeInv
  BY InitTyped
<1>2. TypeInv /\ [Next]_vars => TypeInv'
  BY StepTyped
<1> QED
  BY <1>1, <1>2, PTL DEF Spec

\* The tables are sound in every state: no membership without its account and its
\* organisation, no role without its membership, no share of a net that is gone.
THEOREM TablesSound == Spec => []TypeOK
<1>1. TypeInv => TypeOK
  BY DEF TypeInv
<1> QED
  BY <1>1, AlwaysTyped, PTL

-----------------------------------------------------------------------------
(***************************************************************************)
(* What a commit leaves of the requests.                                   *)
(***************************************************************************)

LEMMA DropEnds ==
    ASSUME NEW lost, Drop(lost)
    PROVE  \A q \in Slots : req'[q] \in {req[q], Idle}
BY DEF Drop

LEMMA CommitEnds ==
    ASSUME NEW p \in Slots, Commit(p)
    PROVE  \/ \A q \in Slots : req'[q] \in {req[q], Idle}
           \/ CommitAccount(p) /\ ~Fail(p)
<1>1. Fail(p) => \A q \in Slots : req'[q] \in {req[q], Idle}
  BY DropEnds DEF Fail
<1>2. Finish(p) => \A q \in Slots : req'[q] \in {req[q], Idle}
  BY DropEnds DEF Finish
<1>3. DeleteUser(p) => \A q \in Slots : req'[q] \in {req[q], Idle}
  BY DEF DeleteUser, Leave, Drop
<1>4. MoveUser(p) => \A q \in Slots : req'[q] \in {req[q], Idle}
  BY DEF MoveUser, Leave, Drop
<1>5. RejectMember(p) => \A q \in Slots : req'[q] \in {req[q], Idle}
  BY DEF RejectMember, Drop
<1>6. CommitNet(p) => \A q \in Slots : req'[q] \in {req[q], Idle}
  BY DEF CommitNet, Finish, Drop
<1>7. \/ Deactivate(p) \/ MakeAdmin(p) \/ RemoveAdmin(p) \/ ApproveUser(p) \/ SetRole(p)
      \/ SetOpen(p) \/ CommitSwitch(p)
      => Finish(p)
  BY DEF Deactivate, MakeAdmin, RemoveAdmin, ApproveUser, SetRole, SetOpen, CommitSwitch
<1>8. \/ AddToOrg(p) \/ ApproveMember(p) \/ SetExtra(p) \/ CommitMembership(p) \/ CommitJoin(p)
      \/ CommitShares(p)
      => Finish(p) \/ Fail(p)
  BY DEF AddToOrg, ApproveMember, SetExtra, CommitMembership, CommitJoin, CommitShares
<1> QED
  BY <1>1, <1>2, <1>3, <1>4, <1>5, <1>6, <1>7, <1>8 DEF Commit

\* The account is committed, its membership is not.
LEMMA CommitsAccount ==
    ASSUME TypeInv, NEW p \in Slots, CommitAccount(p), ~Fail(p)
    PROVE  /\ req[p] \in Request /\ req[p].op \in Newcomers
           /\ req[p].user \in Users /\ req[p].org \in Orgs
           /\ ~Exists(req[p].user) /\ Stands(req[p]) /\ Founded(req[p])
           /\ user' = [user EXCEPT ![req[p].user] =
                 [active |-> req[p].first \/ req[p].op = "invite",
                  super |-> req[p].first, org |-> req[p].org]]
           /\ req[p].first => firsts' = firsts \cup {[user |-> req[p].user, org |-> req[p].org]}
           /\ ~req[p].first => firsts' = firsts
           /\ \A q \in Slots : q # p => req'[q] = req[q]
           /\ req'[p] \in Request /\ req'[p].op \in Halves /\ req'[p].at = req[p].at
           /\ UNCHANGED <<member, extra, net, shares, overtaken, loose>>
<1> DEFINE r == req[p]
<1> DEFINE op == IF r.op = "invite" THEN "invited" ELSE "registered"
<1>1. r # Idle /\ r.op \in Newcomers
  BY DEF CommitAccount, Newcomers
<1>2. r \in Request /\ r.user \in Users /\ r.org \in Orgs
  BY <1>1, Committing DEF Shape
<1>3. op \in Operations /\ op \in Halves
  BY DEF Operations, Halves
<1>4. req' = [req EXCEPT ![p] = [r EXCEPT !.op = op]]
  BY DEF CommitAccount
<1>5. [r EXCEPT !.op = op] \in Request /\ [r EXCEPT !.op = op].op = op
      /\ [r EXCEPT !.op = op].at = r.at
  BY <1>2, <1>3 DEF Request
<1>6. req \in [Slots -> Request \cup {Idle}]
  BY DEF TypeInv, ReqInv
<1>7. /\ \A q \in Slots : q # p => req'[q] = req[q]
      /\ req'[p] \in Request /\ req'[p].op \in Halves /\ req'[p].at = req[p].at
  BY <1>3, <1>4, <1>5, <1>6
<1>8. /\ ~Exists(r.user) /\ Stands(r) /\ Founded(r)
      /\ user' = [user EXCEPT ![r.user] =
            [active |-> r.first \/ r.op = "invite", super |-> r.first, org |-> r.org]]
      /\ r.first => firsts' = firsts \cup {[user |-> r.user, org |-> r.org]}
      /\ ~r.first => firsts' = firsts
      /\ UNCHANGED <<member, extra, net, shares, overtaken, loose>>
  BY DEF CommitAccount
<1> QED
  BY <1>1, <1>2, <1>7, <1>8

\* No commit makes a request: it ends some, and one may go on to its second half.
LEMMA CommitRequests ==
    ASSUME TypeInv, NEW p \in Slots, Commit(p), NEW q \in Slots, NEW s \in Request, req'[q] = s
    PROVE  /\ req[q] \in Request /\ req[q].at = s.at
           /\ s.op \notin Halves => req[q] = s
<1>1. CASE \A x \in Slots : req'[x] \in {req[x], Idle}
  BY <1>1, IdleIsNoRequest
<1>2. CASE CommitAccount(p) /\ ~Fail(p)
  BY <1>2, CommitsAccount
<1> QED
  BY <1>1, <1>2, CommitEnds

(***************************************************************************)
(* The instance keeps a super admin.                                       *)
(***************************************************************************)

\* Those who administer the instance before a commit that saves an account still do
\* after it, when the handler takes neither switch away.
LEMMA AccountManned ==
    ASSUME TypeInv, NEW p \in Slots, req[p] \in Request, req[p].user \in Users,
           req[p].was \in Account, Exists(req[p].user),
           NEW new \in Account, Accounted(p, new),
           new.org # req[p].was.org /\ new.org \in Orgs => orgs[new.org] # None,
           new.active \/ new.active = req[p].was.active,
           new.super \/ new.super = req[p].was.super,
           NEW a \in Users, Super(a)
    PROVE  Super(a)'
<1> DEFINE r == req[p]
<1>1. /\ \A u \in Users : u # r.user => user'[u] = user[u]
      /\ \A u \in Users : user'[u] # None <=> Exists(u)
      /\ user'[r.user] = Saved(r, new)
  BY AccountedTables
<1>2. Exists(a) /\ user[a].active /\ user[a].super
  BY DEF Super, Signed
<1>3. CASE a # r.user
  BY <1>1, <1>2, <1>3 DEF Super, Signed, Exists
<1>4. CASE a = r.user
  <2>1. Saved(r, new).active
    BY <1>2, <1>4, SavedAccount
  <2>2. Saved(r, new).super
    BY <1>2, <1>4, SavedAccount
  <2> QED
    BY <1>1, <1>2, <1>4, <2>1, <2>2 DEF Super, Signed, Exists
<1> QED
  BY <1>3, <1>4

\* The one who asked for a removal is not the one it removes.
LEMMA RemovalManned ==
    ASSUME TypeInv, NEW p \in Slots, Deactivate(p) \/ RemoveAdmin(p) \/ DeleteUser(p),
           ~overtaken'
    PROVE  Manned'
<1> DEFINE r == req[p]
<1>1. r # Idle /\ r.op \in Personal /\ r.op \in Removals
  BY DEF Deactivate, RemoveAdmin, DeleteUser, Commits, Personal, Removals
<1>2. /\ r \in Request /\ r.user \in Users /\ r.was \in Account /\ Exists(r.user)
      /\ r.by \in Users /\ r.by # r.user
  BY <1>1, PersonalCommit, Committing DEF Shape
<1>3. Super(r.by)
  BY DEF Deactivate, RemoveAdmin, DeleteUser
<1>4. /\ Exists(r.by) /\ user[r.by].active /\ user[r.by].super
  BY <1>3 DEF Super, Signed
<1>5. CASE Deactivate(p) \/ RemoveAdmin(p)
  <2>1. user'[r.by] = user[r.by]
    BY <1>2, <1>5 DEF Deactivate, RemoveAdmin, Accounted, TypeInv, TypeOK
  <2> QED
    BY <1>2, <1>4, <2>1 DEF Manned, Super, Signed, Exists
<1>6. CASE DeleteUser(p)
  <2> DEFINE u == r.user  keeps == None  rows == NoRows  gone == Emptied(u, Left(u, rows))
  <2>1. Leaving(u, keeps, rows) /\ Leave(p, u, keeps, rows)
    BY <1>6, DeleteUserLeaves
  <2> HIDE DEF u, keeps, rows
  <2>2. PICK g : g = gone
    OBVIOUS
  <2>3. \A v \in Users :
           /\ v # u => (user'[v] # None <=> Exists(v))
           /\ v # u /\ Exists(v) => /\ user'[v].active = user[v].active
                                    /\ user'[v].super = user[v].super
    BY <2>1, <2>2, LeaveTables
  <2> QED
    BY <1>2, <1>4, <2>3 DEF Manned, Super, Signed, Exists, u
<1> QED
  BY <1>5, <1>6

LEMMA MoveManned ==
    ASSUME TypeInv, NEW p \in Slots, MoveUser(p), NEW a \in Users, Super(a)
    PROVE  Super(a)'
<1> DEFINE u == req[p].user  keeps == MovedAccount(req[p])  rows == MovedRows(req[p])
<1> DEFINE gone == Emptied(u, Left(u, rows))
<1>1. Leaving(u, keeps, rows) /\ Leave(p, u, keeps, rows)
  BY MoveUserLeaves
<1>2. /\ user[u].active => keeps.active
      /\ user[u].super => keeps.super
  BY MoveUserLeaves
<1>3. keeps # None
  <2>1. keeps \in Account \cup {None} /\ rows[req[p].org] # None
        /\ \A o \in Orgs : rows[o] # None => keeps # None
    BY MoveUserLeaves DEF Leaving
  <2>2. req[p].org \in Orgs
    BY PersonalCommit DEF MoveUser, Commits, Personal, Placed
  <2> QED
    BY <2>1, <2>2
<1> HIDE DEF u, keeps, rows
<1>4. PICK g : g = gone
  OBVIOUS
<1>5. /\ \A v \in Users :
            /\ v # u => (user'[v] # None <=> Exists(v))
            /\ v # u /\ Exists(v) => /\ user'[v].active = user[v].active
                                     /\ user'[v].super = user[v].super
      /\ user'[u] # None <=> keeps # None
      /\ keeps # None => /\ user'[u].active = keeps.active
                         /\ user'[u].super = keeps.super
  BY <1>1, <1>4, LeaveTables
<1> QED
  BY <1>2, <1>3, <1>5 DEF Super, Signed, Exists

LEMMA GrantManned ==
    ASSUME TypeInv, NEW p \in Slots,
           MakeAdmin(p) \/ ApproveUser(p) \/ AddToOrg(p) \/ ApproveMember(p) \/ CommitSwitch(p),
           NEW a \in Users, Super(a)
    PROVE  Super(a)'
<1> DEFINE r == req[p]
<1>1. r # Idle /\ r.op \in Personal
  BY DEF MakeAdmin, ApproveUser, AddToOrg, ApproveMember, CommitSwitch, Commits, Personal, OnMember
<1>2. r \in Request /\ r.user \in Users /\ r.was \in Account /\ Exists(r.user)
  BY <1>1, PersonalCommit
<1>3. \/ Fail(p)
      \/ Accounted(p, [r.was EXCEPT !.active = TRUE])
      \/ Accounted(p, [r.was EXCEPT !.super = TRUE, !.active = TRUE])
      \/ r.op = "switch" /\ Accounted(p, [r.was EXCEPT !.org = r.org])
  BY DEF MakeAdmin, ApproveUser, AddToOrg, ApproveMember, CommitSwitch, Commits
<1>4. r.op = "switch" => r.org \in Orgs /\ orgs[r.org] # None
  BY <1>1, PersonalCommit DEF Placed
<1>5. \A new \in Account :
         /\ Accounted(p, new)
         /\ new.org = r.was.org \/ (new.org \in Orgs /\ orgs[new.org] # None)
         /\ new.active \/ new.active = r.was.active
         /\ new.super \/ new.super = r.was.super
         => Super(a)'
  BY <1>2, AccountManned
<1>6. /\ [r.was EXCEPT !.active = TRUE] \in Account
      /\ [r.was EXCEPT !.active = TRUE].org = r.was.org
      /\ [r.was EXCEPT !.active = TRUE].active
      /\ [r.was EXCEPT !.active = TRUE].super = r.was.super
      /\ [r.was EXCEPT !.super = TRUE, !.active = TRUE] \in Account
      /\ [r.was EXCEPT !.super = TRUE, !.active = TRUE].org = r.was.org
      /\ [r.was EXCEPT !.super = TRUE, !.active = TRUE].active
      /\ [r.was EXCEPT !.super = TRUE, !.active = TRUE].super
  BY <1>2 DEF Account
<1>7. r.op = "switch" => /\ [r.was EXCEPT !.org = r.org] \in Account
                         /\ [r.was EXCEPT !.org = r.org].org = r.org
                         /\ [r.was EXCEPT !.org = r.org].active = r.was.active
                         /\ [r.was EXCEPT !.org = r.org].super = r.was.super
  BY <1>2, <1>4 DEF Account
<1>8. Fail(p) => Super(a)'
  BY DEF Fail, tables, Super, Signed, Exists
<1> DEFINE A == [r.was EXCEPT !.active = TRUE]
           B == [r.was EXCEPT !.super = TRUE, !.active = TRUE]
           C == [r.was EXCEPT !.org = r.org]
<1>9. CASE Accounted(p, A)
  <2> HIDE DEF r
  <2> QED
    BY <1>5, <1>6, <1>9
<1>10. CASE Accounted(p, B)
  <2> HIDE DEF r
  <2> QED
    BY <1>5, <1>6, <1>10
<1>11. CASE r.op = "switch" /\ Accounted(p, C)
  <2> HIDE DEF r
  <2> QED
    BY <1>4, <1>5, <1>7, <1>11
<1> QED
  BY <1>3, <1>8, <1>9, <1>10, <1>11

LEMMA CommitManned ==
    ASSUME TypeInv, NEW p \in Slots, Commit(p), Manned, ~overtaken'
    PROVE  Manned'
<1>1. PICK a \in Users : Super(a)
  BY DEF Manned
<1>2. CASE UNCHANGED user
  BY <1>1, <1>2 DEF Manned, Super, Signed, Exists
<1>3. CASE Deactivate(p) \/ RemoveAdmin(p) \/ DeleteUser(p)
  BY <1>3, RemovalManned
<1>4. CASE MoveUser(p)
  BY <1>1, <1>4, MoveManned DEF Manned
<1>5. CASE MakeAdmin(p) \/ ApproveUser(p) \/ AddToOrg(p) \/ ApproveMember(p) \/ CommitSwitch(p)
  BY <1>1, <1>5, GrantManned DEF Manned
<1>6. CASE CommitAccount(p) /\ ~Fail(p)
  <2>1. user'[a] = user[a]
    BY <1>1, <1>6, CommitsAccount DEF TypeInv, TypeOK, Super, Signed
  <2> QED
    BY <1>1, <2>1 DEF Manned, Super, Signed, Exists
<1>7. Fail(p) => UNCHANGED user
  BY DEF Fail, tables
<1>8. \/ RejectMember(p) \/ SetRole(p) \/ SetExtra(p) \/ SetOpen(p) \/ CommitMembership(p)
      \/ CommitJoin(p) \/ CommitNet(p) \/ CommitShares(p)
      => UNCHANGED user
  BY <1>7 DEF RejectMember, SetRole, SetExtra, SetOpen, CommitMembership, CommitJoin, CommitNet,
     CommitShares
<1> QED
  BY <1>2, <1>3, <1>4, <1>5, <1>6, <1>7, <1>8 DEF Commit

\* firsts after a commit: those whose organisation stands, and the one that it founds.
LEMMA CommitFirsts ==
    ASSUME TypeInv, FirstsStand, NEW p \in Slots, Commit(p)
    PROVE  /\ \A f \in firsts' : f.org \in Orgs /\ orgs'[f.org] # None
           /\ \A f, g \in firsts' : f # g => f.org # g.org
<1>1. /\ \A f \in firsts : f.org \in Orgs /\ orgs[f.org] # None
      /\ \A f, g \in firsts : f # g => f.org # g.org
  BY DEF FirstsStand
<1>2. ASSUME UNCHANGED firsts, \A o \in Orgs : orgs[o] # None => orgs'[o] # None
      PROVE  /\ \A f \in firsts' : f.org \in Orgs /\ orgs'[f.org] # None
             /\ \A f, g \in firsts' : f # g => f.org # g.org
  BY <1>1, <1>2
<1>3. Fail(p) => UNCHANGED <<firsts, orgs>>
  BY DEF Fail, tables
<1>4. \/ Deactivate(p) \/ MakeAdmin(p) \/ RemoveAdmin(p) \/ ApproveUser(p) \/ AddToOrg(p)
      \/ ApproveMember(p) \/ RejectMember(p) \/ SetRole(p) \/ SetExtra(p) \/ CommitMembership(p)
      \/ CommitSwitch(p) \/ CommitNet(p) \/ CommitShares(p)
      => UNCHANGED <<firsts, orgs>>
  BY <1>3 DEF Deactivate, MakeAdmin, RemoveAdmin, ApproveUser, AddToOrg, ApproveMember,
     RejectMember, SetRole, SetExtra, CommitMembership, CommitSwitch, CommitNet, CommitShares,
     Accounted
<1>5. CASE SetOpen(p)
  <2>1. req[p] \in Request /\ req[p].org \in Orgs
    BY <1>5, Committing DEF SetOpen, Commits, Shape, Placed
  <2>2. req[p].flag # None /\ orgs \in [Orgs -> BOOLEAN \cup {None}]
    BY <2>1, NoneIsNoRow DEF Request, TypeInv, TypeOK
  <2>3. orgs' = [orgs EXCEPT ![req[p].org] = req[p].flag] /\ UNCHANGED firsts
    BY <1>5 DEF SetOpen
  <2>4. \A o \in Orgs : orgs[o] # None => orgs'[o] # None
    BY <2>1, <2>2, <2>3
  <2> QED
    BY <1>2, <2>3, <2>4
<1>6. CASE CommitJoin(p) /\ ~Fail(p)
  <2>1. req[p] \in Request /\ req[p].org \in Orgs
    BY <1>6, Committing DEF CommitJoin, Commits, Shape
  <2>2. Stands(req[p]) /\ Founded(req[p]) /\ UNCHANGED firsts
    BY <1>6 DEF CommitJoin
  <2>3. \A o \in Orgs : orgs[o] # None => orgs'[o] # None
    BY <2>1, <2>2, FoundedOrg
  <2> QED
    BY <1>2, <2>2, <2>3
<1>7. CASE CommitAccount(p) /\ ~Fail(p)
  <2> DEFINE r == req[p]
  <2> DEFINE h == [user |-> r.user, org |-> r.org]
  <2>1. /\ r \in Request /\ r.op \in Newcomers /\ r.org \in Orgs /\ Stands(r) /\ Founded(r)
        /\ r.first => firsts' = firsts \cup {h}
        /\ ~r.first => firsts' = firsts
    BY <1>7, CommitsAccount
  <2>2. h.org = r.org
    OBVIOUS
  <2> HIDE DEF h
  <2>3. /\ \A o \in Orgs : orgs[o] # None => orgs'[o] # None
        /\ orgs'[r.org] # None
    BY <2>1, FoundedOrg
  <2>4. r.first => r.op = "register"
    BY <2>1 DEF TypeInv, ReqInv, Shape, Newcomers
  <2>5. r.first => r.flag
    BY <2>1, <2>4 DEF FirstsStand
  <2>6. r.first => orgs[r.org] = None
    <3>1. r.flag \in BOOLEAN /\ (orgs[r.org] = None) = r.flag
      BY <2>1 DEF Stands, Request
    <3> DEFINE no == orgs[r.org] = None
    <3>2. no \in BOOLEAN /\ no = r.flag
      BY <3>1
    <3> QED
      BY <2>5, <3>1
  <2>7. r.first => \A f \in firsts : f.org # h.org
    BY <1>1, <2>2, <2>6
  <2>8. CASE ~r.first
    BY <1>2, <2>1, <2>3, <2>8
  <2>9. CASE r.first
    <3>1. firsts' = firsts \cup {h}
      BY <2>1, <2>9
    <3> QED
      BY <1>1, <2>1, <2>2, <2>3, <2>7, <2>9, <3>1
  <2> QED
    BY <2>8, <2>9
<1>8. CASE DeleteUser(p) \/ MoveUser(p)
  <2>1. ASSUME NEW u, NEW keeps, NEW rows, Leaving(u, keeps, rows), Leave(p, u, keeps, rows)
        PROVE  /\ \A f \in firsts' : f.org \in Orgs /\ orgs'[f.org] # None
               /\ \A f, g \in firsts' : f # g => f.org # g.org
    <3> DEFINE gone == Emptied(u, Left(u, rows))
    <3>1. PICK g : g = gone
      OBVIOUS
    <3>2. /\ \A o \in Orgs : orgs'[o] = IF o \in g THEN None ELSE orgs[o]
          /\ firsts' = {f \in firsts : f.org \notin g}
      BY <2>1, <3>1, LeaveTables
    <3> QED
      BY <1>1, <3>2
  <2>2. CASE DeleteUser(p)
    <3> DEFINE u == req[p].user  keeps == None  rows == NoRows
    <3>1. Leaving(u, keeps, rows) /\ Leave(p, u, keeps, rows)
      BY <2>2, DeleteUserLeaves
    <3> HIDE DEF u, keeps, rows
    <3> QED
      BY <2>1, <3>1
  <2>3. CASE MoveUser(p)
    <3> DEFINE u == req[p].user  keeps == MovedAccount(req[p])  rows == MovedRows(req[p])
    <3>1. Leaving(u, keeps, rows) /\ Leave(p, u, keeps, rows)
      BY <2>3, MoveUserLeaves
    <3> HIDE DEF u, keeps, rows
    <3> QED
      BY <2>1, <3>1
  <2> QED
    BY <1>8, <2>2, <2>3
<1> QED
  BY <1>2, <1>3, <1>4, <1>5, <1>6, <1>7, <1>8 DEF Commit

LEMMA CommitFirstsStand ==
    ASSUME TypeInv, FirstsStand, NEW p \in Slots, Commit(p)
    PROVE  FirstsStand'
<1>1. ASSUME NEW q \in Slots, NEW s \in Request, req'[q] = s, s.op = "register", s.first
      PROVE  s.flag
  BY <1>1, CommitRequests DEF FirstsStand, Halves
<1> QED
  BY <1>1, CommitFirsts DEF FirstsStand

\* The first commit on an instance without accounts is of one who registers first.
LEMMA CommitUntouched ==
    ASSUME TypeInv, Untouched, NEW p \in Slots, Commit(p)
    PROVE  Untouched' \/ Manned'
<1> DEFINE r == req[p]
<1>1. r # Idle
  BY DEF Commit, DeleteUser, MoveUser, Deactivate, MakeAdmin, RemoveAdmin, ApproveUser, AddToOrg,
     ApproveMember, RejectMember, SetRole, SetExtra, SetOpen, CommitAccount, CommitMembership,
     CommitJoin, CommitSwitch, CommitNet, CommitShares, Commits, HalfDone
<1>2. r \in Request /\ r.op = "register" /\ r.first
  BY <1>1, Committing DEF Untouched
<1>3. CommitAccount(p)
  BY <1>2 DEF Commit, DeleteUser, MoveUser, Deactivate, MakeAdmin, RemoveAdmin, ApproveUser,
     AddToOrg, ApproveMember, RejectMember, SetRole, SetExtra, SetOpen, CommitMembership,
     CommitJoin, CommitSwitch, CommitNet, CommitShares, Commits, HalfDone
<1>4. CASE Fail(p)
  <2>1. /\ UNCHANGED <<user, orgs, firsts>>
        /\ \A q \in Slots : req'[q] \in {req[q], Idle}
    BY <1>4, DropEnds DEF Fail, tables
  <2> QED
    BY <2>1, IdleIsNoRequest DEF Untouched, Exists
<1>5. CASE ~Fail(p)
  <2> DEFINE a == [active |-> r.first \/ r.op = "invite", super |-> r.first, org |-> r.org]
  <2>1. r.user \in Users /\ user' = [user EXCEPT ![r.user] = a] /\ r.org \in Orgs
    BY <1>3, <1>5, CommitsAccount
  <2>2. a \in Account /\ a.active /\ a.super
    BY <1>2, <2>1 DEF Account
  <2> HIDE DEF a, r
  <2>3. user'[r.user] = a
    BY <2>1 DEF TypeInv, TypeOK
  <2> QED
    BY <2>1, <2>2, <2>3, NoneIsNoRow DEF Manned, Super, Signed, Exists
<1> QED
  BY <1>4, <1>5

LEMMA CommitOvertaken ==
    ASSUME TypeInv, NEW p \in Slots, Commit(p), overtaken
    PROVE  overtaken'
<1>1. Fail(p) => UNCHANGED overtaken
  BY DEF Fail
<1>2. DeleteUser(p) \/ Deactivate(p) \/ RemoveAdmin(p) => overtaken'
  BY DEF DeleteUser, Deactivate, RemoveAdmin
<1>3. \/ MoveUser(p) \/ MakeAdmin(p) \/ ApproveUser(p) \/ AddToOrg(p) \/ ApproveMember(p)
      \/ RejectMember(p) \/ SetRole(p) \/ SetExtra(p) \/ SetOpen(p) \/ CommitMembership(p)
      \/ CommitJoin(p) \/ CommitSwitch(p) \/ CommitNet(p) \/ CommitShares(p)
      => UNCHANGED overtaken
  BY <1>1 DEF MoveUser, MakeAdmin, ApproveUser, AddToOrg, ApproveMember, RejectMember, SetRole,
     SetExtra, SetOpen, CommitMembership, CommitJoin, CommitSwitch, CommitNet, CommitShares
<1>4. CommitAccount(p) => UNCHANGED overtaken
  BY <1>1, CommitsAccount
<1> QED
  BY <1>2, <1>3, <1>4 DEF Commit

LEMMA AcceptAdmin ==
    ASSUME AdminInv, NEW p \in Slots, NEW r \in Request, Taken(p, r)
    PROVE  AdminInv'
<1>1. /\ UNCHANGED <<user, orgs, firsts, overtaken>> /\ req' = [req EXCEPT ![p] = r]
  BY DEF Taken, Accept, tables
<1>2. TypeInv /\ TypeInv'
  BY Accepting DEF AdminInv
<1>3. \A q \in Slots : req'[q] = IF q = p THEN r ELSE req[q]
  BY <1>1, <1>2 DEF TypeInv, ReqInv
<1>4. Manned => Manned'
  BY <1>1 DEF Manned, Super, Signed, Exists
<1>5. Untouched => Untouched'
  <2> SUFFICES ASSUME Untouched PROVE Untouched'
    OBVIOUS
  <2>1. r.op = "register" /\ r.first
    BY DEF Untouched, Taken
  <2> QED
    BY <1>1, <1>3, <2>1 DEF Untouched, Exists
<1>6. ASSUME Untouched \/ Manned, r.op = "register", r.first PROVE r.flag
  <2>1. \A v \in Users : ~Exists(v)
    BY <1>6 DEF Taken
  <2>2. Untouched
    BY <1>6, <2>1 DEF Manned, Super, Signed
  <2>3. r.org \in Orgs
    BY <1>6 DEF Taken, Shape, Newcomers
  <2> QED
    BY <1>6, <2>2, <2>3 DEF Taken, Untouched
<1>7. FirstsStand /\ (Untouched \/ Manned) => FirstsStand'
  BY <1>1, <1>3, <1>6 DEF FirstsStand
<1> QED
  BY <1>1, <1>2, <1>4, <1>5, <1>7 DEF AdminInv

LEMMA RestartAdmin ==
    ASSUME AdminInv, Restart
    PROVE  AdminInv'
<1>1. /\ UNCHANGED <<orgs, firsts, overtaken>> /\ req' = [q \in Slots |-> Idle]
      /\ UNCHANGED user \/ (~Exists(Reserved) /\ user' = [user EXCEPT ![Reserved] = Founder])
  BY DEF Restart
<1>2. TypeInv /\ TypeInv'
  BY RestartTyped DEF AdminInv
<1>3. Untouched => Untouched' \/ Manned'
  <2>1. CASE UNCHANGED user
    BY <1>1, <2>1, IdleIsNoRequest DEF Untouched, Exists
  <2>2. CASE user' = [user EXCEPT ![Reserved] = Founder]
    <3>1. user'[Reserved] = Founder /\ Reserved \in Users
      BY <1>2, <2>2, AccessAssumption DEF TypeInv, TypeOK
    <3> QED
      BY <3>1, FounderIs, NoneIsNoRow DEF Manned, Super, Signed, Exists
  <2> QED
    BY <1>1, <2>1, <2>2
<1>4. Manned => Manned'
  <2> SUFFICES ASSUME Manned PROVE Manned'
    OBVIOUS
  <2>1. PICK a \in Users : Super(a)
    BY DEF Manned
  <2>2. user'[a] = user[a]
    BY <1>1, <1>2, <2>1 DEF Super, Signed, Exists, TypeInv, TypeOK
  <2> QED
    BY <2>1, <2>2 DEF Manned, Super, Signed, Exists
<1>5. FirstsStand => FirstsStand'
  BY <1>1, IdleIsNoRequest DEF FirstsStand
<1> QED
  BY <1>1, <1>2, <1>3, <1>4, <1>5 DEF AdminInv

LEMMA CommitAdmin ==
    ASSUME AdminInv, NEW p \in Slots, Commit(p)
    PROVE  AdminInv'
<1>1. TypeInv /\ TypeInv'
  BY CommitTyped DEF AdminInv
<1>2. CASE overtaken'
  BY <1>1, <1>2 DEF AdminInv
<1>3. CASE ~overtaken'
  <2>1. ~overtaken /\ (Untouched \/ Manned) /\ FirstsStand
    BY <1>1, <1>3, CommitOvertaken DEF AdminInv
  <2>2. FirstsStand'
    BY <1>1, <2>1, CommitFirstsStand
  <2>3. Untouched' \/ Manned'
    BY <1>1, <1>3, <2>1, CommitUntouched, CommitManned
  <2> QED
    BY <1>1, <2>2, <2>3 DEF AdminInv
<1> QED
  BY <1>2, <1>3

LEMMA InitAdmin ==
    ASSUME Init
    PROVE  AdminInv
<1>1. TypeInv /\ firsts = {} /\ req = [p \in Slots |-> Idle] /\ Reserved \in Users
  BY InitTyped, AccessAssumption DEF Init, Idling
<1>2. FirstsStand
  BY <1>1, IdleIsNoRequest DEF FirstsStand
<1>3. ASSUME Reserved \in Users, NEW a \in Account, a.active = TRUE, a.super = TRUE, user[Reserved] = a
      PROVE  Manned
  BY <1>3, NoneIsNoRow DEF Manned, Super, Signed, Exists
<1>4. CASE Fresh /\ seeding
  <2>1. user[Reserved] = Founder
    BY <1>1, <1>4 DEF Fresh
  <2> QED
    BY <1>1, <1>2, <1>3, <2>1, FounderIs DEF AdminInv
<1>5. CASE Fresh /\ ~seeding
  <2>1. Untouched
    BY <1>1, <1>5, IdleIsNoRequest DEF Fresh, Untouched, Exists
  <2> QED
    BY <1>1, <1>2, <2>1 DEF AdminInv
<1>6. ASSUME NEW u \in Users \ {Reserved}, NEW o \in Orgs, Established(u, o)
      PROVE  AdminInv
  <2> DEFINE A == [Founder EXCEPT !.org = o]
  <2>1. A \in Account /\ A.active = TRUE /\ A.super = TRUE
    BY FounderIs, Employed
  <2>2. user[Reserved] = A
    BY <1>1, <1>6 DEF Established
  <2> HIDE DEF A
  <2> QED
    BY <1>1, <1>2, <1>3, <2>1, <2>2 DEF AdminInv
<1> QED
  BY <1>4, <1>5, <1>6 DEF Init

LEMMA StepAdmin ==
    ASSUME AdminInv, [Next]_vars
    PROVE  AdminInv'
<1>1. ASSUME NEW p \in Slots, Review(p) \/ Apply(p) PROVE AdminInv'
  <2>1. PICK r \in Request : Taken(p, r)
    BY <1>1, SomebodyTaken DEF AdminInv
  <2> QED
    BY <2>1, AcceptAdmin
<1>2. CASE UNCHANGED vars
  <2>1. TypeInv'
    BY StepTyped DEF AdminInv
  <2> QED
    BY <1>2, <2>1 DEF vars, tables, AdminInv, Untouched, Manned, FirstsStand, Super, Signed, Exists
<1> QED
  BY <1>1, <1>2, RestartAdmin, CommitAdmin DEF Next

\* As long as no super admin is removed by one who is none any more, somebody
\* administers the instance from its first account on, and no organisation is founded
\* by two who both registered as the first user.
THEOREM SuperAdminRemains == Spec => []AdministratorStands
<1>1. AdminInv => AdministratorStands
  BY DEF AdminInv, AdministratorStands, Untouched, Manned, FirstsStand
<1>2. Init => AdminInv
  BY InitAdmin
<1>3. AdminInv /\ [Next]_vars => AdminInv'
  BY StepAdmin
<1> QED
  BY <1>1, <1>2, <1>3, PTL DEF Spec

-----------------------------------------------------------------------------
(***************************************************************************)
(* The shares of a net.                                                    *)
(***************************************************************************)

LEMMA ShareIs == \A s \in Share : s.began \in Nat /\ s.made \in Nat
BY DEF Share

LEMMA AcceptShares ==
    ASSUME SharesInv, NEW p \in Slots, NEW r \in Request, Taken(p, r)
    PROVE  SharesInv'
<1>1. /\ UNCHANGED shares /\ req' = [req EXCEPT ![p] = r] /\ accepted' = accepted + 1
      /\ r.at = accepted /\ (r.op = "shares" => r.seen = shares)
  BY DEF Taken, Accept, tables
<1>2. TypeInv /\ TypeInv' /\ accepted \in Nat /\ shares \subseteq Share
  BY Accepting DEF SharesInv, TypeInv, TypeOK
<1>3. \A s \in shares : s.began < accepted' /\ s.made <= accepted'
  BY <1>1, <1>2, ShareIs DEF SharesInv
<1>4. ASSUME NEW q \in Slots, NEW t \in Request, req'[q] = t
      PROVE  /\ t.at < accepted'
             /\ t.op = "shares" => \A s \in shares' \ t.seen : t.at < s.made
  <2>1. CASE t = r
    BY <1>1, <1>2, <2>1
  <2>2. CASE t # r
    <3>1. req[q] = t
      BY <1>1, <1>2, <1>4, <2>2 DEF TypeInv, ReqInv
    <3>2. t.at \in Nat /\ t.at < accepted
      BY <3>1 DEF SharesInv, Request
    <3>3. t.op = "shares" => \A s \in shares \ t.seen : t.at < s.made
      BY <3>1 DEF SharesInv
    <3> QED
      BY <1>1, <1>2, <3>2, <3>3
  <2> QED
    BY <2>1, <2>2
<1> QED
  BY <1>1, <1>2, <1>3, <1>4 DEF SharesInv, MixedSharesOverlap

\* The rows of an update are newer than all it has not wiped, and those were not
\* there when it began.
LEMMA UpdatedShares ==
    ASSUME SharesInv, NEW p \in Slots, CommitShares(p), ~Fail(p), UNCHANGED accepted
    PROVE  /\ \A s \in shares' : s.began < accepted /\ s.made <= accepted
           /\ \A s \in shares' \ shares : s.made = accepted
           /\ MixedSharesOverlap'
<1> DEFINE r == req[p]
<1>1. TypeInv /\ accepted \in Nat /\ shares \subseteq Share
  BY DEF SharesInv, TypeInv, TypeOK
<1>2. r \in Request /\ r.op = "shares" /\ r.at \in Nat
  BY <1>1, Committing DEF CommitShares, Commits, Request
<1>3. r.at < accepted /\ \A s \in shares \ r.seen : r.at < s.made
  BY <1>2 DEF SharesInv
<1>4. shares' = (shares \ r.seen) \cup Rows(r)
  BY DEF CommitShares
<1>5. \A s \in Rows(r) : s.began = r.at /\ s.made = accepted
  BY <1>1, <1>2, RowsOfAnUpdate
<1>6. \A s \in shares : /\ s.began \in Nat /\ s.made \in Nat
                        /\ s.began < accepted /\ s.made <= accepted
  BY <1>1, ShareIs DEF SharesInv
<1> HIDE DEF r
<1>7. /\ \A s \in shares' : s.began < accepted /\ s.made <= accepted
      /\ \A s \in shares' \ shares : s.made = accepted
  BY <1>1, <1>3, <1>4, <1>5, <1>6
<1>8. ASSUME NEW s \in shares', NEW t \in shares', s.began # t.began
      PROVE  t.began < s.made
  <2>1. CASE s \in Rows(r)
    BY <1>5, <1>7, <2>1
  <2>2. CASE s \notin Rows(r) /\ t \in Rows(r)
    BY <1>3, <1>4, <1>5, <2>2
  <2>3. CASE s \notin Rows(r) /\ t \notin Rows(r)
    BY <1>4, <1>8, <2>3 DEF SharesInv, MixedSharesOverlap
  <2> QED
    BY <2>1, <2>2, <2>3
<1> QED
  BY <1>7, <1>8 DEF MixedSharesOverlap

LEMMA CommitKeepsShares ==
    ASSUME TypeInv, NEW p \in Slots, Commit(p)
    PROVE  shares' \subseteq shares \/ (CommitShares(p) /\ ~Fail(p))
<1>1. Fail(p) => UNCHANGED shares
  BY DEF Fail, tables
<1>2. ASSUME DeleteUser(p) \/ MoveUser(p) PROVE shares' \subseteq shares
  <2>1. CASE DeleteUser(p)
    BY <2>1 DEF DeleteUser, Leave
  <2>2. CASE MoveUser(p)
    BY <2>2 DEF MoveUser, Leave
  <2> QED
    BY <1>2, <2>1, <2>2
<1>3. CommitNet(p) => shares' \subseteq shares
  BY DEF CommitNet
<1>4. CommitAccount(p) => UNCHANGED shares
  BY <1>1, CommitsAccount
<1>5. \/ Deactivate(p) \/ MakeAdmin(p) \/ RemoveAdmin(p) \/ ApproveUser(p) \/ AddToOrg(p)
      \/ ApproveMember(p) \/ RejectMember(p) \/ SetRole(p) \/ SetExtra(p) \/ SetOpen(p)
      \/ CommitMembership(p) \/ CommitJoin(p) \/ CommitSwitch(p)
      => UNCHANGED shares
  BY <1>1 DEF Deactivate, MakeAdmin, RemoveAdmin, ApproveUser, AddToOrg, ApproveMember,
     RejectMember, SetRole, SetExtra, SetOpen, CommitMembership, CommitJoin, CommitSwitch, Accounted
<1> QED
  BY <1>1, <1>2, <1>3, <1>4, <1>5 DEF Commit

LEMMA CommitSharesInv ==
    ASSUME SharesInv, NEW p \in Slots, Commit(p)
    PROVE  SharesInv'
<1>1. TypeInv /\ TypeInv' /\ UNCHANGED accepted /\ accepted \in Nat
  BY CommitTyped DEF SharesInv, TypeInv, Commit
<1>2. \A s \in shares : s.began < accepted /\ s.made <= accepted
  BY DEF SharesInv
<1>3. /\ \A s \in shares' : s.began < accepted /\ s.made <= accepted
      /\ \A s \in shares' \ shares : s.made = accepted
      /\ MixedSharesOverlap'
  <2>1. CASE shares' \subseteq shares
    BY <1>2, <2>1 DEF SharesInv, MixedSharesOverlap
  <2>2. CASE CommitShares(p) /\ ~Fail(p)
    BY <1>1, <2>2, UpdatedShares
  <2> QED
    BY <1>1, <2>1, <2>2, CommitKeepsShares
<1>4. ASSUME NEW q \in Slots, NEW t \in Request, req'[q] = t
      PROVE  /\ t.at < accepted
             /\ t.op = "shares" => \A s \in shares' \ t.seen : t.at < s.made
  <2>1. req[q] \in Request /\ req[q].at = t.at /\ (t.op = "shares" => req[q] = t)
    BY <1>1, <1>4, CommitRequests DEF Halves
  <2>2. t.at < accepted
    BY <2>1 DEF SharesInv
  <2>3. t.op = "shares" => \A s \in shares \ t.seen : t.at < s.made
    BY <2>1 DEF SharesInv
  <2> QED
    BY <1>3, <2>2, <2>3
<1> QED
  BY <1>1, <1>3, <1>4 DEF SharesInv

LEMMA StepShares ==
    ASSUME SharesInv, [Next]_vars
    PROVE  SharesInv'
<1>1. TypeInv /\ TypeInv' /\ accepted \in Nat /\ shares \subseteq Share
  BY StepTyped DEF SharesInv, TypeInv, TypeOK
<1>2. ASSUME NEW p \in Slots, Review(p) \/ Apply(p) PROVE SharesInv'
  <2>1. PICK r \in Request : Taken(p, r)
    BY <1>1, <1>2, SomebodyTaken
  <2> QED
    BY <2>1, AcceptShares
<1>3. CASE Restart
  <2>1. UNCHANGED shares /\ req' = [q \in Slots |-> Idle] /\ accepted' = accepted + 1
    BY <1>3 DEF Restart
  <2>2. \A s \in shares : s.began < accepted' /\ s.made <= accepted'
    BY <1>1, <2>1, ShareIs DEF SharesInv
  <2> QED
    BY <1>1, <2>1, <2>2, IdleIsNoRequest DEF SharesInv, MixedSharesOverlap
<1>4. CASE UNCHANGED vars
  BY <1>1, <1>4 DEF vars, tables, SharesInv, MixedSharesOverlap
<1> QED
  BY <1>2, <1>3, <1>4, CommitSharesInv DEF Next

\* Two shares of the net come from one update, unless the update of each had begun
\* before the other's commit.
THEOREM SharesOfOneUpdate == Spec => []MixedSharesOverlap
<1>1. SharesInv => MixedSharesOverlap
  BY DEF SharesInv
<1>2. Init => SharesInv
  <2> SUFFICES ASSUME Init PROVE SharesInv
    OBVIOUS
  <2>1. TypeInv /\ shares = {} /\ req = [p \in Slots |-> Idle]
    BY InitTyped DEF Init, Idling, Fresh, Established
  <2> QED
    BY <2>1, IdleIsNoRequest DEF SharesInv, MixedSharesOverlap
<1>3. SharesInv /\ [Next]_vars => SharesInv'
  BY StepShares
<1> QED
  BY <1>1, <1>2, <1>3, PTL DEF Spec

\* The lists and flags the clients are shown agree with what the endpoints allow, in
\* whatever order the database returns the shares.
THEOREM FlagsAreGrants == Spec => []ShownIsGranted
<1>1. ShownIsGranted
  <2> SUFFICES ASSUME NEW u \in Users
               PROVE  /\ Lists(u) <=> Reaches(u)
                      /\ \A found \in Found :
                            /\ Lists(u) /\ ShownEditable(u, found) => Edits(u)
                            /\ Edits(u) /\ found = Everybody => ShownEditable(u, found)
                      /\ \A role \in NetRoles : Assigned(u, role) => Plays(u, role)
    BY DEF ShownIsGranted
  <2>1. Lists(u) <=> Reaches(u)
    BY DEF Lists, Reaches, Owns, SharesOf, Super
  <2>2. ASSUME NEW found \in Found, Lists(u), ShownEditable(u, found) PROVE Edits(u)
    <3>1. found \subseteq Everybody
      BY DEF Found
    <3> QED
      BY <2>2, <3>1 DEF Lists, ShownEditable, Edits, Owns, SharesOf, Super, Everybody
  <2>3. ASSUME Edits(u) PROVE ShownEditable(u, Everybody)
    BY <2>3 DEF ShownEditable, Edits, Owns, SharesOf, Super, Everybody
  <2>4. \A role \in NetRoles : Assigned(u, role) => Plays(u, role)
    BY DEF Assigned, Plays, Reaches, SharesOf
  <2> QED
    BY <2>1, <2>2, <2>3, <2>4
<1> QED
  BY <1>1, PTL

-----------------------------------------------------------------------------
(***************************************************************************)
(* Nobody is left without an organisation, and no organisation without     *)
(* members, but by a rejection or an interrupted registration.             *)
(***************************************************************************)

Strays(us, os, ms) ==
    {o \in Orgs : os[o] # None /\ \A v \in Users : ms[v][o] = None} \cup
    {u \in Users \ {Reserved} : us[u] # None /\ \A o \in Orgs : ms[u][o] = None}

Excused == loose \cup Among(HalfDone)

LEMMA StrayForm ==
    ASSUME TypeInv
    PROVE  NothingStranded <=> Strays(user, orgs, member) \subseteq Excused
<1>1. \A u \in Users : member[u] = NoRows <=> \A o \in Orgs : member[u][o] = None
  BY DEF NoRows, TypeInv, TypeOK
<1>2. \A o \in Orgs : MembersOf(o) = {} <=> \A v \in Users : member[v][o] = None
  BY DEF MembersOf
<1> QED
  BY <1>1, <1>2 DEF NothingStranded, Strays, Excused, Orphans, Exists

LEMMA StrayFormNext ==
    ASSUME TypeInv'
    PROVE  NothingStranded' <=> Strays(user', orgs', member') \subseteq Excused'
<1>1. \A u \in Users : member'[u] = NoRows <=> \A o \in Orgs : member'[u][o] = None
  BY DEF NoRows, TypeInv, TypeOK
<1>2. \A o \in Orgs : MembersOf(o)' = {} <=> \A v \in Users : member'[v][o] = None
  BY DEF MembersOf
<1> QED
  BY <1>1, <1>2 DEF NothingStranded, Strays, Excused, Orphans, Exists

\* The half-done requests that are not dropped stay.
LEMMA HalvesKept ==
    ASSUME TypeInv, NEW lost, Drop(lost)
    PROVE  Among(HalfDone \ lost) \subseteq Among(HalfDone)'
<1>1. \A q \in HalfDone \ lost : q \in HalfDone' /\ req'[q] = req[q]
  BY DEF Drop, HalfDone
<1> QED
  BY <1>1 DEF Among

\* A commit that deletes no membership, and creates no account and no organisation
\* without members.
LEMMA GrowsStrays ==
    ASSUME TypeInv, TypeInv', NothingStranded, NEW p \in Slots, Finish(p),
           \A v \in Users, o \in Orgs : member[v][o] # None => member'[v][o] # None,
           \A v \in Users : user'[v] # None => user[v] # None,
           \A o \in Orgs : orgs'[o] # None => orgs[o] # None \/ \E v \in Users : member'[v][o] # None,
           \A x \in loose \ loose' : x \notin Strays(user', orgs', member'),
           p \in HalfDone => /\ req[p].user \notin Strays(user', orgs', member')
                             /\ req[p].org \notin Strays(user', orgs', member')
    PROVE  NothingStranded'
<1>1. Strays(user', orgs', member') \subseteq Strays(user, orgs, member)
  BY DEF Strays
<1>2. Strays(user, orgs, member) \subseteq loose \cup Among(HalfDone)
  BY StrayForm DEF Excused
<1>3. \A x \in Among(HalfDone) : \/ x \in Among(HalfDone \ {p})
                                 \/ p \in HalfDone /\ x \in {req[p].user, req[p].org}
  BY DEF Among
<1> DEFINE lost == {p}
<1>4. Among(HalfDone \ lost) \subseteq Among(HalfDone)'
  <2>1. Drop(lost)
    BY DEF Finish
  <2> HIDE DEF lost
  <2> QED
    BY <2>1, HalvesKept
<1>5. ASSUME NEW x \in Strays(user', orgs', member') PROVE x \in Excused'
  <2>1. x \in loose => x \in loose'
    BY <1>5
  <2>2. x \in Among(HalfDone) => x \in Among(HalfDone)'
    BY <1>3, <1>4
  <2> QED
    BY <1>1, <1>2, <2>1, <2>2 DEF Excused
<1> QED
  BY <1>5, StrayFormNext

\* A commit that writes one membership: neither its account nor its organisation strays.
LEMMA RowStrays ==
    ASSUME TypeInv, TypeInv', NothingStranded, NEW p \in Slots, Finish(p),
           req[p].user \in Users, req[p].org \in Orgs, NEW row \in Membership,
           member' = [member EXCEPT ![req[p].user][req[p].org] = row],
           \A v \in Users : user'[v] # None => user[v] # None,
           \A x \in Orgs : orgs'[x] # None => orgs[x] # None \/ x = req[p].org,
           loose \ {req[p].user, req[p].org} \subseteq loose'
    PROVE  NothingStranded'
<1> DEFINE u == req[p].user  o == req[p].org
<1>1. \A v \in Users, x \in Orgs : member'[v][x] = IF v = u /\ x = o THEN row ELSE member[v][x]
  BY DEF TypeInv, TypeOK
<1>2. member'[u][o] # None /\ \A v \in Users, x \in Orgs : member[v][x] # None => member'[v][x] # None
  BY <1>1, NoneIsNoRow
<1>3. u \notin Strays(user', orgs', member') /\ o \notin Strays(user', orgs', member')
  BY <1>2, AccessAssumption DEF Strays
<1>4. \A x \in Orgs : orgs'[x] # None => orgs[x] # None \/ \E v \in Users : member'[v][x] # None
  BY <1>2
<1>5. \A x \in loose \ loose' : x \notin Strays(user', orgs', member')
  BY <1>3
<1> QED
  BY <1>2, <1>3, <1>4, <1>5, GrowsStrays

LEMMA FailStrays ==
    ASSUME TypeInv, TypeInv', NothingStranded, NEW p \in Slots, Fail(p),
           p \in HalfDone => /\ req[p].user \in Users /\ req[p].org \in Orgs
                             /\ member[req[p].user][req[p].org] # None
    PROVE  NothingStranded'
<1>1. UNCHANGED <<user, orgs, member, loose>> /\ Finish(p)
  BY DEF Fail, Finish, tables
<1>2. p \in HalfDone => /\ req[p].user \notin Strays(user', orgs', member')
                        /\ req[p].org \notin Strays(user', orgs', member')
  BY <1>1, AccessAssumption DEF Strays
<1> QED
  BY <1>1, <1>2, GrowsStrays

\* Writing one's account creates none.
LEMMA AccountedExists ==
    ASSUME TypeInv, NEW p \in Slots, req[p].user \in Users, Exists(req[p].user),
           NEW new, Accounted(p, new)
    PROVE  (\A v \in Users : user'[v] # None => user[v] # None) /\ UNCHANGED orgs
BY DEF Accounted, Exists, TypeInv, TypeOK

\* The commits that write one membership.
LEMMA RowWritten ==
    ASSUME TypeInv, NEW p \in Slots, ~Fail(p),
           SetRole(p) \/ AddToOrg(p) \/ ApproveMember(p) \/ CommitMembership(p) \/ CommitJoin(p)
    PROVE  /\ req[p] \in Request /\ req[p].user \in Users /\ req[p].org \in Orgs
           /\ Exists(req[p].user)
           /\ \E row \in Membership : member' = [member EXCEPT ![req[p].user][req[p].org] = row]
<1> DEFINE r == req[p]
<1> DEFINE now == member[r.user][r.org]
<1>1. r # Idle /\ r.op \in Personal \cup Halves /\ (r.op \in Halves <=> CommitMembership(p))
      /\ (CommitMembership(p) <=> p \in HalfDone)
  BY DEF SetRole, AddToOrg, ApproveMember, CommitMembership, CommitJoin, Commits, HalfDone,
     Personal, Halves, OnMember
<1>2. /\ r \in Request /\ r.user \in Users /\ r.org \in Orgs /\ Exists(r.user)
      /\ r.row \in Membership \cup {None} /\ (r.row # None => now \in Membership)
      /\ r.role \in {"member", "admin"}
  <2>1. r \in Request /\ Shape(r) /\ Holds(user, orgs, member, net, r)
    BY <1>1, Committing
  <2>2. r.user \in Users /\ Exists(r.user)
    BY <1>1, <2>1 DEF Shape, Holds, Exists
  <2>3. r.org \in Orgs
    BY <1>1, <2>1 DEF Shape, Placed, SetRole, AddToOrg, ApproveMember, CommitMembership, CommitJoin,
       Commits, OnMember
  <2>4. member[r.user][r.org] \in Membership \cup {None} /\ (r.row # None => member[r.user][r.org] # None)
    BY <2>1, <2>2, <2>3 DEF Holds, TypeInv, TypeOK
  <2> QED
    BY <2>1, <2>2, <2>3, <2>4 DEF Request
<1>3. CASE SetRole(p)
  <2>1. r.row # None
    BY <1>3, Committing DEF SetRole, Commits, Shape, OnMember
  <2> DEFINE new == [r.row EXCEPT !.role = r.role]
  <2>2. new \in Membership /\ r.row \in Membership
    BY <1>2, <2>1, AmendedMembership
  <2>3. Flush(r.row, new, now) \in Membership
    BY <1>2, <2>1, <2>2, FlushedMembership
  <2>4. member' = [member EXCEPT ![r.user][r.org] = Flush(r.row, new, now)]
    BY <1>3 DEF SetRole
  <2> QED
    BY <1>2, <2>3, <2>4
<1>4. CASE AddToOrg(p)
  <2> DEFINE new == [role |-> r.role, approved |-> TRUE]
  <2> DEFINE row == IF r.row = None THEN new ELSE Flush(r.row, new, now)
  <2>1. new \in Membership
    BY <1>2 DEF Membership
  <2>2. row \in Membership
    BY <1>2, <2>1, FlushedMembership
  <2>3. member' = [member EXCEPT ![r.user][r.org] = row]
    BY <1>4 DEF AddToOrg
  <2> QED
    BY <1>2, <2>2, <2>3
<1>5. CASE ApproveMember(p)
  <2>1. r.row # None
    BY <1>5, Committing DEF ApproveMember, Commits, Shape, OnMember
  <2> DEFINE new == [r.row EXCEPT !.approved = TRUE]
  <2>2. new \in Membership /\ r.row \in Membership
    BY <1>2, <2>1, AmendedMembership
  <2>3. Flush(r.row, new, now) \in Membership
    BY <1>2, <2>1, <2>2, FlushedMembership
  <2>4. member' = [member EXCEPT ![r.user][r.org] = Flush(r.row, new, now)]
    BY <1>5 DEF ApproveMember
  <2> QED
    BY <1>2, <2>3, <2>4
<1>6. CASE CommitMembership(p)
  <2> DEFINE yes == r.op = "invited" \/ r.first \/ r.flag
  <2> DEFINE row == [role |-> r.role, approved |-> yes]
  <2>1. yes \in BOOLEAN
    OBVIOUS
  <2>2. member' = [member EXCEPT ![r.user][r.org] = row]
    BY <1>6 DEF CommitMembership, Insert
  <2> HIDE DEF yes
  <2>3. row \in Membership
    BY <1>2, <2>1 DEF Membership
  <2> QED
    BY <1>2, <2>2, <2>3
<1>7. CASE CommitJoin(p)
  <2> DEFINE row == [role |-> IF r.flag THEN "admin" ELSE "member", approved |-> FALSE]
  <2>1. member' = [member EXCEPT ![r.user][r.org] = row] /\ row \in Membership
    BY <1>7 DEF CommitJoin, Insert, Membership
  <2> QED
    BY <1>2, <2>1
<1> QED
  BY <1>3, <1>4, <1>5, <1>6, <1>7

LEMMA RowCommitStrays ==
    ASSUME TypeInv, TypeInv', NothingStranded, NEW p \in Slots, ~Fail(p),
           SetRole(p) \/ AddToOrg(p) \/ ApproveMember(p) \/ CommitMembership(p) \/ CommitJoin(p)
    PROVE  NothingStranded'
<1> DEFINE u == req[p].user  o == req[p].org
<1>1. /\ req[p] \in Request /\ u \in Users /\ o \in Orgs /\ Exists(u)
  BY RowWritten
<1>2. PICK row \in Membership : member' = [member EXCEPT ![u][o] = row]
  BY RowWritten
<1>3. Finish(p) /\ loose \ {u, o} \subseteq loose'
  BY DEF SetRole, AddToOrg, ApproveMember, CommitMembership, CommitJoin, Insert
<1>4. (\A v \in Users : user'[v] # None => user[v] # None)
      /\ \A x \in Orgs : orgs'[x] # None => orgs[x] # None \/ x = o
  <2>1. CASE SetRole(p) \/ CommitMembership(p)
    BY <2>1 DEF SetRole, CommitMembership
  <2>2. CASE AddToOrg(p) \/ ApproveMember(p)
    BY <1>1, <2>2, AccountedExists DEF AddToOrg, ApproveMember
  <2>3. CASE CommitJoin(p)
    <3>1. Stands(req[p]) /\ Founded(req[p]) /\ UNCHANGED user
      BY <2>3 DEF CommitJoin
    <3> QED
      BY <1>1, <3>1, FoundedOrg
  <2> QED
    BY <2>1, <2>2, <2>3
<1>5. \A x \in Orgs : orgs'[x] # None => orgs[x] # None \/ x = o
  BY <1>4
<1>6. \A v \in Users : user'[v] # None => user[v] # None
  BY <1>4
<1> QED
  BY <1>1, <1>2, <1>3, <1>5, <1>6, RowStrays

\* The commits that leave the memberships alone.
LEMMA PlainStrays ==
    ASSUME TypeInv, TypeInv', NothingStranded, NEW p \in Slots, ~Fail(p),
           \/ Deactivate(p) \/ MakeAdmin(p) \/ RemoveAdmin(p) \/ CommitSwitch(p)
           \/ SetExtra(p) \/ SetOpen(p) \/ CommitShares(p)
    PROVE  NothingStranded'
<1>1. UNCHANGED <<member, loose>> /\ Finish(p) /\ p \notin HalfDone
  BY DEF Deactivate, MakeAdmin, RemoveAdmin, CommitSwitch, SetExtra, SetOpen, CommitShares, Commits,
     HalfDone
<1>2. (\A v \in Users : user'[v] # None => user[v] # None)
      /\ \A x \in Orgs : orgs'[x] # None => orgs[x] # None
  <2>1. CASE Deactivate(p) \/ MakeAdmin(p) \/ RemoveAdmin(p) \/ CommitSwitch(p)
    <3>1. req[p].user \in Users /\ Exists(req[p].user)
      BY <2>1, PersonalCommit DEF Deactivate, MakeAdmin, RemoveAdmin, CommitSwitch, Commits, Personal,
         Removals
    <3> QED
      BY <2>1, <3>1, AccountedExists DEF Deactivate, MakeAdmin, RemoveAdmin, CommitSwitch
  <2>2. CASE SetExtra(p) \/ CommitShares(p)
    BY <2>2 DEF SetExtra, CommitShares
  <2>3. CASE SetOpen(p)
    <3>1. req[p].org \in Orgs /\ orgs[req[p].org] # None
      BY <2>3, Committing DEF SetOpen, Commits, Shape, Holds, Placed
    <3> QED
      BY <2>3, <3>1 DEF SetOpen, TypeInv, TypeOK
  <2> QED
    BY <2>1, <2>2, <2>3
<1> QED
  BY <1>1, <1>2, GrowsStrays

LEMMA ApproveUserStrays ==
    ASSUME TypeInv, TypeInv', NothingStranded, NEW p \in Slots, ApproveUser(p)
    PROVE  NothingStranded'
<1> DEFINE r == req[p]
<1> DEFINE Yes(m) == [m EXCEPT !.approved = TRUE]
<1>1. r # Idle /\ r.op = "approveUser" /\ r.op \in Personal
  BY DEF ApproveUser, Commits, Personal
<1>2. r \in Request /\ r.user \in Users /\ Exists(r.user)
  BY <1>1, PersonalCommit
<1>3. \A o \in r.pending : o \in Orgs /\ member[r.user][o] # None
  BY <1>1, <1>2, Committing DEF Holds, Request
<1>4. /\ Accounted(p, [r.was EXCEPT !.active = TRUE]) /\ Finish(p) /\ UNCHANGED loose
      /\ member' = [member EXCEPT ![r.user] = [o \in Orgs |->
                       IF o \in r.pending THEN Yes(@[o]) ELSE @[o]]]
  BY DEF ApproveUser
<1>5. member \in [Users -> [Orgs -> Membership \cup {None}]]
  BY DEF TypeInv, TypeOK
<1>6. \A u \in Users, o \in Orgs : member'[u][o] =
        IF u = r.user /\ o \in r.pending THEN Yes(member[u][o]) ELSE member[u][o]
  BY <1>2, <1>4, <1>5
<1>7. \A m \in Membership : Yes(m) # None
  BY AmendedMembership, NoneIsNoRow
<1>8. p \notin HalfDone
  BY <1>1 DEF HalfDone
<1> HIDE DEF Yes
<1>9. (\A v \in Users : user'[v] # None => user[v] # None) /\ UNCHANGED orgs
  BY <1>2, <1>4, AccountedExists
<1> HIDE DEF r
<1>10. \A u \in Users, o \in Orgs : member[u][o] # None => member'[u][o] # None
  BY <1>3, <1>5, <1>6, <1>7
<1> QED
  BY <1>4, <1>8, <1>9, <1>10, GrowsStrays

\* The account has no membership yet, and its organisation may have none.
LEMMA AccountStrays ==
    ASSUME TypeInv, TypeInv', NothingStranded, NEW p \in Slots, CommitAccount(p), ~Fail(p)
    PROVE  NothingStranded'
<1> DEFINE r == req[p]
<1>1. /\ r \in Request /\ r.op \in Newcomers /\ r.user \in Users /\ r.org \in Orgs
      /\ Stands(r) /\ Founded(r)
      /\ \A q \in Slots : q # p => req'[q] = req[q]
      /\ req'[p] \in Request /\ req'[p].op \in Halves
      /\ UNCHANGED <<member, loose>>
  BY CommitsAccount
<1>2. req'[p].user = r.user /\ req'[p].org = r.org
  <2> DEFINE op == IF r.op = "invite" THEN "invited" ELSE "registered"
  <2>1. req' = [req EXCEPT ![p] = [r EXCEPT !.op = op]]
    BY DEF CommitAccount
  <2>2. [r EXCEPT !.op = op].user = r.user /\ [r EXCEPT !.op = op].org = r.org
    BY <1>1 DEF Request
  <2> QED
    BY <2>1, <2>2 DEF TypeInv, ReqInv
<1>3. \A v \in Users : v # r.user => user'[v] = user[v]
  <2>1. user' = [user EXCEPT ![r.user] =
                   [active |-> r.first \/ r.op = "invite", super |-> r.first, org |-> r.org]]
    BY CommitsAccount
  <2> QED
    BY <2>1 DEF TypeInv, TypeOK
<1>4. \A o \in Orgs : o # r.org => orgs'[o] = orgs[o]
  BY <1>1, FoundedOrg
<1>5. p \notin HalfDone
  BY <1>1 DEF HalfDone, Newcomers
<1>6. \A q \in HalfDone : q \in HalfDone' /\ req'[q] = req[q]
  BY <1>1, <1>5 DEF HalfDone
<1>7. p \in HalfDone'
  BY <1>1, IdleIsNoRequest DEF HalfDone, Halves
<1>8. Among(HalfDone) \subseteq Among(HalfDone)'
  BY <1>6 DEF Among
<1>9. r.user \in Among(HalfDone)' /\ r.org \in Among(HalfDone)'
  <2>1. req'[p].user \in Among(HalfDone)' /\ req'[p].org \in Among(HalfDone)'
    BY <1>7 DEF Among
  <2> QED
    BY <1>2, <2>1
<1>10. Strays(user', orgs', member') \subseteq Strays(user, orgs, member) \cup {r.user, r.org}
  BY <1>1, <1>3, <1>4 DEF Strays
<1>11. Strays(user, orgs, member) \subseteq loose \cup Among(HalfDone)
  BY StrayForm DEF Excused
<1> HIDE DEF r
<1>12. Strays(user', orgs', member') \subseteq Excused'
  BY <1>1, <1>8, <1>9, <1>10, <1>11 DEF Excused
<1> QED
  BY <1>12, StrayFormNext

LEMMA NetStrays ==
    ASSUME TypeInv, TypeInv', NothingStranded, NEW p \in Slots, CommitNet(p)
    PROVE  NothingStranded'
<1> DEFINE others == {q \in Slots : req[q] # Idle /\ req[q].op \in NetOps}
<1>1. UNCHANGED <<user, orgs, member, loose>> /\ (Drop({p}) \/ Drop({p} \cup others))
      /\ p \notin HalfDone
  BY DEF CommitNet, Finish, HalfDone
<1>2. \A q \in others : q \notin HalfDone
  BY DEF HalfDone, NetOps
<1>3. PICK lost : Drop(lost) /\ lost \cap HalfDone = {}
  <2> HIDE DEF others
  <2> QED
    BY <1>1, <1>2
<1>4. Among(HalfDone \ lost) \subseteq Among(HalfDone)' /\ HalfDone \ lost = HalfDone
  BY <1>3, HalvesKept
<1>5. Strays(user', orgs', member') \subseteq loose \cup Among(HalfDone)
  BY <1>1, StrayForm DEF Excused
<1> QED
  BY <1>1, <1>4, <1>5, StrayFormNext DEF Excused

LEMMA RejectStrays ==
    ASSUME TypeInv, TypeInv', NothingStranded, NEW p \in Slots, RejectMember(p)
    PROVE  NothingStranded'
<1> DEFINE r == req[p]
<1> DEFINE lost == {p} \cup Holding(p, r.user, {r.org})
<1>1. r # Idle /\ r.op \in Personal /\ r.op \in OnMember /\ r.op \in Placed
  BY DEF RejectMember, Commits, Personal, Placed, OnMember
<1>2. r \in Request /\ r.user \in Users /\ r.org \in Orgs
  BY <1>1, PersonalCommit
<1>3. /\ member' = [member EXCEPT ![r.user][r.org] = None]
      /\ loose' = loose \cup {r.user, r.org} /\ Drop(lost)
      /\ UNCHANGED <<user, orgs>>
  BY DEF RejectMember
<1>4. \A u \in Users, o \in Orgs : u # r.user \/ o # r.org => member'[u][o] = member[u][o]
  BY <1>2, <1>3 DEF TypeInv, TypeOK
<1>5. ASSUME NEW q \in HalfDone PROVE q \notin lost
  <2>1. req[q] \in Request /\ req[q].op \in Halves
    BY Committing DEF HalfDone, Halves
  <2>2. req[q].row = None /\ req[q].op # "approveUser"
    BY <2>1 DEF HalfDone, TypeInv, ReqInv, Shape, Halves
  <2>3. q # p
    BY <1>1, <2>1 DEF Halves, OnMember
  <2> QED
    BY <2>2, <2>3 DEF Holding
<1> HIDE DEF lost
<1>6. Among(HalfDone \ lost) \subseteq Among(HalfDone)' /\ HalfDone \ lost = HalfDone
  BY <1>3, <1>5, HalvesKept
<1>7. Strays(user', orgs', member') \subseteq Strays(user, orgs, member) \cup {r.user, r.org}
  BY <1>3, <1>4 DEF Strays
<1>8. Strays(user, orgs, member) \subseteq loose \cup Among(HalfDone)
  BY StrayForm DEF Excused
<1> HIDE DEF r
<1>9. Strays(user', orgs', member') \subseteq Excused'
  BY <1>3, <1>6, <1>7, <1>8 DEF Excused
<1> QED
  BY <1>9, StrayFormNext

\* An organisation that lost its last membership with the account is gone.
LEMMA LeaveStrays ==
    ASSUME TypeInv, TypeInv', NothingStranded, NEW p \in Slots, p \notin HalfDone,
           NEW u, NEW keeps, NEW rows, Leaving(u, keeps, rows), Leave(p, u, keeps, rows),
           keeps # None => \E o \in Orgs : rows[o] # None
    PROVE  NothingStranded'
<1> DEFINE gone == Emptied(u, Left(u, rows))
<1>1. PICK g : g = gone
  OBVIOUS
<1>2. /\ member' = Left(u, rows)
      /\ \A o \in Orgs : orgs'[o] = IF o \in g THEN None ELSE orgs[o]
      /\ \A v \in Users : v # u => (user'[v] # None <=> Exists(v))
      /\ user'[u] # None <=> keeps # None
  BY <1>1, LeaveTables
<1>3. /\ g \subseteq Orgs
      /\ \A o \in Orgs : member[u][o] # None /\ o \notin g => \E v \in Users : member'[v][o] # None
  BY <1>1, <1>2, GoneOrgs
<1>4. \A v \in Users, o \in Orgs : member'[v][o] = IF v = u THEN rows[o] ELSE member[v][o]
  BY <1>2, LeftRows
<1>5. u \in Users
  BY DEF Leaving
<1> DEFINE lost == Losing(p, u, keeps, gone)
<1> DEFINE all == {p} \cup lost
<1>6. Drop(all) /\ loose' = (loose \cup Among(HalfDone \cap lost)) \ (g \cup {u})
  <2>1. Outside(p, u, keeps, gone)
    BY LeaveNet
  <2> QED
    BY <1>1, <2>1 DEF Outside
<1> HIDE DEF all
<1>7. Among(HalfDone \ all) \subseteq Among(HalfDone)'
  BY <1>6, HalvesKept
<1>8. HalfDone \ all = HalfDone \ lost
  BY DEF all
<1> HIDE DEF lost, gone
<1>9. Among(HalfDone) \subseteq Among(HalfDone \cap lost) \cup Among(HalfDone \ lost)
  BY DEF Among
<1>10. Strays(user, orgs, member) \subseteq loose \cup Among(HalfDone)
  BY StrayForm DEF Excused
<1>11. ASSUME NEW x \in Strays(user', orgs', member')
       PROVE  x \in Strays(user, orgs, member) /\ x \notin g /\ x # u
  <2>1. CASE x \in Orgs
    <3>1. orgs'[x] # None /\ \A v \in Users : member'[v][x] = None
      BY <1>11, <2>1, AccessAssumption DEF Strays
    <3>2. x \notin g /\ orgs[x] # None
      BY <1>2, <2>1, <3>1
    <3>3. \A v \in Users : member[v][x] = None
      BY <1>3, <1>4, <2>1, <3>1, <3>2
    <3> QED
      BY <1>5, <2>1, <3>2, <3>3, AccessAssumption DEF Strays
  <2>2. CASE x \in Users
    <3>1. x # Reserved /\ user'[x] # None /\ \A o \in Orgs : member'[x][o] = None
      BY <1>11, <2>2, AccessAssumption DEF Strays
    <3>2. x # u
      BY <1>2, <1>4, <1>5, <3>1
    <3>3. user[x] # None /\ \A o \in Orgs : member[x][o] = None
      BY <1>2, <1>4, <2>2, <3>1, <3>2 DEF Exists
    <3> QED
      BY <1>3, <2>2, <3>1, <3>2, <3>3, AccessAssumption DEF Strays
  <2> QED
    BY <1>11, <2>1, <2>2 DEF Strays
<1>12. Strays(user', orgs', member') \subseteq Excused'
  BY <1>6, <1>7, <1>8, <1>9, <1>10, <1>11 DEF Excused
<1> QED
  BY <1>12, StrayFormNext

LEMMA LeavesStrays ==
    ASSUME TypeInv, TypeInv', NothingStranded, NEW p \in Slots, DeleteUser(p) \/ MoveUser(p)
    PROVE  NothingStranded'
<1>1. p \notin HalfDone
  BY DEF DeleteUser, MoveUser, Commits, HalfDone
<1>2. ASSUME NEW u, NEW keeps, NEW rows, Leaving(u, keeps, rows), Leave(p, u, keeps, rows),
             keeps # None => \E o \in Orgs : rows[o] # None
      PROVE  NothingStranded'
  BY <1>1, <1>2, LeaveStrays
<1>3. CASE DeleteUser(p)
  <2> DEFINE u == req[p].user  keeps == None  rows == NoRows
  <2>1. Leaving(u, keeps, rows) /\ Leave(p, u, keeps, rows) /\ keeps = None
    BY <1>3, DeleteUserLeaves
  <2> HIDE DEF u, keeps, rows
  <2> QED
    BY <1>2, <2>1
<1>4. CASE MoveUser(p)
  <2> DEFINE u == req[p].user  keeps == MovedAccount(req[p])  rows == MovedRows(req[p])
  <2>1. Leaving(u, keeps, rows) /\ Leave(p, u, keeps, rows) /\ rows[req[p].org] # None
    BY <1>4, MoveUserLeaves
  <2>2. req[p].org \in Orgs
    BY <1>4, PersonalCommit DEF MoveUser, Commits, Personal, Placed
  <2> HIDE DEF u, keeps, rows
  <2> QED
    BY <1>2, <2>1, <2>2
<1> QED
  BY <1>3, <1>4

LEMMA CommitStrays ==
    ASSUME TypeInv, NothingStranded, NEW p \in Slots, Commit(p)
    PROVE  NothingStranded'
<1>1. TypeInv'
  BY CommitTyped
<1>2. CASE Fail(p)
  <2>1. p \in HalfDone => CommitMembership(p)
    BY DEF Commit, DeleteUser, MoveUser, Deactivate, MakeAdmin, RemoveAdmin, ApproveUser,
       AddToOrg, ApproveMember, RejectMember, SetRole, SetExtra, SetOpen, CommitAccount,
       CommitJoin, CommitSwitch, CommitNet, CommitShares, Commits, HalfDone
  <2>2. p \in HalfDone => req[p].user \in Users /\ req[p].org \in Orgs
    BY Committing DEF HalfDone, Shape, Halves
  <2>3. p \in HalfDone /\ member[req[p].user][req[p].org] = None => FALSE
    <3> SUFFICES ASSUME p \in HalfDone, member[req[p].user][req[p].org] = None PROVE FALSE
      OBVIOUS
    <3> DEFINE r == req[p]
    <3> DEFINE yes == r.op = "invited" \/ r.first \/ r.flag
    <3> DEFINE row == [role |-> r.role, approved |-> yes]
    <3>1. r \in Request /\ yes \in BOOLEAN
      BY Committing DEF HalfDone
    <3>2. member' = [member EXCEPT ![r.user][r.org] = row]
      BY <2>1 DEF CommitMembership, Insert
    <3> HIDE DEF yes
    <3>3. row \in Membership
      BY <3>1 DEF Membership, Request
    <3> HIDE DEF row
    <3>4. member'[r.user][r.org] = row
      BY <2>2, <3>2 DEF TypeInv, TypeOK
    <3> QED
      BY <1>2, <3>3, <3>4, NoneIsNoRow DEF Fail, tables
  <2> QED
    BY <1>1, <1>2, <2>2, <2>3, FailStrays
<1>3. CASE ~Fail(p)
  BY <1>1, <1>3, LeavesStrays, PlainStrays, ApproveUserStrays, RowCommitStrays, AccountStrays,
     NetStrays, RejectStrays DEF Commit
<1> QED
  BY <1>2, <1>3

LEMMA StepStrays ==
    ASSUME TypeInv, NothingStranded, [Next]_vars
    PROVE  NothingStranded'
<1>1. TypeInv' /\ Strays(user, orgs, member) \subseteq loose \cup Among(HalfDone)
  BY StepTyped, StrayForm DEF Excused
<1>2. ASSUME NEW p \in Slots, Free(p), Review(p) \/ Apply(p) PROVE NothingStranded'
  <2>1. PICK r \in Request : Taken(p, r)
    BY <1>2, SomebodyTaken
  <2>2. UNCHANGED <<user, orgs, member, loose>> /\ req' = [req EXCEPT ![p] = r]
    BY <2>1 DEF Taken, Accept, tables
  <2>3. \A q \in HalfDone : q \in HalfDone' /\ req'[q] = req[q]
    BY <1>2, <2>2 DEF HalfDone, Free, TypeInv, ReqInv
  <2>4. Among(HalfDone) \subseteq Among(HalfDone)'
    BY <2>3 DEF Among
  <2> QED
    BY <1>1, <2>2, <2>4, StrayFormNext DEF Excused
<1>3. CASE Restart
  <2>1. /\ UNCHANGED <<orgs, member>> /\ loose' = loose \cup Among(HalfDone)
        /\ UNCHANGED user \/ user' = [user EXCEPT ![Reserved] = Founder]
    BY <1>3 DEF Restart
  <2>2. \A u \in Users \ {Reserved} : user'[u] = user[u]
    BY <2>1 DEF TypeInv, TypeOK
  <2>3. Strays(user', orgs', member') \subseteq Strays(user, orgs, member)
    BY <2>1, <2>2 DEF Strays
  <2> QED
    BY <1>1, <2>1, <2>3, StrayFormNext DEF Excused
<1>4. CASE UNCHANGED vars
  BY <1>4 DEF vars, tables, NothingStranded, Orphans, MembersOf, Exists, Among, HalfDone
<1> QED
  BY <1>2, <1>3, <1>4, CommitStrays DEF Next

\* An organisation without members, or an account without memberships, is what a
\* rejection or an interrupted registration left.
THEOREM StraysAreExcused == Spec => []NothingStranded
<1> DEFINE Inv == TypeInv /\ NothingStranded
<1>1. Init => Inv
  <2> SUFFICES ASSUME Init PROVE Inv
    OBVIOUS
  <2>1. TypeInv
    BY InitTyped
  <2>2. Strays(user, orgs, member) = {}
    <3>1. CASE Fresh
      <4>1. /\ \A o \in Orgs : orgs[o] = None
            /\ \A u \in Users : u # Reserved => user[u] = None
        BY <3>1 DEF Fresh
      <4> QED
        BY <4>1 DEF Strays
    <3>2. ASSUME NEW u \in Users \ {Reserved}, NEW o \in Orgs, Established(u, o)
          PROVE  Strays(user, orgs, member) = {}
      <4> DEFINE row == [role |-> "member", approved |-> TRUE]
      <4>1. row \in Membership
        BY DEF Membership
      <4>2. member[u] = [NoRows EXCEPT ![o] = row]
        BY <3>2 DEF Established
      <4> HIDE DEF row
      <4>3. member[u][o] # None
        BY <4>1, <4>2, NoneIsNoRow DEF NoRows
      <4>4. /\ \A x \in Orgs : orgs[x] # None => x = o
            /\ \A v \in Users : user[v] # None => v \in {u, Reserved}
        BY <3>2 DEF Established
      <4> QED
        BY <4>3, <4>4 DEF Strays
    <3> QED
      BY <3>1, <3>2 DEF Init
  <2> QED
    BY <2>1, <2>2, StrayForm DEF Excused
<1>2. Inv /\ [Next]_vars => Inv'
  BY StepTyped, StepStrays
<1>3. Inv => NothingStranded
  OBVIOUS
<1> HIDE DEF Inv
<1> QED
  BY <1>1, <1>2, <1>3, PTL DEF Spec
=============================================================================
