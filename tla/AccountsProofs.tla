--------------------------- MODULE AccountsProofs ---------------------------
(***************************************************************************)
(* Proofs about Accounts, for any addresses, passwords, lifetimes and      *)
(* number of requests in flight.                                           *)
(***************************************************************************)
EXTENDS Accounts, TLAPS

Columns == {"email", "verified", "active", "password", "verification", "invite", "reset"}

Link == [kind : Kinds, to : Addresses \cup {None}, at : Nat]

Redeeming == [op : Kinds, seen : User, more : [token : Tokens, password : Passwords]]

Holding == Redeeming
    \cup [op : {"forgot", "approve", "deactivate"}, seen : User, more : {{}}]
    \cup [op : {"profile"}, seen : User, more : Addresses]
    \cup [op : {"change"}, seen : User, more : Passwords]

Sender == [op : {"send"}, token : Tokens, to : Addresses \cup {None}]

Request == [op : {"idle"}] \cup Sender \cup Holding

Types ==
    /\ TypeOK /\ now \in Nat /\ now <= MaxTime
    /\ issued \in Seq(Link)
    /\ req \in [Slots -> Request]
    /\ \A p \in Slots : req[p].op # "idle" => user # None

\* What a request under way relies on: the link it sends or redeems, and columns that held
\* links made before.
Sound(p) ==
    /\ req[p].op = "send" =>
          /\ req[p].token \in DOMAIN issued
          /\ req[p].to # None => issued[req[p].token].kind = "reset"
    /\ req[p] \in Redeeming =>
          /\ req[p].more.token \in mailed
          /\ issued[req[p].more.token].kind = req[p].op
          /\ req[p].seen[req[p].op] = req[p].more.token
    /\ req[p] \in Holding => \A k \in Kinds : req[p].seen[k] < NextToken

Unspent ==
    /\ spent \subseteq DOMAIN issued
    /\ user # None => \A k \in Kinds : user[k] \notin spent

\* A link in the column was mailed to the address it would verify, and so was the one that
\* is being redeemed; an approval is of the address the account has.
Confirmed ==
    user # None /\ ~crossed =>
      /\ user.verified => user.email \in trusted
      /\ user.verification \in mailed =>
            issued[user.verification].to = user.email \/ user.email \in trusted
      /\ \A p \in Slots :
            /\ req[p].op \in {"verification", "approve"} => req[p].seen.email = user.email
            /\ req[p].op = "verification" =>
                  issued[req[p].more.token].to = user.email \/ user.email \in trusted

\* A reset link that is being redeemed was the newest one, or the newer one is accounted for.
Newest ==
    \A t \in ResetLinks : (\A s \in ResetLinks : s <= t) =>
      /\ user # None
      /\ t \notin spent \cup lost => user.reset = t
      /\ \A p \in Slots : req[p].op = "reset" => req[p].more.token = t \/ t \in spent \cup lost

IInv == Types /\ (\A p \in Slots : Sound(p)) /\ Unspent /\ Confirmed /\ Newest

-----------------------------------------------------------------------------
\* A commit writes what its handler changed over the row as it is by then.
LEMMA Saved ==
    ASSUME user \in User, NEW seen \in User, NEW new \in User
    PROVE  /\ Save(seen, new) \in User
           /\ \A c \in Columns : Save(seen, new)[c] = IF new[c] # seen[c] THEN new[c] ELSE user[c]
<1>1. DOMAIN user = Columns
  BY DEF User, Columns
<1>2. \A c \in Columns : Save(seen, new)[c] = IF new[c] # seen[c] THEN new[c] ELSE user[c]
  BY <1>1 DEF Save
<1>3. Save(seen, new) = [c \in Columns |-> Save(seen, new)[c]]
  BY <1>1 DEF Save
<1>4. Save(seen, new) \in User
  BY <1>2, <1>3 DEF User, Columns
<1> QED
  BY <1>2, <1>4

LEMMA InitIInv == Init => IInv
<1> SUFFICES ASSUME Init PROVE IInv
  OBVIOUS
<1>1. \A p \in Slots : req[p] = [op |-> "idle"]
  BY DEF Init, Idle
<1>2. user = None /\ issued = <<>> /\ DOMAIN issued = {}
  BY DEF Init
<1>3. Types
  <2>1. TypeOK
    BY <1>2 DEF Init, TypeOK
  <2>2. now \in Nat /\ now <= MaxTime /\ issued \in Seq(Link)
    BY <1>2, AccountsAssumption DEF Init
  <2>3. req \in [Slots -> Request]
    BY DEF Init, Request, Idle
  <2> QED
    BY <1>1, <2>1, <2>2, <2>3 DEF Types
<1>4. \A p \in Slots : Sound(p)
  BY <1>1 DEF Sound, Redeeming, Holding, Kinds
<1>5. Unspent /\ Confirmed /\ Newest
  BY <1>2 DEF Init, Unspent, Confirmed, Newest, ResetLinks
<1> QED
  BY <1>3, <1>4, <1>5 DEF IInv

-----------------------------------------------------------------------------
(* Links and requests.                                                     *)

LEMMA IssueFacts ==
    ASSUME issued \in Seq(Link), now \in Nat, NEW kind \in Kinds, Issue(kind)
    PROVE  /\ issued' \in Seq(Link)
           /\ DOMAIN issued' = DOMAIN issued \cup {NextToken}
           /\ NextToken \in Tokens /\ NextToken \notin DOMAIN issued
           /\ NextToken' = NextToken + 1
           /\ \A t \in DOMAIN issued : t < NextToken /\ issued'[t] = issued[t]
           /\ issued'[NextToken].kind = kind /\ issued'[NextToken].at = now
<1> DEFINE link == [kind |-> kind, to |-> None, at |-> now]
<1>1. link \in Link /\ link.kind = kind /\ link.at = now
  BY DEF Link
<1>2. issued' = Append(issued, link)
  BY DEF Issue
<1> HIDE DEF link
<1>3. Len(issued) \in Nat /\ DOMAIN issued = 1 .. Len(issued)
  OBVIOUS
<1>4. issued' \in Seq(Link) /\ Len(issued') = Len(issued) + 1
  BY <1>1, <1>2
<1>5. DOMAIN issued' = 1 .. (Len(issued) + 1)
  BY <1>4
<1>6. issued'[Len(issued) + 1] = link /\ \A t \in 1 .. Len(issued) : issued'[t] = issued[t]
  BY <1>1, <1>2, <1>3
<1> QED
  BY <1>1, <1>3, <1>4, <1>5, <1>6 DEF NextToken, Tokens

\* What a slot holds, by the step its request is at.
LEMMA RequestFacts ==
    ASSUME req \in [Slots -> Request], NEW p \in Slots
    PROVE  /\ req[p].op \in Kinds => req[p] \in Redeeming /\ req[p] \in Holding
           /\ req[p].op \in {"forgot", "approve", "deactivate", "profile", "change"} =>
                 req[p] \in Holding /\ req[p] \notin Redeeming
           /\ req[p].op = "profile" => req[p].more \in Addresses
           /\ req[p].op = "change" => req[p].more \in Passwords
           /\ req[p].op = "send" => req[p] \in Sender
           /\ req[p] \in Holding => req[p].seen \in User /\ req[p].op \notin {"send", "idle"}
<1>1. req[p] \in Request
  OBVIOUS
<1> QED
  BY <1>1 DEF Request, Redeeming, Holding, Sender, Kinds

-----------------------------------------------------------------------------
(* Steps that make no link.                                                *)

Released == /\ req' \in [Slots -> Request]
            /\ \A q \in Slots : req'[q] = req[q] \/ req'[q].op = "idle"

LEMMA ReleaseFacts ==
    ASSUME req \in [Slots -> Request], NEW p \in Slots, Free(p)
    PROVE  Released /\ req'[p].op = "idle"
<1>1. Idle \in Request /\ Idle.op = "idle"
  BY DEF Idle, Request
<1> QED
  BY <1>1 DEF Free, Released

\* A link's number is positive and below the next one.
LEMMA LinkNumbers ==
    ASSUME issued \in Seq(Link)
    PROVE  /\ NextToken \in Nat /\ 0 < NextToken /\ 0 \notin DOMAIN issued
           /\ \A t \in DOMAIN issued : t \in Nat /\ t < NextToken
BY DEF NextToken

LEMMA PlainStep ==
    ASSUME Types, \A p \in Slots : Sound(p), user # None, user' \in User, Released,
           issued' = issued, mailed' = mailed, now' = now,
           session' \in (0 .. MaxTime) \cup {None}, api' \in BOOLEAN,
           \A k \in Kinds : user'[k] = user[k] \/ user'[k] = 0
    PROVE  Types' /\ \A p \in Slots : Sound(p)'
<1>1. user' # None
  BY NoneAssumption
<1>2. TypeOK'
  BY <1>1 DEF Types, TypeOK
<1>3. Types'
  BY <1>1, <1>2 DEF Types, Released
<1>4. \A p \in Slots : Sound(p)'
  <2> TAKE p \in Slots
  <2>1. CASE req'[p] = req[p]
    BY <2>1 DEF Sound, NextToken
  <2>2. CASE req'[p].op = "idle"
    BY <2>2 DEF Sound, Redeeming, Holding, Kinds
  <2> QED
    BY <2>1, <2>2 DEF Released
<1> QED
  BY <1>3, <1>4

LEMMA PlainUnspent ==
    ASSUME Types, Unspent, user # None, issued' = issued, spent' = spent,
           \A k \in Kinds : user'[k] = user[k] \/ user'[k] = 0
    PROVE  Unspent'
BY LinkNumbers DEF Types, Unspent

LEMMA PlainConfirmed ==
    ASSUME Types, Confirmed, user # None, Released, issued' = issued, mailed' = mailed,
           user'.email = user.email, user'.verified = user.verified,
           user'.verification = user.verification \/ user'.verification = 0,
           crossed => crossed', trusted \subseteq trusted'
    PROVE  Confirmed'
<1>1. 0 \notin mailed
  BY LinkNumbers DEF Types, TypeOK
<1> QED
  BY <1>1 DEF Confirmed, Released

LEMMA PlainNewest ==
    ASSUME Newest, Released, issued' = issued, user' # None,
           user # None => user'.reset = user.reset, spent \subseteq spent', lost' = lost
    PROVE  Newest'
BY DEF Newest, ResetLinks, Released

-----------------------------------------------------------------------------
(* Steps that make a link.                                                 *)

SendsNew(p, kind) ==
    /\ req' \in [Slots -> Request]
    /\ req'[p].op = "send" /\ req'[p].token = NextToken
    /\ req'[p].to # None => kind = "reset"
    /\ \A q \in Slots \ {p} : req'[q] = req[q]

LEMMA SendingFacts ==
    ASSUME req \in [Slots -> Request], NEW p \in Slots, NEW to \in Addresses \cup {None},
           NEW kind \in Kinds, NextToken \in Tokens, Sending(p, to), to # None => kind = "reset"
    PROVE  SendsNew(p, kind)
<1> DEFINE r == [op |-> "send", token |-> NextToken, to |-> to]
<1>1. r \in Request /\ r.op = "send" /\ r.token = NextToken /\ r.to = to
  BY DEF Request, Sender
<1>2. req' = [req EXCEPT ![p] = r]
  BY DEF Sending
<1> HIDE DEF r
<1> QED
  BY <1>1, <1>2 DEF SendsNew

LEMMA IssueStep ==
    ASSUME Types, \A p \in Slots : Sound(p), NEW p \in Slots, NEW kind \in Kinds,
           Issue(kind), SendsNew(p, kind), user' \in User, mailed' = mailed, now' = now,
           UNCHANGED <<session, api>>,
           \A k \in Kinds : \/ user'[k] = 0
                            \/ user # None /\ user'[k] = user[k]
                            \/ k = kind /\ user'[k] = NextToken
    PROVE  Types' /\ \A q \in Slots : Sound(q)'
<1>1. user' # None
  BY NoneAssumption
<1>2. /\ issued' \in Seq(Link) /\ NextToken \in Nat /\ NextToken' = NextToken + 1
      /\ DOMAIN issued' = DOMAIN issued \cup {NextToken}
      /\ \A t \in DOMAIN issued : issued'[t] = issued[t]
      /\ issued'[NextToken].kind = kind /\ issued'[NextToken].at = now
  BY IssueFacts DEF Types, Tokens
<1>3. TypeOK'
  <2>1. \A t \in DOMAIN issued' : issued'[t].kind \in Kinds /\ issued'[t].at \in 0 .. now'
    BY <1>2 DEF Types, TypeOK
  <2>2. \A k \in Kinds : user'[k] # 0 => user'[k] \in DOMAIN issued' /\ issued'[user'[k]].kind = k
    BY <1>2 DEF Types, TypeOK
  <2> QED
    BY <2>1, <2>2, <1>2 DEF Types, TypeOK
<1>4. Types'
  BY <1>1, <1>2, <1>3 DEF Types, SendsNew
<1>5. \A q \in Slots : Sound(q)'
  <2> TAKE q \in Slots
  <2>1. CASE q = p
    BY <2>1, <1>2 DEF Sound, SendsNew, Redeeming, Holding, Kinds
  <2>2. CASE q # p
    <3>1. req'[q] = req[q] /\ Sound(q)
      BY <2>2 DEF SendsNew
    <3>2. mailed \subseteq DOMAIN issued
      BY DEF Types, TypeOK
    <3>3. req[q] \in Holding => \A k \in Kinds : req[q].seen[k] \in Nat
      BY RequestFacts DEF Types, User, Kinds, Tokens
    <3>4. req[q] \in Holding => \A k \in Kinds : req[q].seen[k] < NextToken'
      BY <3>1, <3>3, <1>2 DEF Sound
    <3> QED
      BY <3>1, <3>2, <3>4, <1>2 DEF Sound
  <2> QED
    BY <2>1, <2>2
<1> QED
  BY <1>4, <1>5

LEMMA IssueUnspent ==
    ASSUME Types, Unspent, NEW kind \in Kinds, Issue(kind), spent' = spent,
           \A k \in Kinds : \/ user'[k] = 0
                            \/ user # None /\ user'[k] = user[k]
                            \/ k = kind /\ user'[k] = NextToken
    PROVE  Unspent'
<1>1. /\ DOMAIN issued' = DOMAIN issued \cup {NextToken} /\ NextToken \notin DOMAIN issued
      /\ 0 \notin DOMAIN issued
  BY IssueFacts, LinkNumbers DEF Types
<1> QED
  BY <1>1 DEF Unspent

\* Other kinds of links do not matter to the newest reset link.
LEMMA IssueNewest ==
    ASSUME Types, Newest, NEW p \in Slots, NEW kind \in Kinds \ {"reset"},
           Issue(kind), SendsNew(p, kind), user' # None,
           user # None => user'.reset = user.reset, spent' = spent, lost' = lost
    PROVE  Newest'
<1>1. /\ DOMAIN issued' = DOMAIN issued \cup {NextToken}
      /\ \A t \in DOMAIN issued : issued'[t] = issued[t]
      /\ issued'[NextToken].kind = kind
  BY IssueFacts DEF Types
<1>2. NextToken \notin DOMAIN issued
  BY IssueFacts DEF Types
<1>3. ResetLinks' = ResetLinks
  BY <1>1, <1>2 DEF ResetLinks
<1>4. \A q \in Slots : req'[q].op = "reset" => req'[q] = req[q]
  BY DEF SendsNew
<1> QED
  BY <1>3, <1>4 DEF Newest

-----------------------------------------------------------------------------
(* Requests that load the row.                                             *)

LEMMA HoldStep ==
    ASSUME IInv, NEW p \in Slots, user # None, NEW r \in Holding, r.seen = user,
           req' = [req EXCEPT ![p] = r],
           r \in Redeeming => /\ r.more.token \in mailed /\ issued[r.more.token].kind = r.op
                              /\ user[r.op] = r.more.token,
           r.op \in Kinds => r \in Redeeming,
           UNCHANGED <<row, issued, mailed, now, ghosts>>
    PROVE  IInv'
<1>1. UNCHANGED <<user, session, api, spent, trusted, crossed, lost>>
  BY DEF row, ghosts
<1>2. Types /\ \A q \in Slots : Sound(q)
  BY DEF IInv
<1>3. \A q \in Slots : req'[q] = IF q = p THEN r ELSE req[q]
  BY <1>2 DEF Types
<1>4. r \in Request /\ r.op \notin {"send", "idle"}
  BY DEF Request, Holding, Redeeming, Kinds
<1>5. Types'
  BY <1>1, <1>2, <1>3, <1>4 DEF Types, TypeOK
<1>6. \A q \in Slots : Sound(q)'
  <2> TAKE q \in Slots
  <2>1. CASE q = p
    <3>1. \A k \in Kinds : user[k] < NextToken
      BY <1>2, LinkNumbers DEF Types, TypeOK
    <3> QED
      BY <1>1, <1>3, <1>4, <2>1, <3>1 DEF Sound, NextToken
  <2>2. CASE q # p
    BY <1>1, <1>2, <1>3, <2>2 DEF Sound, NextToken
  <2> QED
    BY <2>1, <2>2
<1>7. Unspent'
  BY <1>1 DEF IInv, Unspent
<1>8. Confirmed'
  <2>1. r.op = "verification" => r.more.token = user.verification /\ r.more.token \in mailed
    BY DEF Kinds
  <2> QED
    BY <1>1, <1>3, <2>1 DEF IInv, Confirmed
<1>9. Newest'
  <2>1. r.op = "reset" => r.more.token = user.reset
    BY DEF Kinds
  <2> QED
    BY <1>1, <1>3, <2>1 DEF IInv, Newest, ResetLinks
<1> QED
  BY <1>5, <1>6, <1>7, <1>8, <1>9 DEF IInv

LEMMA LoadStep ==
    ASSUME IInv, NEW p \in Slots, NEW op, NEW more, user # None, Loaded(p, op, more),
           UNCHANGED <<row, issued, mailed, now, ghosts>>,
           \/ op \in {"forgot", "approve", "deactivate"} /\ more = {}
           \/ op = "profile" /\ more \in Addresses
           \/ op = "change" /\ more \in Passwords
    PROVE  IInv'
<1> DEFINE r == [op |-> op, seen |-> user, more |-> more]
<1>1. user \in User
  BY DEF IInv, Types, TypeOK
<1>2. r \in Holding /\ r.seen = user /\ r.op \notin Kinds /\ r \notin Redeeming
  BY <1>1 DEF Holding, Redeeming, Kinds
<1>3. req' = [req EXCEPT ![p] = r]
  BY DEF Loaded
<1> HIDE DEF r
<1> QED
  BY <1>2, <1>3, HoldStep

LEMMA LoadRedeemStep ==
    ASSUME IInv, NEW p \in Slots, NEW t \in mailed, NEW pw \in Passwords, LoadRedeem(p, t, pw),
           UNCHANGED <<row, issued, mailed, now, ghosts>>
    PROVE  IInv'
<1> DEFINE r == [op |-> issued[t].kind, seen |-> user, more |-> [token |-> t, password |-> pw]]
<1>1. user \in User /\ user # None /\ t \in DOMAIN issued /\ issued[t].kind \in Kinds /\ t \in Tokens
  <2>1. user # None
    BY DEF LoadRedeem
  <2>2. user \in User /\ t \in DOMAIN issued /\ issued[t].kind \in Kinds
    BY <2>1 DEF IInv, Types, TypeOK
  <2> QED
    BY <2>1, <2>2, LinkNumbers DEF IInv, Types, Tokens
<1>2. r \in Redeeming /\ r.seen = user /\ r.op = issued[t].kind /\ r.more.token = t
  BY <1>1 DEF Redeeming
<1>3. req' = [req EXCEPT ![p] = r] /\ user[r.op] = t
  BY DEF LoadRedeem, Loaded
<1> HIDE DEF r
<1>4. r \in Holding
  BY <1>2 DEF Holding
<1> QED
  BY <1>1, <1>2, <1>3, <1>4, HoldStep

LEMMA BeginStep == ASSUME IInv, NEW p \in Slots, Begin(p) PROVE IInv'
<1>1. UNCHANGED <<row, issued, mailed, now, ghosts>>
  BY DEF Begin
<1>2. ASSUME NEW t \in mailed, NEW pw \in Passwords, LoadRedeem(p, t, pw) PROVE IInv'
  BY <1>1, <1>2, LoadRedeemStep
<1>3. ASSUME NEW a \in Addresses, LoadUpdateProfile(p, a) PROVE IInv'
  <2>1. user # None /\ Loaded(p, "profile", a)
    BY <1>3 DEF LoadUpdateProfile, Signed
  <2> QED
    BY <1>1, <2>1, LoadStep
<1>4. ASSUME NEW current, NEW pw \in Passwords, LoadChangePassword(p, current, pw) PROVE IInv'
  <2>1. user # None /\ Loaded(p, "change", pw)
    BY <1>4 DEF LoadChangePassword, Signed
  <2> QED
    BY <1>1, <2>1, LoadStep
<1>5. ASSUME NEW op \in {"forgot", "approve", "deactivate"}, user # None, Loaded(p, op, {})
      PROVE  IInv'
  BY <1>1, <1>5, LoadStep
<1> QED
  BY <1>2, <1>3, <1>4, <1>5
     DEF Begin, LoadForgotPassword, LoadApprove, LoadApproveMember, LoadDeactivate

-----------------------------------------------------------------------------
(* What the commits write.                                                 *)

\* The row after a commit that changes a password or whether the account is active.
LEMMA UnlinkedStep ==
    ASSUME IInv, NEW p \in Slots, user # None, user' \in User, Free(p),
           \A c \in {"email", "verified", "verification", "invite", "reset"} : user'[c] = user[c],
           issued' = issued, mailed' = mailed, now' = now,
           session' \in (0 .. MaxTime) \cup {None}, api' \in BOOLEAN,
           UNCHANGED <<spent, trusted, lost>>, crossed => crossed'
    PROVE  IInv'
<1>1. Released
  BY ReleaseFacts DEF IInv, Types
<1>2. user' # None /\ \A k \in Kinds : user'[k] = user[k]
  BY NoneAssumption DEF Kinds
<1>3. Types' /\ \A q \in Slots : Sound(q)'
  BY <1>1, <1>2, PlainStep DEF IInv
<1>4. Unspent'
  BY <1>2, PlainUnspent DEF IInv
<1>5. Confirmed'
  BY <1>1, PlainConfirmed DEF IInv
<1>6. Newest'
  BY <1>1, <1>2, PlainNewest DEF IInv
<1> QED
  BY <1>3, <1>4, <1>5, <1>6 DEF IInv

LEMMA HeldFacts ==
    ASSUME Types, NEW p \in Slots,
           req[p].op \in Kinds \cup {"forgot", "approve", "deactivate", "profile", "change"}
    PROVE  req[p].seen \in User /\ user \in User /\ user # None /\ req[p] \in Holding
<1>1. req[p] \in Holding
  BY RequestFacts DEF Types
<1>2. req[p].op # "idle"
  BY DEF Kinds
<1> QED
  BY <1>1, <1>2, RequestFacts DEF Types, TypeOK

LEMMA ChangePasswordStep ==
    ASSUME IInv, NEW p \in Slots, ChangePassword(p), mailed' = mailed, now' = now
    PROVE  IInv'
<1> DEFINE r == req[p]
           new == [r.seen EXCEPT !.password = r.more]
<1>1. r.seen \in User /\ user \in User /\ user # None /\ r.more \in Passwords
  BY HeldFacts, RequestFacts DEF ChangePassword, IInv, Types
<1>2. new \in User /\ \A c \in Columns \ {"password"} : new[c] = r.seen[c]
  BY <1>1 DEF User, Columns
<1>3. user' = Save(r.seen, new) /\ Free(p)
  BY DEF ChangePassword
<1> HIDE DEF new
<1>4. user' \in User /\ \A c \in Columns \ {"password"} : user'[c] = user[c]
  BY <1>1, <1>2, <1>3, Saved
<1> QED
  BY <1>1, <1>3, <1>4, UnlinkedStep DEF ChangePassword, Columns, ghosts, IInv, Types, TypeOK

LEMMA DeactivateStep ==
    ASSUME IInv, NEW p \in Slots, Deactivate(p), mailed' = mailed, now' = now
    PROVE  IInv'
<1> DEFINE r == req[p]
           new == [r.seen EXCEPT !.active = FALSE]
<1>1. r.seen \in User /\ user \in User /\ user # None
  BY HeldFacts DEF Deactivate, IInv
<1>2. new \in User /\ \A c \in Columns \ {"active"} : new[c] = r.seen[c]
  BY <1>1 DEF User, Columns
<1>3. user' = Save(r.seen, new) /\ Free(p)
  BY DEF Deactivate
<1> HIDE DEF new
<1>4. user' \in User /\ \A c \in Columns \ {"active"} : user'[c] = user[c]
  BY <1>1, <1>2, <1>3, Saved
<1> QED
  BY <1>1, <1>3, <1>4, UnlinkedStep DEF Deactivate, Columns, ghosts, IInv, Types, TypeOK

\* A link that is followed leaves its column, and no other column has it.
LEMMA SpentStep ==
    ASSUME IInv, NEW p \in Slots, req[p].op \in Kinds, user # None, issued' = issued,
           spent' = spent \cup {req[p].more.token}, user'[req[p].op] = 0,
           \A k \in Kinds : user'[k] = user[k] \/ user'[k] = 0
    PROVE  Unspent'
<1> DEFINE t == req[p].more.token
<1>1. t \in DOMAIN issued /\ issued[t].kind = req[p].op
  BY RequestFacts DEF IInv, Types, TypeOK, Sound
<1>2. 0 \notin DOMAIN issued
  BY LinkNumbers DEF IInv, Types
<1>3. \A k \in Kinds : user[k] = 0 \/ issued[user[k]].kind = k
  BY DEF IInv, Types, TypeOK
<1>4. \A k \in Kinds : user'[k] # t
  BY <1>1, <1>2, <1>3
<1> HIDE DEF t
<1>5. \A k \in Kinds : user'[k] \notin spent
  BY <1>2 DEF IInv, Unspent
<1> QED
  BY <1>1, <1>4, <1>5 DEF IInv, Unspent, t

LEMMA RedeemStep ==
    ASSUME IInv, NEW p \in Slots, Redeem(p), mailed' = mailed, now' = now
    PROVE  IInv'
<1> DEFINE r == req[p]
           new == [r.seen EXCEPT ![r.op] = 0, !.password = r.more.password]
<1>1. r.op \in {"invite", "reset"} /\ r.op \in Kinds
  BY DEF Redeem, Kinds
<1>2. r.seen \in User /\ user \in User /\ user # None /\ r \in Redeeming
  BY <1>1, HeldFacts, RequestFacts DEF IInv, Types
<1>3. r.seen[r.op] = r.more.token /\ r.more.token # 0 /\ r.more.password \in Passwords
  BY <1>2 DEF IInv, Sound, Redeeming, Tokens
<1>4. /\ new \in User /\ new[r.op] = 0
      /\ \A c \in Columns \ {r.op, "password"} : new[c] = r.seen[c]
  BY <1>1, <1>2, <1>3 DEF User, Columns
<1>5. user' = Save(r.seen, new) /\ Free(p)
  BY DEF Redeem
<1> HIDE DEF new
<1>6. user' \in User /\ user'[r.op] = 0 /\ \A c \in Columns \ {r.op, "password"} : user'[c] = user[c]
  BY <1>1, <1>2, <1>3, <1>4, <1>5, Saved DEF Columns
<1>7. \A k \in Kinds : user'[k] = user[k] \/ user'[k] = 0
  BY <1>6 DEF Kinds, Columns
<1>8. Released /\ user' # None /\ now \in 0 .. MaxTime
  BY <1>5, <1>6, ReleaseFacts, NoneAssumption DEF IInv, Types
<1>9. UNCHANGED <<issued, api, trusted, crossed, lost>> /\ session' = now
      /\ spent' = spent \cup {r.more.token}
  BY DEF Redeem
<1>10. Types' /\ \A q \in Slots : Sound(q)'
  BY <1>2, <1>6, <1>7, <1>8, <1>9, PlainStep DEF IInv, Types, TypeOK
<1>11. Unspent'
  BY <1>1, <1>2, <1>6, <1>7, <1>9, SpentStep
<1>12. Confirmed'
  <2>1. user'.email = user.email /\ user'.verified = user.verified
        /\ user'.verification = user.verification
    BY <1>1, <1>6 DEF Columns
  <2> QED
    BY <1>2, <1>8, <1>9, <2>1, PlainConfirmed DEF IInv
<1>13. Newest'
  <2>1. CASE r.op = "invite"
    <3>1. user'.reset = user.reset
      BY <1>6, <2>1 DEF Columns
    <3> QED
      BY <1>8, <1>9, <3>1, PlainNewest DEF IInv
  <2>2. CASE r.op = "reset"
    <3>1. ResetLinks' = ResetLinks
      BY <1>9 DEF ResetLinks
    <3> QED
      BY <1>8, <1>9, <2>2, <3>1 DEF IInv, Newest, Released
  <2> QED
    BY <1>1, <2>1, <2>2
<1> QED
  BY <1>10, <1>11, <1>12, <1>13 DEF IInv

\* The link was mailed to the address the account has, unless that was crossed.
LEMMA VerifyStep ==
    ASSUME IInv, NEW p \in Slots, VerifyEmail(p), mailed' = mailed, now' = now
    PROVE  IInv'
<1> DEFINE r == req[p]
           new == [r.seen EXCEPT !.verified = TRUE, !.verification = 0]
<1>1. r.op = "verification" /\ r.op \in Kinds
  BY DEF VerifyEmail, Kinds
<1>2. r.seen \in User /\ user \in User /\ user # None /\ r \in Redeeming
  BY <1>1, HeldFacts, RequestFacts DEF IInv, Types
<1>3. r.seen.verification = r.more.token /\ r.more.token # 0
  BY <1>1, <1>2 DEF IInv, Sound, Redeeming, Tokens
<1>4. /\ new \in User /\ new.verification = 0
      /\ \A c \in Columns \ {"verification", "verified"} : new[c] = r.seen[c]
  BY <1>2 DEF User, Columns
<1>5. user' = Save(r.seen, new) /\ Free(p)
  BY DEF VerifyEmail
<1> HIDE DEF new
<1>6. /\ user' \in User /\ user'.verification = 0
      /\ \A c \in Columns \ {"verification", "verified"} : user'[c] = user[c]
  BY <1>2, <1>3, <1>4, <1>5, Saved DEF Columns
<1>7. \A k \in Kinds : user'[k] = user[k] \/ user'[k] = 0
  BY <1>6 DEF Kinds, Columns
<1>8. Released /\ user' # None
  BY <1>5, <1>6, ReleaseFacts, NoneAssumption DEF IInv, Types
<1>9. UNCHANGED <<issued, api, session, crossed, lost>> /\ spent' = spent \cup {r.more.token}
      /\ trusted' = trusted \cup {issued[r.more.token].to}
  BY DEF VerifyEmail
<1>10. Types' /\ \A q \in Slots : Sound(q)'
  BY <1>2, <1>6, <1>7, <1>8, <1>9, PlainStep DEF IInv, Types, TypeOK
<1>11. Unspent'
  BY <1>1, <1>2, <1>6, <1>7, <1>9, SpentStep
<1>12. Confirmed'
  <2>1. user'.email = user.email /\ user'.reset = user.reset
    BY <1>6 DEF Columns
  <2>2. 0 \notin mailed
    BY LinkNumbers DEF IInv, Types, TypeOK
  <2>3. ~crossed => user'.email \in trusted'
    BY <1>1, <1>2, <1>9, <2>1 DEF IInv, Confirmed
  <2> QED
    BY <1>2, <1>6, <1>8, <1>9, <2>1, <2>2, <2>3 DEF IInv, Confirmed, Released
<1>13. Newest'
  <2>1. user'.reset = user.reset
    BY <1>6 DEF Columns
  <2> QED
    BY <1>8, <1>9, <2>1, PlainNewest DEF IInv
<1> QED
  BY <1>10, <1>11, <1>12, <1>13 DEF IInv

\* Who approves an account answers for the address it was loaded with.
LEMMA ApproveStep ==
    ASSUME IInv, NEW p \in Slots, ApproveUser(p), mailed' = mailed, now' = now
    PROVE  IInv'
<1> DEFINE seen == req[p].seen
           new == [seen EXCEPT !.active = TRUE, !.verified = TRUE, !.verification = 0]
           Written == {"active", "verified", "verification"}
<1>1. seen \in User /\ user \in User /\ user # None /\ req[p].op = "approve"
  BY HeldFacts DEF ApproveUser, IInv
<1>2. new \in User /\ new.verification = 0 /\ \A c \in Columns \ Written : new[c] = seen[c]
  BY <1>1 DEF User, Columns
<1>3. user' = Save(seen, new) /\ Free(p)
  BY DEF ApproveUser
<1> HIDE DEF new
<1>4. /\ user' \in User /\ \A c \in Columns \ Written : user'[c] = user[c]
      /\ user'.verification = user.verification \/ user'.verification = 0
  BY <1>1, <1>2, <1>3, Saved DEF Columns
<1>5. \A k \in Kinds : user'[k] = user[k] \/ user'[k] = 0
  BY <1>4 DEF Kinds, Columns
<1>6. Released /\ user' # None
  BY <1>3, <1>4, ReleaseFacts, NoneAssumption DEF IInv, Types
<1>7. UNCHANGED <<issued, api, session, spent, crossed, lost>> /\ trusted' = trusted \cup {seen.email}
  BY DEF ApproveUser
<1>8. Types' /\ \A q \in Slots : Sound(q)'
  BY <1>1, <1>4, <1>5, <1>6, <1>7, PlainStep DEF IInv, Types, TypeOK
<1>9. Unspent'
  BY <1>1, <1>5, <1>7, PlainUnspent DEF IInv
<1>10. user'.email = user.email /\ user'.reset = user.reset
  BY <1>4 DEF Columns
<1>11. Confirmed'
  <2>1. 0 \notin mailed
    BY LinkNumbers DEF IInv, Types, TypeOK
  <2>2. ~crossed => user'.email \in trusted'
    BY <1>1, <1>7, <1>10 DEF IInv, Confirmed
  <2> QED
    BY <1>1, <1>4, <1>6, <1>7, <1>10, <2>1, <2>2 DEF IInv, Confirmed, Released
<1>12. Newest'
  BY <1>6, <1>7, <1>10, PlainNewest DEF IInv
<1> QED
  BY <1>8, <1>9, <1>11, <1>12 DEF IInv

-----------------------------------------------------------------------------
(* Commits that make a link.                                               *)

LEMMA IssueConfirmed ==
    ASSUME Types, Confirmed, NEW p \in Slots, NEW kind \in Kinds, Issue(kind), SendsNew(p, kind),
           mailed' = mailed, user # None, user'.email = user.email,
           user'.verified = user.verified, user'.verification = user.verification,
           UNCHANGED <<crossed, trusted>>, \A q \in Slots : Sound(q)
    PROVE  Confirmed'
<1>1. \A t \in DOMAIN issued : issued'[t] = issued[t]
  BY IssueFacts DEF Types
<1>2. mailed \subseteq DOMAIN issued
  BY DEF Types, TypeOK
<1>3. \A q \in Slots : req'[q].op \in {"verification", "approve"} => req'[q] = req[q]
  BY DEF SendsNew
<1>4. \A q \in Slots : req[q].op = "verification" => req[q].more.token \in DOMAIN issued
  BY <1>2, RequestFacts DEF Types, Sound, Kinds
<1> QED
  BY <1>1, <1>2, <1>3, <1>4 DEF Confirmed

\* The newest reset link is in the column, or the ones being redeemed are accounted for.
LEMMA ForgotStep ==
    ASSUME IInv, NEW p \in Slots, ForgotPassword(p), mailed' = mailed, now' = now
    PROVE  IInv'
<1> DEFINE seen == req[p].seen
           new == [seen EXCEPT !.reset = NextToken]
<1>1. seen \in User /\ user \in User /\ user # None /\ req[p] \in Holding
  BY HeldFacts DEF ForgotPassword, IInv
<1>2. /\ seen.reset # NextToken /\ NextToken \in Tokens
      /\ DOMAIN issued' = DOMAIN issued \cup {NextToken}
      /\ \A t \in DOMAIN issued : t < NextToken /\ issued'[t] = issued[t]
      /\ issued'[NextToken].kind = "reset"
  <2>1. seen.reset < NextToken /\ seen.reset \in Nat
    BY <1>1 DEF IInv, Sound, Kinds, User, Tokens
  <2>2. Issue("reset") /\ "reset" \in Kinds
    BY DEF ForgotPassword, Kinds
  <2>3. /\ NextToken \in Tokens /\ DOMAIN issued' = DOMAIN issued \cup {NextToken}
        /\ \A t \in DOMAIN issued : t < NextToken /\ issued'[t] = issued[t]
        /\ issued'[NextToken].kind = "reset"
    BY <2>2, IssueFacts DEF IInv, Types
  <2>4. seen.reset # NextToken
    BY <2>1, <2>3 DEF Tokens
  <2> QED
    BY <2>3, <2>4
<1>3. new \in User /\ new.reset = NextToken /\ \A c \in Columns \ {"reset"} : new[c] = seen[c]
  BY <1>1, <1>2 DEF User, Columns
<1>4. user' = Save(seen, new)
  BY DEF ForgotPassword
<1> HIDE DEF new
<1>5. user' \in User /\ user'.reset = NextToken /\ \A c \in Columns \ {"reset"} : user'[c] = user[c]
  BY <1>1, <1>2, <1>3, <1>4, Saved DEF Columns
<1>6. SendsNew(p, "reset")
  <2>1. seen.email \in Addresses
    BY <1>1 DEF User
  <2> QED
    BY <1>2, <2>1, SendingFacts DEF ForgotPassword, IInv, Types, Kinds
<1>7. /\ Issue("reset") /\ "reset" \in Kinds
      /\ UNCHANGED <<session, api, spent, trusted, crossed>>
      /\ lost' = IF Busy({"reset"}) THEN lost \cup {NextToken} ELSE lost
  BY DEF ForgotPassword, Kinds
<1>8. \A k \in Kinds : \/ user # None /\ user'[k] = user[k]
                       \/ k = "reset" /\ user'[k] = NextToken
  BY <1>1, <1>5 DEF Kinds, Columns
<1>9. Types' /\ \A q \in Slots : Sound(q)'
  BY <1>5, <1>6, <1>7, <1>8, IssueStep DEF IInv
<1>10. Unspent'
  BY <1>7, <1>8, IssueUnspent DEF IInv
<1>11. Confirmed'
  BY <1>1, <1>5, <1>6, <1>7, IssueConfirmed DEF IInv, Columns
<1>12. Newest'
  <2>1. NextToken \in ResetLinks'
    BY <1>2 DEF ResetLinks
  <2>2. ASSUME NEW t \in ResetLinks', \A s \in ResetLinks' : s <= t PROVE t = NextToken
    <3>1. t \in DOMAIN issued' /\ NextToken <= t
      BY <2>1, <2>2 DEF ResetLinks
    <3>2. NextToken \in Nat /\ \A s \in DOMAIN issued : s \in Nat /\ s < NextToken
      BY LinkNumbers DEF IInv, Types
    <3> QED
      BY <1>2, <3>1, <3>2
  <2>3. user' # None
    BY <1>5, NoneAssumption
  <2>4. \A q \in Slots : req'[q].op = "reset" => NextToken \in lost'
    BY <1>6, <1>7 DEF SendsNew, Busy
  <2> QED
    BY <1>5, <2>2, <2>3, <2>4 DEF Newest
<1> QED
  BY <1>9, <1>10, <1>11, <1>12 DEF IInv

\* A change of the address makes the account unverified, with a new link; what would
\* contradict that is being processed or has been since the row was loaded.
LEMMA ChangeMailedStep ==
    ASSUME IInv, NEW p \in Slots, UpdateProfile(p), req[p].more # req[p].seen.email, smtp,
           mailed' = mailed, now' = now
    PROVE  IInv'
<1> DEFINE r == req[p]
           new == [r.seen EXCEPT !.email = r.more, !.verified = FALSE, !.verification = NextToken]
           Written == {"email", "verified", "verification"}
<1>1. r.seen \in User /\ user \in User /\ user # None /\ r \in Holding /\ r.more \in Addresses
  BY HeldFacts, RequestFacts DEF UpdateProfile, IInv, Types
<1>2. Issue("verification") /\ "verification" \in Kinds \ {"reset"} /\ Sending(p, None)
  BY DEF UpdateProfile, Kinds
<1>3. r.seen.verification # NextToken /\ NextToken \in Tokens /\ NextToken \notin DOMAIN issued
  <2>1. r.seen.verification < NextToken /\ r.seen.verification \in Nat
    BY <1>1 DEF IInv, Sound, Kinds, User, Tokens
  <2> QED
    BY <2>1, <1>2, IssueFacts DEF IInv, Types, Tokens
<1>4. /\ new \in User /\ new.verification = NextToken /\ new.email = r.more /\ new.verified = FALSE
      /\ \A c \in Columns \ Written : new[c] = r.seen[c]
  BY <1>1, <1>3 DEF User, Columns
<1>5. user' = Save(r.seen, new)
  BY DEF UpdateProfile
<1> HIDE DEF new
<1>6. /\ user' \in User /\ user'.verification = NextToken
      /\ \A c \in Columns \ Written : user'[c] = user[c]
      /\ user'.verified = IF FALSE # r.seen.verified THEN FALSE ELSE user.verified
  <2>1. user' \in User /\ \A c \in Columns :
            user'[c] = IF new[c] # r.seen[c] THEN new[c] ELSE user[c]
    BY <1>1, <1>4, <1>5, Saved
  <2>2. user'.verification = NextToken /\ \A c \in Columns \ Written : user'[c] = user[c]
    BY <1>3, <1>4, <2>1 DEF Columns
  <2>3. user'.verified = IF new.verified # r.seen.verified THEN new.verified ELSE user.verified
    BY <2>1 DEF Columns
  <2>4. user'.verified = IF FALSE # r.seen.verified THEN FALSE ELSE user.verified
    BY <1>4, <2>3, Zenon
  <2> QED
    BY <2>1, <2>2, <2>4
<1>7. SendsNew(p, "verification")
  BY <1>2, <1>3, SendingFacts DEF IInv, Types
<1>8. /\ UNCHANGED <<session, api, spent, lost, trusted>>
      /\ crossed' = (crossed \/ (\/ Busy({"verification", "approve"})
                                 \/ r.seen.verified # user.verified))
  BY DEF UpdateProfile
<1>9. \A k \in Kinds : \/ user # None /\ user'[k] = user[k]
                       \/ k = "verification" /\ user'[k] = NextToken
  BY <1>1, <1>6 DEF Kinds, Columns
<1>10. Types' /\ \A q \in Slots : Sound(q)'
  BY <1>2, <1>6, <1>7, <1>8, <1>9, IssueStep DEF IInv
<1>11. Unspent'
  BY <1>2, <1>8, <1>9, IssueUnspent DEF IInv
<1>12. Confirmed'
  <2> SUFFICES ASSUME ~crossed' PROVE Confirmed'
    BY DEF Confirmed
  <2>1. ~Busy({"verification", "approve"}) /\ r.seen.verified = user.verified
    BY <1>8
  <2>2. ~user'.verified
    <3>1. r.seen.verified \in BOOLEAN
      BY <1>1 DEF User
    <3> QED
      BY <1>6, <2>1, <3>1
  <2>3. \A q \in Slots : req'[q].op \notin {"verification", "approve"}
    BY <1>7, <2>1 DEF SendsNew, Busy
  <2>4. user'.verification \notin mailed'
    BY <1>3, <1>6 DEF IInv, Types, TypeOK
  <2> QED
    BY <2>2, <2>3, <2>4 DEF Confirmed
<1>13. Newest'
  <2>1. user'.reset = user.reset /\ user' # None
    BY <1>6, NoneAssumption DEF Columns
  <2> QED
    BY <1>2, <1>7, <1>8, <2>1, IssueNewest DEF IInv
<1> QED
  BY <1>10, <1>11, <1>12, <1>13 DEF IInv

\* Where no mail is sent, or the address stays, no link is made.
LEMMA ChangeUnmailedStep ==
    ASSUME IInv, NEW p \in Slots, UpdateProfile(p), ~(req[p].more # req[p].seen.email /\ smtp),
           mailed' = mailed, now' = now
    PROVE  IInv'
<1> DEFINE r == req[p]
           new == [r.seen EXCEPT !.email = r.more]
<1>1. r.seen \in User /\ user \in User /\ user # None /\ r.more \in Addresses
  BY HeldFacts, RequestFacts DEF UpdateProfile, IInv, Types
<1>2. new \in User /\ new.email = r.more /\ \A c \in Columns \ {"email"} : new[c] = r.seen[c]
  BY <1>1 DEF User, Columns
<1>3. user' = Save(r.seen, new) /\ Free(p)
  BY DEF UpdateProfile
<1> HIDE DEF new
<1>4. /\ user' \in User /\ \A c \in Columns \ {"email"} : user'[c] = user[c]
      /\ user'.email = IF r.more # r.seen.email THEN r.more ELSE user.email
  BY <1>1, <1>2, <1>3, Saved DEF Columns
<1>5. /\ UNCHANGED <<session, api, spent, lost, issued>> /\ (crossed => crossed')
      /\ trusted' = trusted \cup (IF r.more # r.seen.email THEN {r.more} ELSE {})
  BY DEF UpdateProfile
<1>6. CASE r.more = r.seen.email
  <2>1. trusted' = trusted /\ \A c \in Columns : user'[c] = user[c]
    BY <1>4, <1>5, <1>6 DEF Columns
  <2> QED
    BY <1>1, <1>3, <1>4, <1>5, <2>1, UnlinkedStep DEF Columns, IInv, Types, TypeOK
<1>7. CASE r.more # r.seen.email
  <2>1. Released /\ user' # None /\ \A k \in Kinds : user'[k] = user[k]
    BY <1>3, <1>4, ReleaseFacts, NoneAssumption DEF IInv, Types, Kinds, Columns
  <2>2. Types' /\ \A q \in Slots : Sound(q)'
    BY <1>1, <1>4, <1>5, <2>1, PlainStep DEF IInv, Types, TypeOK
  <2>3. Unspent'
    BY <1>1, <1>5, <2>1, PlainUnspent DEF IInv
  <2>4. Confirmed'
    <3> SUFFICES ASSUME ~crossed' PROVE Confirmed'
      BY DEF Confirmed
    <3>1. ~Busy({"verification", "approve"})
      BY <1>7 DEF UpdateProfile
    <3>2. \A q \in Slots : req'[q].op \notin {"verification", "approve"}
      BY <2>1, <3>1 DEF Released, Busy
    <3>3. user'.email \in trusted'
      BY <1>4, <1>5, <1>7
    <3> QED
      BY <3>2, <3>3 DEF Confirmed
  <2>5. Newest'
    BY <1>4, <1>5, <2>1, PlainNewest DEF IInv, Columns
  <2> QED
    BY <2>2, <2>3, <2>4, <2>5 DEF IInv
<1> QED
  BY <1>6, <1>7

-----------------------------------------------------------------------------
(* The account comes to be; mail; requests of one step.                    *)

LEMMA NewUserFacts ==
    ASSUME NEW a \in Addresses
    PROVE  /\ NewUser(a) \in User
           /\ NewUser(a).email = a /\ NewUser(a).verification = 0
           /\ \A k \in Kinds : NewUser(a)[k] = 0
BY DEF NewUser, User, Kinds, Tokens

\* The first row with its first link.
LEMMA CreateStep ==
    ASSUME IInv, NEW p \in Slots, NEW kind \in Kinds \ {"reset"}, user = None, user' \in User,
           Issue(kind), Sending(p, None), mailed' = mailed, now' = now,
           \A k \in Kinds : user'[k] = 0 \/ (k = kind /\ user'[k] = NextToken),
           user'.verified => user'.email \in trusted',
           UNCHANGED <<session, api, spent, crossed, lost>>
    PROVE  IInv'
<1>1. NextToken \in Tokens /\ NextToken \notin DOMAIN issued
  BY IssueFacts DEF IInv, Types
<1>2. SendsNew(p, kind)
  BY <1>1, SendingFacts DEF IInv, Types
<1>3. Types' /\ \A q \in Slots : Sound(q)'
  BY <1>2, IssueStep DEF IInv
<1>4. Unspent'
  BY IssueUnspent DEF IInv
<1>5. Confirmed'
  <2>1. \A q \in Slots : req'[q].op \in {"idle", "send"}
    BY <1>2 DEF IInv, Types, SendsNew
  <2>2. user'.verification \notin mailed'
    BY <1>1, LinkNumbers DEF IInv, Types, TypeOK, Kinds
  <2> QED
    BY <2>1, <2>2 DEF Confirmed
<1>6. Newest'
  BY <1>2, NoneAssumption, IssueNewest DEF IInv
<1> QED
  BY <1>3, <1>4, <1>5, <1>6 DEF IInv

LEMMA RegisterStep ==
    ASSUME IInv, NEW p \in Slots, NEW a \in Addresses, NEW pw \in Passwords, Register(p, a, pw),
           mailed' = mailed, now' = now
    PROVE  IInv'
<1>1. CASE smtp
  <2> DEFINE u == [NewUser(a) EXCEPT !.password = pw, !.verified = FALSE, !.verification = NextToken]
  <2>1. Issue("verification") /\ Sending(p, None) /\ user' = u /\ "verification" \in Kinds \ {"reset"}
    BY <1>1 DEF Register, Kinds
  <2>2. NextToken \in Tokens
    BY <2>1, IssueFacts DEF IInv, Types
  <2>3. u \in User /\ ~u.verified /\ u.verification = NextToken /\ u.invite = 0 /\ u.reset = 0
    BY <2>2 DEF NewUser, User
  <2> HIDE DEF u
  <2>4. \A k \in Kinds : user'[k] = 0 \/ (k = "verification" /\ user'[k] = NextToken)
    BY <2>1, <2>3 DEF Kinds
  <2> QED
    BY <2>1, <2>3, <2>4, CreateStep DEF Register
<1>2. CASE ~smtp
  <2> DEFINE u == [NewUser(a) EXCEPT !.password = pw]
  <2>1. /\ user = None /\ user' = u /\ trusted' = {a}
        /\ UNCHANGED <<issued, req, session, api, spent, crossed, lost>>
    BY <1>2 DEF Register
  <2>2. u \in User /\ u.email = a /\ u.verification = 0 /\ u.invite = 0 /\ u.reset = 0
    BY DEF NewUser, User
  <2> HIDE DEF u
  <2>3. u # None /\ \A k \in Kinds : u[k] = 0
    BY <2>2, NoneAssumption DEF Kinds
  <2>4. \A q \in Slots : req[q].op = "idle"
    BY <2>1 DEF IInv, Types
  <2>5. Types'
    BY <2>1, <2>2, <2>3, <2>4 DEF IInv, Types, TypeOK
  <2>6. \A q \in Slots : Sound(q)'
    BY <2>1 DEF IInv, Sound, NextToken
  <2>7. Unspent'
    BY <2>1, <2>3, LinkNumbers DEF IInv, Types, Unspent
  <2>8. Confirmed'
    BY <2>1, <2>2, <2>4 DEF Confirmed
  <2>9. Newest'
    BY <2>1 DEF IInv, Newest, ResetLinks
  <2> QED
    BY <2>5, <2>6, <2>7, <2>8, <2>9 DEF IInv
<1> QED
  BY <1>1, <1>2

LEMMA InviteStep ==
    ASSUME IInv, NEW p \in Slots, NEW a \in Addresses, CreateInvitedUser(p, a),
           mailed' = mailed, now' = now
    PROVE  IInv'
<1> DEFINE u == [NewUser(a) EXCEPT !.active = TRUE, !.invite = NextToken]
<1>1. /\ user = None /\ Issue("invite") /\ Sending(p, None) /\ user' = u /\ trusted' = {a}
      /\ "invite" \in Kinds \ {"reset"}
      /\ UNCHANGED <<session, api, spent, crossed, lost>>
  BY DEF CreateInvitedUser, Kinds
<1>2. NextToken \in Tokens
  BY <1>1, IssueFacts DEF IInv, Types
<1>3. u \in User /\ u.email = a /\ u.verification = 0 /\ u.invite = NextToken /\ u.reset = 0
  BY <1>2 DEF NewUser, User
<1> HIDE DEF u
<1>4. \A k \in Kinds : user'[k] = 0 \/ (k = "invite" /\ user'[k] = NextToken)
  BY <1>1, <1>3 DEF Kinds
<1> QED
  BY <1>1, <1>3, <1>4, CreateStep

\* The mail goes to the address of the row, a reset link's to the one that was loaded.
LEMMA SendMailStep == ASSUME IInv, NEW p \in Slots, SendMail(p) PROVE IInv'
<1> DEFINE t == req[p].token
           to == IF req[p].to = None THEN user.email ELSE req[p].to
           link == [issued[t] EXCEPT !.to = to]
<1>1. /\ UNCHANGED <<user, session, api, now, spent, trusted, crossed, lost>>
      /\ issued' = [issued EXCEPT ![t] = link]
      /\ mailed' = mailed \cup {t} \/ mailed' = mailed
      /\ Free(p) /\ req[p].op = "send"
  BY DEF SendMail, row, ghosts
<1>2. /\ req[p].to \in Addresses \cup {None} /\ t \in DOMAIN issued
      /\ req[p].to # None => issued[t].kind = "reset"
      /\ user # None /\ user \in User /\ issued[t] \in Link
  BY <1>1, RequestFacts DEF IInv, Types, TypeOK, Sound, Sender
<1>3. to \in Addresses
  BY <1>2 DEF User
<1>4. link \in Link /\ link.kind = issued[t].kind /\ link.at = issued[t].at /\ link.to = to
  BY <1>2, <1>3 DEF Link
<1> HIDE DEF link
<1>5. /\ issued' \in Seq(Link) /\ DOMAIN issued' = DOMAIN issued /\ Len(issued') = Len(issued)
      /\ \A s \in DOMAIN issued : /\ issued'[s].kind = issued[s].kind
                                  /\ issued'[s].at = issued[s].at
                                  /\ s # t => issued'[s] = issued[s]
      /\ issued'[t].to = to
  BY <1>1, <1>2, <1>4 DEF IInv, Types
<1>6. Released /\ NextToken' = NextToken /\ ResetLinks' = ResetLinks
  BY <1>1, <1>5, ReleaseFacts DEF IInv, Types, NextToken, ResetLinks
<1>7. Types'
  <2>1. mailed' \subseteq DOMAIN issued'
    BY <1>1, <1>2, <1>5 DEF IInv, Types, TypeOK
  <2> QED
    BY <1>1, <1>5, <1>6, <2>1 DEF IInv, Types, TypeOK, Released
<1>8. \A q \in Slots : Sound(q)'
  <2> TAKE q \in Slots
  <2>1. CASE req'[q] = req[q]
    <3>1. Sound(q) /\ mailed \subseteq DOMAIN issued /\ mailed \subseteq mailed'
      BY <1>1 DEF IInv, Types, TypeOK
    <3> QED
      BY <1>1, <1>5, <1>6, <2>1, <3>1 DEF Sound
  <2>2. CASE req'[q].op = "idle"
    BY <2>2 DEF Sound, Redeeming, Holding, Kinds
  <2> QED
    BY <1>6, <2>1, <2>2 DEF Released
<1>9. Unspent'
  BY <1>1, <1>5 DEF IInv, Unspent
<1>10. Confirmed'
  <2>1. issued[t].kind # "reset" => to = user.email
    BY <1>2
  <2>2. /\ user.verification # 0 => issued[user.verification].kind = "verification"
        /\ 0 \notin DOMAIN issued /\ mailed \subseteq DOMAIN issued
    BY <1>2, LinkNumbers DEF IInv, Types, TypeOK, Kinds
  <2>3. \A q \in Slots : req[q].op = "verification" =>
            req[q].more.token \in mailed /\ issued[req[q].more.token].kind = "verification"
    BY RequestFacts DEF IInv, Types, Sound, Kinds
  <2> HIDE DEF to, t
  <2> QED
    BY <1>1, <1>2, <1>5, <1>6, <2>1, <2>2, <2>3 DEF IInv, Confirmed, Released
<1>11. Newest'
  BY <1>1, <1>6 DEF IInv, Newest, Released
<1> QED
  BY <1>7, <1>8, <1>9, <1>10, <1>11 DEF IInv

\* A sign-in, and the API token.
LEMMA SessionStep ==
    ASSUME IInv, UNCHANGED <<user, issued, mailed, now, req, ghosts>>,
           session' \in (0 .. MaxTime) \cup {None}, api' \in BOOLEAN
    PROVE  IInv'
<1>1. UNCHANGED <<spent, trusted, crossed, lost>>
  BY DEF ghosts
<1> QED
  BY <1>1 DEF IInv, Types, TypeOK, Sound, Unspent, Confirmed, Newest, ResetLinks, NextToken

LEMMA AtOnceStep == ASSUME IInv, NEW p \in Slots, AtOnce(p) PROVE IInv'
<1>1. mailed' = mailed /\ now' = now /\ now \in 0 .. MaxTime
      /\ session \in (0 .. MaxTime) \cup {None} /\ api \in BOOLEAN
  BY DEF AtOnce, IInv, Types, TypeOK
<1>2. ASSUME NEW identifier, NEW pw, Login(identifier, pw) PROVE IInv'
  BY <1>1, <1>2, SessionStep DEF Login
<1>3. CASE CreateApiToken \/ DeleteApiToken
  BY <1>1, <1>3, SessionStep DEF CreateApiToken, DeleteApiToken
<1> QED
  BY <1>1, <1>2, <1>3, RegisterStep, InviteStep DEF AtOnce

-----------------------------------------------------------------------------
(* Every step, and the theorems.                                           *)

LEMMA TickStep == IInv /\ Tick => IInv'
<1> SUFFICES ASSUME IInv, Tick PROVE IInv'
  OBVIOUS
<1>1. /\ UNCHANGED <<user, session, api, issued, mailed, req, spent, trusted, crossed, lost>>
      /\ now < MaxTime /\ now' = now + 1
  BY DEF Tick, row, ghosts
<1>2. Types'
  <2>1. now' \in Nat /\ now' <= MaxTime
    BY <1>1, AccountsAssumption DEF IInv, Types
  <2>2. \A t \in DOMAIN issued : issued[t].kind \in Kinds /\ issued[t].at \in 0 .. now'
    BY <1>1 DEF IInv, Types, TypeOK
  <2> QED
    BY <1>1, <2>1, <2>2 DEF IInv, Types, TypeOK
<1> QED
  BY <1>1, <1>2 DEF IInv, Sound, Unspent, Confirmed, Newest, ResetLinks, NextToken

LEMMA RestartStep == IInv /\ Restart => IInv'
<1> SUFFICES ASSUME IInv, Restart PROVE IInv'
  OBVIOUS
<1>1. /\ UNCHANGED <<user, session, api, issued, mailed, now, spent, trusted, crossed, lost>>
      /\ req' = [q \in Slots |-> Idle]
  BY DEF Restart, row, ghosts
<1>2. \A q \in Slots : req'[q].op = "idle" /\ req'[q] \notin Redeeming /\ req'[q] \notin Holding
  BY <1>1 DEF Idle, Redeeming, Holding, Kinds
<1>3. Types'
  BY <1>1 DEF IInv, Types, TypeOK, Request, Idle
<1> QED
  BY <1>1, <1>2, <1>3 DEF IInv, Sound, Unspent, Confirmed, Newest, ResetLinks

LEMMA CommitStep == ASSUME IInv, NEW p \in Slots, Commit(p) PROVE IInv'
<1>1. mailed' = mailed /\ now' = now
  BY DEF Commit
<1>2. CASE UpdateProfile(p)
  BY <1>1, <1>2, ChangeMailedStep, ChangeUnmailedStep
<1> QED
  BY <1>1, <1>2, RedeemStep, VerifyStep, ForgotStep, ChangePasswordStep, ApproveStep,
     DeactivateStep DEF Commit

LEMMA NextIInv == IInv /\ [Next]_vars => IInv'
<1> SUFFICES ASSUME IInv, [Next]_vars PROVE IInv'
  OBVIOUS
<1>1. CASE UNCHANGED vars
  BY <1>1 DEF vars, row, ghosts, IInv, Types, TypeOK, Sound, Unspent, Confirmed, Newest,
              ResetLinks, NextToken
<1> QED
  BY <1>1, AtOnceStep, BeginStep, CommitStep, SendMailStep, TickStep, RestartStep DEF Next

LEMMA Inductive == Spec => []IInv
BY InitIInv, NextIInv, PTL DEF Spec

\* Whatever was loaded before a link was followed and is committed after it, the link does
\* not come back (verify_email, set_password, reset_password).
THEOREM LinksStayFollowed == Spec => []LinksAreLive
<1>1. IInv => LinksAreLive
  BY DEF IInv, Types, Unspent, LinksAreLive
<1> QED
  BY <1>1, Inductive, PTL

\* Nobody's account is verified for an address that nobody answered for, except where a
\* change of the address crossed a verification or an approval (update_profile).
THEOREM OnlyConfirmedIsVerified == Spec => []VerifiedIsConfirmed
<1>1. IInv => VerifiedIsConfirmed
  BY DEF IInv, Confirmed, VerifiedIsConfirmed
<1> QED
  BY <1>1, Inductive, PTL

\* The newest reset link works until it is followed, unless it was made while an older one
\* was being followed (forgot_password, reset_password).
THEOREM NewestResetWorks == Spec => []NewestLinkWorks
<1>1. IInv => NewestLinkWorks
  BY DEF IInv, Newest, NewestLinkWorks
<1> QED
  BY <1>1, Inductive, PTL
=============================================================================
