------------------------------- MODULE Accounts -------------------------------
(***************************************************************************)
(* The credentials of one account (routers/auth.py, with the account side  *)
(* of helpers._create_invited_user and of the two approvals): the password,*)
(* the three kinds of mailed link with their expiry, sign-ins, API tokens, *)
(* and changes of the e-mail address.  A handler loads the row in one step *)
(* and commits in another, writing only the columns it changed.            *)
(***************************************************************************)
EXTENDS Naturals, Sequences, FiniteSets

CONSTANTS
    Addresses,      \* [box, mixed]: a mailbox, and whether it is spelt with capitals
    Callsign,       \* the account's callsign
    Passwords,      \* what can be chosen
    Unset,          \* the random placeholder of an invited account
    None,
    TTL,            \* lifetimes: of the links by kind, and of a sign-in
    MailUp,         \* whether SMTP is configured, as far as it can be
    Slots,          \* requests in flight at once
    MaxTime,        \* bound on the clock
    MaxRequests     \* bound on requests and restarts

Kinds == {"verification", "invite", "reset"}

ASSUME AccountsAssumption ==
    /\ \A a \in Addresses : [a EXCEPT !.mixed = FALSE] \in Addresses
    /\ Unset \notin Passwords /\ MaxTime \in Nat
    /\ TTL.reset < TTL.session /\ TTL.session < TTL.verification /\ TTL.verification < TTL.invite
    /\ MailUp \subseteq BOOLEAN /\ MailUp # {}

VARIABLES
    user,       \* the row of users, None before it is inserted
    issued,     \* every link made, in order; its place is its token
    mailed,     \* those whose mail went out
    session,    \* when the newest access token was made
    api,        \* the account has an API token
    now,        \* the clock
    smtp,       \* SMTP_HOST and the others are set
    req,        \* requests in flight
    accepted,   \* requests and restarts so far
    spent,      \* history: the links that were redeemed
    trusted,    \* history: addresses somebody has answered for
    crossed,    \* history: the address changed while it was being answered for
    lost        \* history: reset links made while another one was being redeemed

row == <<user, session, api>>
ghosts == <<spent, trusted, crossed, lost>>
vars == <<row, issued, mailed, now, smtp, req, accepted, ghosts>>

Tokens == Nat \ {0}

\* A token of 0 is a column that is NULL.  The *_sent_at columns are issued[t].at.
User == [email : Addresses, verified : BOOLEAN, active : BOOLEAN,
         password : Passwords \cup {Unset},
         verification : Tokens \cup {0}, invite : Tokens \cup {0}, reset : Tokens \cup {0}]

ASSUME NoneAssumption == None \notin User

Idle == [op |-> "idle"]

TypeOK ==
    /\ user \in User \cup {None}
    /\ session \in (0 .. MaxTime) \cup {None} /\ api \in BOOLEAN
    /\ mailed \subseteq DOMAIN issued
    /\ \A t \in DOMAIN issued : issued[t].kind \in Kinds /\ issued[t].at \in 0 .. now
    /\ user # None => \A k \in Kinds :
          user[k] # 0 => user[k] \in DOMAIN issued /\ issued[user[k]].kind = k

-----------------------------------------------------------------------------
Lower(a) == [a EXCEPT !.mixed = FALSE]

\* forgot_password, login: the callsign, or the address in small letters.
Names(identifier) == identifier # Callsign => user.email = Lower(identifier)

\* get_current_user: an access token that has not run out, or an API token.
Signed ==
    /\ user # None /\ user.active
    /\ api \/ (session # None /\ now - session <= TTL.session)

\* _token_expired
Expired(t) == now - issued[t].at > TTL[issued[t].kind]

\* The columns a handler changed, over the row as it is by then.
Save(seen, new) == [c \in DOMAIN user |-> IF new[c] # seen[c] THEN new[c] ELSE user[c]]

NextToken == Len(issued) + 1

Issue(kind) == issued' = Append(issued, [kind |-> kind, to |-> None, at |-> now])

Busy(ops) == \E p \in Slots : req[p].op \in ops

Loaded(p, op, more) ==
    req' = [req EXCEPT ![p] = [op |-> op, seen |-> user, more |-> more]]

Free(p) == req' = [req EXCEPT ![p] = Idle]

\* After the commit: the handler still has the mail to send.
Sending(p, to) == req' = [req EXCEPT ![p] = [op |-> "send", token |-> NextToken, to |-> to]]

-----------------------------------------------------------------------------
(* The account comes to be.                                                *)

NewUser(a) == [email |-> a, verified |-> TRUE, active |-> FALSE, password |-> Unset,
               verification |-> 0, invite |-> 0, reset |-> 0]

\* register, of anybody but an instance's first user
Register(p, a, pw) ==
    /\ user = None
    /\ IF smtp
       THEN /\ user' = [NewUser(a) EXCEPT !.password = pw, !.verified = FALSE,
                                          !.verification = NextToken]
            /\ Issue("verification") /\ Sending(p, None) /\ UNCHANGED trusted
       ELSE /\ user' = [NewUser(a) EXCEPT !.password = pw]
            /\ trusted' = {a} /\ UNCHANGED <<issued, req>>
    /\ UNCHANGED <<session, api, spent, crossed, lost>>

\* _create_invited_user
CreateInvitedUser(p, a) ==
    /\ user = None /\ smtp
    /\ user' = [NewUser(a) EXCEPT !.active = TRUE, !.invite = NextToken]
    /\ Issue("invite") /\ Sending(p, None) /\ trusted' = {a}
    /\ UNCHANGED <<session, api, spent, crossed, lost>>

\* send_email: to the address in the refreshed row, forgot_password's to the one it loaded.
SendMail(p) ==
    /\ req[p].op = "send"
    /\ LET to == IF req[p].to = None THEN user.email ELSE req[p].to IN
       issued' = [issued EXCEPT ![req[p].token].to = to]
    /\ \/ mailed' = mailed \cup {req[p].token}
       \/ UNCHANGED mailed      \* the server refuses it; that is logged
    /\ Free(p)
    /\ UNCHANGED <<row, now, smtp, accepted, ghosts>>

-----------------------------------------------------------------------------
(* What a request reads, and what it has to pass.                          *)

\* verify_email, set_password, reset_password: the row whose column holds the token.
LoadRedeem(p, t, pw) ==
    /\ user # None /\ user[issued[t].kind] = t /\ ~Expired(t)
    /\ Loaded(p, issued[t].kind, [token |-> t, password |-> pw])

LoadForgotPassword(p, identifier) ==
    /\ user # None /\ Names(identifier) /\ smtp
    /\ Loaded(p, "forgot", {})

\* update_profile; the name, callsign and telephone are not told apart
LoadUpdateProfile(p, a) == Signed /\ Loaded(p, "profile", a)

LoadChangePassword(p, current, pw) ==
    /\ Signed /\ user.password = current
    /\ Loaded(p, "change", pw)

\* admin_approve_user; approve_org_member, for an account that is not active
LoadApprove(p) == user # None /\ Loaded(p, "approve", {})
LoadApproveMember(p) == user # None /\ ~user.active /\ Loaded(p, "approve", {})

LoadDeactivate(p) == user # None /\ Loaded(p, "deactivate", {})

-----------------------------------------------------------------------------
(* What it commits.                                                        *)

\* Mutant: the other links are withdrawn with the one redeemed.
RedeemAll(p) ==
    LET r == req[p]  t == r.more.token
        new == [r.seen EXCEPT !.password = r.more.password, !.invite = 0, !.reset = 0] IN
    /\ r.op \in {"invite", "reset"}
    /\ user' = [Save(r.seen, new) EXCEPT !.invite = 0, !.reset = 0] /\ session' = now
    /\ spent' = spent \cup {t} /\ Free(p)
    /\ UNCHANGED <<api, issued, trusted, crossed, lost>>

\* set_password, reset_password: both sign the user in
Redeem(p) ==
    LET r == req[p]  t == r.more.token
        new == [r.seen EXCEPT ![r.op] = 0, !.password = r.more.password] IN
    /\ r.op \in {"invite", "reset"}
    /\ user' = Save(r.seen, new) /\ session' = now
    /\ spent' = spent \cup {t} /\ Free(p)
    /\ UNCHANGED <<api, issued, trusted, crossed, lost>>

\* Mutant: the link is left in place.
VerifyEmailAgain(p) ==
    LET r == req[p]  t == r.more.token IN
    /\ r.op = "verification"
    /\ user' = Save(r.seen, [r.seen EXCEPT !.verified = TRUE])
    /\ spent' = spent \cup {t} /\ trusted' = trusted \cup {issued[t].to} /\ Free(p)
    /\ UNCHANGED <<session, api, issued, crossed, lost>>

VerifyEmail(p) ==
    LET r == req[p]  t == r.more.token IN
    /\ r.op = "verification"
    /\ user' = Save(r.seen, [r.seen EXCEPT !.verified = TRUE, !.verification = 0])
    /\ spent' = spent \cup {t} /\ trusted' = trusted \cup {issued[t].to} /\ Free(p)
    /\ UNCHANGED <<session, api, issued, crossed, lost>>

ForgotPassword(p) ==
    /\ req[p].op = "forgot"
    /\ user' = Save(req[p].seen, [req[p].seen EXCEPT !.reset = NextToken])
    /\ Issue("reset") /\ Sending(p, req[p].seen.email)
    /\ lost' = IF Busy({"reset"}) THEN lost \cup {NextToken} ELSE lost
    /\ UNCHANGED <<session, api, spent, trusted, crossed>>

\* Mutant: the old link stays good for the new address.
UpdateProfileOldLink(p) ==
    LET r == req[p] IN
    /\ r.op = "profile"
    /\ IF r.more # r.seen.email /\ smtp
       THEN /\ user' = Save(r.seen, [r.seen EXCEPT !.email = r.more, !.verified = FALSE])
            /\ Free(p) /\ UNCHANGED <<issued, trusted>>
       ELSE /\ user' = Save(r.seen, [r.seen EXCEPT !.email = r.more])
            /\ trusted' = trusted \cup {r.more}
            /\ Free(p) /\ UNCHANGED issued
    /\ UNCHANGED <<session, api, spent, lost, crossed>>

UpdateProfile(p) ==
    LET r == req[p]
        changed == r.more # r.seen.email IN
    /\ r.op = "profile"
    /\ IF changed /\ smtp
       THEN /\ user' = Save(r.seen, [r.seen EXCEPT !.email = r.more, !.verified = FALSE,
                                                   !.verification = NextToken])
            /\ Issue("verification") /\ Sending(p, None) /\ UNCHANGED trusted
       ELSE /\ user' = Save(r.seen, [r.seen EXCEPT !.email = r.more])
            /\ trusted' = trusted \cup (IF changed THEN {r.more} ELSE {})
            /\ Free(p) /\ UNCHANGED issued
    /\ crossed' = (crossed \/ (changed /\ (\/ Busy({"verification", "approve"})
                                           \/ r.seen.verified # user.verified)))
    /\ UNCHANGED <<session, api, spent, lost>>

ChangePassword(p) ==
    /\ req[p].op = "change"
    /\ user' = Save(req[p].seen, [req[p].seen EXCEPT !.password = req[p].more])
    /\ Free(p) /\ UNCHANGED <<session, api, issued, ghosts>>

ApproveUser(p) ==
    LET seen == req[p].seen IN
    /\ req[p].op = "approve"
    /\ user' = Save(seen, [seen EXCEPT !.active = TRUE, !.verified = TRUE, !.verification = 0])
    /\ trusted' = trusted \cup {seen.email} /\ Free(p)
    /\ UNCHANGED <<session, api, issued, spent, crossed, lost>>

Deactivate(p) ==
    /\ req[p].op = "deactivate"
    /\ user' = Save(req[p].seen, [req[p].seen EXCEPT !.active = FALSE])
    /\ Free(p) /\ UNCHANGED <<session, api, issued, ghosts>>

-----------------------------------------------------------------------------
(* Requests that read and write at once.                                   *)

Login(identifier, pw) ==
    /\ user # None /\ Names(identifier) /\ user.password = pw
    /\ user.verified /\ user.active
    /\ session' = now
    /\ UNCHANGED <<user, api, issued, req, ghosts>>

CreateApiToken == Signed /\ api' = TRUE /\ UNCHANGED <<user, session, issued, req, ghosts>>
DeleteApiToken == Signed /\ api' = FALSE /\ UNCHANGED <<user, session, issued, req, ghosts>>

Accept == accepted < MaxRequests /\ accepted' = accepted + 1

AtOnce(p) ==
    /\ Accept /\ req[p] = Idle
    /\ \/ \E a \in Addresses : (\E pw \in Passwords : Register(p, a, pw)) \/ CreateInvitedUser(p, a)
       \/ \E identifier \in Addresses \cup {Callsign}, pw \in Passwords : Login(identifier, pw)
       \/ CreateApiToken
       \/ DeleteApiToken
    /\ UNCHANGED <<mailed, now, smtp>>

Begin(p) ==
    /\ Accept /\ req[p] = Idle
    /\ \/ \E t \in mailed, pw \in Passwords :
             (issued[t].kind = "verification" => pw = CHOOSE x \in Passwords : TRUE)
             /\ LoadRedeem(p, t, pw)
       \/ \E identifier \in Addresses \cup {Callsign} : LoadForgotPassword(p, identifier)
       \/ \E a \in Addresses : LoadUpdateProfile(p, a)
       \/ \E current \in Passwords, pw \in Passwords : LoadChangePassword(p, current, pw)
       \/ LoadApprove(p)
       \/ LoadApproveMember(p)
       \/ LoadDeactivate(p)
    /\ UNCHANGED <<row, issued, mailed, now, smtp, ghosts>>

Commit(p) ==
    /\ \/ Redeem(p) \/ VerifyEmail(p) \/ ForgotPassword(p) \/ UpdateProfile(p)
       \/ ChangePassword(p) \/ ApproveUser(p) \/ Deactivate(p)
    /\ UNCHANGED <<mailed, now, smtp, accepted>>

Tick ==
    /\ now < MaxTime /\ now' = now + 1
    /\ UNCHANGED <<row, issued, mailed, smtp, req, accepted, ghosts>>

\* The process stops, unfinished requests with it, and starts with the settings it finds.
Restart ==
    /\ Accept
    /\ req' = [p \in Slots |-> Idle] /\ smtp' \in MailUp
    /\ UNCHANGED <<row, issued, mailed, now, ghosts>>

Init ==
    /\ user = None /\ issued = <<>> /\ mailed = {} /\ session = None /\ api = FALSE
    /\ now = 0 /\ smtp \in MailUp
    /\ req = [p \in Slots |-> Idle] /\ accepted = 0
    /\ spent = {} /\ trusted = {} /\ crossed = FALSE /\ lost = {}

Next ==
    \/ \E p \in Slots : AtOnce(p) \/ Begin(p) \/ Commit(p) \/ SendMail(p)
    \/ Tick
    \/ Restart

Spec == Init /\ [][Next]_vars

-----------------------------------------------------------------------------
\* Every link the row has was issued for that purpose and has not been followed yet,
\* whatever was loaded before a link was followed and committed after it: handlers write
\* back only what they changed.
LinksAreLive ==
    /\ TypeOK
    /\ user # None => \A k \in Kinds : user[k] \notin spent

\* An account counts as verified only for an address that somebody answered for: by the
\* link mailed to it, by an approval or an invitation, or by an instance that sends no mail.
\* The exception is an address changed while a link or an approval of the old one was
\* being processed.
VerifiedIsConfirmed ==
    user # None /\ user.verified /\ ~crossed => user.email \in trusted

ResetLinks == {t \in DOMAIN issued : issued[t].kind = "reset"}

\* The newest reset link is the one that works until it is followed, unless an older one
\* was being followed when it was made: that commit erases the new link with the old.
NewestLinkWorks ==
    user # None => \A t \in ResetLinks :
        (\A s \in ResetLinks : s <= t) /\ t \notin spent \cup lost => user.reset = t
=============================================================================
