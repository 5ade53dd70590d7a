------------------------------ MODULE Publishing ------------------------------
(***************************************************************************)
(* What an organisation publishes: the announcements of a session's start  *)
(* and end, posts, replies and likes on the Fediverse (routers/sessions.py,*)
(* activitypub_delivery.py, routers/fediverse.py), what arrives from there *)
(* (the inbox of routers/activitypub.py), its signing key (routers/orgs.py)*)
(* and the directory's statistics and API key (net_repository.py).         *)
(* A request is a step for each thing it waits for; a delivery is a        *)
(* background task of the process, one attempt for each inbox.             *)
(* The names of the specification itself carry the module's, so that proofs*)
(* about it can stand beside those about Reminders.                        *)
(***************************************************************************)
EXTENDS Naturals, Sequences, FiniteSets

CONSTANTS
    Slots,          \* requests in flight at once
    Actors,         \* remote accounts; also the inbox each has of its own
    Shared,         \* the inbox they share on their server
    None,
    MaxPosts,       \* bound on posts
    MaxKeys,        \* bound on key pairs
    MaxRequests,    \* bound on requests
    MaxOf           \* bound on requests of each part

ASSUME PublishingAssumption ==
    /\ Shared \notin Actors /\ None \notin Actors \cup {Shared} \cup Nat
    /\ None \notin {"open", "ended", "deleted", "kept", "liked"}

VARIABLES
    session,    \* the net's session
    org,        \* activitypub_enabled and the key pair of the organisation, 0 without one
    keys,       \* key pairs made so far
    followers,  \* activitypub_followers: None, or the inbox an account is sent to
    posts,      \* activitypub_posts: their kinds, in order
    replies,    \* activitypub_interactions: a reply of each account, None, kept or liked
    tasks,      \* deliveries waiting in the background
    token,      \* settings of net_repository.py: the claim token,
    status,     \*    the status of the key request,
    apiKey,     \*    and whether there is a key
    request,    \* the newest key request as the directory has it
    req,        \* requests in flight
    asked,      \* requests so far, by part
    stats,      \* history: statistics pushed for the session
    got,        \* history: what has arrived, where, signed with which key
    twice,      \* history: a post arrived at an inbox a second time
    owed,       \* history: posts on their way to who was following when they were made
    likes,      \* history: likes sent for each reply
    raced       \* history: what two requests have done at once

life == <<session, stats>>
fediverse == <<org, keys, followers, posts, replies, tasks, got, twice, owed, likes>>
directory == <<token, status, apiKey, request>>
publishingVars == <<life, fediverse, directory, req, asked, raced>>

Inboxes == Actors \cup {Shared}
NoRequest == [op |-> "idle"]

PublishingTypeOK ==
    /\ session \in {None, "open", "ended", "deleted"}
    /\ org.enabled \in BOOLEAN /\ org.key \in 0 .. keys /\ (org.enabled => org.key # 0)
    /\ followers \in [Actors -> Inboxes \cup {None}]
    /\ \A n \in DOMAIN posts : posts[n] \in {"start", "end", "manual", "reply"}
    /\ \A t \in tasks : t.post \in DOMAIN posts \cup {None} /\ t.to \in Inboxes /\ t.key \in 1 .. keys
    /\ replies \in [Actors -> {None, "kept", "liked"}]
    /\ request.stage \in {"none", "pending", "approved", "claimed", "rejected"}
    /\ token \in 1 .. request.id \cup {None} /\ apiKey \in BOOLEAN

-----------------------------------------------------------------------------
Go(p, r) == req' = [req EXCEPT ![p] = r]
Free(p) == Go(p, NoRequest)
Others(p, ops) == \E q \in Slots \ {p} : req[q].op \in ops
Race(what, condition) == raced' = IF condition THEN raced \cup {what} ELSE raced

-----------------------------------------------------------------------------
(* A session starts and ends.                                              *)

\* start_session, when its own rows are committed
StartSession(p) ==
    /\ session = None /\ session' = "open"
    /\ Go(p, [op |-> "load", kind |-> "start"])
    /\ UNCHANGED <<stats, raced>>

\* end_session: the session it loads is open.
LoadEnd(p) ==
    /\ session = "open"
    /\ Go(p, [op |-> "end"]) /\ Race("end", Others(p, {"end"}))
    /\ UNCHANGED life

\* Its commit, unless the session has been deleted.
CommitEnd(p) ==
    /\ req[p].op = "end" /\ session # "deleted"
    /\ session' = "ended" /\ Go(p, [op |-> "push"])
    /\ UNCHANGED <<fediverse, directory, asked, stats, raced>>

\* push_session_stats of a net that is listed, where there is a key; the announcement follows.
PushStats(p) ==
    /\ req[p].op = "push"
    /\ stats' \in IF apiKey THEN {stats, stats + 1} ELSE {stats}
    /\ Go(p, [op |-> "load", kind |-> "end"])
    /\ UNCHANGED <<session, fediverse, directory, asked, raced>>

\* delete_session: its posts stay.
DeleteSession ==
    /\ session \in {"open", "ended"} /\ session' = "deleted"
    /\ UNCHANGED <<fediverse, directory, req, stats, raced>>

-----------------------------------------------------------------------------
(* Posts.                                                                  *)

\* announce_session_start, announce_session_end: the organisation as it is by now, and whether
\* the net has opted in.
LoadOrg(p) ==
    /\ req[p].op = "load"
    /\ \/ Free(p)
       \/ org.enabled /\ Go(p, [op |-> "post", kind |-> req[p].kind, key |-> org.key, to |-> None])
    /\ UNCHANGED <<life, fediverse, directory, asked, raced>>

\* compose_post, and reply_to_interaction to who left it
Compose(p, a) ==
    /\ org.enabled /\ (a # None => replies[a] # None)
    /\ Go(p, [op |-> "post", kind |-> IF a = None THEN "manual" ELSE "reply", key |-> org.key, to |-> a])
    /\ UNCHANGED <<fediverse, raced>>

\* record_and_get_targets, record_manual_post: the commit; an announcement refers to its session.
CommitPost(p) ==
    /\ req[p].op = "post" /\ Len(posts) < MaxPosts
    /\ req[p].kind \in {"start", "end"} => session # "deleted"
    /\ posts' = Append(posts, req[p].kind)
    /\ LET n == Len(posts') IN
       /\ owed' = IF req[p].kind = "reply" THEN owed
                  ELSE owed \cup {[post |-> n, by |-> a, to |-> followers[a]] :
                                     a \in {b \in Actors : followers[b] # None}}
       /\ Go(p, [op |-> "targets", post |-> n, key |-> req[p].key, to |-> req[p].to])
    /\ UNCHANGED <<life, org, keys, followers, replies, tasks, got, twice, likes, directory, asked, raced>>

Delivery(p, to, via) == [post |-> req[p].post, to |-> to, key |-> req[p].key, via |-> via]

Queued(p) ==
    /\ Free(p)
    /\ UNCHANGED <<life, org, keys, followers, posts, replies, got, twice, owed, likes, directory, asked, raced>>

\* Mutant: a delivery for every follower.
TargetEach(p) ==
    /\ req[p].op = "targets"
    /\ tasks' = tasks \cup IF req[p].to # None THEN {Delivery(p, req[p].to, None)}
                           ELSE {Delivery(p, followers[a], a) : a \in {b \in Actors : followers[b] # None}}
    /\ Queued(p)

\* _resolve_follower_targets: every inbox once; then the task, when the request is answered.
ResolveTargets(p) ==
    /\ req[p].op = "targets"
    /\ tasks' = tasks \cup IF req[p].to # None THEN {Delivery(p, req[p].to, None)}
                           ELSE {Delivery(p, i, None) : i \in {followers[a] : a \in Actors} \ {None}}
    /\ Queued(p)

\* deliver_to_targets, deliver_accept, deliver_like: one attempt, which may fail.
Deliver(t) ==
    /\ tasks' = tasks \ {t}
    /\ \/ UNCHANGED <<got, twice>>
       \/ /\ got' = got \cup {[post |-> t.post, to |-> t.to, key |-> t.key]}
          /\ twice' = (twice \/ (t.post # None /\ \E m \in got : m.post = t.post /\ m.to = t.to))
    /\ owed' = {o \in owed : o.post # t.post \/ o.to # t.to}
    /\ UNCHANGED <<life, org, keys, followers, posts, replies, likes, directory, req, asked, raced>>

-----------------------------------------------------------------------------
(* The organisation's actor and what it hears.                             *)

\* update_org_activitypub, what it loads
LoadToggle(p, on) ==
    /\ Go(p, [op |-> "toggle", on |-> on, seen |-> org])
    /\ UNCHANGED <<fediverse, raced>>

Switched(p) ==
    /\ Free(p)
    /\ UNCHANGED <<life, followers, posts, replies, tasks, got, twice, owed, likes, directory, asked>>

\* Mutant: a new key pair whenever it is switched on.
NewKeyEachTime(p) ==
    /\ req[p].op = "toggle" /\ keys < MaxKeys
    /\ keys' = IF req[p].on THEN keys + 1 ELSE keys
    /\ org' = [enabled |-> req[p].on, key |-> IF req[p].on THEN keys' ELSE org.key]
    /\ Race("key", req[p].on /\ Others(p, {"toggle"}))
    /\ Switched(p)

\* Its commit: a key pair if there was none when it looked.
CommitToggle(p) ==
    /\ req[p].op = "toggle"
    /\ LET seen == req[p].seen
           first == req[p].on /\ seen.key = 0 IN
       /\ first => keys < MaxKeys
       /\ keys' = IF first THEN keys + 1 ELSE keys
       /\ org' = [enabled |-> IF req[p].on # seen.enabled THEN req[p].on ELSE org.enabled,
                  key |-> IF first THEN keys' ELSE org.key]
       /\ Race("key", first /\ org.key # 0)
    /\ Switched(p)

\* post_inbox, a Follow: the account's inbox as its actor document has it now.
LoadFollow(p, a, to) ==
    /\ org.enabled /\ to \in {a, Shared}
    /\ Go(p, [op |-> "follow", by |-> a, to |-> to, key |-> org.key, seen |-> followers[a]])
    /\ UNCHANGED <<fediverse, raced>>

\* Its commit, which writes what has changed: it is refused if the row to insert is there by
\* now, or the row to update is gone. The Accept goes to the account.
CommitFollow(p) ==
    /\ req[p].op = "follow"
    /\ LET a == req[p].by
           same == req[p].seen = req[p].to IN
       /\ ~same => (followers[a] = None) = (req[p].seen = None)
       /\ followers' = IF same THEN followers ELSE [followers EXCEPT ![a] = req[p].to]
       /\ owed' = {o \in owed : o.by # a \/ o.to = followers'[a]}
       /\ tasks' = tasks \cup {[post |-> None, to |-> a, key |-> req[p].key, via |-> "accept"]}
    /\ Free(p)
    /\ UNCHANGED <<life, org, keys, posts, replies, got, twice, likes, directory, asked, raced>>

\* post_inbox: an Undo of the Follow, or the account is deleted
Unfollow(a) ==
    /\ org.enabled /\ followers[a] # None
    /\ followers' = [followers EXCEPT ![a] = None]
    /\ owed' = {o \in owed : o.by # a}
    /\ UNCHANGED <<life, org, keys, posts, replies, tasks, got, twice, likes, directory, req, raced>>

\* post_inbox, a Create that answers one of the posts; a repetition changes nothing.
ReceiveReply(a) ==
    /\ org.enabled /\ posts # <<>> /\ replies[a] = None
    /\ replies' = [replies EXCEPT ![a] = "kept"]
    /\ UNCHANGED <<life, org, keys, followers, posts, tasks, got, twice, owed, likes, directory, req, raced>>

Liking(p, a) == \E q \in Slots \ {p} : req[q].op = "like" /\ req[q].to = a

\* like_interaction, what it loads
LoadLike(p, a) ==
    /\ org.enabled /\ replies[a] = "kept"
    /\ Go(p, [op |-> "like", to |-> a, key |-> org.key])
    /\ Race("like", Liking(p, a))
    /\ UNCHANGED fediverse

\* Its commit; the task runs once the request is answered.
CommitLike(p) ==
    /\ req[p].op = "like"
    /\ LET a == req[p].to IN
       /\ replies' = [replies EXCEPT ![a] = "liked"]
       /\ likes' = [likes EXCEPT ![a] = @ + 1]
       /\ tasks' = tasks \cup {[post |-> None, to |-> a, key |-> req[p].key, via |-> "like"]}
    /\ Free(p)
    /\ UNCHANGED <<life, org, keys, followers, posts, got, twice, owed, directory, asked, raced>>

-----------------------------------------------------------------------------
(* The directory's API key.                                                *)

Claiming == {"store", "poll", "answer"}

\* What is still to be had of the directory is what the newest request is about, unless two
\* requests about it cross, it is given up, or an answer is lost.
Claim(p, r) == request' = [r EXCEPT !.ours = ~Others(p, Claiming) /\ r.ours]

\* request_api_key: the directory takes it down.
RequestKey(p) ==
    /\ Claim(p, [id |-> request.id + 1, stage |-> "pending", ours |-> TRUE])
    /\ Go(p, [op |-> "store", token |-> request.id + 1])
    /\ UNCHANGED <<token, status, apiKey>>

\* The commit of its claim token
StoreToken(p) ==
    /\ req[p].op = "store"
    /\ token' = req[p].token /\ status' = "pending" /\ Free(p)
    /\ UNCHANGED <<life, fediverse, apiKey, request, asked, raced>>

\* The directory's administrator
Decide ==
    /\ request.stage = "pending"
    /\ \E s \in {"approved", "rejected"} : request' = [request EXCEPT !.stage = s]
    /\ UNCHANGED <<life, fediverse, token, status, apiKey, req, asked, raced>>

\* check_key_request_status: the token it polls with
Poll(p) ==
    /\ token # None
    /\ Claim(p, request)
    /\ Go(p, [op |-> "poll", token |-> token])
    /\ UNCHANGED <<token, status, apiKey>>

\* The directory's answer: the key goes out with the one answer that claims it.
AskDirectory(p) ==
    /\ req[p].op = "poll"
    /\ LET mine == req[p].token = request.id
           given == mine /\ request.stage = "approved" IN
       /\ request' = IF given THEN [request EXCEPT !.stage = "claimed"] ELSE request
       /\ Go(p, [op |-> "answer", key |-> given,
                 status |-> IF mine THEN request'.stage ELSE "pending"])
    /\ UNCHANGED <<life, fediverse, token, status, apiKey, asked, raced>>

\* Mutant: the token is dropped with whatever answer.
DropToken(p) ==
    /\ req[p].op = "answer"
    /\ status' = req[p].status
    /\ apiKey' = (apiKey \/ req[p].key)
    /\ token' = None
    /\ Free(p)
    /\ UNCHANGED <<life, fediverse, request, asked, raced>>

\* The commit of the answer
CommitAnswer(p) ==
    /\ req[p].op = "answer"
    /\ status' = req[p].status
    /\ apiKey' = (apiKey \/ req[p].key)
    /\ token' = IF req[p].status \in {"claimed", "rejected"} THEN None ELSE token
    /\ Free(p)
    /\ UNCHANGED <<life, fediverse, request, asked, raced>>

\* clear_stored_key
ClearKey ==
    /\ token' = None /\ status' = "none" /\ apiKey' = FALSE
    /\ request' = [request EXCEPT !.ours = FALSE]
    /\ UNCHANGED <<life, fediverse, req, raced>>

-----------------------------------------------------------------------------
Lost(ps) ==
    /\ owed' = {o \in owed : \A p \in ps : req[p].op = "targets" => req[p].post # o.post}
    /\ request' = [request EXCEPT !.ours = @ /\ \A p \in ps : req[p].op \notin Claiming]

\* A request fails, or its commit is refused: nothing of it is announced.
Fail(p) ==
    /\ req[p] # NoRequest
    /\ Free(p) /\ Lost({p})
    /\ UNCHANGED <<life, org, keys, followers, posts, replies, tasks, got, twice, likes>>
    /\ UNCHANGED <<token, status, apiKey, asked, raced>>

\* deploy.sh restarts the service: requests and deliveries are gone.
Restart ==
    /\ req' = [p \in Slots |-> NoRequest] /\ tasks' = {} /\ owed' = {}
    /\ request' = [request EXCEPT !.ours = @ /\ \A p \in Slots : req[p].op \notin Claiming]
    /\ UNCHANGED <<life, org, keys, followers, posts, replies, got, twice, likes, token, status, apiKey, raced>>

PublishingInit ==
    /\ session = None /\ stats = 0
    /\ org = [enabled |-> FALSE, key |-> 0] /\ keys = 0
    /\ followers = [a \in Actors |-> None] /\ posts = <<>> /\ replies = [a \in Actors |-> None]
    /\ tasks = {} /\ got = {} /\ twice = FALSE /\ owed = {} /\ likes = [a \in Actors |-> 0]
    /\ token = None /\ status = "none" /\ apiKey = FALSE
    /\ request = [id |-> 0, stage |-> "none", ours |-> FALSE]
    /\ req = [p \in Slots |-> NoRequest]
    /\ asked = [all |-> 0, session |-> 0, posts |-> 0, actor |-> 0, claims |-> 0, stops |-> 0]
    /\ raced = {}

Ask(part) ==
    /\ asked.all < MaxRequests /\ asked[part] < MaxOf
    /\ asked' = [asked EXCEPT !.all = @ + 1, ![part] = @ + 1]

AskAbout(p) ==
    \/ Ask("session") /\ (StartSession(p) \/ LoadEnd(p)) /\ UNCHANGED <<fediverse, directory>>
    \/ Ask("posts") /\ (\E a \in Actors \cup {None} : Compose(p, a)) /\ UNCHANGED <<life, directory>>
    \/ Ask("posts") /\ (\E a \in Actors : LoadLike(p, a)) /\ UNCHANGED <<life, directory>>
    \/ Ask("actor") /\ (\E on \in BOOLEAN : LoadToggle(p, on)) /\ UNCHANGED <<life, directory>>
    \/ Ask("actor") /\ (\E a \in Actors, to \in Inboxes : LoadFollow(p, a, to)) /\ UNCHANGED <<life, directory>>
    \/ Ask("claims") /\ (RequestKey(p) \/ Poll(p)) /\ UNCHANGED <<life, fediverse, raced>>

AtOnce ==
    \/ Ask("stops") /\ (DeleteSession \/ Restart)
    \/ Ask("actor") /\ \E a \in Actors : Unfollow(a) \/ ReceiveReply(a)
    \/ Ask("claims") /\ ClearKey

PublishingNext ==
    \/ \E p \in Slots :
          \/ req[p] = NoRequest /\ AskAbout(p)
          \/ CommitEnd(p) \/ PushStats(p) \/ LoadOrg(p) \/ CommitPost(p) \/ ResolveTargets(p)
          \/ CommitToggle(p) \/ CommitFollow(p) \/ CommitLike(p)
          \/ StoreToken(p) \/ AskDirectory(p) \/ CommitAnswer(p)
          \/ Fail(p)
    \/ \E t \in tasks : Deliver(t)
    \/ AtOnce \/ Decide

PublishingSpec == PublishingInit /\ [][PublishingNext]_publishingVars

-----------------------------------------------------------------------------
\* What must happen once, two requests at the same time may do twice and nothing else does:
\* the end of a session, announced and pushed to the directory; a reply liked back; the key
\* pair made, with which everything that arrived or is on its way was signed, so that the
\* actor's document verifies it.
OnlyRacesRepeat ==
    /\ "end" \notin raced => stats <= 1 /\ Cardinality({n \in DOMAIN posts : posts[n] = "end"}) <= 1
    /\ "like" \notin raced => \A a \in Actors : likes[a] <= 1
    /\ "key" \notin raced => \A m \in got \cup tasks : m.key = org.key

\* Who was following when a post was recorded, and still does with the same inbox, has it
\* coming until the one attempt at that inbox was made or a stop lost it; and however many
\* accounts of a server follow, an inbox gets it once at most.
OnePostEach ==
    /\ ~twice
    /\ \A o \in owed :
          \/ \E t \in tasks : t.post = o.post /\ t.to = o.to
          \/ \E p \in Slots : req[p].op = "targets" /\ req[p].post = o.post

\* The key the directory has for us, or is going to have, can be had: the claim token of the
\* newest request is kept until the answer with the key, and with that answer the key.
KeyIsKept ==
    /\ PublishingTypeOK
    /\ request.ours /\ (\A p \in Slots : req[p].op \notin Claiming) =>
          /\ request.stage \in {"pending", "approved"} => token = request.id
          /\ request.stage = "claimed" => apiKey
=============================================================================
