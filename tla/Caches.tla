-------------------------------- MODULE Caches --------------------------------
(***************************************************************************)
(* What the server keeps of the answers of others: a net's live positions  *)
(* or last-heard list (routers/aprs.py, routers/digital_voice.py, the      *)
(* Redis helpers of routers/helpers.py), translations and the languages    *)
(* they are offered in (routers/translation.py, routers/orgs.py,           *)
(* routers/admin.py), and licence look-ups (routers/callsign_lookup.py).   *)
(* Several worker processes share the database and Redis; each has its own *)
(* memory.  A request is a step for each thing it waits for.               *)
(***************************************************************************)
EXTENDS Naturals, FiniteSets

CONSTANTS
    Workers,        \* server processes
    Slots,          \* requests in flight at once
    Orgs,           \* organisations
    Texts,          \* the known strings
    None,
    TTL,            \* how long an answer is good for, by kind
    RedisModes,     \* whether Redis answers, as far as it can be
    MaxTime,        \* bound on the clock
    MaxRequests,    \* bound on requests, restarts and outages
    MaxOf           \* bound on each part's requests

ASSUME CachesAssumption ==
    /\ TTL \in [live : Nat, notFound : Nat, found : Nat]
    /\ TTL.live < TTL.notFound /\ TTL.notFound < TTL.found
    /\ RedisModes \subseteq BOOLEAN /\ RedisModes # {}

VARIABLES
    source,     \* aprs_configs.source_type of the net, None without a row
    memory,     \* _aprs_push_cache, of every worker
    setting,    \* the row of system_settings
    redis,      \* the Redis key, until it runs out
    up,         \* Redis answers
    made,       \* snapshots made so far
    catalog,    \* enabled_languages: the row of one language
    rows,       \* rows it has had
    optIn,      \* org_enabled_languages
    model,      \* the language's model is installed
    cache,      \* translation_cache
    jobs,       \* run_enable_language_job, running or to be run
    license,    \* callsign_cache: the row of one callsign
    now,
    req,        \* requests in flight
    accepted,   \* what was asked so far, by part
    torn,       \* history: live requests overlapped, or a store was not finished
    last,       \* history: the worker that stored last
    orphaned,   \* history: the process stopped over a job
    crossed     \* history: a language was removed while it was being asked for

live == <<source, memory, setting, redis, made>>
words == <<catalog, rows, optIn, model, cache, jobs>>
ghosts == <<torn, last, orphaned, crossed>>
vars == <<live, words, license, up, now, req, accepted, ghosts>>

Snapshot == [id : Nat, at : Nat]

Language == [id : Nat, status : {"pending", "installing", "ready", "error"}]

ASSUME NoneAssumption == None \notin Snapshot \cup Language \cup Workers

Idle == [op |-> "idle"]

Busy(ops) == \E p \in Slots : req[p].op \in ops

Working == {"read", "load", "select", "insert", "update", "share"}

TypeOK ==
    /\ source \in {None, "aprs_fi", "relay"}
    /\ memory \in [Workers -> Snapshot \cup {None}] /\ setting \in Snapshot \cup {None}
    /\ redis \in [snap : Snapshot, until : Nat] \cup {None}
    /\ catalog \in Language \cup {None} /\ optIn \subseteq Orgs /\ model \in BOOLEAN
    /\ cache \in [Texts -> {None, "english", "translated"}]
    /\ \A j \in jobs : j.id <= rows /\ j.left \subseteq Texts
    /\ license \in [status : {"found", "not_found"}, at : 0 .. now] \cup {None}

Free(p) == req' = [req EXCEPT ![p] = Idle]
Go(p, r) == req' = [req EXCEPT ![p] = r]

-----------------------------------------------------------------------------
(* Live data.                                                              *)

\* _redis_cache_read: nothing where Redis is not set, does not answer, or let the key go
RedisHas == up /\ redis # None /\ now <= redis.until

Took(p) == torn' = (torn \/ Busy(Working))

\* save_aprs_config, save_dmr_config; delete_aprs_config, delete_dmr_config
SaveConfig ==
    /\ source' \in {None, "aprs_fi", "relay"} \ {source}
    /\ UNCHANGED <<memory, setting, redis, made, req, torn>>

NewSnapshot == [id |-> made + 1, at |-> now]

\* The memory first, then the row: _aprs_cache_write, _dmr_cache_write.
StoreIn(p, w) ==
    /\ made' = made + 1 /\ memory' = [memory EXCEPT ![w] = NewSnapshot]
    /\ Go(p, [op |-> "select", w |-> w, snap |-> NewSnapshot])

\* aprs_push, dmr_push, dmr_push_raw: from aprs_relay.py and dmr_relay.py
Push(p, w) ==
    /\ source # None
    /\ StoreIn(p, w) /\ Took(p)
    /\ UNCHANGED <<source, setting, redis>>

\* _aprs_positions_for_net, dmr_cache: Redis, this worker's memory, the row
Read(p, w) ==
    /\ source # None
    /\ Go(p, IF RedisHas
             THEN [op |-> "read", w |-> w, got |-> redis.snap, of |-> "redis", from |-> source]
             ELSE IF memory[w] # None
             THEN [op |-> "read", w |-> w, got |-> memory[w], of |-> "memory", from |-> source]
             ELSE [op |-> "load", w |-> w, got |-> setting, of |-> "row", from |-> source])
    /\ Took(p) /\ UNCHANGED live

\* What was read from the row is kept in memory, whatever was put there meanwhile.
Load(p) ==
    LET r == req[p] IN
    /\ r.op = "load"
    /\ memory' = IF r.got = None THEN memory ELSE [memory EXCEPT ![r.w] = r.got]
    /\ Go(p, [r EXCEPT !.op = "read"])
    /\ UNCHANGED <<source, setting, redis, made, torn, last>>

\* Relay data is served at any age; aprs.fi is asked again after _APRS_CACHE_TTL.
Stale(r) == r.from = "aprs_fi" /\ (r.got # None => now - r.got.at > TTL.live)

Answer(p) ==
    LET r == req[p] IN
    /\ r.op = "read"
    /\ \/ ~Stale(r) /\ Free(p) /\ UNCHANGED <<memory, made>>
       \/ Stale(r) /\ Free(p) /\ UNCHANGED <<memory, made>>    \* 502 or 504
       \/ Stale(r) /\ StoreIn(p, r.w)
    /\ UNCHANGED <<source, setting, redis, torn, last>>

\* _set_setting
Select(p) ==
    /\ req[p].op = "select"
    /\ Go(p, [req[p] EXCEPT !.op = IF setting = None THEN "insert" ELSE "update"])
    /\ UNCHANGED <<live, torn, last>>

\* Mutant: a row that is there is left as it is.
StoreOnce(p) ==
    LET r == req[p] IN
    /\ r.op \in {"insert", "update"}
    /\ setting' = IF setting = None THEN r.snap ELSE setting
    /\ last' = r.w /\ Go(p, [r EXCEPT !.op = "share"])
    /\ UNCHANGED <<source, memory, redis, made, torn>>

\* The row's key is taken when two insert it: the second fails.
Store(p) ==
    LET r == req[p] IN
    /\ r.op \in {"insert", "update"}
    /\ IF r.op = "insert" /\ setting # None
       THEN Free(p) /\ torn' = TRUE /\ UNCHANGED <<setting, last>>
       ELSE /\ setting' = r.snap /\ last' = r.w
            /\ Go(p, [r EXCEPT !.op = "share"]) /\ UNCHANGED torn
    /\ UNCHANGED <<source, memory, redis, made>>

\* _redis_cache_write: best effort
ShareIt(p) ==
    /\ req[p].op = "share"
    /\ IF up THEN redis' = [snap |-> req[p].snap, until |-> now + TTL.live] /\ UNCHANGED torn
       ELSE torn' = (torn \/ redis # None) /\ UNCHANGED redis
    /\ Free(p)
    /\ UNCHANGED <<source, memory, setting, made, last>>

-----------------------------------------------------------------------------
(* Languages and translations.                                             *)

\* org_enable_language
AskLanguage(p, o) ==
    /\ o \notin optIn
    /\ Go(p, [op |-> "enable", org |-> o, seen |-> IF catalog = None THEN 0 ELSE catalog.id])
    /\ UNCHANGED words

\* Mutant: nothing is started for a model that is there already.
EnableInstalled(p) ==
    LET r == req[p] IN
    /\ r.op = "enable"
    /\ IF r.org \in optIn \/ (r.seen = 0 /\ catalog # None)
       THEN UNCHANGED <<catalog, rows, optIn, jobs, crossed>>
       ELSE /\ optIn' = optIn \cup {r.org}
            /\ crossed' = (crossed \/ (r.seen # 0 /\ (catalog = None \/ catalog.id # r.seen)))
            /\ IF r.seen = 0
               THEN /\ catalog' = [id |-> rows + 1, status |-> "pending"] /\ rows' = rows + 1
                    /\ jobs' = IF model THEN jobs ELSE
                               jobs \cup {[id |-> 0, phase |-> "queued", left |-> Texts, n |-> rows]}
               ELSE UNCHANGED <<catalog, rows, jobs>>
    /\ Free(p) /\ UNCHANGED <<model, cache, orphaned>>

\* The code and the organisation's row are unique; the code of an opt-in is no foreign key.
EnableLanguage(p) ==
    LET r == req[p] IN
    /\ r.op = "enable"
    /\ IF r.org \in optIn \/ (r.seen = 0 /\ catalog # None)
       THEN UNCHANGED <<catalog, rows, optIn, jobs, crossed>>
       ELSE /\ optIn' = optIn \cup {r.org}
            /\ crossed' = (crossed \/ (r.seen # 0 /\ (catalog = None \/ catalog.id # r.seen)))
            /\ IF r.seen = 0
               THEN /\ catalog' = [id |-> rows + 1, status |-> "pending"] /\ rows' = rows + 1
                    /\ jobs' = jobs \cup {[id |-> 0, phase |-> "queued", left |-> Texts, n |-> rows]}
               ELSE UNCHANGED <<catalog, rows, jobs>>
    /\ Free(p) /\ UNCHANGED <<model, cache, orphaned>>

\* org_disable_language
DisableLanguage(o) ==
    /\ o \in optIn /\ optIn' = optIn \ {o}
    /\ UNCHANGED <<catalog, rows, model, cache, jobs, req>>

\* admin_uninstall_language: the opt-ins it finds, then the row
AskUninstall(p) ==
    /\ catalog # None
    /\ Go(p, [op |-> "uninstall", id |-> catalog.id, optIn |-> optIn])
    /\ UNCHANGED words

\* Mutant: the opt-ins are left in place.
UninstallRowOnly(p) ==
    LET r == req[p] IN
    /\ r.op = "uninstall"
    /\ IF catalog # None /\ catalog.id = r.id
       THEN catalog' = None
       ELSE UNCHANGED catalog
    /\ Free(p) /\ UNCHANGED <<rows, optIn, model, cache, jobs, orphaned, crossed>>

UninstallLanguage(p) ==
    LET r == req[p] IN
    /\ r.op = "uninstall"
    /\ IF catalog # None /\ catalog.id = r.id
       THEN /\ catalog' = None /\ optIn' = optIn \ r.optIn
            /\ crossed' = (crossed \/ ~(optIn \subseteq r.optIn))
       ELSE UNCHANGED <<catalog, optIn, crossed>>
    /\ Free(p) /\ UNCHANGED <<rows, model, cache, jobs, orphaned>>

\* translate_cached: without the model the text comes back as it was
AskTranslation(p, t) ==
    /\ cache[t] = None
    /\ Go(p, [op |-> "translate", text |-> t, got |-> IF model THEN "translated" ELSE "english"])
    /\ UNCHANGED words

\* The first to commit is kept.
Keep(t, got) == cache' = [cache EXCEPT ![t] = IF @ = None THEN got ELSE @]

Translate(p) ==
    /\ req[p].op = "translate"
    /\ Keep(req[p].text, req[p].got) /\ Free(p)
    /\ UNCHANGED <<catalog, rows, optIn, model, jobs, orphaned, crossed>>

Become(j, k) == jobs' = (jobs \ {j}) \cup {k}

\* The row a job holds is gone: its UPDATE fails and the job with it.
Holds(j) == catalog # None /\ catalog.id = j.id

\* run_enable_language_job
StartJob(j) ==
    /\ j.phase = "queued"
    /\ IF catalog = None THEN jobs' = jobs \ {j} /\ UNCHANGED catalog
       ELSE /\ catalog' = [catalog EXCEPT !.status = "installing"]
            /\ Become(j, [j EXCEPT !.phase = "install", !.id = catalog.id])
    /\ UNCHANGED <<rows, optIn, model, cache>>

Finish(j, status) ==
    /\ jobs' = jobs \ {j}
    /\ catalog' = IF Holds(j) THEN [catalog EXCEPT !.status = status] ELSE catalog

InstallModel(j) ==
    /\ j.phase = "install"
    /\ \/ model' = TRUE /\ Become(j, [j EXCEPT !.phase = "translate"]) /\ UNCHANGED catalog
       \/ Finish(j, "error") /\ UNCHANGED model
    /\ UNCHANGED <<rows, optIn, cache>>

TranslateKnown(j) ==
    /\ j.phase = "translate" /\ j.left # {}
    /\ LET t == CHOOSE t \in j.left : TRUE IN
       /\ Keep(t, "translated") /\ Become(j, [j EXCEPT !.left = @ \ {t}])
    /\ UNCHANGED <<catalog, rows, optIn, model>>

FinishJob(j) ==
    /\ j.phase = "translate" /\ j.left = {} /\ Finish(j, "ready")
    /\ UNCHANGED <<rows, optIn, model, cache>>

-----------------------------------------------------------------------------
(* Look-ups.                                                               *)

\* Mutant: a licence that was found is good no longer than one that was not.
FreshAsNotFound == license # None /\ now - license.at <= TTL.notFound

\* _callsign_cache_read
Fresh ==
    license # None
    /\ now - license.at <= IF license.status = "found" THEN TTL.found ELSE TTL.notFound

\* lookup_callsign: the outside sources in turn; silence and a refusal are "not_found" alike
Lookup(p) ==
    /\ ~Fresh
    /\ \E status \in {"found", "not_found"} :
          Go(p, [op |-> "save", status |-> status, since |-> now])
    /\ UNCHANGED license

\* _callsign_cache_write
ReadRow(p) ==
    /\ req[p].op = "save"
    /\ Go(p, [req[p] EXCEPT !.op = IF license = None THEN "add" ELSE "overwrite"])
    /\ UNCHANGED license

SaveLicense(p) ==
    LET r == req[p] IN
    /\ r.op \in {"add", "overwrite"}
    /\ license' = IF r.op = "add" /\ license # None THEN license
                  ELSE [status |-> r.status, at |-> now]
    /\ Free(p)

-----------------------------------------------------------------------------
Accept(part) ==
    /\ accepted.all < MaxRequests /\ accepted[part] < MaxOf
    /\ accepted' = [accepted EXCEPT !.all = @ + 1, ![part] = @ + 1]

LiveNext(p) ==
    \/ /\ Accept("live") /\ req[p] = Idle
       /\ SaveConfig \/ \E w \in Workers : Push(p, w) \/ Read(p, w)
       /\ UNCHANGED last
    \/ /\ Load(p) \/ Answer(p) \/ Select(p) \/ Store(p) \/ ShareIt(p)
       /\ UNCHANGED accepted

WordsNext(p) ==
    \/ /\ Accept("words") /\ req[p] = Idle
       /\ \/ \E o \in Orgs : AskLanguage(p, o) \/ DisableLanguage(o)
          \/ AskUninstall(p)
          \/ \E t \in Texts : AskTranslation(p, t)
       /\ UNCHANGED <<orphaned, crossed>>
    \/ /\ EnableLanguage(p) \/ UninstallLanguage(p) \/ Translate(p)
       /\ UNCHANGED accepted

JobNext == \E j \in jobs : StartJob(j) \/ InstallModel(j) \/ TranslateKnown(j) \/ FinishJob(j)

LicenseNext(p) ==
    \/ Accept("licenses") /\ req[p] = Idle /\ Lookup(p)
    \/ (ReadRow(p) \/ SaveLicense(p)) /\ UNCHANGED accepted

Tick ==
    /\ now < MaxTime /\ now' = now + 1
    /\ UNCHANGED <<live, words, license, up, req, accepted, ghosts>>

RedisChange ==
    /\ Accept("live") /\ up' \in RedisModes \ {up}
    /\ UNCHANGED <<live, words, license, now, req, ghosts>>

\* deploy.sh restarts the service: memory, requests and jobs are gone.
Restart ==
    /\ Accept("restarts")
    /\ memory' = [w \in Workers |-> None] /\ req' = [p \in Slots |-> Idle] /\ jobs' = {}
    /\ torn' = (torn \/ Busy(Working)) /\ orphaned' = (orphaned \/ jobs # {})
    /\ UNCHANGED <<source, setting, redis, made, catalog, rows, optIn, model, cache>>
    /\ UNCHANGED <<license, up, now, last, crossed>>

Init ==
    /\ source = None /\ memory = [w \in Workers |-> None] /\ setting = None /\ redis = None
    /\ up \in RedisModes /\ made = 0
    /\ catalog = None /\ rows = 0 /\ optIn = {} /\ model = FALSE
    /\ cache = [t \in Texts |-> None] /\ jobs = {} /\ license = None
    /\ now = 0 /\ req = [p \in Slots |-> Idle]
    /\ accepted = [all |-> 0, live |-> 0, words |-> 0, licenses |-> 0, restarts |-> 0]
    /\ torn = FALSE /\ last = None /\ orphaned = FALSE /\ crossed = FALSE

Next ==
    \/ \E p \in Slots :
          \/ LiveNext(p) /\ UNCHANGED <<words, license, up, now, orphaned, crossed>>
          \/ WordsNext(p) /\ UNCHANGED <<live, license, up, now, torn, last>>
          \/ LicenseNext(p) /\ UNCHANGED <<live, words, up, now, ghosts>>
    \/ JobNext /\ UNCHANGED <<live, license, up, now, req, accepted, ghosts>>
    \/ Tick \/ RedisChange \/ Restart

Spec == Init /\ [][Next]_vars

-----------------------------------------------------------------------------
\* While no live request overlapped another and no store was cut off, Redis holds the row's
\* snapshot as long as it holds any, the worker that stored it holds none but that, and
\* every answer in progress is the newest snapshot, unless another worker found none in
\* Redis and took what it had in memory.
NewestIsServed ==
    ~torn =>
        /\ ~Busy(Working) =>
              /\ RedisHas => redis.snap = setting
              /\ setting # None => memory[last] \in {None, setting}
        /\ \A p \in Slots :
              req[p].op = "read" /\ (req[p].of = "memory" => req[p].w = last) =>
                 req[p].got = setting

\* The rows have their types, and an organisation's opt-in refers to a language of the
\* catalogue, unless the language was removed while it was being asked for: nothing but the
\* order of the commits keeps it.
OptInListed ==
    /\ TypeOK
    /\ ~crossed /\ optIn # {} => catalog # None

\* A language shown as pending or installing is being worked on, unless the process was
\* stopped over the job: nobody starts another one.
SomebodyInstalls ==
    ~orphaned /\ catalog # None /\ catalog.status \in {"pending", "installing"} => jobs # {}

\* A licence that was found stays what is answered for as long as it is fresh: only a
\* look-up begun before it was found may put "not found" in its place.
FoundIsKept ==
    [][license # None /\ license.status = "found" /\ now - license.at <= TTL.found
          /\ license' # license
       => \E p \in Slots : req[p].op = "overwrite" /\ req'[p] = Idle /\ req[p].since <= license.at]_vars
=============================================================================
