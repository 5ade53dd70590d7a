---------------------------- MODULE CachesProofs ----------------------------
(***************************************************************************)
(* Proofs about Caches, for any workers, organisations, texts, lifetimes   *)
(* and number of requests in flight.                                       *)
(***************************************************************************)
EXTENDS Caches, TLAPS

LookUps == {"save", "add", "overwrite"}

LookUp == [op : LookUps, status : {"found", "not_found"}, since : Nat]

Reading ==
    [op : {"read", "load"}, w : Workers, got : Snapshot \cup {None},
     of : {"redis", "memory", "row"}, from : {"aprs_fi", "relay"}]

Storing == [op : {"select", "insert", "update", "share"}, w : Workers, snap : Snapshot]

\* What a slot can hold, by the steps its request has still to make.
Request ==
    [op : {"idle"}]
    \cup Reading
    \cup Storing
    \cup [op : {"enable"}, org : Orgs, seen : Nat]
    \cup [op : {"uninstall"}, id : Nat, optIn : SUBSET Orgs]
    \cup [op : {"translate"}, text : Texts, got : {"english", "translated"}]
    \cup LookUp

Job == [id : Nat, phase : {"queued", "install", "translate"}, left : SUBSET Texts, n : Nat]

ReqTypes == req \in [Slots -> Request] /\ now \in Nat

LiveTypes ==
    /\ source \in {None, "aprs_fi", "relay"} /\ made \in Nat
    /\ memory \in [Workers -> Snapshot \cup {None}] /\ setting \in Snapshot \cup {None}
    /\ redis \in [snap : Snapshot, until : Nat] \cup {None}

\* A language's number is one of those handed out so far.
WordTypes ==
    /\ rows \in Nat
    /\ catalog \in Language \cup {None} /\ (catalog # None => catalog.id <= rows)
    /\ optIn \subseteq Orgs /\ model \in BOOLEAN
    /\ cache \in [Texts -> {None, "english", "translated"}]
    /\ jobs \subseteq Job /\ \A j \in jobs : j.id <= rows

Listed == ~crossed /\ optIn # {} => catalog # None

\* The job that works on the language, or one that is still to see which one there is.
Worker(j) == j.phase = "queued" \/ j.id = catalog.id

Worked ==
    ~orphaned /\ catalog # None /\ catalog.status \in {"pending", "installing"} =>
        \E j \in jobs : Worker(j)

WordInv == WordTypes /\ Listed /\ Worked

LicenseTypes == license \in [status : {"found", "not_found"}, at : 0 .. now] \cup {None}

\* Who looks a callsign up after it was found does so because that has run out.
LookedUp ==
    \A p \in Slots : req[p].op \in LookUps =>
        /\ req[p].since <= now
        /\ license # None /\ license.status = "found" /\ license.at < req[p].since =>
              ~(req[p].since - license.at <= TTL.found)

LicenseInv == LicenseTypes /\ LookedUp

IInv == ReqTypes /\ LiveTypes /\ WordInv /\ LicenseInv

\* Slots that hold a look-up after the step held it before.
NoNewLookUp == \A q \in Slots : req'[q].op \in LookUps => req'[q] = req[q]

-----------------------------------------------------------------------------
LEMMA InitIInv == Init => IInv
<1> SUFFICES ASSUME Init PROVE IInv
  OBVIOUS
<1>1. \A p \in Slots : req[p] = [op |-> "idle"]
  BY DEF Init, Idle
<1>2. ReqTypes
  BY DEF Init, ReqTypes, Request, Idle
<1>3. LiveTypes
  BY DEF Init, LiveTypes
<1>4. WordInv
  BY DEF Init, WordInv, WordTypes, Listed, Worked
<1>5. LicenseInv
  BY <1>1 DEF Init, LicenseInv, LicenseTypes, LookedUp, LookUps
<1> QED
  BY <1>2, <1>3, <1>4, <1>5 DEF IInv

-----------------------------------------------------------------------------
(* What a step leaves alone stays as it should be.                         *)

LEMMA ReqStep ==
    ASSUME ReqTypes, NEW p \in Slots, NEW r \in Request, Go(p, r), now' = now
    PROVE  /\ ReqTypes'
           /\ \A q \in Slots : req'[q] = IF q = p THEN r ELSE req[q]
BY DEF ReqTypes, Go

LEMMA FreeStep ==
    ASSUME ReqTypes, NEW p \in Slots, Free(p), now' = now
    PROVE  /\ ReqTypes' /\ NoNewLookUp
           /\ req'[p] = [op |-> "idle"]
<1>1. [op |-> "idle"] \in Request
  BY DEF Request
<1>2. Go(p, [op |-> "idle"])
  BY DEF Free, Go, Idle
<1>3. ReqTypes' /\ \A q \in Slots : req'[q] = IF q = p THEN [op |-> "idle"] ELSE req[q]
  BY <1>1, <1>2, ReqStep
<1> QED
  BY <1>3 DEF NoNewLookUp, LookUps

LEMMA GoStep ==
    ASSUME ReqTypes, NEW p \in Slots, NEW r \in Request, r.op \notin LookUps, Go(p, r), now' = now
    PROVE  ReqTypes' /\ NoNewLookUp
<1>1. ReqTypes' /\ \A q \in Slots : req'[q] = IF q = p THEN r ELSE req[q]
  BY ReqStep
<1> QED
  BY <1>1 DEF NoNewLookUp

LEMMA LiveKept == LiveTypes /\ UNCHANGED live => LiveTypes'
BY DEF LiveTypes, live

LEMMA WordsKept == WordInv /\ UNCHANGED words /\ UNCHANGED <<orphaned, crossed>> => WordInv'
BY DEF WordInv, WordTypes, Listed, Worked, Worker, words

LEMMA LicenseKept ==
    ASSUME LicenseInv, license' = license, now' = now, NoNewLookUp
    PROVE  LicenseInv'
BY DEF LicenseInv, LicenseTypes, LookedUp, NoNewLookUp

-----------------------------------------------------------------------------
(* The live data.                                                          *)

\* What a slot holds, by the step its request is at.
LEMMA LiveRequest ==
    ASSUME ReqTypes, NEW p \in Slots
    PROVE  /\ req[p].op \in {"read", "load"} =>
                req[p] \in Reading
           /\ req[p].op \in {"select", "insert", "update", "share"} =>
                req[p] \in Storing
<1>1. req[p] \in Request
  BY DEF ReqTypes
<1> QED
  BY <1>1 DEF Request, Reading, Storing, LookUp, LookUps

LEMMA NewSnapshotType == made \in Nat /\ now \in Nat => NewSnapshot \in Snapshot
BY DEF NewSnapshot, Snapshot

LEMMA StoreInStep ==
    ASSUME ReqTypes, LiveTypes, NEW p \in Slots, NEW w \in Workers, StoreIn(p, w),
           UNCHANGED <<source, setting, redis>>, now' = now
    PROVE  ReqTypes' /\ NoNewLookUp /\ LiveTypes'
<1>1. NewSnapshot \in Snapshot
  BY NewSnapshotType DEF ReqTypes, LiveTypes
<1> DEFINE r == [op |-> "select", w |-> w, snap |-> NewSnapshot]
<1>2. r \in Request /\ r.op = "select"
  BY <1>1 DEF Reading, Storing, Request
<1>3. Go(p, r)
  BY DEF StoreIn
<1> HIDE DEF r
<1>4. ReqTypes' /\ NoNewLookUp
  BY <1>2, <1>3, GoStep DEF LookUps
<1>5. LiveTypes'
  BY <1>1 DEF LiveTypes, StoreIn
<1> QED
  BY <1>4, <1>5

LEMMA ReadStep ==
    ASSUME ReqTypes, LiveTypes, NEW p \in Slots, NEW w \in Workers, Read(p, w), now' = now
    PROVE  ReqTypes' /\ NoNewLookUp /\ LiveTypes'
<1> DEFINE r == IF RedisHas
                THEN [op |-> "read", w |-> w, got |-> redis.snap, of |-> "redis", from |-> source]
                ELSE IF memory[w] # None
                THEN [op |-> "read", w |-> w, got |-> memory[w], of |-> "memory", from |-> source]
                ELSE [op |-> "load", w |-> w, got |-> setting, of |-> "row", from |-> source]
<1>1. Go(p, r) /\ source # None /\ UNCHANGED live
  BY DEF Read
<1>2. source \in {"aprs_fi", "relay"}
  BY <1>1 DEF LiveTypes
<1>3. /\ RedisHas => redis.snap \in Snapshot
      /\ memory[w] \in Snapshot \cup {None} /\ setting \in Snapshot \cup {None}
  BY DEF LiveTypes, RedisHas
<1>4. r \in Request /\ r.op \notin LookUps
  BY <1>2, <1>3 DEF Reading, Storing, Request, LookUps
<1> HIDE DEF r
<1>5. ReqTypes' /\ NoNewLookUp
  BY <1>1, <1>4, GoStep
<1> QED
  BY <1>1, <1>5, LiveKept

LEMMA LoadStep ==
    ASSUME ReqTypes, LiveTypes, NEW p \in Slots, Load(p), now' = now
    PROVE  ReqTypes' /\ NoNewLookUp /\ LiveTypes'
<1> DEFINE r == [req[p] EXCEPT !.op = "read"]
<1>1. req[p] \in Reading
  BY LiveRequest DEF Load
<1>2. r \in Request /\ r.op \notin LookUps
  BY <1>1 DEF Reading, Storing, Request, LookUps
<1>3. Go(p, r)
  BY DEF Load
<1> HIDE DEF r
<1>4. ReqTypes' /\ NoNewLookUp
  BY <1>2, <1>3, GoStep
<1>5. LiveTypes'
  BY <1>1 DEF Reading, Storing, LiveTypes, Load
<1> QED
  BY <1>4, <1>5

LEMMA StoringStep ==
    ASSUME ReqTypes, LiveTypes, NEW p \in Slots, Select(p) \/ Store(p) \/ ShareIt(p), now' = now
    PROVE  ReqTypes' /\ NoNewLookUp /\ LiveTypes'
<1>1. req[p] \in Storing
  BY LiveRequest DEF Select, Store, ShareIt
<1>2. ASSUME NEW op \in {"select", "insert", "update", "share"}, Go(p, [req[p] EXCEPT !.op = op])
      PROVE  ReqTypes' /\ NoNewLookUp
  <2> DEFINE r == [req[p] EXCEPT !.op = op]
  <2>1. r \in Request /\ r.op \notin LookUps
    BY <1>1 DEF Reading, Storing, Request, LookUps
  <2>2. Go(p, r)
    BY <1>2
  <2> HIDE DEF r
  <2> QED
    BY <2>1, <2>2, GoStep
<1>3. CASE Select(p)
  <2>1. Go(p, [req[p] EXCEPT !.op = "insert"]) \/ Go(p, [req[p] EXCEPT !.op = "update"])
    BY <1>3 DEF Select
  <2>2. ReqTypes' /\ NoNewLookUp
    BY <2>1, <1>2
  <2> QED
    BY <1>3, <2>2, LiveKept DEF Select
<1>4. CASE Store(p)
  <2>1. Free(p) \/ Go(p, [req[p] EXCEPT !.op = "share"])
    BY <1>4 DEF Store
  <2>2. ReqTypes' /\ NoNewLookUp
    BY <2>1, <1>2, FreeStep
  <2>3. LiveTypes'
    BY <1>1, <1>4 DEF Reading, Storing, Store, LiveTypes
  <2> QED
    BY <2>2, <2>3
<1>5. CASE ShareIt(p)
  <2>1. ReqTypes' /\ NoNewLookUp
    BY <1>5, FreeStep DEF ShareIt
  <2>2. now + TTL.live \in Nat
    BY CachesAssumption DEF ReqTypes
  <2>3. LiveTypes'
    BY <1>1, <1>5, <2>2 DEF Reading, Storing, ShareIt, LiveTypes
  <2> QED
    BY <2>1, <2>3
<1> QED
  BY <1>3, <1>4, <1>5

LEMMA LiveStep ==
    ASSUME ReqTypes, LiveTypes, NEW p \in Slots, LiveNext(p), now' = now
    PROVE  ReqTypes' /\ NoNewLookUp /\ LiveTypes'
<1>1. CASE SaveConfig
  BY <1>1 DEF SaveConfig, ReqTypes, LiveTypes, NoNewLookUp
<1>2. ASSUME NEW w \in Workers, Push(p, w)
      PROVE  ReqTypes' /\ NoNewLookUp /\ LiveTypes'
  BY <1>2, StoreInStep DEF Push
<1>3. CASE Answer(p)
  <2>1. req[p].w \in Workers
    BY <1>3, LiveRequest DEF Reading, Storing, Answer
  <2>2. CASE Free(p) /\ UNCHANGED <<memory, made>>
    BY <1>3, <2>2, FreeStep, LiveKept DEF Answer, live
  <2>3. CASE StoreIn(p, req[p].w)
    BY <1>3, <2>1, <2>3, StoreInStep DEF Answer
  <2> QED
    BY <1>3, <2>2, <2>3 DEF Answer
<1> QED
  BY <1>1, <1>2, <1>3, ReadStep, LoadStep, StoringStep DEF LiveNext

-----------------------------------------------------------------------------
(* Languages.                                                              *)

LEMMA WordRequest ==
    ASSUME ReqTypes, NEW p \in Slots
    PROVE  /\ req[p].op = "enable" => req[p] \in [op : {"enable"}, org : Orgs, seen : Nat]
           /\ req[p].op = "uninstall" =>
                req[p] \in [op : {"uninstall"}, id : Nat, optIn : SUBSET Orgs]
           /\ req[p].op = "translate" =>
                req[p] \in [op : {"translate"}, text : Texts, got : {"english", "translated"}]
<1>1. req[p] \in Request
  BY DEF ReqTypes
<1> QED
  BY <1>1 DEF Request, Reading, Storing, LookUp, LookUps

\* The questions only take up a slot.
LEMMA AskStep ==
    ASSUME ReqTypes, WordInv, NEW p \in Slots, now' = now, UNCHANGED <<orphaned, crossed>>,
           \/ \E o \in Orgs : AskLanguage(p, o)
           \/ AskUninstall(p)
           \/ \E t \in Texts : AskTranslation(p, t)
    PROVE  ReqTypes' /\ NoNewLookUp /\ WordInv'
<1>1. WordTypes
  BY DEF WordInv
<1>2. WordInv'
  BY WordsKept DEF AskLanguage, AskUninstall, AskTranslation
<1>3. ASSUME NEW o \in Orgs, AskLanguage(p, o) PROVE ReqTypes' /\ NoNewLookUp
  <2> DEFINE r == [op |-> "enable", org |-> o, seen |-> IF catalog = None THEN 0 ELSE catalog.id]
  <2>1. r \in Request /\ r.op \notin LookUps
    BY <1>1 DEF WordTypes, Language, Request, LookUps
  <2>2. Go(p, r)
    BY <1>3 DEF AskLanguage
  <2> HIDE DEF r
  <2> QED
    BY <2>1, <2>2, GoStep
<1>4. ASSUME AskUninstall(p) PROVE ReqTypes' /\ NoNewLookUp
  <2> DEFINE r == [op |-> "uninstall", id |-> catalog.id, optIn |-> optIn]
  <2>1. r \in Request /\ r.op \notin LookUps
    BY <1>1, <1>4 DEF WordTypes, Language, Request, LookUps, AskUninstall
  <2>2. Go(p, r)
    BY <1>4 DEF AskUninstall
  <2> HIDE DEF r
  <2> QED
    BY <2>1, <2>2, GoStep
<1>5. ASSUME NEW t \in Texts, AskTranslation(p, t) PROVE ReqTypes' /\ NoNewLookUp
  <2> DEFINE r == [op |-> "translate", text |-> t, got |-> IF model THEN "translated" ELSE "english"]
  <2>1. r \in Request /\ r.op \notin LookUps
    BY DEF Request, LookUps
  <2>2. Go(p, r)
    BY <1>5 DEF AskTranslation
  <2> HIDE DEF r
  <2> QED
    BY <2>1, <2>2, GoStep
<1> QED
  BY <1>2, <1>3, <1>4, <1>5

LEMMA DisableStep ==
    ASSUME ReqTypes, WordInv, NEW o \in Orgs, DisableLanguage(o), now' = now,
           UNCHANGED <<orphaned, crossed>>
    PROVE  ReqTypes' /\ NoNewLookUp /\ WordInv'
<1>1. ReqTypes' /\ NoNewLookUp
  BY DEF DisableLanguage, ReqTypes, NoNewLookUp
<1>2. WordTypes' /\ Listed' /\ Worked'
  BY DEF DisableLanguage, WordInv, WordTypes, Listed, Worked, Worker
<1> QED
  BY <1>1, <1>2 DEF WordInv

\* A first request makes the row with its job; a later one relies on the row it saw.
LEMMA EnableStep ==
    ASSUME ReqTypes, WordInv, NEW p \in Slots, EnableLanguage(p), now' = now
    PROVE  ReqTypes' /\ NoNewLookUp /\ WordInv'
<1> DEFINE r == req[p]
           job == [id |-> 0, phase |-> "queued", left |-> Texts, n |-> rows]
           row == [id |-> rows + 1, status |-> "pending"]
<1>1. r.org \in Orgs /\ r.seen \in Nat
  BY WordRequest DEF EnableLanguage
<1>2. ReqTypes' /\ NoNewLookUp
  BY FreeStep DEF EnableLanguage
<1>3. WordTypes /\ Listed /\ Worked
  BY DEF WordInv
<1>4. CASE r.org \in optIn \/ (r.seen = 0 /\ catalog # None)
  <2>1. UNCHANGED words /\ UNCHANGED <<orphaned, crossed>>
    BY <1>4 DEF EnableLanguage, words
  <2> QED
    BY <2>1, <1>2, WordsKept
<1>5. CASE ~(r.org \in optIn \/ (r.seen = 0 /\ catalog # None)) /\ r.seen # 0
  <2>1. /\ optIn' = optIn \cup {r.org}
        /\ crossed' = (crossed \/ catalog = None \/ catalog.id # r.seen)
        /\ UNCHANGED <<catalog, rows, jobs, model, cache, orphaned>>
    BY <1>5 DEF EnableLanguage
  <2>2. WordTypes'
    BY <2>1, <1>1, <1>3 DEF WordTypes
  <2>3. Listed'
    BY <2>1 DEF Listed
  <2>4. Worked'
    BY <2>1, <1>3 DEF Worked, Worker
  <2> QED
    BY <2>2, <2>3, <2>4, <1>2 DEF WordInv
<1>6. CASE ~(r.org \in optIn \/ (r.seen = 0 /\ catalog # None)) /\ r.seen = 0
  <2>1. /\ optIn' = optIn \cup {r.org}
        /\ catalog' = row /\ rows' = rows + 1 /\ jobs' = jobs \cup {job}
        /\ UNCHANGED <<model, cache, orphaned>>
    BY <1>6 DEF EnableLanguage
  <2>2. row \in Language /\ row.id = rows + 1 /\ job \in Job /\ job.id = 0 /\ job.phase = "queued"
    BY <1>3 DEF WordTypes, Language, Job
  <2> HIDE DEF row, job
  <2>3. WordTypes'
    BY <2>1, <2>2, <1>1, <1>3 DEF WordTypes, Job
  <2>4. Listed'
    BY <2>1, <2>2, NoneAssumption DEF Listed
  <2>5. Worked'
    BY <2>1, <2>2 DEF Worked, Worker
  <2> QED
    BY <2>3, <2>4, <2>5, <1>2 DEF WordInv
<1> QED
  BY <1>4, <1>5, <1>6

\* The opt-ins go with the row, or the request was crossed.
LEMMA UninstallStep ==
    ASSUME ReqTypes, WordInv, NEW p \in Slots, UninstallLanguage(p), now' = now
    PROVE  ReqTypes' /\ NoNewLookUp /\ WordInv'
<1>1. ReqTypes' /\ NoNewLookUp
  BY FreeStep DEF UninstallLanguage
<1>2. WordTypes /\ Listed /\ Worked
  BY DEF WordInv
<1>3. \/ UNCHANGED <<catalog, optIn, crossed>>
      \/ /\ catalog' = None /\ optIn' = optIn \ req[p].optIn
         /\ crossed' = (crossed \/ ~(optIn \subseteq req[p].optIn))
  BY DEF UninstallLanguage
<1>4. UNCHANGED <<rows, model, cache, jobs, orphaned>>
  BY DEF UninstallLanguage
<1>5. WordTypes'
  BY <1>2, <1>3, <1>4 DEF WordTypes
<1>6. Listed'
  BY <1>2, <1>3 DEF Listed
<1>7. Worked'
  BY <1>2, <1>3, <1>4 DEF Worked, Worker
<1> QED
  BY <1>1, <1>5, <1>6, <1>7 DEF WordInv

LEMMA KeepStep ==
    ASSUME WordTypes, NEW t \in Texts, NEW got \in {"english", "translated"}, Keep(t, got)
    PROVE  cache' \in [Texts -> {None, "english", "translated"}]
BY DEF WordTypes, Keep

LEMMA TranslateStep ==
    ASSUME ReqTypes, WordInv, NEW p \in Slots, Translate(p), now' = now
    PROVE  ReqTypes' /\ NoNewLookUp /\ WordInv'
<1>1. ReqTypes' /\ NoNewLookUp
  BY FreeStep DEF Translate
<1>2. req[p].text \in Texts /\ req[p].got \in {"english", "translated"}
  BY WordRequest DEF Translate
<1>3. cache' \in [Texts -> {None, "english", "translated"}]
  BY <1>2, KeepStep DEF Translate, WordInv
<1>4. WordTypes' /\ Listed' /\ Worked'
  BY <1>3 DEF WordInv, WordTypes, Listed, Worked, Worker, Translate
<1> QED
  BY <1>1, <1>4 DEF WordInv

LEMMA WordsStep ==
    ASSUME ReqTypes, WordInv, NEW p \in Slots, WordsNext(p), now' = now
    PROVE  ReqTypes' /\ NoNewLookUp /\ WordInv'
BY AskStep, DisableStep, EnableStep, UninstallStep, TranslateStep DEF WordsNext

-----------------------------------------------------------------------------
(* The jobs.                                                               *)

\* A job that changes what it holds but not for which language stands in for itself.
LEMMA BecomeStep ==
    ASSUME WordInv, NEW j \in jobs, NEW k \in Job, Become(j, k), k.id = j.id, j.phase # "queued",
           cache' \in [Texts -> {None, "english", "translated"}], model' \in BOOLEAN,
           UNCHANGED <<catalog, rows, optIn, orphaned, crossed>>
    PROVE  WordInv'
<1>1. WordTypes'
  BY DEF WordInv, WordTypes, Become
<1>2. Listed'
  BY DEF WordInv, Listed
<1>3. Worked'
  <2> SUFFICES ASSUME ~orphaned, catalog # None, catalog.status \in {"pending", "installing"}
               PROVE  \E i \in jobs' : Worker(i)'
    BY DEF Worked
  <2>1. PICK i \in jobs : Worker(i)
    BY DEF WordInv, Worked
  <2>2. CASE i = j
    <3>1. k \in jobs' /\ Worker(k)'
      BY <2>1, <2>2 DEF Become, Worker
    <3> QED
      BY <3>1
  <2>3. CASE i # j
    <3>1. i \in jobs' /\ Worker(i)'
      BY <2>1, <2>3 DEF Become, Worker
    <3> QED
      BY <3>1
  <2> QED
    BY <2>2, <2>3
<1> QED
  BY <1>1, <1>2, <1>3 DEF WordInv

\* A job that ends says so on the row it holds; another row has a job of its own.
LEMMA FinishStep ==
    ASSUME WordInv, NEW j \in jobs, j.phase # "queued",
           NEW status \in {"ready", "error"}, Finish(j, status),
           UNCHANGED <<rows, optIn, model, cache, orphaned, crossed>>
    PROVE  WordInv'
<1> DEFINE row == [catalog EXCEPT !.status = status]
<1>1. WordTypes /\ Listed /\ Worked
  BY DEF WordInv
<1>2. CASE Holds(j)
  <2>1. catalog \in Language
    BY <1>1, <1>2 DEF WordTypes, Holds
  <2>2. row \in Language /\ row.id = catalog.id /\ row.status = status
    BY <2>1 DEF Language
  <2>3. catalog' = row /\ jobs' = jobs \ {j}
    BY <1>2 DEF Finish
  <2> HIDE DEF row
  <2>4. WordTypes'
    BY <2>2, <2>3, <1>1, <1>2 DEF WordTypes, Holds
  <2>5. Listed'
    BY <2>2, <2>3, NoneAssumption DEF Listed
  <2>6. Worked'
    BY <2>2, <2>3 DEF Worked
  <2> QED
    BY <2>4, <2>5, <2>6 DEF WordInv
<1>3. CASE ~Holds(j)
  <2>1. catalog' = catalog /\ jobs' = jobs \ {j}
    BY <1>3 DEF Finish
  <2>2. WordTypes' /\ Listed'
    BY <2>1, <1>1 DEF WordTypes, Listed
  <2>3. Worked'
    BY <2>1, <1>1, <1>3 DEF Worked, Worker, Holds
  <2> QED
    BY <2>2, <2>3 DEF WordInv
<1> QED
  BY <1>2, <1>3

LEMMA StartStep ==
    ASSUME WordInv, NEW j \in jobs, StartJob(j), UNCHANGED <<orphaned, crossed>>
    PROVE  WordInv'
<1> DEFINE row == [catalog EXCEPT !.status = "installing"]
           k == [j EXCEPT !.phase = "install", !.id = catalog.id]
<1>1. WordTypes /\ Listed /\ Worked
  BY DEF WordInv
<1>2. CASE catalog = None
  BY <1>1, <1>2 DEF StartJob, WordInv, WordTypes, Listed, Worked, Worker
<1>3. CASE catalog # None
  <2>1. catalog \in Language /\ j \in Job
    BY <1>1, <1>3 DEF WordTypes
  <2>2. row \in Language /\ row.id = catalog.id
    BY <2>1 DEF Language
  <2>3. k \in Job /\ k.id = catalog.id
    BY <2>1 DEF Job, Language
  <2>4. catalog' = row /\ jobs' = (jobs \ {j}) \cup {k} /\ UNCHANGED <<rows, optIn, model, cache>>
    BY <1>3 DEF StartJob, Become
  <2> HIDE DEF row, k
  <2>5. WordTypes'
    BY <2>2, <2>3, <2>4, <1>1, <1>3 DEF WordTypes
  <2>6. Listed'
    BY <2>2, <2>4, NoneAssumption DEF Listed
  <2>7. Worked'
    BY <2>2, <2>3, <2>4 DEF Worked, Worker
  <2> QED
    BY <2>5, <2>6, <2>7 DEF WordInv
<1> QED
  BY <1>2, <1>3

LEMMA JobStep ==
    ASSUME WordInv, NEW j \in jobs, UNCHANGED <<orphaned, crossed>>,
           StartJob(j) \/ InstallModel(j) \/ TranslateKnown(j) \/ FinishJob(j)
    PROVE  WordInv'
<1>1. j \in Job /\ model \in BOOLEAN /\ cache \in [Texts -> {None, "english", "translated"}]
  BY DEF WordInv, WordTypes
<1>2. CASE InstallModel(j)
  <2>1. CASE Finish(j, "error") /\ UNCHANGED model
    BY <1>2, <2>1, FinishStep DEF InstallModel
  <2>2. CASE model' = TRUE /\ Become(j, [j EXCEPT !.phase = "translate"]) /\ UNCHANGED catalog
    <3> DEFINE k == [j EXCEPT !.phase = "translate"]
    <3>1. k \in Job /\ k.id = j.id
      BY <1>1 DEF Job
    <3>2. Become(j, k) /\ UNCHANGED <<catalog, rows, optIn, cache>> /\ model' \in BOOLEAN
      BY <1>2, <2>2 DEF InstallModel
    <3>3. j.phase # "queued"
      BY <1>2 DEF InstallModel
    <3> HIDE DEF k
    <3> QED
      BY <3>1, <3>2, <3>3, <1>1, BecomeStep
  <2> QED
    BY <1>2, <2>1, <2>2 DEF InstallModel
<1>3. CASE TranslateKnown(j)
  <2>1. PICK t \in j.left : Keep(t, "translated") /\ Become(j, [j EXCEPT !.left = @ \ {t}])
    BY <1>3 DEF TranslateKnown
  <2> DEFINE k == [j EXCEPT !.left = @ \ {t}]
  <2>2. k \in Job /\ k.id = j.id /\ t \in Texts
    BY <1>1 DEF Job
  <2>3. cache' \in [Texts -> {None, "english", "translated"}]
    BY <2>1, <2>2, KeepStep DEF WordInv
  <2>4. Become(j, k)
    BY <2>1
  <2>5. UNCHANGED <<catalog, rows, optIn, model>> /\ j.phase # "queued"
    BY <1>3 DEF TranslateKnown
  <2> HIDE DEF k
  <2> QED
    BY <2>2, <2>3, <2>4, <2>5, <1>1, BecomeStep
<1>4. CASE FinishJob(j)
  BY <1>4, FinishStep DEF FinishJob
<1> QED
  BY <1>2, <1>3, <1>4, StartStep

-----------------------------------------------------------------------------
(* Look-ups.                                                               *)

LEMMA LookUpRequest ==
    ASSUME ReqTypes, NEW p \in Slots, req[p].op \in LookUps
    PROVE  req[p] \in LookUp
<1>1. req[p] \in Request
  BY DEF ReqTypes
<1> QED
  BY <1>1 DEF Request, Reading, Storing, LookUp, LookUps

\* A look-up begins only when what was found has run out.
LEMMA LookupStep ==
    ASSUME ReqTypes, LicenseInv, NEW p \in Slots, Lookup(p), now' = now
    PROVE  ReqTypes' /\ LicenseInv'
<1>1. PICK status \in {"found", "not_found"} : Go(p, [op |-> "save", status |-> status, since |-> now])
  BY DEF Lookup
<1> DEFINE r == [op |-> "save", status |-> status, since |-> now]
<1>2. r \in Request /\ r.op \in LookUps /\ r.since = now
  BY DEF Request, LookUp, LookUps, ReqTypes
<1>3. Go(p, r)
  BY <1>1
<1> HIDE DEF r
<1>4. ReqTypes' /\ \A q \in Slots : req'[q] = IF q = p THEN r ELSE req[q]
  BY <1>2, <1>3, ReqStep
<1>5. license' = license /\ ~Fresh
  BY DEF Lookup
<1>6. license # None /\ license.status = "found" => ~(now - license.at <= TTL.found)
  BY <1>5 DEF Fresh
<1>7. now <= now
  BY DEF ReqTypes
<1>8. LookedUp'
  BY <1>2, <1>4, <1>5, <1>6, <1>7 DEF LookedUp, LicenseInv
<1>9. LicenseTypes'
  BY <1>5 DEF LicenseTypes, LicenseInv
<1> QED
  BY <1>4, <1>8, <1>9 DEF LicenseInv

LEMMA ReadRowStep ==
    ASSUME ReqTypes, LicenseInv, NEW p \in Slots, ReadRow(p), now' = now
    PROVE  ReqTypes' /\ LicenseInv'
<1> DEFINE r == [req[p] EXCEPT !.op = IF license = None THEN "add" ELSE "overwrite"]
<1>1. req[p] \in LookUp /\ req[p].op \in LookUps
  BY LookUpRequest DEF ReadRow, LookUps
<1>2. r \in Request /\ r.since = req[p].since
  BY <1>1 DEF Request, Reading, Storing, LookUp, LookUps
<1>3. Go(p, r) /\ license' = license
  BY DEF ReadRow
<1> HIDE DEF r
<1>4. ReqTypes' /\ \A q \in Slots : req'[q] = IF q = p THEN r ELSE req[q]
  BY <1>2, <1>3, ReqStep
<1>5. LookedUp'
  BY <1>1, <1>2, <1>3, <1>4 DEF LookedUp, LicenseInv
<1> QED
  BY <1>3, <1>4, <1>5 DEF LicenseInv, LicenseTypes

\* What is stored now is newer than the beginning of any look-up under way.
LEMMA SaveStep ==
    ASSUME ReqTypes, LicenseInv, NEW p \in Slots, SaveLicense(p), now' = now
    PROVE  ReqTypes' /\ LicenseInv'
<1> DEFINE row == [status |-> req[p].status, at |-> now]
<1>1. ReqTypes' /\ NoNewLookUp
  BY FreeStep DEF SaveLicense
<1>2. req[p] \in LookUp
  BY LookUpRequest DEF SaveLicense, LookUps
<1>3. CASE license' = license
  BY <1>1, <1>3, LicenseKept
<1>4. CASE license' = row
  <2>1. row \in [status : {"found", "not_found"}, at : 0 .. now] /\ row.at = now
    BY <1>2 DEF LookUp, ReqTypes
  <2> HIDE DEF row
  <2>2. LicenseTypes'
    BY <1>4, <2>1 DEF LicenseTypes
  <2>3. \A q \in Slots : req'[q].op \in LookUps => req'[q].since \in Nat /\ req'[q].since <= now
    <3>1. \A q \in Slots : req[q].op \in LookUps => req[q].since \in Nat
      BY LookUpRequest DEF LookUp
    <3> QED
      BY <1>1, <3>1 DEF NoNewLookUp, LicenseInv, LookedUp
  <2>4. LookedUp'
    BY <1>4, <2>1, <2>3 DEF LookedUp, ReqTypes
  <2> QED
    BY <1>1, <2>2, <2>4 DEF LicenseInv
<1> QED
  BY <1>3, <1>4 DEF SaveLicense

LEMMA LicenseStep ==
    ASSUME ReqTypes, LicenseInv, NEW p \in Slots, LicenseNext(p), now' = now
    PROVE  ReqTypes' /\ LicenseInv'
BY LookupStep, ReadRowStep, SaveStep DEF LicenseNext

-----------------------------------------------------------------------------
(* Every step, and the theorems.                                           *)

LEMMA TickStep == IInv /\ Tick => IInv'
<1> SUFFICES ASSUME IInv, Tick PROVE IInv'
  OBVIOUS
<1>1. UNCHANGED <<live, words, license, req, orphaned, crossed>> /\ now' = now + 1 /\ now \in Nat
  BY DEF Tick, ghosts, IInv, ReqTypes
<1>2. ReqTypes'
  BY <1>1 DEF IInv, ReqTypes
<1>3. LiveTypes' /\ WordInv'
  BY <1>1, LiveKept, WordsKept DEF IInv
<1>4. LicenseTypes'
  BY <1>1 DEF IInv, LicenseInv, LicenseTypes
<1>5. \A p \in Slots : req[p].op \in LookUps => req[p].since \in Nat
  BY LookUpRequest DEF IInv, LookUp
<1>6. LookedUp'
  BY <1>1, <1>5 DEF IInv, LicenseInv, LookedUp
<1> QED
  BY <1>2, <1>3, <1>4, <1>6 DEF IInv, LicenseInv

\* The jobs go with the process; history knows whether there were any.
LEMMA RestartStep == IInv /\ Restart => IInv'
<1> SUFFICES ASSUME IInv, Restart PROVE IInv'
  OBVIOUS
<1>1. \A p \in Slots : req'[p] = [op |-> "idle"]
  BY DEF Restart, Idle
<1>2. ReqTypes'
  BY DEF Restart, IInv, ReqTypes, Request, Idle
<1>3. LiveTypes'
  BY DEF Restart, IInv, LiveTypes
<1>4. WordTypes' /\ Listed' /\ Worked'
  BY DEF Restart, IInv, WordInv, WordTypes, Listed, Worked, Worker
<1>5. LicenseTypes' /\ LookedUp'
  BY <1>1 DEF Restart, IInv, LicenseInv, LicenseTypes, LookedUp, LookUps
<1> QED
  BY <1>2, <1>3, <1>4, <1>5 DEF IInv, WordInv, LicenseInv

LEMMA NextIInv == IInv /\ [Next]_vars => IInv'
<1> SUFFICES ASSUME IInv, [Next]_vars PROVE IInv'
  OBVIOUS
<1> USE DEF IInv
<1>1. ASSUME NEW p \in Slots, LiveNext(p),
             UNCHANGED <<words, license, up, now, orphaned, crossed>>
      PROVE  IInv'
  <2>1. now' = now /\ license' = license /\ UNCHANGED words /\ UNCHANGED <<orphaned, crossed>>
    BY <1>1
  <2>2. ReqTypes' /\ NoNewLookUp /\ LiveTypes'
    BY <1>1, <2>1, LiveStep
  <2> QED
    BY <2>1, <2>2, WordsKept, LicenseKept
<1>2. ASSUME NEW p \in Slots, WordsNext(p), UNCHANGED <<live, license, up, now, torn, last>>
      PROVE  IInv'
  <2>1. ReqTypes' /\ NoNewLookUp /\ WordInv'
    BY <1>2, WordsStep
  <2> QED
    BY <1>2, <2>1, LiveKept, LicenseKept
<1>3. ASSUME NEW p \in Slots, LicenseNext(p), UNCHANGED <<live, words, up, now, ghosts>>
      PROVE  IInv'
  <2>1. UNCHANGED <<orphaned, crossed>>
    BY <1>3 DEF ghosts
  <2>2. ReqTypes' /\ LicenseInv'
    BY <1>3, LicenseStep
  <2> QED
    BY <1>3, <2>1, <2>2, LiveKept, WordsKept
<1>4. CASE JobNext /\ UNCHANGED <<live, license, up, now, req, accepted, ghosts>>
  <2>1. UNCHANGED <<orphaned, crossed>> /\ ReqTypes' /\ NoNewLookUp
    BY <1>4 DEF ghosts, ReqTypes, NoNewLookUp
  <2>2. WordInv'
    BY <1>4, <2>1, JobStep DEF JobNext
  <2> QED
    BY <1>4, <2>1, <2>2, LiveKept, LicenseKept
<1>5. CASE RedisChange \/ UNCHANGED vars
  <2>1. UNCHANGED <<live, words, license, now, req, orphaned, crossed>>
    BY <1>5 DEF RedisChange, vars, ghosts
  <2>2. ReqTypes' /\ NoNewLookUp
    BY <2>1 DEF ReqTypes, NoNewLookUp
  <2> QED
    BY <2>1, <2>2, LiveKept, WordsKept, LicenseKept
<1> QED
  BY <1>1, <1>2, <1>3, <1>4, <1>5, TickStep, RestartStep DEF Next

LEMMA Inductive == Spec => []IInv
BY InitIInv, NextIInv, PTL DEF Spec

\* Whatever the organisations, the administrator and the job do and in which order they
\* commit, an opt-in refers to a language of the catalogue unless a removal crossed it
\* (org_enable_language, admin_uninstall_language); the rows keep their types.
THEOREM OptInsAreListed == Spec => []OptInListed
<1>1. IInv => OptInListed
  BY DEF IInv, ReqTypes, LiveTypes, WordInv, WordTypes, Listed, LicenseInv, LicenseTypes,
         OptInListed, TypeOK, Job
<1> QED
  BY <1>1, Inductive, PTL

\* A language shown as pending or installing has a job at work on it, unless the process
\* was stopped over one (run_enable_language_job).
THEOREM LanguagesAreInstalled == Spec => []SomebodyInstalls
<1>1. IInv => SomebodyInstalls
  BY DEF IInv, WordInv, Worked, SomebodyInstalls
<1> QED
  BY <1>1, Inductive, PTL

\* A step replaces a licence that was found and is still fresh only to finish a look-up
\* that began before it was found (_callsign_cache_write).
LEMMA FoundStep ==
    ASSUME IInv, [Next]_vars, license # None, license.status = "found",
           now - license.at <= TTL.found, license' # license
    PROVE  \E p \in Slots : req[p].op = "overwrite" /\ req'[p] = Idle /\ req[p].since <= license.at
<1>1. PICK p \in Slots : SaveLicense(p)
  BY DEF Next, LiveNext, WordsNext, LicenseNext, JobNext, Tick, RedisChange, Restart, vars,
         Lookup, ReadRow
<1>2. req[p].op = "overwrite"
  BY <1>1 DEF SaveLicense
<1>3. req'[p] = Idle
  BY <1>1 DEF SaveLicense, Free, IInv, ReqTypes
<1>4. req[p].since \in Nat /\ req[p].since <= now /\ license.at \in Nat /\ now \in Nat
  BY <1>2, LookUpRequest DEF LookUps, LookUp, IInv, LicenseInv, LicenseTypes, LookedUp, ReqTypes
<1>5. license.at < req[p].since => ~(req[p].since - license.at <= TTL.found)
  BY <1>2 DEF LookUps, IInv, LicenseInv, LookedUp
<1>6. TTL.found \in Nat
  BY CachesAssumption
<1>7. req[p].since <= license.at
  BY <1>4, <1>5, <1>6
<1> QED
  BY <1>2, <1>3, <1>7

\* A licence that was found is answered for as long as it is fresh, however many look-ups
\* of its callsign are under way (lookup_callsign).
THEOREM FoundStays == Spec => FoundIsKept
<1>1. IInv /\ [Next]_vars =>
        [license # None /\ license.status = "found" /\ now - license.at <= TTL.found
            /\ license' # license
         => \E p \in Slots : req[p].op = "overwrite" /\ req'[p] = Idle
                             /\ req[p].since <= license.at]_vars
  BY FoundStep
<1> QED
  BY <1>1, Inductive, PTL DEF Spec, FoundIsKept

-----------------------------------------------------------------------------
(* The newest snapshot.                                                    *)

Inserting == {"select", "insert", "update"}

\* The settings row never goes once it is there.
LastStored == IF setting = None THEN last = None ELSE last \in Workers

OneAtATime ==
    \A p, q \in Slots : req[p].op \in Working /\ req[q].op \in Working => p = q

Shared == ~Busy({"share"}) /\ redis # None => redis.snap = setting

Remembered == ~Busy(Inserting) /\ setting # None => memory[last] \in {None, setting}

\* What a live request r holds, by the step it is at.
Carries(r, kept, row, writer) ==
    /\ r.op \in Inserting \cup {"share"} => kept[r.w] = r.snap
    /\ r.op = "share" => row = r.snap /\ writer = r.w
    /\ r.op = "load" => r.got = row
    /\ r.op = "read" /\ (r.of = "memory" => r.w = writer) => r.got = row

Ordered ==
    OneAtATime /\ Shared /\ Remembered /\ \A p \in Slots : Carries(req[p], memory, setting, last)

LiveOrder == LastStored /\ (~torn => Ordered)

\* The requests over live data are the same before the step and after it.
SameLive ==
    \A q \in Slots : req[q].op \in Working \/ req'[q].op \in Working => req'[q] = req[q]

LEMMA SameGo ==
    ASSUME ReqTypes, NEW p \in Slots, NEW r, Go(p, r), req[p].op \notin Working, r.op \notin Working
    PROVE  SameLive
BY DEF ReqTypes, Go, SameLive

LEMMA SameFree ==
    ASSUME ReqTypes, NEW p \in Slots, Free(p), req[p].op \notin Working
    PROVE  SameLive
<1>1. [op |-> "idle"].op \notin Working
  BY DEF Working
<1>2. Go(p, [op |-> "idle"])
  BY DEF Free, Go, Idle
<1> QED
  BY <1>1, <1>2, SameGo

LEMMA OrderKept ==
    ASSUME LiveOrder, SameLive, UNCHANGED <<memory, setting, redis, last, torn>>
    PROVE  LiveOrder'
<1> SUFFICES ASSUME ~torn PROVE Ordered'
  BY DEF LiveOrder, LastStored
<1>1. OneAtATime /\ Shared /\ Remembered /\ \A p \in Slots : Carries(req[p], memory, setting, last)
  BY DEF LiveOrder, Ordered
<1>2. OneAtATime'
  BY <1>1 DEF OneAtATime, SameLive
<1>3. \A ops : ops \subseteq Working => (Busy(ops)' <=> Busy(ops))
  BY DEF Busy, SameLive
<1>4. Shared'
  BY <1>1, <1>3 DEF Shared, Working
<1>5. Remembered'
  BY <1>1, <1>3 DEF Remembered, Inserting, Working
<1>6. ASSUME NEW q \in Slots PROVE Carries(req[q], memory, setting, last)'
  <2>1. CASE req'[q].op \in Working
    BY <2>1, <1>1 DEF SameLive, Carries
  <2>2. CASE req'[q].op \notin Working
    BY <2>2 DEF Carries, Inserting, Working
  <2> QED
    BY <2>1, <2>2
<1> QED
  BY <1>2, <1>4, <1>5, <1>6 DEF Ordered

\* A live request that begins alone, or takes its next step alone.
LEMMA Alone ==
    ASSUME ReqTypes, NEW p \in Slots, NEW r, Go(p, r),
           \A q \in Slots : q # p => req[q].op \notin Working,
           Shared', Remembered', Carries(r, memory', setting', last')
    PROVE  Ordered'
<1>1. \A q \in Slots : req'[q] = IF q = p THEN r ELSE req[q]
  BY DEF ReqTypes, Go
<1>2. OneAtATime'
  BY <1>1 DEF OneAtATime
<1>3. ASSUME NEW q \in Slots PROVE Carries(req[q], memory, setting, last)'
  <2>1. CASE q = p
    BY <2>1, <1>1 DEF Carries
  <2>2. CASE q # p
    <3>1. req'[q].op \notin Working
      BY <2>2, <1>1
    <3> QED
      BY <3>1 DEF Carries, Inserting, Working
  <2> QED
    BY <2>1, <2>2
<1> QED
  BY <1>2, <1>3 DEF Ordered

\* Who stores has the snapshot in memory already, and nobody else is at work.
LEMMA StoreInOrder ==
    ASSUME ReqTypes, LiveTypes, NEW p \in Slots, NEW w \in Workers, StoreIn(p, w),
           UNCHANGED <<setting, redis>>, Ordered, req[p].op # "share",
           \A q \in Slots : q # p => req[q].op \notin Working
    PROVE  Ordered'
<1> DEFINE r == [op |-> "select", w |-> w, snap |-> NewSnapshot]
<1>1. Go(p, r) /\ memory' = [memory EXCEPT ![w] = r.snap] /\ r.op = "select" /\ r.w = w
  BY DEF StoreIn
<1> HIDE DEF r
<1>2. req'[p] = r
  BY <1>1 DEF Go, ReqTypes
<1>3. Busy(Inserting)'
  BY <1>1, <1>2 DEF Busy, Inserting
<1>4. ~Busy({"share"})
  BY DEF Busy, Working
<1>5. Shared'
  BY <1>4 DEF Shared, Ordered
<1>6. Remembered'
  BY <1>3 DEF Remembered
<1>7. Carries(r, memory', setting', last')
  BY <1>1 DEF Carries, LiveTypes
<1> QED
  BY <1>1, <1>5, <1>6, <1>7, Alone

LEMMA ReadOrder ==
    ASSUME ReqTypes, LiveTypes, LastStored, NEW p \in Slots, NEW w \in Workers, Read(p, w),
           Ordered, ~Busy(Working), last' = last
    PROVE  Ordered'
<1> DEFINE r == IF RedisHas
                THEN [op |-> "read", w |-> w, got |-> redis.snap, of |-> "redis", from |-> source]
                ELSE IF memory[w] # None
                THEN [op |-> "read", w |-> w, got |-> memory[w], of |-> "memory", from |-> source]
                ELSE [op |-> "load", w |-> w, got |-> setting, of |-> "row", from |-> source]
<1>1. Go(p, r) /\ UNCHANGED <<memory, setting, redis>>
  BY DEF Read, live
<1>2. \A q \in Slots : req[q].op \notin Working
  BY DEF Busy
<1>3. ~Busy({"share"}) /\ ~Busy(Inserting)
  BY <1>2 DEF Busy, Inserting, Working
<1>4. (redis # None => redis.snap = setting) /\ (setting # None => memory[last] \in {None, setting})
  BY <1>3 DEF Ordered, Shared, Remembered
<1>5. Shared' /\ Remembered'
  BY <1>1, <1>4 DEF Shared, Remembered
<1>6. RedisHas => redis.snap = setting
  BY <1>4 DEF RedisHas
<1>7. w = last /\ memory[w] # None => memory[w] = setting
  BY <1>4, NoneAssumption DEF LastStored
<1>8. /\ r.op \in {"read", "load"} /\ (r.op = "load" => r.got = setting)
      /\ r.op = "read" /\ (r.of = "memory" => r.w = last) => r.got = setting
  BY <1>6, <1>7
<1> HIDE DEF r
<1>9. Carries(r, memory', setting', last')
  BY <1>1, <1>8 DEF Carries, Inserting
<1> QED
  BY <1>1, <1>2, <1>5, <1>9, Alone

\* While nothing is torn, whoever is at work is alone.
LEMMA AloneAtWork ==
    ASSUME Ordered, NEW p \in Slots, req[p].op \in Working
    PROVE  \A q \in Slots : q # p => req[q].op \notin Working
BY DEF Ordered, OneAtATime

LEMMA LoadOrder ==
    ASSUME ReqTypes, LiveTypes, LastStored, NEW p \in Slots, Load(p), Ordered
    PROVE  Ordered'
<1> DEFINE r == [req[p] EXCEPT !.op = "read"]
<1>1. req[p] \in Reading /\ req[p].op = "load"
  BY LiveRequest DEF Load
<1>2. r.op = "read" /\ r.got = req[p].got /\ r.w = req[p].w /\ req[p].w \in Workers
  BY <1>1 DEF Reading
<1>3. Go(p, r) /\ UNCHANGED <<setting, redis, last>>
  BY DEF Load
<1> HIDE DEF r
<1>4. req[p].got = setting
  BY <1>1 DEF Ordered, Carries
<1>5. \A q \in Slots : q # p => req[q].op \notin Working
  BY <1>1, AloneAtWork DEF Working
<1>6. ~Busy({"share"}) /\ ~Busy(Inserting)
  BY <1>1, <1>5 DEF Busy, Inserting, Working
<1>7. Shared'
  BY <1>3, <1>6 DEF Shared, Ordered
<1>8. memory' = memory \/ (memory' = [memory EXCEPT ![req[p].w] = setting])
  BY <1>4 DEF Load
<1>9. setting # None => memory[last] \in {None, setting} /\ last \in Workers
  BY <1>6 DEF Remembered, Ordered, LastStored
<1>10. Remembered'
  BY <1>2, <1>3, <1>8, <1>9 DEF Remembered, LiveTypes
<1>11. Carries(r, memory', setting', last')
  BY <1>2, <1>3, <1>4 DEF Carries, Inserting
<1> QED
  BY <1>3, <1>5, <1>7, <1>10, <1>11, Alone

LEMMA SelectOrder ==
    ASSUME ReqTypes, NEW p \in Slots, Select(p), last' = last, Ordered
    PROVE  Ordered'
<1> DEFINE r == [req[p] EXCEPT !.op = IF setting = None THEN "insert" ELSE "update"]
<1>1. req[p] \in Storing /\ req[p].op = "select"
  BY LiveRequest DEF Select
<1>2. r.op \in {"insert", "update"} /\ r.w = req[p].w /\ r.snap = req[p].snap
  BY <1>1 DEF Storing
<1>3. Go(p, r) /\ UNCHANGED <<memory, setting, redis>>
  BY DEF Select, live
<1> HIDE DEF r
<1>4. req'[p] = r
  BY <1>3 DEF Go, ReqTypes
<1>5. \A q \in Slots : q # p => req[q].op \notin Working
  BY <1>1, AloneAtWork DEF Working
<1>6. ~Busy({"share"}) /\ Busy(Inserting)'
  BY <1>1, <1>2, <1>4, <1>5 DEF Busy, Inserting, Working
<1>7. Shared' /\ Remembered'
  BY <1>3, <1>6 DEF Shared, Remembered, Ordered
<1>8. memory[req[p].w] = req[p].snap
  BY <1>1 DEF Ordered, Carries, Inserting
<1>9. Carries(r, memory', setting', last')
  BY <1>2, <1>3, <1>8 DEF Carries
<1> QED
  BY <1>3, <1>5, <1>7, <1>9, Alone

\* The row that is written becomes the newest, and its writer holds it in memory.
LEMMA StoreOrder ==
    ASSUME ReqTypes, NEW p \in Slots, Store(p), LiveOrder
    PROVE  LiveOrder'
<1> DEFINE r == [req[p] EXCEPT !.op = "share"]
<1>1. req[p] \in Storing /\ req[p].op \in {"insert", "update"}
  BY LiveRequest DEF Store
<1>2. r.op = "share" /\ r.w = req[p].w /\ r.snap = req[p].snap /\ r.w \in Workers /\ r.snap # None
  BY <1>1, NoneAssumption DEF Storing
<1>3. CASE req[p].op = "insert" /\ setting # None
  BY <1>3 DEF Store, LiveOrder, LastStored
<1>4. CASE ~(req[p].op = "insert" /\ setting # None)
  <2>1. /\ setting' = req[p].snap /\ last' = req[p].w /\ Go(p, r)
        /\ UNCHANGED <<torn, memory, redis>>
    BY <1>4 DEF Store
  <2> HIDE DEF r
  <2>2. LastStored'
    BY <2>1, <1>2 DEF LastStored
  <2>3. ASSUME ~torn PROVE Ordered'
    <3>1. Ordered
      BY <2>3 DEF LiveOrder
    <3>2. req'[p] = r
      BY <2>1 DEF Go, ReqTypes
    <3>3. \A q \in Slots : q # p => req[q].op \notin Working
      BY <3>1, <1>1, AloneAtWork DEF Working
    <3>4. Busy({"share"})'
      BY <1>2, <3>2 DEF Busy
    <3>5. Shared'
      BY <3>4 DEF Shared
    <3>6. memory[req[p].w] = req[p].snap
      BY <1>1, <3>1 DEF Ordered, Carries, Inserting
    <3>7. Remembered'
      BY <2>1, <3>6 DEF Remembered
    <3>8. Carries(r, memory', setting', last')
      BY <1>2, <2>1, <3>6 DEF Carries
    <3> QED
      BY <2>1, <3>3, <3>5, <3>7, <3>8, Alone
  <2> QED
    BY <2>1, <2>2, <2>3 DEF LiveOrder
<1> QED
  BY <1>3, <1>4

\* Redis gets what the row has, or history notes that it kept an older snapshot.
LEMMA ShareOrder ==
    ASSUME ReqTypes, LiveTypes, NEW p \in Slots, ShareIt(p), LiveOrder
    PROVE  LiveOrder'
<1>1. req[p] \in Storing /\ req[p].op = "share"
  BY LiveRequest DEF ShareIt
<1>2. LastStored'
  BY DEF ShareIt, LiveOrder, LastStored
<1>3. ASSUME ~torn' PROVE Ordered'
  <2>1. ~torn /\ Ordered /\ UNCHANGED <<memory, setting, last>>
    BY <1>3 DEF LiveOrder, ShareIt
  <2>2. setting = req[p].snap /\ last = req[p].w /\ memory[req[p].w] = req[p].snap
    BY <1>1, <2>1 DEF Ordered, Carries
  <2>3. redis' # None => redis'.snap = setting
    <3>1. CASE up
      <4>1. redis' = [snap |-> req[p].snap, until |-> now + TTL.live]
        BY <3>1 DEF ShareIt
      <4> QED
        BY <4>1, <2>2
    <3>2. CASE ~up
      BY <1>3, <3>2 DEF ShareIt
    <3> QED
      BY <3>1, <3>2
  <2>4. Shared' /\ Remembered'
    BY <2>1, <2>2, <2>3 DEF Shared, Remembered
  <2>5. \A q \in Slots : q # p => req[q].op \notin Working
    BY <2>1, <1>1, AloneAtWork DEF Working
  <2> DEFINE r == [op |-> "idle"]
  <2>6. Go(p, r) /\ r.op = "idle"
    BY DEF ShareIt, Free, Go, Idle
  <2> HIDE DEF r
  <2>7. Carries(r, memory', setting', last')
    BY <2>6 DEF Carries, Inserting
  <2> QED
    BY <2>4, <2>5, <2>6, <2>7, Alone
<1> QED
  BY <1>2, <1>3 DEF LiveOrder

LEMMA AnswerOrder ==
    ASSUME ReqTypes, LiveTypes, NEW p \in Slots, Answer(p), LiveOrder
    PROVE  LiveOrder'
<1>1. req[p] \in Reading /\ req[p].op = "read" /\ UNCHANGED <<setting, redis, torn, last>>
  BY LiveRequest DEF Answer
<1>2. LastStored'
  BY <1>1 DEF LiveOrder, LastStored
<1>3. ASSUME ~torn PROVE Ordered'
  <2>1. Ordered
    BY <1>3 DEF LiveOrder
  <2>2. \A q \in Slots : q # p => req[q].op \notin Working
    BY <2>1, <1>1, AloneAtWork DEF Working
  <2>3. CASE StoreIn(p, req[p].w)
    BY <2>1, <2>2, <2>3, <1>1, StoreInOrder DEF Reading
  <2>4. CASE Free(p) /\ memory' = memory
    <3> DEFINE r == [op |-> "idle"]
    <3>1. Go(p, r) /\ r.op = "idle"
      BY <2>4 DEF Free, Go, Idle
    <3> HIDE DEF r
    <3>2. Carries(r, memory', setting', last')
      BY <3>1 DEF Carries, Inserting
    <3>3. ~Busy({"share"}) /\ ~Busy(Inserting)
      BY <1>1, <2>2 DEF Busy, Inserting, Working
    <3>4. Shared' /\ Remembered'
      BY <1>1, <2>1, <2>4, <3>3 DEF Shared, Remembered, Ordered
    <3> QED
      BY <2>2, <3>1, <3>2, <3>4, Alone
  <2> QED
    BY <2>3, <2>4 DEF Answer
<1> QED
  BY <1>1, <1>2, <1>3 DEF LiveOrder

LEMMA LiveNextOrder ==
    ASSUME ReqTypes, LiveTypes, LiveOrder, NEW p \in Slots, LiveNext(p)
    PROVE  LiveOrder'
<1>1. CASE SaveConfig /\ last' = last
  BY <1>1, OrderKept DEF SaveConfig, SameLive
<1>2. ASSUME NEW w \in Workers, Push(p, w) \/ Read(p, w), req[p] = Idle, last' = last
      PROVE  LiveOrder'
  <2>1. UNCHANGED <<setting, redis>> /\ Took(p)
    BY <1>2 DEF Push, Read, live
  <2>2. LastStored /\ LastStored'
    BY <2>1, <1>2 DEF LiveOrder, LastStored
  <2>3. ASSUME ~torn' PROVE Ordered'
    <3>1. Ordered /\ ~Busy(Working)
      BY <2>1, <2>3 DEF Took, LiveOrder
    <3>2. \A q \in Slots : req[q].op \notin Working
      BY <3>1 DEF Busy
    <3>3. CASE Push(p, w)
      <4>1. StoreIn(p, w) /\ req[p].op # "share"
        BY <3>2, <3>3 DEF Push, Working
      <4> QED
        BY <4>1, <3>1, <3>2, <2>1, StoreInOrder
    <3>4. CASE Read(p, w)
      BY <3>1, <3>4, <2>2, <1>2, ReadOrder
    <3> QED
      BY <1>2, <3>3, <3>4
  <2> QED
    BY <2>2, <2>3 DEF LiveOrder
<1>3. CASE Load(p) \/ Select(p)
  <2>1. UNCHANGED <<setting, torn, last>>
    BY <1>3 DEF Load, Select, live
  <2>2. LastStored /\ LastStored'
    BY <2>1 DEF LiveOrder, LastStored
  <2>3. ~torn => Ordered'
    BY <1>3, <2>1, <2>2, LoadOrder, SelectOrder DEF LiveOrder
  <2> QED
    BY <2>1, <2>2, <2>3 DEF LiveOrder
<1> QED
  BY <1>1, <1>2, <1>3, AnswerOrder, StoreOrder, ShareOrder DEF LiveNext

\* Languages and look-ups do not touch the live requests.
LEMMA OtherNextSame ==
    ASSUME ReqTypes, NEW p \in Slots, WordsNext(p) \/ LicenseNext(p)
    PROVE  SameLive
<1>1. req[p] = Idle => req[p].op \notin Working
  BY DEF Idle, Working
<1>2. req[p].op \in {"enable", "uninstall", "translate", "save", "add", "overwrite"} =>
        req[p].op \notin Working
  BY DEF Working
<1>3. ASSUME NEW o \in Orgs, DisableLanguage(o) PROVE SameLive
  BY <1>3 DEF DisableLanguage, SameLive
<1>4. ASSUME NEW r, Go(p, r), req[p] = Idle,
             r.op \in {"enable", "uninstall", "translate", "save"}
      PROVE  SameLive
  BY <1>1, <1>4, SameGo DEF Working
<1>5. CASE req[p] = Idle /\ (\E o \in Orgs : AskLanguage(p, o) \/ DisableLanguage(o))
  BY <1>3, <1>4, <1>5 DEF AskLanguage
<1>6. CASE req[p] = Idle /\ (AskUninstall(p) \/ \E t \in Texts : AskTranslation(p, t))
  BY <1>4, <1>6 DEF AskUninstall, AskTranslation
<1>7. CASE req[p] = Idle /\ Lookup(p)
  BY <1>4, <1>7 DEF Lookup
<1>8. CASE EnableLanguage(p) \/ UninstallLanguage(p) \/ Translate(p) \/ SaveLicense(p)
  BY <1>2, <1>8, SameFree DEF EnableLanguage, UninstallLanguage, Translate, SaveLicense
<1>9. CASE ReadRow(p)
  <2> DEFINE r == [req[p] EXCEPT !.op = IF license = None THEN "add" ELSE "overwrite"]
  <2>1. req[p] \in LookUp /\ req[p].op = "save"
    BY <1>9, LookUpRequest DEF ReadRow, LookUps
  <2>2. Go(p, r) /\ r.op \in {"add", "overwrite"}
    BY <1>9, <2>1 DEF ReadRow, LookUp
  <2> HIDE DEF r
  <2> QED
    BY <1>2, <2>1, <2>2, SameGo DEF Working
<1> QED
  BY <1>5, <1>6, <1>7, <1>8, <1>9 DEF WordsNext, LicenseNext

LEMMA NextOrder == IInv /\ LiveOrder /\ [Next]_vars => LiveOrder'
<1> SUFFICES ASSUME IInv, LiveOrder, [Next]_vars PROVE LiveOrder'
  OBVIOUS
<1>1. ReqTypes /\ LiveTypes
  BY DEF IInv
<1>2. CASE \E p \in Slots : LiveNext(p)
  BY <1>1, <1>2, LiveNextOrder
<1>3. CASE Restart
  <2>1. \A q \in Slots : req'[q] = [op |-> "idle"]
    BY <1>3 DEF Restart, Idle
  <2>2. LastStored'
    BY <1>3 DEF Restart, LiveOrder, LastStored
  <2>3. ASSUME ~torn' PROVE Ordered'
    <3>1. Ordered /\ ~Busy(Working)
      BY <1>3, <2>3 DEF Restart, LiveOrder
    <3>2. ~Busy({"share"})
      BY <3>1 DEF Busy, Working
    <3>3. Shared'
      BY <1>3, <3>1, <3>2 DEF Restart, Ordered, Shared
    <3>4. Remembered'
      BY <1>3 DEF Restart, Remembered, LiveOrder, LastStored
    <3>5. OneAtATime' /\ \A q \in Slots : Carries(req[q], memory, setting, last)'
      BY <2>1 DEF OneAtATime, Carries, Inserting, Working
    <3> QED
      BY <3>3, <3>4, <3>5 DEF Ordered
  <2> QED
    BY <2>2, <2>3 DEF LiveOrder
<1>4. CASE \/ \E p \in Slots : WordsNext(p) /\ UNCHANGED <<live, torn, last>>
           \/ \E p \in Slots : LicenseNext(p) /\ UNCHANGED <<live, ghosts>>
  BY <1>1, <1>4, OtherNextSame, OrderKept DEF live, ghosts
<1>5. CASE UNCHANGED <<live, req, ghosts>>
  BY <1>5, OrderKept DEF live, ghosts, SameLive
<1>6. JobNext /\ UNCHANGED <<live, license, up, now, req, accepted, ghosts>>
        => UNCHANGED <<live, req, ghosts>>
  OBVIOUS
<1>7. Tick \/ RedisChange \/ UNCHANGED vars => UNCHANGED <<live, req, ghosts>>
  BY DEF Tick, RedisChange, vars
<1> QED
  BY <1>2, <1>3, <1>4, <1>5, <1>6, <1>7 DEF Next

\* What is served of a net's live data is the newest snapshot wherever Redis, the row and
\* the memories can be told apart (_redis_cache_read, _aprs_cache_read, _aprs_cache_write),
\* for any workers and any number of requests, as long as they come one after the other.
THEOREM NewestServed == Spec => []NewestIsServed
<1>1. Init => LiveOrder
  <2> SUFFICES ASSUME Init PROVE LiveOrder
    OBVIOUS
  <2>1. \A q \in Slots : req[q] = [op |-> "idle"]
    BY DEF Init, Idle
  <2>2. LastStored /\ Shared /\ Remembered
    BY DEF Init, LastStored, Shared, Remembered
  <2>3. OneAtATime /\ \A q \in Slots : Carries(req[q], memory, setting, last)
    BY <2>1 DEF OneAtATime, Carries, Inserting, Working
  <2> QED
    BY <2>2, <2>3 DEF LiveOrder, Ordered
<1>2. LiveOrder => NewestIsServed
  <2> SUFFICES ASSUME LiveOrder, ~torn PROVE NewestIsServed
    BY DEF NewestIsServed
  <2>1. Shared /\ Remembered /\ \A q \in Slots : Carries(req[q], memory, setting, last)
    BY DEF LiveOrder, Ordered
  <2>2. ~Busy(Working) => ~Busy({"share"}) /\ ~Busy(Inserting)
    BY DEF Busy, Inserting, Working
  <2>3. ~Busy(Working) =>
          (RedisHas => redis.snap = setting) /\ (setting # None => memory[last] \in {None, setting})
    BY <2>1, <2>2 DEF RedisHas, Shared, Remembered
  <2> QED
    BY <2>1, <2>3 DEF NewestIsServed, Carries
<1> QED
  BY <1>1, <1>2, Inductive, NextOrder, PTL DEF Spec
=============================================================================
