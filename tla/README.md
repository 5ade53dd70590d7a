# NetControl Online: TLA+ models and proofs

NetControl Online is the server and the browser client that amateur-radio and
GMRS operators use to run *nets*: scheduled on-air meetings during which a
net-control operator logs the stations that check in. During an emergency
(*activation*) the same session also has named tactical positions, a rotation
of net-control shifts, evacuation zones and incidents.

The server is a FastAPI application over SQLAlchemy's asyncio API and
PostgreSQL. This directory holds TLA+ modules of the parts that keep state, the
TLC configurations that check them on small instances, and TLAPS proofs of what
matters most. Everything is written from the code in `src/`.

Contents: 1 concurrency; 2 inventory; 3 the modules; 4 the runs; 5 fairness;
6 the proofs; 7 what is only model-checked; 8 abstractions; 9 what the code does
and its documentation does not say; 10 the plan.

To repeat a run: `tlc -workers 2 -config MCRoster_scenarios.cfg MCRoster`. To repeat a
proof: `tlapm RosterProofs.tla`. `PROJECT.json` lists the runs, which definition
models which lines, the mutated definitions each property is known to catch, the
hazards and the theorems.

## 1. What the concurrency is

* Every request gets a database session of its own (`database.py`: `get_db`,
  `autoflush=False`, `expire_on_commit=False`). Handlers are coroutines: a
  handler gives way at each `await`, and uvicorn may run several workers, so
  between any two statements of one request the statements of another can run.
* Transactions run at PostgreSQL's default READ COMMITTED. There is no
  `SELECT ... FOR UPDATE` anywhere; a check that a handler makes by a SELECT
  is stale by the time its commit runs unless a constraint repeats it.
* SQLAlchemy writes only the columns whose value a handler has changed. A handler
  that sets a column to what it had when it was loaded writes nothing, and what
  another request has committed to the column stays.
* Many handlers make more than one commit. What a handler has committed stays
  when it dies or fails afterwards.
* Rows are reached by foreign keys with `ON DELETE CASCADE` or `SET NULL`;
  a commit that refers to a row that has gone fails as a whole. An INSERT or DELETE
  waits for a row that an open transaction has deleted.
* Background tasks and module-level dictionaries belong to one process: a restart
  loses them, and other workers do not see them.
* Cron scripts (`send_reminders.py`, `gmrs_sync.py`, `demo_reset.py`) and relay
  scripts run beside the server on the same database or through its API.
* The browser keeps an offline queue that the page and its service worker both
  drain (`static/js/offline-queue.js`, `static/js/checkins.js`, `static/sw.js`), and
  pages that show what they loaded a while ago and send it back.

The modules follow this: a handler whose reads and whose commit can be
separated by another request is a sequence of actions with a request record
that carries what it has read; a handler whose outcome one statement decides is
one action.

## 2. Inventory

For each part: the state it keeps, its operations, what is hard in it, and what
makes it correct. The parts up to 2.10 are modelled, with the gaps 2.11 names.

### 2.1 Activation sessions (`routers/sessions.py`, `routers/tactical.py`)

State: `net_sessions`, `activation_schedules`, `tactical_positions` and
`net_control_shifts` (each LIVE in a session or TEMPLATE in a schedule), and the
`checkins` that record who holds a position. Operations: start (up to five
commits), end, delete; create, edit and delete positions, shifts and schedules;
sign on, which may relieve the operator before; sign off. Hard: a start that
stops half way; two sign-ons deciding on one occupant; a sign-on that has seen
the session open and commits after it ended; rows deleted between the read and
the commit. Correct means: one Net Control position per session, which arrives;
one holder per position unless requests overlapped; nobody evicts without the
right to; references always resolve.

### 2.2 The roster and the zone list (`routers/checkins.py`, `routers/evac_zones.py`)

State: `checkins`, `evac_zones`. Operations: add, import a CSV file row by row,
delete, update the zone list by hand, start, backfill, end and delete a session.
Hard: the duplicate rule and the first-timer flag are decided by SELECTs that
another request can overtake; the zone list is a second commit; an import works
on a session read once, for as long as its sheet takes. Correct means: each
callsign once on a ham session, one welcome per station, no reported zone lost,
a closed session stays as it is.

### 2.3 The offline queue (`static/js/offline-queue.js` and callers)

State: one IndexedDB record per queued check-in, its status. Operations:
queue, claim, send, remove, mark failed, reset, dismiss. Hard: passes of the page
(poll, `online` event, Retry Now) and of the service worker overlap; answers are
lost; IndexedDB fails to note one; either context is stopped at any moment. Correct means: one sender per item,
none lost, none doubled by the queue itself, all settled in the end.

### 2.4 Duty sign-ups (`routers/schedules.py`)

State: `net_schedules`, `net_control_signups`, the net's owner and shares, the super
admins. Operations: sign up for net control, broadcast or both; withdraw; create and
delete schedules. Hard: who may sign up is read from the account, the net, its shares
and their roles, one after the other, and only then the roles that are taken, before
one commit; and a unique key that covers equal roles only. Correct means: one holder
per duty, each claimed on access its sender had when claiming it.

### 2.5 Reminders (`send_reminders.py`)

State: `reminder_sent_at` of sign-ups and shifts. A run reads, sends, and commits
once per schedule and once for the shifts. Hard: runs overlap, die after sending,
and meet rows that are being deleted; the UTC date, the schedule's local date and
its weekday differ. Correct means: everyone due is reminded, once.

### 2.6 Access (`routers/orgs.py`, `admin.py`, `auth.py`, `nets.py`, `helpers.py`, `bootstrap.py`)

State: `users` (active, super admin, home organisation), `organizations`,
`organization_memberships` with a role and a status, extra roles, a net's owner,
organisation and shares. Operations: register, invite, join, switch, approve,
reject, add, remove, promote, move and delete accounts; create, move, hand over,
share and delete nets; the first administrator at start-up. Hard: registration
and invitation are two commits; the right to act was checked on rows loaded
earlier; an organisation is deleted when its last member goes, counted in another
transaction; updates of shares wipe what they see; one rule of access is written in
seven queries. Correct means: somebody administers the instance, nothing is
stranded, shares are one request's, and what clients are shown is what they may do.

### 2.7 Accounts (`routers/auth.py`)

State: an account's address, password, three link columns with their times, the
verified and active flags, sign-ins, an API token. Operations: register or invite,
follow each kind of link, ask for a link, change the profile or the password, sign
in, approve, deactivate. Hard: mail leaves between load and commit; links expire;
mail may be switched off; one address is spelt in two ways; requests that loaded a
row before a link was followed commit after. Correct means: a followed link never
works again, the newest one works, an address counts as verified only once somebody
has answered for it.

### 2.8 Caches (`aprs.py`, `digital_voice.py`, `translation.py`, `callsign_lookup.py`)

State: a snapshot of live positions in each worker's memory, in a settings row and in
Redis; the language catalogue, organisations' opt-ins, installed models and cached
translations; one row per callsign looked up. Operations: push, read, fetch and store;
ask for, install, uninstall a language; translate; look up. Hard: three copies are
written one after the other, by several workers; installation is a task of one
process; Redis comes and goes; two look-ups differ in their answer. Correct means: the
newest snapshot is served, an opt-in has its language, a language shown as on its way
is being worked on, a licence found is kept.

### 2.9 Incidents and zone boundaries (`incidents.py`, `incident_matching.py`, `evac_zone_sources.py`, `incident_feed*.py`, `static/js/incidents.js`)

State: boundaries per source, incidents, their areas and stations, the record that a
feed item was handled, and what each browser window shows. Operations: sync, create,
edit, resolve, reopen, delete, scan, add and remove stations, make an incident from a
feed item, dismiss one. Hard: a sync replaces every row under new ids, over several
sources; areas are replaced by DELETE and INSERT; an incident from the feed takes two
calls of the page. Correct means: a sync is whole or has not happened, an area is what
was last chosen, a feed item becomes one incident.

### 2.10 Publishing and the directory (`sessions.py`, `activitypub*.py`, `fediverse.py`, `orgs.py`, `net_repository.py`)

State: the session's status, the organisation's switch and key pair, followers, posts,
replies, deliveries in the background, the directory's claim token and API key.
Operations: announce a start and an end, post, reply, like, follow, unfollow, receive,
deliver, switch on and off; request, poll, claim and clear the key; push statistics.
Hard: two requests end one session; two make the first key pair; followers share an
inbox; each delivery is tried once; the directory gives the key with one answer only.
Correct means: announcements and statistics go out once, nobody is skipped or served
twice, the key in use is the key that is published, the directory's key is not lost.

### 2.11 Not modelled

| part | why |
| --- | --- |
| Traffic toggles, map position and remarks of a check-in | one column and one statement each; a toggle can be lost (section 9) |
| The relays outside the server (`aprs_relay.py`, `dmr_relay.py`), parsing of frames | loops over sockets with no state but the last frame; what they send is `Caches!Push` |
| Traffic messages, support mail | rows written and read by one request each |
| Maintenance banner, `deploy.sh` | one value in one process; the restart is a step of four modules |
| Service worker's asset cache | its life cycle is the browser's; its sync handler is in `OfflineQueue` |
| `migrate.py`, `demo_reset.py` | statements behind a look at the schema, whose effect is the schema itself |
| GMRS licence download | one bulk upsert; how its table is asked and cached is in `Caches` |
| Push subscriptions | one upsert and one delete; `Reminders` takes reachability as an input |
| Calendar feed, mail texts, captchas, signatures and the form of ActivityPub documents | no state, or pure formatting and cryptography |
| Public and history views, expected stations, browser rendering, start-up, vendored code | queries, wiring, third-party code |

### 2.12 How the parts interact

A tactical sign-on writes a check-in, so *Activation* and *Roster* share
`checkins`: in `Roster` it is the action `SignOn`, one step that takes none of the
roster's checks; in `Activation` only such check-ins are in `log`. The duty sign-up
of the day names the operator whom `start_session` puts on Net Control: in
`Activation` it is the argument `duty`, any callsign or none. A queued check-in
becomes `POST .../checkins`: `OfflineQueue` has the endpoint as one atomic answer,
`Roster` what happens inside it. Sign-ups and shifts are what `Reminders` reads while
they come and go. The shares and the owner of a net, which decide who may sign up in
`Signups`, are single steps there and whole handlers in `Access`. An approval in
`Access` is, for the account's links and its address, `ApproveUser` of `Accounts`. The end of a
session appears three times: in `Activation` with its positions, in `Roster` with its
check-ins, in `Publishing` with what it announces. Syncs of boundaries are asked for by the
router that keeps the zone list and change what incidents refer to, so they stand in
`Incidents`. A restart (`deploy.sh`, or a crash) is a step of `Access`, `Accounts`, `Caches`
and `Publishing`, where memory and tasks are lost, and `Fail` elsewhere.

## 3. The modules

| module | of | role |
| --- | --- | --- |
| `Activation` | `sessions.py`, `tactical.py` | the core: positions of activation sessions |
| `Manning` | the same | abstract specification: what sign-on and sign-off promise |
| `ActivationProofs` | | theorems: types and keys; occupancy, rights, Net Control, ended sessions, references |
| `Roster`, `RosterProofs` | `checkins.py`, `evac_zones.py` | check-ins, duplicates, first-timers, the zone list |
| `OfflineQueue`, `OfflineIncidentsProofs` | `static/js` | the queue of one browser |
| `Reminders`, `RemindersPublishingProofs` | `send_reminders.py` | runs of the script against the clock |
| `Signups`, `SignupsProofs` | `schedules.py`, `nets.py` | duty sign-ups under changing rights |
| `Access`, `AccessProofs` | `orgs.py`, `admin.py`, `nets.py`, `helpers.py`, ... | accounts, organisations, memberships, shares |
| `Accounts`, `AccountsProofs` | `auth.py` | the credentials of one account |
| `Caches`, `CachesProofs` | `aprs.py`, `translation.py`, ... | answers of others, kept in several places |
| `Incidents`, `OfflineIncidentsProofs` | `incidents.py`, `evac_zone_sources.py`, `incidents.js`, ... | incidents, areas, the hazard feed |
| `Publishing`, `RemindersPublishingProofs` | `activitypub*.py`, `sessions.py`, `net_repository.py` | what an organisation sends out |
| `MC*` | | the instances TLC checks |

Two modules hold the proofs of two components each, first one and then the other:
`OfflineIncidentsProofs` what an operator's browser does with a network that fails, and
`RemindersPublishingProofs` what the server sends out by itself.
`Incidents` and `Publishing` name their specifications after themselves
(`IncidentsSpec`, `PublishingSpec`) so that these modules can extend both.

**Activation.** `sessions`, `schedules`, `plan` (positions and shifts) and `log`
are the tables; `req[p]` is a request in flight. `start_session` is
`StartSession`, `StampEnded` (a backfilled entry), `CreateNetControl`,
`SignOnDuty`, `ReadTemplates`, `CopyTemplates`: an action for each commit, plus
the read that another request can fall behind. The second of the two template
SELECTs is followed at once by the commit and is part of it. Sign-on is
`BeginSignOn` (position and session), `ReadOccupant` (occupant and rights),
`SignOn` (closing the old row and adding the new one). `Refuse` is a commit whose
rows have gone: a foreign key, or an UPDATE that matches no row; `Fail` a worker
that stops. `seen` on a row is a history variable: how long the log was when the
request that wrote it looked. `MCActivation` has three scenarios, chosen at the
start: two requests on one session (`Race`), one request at a time that may die
(`Sequence`), and sessions opened from a schedule that is edited (`Openings`).

**Manning** has a holder per position and a set of closed positions; a holder
appears in one step that relieves the one before, and never at a closed position.
`MCActivation` maps the holder to the occupant (`_current_occupant`), and a position to
closed when it has gone or its session has ended with no operator of the day on the way
to it: a backfilled session has `ended_at` before its own start signs somebody on. The
mapping (`HolderOf`, `IsClosed`) speaks of the scenario of requests one at a time, and
`TurnsKeepManning` proves it for that case; with overlaps the code does not keep what
`Manning` promises, and `DoubleOccupancyIsRaced` says what it keeps instead.

**Roster.** `CheckDuplicate`, `ReadHistory`, `Insert`, `ReadZone`, `UpsertZone`
are `_create_checkin`; `NextRow` leads from a row of the sheet to the next, so that
an import and a single check-in are one set of actions. `missed` and `contested`
are history: stations whose zone entry was edited by hand or whose report died between
its two commits, and stations of which two reports were under way to the list at
once; the properties of the list except them, station by station. `MCRoster` has two scenarios,
as above.

**OfflineQueue.** `form` is what `addCheckin` has come to for each item, `store`
the record's status, `pass` each pass under way: it reads the queue once, then for
each record claims it in one IndexedDB transaction, sends it, and settles it.
`Fetch` has the four outcomes the code distinguishes, among them a 5xx and a lost
answer after the server has committed. `SettleFails` is IndexedDB failing the removal of
what the server has accepted, or the mark of what it has refused: the catch that is
meant for the network puts the item back. `doubtful` counts the commits the browser
was not told of or failed to note. A removal that fails leaves the browser where a 5xx
after the commit does, so the action adds steps and no new states.

**Signups.** `create_signup` settles who may claim what by reads that others can fall
between, an action for each: `BeginSignup` (the account, with `is_admin`), `LoadNet`
(`_get_owned_net`, which lets a super admin through before it looks at the organisation
and the owner), `ReadShares` (`_get_editable_net`), `ReadRole` (`_get_net_for_role`).
`CheckConflict` reads the roles taken, `Insert` commits, where the unique key and the
schedule's key can refuse. `Remember` keeps the history of a request: it is in `held`
if its sender had full access at some moment while that was being read, in `ruled` if
its sender owned the net at some moment before the net was loaded.

**Reminders.** Time is in units; a day has `Day` of them. A run reads the clock
once (`StartRun`), takes the schedules of that weekday one at a time
(`TakeSchedule`), sends (`RemindSignup`), commits, and then does the shifts.
`tried`, `shared`, `lost` and `waited` are history. `tried` counts the mails and pushes
that were tried, since that is what the script records: `send_email` does not say whether
a mail has left, and how many pushes have, which `send_web_push` returns, goes into the
log only.

**Access.** A handler loads and checks in one step (`Register`, `ReviewUser`,
`ReviewMember`, `UpdateNetShares`, ...) and writes in another; between them the
request record holds the account, membership, roles, pending requests or shares it
has loaded. `Flush` writes the columns that changed. Registration and invitation
have two commits, `CommitAccount` and `CommitMembership`; what dies between them
is in `loose`. `accepted` numbers the requests; a share remembers when the request
that wrote it wiped the old ones and when it committed. `Restart` is `bootstrap.py`
on a start of the server. `firsts`, `overtaken` and `loose` are history. The last
operators (`Owns`, `Edits`, `Reaches`, `Plays`; `Lists`, `ShownEditable`,
`Assigned`) are the access checks and the queries that answer the same questions
for the client, each translated on its own.

**Accounts.** One row. A link is its place in `issued`; a column holds such a
number, or 0. `mailed` is the links that left, since only those can be followed. Each
handler loads the row (`LoadRedeem`, `LoadUpdateProfile`, ...) and commits
(`Redeem`, `UpdateProfile`, ...) with `Save`, which writes the columns that differ
from what was loaded; mail is a step of its own (`SendMail`). `spent`, `trusted`,
`crossed` and `lost` are history.

**Caches.** Three groups over one clock. Live data: `Push`, `Read`, `Load`,
`Answer`, `Select`, `Store`, `ShareIt` are the steps at which a request waits for Redis, the
settings row or the other side's answer. Languages: `AskLanguage`, `EnableLanguage`,
`UninstallLanguage` on the catalogue and opt-ins, and the job (`StartJob`,
`InstallModel`, `TranslateKnown`, `FinishJob`). Licences: `Lookup`, `ReadRow`,
`SaveLicense`. `Restart` empties memory and loses jobs. `torn`, `last`,
`orphaned` and `crossed` are history.

**Incidents.** `Sync` takes the sources one after the other and commits once; the
rows an uncommitted transaction has deleted are `locked`, and a commit that needs
one waits for its holder. `SelectZones`, `AddZones`, `ReplaceZones` are an edit of an
area; `LoadStatus` and `CommitStatus` a change of status; `LoadScan` and
`CommitStations` a scan. A window is `shows`, `choices` and `opened`: what it has
loaded, which may be older than the tables, is what its requests contain. An
incident from the feed is `OpenForm`, `CreateIncident`, `MarkItem`. `mixed`, `wanted`,
`disturbed`, `crossed` and `contested` are history.

**Publishing.** `StartSession`, `LoadEnd`, `CommitEnd`, `PushStats` are a session's
life with what it triggers; `LoadOrg`, `Compose`, `CommitPost`, `ResolveTargets` a
post; `Deliver` one background task, one attempt. `LoadToggle` and `CommitToggle`
switch the Fediverse on, with a key pair the first time. `RequestKey`, `StoreToken`,
`Poll`, `AskDirectory`, `DropToken`, `CommitAnswer` and the external `Decide` are the
directory's key. `stats`, `got`, `twice`, `owed`, `likes` and `raced` are history.

History variables are written by the actions and read by properties only. They say
what the natural statement has to except: the code overlaps, and the property says
that nothing else breaks the statement. Five of them except just the race, or the
restart, that a hazard of `PROJECT.json` names (its note says so): `crossed` and
`orphaned` in `Caches`, `crossed`, `disturbed` and `contested` in `Incidents`. There the
code has no defence, section 9 has the outcome, and the property guards every other
way to the same harm. `torn`, likewise, excepts a request that Redis left while it was
between two of the copies.

## 4. The runs

| run | instance | checks |
| --- | --- | --- |
| `activation` | three accounts, two callsigns, up to 3 check-ins and 2 planned rows; three scenarios | `DoubleOccupancyIsRaced`: two open rows of one position need an overlap of sign-ons; `OneNetControl`; `Referential`; `SelfServiceClosesOwn`: nobody without full access closes another's shift; `EndedStaysQuiet`; `ImplementsManning`: the refinement; `OpeningsFinish` (liveness) |
| `roster` | one station, two zones, sheets of one and two rows, two sessions; two scenarios | `DuplicateIsRaced`; `FirstIsRaced`; `ListKeepsUp`: every report is on the list or about to be, and a station of which no two reports were under way at once is shown with its latest; `ClosedStaysQuiet` |
| `queue_overlap` | page and worker, two items of one callsign on a GMRS net, three faults (of the network, of IndexedDB, or a stop) | `OneSender`; `DoubleIsUntold`; `NothingLost`; `RefusedStaysRefused`; `SettledUnlessOrphaned` (liveness) |
| `reminders` | two runs, one death, two sign-ups of one schedule, one of them with nobody to reach, and a shift that come and go, another schedule on the next weekday | `AgainIsExcused`; `MarkedWasTried`; `EveryDueIsReminded` |
| `west` | one evening schedule in a zone behind UTC | expected to fail: `EveryDueIsReminded` |
| `signups` | two requests, two users who own, share and administer the net by turns, one schedule and date, all roles | `DoubleDutyIsRaced`; `DutyIsEntrusted` |
| `access` | two requests at once, three in all; three accounts, two organisations, one net; a new instance and one in use | `TypeOK`; `AdministratorStands`; `NothingStranded`; `MixedSharesOverlap`; `ShownIsGranted` |
| `accounts` | two requests at once, six in all; two spellings of one mailbox, a clock to 2, mail on or off | `LinksAreLive`; `VerifiedIsConfirmed`; `NewestLinkWorks` |
| `caches` | two workers, two requests at once, five in all; two organisations, one text, one licence, a clock to 2, Redis up or down | `NewestIsServed`; `OptInListed`; `SomebodyInstalls`; `FoundIsKept` |
| `incidents` | two windows, two requests at once, four in all; two sources of one and two zones, two syncs, two incidents, one feed item, one station | `RowsAgree`; `SyncIsWhole`; `AreaAsChosen`; `OneIncidentPerItem` |
| `areas` | the same zones synced twice under one incident | expected to fail: `AreaSurvivesSync` |
| `publishing` | two requests at once, six in all; two followers on one server, two posts, three key pairs | `OnlyRacesRepeat`; `OnePostEach`; `KeyIsKept` |

Why the bounds are enough. The races are between two requests: a third adds no
new kind of overlap, because every property names a pair of rows and the theorems
of section 6 cover any number.

* `activation`: three check-ins, because the chain "occupied, relieved, doubled"
  needs three; two planned rows, because a copy has to have something to copy while
  the original is deleted.
* `roster`: three check-ins for a report, a later one and a deletion.
* `queue_overlap`: two items of one callsign on a GMRS net, so that the server
  accepts both and a double is visible; three faults allow a lost answer, a stop and a
  lost connection in one behaviour.
* `reminders`: a day of four units and a clock that stops after two: windows are
  one unit long, and one window with what happens before and after it is what the
  properties speak of; two sign-ups of one schedule are the least for which a commit
  has several rows, which the driver counts differently from one, and for which one that
  nobody can be reached for stands beside one that is sent and recorded. A second schedule
  of the same weekday makes the run four times as long and was checked once; the
  theorems hold for any number. In `west` the clock passes midnight.
* `signups`: a row may be asked for while there is none yet, by as many requests as fit;
  two that cross are the doubling the unique key does not catch. Two users are one who
  asks and one who gives and takes rights, and either may be both.
* `access`: three accounts are an administrator, one who acts against it and one who
  joins; three requests are two that cross and one that follows. The instance in use
  has accounts, a net and shares at the start, so that no request is spent on them.
* `accounts`: the lifetimes 0, 1, 2, 3 keep the order of the real ones (reset, sign-in,
  verification, invitation) and a clock to 2 passes all but the last; six requests are a
  registration, a change of address, links asked for twice and followed twice.
* `caches`: the lifetimes 0, 1, 2 keep the order of live data, licences not found and
  found; five requests are an ask, an uninstall and an ask again with one to cross.
* `incidents`: two sources and two syncs are the least for a failure between sources
  and for a sync that crosses another; two incidents of one item are the doubling
  the property excludes.
* `publishing`: two followers on one server are the shared inbox and the
  neighbour; two posts are a start and an end; three key pairs are a lost one, a
  kept one and one more.

`MaxOf`, in the last three, bounds the requests of each group of a module, whose
groups touch only at the named places; TLC would otherwise spend its time on their
product.

`CHECK_DEADLOCK FALSE` stands in every configuration but that of `signups`. The
instances are finite: once the requests a bound allows have been answered, the rows
that clients ask for exist and have been deleted, or the clock has reached its end,
nothing is left to do. In `signups` a share can always change.

Each property of a passing run has a mutant in `PROJECT.json`: a definition with
the kind of mistake a change to the code could bring (a guard dropped, a check made
once, the old row not closed), under which TLC finds the property violated in the
same configuration. The mutated definitions stand beside the originals and are
marked "Mutant" in their comments; nothing else uses them.

The runs that are expected to fail are disagreements between the code and what it
says of itself:

* `west`: the script looks for sign-ups of today's UTC date on schedules of today's
  UTC weekday, and `slot_date` is a local date: a net whose start falls on the next
  UTC day is never reminded of. The comment at `schedules.py:120` says the dates
  "never disagree near midnight in timezones behind UTC".
* `areas`: a sync deletes every boundary of a source and inserts it anew
  (`evac_zone_sources.py:376`); an incident's area refers to the old row and goes with
  it (`models.py:628`, `ON DELETE CASCADE`), though the same zone is there again. The
  README (675) says "syncing again is always safe".

## 5. Fairness

Safety is checked and proved without fairness. Two liveness properties use it.

* `Activation!Fairness`: weak fairness of `Proceed(p)` for each request in flight.
  A request that the event loop has accepted is run on until it answers. It has no
  loop, and `Refuse` covers the commits that cannot succeed. Nothing is assumed
  of clients: they need not start, edit or delete. `OpeningsFinish` speaks of the
  scenario in which no request dies, because a worker that is stopped does leave a
  session without Net Control (section 9).
* `OfflineQueue!FairSpec`: weak fairness of `BeginPass(f)` (the live view polls
  every 15 s and Background Sync retries), of `Flush(f)` (a pass is one async
  function that JavaScript runs on) and of `Reconnect`. Reconnecting is the one
  assumption about the world: without it nothing queued can be sent. Faults are
  bounded (`MaxFaults`), so the connection is lost finitely often; the operator's
  form needs no fairness because the property begins at `queued`.

`Reminders` needs none: `Punctual` makes the clock wait for a completed run, which
is cron's promise, and being reminded in time is a property of the clock's step. The
other modules state none: a delivery is tried once and may fail, an installation may
never be finished, and a page may never be closed, so what must eventually happen there
is nothing the code promises. What takes liveness' place is that whatever is under
way has somebody at work on it (`SomebodyInstalls`, `OnePostEach`, `KeyIsKept`).

## 6. What is proved

Assumed everywhere: the named ASSUME of each module, which says no more than that
constants are of their kind, that `None` is not a row, and how lifetimes are
ordered. Tables, slots, callsigns and bounds are arbitrary, and finiteness of none is
used.

| theorem | says | rests on |
| --- | --- | --- |
| `ActivationProofs!TypeCorrect` | `TypeOK` | `TypeOK` with `KnownKeys`: every key that a row or a request holds has been issued |
| `ActivationProofs!DoubleOccupancyOnlyByRace` | `DoubleOccupancyIsRaced` | `Accounted` and `Foreseen`: of two open rows, or of an open row and what a sign-on has seen, the gap holds a row written unaware |
| `...!SingleOccupancyWithoutOverlap` | `SingleOccupant` if there is one slot | the same, and `Fresh`: nothing is written behind the one request |
| `...!SelfServiceNeverEvicts` | `SelfServiceClosesOwn` | `PermitInv`: a request that is to close a row may do so, and a row's callsign never changes |
| `...!NetControlIsUnique` | `OneNetControl` | `NetControlInv`: a request that is opening a session is the only one, and its key is its own |
| `...!EndedSessionsStay` | `EndedStaysQuiet` | types only: a request never changes the session it is for, and a sign-on begins on an open one |
| `...!ReferencesHold` | `Referential` | `RefInv`: a request that is to sign somebody on knows a position of its own session; `Writable` says at the commit that both are still there |
| `...!TurnsKeepManning` | one slot: the refinement of `Manning` | `OneTurn`: `Fresh`, `RefInv`, and that a sign-on in its turn finds its session open still (`OpenYet`) and relieves a row of its own position (`OutHere`); each step is then a `SignOn` of `Manning` or a `Release` |
| `RosterProofs!TypeCorrect` | `TypeOK` | what each step of a request may rely on (a sheet, a row in it, a callsign) and a lemma on `missed` |
| `...!DuplicateOnlyByRace`, `FirstOnlyByRace` | `DuplicateIsRaced`, `FirstIsRaced` | `RacedInv` with `Clear`: what a request found absent when the roster had length `seen` is absent among the first `seen` rows still, since rows only die |
| `...!UniqueWithoutOverlap`, `FirstOnceWithoutOverlap` | one slot: `UniqueInSession`, `FirstOnce` | `SoloInv` with `UpToDate`: `seen` is the roster's length |
| `...!ClosedRostersStay` | `ClosedStaysQuiet` | types only: a request never changes the session it is for |
| `...!ListFollowsRoster` | `ListKeepsUp` | `ZoneInv`: for each station `Present` (its reports are listed, or one is on its way) and `Followed` (the one on its way is the newest, and finds no entry only where there is none) |
| `OfflineIncidentsProofs!ClaimIsExclusive`, `OverlapNeverDoubles`, `NothingIsLost` | `OneSender`, `DoubleIsUntold`, `NothingLost` | one invariant: a claimed record is held by one pass, what is still waiting has been committed only untold, what was removed had been committed |
| `...!RefusalsStand` | `RefusedStaysRefused` | the same, and `RefusedRests`: no pass has a refused record in hand |
| `RemindersPublishingProofs!AgainOnlyExcused`, `NoneMarkedUntried` | `AgainIsExcused`, `MarkedWasTried` | `Order`: batches of different steps are apart, what is held was there, what a run has handled was tried, and a row that is neither marked nor held nor shared has been tried as often as it was lost |
| `...!AllDueReminded` | `EveryDueIsReminded`, if cron is `Punctual` and `OwnDate` holds | `DueInv`: a run begun in this unit of time has everybody due marked, in hand, or still to be read; where one is done, all are marked |
| `SignupsProofs!DoubleDutyOnlyByRace`, `NetControlIsEntrusted` | `DoubleDutyIsRaced`, `DutyIsEntrusted` | `Looked`: what a request found taken; `Authorised`: what it has been let through on, and who sent it, the two histories have; `Recorded`: while the rights are being read they have it too |
| `...!SingleDutyWithoutOverlap` | one slot: each duty of a date has one holder | `UpToDate`, as for the roster |
| `AccessProofs!TablesSound` | `TypeOK`: rows refer to rows | `TypeInv`: the types of the thirteen kinds of request; each commit either writes rows whose keys still hold or is refused |
| `...!SuperAdminRemains` | `AdministratorStands` | `AdminInv`: the instance is untouched, with first registrations only under way, or somebody administers it; a request that is to found says so |
| `...!StraysAreExcused` | `NothingStranded` | `Strays` and `Excused`: what has lost its members or memberships is in `loose` or held by a half-done request, and each step that empties puts it there |
| `...!SharesOfOneUpdate` | `MixedSharesOverlap` | `SharesInv`: a share that an update under way has not seen was committed after that update began |
| `...!FlagsAreGrants` | `ShownIsGranted` | the definitions alone: the lists and flags agree with the checks on every state of the tables, for any order of rows |
| `AccountsProofs!LinksStayFollowed` | `LinksAreLive` | `Sound` and `Unspent`: a request's loaded columns hold older links only, and a column it changes it sets to 0 or to a new link |
| `...!OnlyConfirmedIsVerified` | `VerifiedIsConfirmed` | `Confirmed`: the link in the column, and the one being followed, went to the address of the account unless the address is trusted already |
| `...!NewestResetWorks` | `NewestLinkWorks` | `Newest`: a reset that is under way follows the newest link, or the newest is spent or accounted for as lost |
| `CachesProofs!OptInsAreListed` | `OptInListed` | types of requests and `Listed` |
| `...!LanguagesAreInstalled` | `SomebodyInstalls` | `Worked`: a job still queued, or one that holds the id of the row |
| `...!FoundStays` | `FoundIsKept` | `LookedUp`: a look-up under way began when the licence then found had run out |
| `...!NewestServed` | `NewestIsServed` | `LiveOrder`: which of the three copies agree at each step of the one request that is between them, unless a request was torn or another began |
| `OfflineIncidentsProofs!RowsStayTrue` | `RowsAgree` | `IncidentsTypeInv` (rows, windows, requests, history) and `Dated` |
| `...!SyncsReplaceWhole` | `SyncIsWhole` | `SyncOrder`: a sync that is to replace a source holds its rows, and one that meets another knows it |
| `...!AreasAreChosen` | `AreaAsChosen` | `AreaOrder`: what a choice or a replacement in flight holds is what is wanted, unless it is disturbed; a request that is alone finds the pairs it read |
| `...!ItemsBecomeOne` | `OneIncidentPerItem` | `ItemsInOrder`: one flow at a time handles an item; what it has in hand, and which windows may still know the item |
| `RemindersPublishingProofs!RacesRepeat` | `OnlyRacesRepeat` | `EndInv`, `LikeInv`, `KeyInv`: one request ends the session and what it has not done nobody has; the same for likes; everything signed is signed with the actor's key |
| `...!PostsReachEachOnce` | `OnePostEach` | `DeliveryInv`: a post is being resolved, or on its way to an inbox, or there, in one place only (`Unsent`), and what is owed is owed where the follower is (`Due`) |
| `...!KeyIsHad` | `KeyIsKept` | `ClaimInv`: one request at a time is about the key and knows of the directory what is so there |

Each of these modules also proves the `TypeOK` of its components; for `Accounts`,
`Caches` and `Incidents` it is a part of the first property, for `Publishing` of each
invariant. The layout is the same everywhere: an invariant as a
conjunction of named parts, one lemma per action (or per group of actions that touch
the same part), a lemma that joins them for `[Next]_vars`, and a theorem that ends
BY PTL. The invariants were checked by TLC before they were proved.

The pattern of the central results. None of the natural statements ("one occupant",
"each callsign once", "one holder per duty") is an invariant of this code, as
requests do overlap. What is true is that a violation has a cause, and the rows
carry enough history to say which: a row knows how long its table was when its
request looked. The invariant follows that knowledge from the read to the commit.
The natural statement is then the corollary for one request at a time. In `Accounts`
the cause is a crossing of two requests, and what makes everything else safe is that
a commit writes only what its handler changed: the lemma `Saved` says so once, and
each commit cites it.

Two theorems have a hypothesis on constants beside the ASSUMEs. `OneSlotAtMost`, in the
corollaries for one request at a time, is the case of a server that answers one request
before it takes the next: one worker whose handlers did not overlap. It is what the
natural statements need, and the run with overlaps violates them. `OwnDate`, of
`AllDueReminded`, says that the reminder window of each sign-up lies on the sign-up's own
date in UTC. The instance of `reminders` fulfils it and that of `west` does not, which is
why that run fails: it is the condition under which the script's comparison of a local
date with today's UTC date is right.

What attempts at proofs changed. A statement that could not be proved was either false
beyond the bounds or said too little:

* `AdministratorStands` had said of every state that no two first registrations are for
  one organisation. A request more than the run has, and it is false: a super admin
  removed by one who no longer was one can be the only founder, whose organisation is left
  over. It is now excepted with the rest by `overtaken`, and a first registration is
  forgotten with its organisation.
* `Access` refused every request about an organisation that had just been deleted, one
  that was about to insert that organisation itself among them. Such a request
  (`Founding`) holds no row, and commits.
* `NewestIsServed` is false when Redis goes and comes back while a request is between two
  of the copies. Such a request is now `torn`, which the property excepts.
* `ListKeepsUp` excepted too much: one crossing of two reports excused every station from
  then on. `contested` holds the stations it is about.
* `MixedSharesOverlap` compares two shares of one update with each other as well, where
  the list asked for names "everybody" twice.

## 7. What is only model-checked

Liveness, `OpeningsFinish` and `SettledUnlessOrphaned`, is out of the prover's reach.
`ImplementsManning` is stated of a scenario of `MCActivation`, in which requests come one
at a time and may die, and is checked there; `TurnsKeepManning` proves the refinement of
`Activation` itself, with the same mapping, for one slot and any tables. Every
invariant and every other property that a passing run checks is stated by a theorem.
Deadlock is looked for by TLC in `signups` only.

## 8. Abstractions

* A table is a sequence that only grows; a key is an index, and a deleted row stays
  with `live = FALSE`, so that keys are never issued twice (PostgreSQL sequences). Where
  rows are only looked up by what they refer to (shares, areas, followers) a table is a
  set or a function.
* Names, times, remarks and coordinates are left out. Callsigns are compared as the
  code compares them, after its normalisation.
* A SELECT sees what has been committed when it runs. That SQLAlchemy's identity map
  keeps the attributes of an object the same request has loaded before is left out:
  no modelled handler loads one row twice and decides on the second load.
* A commit and the refresh after it are one step, except where the code can fail
  between them (`LoseCheckin`).
* `Accepting`, in `Roster`, is the closed check of a session: the lock for a
  backfilled one, `ended_at` for the others.
* In `OfflineQueue` the answer of a fetch and the server's commit are one step, and
  the order in which a pass takes the items is left open.
* In `Signups` a share is changed an entry at a time; the endpoint, which replaces all
  of them, is in `Access`, as are the deletion and deactivation of accounts and the
  move to another organisation. Both users of the instance belong to the net's
  organisation; the theorem has accounts that do not, super admins among them.
* In `Activation` the occupant is the open row committed last; `_current_occupant` takes
  the one with the latest `checked_in_at`, which the server sets shortly before it
  commits. The two differ only within an overlap.
* In `Caches` the row of a licence is keyed by the callsign that was asked for; the code
  takes the one the source returns (`callsign_lookup.py:309`, 366), which is the same
  unless the source answers with another.
* In `Reminders`, two or more marked rows of one batch are sent to PostgreSQL as one
  `executemany`, for which asyncpg reports no row count; one row is, and a row that
  has gone then raises `StaleDataError`. `Refused` has both.
* In `Access` the SELECTs of one handler before its commit are one step, and the
  sessions of different requests meet at commits only.
* `Accounts` has one account, `Access` one net, `Caches` one net's live data, one
  language and one licence: their handlers look at no other row of the kind.
* `Incidents` takes what a source sends, what a scan finds and what the feed
  offers as inputs: geometry is not modelled. Row locks are modelled for the rows a
  transaction deletes, since those are what others insert a reference to.
* `Publishing` has one organisation and one session. An inbox that answers with an error
  is a delivery that fails; nothing is sent again.

## 9. What the code does and its documentation does not say

Seen while modelling; allowed by the models unless a bullet says that the part is not
modelled, and contradicted by no run that passes.

Sessions and rosters:

* `_current_occupant` (`tactical.py:240`) calls two open rows a momentary effect of
  racing operators. They stay: a sign-off closes the later one, and the other becomes
  the occupant again.
* `sign_on_tactical_position` decides that a caller without full access finds the
  position vacant (`tactical.py:404`), and commits after another operator has signed
  on. The later row is the occupant, although the comment at 406 says such a caller may
  "not evict whoever's already there".
* A worker stopped inside `start_session` leaves an activation without its Net
  Control position for good; nothing repairs it. A backfilled session that
  stops before its second commit takes check-ins as a live one.
* An import that has seen its session open goes on adding to it after it has ended.
* `import_checkins_csv` catches the exception of a refused commit (`checkins.py:311`)
  and goes on with the same session without a rollback, so each later row fails as
  well; its docstring (255) promises that a bad row is "skipped rather than aborting
  the rest".
* A backfilled net overwrites the zone list with reports older than those there.
* Two operators who toggle a check-in's traffic flag at once (`checkins.py:352`) negate
  the same value, and one toggle is lost (not modelled).
* On a GMRS net a check-in whose answer is lost is added a second time by the queue.
* A page closed or a worker stopped between the claim of a queued check-in and its
  settlement leaves the record at `sending`; no later pass takes it up
  (`offline-queue.js:155`), while the README (397) says queued check-ins are sent
  "automatically the moment the connection returns".
* A check-in that the server has accepted is sent again if IndexedDB then fails to remove
  the record: the removal (`offline-queue.js:167`) is inside the `try` whose `catch` (177)
  takes every failure for a lost connection. The comment at 106 calls the claim "the
  actual guarantee against double-submitting a check-in"; it is one against passes that
  overlap.

Duty:

* Two runs of `send_reminders.py` that overlap send twice, although the README (502)
  offers any cron interval; a run whose commit is refused sends again the next time.
  A reminder whose mail failed, or whose push had no device to go to, is recorded as
  sent, although the comment at 239 would not mark a sign-up "handled" when the script
  "couldn't actually notify anyone": one stays unmarked only without an address and an
  account. The part of a window that lies before
  midnight UTC is passed over (`send_reminders.py:233`): who is on soon after is reminded
  late.
* `both` and a single duty can share a date after a race (`schedules.py:386` looks
  first; the unique key covers equal roles only).
* A right withdrawn between the reads of `create_signup` still lets the sign-up through:
  that of a super admin counts as it was when the account was loaded (`helpers.py:815`),
  that of the owner as the net had it, that of a sharer as the share was read (`helpers.py:839`).

Accounts and access:

* Two super admins who remove each other at once leave none; the docstring at
  `admin.py:302` says that one remains after every call.
* An address typed with capitals is stored as typed (`auth.py:246`, 646) and looked up
  in lower case at sign-in (509) and for a reset (433): the account is reached by its
  callsign only.
* A reset link goes to the address loaded when it was asked for, and a reset signs
  in an account whose new address is not verified.
* A profile change that crosses a verification leaves the new address verified
  (`auth.py:653`): the flag it sets is the flag it had loaded, so it is not written.
* Two share updates at once leave the union of what they asked for.
* A registration that stops between its two commits (`auth.py:256`, 266) leaves an
  account without a membership and, when it founded one, an organisation nobody belongs
  to: `_delete_orphaned_orgs` looks at the organisations of a deleted account's
  memberships only.

Caches:

* A Redis that was away and comes back serves the older snapshot it has kept. Once
  the Redis key has run out, a worker's older memory outranks the newer row.
* A switch from aprs.fi to a relay leaves the old data under the new name until the
  relay pushes.
* A look-up whose sources did not answer is kept as "not found" for as long as a real
  one.
* A text asked for before a language's model is installed is cached untranslated
  (`translation.py:59`, 103).
* An opt-in can be left without its language by an uninstall that crosses the request.
  A restart during an installation leaves the language pending or installing for good.
* The maintenance banner is in one worker's memory; with several workers only some
  pages show it (not modelled).

Incidents:

* A source that answers 200 with an error in the body has no zones, and the sync
  deletes those it had. Two features with one `ZONE_ID` make every sync fail.
* Feed items without an external id share one record of having been handled.
* A form that was open over a sync offers zones that are dropped when it is saved.
  Resolving and reopening at once can leave an active incident with a time it was
  resolved. A feed item taken up in two windows at once becomes two incidents.
* Deleting an incident leaves its feed item hidden. A station removed by hand is back
  after the next scan.

Publishing:

* The announcement of an end can arrive before that of the start; a post composed
  before the Fediverse was switched off goes out after.
* `aprs_relay.py:291` reads from a socket the other side has closed, gets nothing, and
  reads again without a pause (not modelled).

## 10. The plan

Done: Activation, Roster, OfflineQueue, Reminders, Signups, Access, Accounts, Caches,
Incidents and Publishing, each checked and each with its proofs. What is left, in this
order:

1. A composition of `Publishing` with the opening of `Activation`: the announcement of
   a start is made by the request that creates Net Control.
2. `Manning` with overlaps: a weaker abstract specification, in which a sign-off may
   bring back the one who was relieved behind its back, that `Activation` implements for
   any number of slots.
3. The toggles of a check-in and the relays' reconnect loops, should they grow state
   beyond one column and one socket.
