------------------------------- MODULE Incidents -------------------------------
(***************************************************************************)
(* One net's incidents (routers/incidents.py, incident_matching.py), the   *)
(* evacuation zone boundaries their areas are chosen from                  *)
(* (evac_zone_sources.py, routers/evac_zones.py), and the hazard feed they *)
(* are made from (incident_feed_sources.py, routers/incident_feed.py), as  *)
(* operators use them from several windows (static/js/incidents.js).       *)
(* A request is a step for each thing it waits for; a row that another     *)
(* transaction has deleted but not committed is locked.  A request may     *)
(* fail at any step (a lost connection, a deadlock the database breaks, a  *)
(* restart) and then leaves what it has committed.                         *)
(* The specification is named for the module, so that a module of proofs   *)
(* may extend this one and another.                                        *)
(***************************************************************************)
EXTENDS Naturals, Sequences, FiniteSets, SequencesExt

CONSTANTS
    Windows,        \* browser windows on the incidents page
    Slots,          \* requests in flight at once
    Sources,        \* the zone sources, in the order sync asks them
    Zones,          \* the external ids of the zones a source can have
    FeedItems,      \* the items of the hazard feed
    Callsigns,      \* stations
    None,
    MaxIncidents,   \* bound on incidents made
    MaxSyncs,       \* bound on syncs
    MaxRequests,    \* bound on requests
    MaxOf           \* bound on requests about stations, about incidents, about the feed

Ids == 1 .. MaxIncidents

\* Rows of incidents, incident_stations and incident_feed_dismissals
Reasons == {"zone_report", "position", "manual"}
Statuses == {"not_contacted", "contacted"}
Incident == [status : {"active", "resolved"}, resolvedAt : BOOLEAN, item : FeedItems \cup {None}]
StationRow == [reason : Reasons, status : Statuses]
Dismissal == [status : {"dismissed", "created"}, incident : Ids \cup {None}]

ASSUME IncidentsAssumption ==
    /\ None \notin FeedItems \cup Callsigns \cup Windows \cup Nat
    /\ None \notin Incident /\ None \notin StationRow /\ None \notin Dismissal
    /\ MaxIncidents \in Nat /\ MaxSyncs \in Nat

VARIABLES
    boundaries, \* evac_zone_boundaries of the net
    incident,   \* incidents, None where there is none
    area,       \* incident_zones
    stations,   \* incident_stations, of every incident and callsign
    dismissal,  \* incident_feed_dismissals, of every item
    shows,      \* currentIncidentFeed of a window
    choices,    \* currentIncidentZoneBoundaries of a window
    opened,     \* pendingFeedItemForCreate of a window
    req,        \* requests in flight
    asked,      \* requests so far, by part
    newest,     \* history: what the newest sync of each source was given
    mixed,      \* history: sources whose newest sync overlapped another one
    wanted,     \* history: the zones last chosen for an incident
    disturbed,  \* history: incidents whose area something else has changed since
    crossed,    \* history: incidents whose status two requests changed at once
    contested   \* history: items taken up twice at once, or whose handling was cut short

rows == <<boundaries, incident, area, stations, dismissal>>
pages == <<shows, choices, opened>>
ghosts == <<newest, mixed, wanted, disturbed, crossed, contested>>
incidentsVars == <<rows, pages, req, asked, ghosts>>

\* A boundary's id is new with every sync: sync stands for it.
Boundary == [source : Range(Sources), zone : UNION {Zones[s] : s \in Range(Sources)}, sync : 1 .. MaxSyncs]

NoRequest == [op |-> "idle"]

IncidentsTypeOK ==
    /\ boundaries \subseteq Boundary
    /\ incident \in [Ids -> Incident \cup {None}]
    /\ stations \in [Ids -> [Callsigns -> StationRow \cup {None}]]
    /\ dismissal \in [FeedItems -> Dismissal \cup {None}]
    /\ \A a \in area : a.incident \in Ids /\ incident[a.incident] # None /\ a.boundary \in boundaries
    /\ \A i \in Ids, c \in Callsigns : stations[i][c] # None => incident[i] # None
    /\ \A x \in FeedItems : dismissal[x] # None /\ dismissal[x].incident # None =>
          dismissal[x].status = "created" /\ incident[dismissal[x].incident] # None
    /\ \A w \in Windows : shows[w] \subseteq FeedItems /\ choices[w] \subseteq Boundary
    /\ opened \in [Windows -> FeedItems \cup {None}]

-----------------------------------------------------------------------------
Go(p, r) == req' = [req EXCEPT ![p] = r]

\* These lock rows and wait for locks.
Locking == {"sync", "replace"}

\* What is answered leaves the slot, and those who wait for its locks wait no longer.
Freed(p) == [q \in Slots |->
    IF q = p THEN NoRequest
    ELSE IF req[q].op \in Locking THEN [req[q] EXCEPT !.after = @ \ {p}] ELSE req[q]]

\* The transactions that have deleted one of these rows.
Holders(p, r) == {q \in Slots \ {p} : req[q].op \in Locking /\ req[q].locked \cap r # {}}

AreaOf(i) == {a \in area : a.incident = i}

\* ON DELETE CASCADE of incident_zones
Under(bs) == {a \in area : a.boundary \in bs}

-----------------------------------------------------------------------------
(* sync_net_evac_zones                                                     *)

\* sync_evac_zones; select_source_for_state and select_sources_for_county on the net it loaded
Sync(p) ==
    /\ asked.syncs < MaxSyncs
    /\ \E matched \in SUBSET Range(Sources) \ {{}} :
          Go(p, [op |-> "sync", sync |-> asked.syncs + 1, fetched |-> {}, todo |-> matched,
                 new |-> {}, locked |-> {}, after |-> {}, raced |-> {}])
    /\ UNCHANGED <<rows, pages, ghosts>>

New(p, s, zones) == [source : {s}, zone : zones, sync : {req[p].sync}]

\* Source s is asked before the others of these.
IsFirst(s, todo) ==
    \E n \in DOMAIN Sources : Sources[n] = s /\ \A m \in 1 .. n - 1 : Sources[m] \notin todo

\* fetch, then the DELETE of the source's rows, which waits for whoever is deleting them.
FetchSource(p) ==
    /\ req[p].op = "sync" /\ req[p].after = {}
    /\ \E s \in req[p].todo : \E zones \in SUBSET Zones[s] :
          LET old == {b \in boundaries : b.source = s}
              gone == old \cup Under(old)
              rivals == {q \in Slots \ {p} : req[q].op = "sync" /\ s \in req[q].fetched} IN
          /\ IsFirst(s, req[p].todo)
          /\ req' = [q \in Slots |->
                IF q = p
                THEN [req[p] EXCEPT !.todo = @ \ {s}, !.fetched = @ \cup {s},
                                    !.new = @ \cup New(p, s, zones),
                                    !.locked = @ \cup gone, !.after = Holders(p, gone),
                                    !.raced = IF rivals # {} THEN @ \cup {s} ELSE @]
                ELSE IF q \in rivals THEN [req[q] EXCEPT !.raced = @ \cup {s}] ELSE req[q]]
    /\ UNCHANGED <<rows, pages, asked, ghosts>>

Clash(b, c) == b.source = c.source /\ b.zone = c.zone

\* Mutant: a commit for every source.
CommitEachSource(p) ==
    /\ req[p].op = "sync" /\ req[p].fetched # {} /\ req[p].after = {}
    /\ LET kept == boundaries \ req[p].locked IN
       /\ ~\E b \in kept, c \in req[p].new : Clash(b, c)
       /\ boundaries' = kept \cup req[p].new
       /\ area' = {a \in area : a.boundary \in kept}
    /\ IF req[p].todo = {}
       THEN /\ req' = Freed(p)
            /\ newest' = [s \in Range(Sources) |->
                  IF s \in req[p].fetched THEN {b \in boundaries' : b.source = s} ELSE newest[s]]
       ELSE req' = [req EXCEPT ![p].new = {}, ![p].locked = {}] /\ UNCHANGED newest
    /\ UNCHANGED <<incident, stations, dismissal, pages, asked, mixed, wanted, disturbed, crossed, contested>>

\* The commit; uq_evac_zone_boundary_net_source_external_id refuses what another sync put there.
CommitSync(p) ==
    /\ req[p].op = "sync" /\ req[p].todo = {} /\ req[p].after = {}
    /\ LET kept == boundaries \ req[p].locked
           done == req[p].fetched IN
       IF \E b \in kept, c \in req[p].new : Clash(b, c)
       THEN UNCHANGED <<boundaries, area, newest, mixed, disturbed>>
       ELSE /\ boundaries' = kept \cup req[p].new
            /\ area' = {a \in area : a.boundary \in kept}
            /\ newest' = [s \in Range(Sources) |->
                  IF s \in done THEN {b \in req[p].new : b.source = s} ELSE newest[s]]
            /\ mixed' = (mixed \ done) \cup req[p].raced
            /\ disturbed' = disturbed \cup {a.incident : a \in Under(req[p].locked)}
    /\ req' = Freed(p)
    /\ UNCHANGED <<incident, stations, dismissal, pages, asked, wanted, crossed, contested>>

-----------------------------------------------------------------------------
(* Incidents and their areas.                                              *)

Live == {i \in Ids : incident[i] # None}

\* The requests that are replacing the area of incident i.
Replacing(i) == {q \in Slots : req[q].op \in {"choose", "replace"} /\ req[q].incident = i}

\* A new request about the area of i, and the overlap it brings to the others.
Choosing(p, i, r) ==
    req' = [q \in Slots |-> IF q = p THEN r
                            ELSE IF q \in Replacing(i) THEN [req[q] EXCEPT !.alone = FALSE]
                            ELSE req[q]]

\* The requests that are creating an incident from x or marking x as handled.
Flows(x) ==
    {q \in Slots : req[q].op \in {"choose", "replace", "created", "dismiss", "mark"} /\ req[q].item = x}

\* Where else than on the form of w item x can be taken up.
Elsewhere(w, x) ==
    \/ \E v \in Windows \ {w} : x \in shows[v] \/ opened[v] = x
    \/ \E q \in Slots : req[q].op = "feed" /\ x \in req[q].got

Contest(x, condition) == contested' = IF condition THEN contested \cup {x} ELSE contested

\* An incident that was made in window w from x
Created(i, w, x) == [op |-> "created", incident |-> i, window |-> w, item |-> x]

\* saveIncident and create_incident up to its first commit: x is the feed item it is made from.
\* A form may be older than a sync: its zones are those the window has loaded.
CreateIncident(p, w) ==
    LET i == asked.made + 1
        x == opened[w] IN
    /\ i \in Ids
    /\ incident' = [incident EXCEPT ![i] = [status |-> "active", resolvedAt |-> FALSE, item |-> x]]
    /\ \E ids \in SUBSET choices[w] :
          /\ Go(p, IF ids = {} THEN Created(i, w, x)
                   ELSE [op |-> "choose", incident |-> i, ids |-> ids, window |-> w, item |-> x, alone |-> TRUE])
          /\ wanted' = [wanted EXCEPT ![i] = ids]
    /\ Contest(x, x # None /\ (Flows(x) # {} \/ Elsewhere(w, x)))
    /\ UNCHANGED <<boundaries, area, stations, dismissal, pages, newest, mixed, disturbed, crossed>>

\* update_incident with evac_zone_boundary_ids, up to its first commit
EditArea(p, w, i) ==
    /\ incident[i] # None
    /\ \E ids \in SUBSET choices[w] :
          Choosing(p, i, [op |-> "choose", incident |-> i, ids |-> ids, window |-> None,
                          item |-> None, alone |-> Replacing(i) = {}])
    /\ UNCHANGED <<rows, pages, ghosts>>

\* _set_incident_zones: only boundaries of this net that are still there; then the DELETE.
SelectZones(p) ==
    /\ req[p].op = "choose"
    /\ LET r == req[p]
           old == AreaOf(r.incident) IN
       Go(p, [op |-> "replace", incident |-> r.incident, ids |-> r.ids, valid |-> r.ids \cap boundaries,
              window |-> r.window, item |-> r.item, alone |-> r.alone,
              locked |-> old, after |-> Holders(p, old)])
    /\ UNCHANGED <<rows, pages, asked, ghosts>>

Pairs(i, bs) == [incident : {i}, boundary : bs]

\* The commit of the area, by who was alone with it and lost none of the zones or not.
Chosen(p) ==
    LET i == req[p].incident IN
    /\ wanted' = [wanted EXCEPT ![i] = req[p].ids]
    /\ disturbed' = IF req[p].alone /\ req[p].valid = req[p].ids THEN disturbed \ {i} ELSE disturbed \cup {i}
    /\ req' = IF req[p].window = None THEN Freed(p)
              ELSE [Freed(p) EXCEPT ![p] = Created(i, req[p].window, req[p].item)]
    /\ UNCHANGED <<boundaries, incident, stations, dismissal, pages, asked, newest, mixed, crossed, contested>>

\* Mutant: the old selection stays.
AddZones(p) ==
    /\ req[p].op = "replace" /\ incident[req[p].incident] # None /\ req[p].valid \subseteq boundaries
    /\ area' = area \cup Pairs(req[p].incident, req[p].valid)
    /\ Chosen(p)

\* The INSERTs and the commit: they wait for a sync that is deleting one of the boundaries,
\* and cannot be where a boundary or the incident has gone, or another request inserted the same.
ReplaceZones(p) ==
    /\ req[p].op = "replace" /\ req[p].after = {} /\ Holders(p, req[p].valid) = {}
    /\ LET kept == area \ req[p].locked
           new == Pairs(req[p].incident, req[p].valid) IN
       /\ incident[req[p].incident] # None /\ req[p].valid \subseteq boundaries /\ kept \cap new = {}
       /\ area' = kept \cup new
    /\ Chosen(p)

\* toggleIncidentStatus, and update_incident up to its commit
LoadStatus(p, i, status) ==
    /\ incident[i] # None
    /\ Go(p, [op |-> "status", incident |-> i, seen |-> incident[i], status |-> status])
    /\ UNCHANGED <<rows, pages, ghosts>>

\* Mutant: reopening keeps the time it was resolved.
ReopenKeepsTime(p) ==
    /\ req[p].op = "status" /\ incident[req[p].incident] # None
    /\ incident' = [incident EXCEPT ![req[p].incident].status = req[p].status,
                                    ![req[p].incident].resolvedAt = @ \/ req[p].status = "resolved"]
    /\ req' = Freed(p)
    /\ UNCHANGED <<boundaries, area, stations, dismissal, pages, asked, newest, mixed, wanted>>
    /\ UNCHANGED <<disturbed, crossed, contested>>

\* Only a column that changed is written; the time of resolving is new every time.
CommitStatus(p) ==
    /\ req[p].op = "status" /\ incident[req[p].incident] # None
    /\ LET i == req[p].incident
           seen == req[p].seen IN
       /\ incident' = [incident EXCEPT
              ![i].status = IF seen.status # req[p].status THEN req[p].status ELSE @,
              ![i].resolvedAt = IF req[p].status = "resolved" THEN TRUE
                                ELSE IF seen.resolvedAt THEN FALSE ELSE @]
       /\ crossed' = IF incident[i] # seen THEN crossed \cup {i} ELSE crossed
    /\ req' = Freed(p)
    /\ UNCHANGED <<boundaries, area, stations, dismissal, pages, asked, newest, mixed, wanted, disturbed, contested>>

\* delete_incident, with what hangs on it; the dismissal keeps its row.
DeleteIncident(i) ==
    /\ incident[i] # None /\ Holders(None, AreaOf(i)) = {}
    /\ incident' = [incident EXCEPT ![i] = None]
    /\ area' = area \ AreaOf(i)
    /\ stations' = [stations EXCEPT ![i] = [c \in Callsigns |-> None]]
    /\ dismissal' = [x \in FeedItems |-> IF dismissal[x] # None /\ dismissal[x].incident = i
                                     THEN [dismissal[x] EXCEPT !.incident = None] ELSE dismissal[x]]
    /\ UNCHANGED <<boundaries, pages, req, ghosts>>

-----------------------------------------------------------------------------
(* The stations of an incident.                                            *)

\* incident_matching.scan_incident: who reported one of the zones, or whose newest position is
\* in one; no zones, nobody.
LoadScan(p, i) ==
    /\ incident[i] # None /\ AreaOf(i) # {}
    /\ \E reported, inside \in SUBSET Callsigns :
          /\ reported \cup inside # {}
          /\ Go(p, [op |-> "scan", incident |-> i,
                    new |-> {c \in reported \cup inside : stations[i][c] = None},
                    reason |-> [c \in Callsigns |-> IF c \in reported THEN "zone_report" ELSE "position"]])

Station(reason) == [reason |-> reason, status |-> "not_contacted"]

\* add_incident_station
LoadAddStation(p, i, c) ==
    /\ incident[i] # None /\ stations[i][c] = None
    /\ Go(p, [op |-> "scan", incident |-> i, new |-> {c}, reason |-> [d \in Callsigns |-> "manual"]])

\* Its commit, or add_incident_station's: all of them, or none where one has been added since.
CommitStations(p) ==
    /\ req[p].op = "scan" /\ incident[req[p].incident] # None
    /\ \A c \in req[p].new : stations[req[p].incident][c] = None
    /\ stations' = [stations EXCEPT ![req[p].incident] =
          [c \in Callsigns |-> IF c \in req[p].new THEN Station(req[p].reason[c]) ELSE @[c]]]
    /\ req' = Freed(p)
    /\ UNCHANGED <<boundaries, incident, area, dismissal, pages, asked, ghosts>>

\* update_incident_station
SetStation(i, c, status) ==
    /\ stations[i][c] # None /\ stations' = [stations EXCEPT ![i][c].status = status]
    /\ UNCHANGED <<boundaries, incident, area, dismissal, pages, req, ghosts>>

\* delete_incident_station
DeleteStation(i, c) ==
    /\ stations[i][c] # None /\ stations' = [stations EXCEPT ![i][c] = None]
    /\ UNCHANGED <<boundaries, incident, area, dismissal, pages, req, ghosts>>

-----------------------------------------------------------------------------
(* The hazard feed.                                                        *)

\* loadIncidentZoneBoundaries, when the window opens the net
LoadZones(w) ==
    /\ choices[w] # boundaries /\ choices' = [choices EXCEPT ![w] = boundaries]
    /\ UNCHANGED <<rows, shows, opened, req, asked, ghosts>>

\* The SOURCES of the feed: any of them may fail, and each item comes and goes as it likes.
Offers == SUBSET FeedItems

\* Mutant: only what was dismissed is handled.
LoadFeedWithMade(p, w) ==
    /\ \E offered \in Offers :
          LET got == {x \in offered : dismissal[x] # None => dismissal[x].status = "created"} IN
          /\ Go(p, [op |-> "feed", got |-> got, window |-> w])
          /\ contested' = contested \cup {x \in got : Flows(x) # {}}
    /\ UNCHANGED <<rows, pages, newest, mixed, wanted, disturbed, crossed>>

\* get_incident_feed: what the sources that answer offer, without what is handled.
LoadFeed(p, w) ==
    /\ \E offered \in Offers :
          LET got == {x \in offered : dismissal[x] = None} IN
          /\ Go(p, [op |-> "feed", got |-> got, window |-> w])
          /\ contested' = contested \cup {x \in got : Flows(x) # {}}
    /\ UNCHANGED <<rows, pages, newest, mixed, wanted, disturbed, crossed>>

\* loadIncidentFeed: the answer arrives.
ShowFeed(p) ==
    /\ req[p].op = "feed"
    /\ shows' = [shows EXCEPT ![req[p].window] = req[p].got]
    /\ req' = Freed(p)
    /\ UNCHANGED <<rows, choices, opened, asked, ghosts>>

\* createIncidentFromFeedItem
OpenForm(w, x) ==
    /\ x \in shows[w] /\ opened[w] # x /\ opened' = [opened EXCEPT ![w] = x]
    /\ Contest(x, Flows(x) # {})
    /\ UNCHANGED <<rows, shows, choices, req, asked, newest, mixed, wanted, disturbed, crossed>>

\* showNewIncidentForm, hideIncidentForm, editIncident
CloseForm(w) ==
    /\ opened[w] # None /\ opened' = [opened EXCEPT ![w] = None]
    /\ UNCHANGED <<rows, shows, choices, req, asked, ghosts>>

\* saveIncident has its answer: the form goes, and the item it was opened from is marked.
MarkItem(p) ==
    /\ req[p].op = "created"
    /\ opened' = [opened EXCEPT ![req[p].window] = None]
    /\ IF req[p].item = None THEN req' = Freed(p)
       ELSE Go(p, [op |-> "dismiss", item |-> req[p].item, incident |-> req[p].incident,
                   window |-> req[p].window])
    /\ UNCHANGED <<rows, shows, choices, asked, ghosts>>

\* dismissFeedItemAt
Dismiss(p, w, x) ==
    /\ x \in shows[w]
    /\ Contest(x, Flows(x) # {})
    /\ Go(p, [op |-> "dismiss", item |-> x, incident |-> None, window |-> w])
    /\ UNCHANGED <<rows, pages, newest, mixed, wanted, disturbed, crossed>>

\* dismiss_incident_feed_item up to its commit
SelectDismissal(p) ==
    /\ req[p].op = "dismiss"
    /\ Go(p, [op |-> "mark", item |-> req[p].item, incident |-> req[p].incident,
              window |-> req[p].window, found |-> dismissal[req[p].item] # None])
    /\ UNCHANGED <<rows, pages, asked, ghosts>>

Marked(p) == [status |-> IF req[p].incident = None THEN "dismissed" ELSE "created",
              incident |-> req[p].incident]

Handled(p) ==
    /\ shows' = [shows EXCEPT ![req[p].window] = @ \ {req[p].item}]
    /\ req' = Freed(p)
    /\ UNCHANGED <<boundaries, incident, area, stations, choices, opened, asked, ghosts>>

\* Its commit, not where the incident has gone or where the row it would insert is there by
\* now; dismissFeedItem takes the item off the list.
CommitDismissal(p) ==
    /\ req[p].op = "mark"
    /\ req[p].incident # None => incident[req[p].incident] # None
    /\ req[p].found \/ dismissal[req[p].item] = None
    /\ dismissal' = [dismissal EXCEPT ![req[p].item] = Marked(p)]
    /\ Handled(p)

-----------------------------------------------------------------------------
\* A request fails: an incident that was being made stays, without its area, and the item it
\* was made from is offered again.
Fail(p) ==
    /\ req[p] # NoRequest
    /\ req' = Freed(p)
    /\ disturbed' = IF req[p].op \in {"choose", "replace"} /\ req[p].window # None
                    THEN disturbed \cup {req[p].incident} ELSE disturbed
    /\ contested' = contested \cup {x \in FeedItems : p \in Flows(x)}
    /\ UNCHANGED <<rows, pages, asked, newest, mixed, wanted, crossed>>

IncidentsInit ==
    /\ boundaries = {} /\ incident = [i \in Ids |-> None] /\ area = {}
    /\ stations = [i \in Ids |-> [c \in Callsigns |-> None]]
    /\ dismissal = [x \in FeedItems |-> None]
    /\ shows = [w \in Windows |-> {}] /\ choices = [w \in Windows |-> {}]
    /\ opened = [w \in Windows |-> None]
    /\ req = [p \in Slots |-> NoRequest]
    /\ asked = [all |-> 0, syncs |-> 0, made |-> 0, areas |-> 0, status |-> 0, stations |-> 0, feed |-> 0]
    /\ newest = [s \in Range(Sources) |-> {}] /\ mixed = {}
    /\ wanted = [i \in Ids |-> {}] /\ disturbed = {} /\ crossed = {} /\ contested = {}

Ask(part, most) ==
    /\ asked.all < MaxRequests /\ asked[part] < most
    /\ asked' = [asked EXCEPT !.all = @ + 1, ![part] = @ + 1]

AskAbout(p) ==
    \/ Ask("syncs", MaxSyncs) /\ Sync(p)
    \/ Ask("made", MaxIncidents) /\ \E w \in Windows : CreateIncident(p, w)
    \/ Ask("areas", MaxOf) /\ \E w \in Windows, i \in Ids : EditArea(p, w, i)
    \/ Ask("status", MaxOf) /\ \E i \in Ids, s \in {"active", "resolved"} : LoadStatus(p, i, s)
    \/ /\ Ask("stations", MaxOf)
       /\ \E i \in Ids : LoadScan(p, i) \/ \E c \in Callsigns : LoadAddStation(p, i, c)
       /\ UNCHANGED <<rows, pages, ghosts>>
    \/ Ask("feed", MaxOf) /\ \E w \in Windows : LoadFeed(p, w) \/ \E x \in FeedItems : Dismiss(p, w, x)

AtOnce ==
    \/ Ask("status", MaxOf) /\ \E i \in Ids : DeleteIncident(i)
    \/ /\ Ask("stations", MaxOf)
       /\ \E i \in Ids, c \in Callsigns : DeleteStation(i, c) \/ \E s \in Statuses : SetStation(i, c, s)

IncidentsNext ==
    \/ \E p \in Slots :
          \/ req[p] = NoRequest /\ AskAbout(p)
          \/ FetchSource(p) \/ CommitSync(p) \/ SelectZones(p) \/ ReplaceZones(p)
          \/ CommitStatus(p) \/ CommitStations(p)
          \/ ShowFeed(p) \/ MarkItem(p) \/ SelectDismissal(p) \/ CommitDismissal(p)
          \/ Fail(p)
    \/ AtOnce
    \/ \E w \in Windows : LoadZones(w) \/ CloseForm(w) \/ \E x \in FeedItems : OpenForm(w, x)

IncidentsSpec == IncidentsInit /\ [][IncidentsNext]_incidentsVars

-----------------------------------------------------------------------------
\* A source's boundaries are exactly what the newest finished sync was given, whatever failed
\* in between, unless that sync overlapped another one.
SyncIsWhole ==
    \A s \in Range(Sources) \ mixed : {b \in boundaries : b.source = s} = newest[s]

\* The area of an incident is the zones last chosen for it.  Only a sync, a second request for
\* it at the same time, a form older than a sync, or a creation cut short makes it another.
AreaAsChosen ==
    \A i \in Live \ disturbed :
        Replacing(i) = {} => {a.boundary : a \in AreaOf(i)} = wanted[i]

\* Rows have their types and refer to rows there are, and an incident has the time it was
\* resolved exactly if it is resolved, unless two requests changed its status at once.
RowsAgree ==
    /\ IncidentsTypeOK
    /\ \A i \in Live \ crossed : incident[i].resolvedAt <=> incident[i].status = "resolved"

\* A feed item becomes one incident only, and what says that the item was handled names that
\* incident once the request that made it is through, even if the item was first dismissed;
\* unless it was taken up twice at once or its handling was cut short.
OneIncidentPerItem ==
    \A i \in Live : LET x == incident[i].item IN
        x \in FeedItems \ contested =>
            /\ \A j \in Live : incident[j].item = x => i = j
            /\ Flows(x) = {} => dismissal[x] # None /\ dismissal[x].incident = i

\* An area survives a sync that brings its zones again.
AreaSurvivesSync ==
    [][\A a \in area : a \in area' \/ incident' # incident \/ wanted' # wanted
          \/ ~\E b \in boundaries' : Clash(b, a.boundary)]_incidentsVars
=============================================================================
