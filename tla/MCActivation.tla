---------------------------- MODULE MCActivation ----------------------------
(* Small instances of Activation: one account with full access to the net   *)
(* and two tactical operators, each with a callsign of its own.  A run is   *)
(* one of three scenarios, which differ in what goes on at once.            *)
EXTENDS Activation, TLC

CONSTANTS ncs, op1, op2, call1, call2, p1, p2

VARIABLE scenario

ThreeUsers == {ncs, op1, op2}
Ncs == {ncs}
TwoCallsigns == {call1, call2}
Own == (ncs :> {}) @@ (op1 :> {call1}) @@ (op2 :> {call2})
TwoSlots == {p1, p2}

\* Two requests in flight on one session: sign-ons, sign-offs, ends and deletions overlap.
Race ==
    /\ scenario = "race"
    /\ \/ \E s \in DOMAIN sessions : DeleteSession(s)
       \/ \E x \in DOMAIN plan : DeletePlanned(x)
       \/ \E p \in Slots : Begin(p) \/ Proceed(p)
    /\ Len(sessions') < 2

\* One request at a time, which may die half way, over a plan that is edited meanwhile.
Sequence ==
    /\ scenario = "sequence"
    /\ \/ \E s \in DOMAIN sessions :
             DeleteSession(s) \/ \E kind \in {"position", "shift"} : CreateLive(s, kind)
       \/ \E x \in DOMAIN plan : DeletePlanned(x)
       \/ \E i \in DOMAIN log : DeleteCheckin(i)
       \/ Begin(p1) /\ (At(p1, "occupant")' => Len(log) < 2)
       \/ Proceed(p1) \/ Fail(p1)
    /\ Len(sessions') < 2

\* Two sessions opened from a schedule while it is edited; nobody signs on.
Openings ==
    /\ scenario = "opening"
    /\ \/ CreateSchedule
       \/ \E k \in DOMAIN schedules : DeleteSchedule(k)
       \/ \E kind \in {"position", "shift"} :
             /\ plan = <<>>
             /\ \/ \E k \in DOMAIN schedules : CreateMember(k, kind)
                \/ \E s \in DOMAIN sessions : CreateLive(s, kind)
       \/ \E x \in DOMAIN plan : DeletePlanned(x)
       \/ \E s \in DOMAIN sessions : DeleteSession(s)
       \/ \E p \in Slots :
             \/ \E offline \in BOOLEAN, duty \in {call1, NoCallsign},
                   k \in DOMAIN schedules \cup {Null} : StartSession(p, offline, duty, k)
             \/ Proceed(p)

MCInit == Init /\ scenario \in {"race", "sequence", "opening"}

MCNext == UNCHANGED scenario /\ (Race \/ Sequence \/ Openings)

MCSpec == MCInit /\ [][MCNext]_<<vars, scenario>> /\ Fairness

-----------------------------------------------------------------------------
\* The abstract view of the positions, of requests one at a time: who holds each, and
\* which are closed.
Posts == 1..(MaxPlan + 1)

Holder == [x \in Posts |-> IF scenario = "sequence" THEN HolderOf(x) ELSE NoCallsign]

ClosedPosts == {x \in Posts \cap DOMAIN plan : scenario = "sequence" /\ IsClosed(x)}

ManningView == INSTANCE Manning WITH holder <- Holder, closed <- ClosedPosts,
                                     Vacant <- NoCallsign

\* Sign-on and sign-off without overlap keep what Manning promises.
ImplementsManning == ManningView!Spec

\* Where no request dies, a session that is started gets its Net Control position and keeps
\* it until it is deleted (models.py TacticalPosition: "Auto-created (one per activation
\* session)").
OpeningsFinish ==
    \A s \in 1..MaxSessions :
        scenario = "opening" /\ s \in DOMAIN sessions ~>
            [](NetControlOf(s) # {} \/ ~Live(sessions, s))
=============================================================================
