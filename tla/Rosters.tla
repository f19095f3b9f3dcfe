------------------------------ MODULE Rosters ------------------------------
(***************************************************************************)
(* Who plays in a competition of fixed teams: the registrations, the teams *)
(* and their members, and the entries that put a team's line-up into its   *)
(* matches.  backend/src/services/team.service.ts, the participants' part  *)
(* of tournament.service.ts, and what the creation of a match does to the  *)
(* teams it opposes.                                                       *)
(*                                                                         *)
(* A request is a list of queries.  Those that only check something end it *)
(* when the check fails; between any two of them the other requests may do *)
(* anything.  Only the seat of a new member is taken under a lock.         *)
(***************************************************************************)
EXTENDS Naturals, FiniteSets, Sequences

CONSTANTS
    Players,
    Teams,        \* the rows the table teams may hold
    MinTeamSize,  \* tournaments.min_team_size
    MaxTeamSize,  \* tournaments.max_team_size
    Mode,         \* tournaments.mode
    None,         \* no player or team: a request that names none
    Requests,     \* requests under way at the same time
    MaxRequests   \* bound of the model: requests received

ASSUME RostersAssumption ==
    /\ IsFiniteSet(Players)
    /\ MinTeamSize \in Nat \ {0}
    /\ MaxTeamSize \in Nat \ {0}
    /\ MinTeamSize <= MaxTeamSize
    /\ Mode \in {"championship", "bracket"}
    /\ None \notin Players \cup Teams
    /\ MaxRequests \in Nat

VARIABLES
    status,        \* tournaments.status
    registration,  \* tournament_participants.status; "none" where there is no row
    teams,         \* teams: unused, existing or gone
    members,       \* team_members
    entries,       \* tournament_entries of the teams: the players of the line-up
    fielded,       \* the teams that have an entry, and with it a match
    runs,          \* the requests under way
    received,      \* number of requests received, at most MaxRequests
    manned,        \* history: teams that have had a member
    loose,         \* history: teams fielded while a request was at work on them
    returning      \* history: players expelled while they were registering

rosterVars == <<status, registration, teams, members, entries, fielded>>
historyVars == <<manned, loose, returning>>
vars == <<rosterVars, historyVars, runs, received>>

Existing == {t \in Teams : teams[t] = "existing"}
-----------------------------------------------------------------------------
(* Requests *)

\* The queries of a request after the one that reads the competition: first of the
\* registrations, ...
RegistrationQueries ==
    [register |-> <<"unregistered", "unbanned", "enroll">>,
     add |-> <<"unregistered", "enroll">>,
     withdraw |-> <<"registered", "withdraw">>,
     expel |-> <<"registered", "expel">>]

\* ... of the creation of a match between two teams, ...
MatchQueries == <<"size", "otherSize", "field">>

\* ... and with them those of the teams.
Queries ==
    [register |-> RegistrationQueries.register,
     add |-> RegistrationQueries.add,
     withdraw |-> RegistrationQueries.withdraw,
     expel |-> RegistrationQueries.expel,
     create |-> <<"registered", "insert", "seat">>,
     open |-> <<"insert">>,
     join |-> <<"unplayed", "registered", "seat">>,
     leave |-> <<"unplayed", "editable", "member", "unseat", "count", "drop">>,
     delete |-> <<"editable", "drop">>,
     match |-> MatchQueries]

Kinds == DOMAIN Queries

Idle == [kind |-> "idle", player |-> None, team |-> None, other |-> None, at |-> 0]

Query(r) == IF r.kind = "idle" THEN "none" ELSE Queries[r.kind][r.at]

\* The request at its next query, or over after the last one.
Onward(r) == IF r.at = Len(Queries[r.kind]) THEN Idle ELSE [r EXCEPT !.at = @ + 1]

Continue(a) == runs' = [runs EXCEPT ![a] = Onward(runs[a])]
Stop(a) == runs' = [runs EXCEPT ![a] = Idle]

At(a, query) == Query(runs[a]) = query

\* Requests that change the members of a team, or its existence.
TeamWork == {"create", "join", "leave", "delete"}
WorkedOn(t) == \E a \in Requests : runs[a].kind \in TeamWork /\ runs[a].team = t
-----------------------------------------------------------------------------
(* The first query: the competition, and the team where one is named *)

Editable(st) == st \notin {"ongoing", "finished"}

CanLeaveAtStatus(st) == st # "finished" /\ (st = "ongoing" => Mode # "bracket")

Registering == {"register", "add", "withdraw", "expel"}

\* What the request names: a player, a team, two teams.
Named(k, p, t, u) ==
    /\ (p = None) = (k \in {"open", "delete", "match"})
    /\ (t = None) = (k \in Registering)
    /\ (u = None) = (k # "match")

Accepted(k, t, u) ==
    CASE k = "register" -> status \in {"open", "ongoing"}
      [] k \in {"add", "expel"} -> TRUE
      [] k = "withdraw" -> CanLeaveAtStatus(status)
      [] k \in {"create", "open"} -> Editable(status) /\ teams[t] = "unused"
      [] k = "join" -> Editable(status) /\ t \in Existing
      [] k \in {"leave", "delete"} -> t \in Existing
      [] k = "match" -> status \in {"open", "ongoing"} /\ t \in Existing /\ u # t

\* Which of the free slots a request takes makes no difference.
Receive(a, k, p, t, u) ==
    /\ runs[a] = Idle
    /\ a = CHOOSE b \in Requests : runs[b] = Idle
    /\ received < MaxRequests
    /\ Named(k, p, t, u)
    /\ Accepted(k, t, u)
    \* the row a request creates is its own
    /\ k \in {"create", "open"} => \A b \in Requests : runs[b].team # t
    /\ runs' = [runs EXCEPT ![a] =
                   [kind |-> k, player |-> p, team |-> t, other |-> u, at |-> 1]]
    /\ received' = received + 1
    /\ UNCHANGED <<rosterVars, historyVars>>
-----------------------------------------------------------------------------
(* Queries that only check *)

Fits(t) == t \in Existing /\ Cardinality(members[t]) \in MinTeamSize..MaxTeamSize

\* Defect variant (of Unbanned): a player who was expelled may come back alone.
NotActive(p) == registration[p] # "active"

\* checkNotRemoved
Unbanned(p) == registration[p] # "removed"

\* Defect variant (of Unplayed): the matches of a team do not freeze it.
NeverFrozen(t) == t \in Teams

\* hasMatchEntry
Unplayed(t) == t \notin fielded

Passes(query, r) ==
    CASE query = "registered" -> registration[r.player] = "active"
      [] query = "unregistered" -> registration[r.player] # "active"
      [] query = "unbanned" -> Unbanned(r.player)
      [] query = "editable" -> Editable(status)
      [] query = "unplayed" -> Unplayed(r.team)
      [] query = "member" -> r.player \in members[r.team]
      [] query = "count" -> members[r.team] = {}
      [] query = "size" -> Fits(r.team)
      [] query = "otherSize" -> Fits(r.other)

Checks == {"registered", "unregistered", "unbanned", "editable", "unplayed", "member",
           "count", "size", "otherSize"}

Check(a) ==
    /\ Query(runs[a]) \in Checks
    /\ IF Passes(Query(runs[a]), runs[a]) THEN Continue(a) ELSE Stop(a)
    /\ UNCHANGED <<rosterVars, historyVars, received>>
-----------------------------------------------------------------------------
(* Registrations *)

SetRegistration(a, st) ==
    /\ registration' = [registration EXCEPT ![runs[a].player] = st]
    /\ Continue(a)
    /\ UNCHANGED <<status, teams, members, entries, fielded, received, manned, loose>>

\* Registering again is the upsert of the same row.
Enroll(a) == At(a, "enroll") /\ SetRegistration(a, "active") /\ UNCHANGED returning

Withdraw(a) == At(a, "withdraw") /\ SetRegistration(a, "withdrawn") /\ UNCHANGED returning

Expel(a) ==
    /\ At(a, "expel")
    /\ SetRegistration(a, "removed")
    /\ returning' = IF \E b \in Requests : /\ runs[b].kind \in {"register", "withdraw"}
                                           /\ runs[b].player = runs[a].player
                    THEN returning \cup {runs[a].player} ELSE returning
-----------------------------------------------------------------------------
(* Teams *)

Insert(a) ==
    LET t == runs[a].team IN
    /\ At(a, "insert")
    /\ teams[t] = "unused"  \* a new row
    /\ teams' = [teams EXCEPT ![t] = "existing"]
    /\ Continue(a)
    /\ UNCHANGED <<status, registration, members, entries, fielded, historyVars, received>>

\* Defect variant (of InSomeTeam): only the team itself is looked at.
InThisTeam(p, t) == p \in members[t]

InSomeTeam(p, t) == \E s \in Existing : p \in members[s]

Full(t) == Cardinality(members[t]) >= MaxTeamSize

\* The request, about to delete the team it has created.
Deletion(r) ==
    [kind |-> "delete", player |-> r.player, team |-> r.team, other |-> r.other, at |-> 2]

\* The lock on the competition makes the two tests and the insert one step.
\* A team that is gone refuses the row; the team a refused player has just
\* created is deleted again, as in Drop.
Seat(a) ==
    LET r == runs[a] IN
    /\ At(a, "seat")
    /\ IF r.team \in Existing /\ ~InSomeTeam(r.player, r.team) /\ ~Full(r.team)
       THEN /\ members' = [members EXCEPT ![r.team] = @ \cup {r.player}]
            /\ manned' = manned \cup {r.team}
            /\ Continue(a)
       ELSE /\ UNCHANGED <<members, manned>>
            /\ runs' = [runs EXCEPT ![a] =
                           IF r.kind = "create" /\ r.team \in Existing
                           THEN Deletion(r) ELSE Idle]
    /\ UNCHANGED <<status, registration, teams, entries, fielded, loose, returning, received>>

\* Defect variant (of Unseat): the leaving player's request stops there.
UnseatOnly(a) ==
    LET r == runs[a] IN
    /\ At(a, "unseat")
    /\ members' = [members EXCEPT ![r.team] = @ \ {r.player}]
    /\ Stop(a)
    /\ UNCHANGED <<status, registration, teams, entries, fielded, historyVars, received>>

Unseat(a) ==
    LET r == runs[a] IN
    /\ At(a, "unseat")
    /\ members' = [members EXCEPT ![r.team] = @ \ {r.player}]
    /\ Continue(a)
    /\ UNCHANGED <<status, registration, teams, entries, fielded, historyVars, received>>

\* Defect variant (of Drop): the match does not hold the team.
DropFielded(a) ==
    LET t == runs[a].team IN
    /\ At(a, "drop")
    /\ teams' = [teams EXCEPT ![t] = "gone"]
    /\ members' = [members EXCEPT ![t] = {}]
    /\ Continue(a)
    /\ UNCHANGED <<status, registration, entries, fielded, historyVars, received>>

\* Deletes the row and its members; a team with a match is held by it.
Drop(a) ==
    LET t == runs[a].team IN
    /\ At(a, "drop")
    /\ IF t \in Existing \ fielded
       THEN /\ teams' = [teams EXCEPT ![t] = "gone"]
            /\ members' = [members EXCEPT ![t] = {}]
       ELSE UNCHANGED <<teams, members>>
    /\ Continue(a)
    /\ UNCHANGED <<status, registration, entries, fielded, historyVars, received>>
-----------------------------------------------------------------------------
(* Matches, and the life of the competition *)

\* One transaction: a team that has no entry yet gets one with its members.
Field(a) ==
    LET sides == {runs[a].team, runs[a].other}
        new == sides \ fielded IN
    /\ At(a, "field")
    /\ IF sides \subseteq Existing
       THEN /\ entries' = [t \in Teams |-> IF t \in new THEN members[t] ELSE entries[t]]
            /\ fielded' = fielded \cup new
            /\ loose' = loose \cup {t \in new : WorkedOn(t)}
       ELSE UNCHANGED <<entries, fielded, loose>>
    /\ Continue(a)
    /\ UNCHANGED <<status, registration, teams, members, manned, returning, received>>

Transitions == {<<"draft", "open">>, <<"open", "ongoing">>, <<"open", "draft">>,
                <<"ongoing", "finished">>}

ChangeStatus(st) ==
    /\ <<status, st>> \in Transitions
    /\ status' = st
    /\ UNCHANGED <<registration, teams, members, entries, fielded, historyVars, runs, received>>
-----------------------------------------------------------------------------
Step(a) ==
    \/ Check(a) \/ Enroll(a) \/ Withdraw(a) \/ Expel(a)
    \/ Insert(a) \/ Seat(a) \/ Unseat(a) \/ Drop(a) \/ Field(a)

Next ==
    \/ \E a \in Requests, k \in Kinds, p \in Players \cup {None}, t, u \in Teams \cup {None} :
          Receive(a, k, p, t, u)
    \/ \E a \in Requests : Step(a)
    \/ \E st \in {"draft", "open", "ongoing", "finished"} : ChangeStatus(st)

\* Some of the registered players have formed teams already.
Init ==
    /\ status \in {"draft", "open"}
    /\ registration = [p \in Players |-> "active"]
    /\ \E formed \in SUBSET Teams :
          /\ teams = [t \in Teams |-> IF t \in formed THEN "existing" ELSE "unused"]
          /\ members \in [Teams -> SUBSET Players]
          /\ \A t \in Teams : members[t] # {} <=> t \in formed
          /\ \A t \in Teams : Cardinality(members[t]) <= MaxTeamSize
          /\ \A t, u \in Teams : t # u => members[t] \cap members[u] = {}
          /\ manned = formed
    /\ entries = [t \in Teams |-> {}]
    /\ fielded = {}
    /\ runs = [a \in Requests |-> Idle]
    /\ received = 0
    /\ loose = {}
    /\ returning = {}

Spec == Init /\ [][Next]_vars
-----------------------------------------------------------------------------
(* Properties *)

Run == [kind : Kinds, player : Players \cup {None}, team : Teams \cup {None},
        other : Teams \cup {None}, at : 1..6]

\* A request is at one of its queries and names the player and the teams it
\* works on.
WellFormed(r) ==
    /\ r \in Run
    /\ r.at <= Len(Queries[r.kind])
    /\ r.kind \in Registering \cup {"create", "join", "leave"} => r.player \in Players
    /\ r.kind \notin Registering => r.team \in Teams
    /\ r.kind = "match" => r.other \in Teams

\* Every variable keeps its domain; a team that is not there has no members
\* and no entry; and no request outruns its handler.
TypeOK ==
    /\ status \in {"draft", "open", "ongoing", "finished"}
    /\ registration \in [Players -> {"none", "active", "withdrawn", "removed"}]
    /\ teams \in [Teams -> {"unused", "existing", "gone"}]
    /\ members \in [Teams -> SUBSET Players]
    /\ entries \in [Teams -> SUBSET Players]
    /\ fielded \subseteq Existing
    /\ \A t \in Teams \ Existing : members[t] = {}
    /\ \A t \in Teams \ fielded : entries[t] = {}
    /\ manned \subseteq {t \in Teams : teams[t] # "unused"}
    /\ loose \subseteq fielded /\ returning \subseteq Players
    /\ \A a \in Requests : runs[a] = Idle \/ WellFormed(runs[a])
    /\ runs \in [Requests -> Run \cup {Idle}]
    /\ received \in 0..MaxRequests

\* Two players never take the last seat of a team together, and nobody gets
\* into two teams by joining both, or by joining one and creating another, at
\* the same time.
SeatsAreTakenOnce ==
    /\ \A t \in Existing : Cardinality(members[t]) <= MaxTeamSize
    /\ \A t, u \in Existing : t # u => members[t] \cap members[u] = {}

\* No team is left behind empty, however its members leave, or give up its
\* creation, together: once the requests are over, an empty team is one nobody
\* has ever joined, or one a match holds.
NoDesertedTeam ==
    (\A a \in Requests : runs[a] = Idle) =>
        \A t \in Existing \cap manned : members[t] # {} \/ t \in fielded

\* The line-up a team has entered its matches with stays its members: only
\* somebody already on the way in or out when the match was created escapes.
FieldedLineUpIsKept == \A t \in fielded \ loose : entries[t] = members[t]

\* A request that has passed its look at the matches of the team, or creates
\* the team, was at work when the team was fielded, if it has been since.
PastTheLook(r) == r.kind = "create" \/ (r.kind \in {"join", "leave"} /\ r.at >= 2)
OnTheWay == \A a \in Requests : PastTheLook(runs[a]) => runs[a].team \notin fielded \ loose

\* An empty team that somebody has been in still has a leaver to delete it.
LastLeaver(t) ==
    \E a \in Requests : runs[a].kind = "leave" /\ runs[a].at \in {5, 6} /\ runs[a].team = t
EmptyTeamsAreDue ==
    \A t \in Existing \cap manned : members[t] # {} \/ t \in fielded \/ LastLeaver(t)

\* A request about to write a registration it read before the player's removal
\* is one the removal has overtaken.
AboutToWrite(r) == (r.kind = "register" /\ r.at = 3) \/ (r.kind = "withdraw" /\ r.at = 2)
OvertakenOnes ==
    \A a \in Requests : AboutToWrite(runs[a]) /\ registration[runs[a].player] = "removed" =>
                            runs[a].player \in returning

\* The invariant the proofs are by.
RostersInv == TypeOK /\ SeatsAreTakenOnce /\ OnTheWay /\ FieldedLineUpIsKept
RequestsInv == EmptyTeamsAreDue /\ OvertakenOnes

\* A player an organizer has removed is brought back by an organizer only, or
\* by a request of their own that was under way at the removal.
OnlyOrganizersBringBack ==
    [][\A p \in Players :
          registration[p] = "removed" /\ registration'[p] # "removed" =>
              \/ p \in returning
              \/ \E a \in Requests : runs[a].player = p /\ runs[a].kind = "add"]_vars
=============================================================================
