--------------------------- MODULE RostersProofs ---------------------------
(***************************************************************************)
(* Theorems about Rosters, for every set of players, teams and requests    *)
(* and every team size: no seat is taken twice, and the line-up a team has *)
(* entered its matches with stays its members.                             *)
(***************************************************************************)
EXTENDS Rosters, FiniteSetTheorems, TLAPS

\* The programs one by one.
LEMMA Programs ==
    /\ Kinds = {"register", "add", "withdraw", "expel", "create", "open", "join", "leave",
                "delete", "match"}
    /\ Queries["register"] = <<"unregistered", "unbanned", "enroll">>
    /\ Queries["add"] = <<"unregistered", "enroll">>
    /\ Queries["withdraw"] = <<"registered", "withdraw">>
    /\ Queries["expel"] = <<"registered", "expel">>
    /\ Queries["create"] = <<"registered", "insert", "seat">>
    /\ Queries["open"] = <<"insert">>
    /\ Queries["join"] = <<"unplayed", "registered", "seat">>
    /\ Queries["leave"] = <<"unplayed", "editable", "member", "unseat", "count", "drop">>
    /\ Queries["delete"] = <<"editable", "drop">>
    /\ Queries["match"] = <<"size", "otherSize", "field">>
BY DEF Kinds, Queries, RegistrationQueries, MatchQueries

\* Their lengths, and what stands where in them.
LEMMA Listed ==
    /\ Len(Queries["register"]) = 3 /\ Queries["register"][1] = "unregistered" /\ Queries["register"][2] = "unbanned"
       /\ Queries["register"][3] = "enroll"
    /\ Len(Queries["add"]) = 2 /\ Queries["add"][1] = "unregistered" /\ Queries["add"][2] = "enroll"
    /\ Len(Queries["withdraw"]) = 2 /\ Queries["withdraw"][1] = "registered" /\ Queries["withdraw"][2] = "withdraw"
    /\ Len(Queries["expel"]) = 2 /\ Queries["expel"][1] = "registered" /\ Queries["expel"][2] = "expel"
    /\ Len(Queries["create"]) = 3 /\ Queries["create"][1] = "registered" /\ Queries["create"][2] = "insert"
       /\ Queries["create"][3] = "seat"
    /\ Len(Queries["open"]) = 1 /\ Queries["open"][1] = "insert"
    /\ Len(Queries["join"]) = 3 /\ Queries["join"][1] = "unplayed" /\ Queries["join"][2] = "registered"
       /\ Queries["join"][3] = "seat"
    /\ Len(Queries["leave"]) = 6 /\ Queries["leave"][1] = "unplayed" /\ Queries["leave"][2] = "editable"
       /\ Queries["leave"][3] = "member" /\ Queries["leave"][4] = "unseat" /\ Queries["leave"][5] = "count"
       /\ Queries["leave"][6] = "drop"
    /\ Len(Queries["delete"]) = 2 /\ Queries["delete"][1] = "editable" /\ Queries["delete"][2] = "drop"
    /\ Len(Queries["match"]) = 3 /\ Queries["match"][1] = "size" /\ Queries["match"][2] = "otherSize"
       /\ Queries["match"][3] = "field"
<1>1. /\ Len(Queries["register"]) = 3
      /\ Queries["register"][1] = "unregistered"
      /\ Queries["register"][2] = "unbanned"
      /\ Queries["register"][3] = "enroll"
  BY Programs
<1>2. /\ Len(Queries["add"]) = 2
      /\ Queries["add"][1] = "unregistered"
      /\ Queries["add"][2] = "enroll"
  BY Programs
<1>3. /\ Len(Queries["withdraw"]) = 2
      /\ Queries["withdraw"][1] = "registered"
      /\ Queries["withdraw"][2] = "withdraw"
  BY Programs
<1>4. /\ Len(Queries["expel"]) = 2
      /\ Queries["expel"][1] = "registered"
      /\ Queries["expel"][2] = "expel"
  BY Programs
<1>5. /\ Len(Queries["create"]) = 3
      /\ Queries["create"][1] = "registered"
      /\ Queries["create"][2] = "insert"
      /\ Queries["create"][3] = "seat"
  BY Programs
<1>6. /\ Len(Queries["open"]) = 1
      /\ Queries["open"][1] = "insert"
  BY Programs
<1>7. /\ Len(Queries["join"]) = 3
      /\ Queries["join"][1] = "unplayed"
      /\ Queries["join"][2] = "registered"
      /\ Queries["join"][3] = "seat"
  BY Programs
<1>8. /\ Len(Queries["leave"]) = 6
      /\ Queries["leave"][1] = "unplayed"
      /\ Queries["leave"][2] = "editable"
      /\ Queries["leave"][3] = "member"
      /\ Queries["leave"][4] = "unseat"
      /\ Queries["leave"][5] = "count"
      /\ Queries["leave"][6] = "drop"
  BY Programs
<1>9. /\ Len(Queries["delete"]) = 2
      /\ Queries["delete"][1] = "editable"
      /\ Queries["delete"][2] = "drop"
  BY Programs
<1>10. /\ Len(Queries["match"]) = 3
      /\ Queries["match"][1] = "size"
      /\ Queries["match"][2] = "otherSize"
      /\ Queries["match"][3] = "field"
  BY Programs
<1> QED
  BY <1>1, <1>2, <1>3, <1>4, <1>5, <1>6, <1>7, <1>8, <1>9, <1>10

\* Where each query stands in the programs of the requests.
LEMMA Positions ==
    ASSUME NEW r, WellFormed(r)
    PROVE  /\ Len(Queries[r.kind]) \in 1..6
           /\ Query(r) = "insert" => r.kind \in {"create", "open"}
           /\ Query(r) = "seat" => r.kind \in {"create", "join"} /\ r.at = 3
           /\ Query(r) = "unseat" => r.kind = "leave" /\ r.at = 4
           /\ Query(r) = "drop" => r.kind \in {"leave", "delete"}
           /\ Query(r) = "field" => r.kind = "match"
           /\ Query(r) = "unplayed" => r.kind \in {"join", "leave"} /\ r.at = 1
           /\ r.kind \in {"join", "leave"} /\ r.at = 1 => Query(r) = "unplayed"
           /\ Query(r) \in {"enroll", "withdraw", "expel"} => r.kind \in Registering
<1>1. r.kind \in Kinds /\ r.at \in 1..6 /\ r.at <= Len(Queries[r.kind])
  BY DEF WellFormed, Run
<1>2. Query(r) = Queries[r.kind][r.at]
  BY <1>1, Programs DEF Query
<1> HIDE DEF Queries, RegistrationQueries, MatchQueries, Kinds
<1>3. CASE r.kind = "register"
  <2>1. r.at \in 1..3
    BY <1>1, <1>3, Listed
  <2> QED
    BY <1>2, <1>3, <2>1, Listed DEF Registering
<1>4. CASE r.kind = "add"
  <2>1. r.at \in 1..2
    BY <1>1, <1>4, Listed
  <2> QED
    BY <1>2, <1>4, <2>1, Listed DEF Registering
<1>5. CASE r.kind = "withdraw"
  <2>1. r.at \in 1..2
    BY <1>1, <1>5, Listed
  <2> QED
    BY <1>2, <1>5, <2>1, Listed DEF Registering
<1>6. CASE r.kind = "expel"
  <2>1. r.at \in 1..2
    BY <1>1, <1>6, Listed
  <2> QED
    BY <1>2, <1>6, <2>1, Listed DEF Registering
<1>7. CASE r.kind = "create"
  <2>1. r.at \in 1..3
    BY <1>1, <1>7, Listed
  <2> QED
    BY <1>2, <1>7, <2>1, Listed DEF Registering
<1>8. CASE r.kind = "open"
  <2>1. r.at \in 1..1
    BY <1>1, <1>8, Listed
  <2> QED
    BY <1>2, <1>8, <2>1, Listed DEF Registering
<1>9. CASE r.kind = "join"
  <2>1. r.at \in 1..3
    BY <1>1, <1>9, Listed
  <2> QED
    BY <1>2, <1>9, <2>1, Listed DEF Registering
<1>10. CASE r.kind = "leave"
  <2>1. r.at \in 1..6
    BY <1>1, <1>10, Listed
  <2> QED
    BY <1>2, <1>10, <2>1, Listed DEF Registering
<1>11. CASE r.kind = "delete"
  <2>1. r.at \in 1..2
    BY <1>1, <1>11, Listed
  <2> QED
    BY <1>2, <1>11, <2>1, Listed DEF Registering
<1>12. CASE r.kind = "match"
  <2>1. r.at \in 1..3
    BY <1>1, <1>12, Listed
  <2> QED
    BY <1>2, <1>12, <2>1, Listed DEF Registering
<1> QED
  BY <1>1, <1>3, <1>4, <1>5, <1>6, <1>7, <1>8, <1>9, <1>10, <1>11, <1>12, Programs

\* The moments a leaver, and a player who registers or withdraws, go through.
LEMMA Moments ==
    ASSUME NEW r, WellFormed(r)
    PROVE  /\ r.kind = "leave" /\ r.at = 5 => Query(r) = "count" /\ r.at # Len(Queries[r.kind])
           /\ r.kind = "leave" /\ r.at = 6 => Query(r) = "drop"
           /\ Query(r) = "unseat" => r.at # Len(Queries[r.kind])
           /\ Query(r) = "enroll" => r.kind = "add" \/ (r.kind = "register" /\ r.at = 3)
           /\ Query(r) = "withdraw" => r.kind = "withdraw" /\ r.at = 2
           /\ r.kind = "register" /\ r.at = 2 => Query(r) = "unbanned"
           /\ r.kind = "withdraw" /\ r.at = 1 => Query(r) = "registered"
<1>1. r.kind \in Kinds /\ r.at \in 1..6 /\ r.at <= Len(Queries[r.kind])
  BY DEF WellFormed, Run
<1>2. Query(r) = Queries[r.kind][r.at]
  BY <1>1, Programs DEF Query
<1> HIDE DEF Queries, RegistrationQueries, MatchQueries, Kinds
<1>3. CASE r.kind = "register"
  <2>1. r.at \in 1..3
    BY <1>1, <1>3, Listed
  <2> QED
    BY <1>2, <1>3, <2>1, Listed
<1>4. CASE r.kind = "add"
  <2>1. r.at \in 1..2
    BY <1>1, <1>4, Listed
  <2> QED
    BY <1>2, <1>4, <2>1, Listed
<1>5. CASE r.kind = "withdraw"
  <2>1. r.at \in 1..2
    BY <1>1, <1>5, Listed
  <2> QED
    BY <1>2, <1>5, <2>1, Listed
<1>6. CASE r.kind = "expel"
  <2>1. r.at \in 1..2
    BY <1>1, <1>6, Listed
  <2> QED
    BY <1>2, <1>6, <2>1, Listed
<1>7. CASE r.kind = "create"
  <2>1. r.at \in 1..3
    BY <1>1, <1>7, Listed
  <2> QED
    BY <1>2, <1>7, <2>1, Listed
<1>8. CASE r.kind = "open"
  <2>1. r.at \in 1..1
    BY <1>1, <1>8, Listed
  <2> QED
    BY <1>2, <1>8, <2>1, Listed
<1>9. CASE r.kind = "join"
  <2>1. r.at \in 1..3
    BY <1>1, <1>9, Listed
  <2> QED
    BY <1>2, <1>9, <2>1, Listed
<1>10. CASE r.kind = "leave"
  <2>1. r.at \in 1..6
    BY <1>1, <1>10, Listed
  <2> QED
    BY <1>2, <1>10, <2>1, Listed
<1>11. CASE r.kind = "delete"
  <2>1. r.at \in 1..2
    BY <1>1, <1>11, Listed
  <2> QED
    BY <1>2, <1>11, <2>1, Listed
<1>12. CASE r.kind = "match"
  <2>1. r.at \in 1..3
    BY <1>1, <1>12, Listed
  <2> QED
    BY <1>2, <1>12, <2>1, Listed
<1> QED
  BY <1>1, <1>3, <1>4, <1>5, <1>6, <1>7, <1>8, <1>9, <1>10, <1>11, <1>12, Programs

\* A request that goes on stays within its program.
LEMMA OnwardStays ==
    ASSUME NEW r, WellFormed(r)
    PROVE  \/ Onward(r) = Idle
           \/ /\ WellFormed(Onward(r))
              /\ Onward(r).kind = r.kind /\ Onward(r).team = r.team
              /\ Onward(r).at = r.at + 1
<1> DEFINE last == Len(Queries[r.kind])
<1>1. CASE r.at = last
  BY <1>1 DEF Onward
<1>2. CASE r.at # last
  <2>1. last \in 1..6
    BY Positions
  <2>2. r \in Run /\ r.at <= last
    BY DEF WellFormed
  <2>7. r.at \in 1..6
    BY <2>2 DEF Run
  <2>3. Onward(r) = [r EXCEPT !.at = r.at + 1]
    BY <1>2 DEF Onward
  <2>6. r.at + 1 \in 1..6 /\ r.at + 1 <= last
    <3> HIDE DEF last
    <3> QED
      BY <1>2, <2>1, <2>2, <2>7
  <2>4. Onward(r) \in Run /\ Onward(r).at = r.at + 1
    BY <2>2, <2>3, <2>6 DEF Run
  <2>5. /\ Onward(r).kind = r.kind /\ Onward(r).team = r.team
        /\ Onward(r).player = r.player /\ Onward(r).other = r.other
    BY <2>2, <2>3 DEF Run
  <2> QED
    BY <2>4, <2>5, <2>6 DEF WellFormed
<1> QED
  BY <1>1, <1>2
-----------------------------------------------------------------------------
(* The requests under way *)

RequestsOK ==
    /\ runs \in [Requests -> Run \cup {Idle}]
    /\ \A a \in Requests : runs[a] = Idle \/ WellFormed(runs[a])

\* A request at one of its queries is not idle.
LEMMA Busy ==
    ASSUME RequestsOK, NEW a \in Requests, Query(runs[a]) # "none"
    PROVE  WellFormed(runs[a]) /\ runs[a] \in Run
BY DEF RequestsOK, WellFormed, Query, Idle

\* Idle requests have looked at nothing.
LEMMA IdleIsNotPast == ~PastTheLook(Idle)
BY DEF PastTheLook, Idle

\* A request that ends.
LEMMA StopKeeps ==
    ASSUME RequestsOK, OnTheWay, NEW a \in Requests, Stop(a), UNCHANGED <<fielded, loose>>
    PROVE  RequestsOK' /\ OnTheWay'
<1>1. runs' = [runs EXCEPT ![a] = Idle]
  BY DEF Stop
<1>2. RequestsOK'
  BY <1>1 DEF RequestsOK
<1>3. ASSUME NEW b \in Requests, PastTheLook(runs'[b])
      PROVE  runs'[b].team \notin fielded' \ loose'
  <2>1. b # a
    BY <1>1, <1>3, IdleIsNotPast DEF RequestsOK
  <2>2. runs'[b] = runs[b]
    BY <1>1, <2>1 DEF RequestsOK
  <2> QED
    BY <1>3, <2>2 DEF OnTheWay
<1> QED
  BY <1>2, <1>3 DEF OnTheWay

\* A request that goes on: the only look it may have passed is "unplayed".
LEMMA ContinueKeeps ==
    ASSUME RequestsOK, OnTheWay, NEW a \in Requests, Query(runs[a]) # "none", Continue(a),
           UNCHANGED <<fielded, loose>>,
           Query(runs[a]) = "unplayed" => runs[a].team \notin fielded
    PROVE  RequestsOK' /\ OnTheWay'
<1> DEFINE r == runs[a]
<1>1. WellFormed(r) /\ r \in Run
  BY Busy
<1>2. \/ Onward(r) = Idle
      \/ /\ WellFormed(Onward(r))
         /\ Onward(r).kind = r.kind /\ Onward(r).team = r.team
         /\ Onward(r).at = r.at + 1
  BY <1>1, OnwardStays
<1>3. runs' = [runs EXCEPT ![a] = Onward(r)]
  BY DEF Continue
<1>4. Onward(r) \in Run \cup {Idle}
  BY <1>2 DEF WellFormed
<1> HIDE DEF r
<1>5. RequestsOK'
  BY <1>2, <1>3, <1>4 DEF RequestsOK
<1>6. PastTheLook(Onward(r)) => r.team \notin fielded \ loose
  <2>1. SUFFICES ASSUME PastTheLook(Onward(r)) PROVE r.team \notin fielded \ loose
    OBVIOUS
  <2>2. Onward(r).kind = r.kind /\ Onward(r).at = r.at + 1
    BY <1>2, <2>1, IdleIsNotPast
  <2>3. r.at \in 1..6
    BY <1>1 DEF Run
  <2>4. CASE PastTheLook(r)
    BY <2>4 DEF OnTheWay, r
  <2>5. CASE r.kind \in {"join", "leave"} /\ r.at = 1
    <3>1. Query(r) = "unplayed"
      BY <1>1, <2>5, Positions
    <3> QED
      BY <3>1 DEF r
  <2> QED
    BY <2>1, <2>2, <2>3, <2>4, <2>5 DEF PastTheLook
<1>7. ASSUME NEW b \in Requests, PastTheLook(runs'[b])
      PROVE  runs'[b].team \notin fielded' \ loose'
  <2>1. CASE b # a
    <3>1. runs'[b] = runs[b]
      BY <1>3, <2>1 DEF RequestsOK
    <3> QED
      BY <1>7, <3>1 DEF OnTheWay
  <2>2. CASE b = a
    <3>1. runs'[b] = Onward(r)
      BY <1>3, <2>2 DEF RequestsOK
    <3>2. Onward(r).team = r.team
      BY <1>2, <1>7, <3>1, IdleIsNotPast
    <3> QED
      BY <1>6, <1>7, <3>1, <3>2
  <2> QED
    BY <2>1, <2>2
<1> QED
  BY <1>5, <1>7 DEF OnTheWay
-----------------------------------------------------------------------------
(* The rosters *)

RosterDomains ==
    /\ status \in {"draft", "open", "ongoing", "finished"}
    /\ registration \in [Players -> {"none", "active", "withdrawn", "removed"}]
    /\ teams \in [Teams -> {"unused", "existing", "gone"}]
    /\ members \in [Teams -> SUBSET Players]
    /\ entries \in [Teams -> SUBSET Players]
    /\ fielded \subseteq Existing
    /\ \A t \in Teams \ Existing : members[t] = {}
    /\ \A t \in Teams \ fielded : entries[t] = {}
    /\ manned \subseteq {t \in Teams : teams[t] # "unused"}
    /\ loose \subseteq fielded /\ returning \subseteq Players
    /\ received \in 0..MaxRequests

LEMMA Parts ==
    RostersInv => RosterDomains /\ RequestsOK /\ SeatsAreTakenOnce /\ OnTheWay /\ FieldedLineUpIsKept
BY DEF RostersInv, TypeOK, RosterDomains, RequestsOK

LEMMA Whole ==
    ASSUME RosterDomains', RequestsOK', SeatsAreTakenOnce', OnTheWay', FieldedLineUpIsKept'
    PROVE  RostersInv'
BY DEF RostersInv, TypeOK, RosterDomains, RequestsOK

\* Members and line-ups that do not move keep what is said of them.
LEMMA SameTeams ==
    ASSUME SeatsAreTakenOnce, FieldedLineUpIsKept,
           UNCHANGED <<teams, members, entries, fielded, loose>>
    PROVE  SeatsAreTakenOnce' /\ FieldedLineUpIsKept'
BY DEF SeatsAreTakenOnce, FieldedLineUpIsKept, Existing

\* A set of players has a size.
LEMMA Sized ==
    ASSUME NEW S, S \subseteq Players
    PROVE  IsFiniteSet(S) /\ Cardinality(S) \in Nat
BY RostersAssumption, FS_Subset, FS_CardinalityType

LEMMA ReceiveKeeps ==
    ASSUME RostersInv, NEW a \in Requests, NEW k \in Kinds, NEW p \in Players \cup {None},
           NEW t \in Teams \cup {None}, NEW u \in Teams \cup {None}, Receive(a, k, p, t, u)
    PROVE  RostersInv'
<1> DEFINE r == [kind |-> k, player |-> p, team |-> t, other |-> u, at |-> 1]
<1>1. /\ runs' = [runs EXCEPT ![a] = r]
      /\ UNCHANGED <<status, registration, teams, members, entries, fielded, manned, loose, returning>>
      /\ Named(k, p, t, u) /\ Accepted(k, t, u)
      /\ received' = received + 1 /\ received < MaxRequests
  BY DEF Receive, rosterVars, historyVars
<1>2. RosterDomains'
  BY <1>1, Parts, RostersAssumption DEF RosterDomains, Existing
<1>3. SeatsAreTakenOnce' /\ FieldedLineUpIsKept'
  BY <1>1, Parts, SameTeams
<1>4. r \in Run
  BY DEF Run
<1>5. 1 <= Len(Queries[k])
  <2>1. k \in {"register", "add", "withdraw", "expel", "create", "open", "join", "leave",
               "delete", "match"}
    BY Programs
  <2> QED
    BY <2>1, Listed
<1>6. WellFormed(r)
  BY <1>1, <1>4, <1>5, Programs DEF WellFormed, Named, Registering
<1>7. PastTheLook(r) => t \notin fielded \ loose
  <2>1. SUFFICES ASSUME k = "create" PROVE t \notin fielded
    BY DEF PastTheLook
  <2>2. teams[t] = "unused"
    BY <1>1, <2>1 DEF Accepted
  <2> QED
    BY <2>2, Parts DEF RosterDomains, Existing
<1>8. r.team = t
  OBVIOUS
<1> HIDE DEF r
<1>9. RequestsOK'
  BY <1>1, <1>4, <1>6, Parts DEF RequestsOK
<1>10. ASSUME NEW b \in Requests, PastTheLook(runs'[b])
       PROVE  runs'[b].team \notin fielded' \ loose'
  <2>1. CASE b # a
    <3>1. runs'[b] = runs[b]
      BY <1>1, <2>1, Parts DEF RequestsOK
    <3> QED
      BY <1>1, <1>10, <3>1, Parts DEF OnTheWay
  <2>2. CASE b = a
    <3>1. runs'[b] = r
      BY <1>1, <2>2, Parts DEF RequestsOK
    <3> QED
      BY <1>1, <1>7, <1>8, <1>10, <3>1
  <2> QED
    BY <2>1, <2>2
<1>11. OnTheWay'
  BY <1>10 DEF OnTheWay
<1> QED
  BY <1>2, <1>3, <1>9, <1>11, Whole

LEMMA CheckKeeps ==
    ASSUME RostersInv, NEW a \in Requests, Check(a)
    PROVE  RostersInv'
<1>1. /\ Query(runs[a]) \in Checks
      /\ IF Passes(Query(runs[a]), runs[a]) THEN Continue(a) ELSE Stop(a)
      /\ UNCHANGED <<status, registration, teams, members, entries, fielded, manned, loose, returning,
                      received>>
  BY DEF Check, rosterVars, historyVars
<1>2. RosterDomains' /\ SeatsAreTakenOnce' /\ FieldedLineUpIsKept'
  BY <1>1, Parts, SameTeams DEF RosterDomains, Existing
<1>3. RequestsOK' /\ OnTheWay'
  <2>1. CASE Passes(Query(runs[a]), runs[a])
    <3>1. Query(runs[a]) = "unplayed" => runs[a].team \notin fielded
      BY <2>1 DEF Passes, Unplayed
    <3> QED
      BY <1>1, <2>1, <3>1, Parts, ContinueKeeps DEF Checks
  <2>2. CASE ~Passes(Query(runs[a]), runs[a])
    BY <1>1, <2>2, Parts, StopKeeps
  <2> QED
    BY <2>1, <2>2
<1> QED
  BY <1>2, <1>3, Whole

LEMMA SetRegistrationKeeps ==
    ASSUME RostersInv, NEW a \in Requests, NEW st \in {"active", "withdrawn", "removed"},
           Query(runs[a]) \notin {"none", "unplayed"}, SetRegistration(a, st),
           returning' \subseteq Players
    PROVE  RostersInv'
<1>1. /\ registration' = [registration EXCEPT ![runs[a].player] = st]
      /\ Continue(a)
      /\ UNCHANGED <<status, teams, members, entries, fielded, received, manned, loose>>
  BY DEF SetRegistration
<1>2. RosterDomains'
  BY <1>1, Parts DEF RosterDomains, Existing
<1>3. SeatsAreTakenOnce' /\ FieldedLineUpIsKept'
  BY <1>1, Parts, SameTeams
<1>4. RequestsOK' /\ OnTheWay'
  BY <1>1, Parts, ContinueKeeps
<1> QED
  BY <1>2, <1>3, <1>4, Whole

LEMMA EnrollKeeps ==
    ASSUME RostersInv, NEW a \in Requests, Enroll(a)
    PROVE  RostersInv'
BY SetRegistrationKeeps, Parts DEF Enroll, At, RosterDomains

LEMMA WithdrawKeeps ==
    ASSUME RostersInv, NEW a \in Requests, Withdraw(a)
    PROVE  RostersInv'
BY SetRegistrationKeeps, Parts DEF Withdraw, At, RosterDomains

LEMMA ExpelKeeps ==
    ASSUME RostersInv, NEW a \in Requests, Expel(a)
    PROVE  RostersInv'
<1>1. Query(runs[a]) = "expel" /\ SetRegistration(a, "removed")
  BY DEF Expel, At
<1>2. runs[a].player \in Players
  BY <1>1, Parts, Busy, Positions DEF WellFormed
<1>3. returning' \subseteq Players
  BY <1>2, Parts DEF Expel, RosterDomains
<1> QED
  BY <1>1, <1>3, SetRegistrationKeeps
LEMMA InsertKeeps ==
    ASSUME RostersInv, NEW a \in Requests, Insert(a)
    PROVE  RostersInv'
<1> DEFINE t == runs[a].team
<1>1. /\ Query(runs[a]) = "insert" /\ Continue(a)
      /\ teams' = [teams EXCEPT ![t] = "existing"]
      /\ UNCHANGED <<status, registration, members, entries, fielded, manned, loose, returning, received>>
  BY DEF Insert, At, historyVars
<1> HIDE DEF t
<1>2. Existing \subseteq Existing' /\ Existing' \subseteq Existing \cup {t}
  BY <1>1, Parts DEF RosterDomains, Existing
<1>3. RosterDomains'
  BY <1>1, <1>2, Parts DEF RosterDomains, Existing
<1>4. ASSUME NEW s \in Existing', s \notin Existing
      PROVE  members[s] = {} /\ Cardinality(members[s]) <= MaxTeamSize
  <2>1. members[s] = {}
    BY <1>4, Parts DEF RosterDomains, Existing
  <2> QED
    BY <2>1, FS_EmptySet, RostersAssumption
<1>5. SeatsAreTakenOnce'
  BY <1>1, <1>4, Parts DEF SeatsAreTakenOnce
<1>6. FieldedLineUpIsKept'
  BY <1>1, Parts DEF FieldedLineUpIsKept
<1>7. RequestsOK' /\ OnTheWay'
  BY <1>1, Parts, ContinueKeeps
<1> QED
  BY <1>3, <1>5, <1>6, <1>7, Whole

\* The seat is taken after the look at the matches of the team.
LEMMA SeatKeeps ==
    ASSUME RostersInv, NEW a \in Requests, Seat(a)
    PROVE  RostersInv'
<1> DEFINE r == runs[a]
           t == runs[a].team
<1>1. /\ Query(r) = "seat"
      /\ UNCHANGED <<status, registration, teams, entries, fielded, loose, returning, received>>
  BY DEF Seat, At
<1>2. WellFormed(r) /\ r.kind \in {"create", "join"} /\ r.at = 3
  BY <1>1, Parts, Busy, Positions
<1>3. t \in Teams /\ r.player \in Players
  BY <1>2 DEF WellFormed, Registering
<1>4. t \notin fielded \ loose
  BY <1>2, Parts DEF OnTheWay, PastTheLook
<1>5. CASE t \in Existing /\ ~InSomeTeam(r.player, t) /\ ~Full(t)
  <2>1. /\ members' = [members EXCEPT ![t] = members[t] \cup {r.player}]
        /\ manned' = manned \cup {t}
        /\ Continue(a)
    BY <1>5 DEF Seat
  <2>2. RequestsOK' /\ OnTheWay'
    BY <1>1, <2>1, Parts, ContinueKeeps
  <2>3. RosterDomains'
    BY <1>1, <1>3, <1>5, <2>1, Parts DEF RosterDomains, Existing
  <2>4. Cardinality(members[t] \cup {r.player}) <= MaxTeamSize
    <3>1. members[t] \subseteq Players
      BY <1>3, Parts DEF RosterDomains
    <3>2. IsFiniteSet(members[t]) /\ Cardinality(members[t]) \in Nat
      BY <3>1, Sized
    <3>3. r.player \notin members[t]
      BY <1>5 DEF InSomeTeam
    <3>4. Cardinality(members[t] \cup {r.player}) = Cardinality(members[t]) + 1
      BY <3>2, <3>3, FS_AddElement
    <3>5. Cardinality(members[t]) < MaxTeamSize
      BY <1>5, <3>2, RostersAssumption DEF Full
    <3> QED
      BY <3>2, <3>4, <3>5, RostersAssumption
  <2>5. SeatsAreTakenOnce'
    <3>1. Existing' = Existing /\ members \in [Teams -> SUBSET Players]
      BY <1>1, Parts DEF RosterDomains, Existing
    <3>2. ASSUME NEW s \in Existing PROVE Cardinality(members'[s]) <= MaxTeamSize
      BY <1>3, <2>1, <2>4, <3>1, Parts DEF SeatsAreTakenOnce, Existing
    <3>3. ASSUME NEW s \in Existing, NEW w \in Existing, s # w
          PROVE  members'[s] \cap members'[w] = {}
      BY <1>5, <2>1, <3>1, <3>3, Parts DEF SeatsAreTakenOnce, InSomeTeam, Existing
    <3> QED
      BY <3>1, <3>2, <3>3 DEF SeatsAreTakenOnce
  <2>6. FieldedLineUpIsKept'
    BY <1>1, <1>4, <2>1, Parts DEF FieldedLineUpIsKept, RosterDomains, Existing
  <2> QED
    BY <2>2, <2>3, <2>5, <2>6, Whole
<1>6. CASE ~(t \in Existing /\ ~InSomeTeam(r.player, t) /\ ~Full(t))
  <2> DEFINE undo == Deletion(r)
  <2>1. /\ UNCHANGED <<members, manned>>
        /\ runs' = [runs EXCEPT ![a] = IF r.kind = "create" /\ t \in Existing THEN undo ELSE Idle]
    BY <1>6 DEF Seat
  <2>2. RosterDomains' /\ SeatsAreTakenOnce' /\ FieldedLineUpIsKept'
    BY <1>1, <2>1, Parts, SameTeams DEF RosterDomains, Existing
  <2>3. WellFormed(undo) /\ ~PastTheLook(undo)
    <3>1. r \in Run
      BY <1>2 DEF WellFormed
    <3>4. "delete" \in Kinds
      BY Programs
    <3>6. r.player \in Players \cup {None} /\ t \in Teams \cup {None} /\ r.other \in Teams \cup {None}
      BY <3>1 DEF Run
    <3>2. undo \in Run /\ undo.kind = "delete" /\ undo.at = 2 /\ undo.team = t
      BY <3>4, <3>6 DEF Run, Deletion
    <3> HIDE DEF undo
    <3> QED
      BY <1>3, <3>2, Listed DEF WellFormed, Registering, PastTheLook
  <2>4. undo \in Run
    BY <2>3 DEF WellFormed
  <2> HIDE DEF undo
  <2>5. PICK new : runs' = [runs EXCEPT ![a] = new] /\ new \in {undo, Idle}
    BY <2>1
  <2>6. RequestsOK'
    BY <2>3, <2>4, <2>5, Parts DEF RequestsOK
  <2>7. ~PastTheLook(new)
    BY <2>3, <2>5, IdleIsNotPast
  <2>8. ASSUME NEW b \in Requests, PastTheLook(runs'[b])
        PROVE  runs'[b].team \notin fielded' \ loose'
    <3>1. b # a
      BY <2>5, <2>7, <2>8, Parts DEF RequestsOK
    <3>2. runs'[b] = runs[b]
      BY <2>5, <3>1, Parts DEF RequestsOK
    <3> QED
      BY <1>1, <2>8, <3>2, Parts DEF OnTheWay
  <2>9. OnTheWay'
    BY <2>8 DEF OnTheWay
  <2> QED
    BY <2>2, <2>6, <2>9, Whole
<1> QED
  BY <1>5, <1>6

LEMMA UnseatKeeps ==
    ASSUME RostersInv, NEW a \in Requests, Unseat(a)
    PROVE  RostersInv'
<1> DEFINE r == runs[a]
           t == runs[a].team
<1>1. /\ Query(r) = "unseat" /\ Continue(a)
      /\ members' = [members EXCEPT ![t] = members[t] \ {r.player}]
      /\ UNCHANGED <<status, registration, teams, entries, fielded, manned, loose, returning, received>>
  BY DEF Unseat, At, historyVars
<1>2. WellFormed(r) /\ r.kind = "leave" /\ r.at = 4
  BY <1>1, Parts, Busy, Positions
<1>3. t \in Teams /\ t \notin fielded \ loose
  BY <1>2, Parts DEF OnTheWay, PastTheLook, WellFormed, Registering
<1>4. RosterDomains'
  BY <1>1, <1>3, Parts DEF RosterDomains, Existing
<1>5. ASSUME NEW s \in Existing
      PROVE  /\ members'[s] \subseteq members[s]
             /\ Cardinality(members'[s]) <= MaxTeamSize
  <2>1. s \in Teams /\ members[s] \subseteq Players
    BY Parts DEF RosterDomains, Existing
  <2>2. members'[s] \subseteq members[s]
    BY <1>1, <2>1, Parts DEF RosterDomains
  <2>3. IsFiniteSet(members[s]) /\ Cardinality(members[s]) \in Nat
    BY <2>1, Sized
  <2>4. Cardinality(members'[s]) \in Nat
    BY <2>1, <2>2, Sized
  <2>5. Cardinality(members'[s]) <= Cardinality(members[s])
    BY <2>2, <2>3, FS_Subset
  <2>6. Cardinality(members[s]) <= MaxTeamSize
    BY Parts DEF SeatsAreTakenOnce
  <2> QED
    BY <2>2, <2>3, <2>4, <2>5, <2>6, RostersAssumption
<1>6. SeatsAreTakenOnce'
  <2>1. Existing' = Existing
    BY <1>1 DEF Existing
  <2>2. ASSUME NEW s \in Existing, NEW w \in Existing, s # w
        PROVE  members'[s] \cap members'[w] = {}
    <3>1. members[s] \cap members[w] = {}
      BY <2>2, Parts DEF SeatsAreTakenOnce
    <3> QED
      BY <1>5, <3>1
  <2> QED
    BY <1>5, <2>1, <2>2 DEF SeatsAreTakenOnce
<1>7. FieldedLineUpIsKept'
  BY <1>1, <1>3, Parts DEF FieldedLineUpIsKept, RosterDomains, Existing
<1>8. RequestsOK' /\ OnTheWay'
  BY <1>1, Parts, ContinueKeeps
<1> QED
  BY <1>4, <1>6, <1>7, <1>8, Whole

LEMMA DropKeeps ==
    ASSUME RostersInv, NEW a \in Requests, Drop(a)
    PROVE  RostersInv'
<1> DEFINE t == runs[a].team
<1>1. /\ Query(runs[a]) = "drop" /\ Continue(a)
      /\ UNCHANGED <<status, registration, entries, fielded, manned, loose, returning, received>>
  BY DEF Drop, At, historyVars
<1>2. RequestsOK' /\ OnTheWay'
  BY <1>1, Parts, ContinueKeeps
<1>3. CASE t \in Existing \ fielded
  <2>1. /\ teams' = [teams EXCEPT ![t] = "gone"]
        /\ members' = [members EXCEPT ![t] = {}]
    BY <1>3 DEF Drop
  <2>2. Existing' = Existing \ {t}
    BY <1>3, <2>1, Parts DEF RosterDomains, Existing
  <2>3. RosterDomains'
    BY <1>1, <1>3, <2>1, <2>2, Parts DEF RosterDomains, Existing
  <2>4. SeatsAreTakenOnce'
    BY <2>1, <2>2, Parts DEF SeatsAreTakenOnce, RosterDomains, Existing
  <2>5. FieldedLineUpIsKept'
    BY <1>1, <1>3, <2>1, Parts DEF FieldedLineUpIsKept, RosterDomains, Existing
  <2> QED
    BY <1>2, <2>3, <2>4, <2>5, Whole
<1>4. CASE t \notin Existing \ fielded
  <2>1. UNCHANGED <<teams, members>>
    BY <1>4 DEF Drop
  <2>2. RosterDomains' /\ SeatsAreTakenOnce' /\ FieldedLineUpIsKept'
    BY <1>1, <2>1, Parts, SameTeams DEF RosterDomains, Existing
  <2> QED
    BY <1>2, <2>2, Whole
<1> QED
  BY <1>3, <1>4

\* Whoever is at work on a team when it is fielded makes it a loose one.
LEMMA FieldKeeps ==
    ASSUME RostersInv, NEW a \in Requests, Field(a)
    PROVE  RostersInv'
<1> DEFINE r == runs[a]
           sides == {r.team, r.other}
           new == sides \ fielded
<1>1. /\ Query(r) = "field" /\ Continue(a)
      /\ UNCHANGED <<status, registration, teams, members, manned, returning, received>>
  BY DEF Field, At
<1>2. CASE sides \subseteq Existing
  <2>1. /\ entries' = [s \in Teams |-> IF s \in new THEN members[s] ELSE entries[s]]
        /\ fielded' = fielded \cup new
        /\ loose' = loose \cup {s \in new : WorkedOn(s)}
    BY <1>2 DEF Field
  <2>2. new \subseteq Existing /\ Existing' = Existing
    BY <1>1, <1>2 DEF Existing
  <2> HIDE DEF new, sides
  <2>3. RosterDomains'
    BY <1>1, <2>1, <2>2, Parts DEF RosterDomains
  <2>4. SeatsAreTakenOnce'
    BY <1>1, <2>2, Parts DEF SeatsAreTakenOnce
  <2>5. ASSUME NEW s \in fielded' \ loose'
        PROVE  entries'[s] = members'[s]
    <3>1. s \in Teams
      BY <2>1, <2>2, Parts DEF RosterDomains, Existing
    <3>2. CASE s \in new
      BY <1>1, <2>1, <3>1, <3>2
    <3>3. CASE s \notin new
      BY <1>1, <2>1, <2>5, <3>1, <3>3, Parts DEF FieldedLineUpIsKept
    <3> QED
      BY <3>2, <3>3
  <2>6. FieldedLineUpIsKept'
    BY <2>5 DEF FieldedLineUpIsKept
  <2>7. WellFormed(r) /\ r \in Run /\ r.kind = "match"
    BY <1>1, Parts, Busy, Positions
  <2>8. \/ Onward(r) = Idle
        \/ /\ WellFormed(Onward(r))
           /\ Onward(r).kind = "match"
    BY <2>7, OnwardStays
  <2>9. ~PastTheLook(Onward(r)) /\ Onward(r) \in Run \cup {Idle}
    BY <2>8, IdleIsNotPast DEF PastTheLook, WellFormed
  <2>10. runs' = [runs EXCEPT ![a] = Onward(r)]
    BY <1>1 DEF Continue
  <2>11. RequestsOK'
    BY <2>8, <2>9, <2>10, Parts DEF RequestsOK
  <2>12. ASSUME NEW b \in Requests, PastTheLook(runs'[b])
         PROVE  runs'[b].team \notin fielded' \ loose'
    <3>1. b # a
      BY <2>9, <2>10, <2>12, Parts DEF RequestsOK
    <3>2. runs'[b] = runs[b]
      BY <2>10, <3>1, Parts DEF RequestsOK
    <3>3. runs[b].team \notin fielded \ loose
      BY <2>12, <3>2, Parts DEF OnTheWay
    <3>4. runs[b].kind \in TeamWork
      BY <2>12, <3>2 DEF PastTheLook, TeamWork
    <3>5. WorkedOn(runs[b].team)
      BY <3>4 DEF WorkedOn
    <3> QED
      BY <2>1, <3>2, <3>3, <3>5
  <2>13. OnTheWay'
    BY <2>12 DEF OnTheWay
  <2> QED
    BY <2>3, <2>4, <2>6, <2>11, <2>13, Whole
<1>3. CASE ~(sides \subseteq Existing)
  <2>1. UNCHANGED <<entries, fielded, loose>>
    BY <1>3 DEF Field
  <2>2. RosterDomains' /\ SeatsAreTakenOnce' /\ FieldedLineUpIsKept'
    BY <1>1, <2>1, Parts, SameTeams DEF RosterDomains, Existing
  <2>3. RequestsOK' /\ OnTheWay'
    BY <1>1, <2>1, Parts, ContinueKeeps
  <2> QED
    BY <2>2, <2>3, Whole
<1> QED
  BY <1>2, <1>3

LEMMA ChangeStatusKeeps ==
    ASSUME RostersInv, NEW st \in {"draft", "open", "ongoing", "finished"}, ChangeStatus(st)
    PROVE  RostersInv'
<1>1. /\ status' = st
      /\ UNCHANGED <<registration, teams, members, entries, fielded, manned, loose, returning, runs,
                      received>>
  BY DEF ChangeStatus, historyVars
<1>2. RosterDomains'
  BY <1>1, Parts DEF RosterDomains, Existing
<1>3. SeatsAreTakenOnce' /\ FieldedLineUpIsKept'
  BY <1>1, Parts, SameTeams
<1>4. RequestsOK' /\ OnTheWay'
  BY <1>1, Parts DEF RequestsOK, OnTheWay
<1> QED
  BY <1>2, <1>3, <1>4, Whole

LEMMA StutterKeeps ==
    ASSUME RostersInv, UNCHANGED vars
    PROVE  RostersInv'
<1>1. UNCHANGED <<status, registration, teams, members, entries, fielded, manned, loose, returning, runs,
                  received>>
  BY DEF vars, rosterVars, historyVars
<1>2. RosterDomains'
  BY <1>1, Parts DEF RosterDomains, Existing
<1>3. SeatsAreTakenOnce' /\ FieldedLineUpIsKept'
  BY <1>1, Parts, SameTeams
<1>4. RequestsOK' /\ OnTheWay'
  BY <1>1, Parts DEF RequestsOK, OnTheWay
<1> QED
  BY <1>2, <1>3, <1>4, Whole

LEMMA InitKeeps == Init => RostersInv
<1> SUFFICES ASSUME Init PROVE RostersInv
  OBVIOUS
<1>1. PICK formed \in SUBSET Teams :
          /\ teams = [t \in Teams |-> IF t \in formed THEN "existing" ELSE "unused"]
          /\ members \in [Teams -> SUBSET Players]
          /\ \A t \in Teams : members[t] # {} <=> t \in formed
          /\ \A t \in Teams : Cardinality(members[t]) <= MaxTeamSize
          /\ \A t, u \in Teams : t # u => members[t] \cap members[u] = {}
          /\ manned = formed
  BY DEF Init
<1>2. /\ status \in {"draft", "open"} /\ registration = [p \in Players |-> "active"]
      /\ entries = [t \in Teams |-> {}] /\ fielded = {} /\ loose = {} /\ returning = {}
      /\ runs = [a \in Requests |-> Idle] /\ received = 0
  BY DEF Init
<1>3. Existing = formed
  BY <1>1 DEF Existing
<1>4. RosterDomains
  BY <1>1, <1>2, <1>3, RostersAssumption DEF RosterDomains
<1>5. RequestsOK
  BY <1>2 DEF RequestsOK
<1>6. SeatsAreTakenOnce
  BY <1>1, <1>3 DEF SeatsAreTakenOnce
<1>7. OnTheWay /\ FieldedLineUpIsKept
  BY <1>2 DEF OnTheWay, FieldedLineUpIsKept
<1> QED
  BY <1>4, <1>5, <1>6, <1>7 DEF RostersInv, TypeOK, RosterDomains, RequestsOK

LEMMA NextKeeps == RostersInv /\ [Next]_vars => RostersInv'
<1> SUFFICES ASSUME RostersInv, [Next]_vars PROVE RostersInv'
  OBVIOUS
<1>1. CASE \E a \in Requests, k \in Kinds, p \in Players \cup {None},
              t, u \in Teams \cup {None} : Receive(a, k, p, t, u)
  BY <1>1, ReceiveKeeps
<1>2. ASSUME NEW a \in Requests, Step(a) PROVE RostersInv'
  BY <1>2, CheckKeeps, EnrollKeeps, WithdrawKeeps, ExpelKeeps, InsertKeeps, SeatKeeps,
     UnseatKeeps, DropKeeps, FieldKeeps DEF Step
<1>3. CASE \E st \in {"draft", "open", "ongoing", "finished"} : ChangeStatus(st)
  BY <1>3, ChangeStatusKeeps
<1>4. CASE UNCHANGED vars
  BY <1>4, StutterKeeps
<1> QED
  BY <1>1, <1>2, <1>3, <1>4 DEF Next
-----------------------------------------------------------------------------
(* Empty teams *)

\* A request other than the one that moves stays where it is.
LEMMA OthersStay ==
    ASSUME RequestsOK, NEW a \in Requests, NEW b \in Requests, b # a,
           Continue(a) \/ Stop(a) \/ \E x : runs' = [runs EXCEPT ![a] = x]
    PROVE  runs'[b] = runs[b]
BY DEF Continue, Stop, RequestsOK

\* Each step of a request moves that request only.
LEMMA StepMoves ==
    ASSUME NEW a \in Requests, Step(a)
    PROVE  \E x : runs' = [runs EXCEPT ![a] = x]
BY DEF Step, Check, Enroll, Withdraw, Expel, SetRegistration, Insert, Seat, Unseat, Drop, Field,
       Continue, Stop

\* What a step does to the teams: only an unseating empties a team that is
\* still there and has no match, and only an insert brings a new one.
LEMMA StepEmpties ==
    ASSUME RostersInv, NEW a \in Requests, Step(a),
           NEW t \in Existing' \cap manned', members'[t] = {}, t \notin fielded'
    PROVE  \/ Unseat(a) /\ t = runs[a].team
           \/ t \in Existing \cap manned /\ members[t] = {} /\ t \notin fielded
<1> DEFINE r == runs[a]
<1>0. RosterDomains /\ t \in Teams
  BY Parts DEF Existing
<1>1. CASE Check(a) \/ Enroll(a) \/ Withdraw(a) \/ Expel(a)
  BY <1>1 DEF Check, Enroll, Withdraw, Expel, SetRegistration, rosterVars, historyVars, Existing
<1>2. CASE Insert(a)
  <2>1. r.team \notin manned /\ UNCHANGED <<members, fielded, manned>>
    BY <1>0, <1>2 DEF Insert, RosterDomains, historyVars
  <2>2. t # r.team
    BY <2>1
  <2>3. t \in Existing
    BY <1>0, <1>2, <2>2 DEF Insert, RosterDomains, Existing
  <2> QED
    BY <2>1, <2>3
<1>3. CASE Seat(a)
  <2>1. CASE t = r.team /\ manned' = manned \cup {t}
    <3>1. members'[t] # {} \/ manned' = manned
      BY <1>0, <1>3, <2>1 DEF Seat, RosterDomains
    <3> QED
      BY <1>0, <1>3, <2>1, <3>1 DEF Seat, RosterDomains, Existing
  <2>2. CASE ~(t = r.team /\ manned' = manned \cup {t})
    BY <1>0, <1>3, <2>2 DEF Seat, RosterDomains, Existing
  <2> QED
    BY <2>1, <2>2
<1>4. CASE Unseat(a)
  BY <1>0, <1>4 DEF Unseat, RosterDomains, Existing, historyVars
<1>5. CASE Drop(a)
  BY <1>0, <1>5 DEF Drop, RosterDomains, Existing, historyVars
<1>6. CASE Field(a)
  BY <1>0, <1>6 DEF Field, RosterDomains, Existing
<1> QED
  BY <1>1, <1>2, <1>3, <1>4, <1>5, <1>6 DEF Step

LEMMA StepKeepsEmptyTeamsDue ==
    ASSUME RostersInv, EmptyTeamsAreDue, NEW a \in Requests, Step(a)
    PROVE  EmptyTeamsAreDue'
<1> DEFINE r == runs[a]
<1> SUFFICES ASSUME NEW t \in Existing' \cap manned', members'[t] = {}, t \notin fielded'
             PROVE  \E b \in Requests : /\ runs'[b].kind = "leave" /\ runs'[b].at \in {5, 6}
                                        /\ runs'[b].team = t
  BY DEF EmptyTeamsAreDue, LastLeaver
<1>1. CASE Unseat(a) /\ t = r.team
  <2>1. Query(r) = "unseat" /\ Continue(a)
    BY <1>1 DEF Unseat, At
  <2>2. WellFormed(r) /\ r.kind = "leave" /\ r.at = 4 /\ r.at # Len(Queries[r.kind])
    BY <2>1, Parts, Busy, Positions, Moments
  <2>3. runs'[a] = [r EXCEPT !.at = r.at + 1]
    BY <2>1, <2>2, Parts DEF Continue, Onward, RequestsOK
  <2>4. runs'[a].kind = "leave" /\ runs'[a].at = 5 /\ runs'[a].team = t
    BY <1>1, <2>2, <2>3 DEF WellFormed, Run
  <2> QED
    BY <2>4
<1>2. CASE t \in Existing \cap manned /\ members[t] = {} /\ t \notin fielded
  <2>1. PICK b \in Requests : runs[b].kind = "leave" /\ runs[b].at \in {5, 6} /\ runs[b].team = t
    BY <1>2 DEF EmptyTeamsAreDue, LastLeaver
  <2>2. CASE b # a
    <3>1. runs'[b] = runs[b]
      BY <2>2, Parts, StepMoves, OthersStay
    <3> QED
      BY <2>1, <3>1
  <2>3. CASE b = a
    <3>1. WellFormed(r)
      BY <2>1, <2>3, Parts DEF RequestsOK, Idle
    <3>2. CASE r.at = 5
      <4>1. Query(r) = "count" /\ r.at # Len(Queries[r.kind])
        BY <2>1, <2>3, <3>1, <3>2, Moments
      <4>2. Check(a)
        BY <4>1 DEF Step, Enroll, Withdraw, Expel, Insert, Seat, Unseat, Drop, Field, At
      <4>3. Passes("count", r)
        BY <1>2, <2>1, <2>3 DEF Passes
      <4>4. runs'[a] = [r EXCEPT !.at = r.at + 1]
        BY <4>1, <4>2, <4>3, Parts DEF Check, Continue, Onward, RequestsOK
      <4>5. runs'[a].kind = "leave" /\ runs'[a].at = 6 /\ runs'[a].team = t
        BY <2>1, <2>3, <3>1, <3>2, <4>4 DEF WellFormed, Run
      <4> QED
        BY <4>5
    <3>3. CASE r.at = 6
      <4>1. Query(r) = "drop"
        BY <2>1, <2>3, <3>1, <3>3, Moments
      <4>2. Drop(a)
        BY <4>1 DEF Step, Enroll, Withdraw, Expel, Insert, Seat, Unseat, Check, Checks, Field, At
      <4>3. t \notin Existing'
        BY <1>2, <2>1, <2>3, <4>2, Parts DEF Drop, RosterDomains, Existing
      <4> QED
        BY <4>3
    <3> QED
      BY <2>1, <2>3, <3>2, <3>3
  <2> QED
    BY <2>2, <2>3
<1> QED
  BY <1>1, <1>2, StepEmpties
-----------------------------------------------------------------------------
(* Removed players *)

LEMMA StepKeepsOvertaken ==
    ASSUME RostersInv, OvertakenOnes, NEW a \in Requests, Step(a)
    PROVE  OvertakenOnes'
<1> DEFINE r == runs[a]
<1> SUFFICES ASSUME NEW b \in Requests, AboutToWrite(runs'[b]),
                    registration'[runs'[b].player] = "removed"
             PROVE  runs'[b].player \in returning'
  BY DEF OvertakenOnes
<1>1. returning \subseteq returning'
  BY DEF Step, Check, Enroll, Withdraw, Expel, SetRegistration, Insert, Seat, Unseat, Drop, Field,
         historyVars
<1>2. CASE b # a
  <2>1. runs'[b] = runs[b]
    BY <1>2, Parts, StepMoves, OthersStay
  <2>2. CASE registration[runs[b].player] = "removed"
    BY <1>1, <2>1, <2>2 DEF OvertakenOnes
  <2>3. CASE registration[runs[b].player] # "removed"
    <3>3. runs[b].player \in Players
      BY <2>1, Parts DEF RequestsOK, WellFormed, AboutToWrite, Idle, Registering
    <3>4. registration' # registration
      BY <2>1, <2>3
    <3>5. CASE Enroll(a) \/ Withdraw(a)
      BY <2>1, <2>3, <3>3, <3>5, Parts DEF Enroll, Withdraw, SetRegistration, RosterDomains
    <3>6. CASE Expel(a)
      <4>1. runs[b].player = r.player
        BY <2>1, <2>3, <3>3, <3>6, Parts DEF Expel, SetRegistration, RosterDomains
      <4>2. runs[b].kind \in {"register", "withdraw"}
        BY <2>1 DEF AboutToWrite
      <4> QED
        BY <2>1, <3>6, <4>1, <4>2 DEF Expel
    <3> QED
      BY <3>4, <3>5, <3>6 DEF Step, Check, Insert, Seat, Unseat, Drop, Field, rosterVars
  <2> QED
    BY <2>2, <2>3
<1>3. CASE b = a
  <2>1. WellFormed(r) /\ r \in Run /\ Query(r) # "none"
    <3>1. Query(r) # "none"
      BY DEF Step, Check, Checks, Enroll, Withdraw, Expel, Insert, Seat, Unseat, Drop, Field, At
    <3> QED
      BY <3>1, Parts, Busy
  <2>2. runs'[a] \in {Onward(r), Idle, Deletion(r)}
    BY Parts DEF Step, Check, Enroll, Withdraw, Expel, SetRegistration, Insert, Seat, Unseat, Drop, Field,
       Continue, Stop, RequestsOK
  <2>3. runs'[a] # Idle /\ runs'[a] # Deletion(r)
    BY <1>3 DEF AboutToWrite, Idle, Deletion
  <2>4. /\ runs'[a].kind = r.kind /\ runs'[a].at = r.at + 1 /\ r.at \in 1..6
        /\ runs'[a].player = r.player
    BY <2>1, <2>2, <2>3 DEF Onward, Run
  <2>5. \/ r.kind = "register" /\ r.at = 2
        \/ r.kind = "withdraw" /\ r.at = 1
    BY <1>3, <2>4 DEF AboutToWrite
  <2>6. Query(r) = "unbanned" \/ Query(r) = "registered"
    BY <2>1, <2>5, Moments
  <2>7. Check(a) /\ runs'[a] # Idle
    BY <2>3, <2>6 DEF Step, Enroll, Withdraw, Expel, Insert, Seat, Unseat, Drop, Field, At
  <2>8. Passes(Query(r), r)
    BY <2>7, Parts DEF Check, Stop, RequestsOK
  <2>9. registration[r.player] # "removed"
    <3>1. CASE Query(r) = "unbanned"
      BY <2>8, <3>1 DEF Passes, Unbanned
    <3>2. CASE Query(r) = "registered"
      BY <2>8, <3>2 DEF Passes
    <3> QED
      BY <2>6, <3>1, <3>2
  <2> QED
    BY <1>3, <2>4, <2>7, <2>9 DEF Check, rosterVars
<1> QED
  BY <1>2, <1>3

\* A request that has only arrived is no leaver and writes nothing yet.
LEMMA ReceiveKeepsRequests ==
    ASSUME RostersInv, RequestsInv, NEW a \in Requests, NEW k \in Kinds,
           NEW p \in Players \cup {None}, NEW t \in Teams \cup {None},
           NEW u \in Teams \cup {None}, Receive(a, k, p, t, u)
    PROVE  RequestsInv'
<1> DEFINE r == [kind |-> k, player |-> p, team |-> t, other |-> u, at |-> 1]
<1>1. /\ runs' = [runs EXCEPT ![a] = r] /\ runs[a] = Idle
      /\ UNCHANGED <<status, registration, teams, members, entries, fielded, manned, loose, returning>>
  BY DEF Receive, rosterVars, historyVars
<1>2. ~AboutToWrite(r)
  BY DEF AboutToWrite
<1> HIDE DEF r
<1>3. \A b \in Requests : b # a => runs'[b] = runs[b]
  BY <1>1, Parts DEF RequestsOK
<1>4. EmptyTeamsAreDue'
  <2> SUFFICES ASSUME NEW s \in Existing' \cap manned', members'[s] = {}, s \notin fielded'
               PROVE  \E b \in Requests : /\ runs'[b].kind = "leave" /\ runs'[b].at \in {5, 6}
                                          /\ runs'[b].team = s
    BY DEF EmptyTeamsAreDue, LastLeaver
  <2>1. s \in Existing \cap manned /\ members[s] = {} /\ s \notin fielded
    BY <1>1 DEF Existing
  <2>2. PICK b \in Requests : runs[b].kind = "leave" /\ runs[b].at \in {5, 6} /\ runs[b].team = s
    BY <2>1 DEF RequestsInv, EmptyTeamsAreDue, LastLeaver
  <2>3. b # a
    BY <1>1, <2>2 DEF Idle
  <2> QED
    BY <1>3, <2>2, <2>3
<1>5. OvertakenOnes'
  <2> SUFFICES ASSUME NEW b \in Requests, AboutToWrite(runs'[b]),
                      registration'[runs'[b].player] = "removed"
               PROVE  runs'[b].player \in returning'
    BY DEF OvertakenOnes
  <2>1. b # a
    BY <1>1, <1>2, Parts DEF RequestsOK
  <2> QED
    BY <1>1, <1>3, <2>1 DEF RequestsInv, OvertakenOnes
<1> QED
  BY <1>4, <1>5 DEF RequestsInv

LEMMA NextKeepsRequests == RostersInv /\ RequestsInv /\ [Next]_vars => RequestsInv'
<1> SUFFICES ASSUME RostersInv, RequestsInv, [Next]_vars PROVE RequestsInv'
  OBVIOUS
<1>1. CASE \E a \in Requests, k \in Kinds, p \in Players \cup {None},
              t, u \in Teams \cup {None} : Receive(a, k, p, t, u)
  BY <1>1, ReceiveKeepsRequests
<1>2. ASSUME NEW a \in Requests, Step(a) PROVE RequestsInv'
  BY <1>2, StepKeepsEmptyTeamsDue, StepKeepsOvertaken DEF RequestsInv
<1>3. CASE \E st \in {"draft", "open", "ongoing", "finished"} : ChangeStatus(st)
  BY <1>3 DEF ChangeStatus, historyVars, RequestsInv, EmptyTeamsAreDue, LastLeaver, OvertakenOnes,
     Existing
<1>4. CASE UNCHANGED vars
  BY <1>4 DEF vars, rosterVars, historyVars, RequestsInv, EmptyTeamsAreDue, LastLeaver, OvertakenOnes,
     Existing
<1> QED
  BY <1>1, <1>2, <1>3, <1>4 DEF Next

LEMMA InitKeepsRequests == Init => RequestsInv
<1> SUFFICES ASSUME Init PROVE RequestsInv
  OBVIOUS
<1>1. \A t \in Existing : members[t] # {}
  BY DEF Init, Existing
<1>2. \A a \in Requests : runs[a] = Idle
  BY DEF Init
<1> QED
  BY <1>1, <1>2 DEF RequestsInv, EmptyTeamsAreDue, OvertakenOnes, AboutToWrite, Idle

\* Only a registration or a withdrawal gives a removed player another status.
LEMMA BroughtBack ==
    ASSUME RostersInv, OvertakenOnes, [Next]_vars, NEW p \in Players,
           registration[p] = "removed", registration'[p] # "removed"
    PROVE  \/ p \in returning
           \/ \E a \in Requests : runs[a].player = p /\ runs[a].kind = "add"
<1>1. PICK a \in Requests : (Enroll(a) \/ Withdraw(a)) /\ runs[a].player = p
  BY Parts DEF Next, vars, rosterVars, Receive, ChangeStatus, Step, Check, Enroll, Withdraw, Expel,
     SetRegistration, Insert, Seat, Unseat, Drop, Field, RosterDomains
<1>2. WellFormed(runs[a])
  BY <1>1, Parts, Busy DEF Enroll, Withdraw, At
<1>3. runs[a].kind = "add" \/ AboutToWrite(runs[a])
  BY <1>1, <1>2, Moments DEF Enroll, Withdraw, At, AboutToWrite
<1> QED
  BY <1>1, <1>3 DEF OvertakenOnes
-----------------------------------------------------------------------------
(* Theorems *)

\* The domains, the seats, the line-ups and the requests on their way, in
\* every reachable state.
THEOREM RostersInvariant == Spec => []RostersInv
<1>1. Init => RostersInv
  BY InitKeeps
<1>2. RostersInv /\ [Next]_vars => RostersInv'
  BY NextKeeps
<1> QED
  BY <1>1, <1>2, PTL DEF Spec

\* The variables keep their domains (addMemberIfAllowed, delete and the other
\* queries of the team and the participant repositories).
THEOREM RostersTypeCorrect == Spec => []TypeOK
<1>1. RostersInv => TypeOK
  BY DEF RostersInv
<1> QED
  BY <1>1, RostersInvariant, PTL

\* However many players join and create teams together, no team gets more
\* members than it has seats, and no player two teams (addMemberIfAllowed).
THEOREM SeatsTakenOnce == Spec => []SeatsAreTakenOnce
<1>1. RostersInv => SeatsAreTakenOnce
  BY DEF RostersInv
<1> QED
  BY <1>1, RostersInvariant, PTL

\* The line-up a team has entered its matches with is its members, but for
\* requests that were on their way when it was entered (hasMatchEntry).
THEOREM LineUpKept == Spec => []FieldedLineUpIsKept
<1>1. RostersInv => FieldedLineUpIsKept
  BY DEF RostersInv
<1> QED
  BY <1>1, RostersInvariant, PTL

LEMMA RequestsInvariant == Spec => []RequestsInv
<1>1. Init => RequestsInv
  BY InitKeepsRequests
<1>2. RostersInv /\ RequestsInv /\ [Next]_vars => RequestsInv'
  BY NextKeepsRequests
<1> QED
  BY <1>1, <1>2, RostersInvariant, PTL DEF Spec

\* However the last members of a team leave it, or the creation of a team
\* fails, nothing is left of a team without members once the requests are
\* over (leaveTeam: removeMember, getMemberCount, delete).
THEOREM NoTeamDeserted == Spec => []NoDesertedTeam
<1>1. RequestsInv => NoDesertedTeam
  BY DEF RequestsInv, EmptyTeamsAreDue, LastLeaver, NoDesertedTeam, Idle
<1> QED
  BY <1>1, RequestsInvariant, PTL

\* Nobody an organizer has removed comes back alone (checkNotRemoved), other
\* than through a request the removal has overtaken.
THEOREM BroughtBackByOrganizers == Spec => OnlyOrganizersBringBack
<1>1. RostersInv /\ RequestsInv /\ [Next]_vars =>
          [\A p \in Players :
              registration[p] = "removed" /\ registration'[p] # "removed" =>
                  \/ p \in returning
                  \/ \E a \in Requests : runs[a].player = p /\ runs[a].kind = "add"]_vars
  BY BroughtBack DEF RequestsInv
<1> QED
  BY <1>1, RostersInvariant, RequestsInvariant, PTL DEF Spec, OnlyOrganizersBringBack
=============================================================================
