-------------------------- MODULE MatchRaceProofs --------------------------
(***************************************************************************)
(* Proofs about MatchRace for any number of matches, requests under way    *)
(* and requests received: the two verdicts a race of handlers might miss,  *)
(* and the two ways a late write might go unnoticed.                       *)
(***************************************************************************)
EXTENDS MatchRace, TLAPS

\* What two runs of one request have in common, whatever it has read meanwhile.
SameHandler(r, q) ==
    r.kind = q.kind /\ r.by = q.by /\ r.match = q.match

\* An idle actor is at no query, and is typed like any other.
LEMMA IdleFacts ==
    Idle \in RunRecords /\ Idle.at = "over" /\ Idle.kind = "idle"
<1>1. (CHOOSE m \in Matches : TRUE) \in Matches
  BY RaceAssumption
<1> QED
  BY <1>1 DEF Idle, RunRecords, Players, Steps

\* Continue moves one actor to its next query and leaves the others alone.
LEMMA ContinueFacts ==
    ASSUME TypeOK, NEW a \in Actors, NEW at \in Steps, Continue(a, at)
    PROVE  /\ runs' \in [Actors -> RunRecords]
           /\ \A b \in Actors \ {a} : runs'[b] = runs[b]
           /\ at = "over" => runs'[a] = Idle
           /\ at # "over" => /\ SameHandler(runs'[a], runs[a])
                             /\ runs'[a].at = at
                             /\ runs'[a].missed = runs[a].missed
<1>1. runs \in [Actors -> RunRecords]
  BY DEF TypeOK
<1>2. Goes(a, at) \in RunRecords
  BY <1>1, IdleFacts DEF Goes, RunRecords
<1>3. runs' = [runs EXCEPT ![a] = Goes(a, at)]
  BY DEF Continue
<1>4. at # "over" => /\ SameHandler(Goes(a, at), runs[a])
                     /\ Goes(a, at).at = at
                     /\ Goes(a, at).missed = runs[a].missed
  BY <1>1 DEF Goes, RunRecords, SameHandler
<1>5. at = "over" => Goes(a, at) = Idle
  BY DEF Goes
<1> QED BY <1>1, <1>2, <1>3, <1>4, <1>5

\* Notice does, and the actor has seen what it may have missed.
LEMMA NoticeFacts ==
    ASSUME TypeOK, NEW a \in Actors, NEW at \in Steps, NEW what, Notice(a, at, what)
    PROVE  /\ runs' \in [Actors -> RunRecords]
           /\ \A b \in Actors \ {a} : runs'[b] = runs[b]
           /\ at = "over" => runs'[a] = Idle
           /\ at # "over" => /\ SameHandler(runs'[a], runs[a])
                             /\ runs'[a].at = at
                             /\ runs'[a].missed = runs[a].missed \ what
<1>1. runs \in [Actors -> RunRecords]
  BY DEF TypeOK
<1>2. Reads(a, at, what) \in RunRecords
  BY <1>1, IdleFacts DEF Reads, RunRecords, Players
<1>3. runs' = [runs EXCEPT ![a] = Reads(a, at, what)]
  BY DEF Notice
<1>4. at # "over" => /\ SameHandler(Reads(a, at, what), runs[a])
                     /\ Reads(a, at, what).at = at
                     /\ Reads(a, at, what).missed = runs[a].missed \ what
  BY <1>1 DEF Reads, RunRecords, SameHandler
<1>5. at = "over" => Reads(a, at, what) = Idle
  BY DEF Reads
<1> QED BY <1>1, <1>2, <1>3, <1>4, <1>5

\* Tell does, and the others at work on the match have missed the event.
LEMMA TellFacts ==
    ASSUME TypeOK, NEW a \in Actors, NEW at \in Steps,
           NEW event \in {"contested", "closed"}, Tell(a, at, event)
    PROVE  /\ runs' \in [Actors -> RunRecords]
           /\ \A b \in Actors \ {a} :
                 /\ SameHandler(runs'[b], runs[b])
                 /\ runs'[b].at = runs[b].at /\ runs'[b].author = runs[b].author
                 /\ runs[b].missed \subseteq runs'[b].missed
                 /\ runs[b].at = "over" => runs'[b] = runs[b]
                 /\ Settling(runs[b]) /\ runs[b].match = runs[a].match =>
                       event \in runs'[b].missed
           /\ at = "over" => runs'[a] = Idle
           /\ at # "over" => /\ SameHandler(runs'[a], runs[a])
                             /\ runs'[a].at = at
                             /\ runs'[a].missed = runs[a].missed
<1> DEFINE M == Missing(a, event)
<1>1. runs \in [Actors -> RunRecords]
  BY DEF TypeOK
<1>2. M \in [Actors -> RunRecords]
  BY <1>1 DEF Missing, RunRecords
<1>3. \A b \in Actors \ {a} :
         /\ SameHandler(M[b], runs[b])
         /\ M[b].at = runs[b].at /\ M[b].author = runs[b].author
         /\ runs[b].missed \subseteq M[b].missed
         /\ runs[b].at = "over" => M[b] = runs[b]
         /\ Settling(runs[b]) /\ runs[b].match = runs[a].match => event \in M[b].missed
  BY <1>1 DEF Missing, Settling, RunRecords, SameHandler
<1>4. runs' = [M EXCEPT ![a] = Goes(a, at)]
  BY DEF Tell
<1>5. Goes(a, at) \in RunRecords
  BY <1>1, IdleFacts DEF Goes, RunRecords
<1>6. at # "over" => /\ SameHandler(Goes(a, at), runs[a])
                     /\ Goes(a, at).at = at
                     /\ Goes(a, at).missed = runs[a].missed
  BY <1>1 DEF Goes, RunRecords, SameHandler
<1>7. at = "over" => Goes(a, at) = Idle
  BY DEF Goes
<1>8. /\ runs'[a] = Goes(a, at)
      /\ \A b \in Actors \ {a} : runs'[b] = M[b]
  BY <1>2, <1>4
<1>9. runs' \in [Actors -> RunRecords]
  BY <1>2, <1>4, <1>5
<1> HIDE DEF M
<1> QED BY <1>3, <1>6, <1>7, <1>8, <1>9

\* Who has entered a result goes on to vote: it inserts a row if there is none.
LEMMA LookForVoteInv ==
    ASSUME RaceInv, NEW a \in Actors, LookForVote(a)
    PROVE  RaceInv'
<1> USE RaceAssumption, IdleFacts DEF RaceInv, Players, OpenStatuses, ClosedStatuses, Entries,
       Settling, Counts, Other, matchVars
<1> DEFINE at == IF votes[runs[a].match][runs[a].by] = "none" THEN "insert" ELSE "update"
<1>0. at \in Steps
  BY DEF LookForVote, Steps, TypeOK, QueriesOfKind
<1>1. Continue(a, at)
  BY DEF LookForVote
<1>2. /\ runs' \in [Actors -> RunRecords]
      /\ \A b \in Actors \ {a} : runs'[b] = runs[b]
      /\ at # "over" => /\ SameHandler(runs'[a], runs[a])
                        /\ runs'[a].at = at
                        /\ runs'[a].missed = runs[a].missed
  BY <1>0, <1>1, ContinueFacts
<1>3. TypeOK'
  <2>1. (/\ status \in [Matches -> OpenStatuses \cup ClosedStatuses]
         /\ reportedBy \in [Matches -> Players]
         /\ votes \in [Matches -> [Players -> {"none", "reset", "agree", "contest"}]]
         /\ timer \in [Matches -> {"running", "expired", "none"}])'
    BY DEF LookForVote, TypeOK, QueriesOfKind, VoteOf, RunRecords
  <2>2. (rows \subseteq Matches /\ received \in 0..MaxRequests)'
    BY DEF LookForVote, TypeOK
  <2>3. runs'[Sweep] # Idle => runs'[Sweep].match \notin rows'
    BY <1>2 DEF LookForVote, TypeOK, SameHandler, Actors
  <2> HIDE DEF at
  <2> QED BY <1>2, <2>1, <2>2, <2>3 DEF TypeOK
<1>4. QueriesOfKind'
  BY <1>2 DEF LookForVote, QueriesOfKind, SameHandler
<1>5. CountsAreRecent'
  BY <1>2 DEF LookForVote, CountsAreRecent, Contested
<1>6. OnlyOvertakenHandlersReopen'
  BY <1>2 DEF LookForVote, OnlyOvertakenHandlersReopen
<1>7. VerdictsPending'
  <2>1. \A m \in Matches : m # runs[a].match =>
          status'[m] = status[m] /\ reportedBy'[m] = reportedBy[m] /\ votes'[m] = votes[m]
    BY DEF LookForVote, TypeOK
  <2>2. runs[a].match \in Matches
    BY DEF TypeOK, RunRecords
  <2>3. \A b \in Actors \ {a} : /\ runs'[b].match = runs[b].match
                                /\ WillSettle(runs[b]) => WillSettle(runs[b])'
                                /\ WillDispute(runs[b]) => WillDispute(runs[b])'
    BY <1>2 DEF LookForVote, SameHandler, WillSettle, WillDispute, HasEntered
  <2>4. ASSUME NEW m \in Matches, m = runs[a].match,
               status'[m] = "reported", Agreed(m, reportedBy[m])', ~Contested(m)'
        PROVE  \/ runs'[a].match = m /\ WillSettle(runs[a])'
               \/ /\ status[m] = "reported" /\ Agreed(m, reportedBy[m]) /\ ~Contested(m)
                  /\ ~WillSettle(runs[a])
    BY <1>2, <2>4 DEF LookForVote, QueriesOfKind, SameHandler,
                             WillSettle, HasEntered, Agreed, Contested
  <2>5. ASSUME NEW m \in Matches, m = runs[a].match,
               status'[m] = "reported", Contested(m)'
        PROVE  \/ runs'[a].match = m /\ WillDispute(runs[a])'
               \/ status[m] = "reported" /\ Contested(m) /\ ~WillDispute(runs[a])
    BY <1>2, <2>5 DEF LookForVote, QueriesOfKind, SameHandler,
                             WillDispute, HasEntered, Contested
  <2> HIDE DEF at
  <2> QED BY <2>1, <2>2, <2>3, <2>4, <2>5 DEF VerdictsPending, Agreed, Contested
<1> QED BY <1>3, <1>4, <1>5, <1>6, <1>7

\* Who hits the unique key leaves the verdict to the request that inserted first.
LEMMA InsertFailsInv ==
    ASSUME RaceInv, NEW a \in Actors, InsertFails(a)
    PROVE  RaceInv'
<1> USE RaceAssumption, IdleFacts DEF RaceInv, Players, OpenStatuses, ClosedStatuses, Entries,
       Settling, Counts, Other, matchVars
<1> DEFINE at == "over"
<1>0. at \in Steps
  BY DEF InsertFails, Steps, TypeOK, QueriesOfKind
<1>1. Continue(a, at)
  BY DEF InsertFails
<1>2. /\ runs' \in [Actors -> RunRecords]
      /\ \A b \in Actors \ {a} : runs'[b] = runs[b]
      /\ runs'[a] = Idle
  BY <1>0, <1>1, ContinueFacts
<1>3. TypeOK'
  <2>1. (/\ status \in [Matches -> OpenStatuses \cup ClosedStatuses]
         /\ reportedBy \in [Matches -> Players]
         /\ votes \in [Matches -> [Players -> {"none", "reset", "agree", "contest"}]]
         /\ timer \in [Matches -> {"running", "expired", "none"}])'
    BY DEF InsertFails, TypeOK, QueriesOfKind, VoteOf, RunRecords
  <2>2. (rows \subseteq Matches /\ received \in 0..MaxRequests)'
    BY DEF InsertFails, TypeOK
  <2>3. runs'[Sweep] # Idle => runs'[Sweep].match \notin rows'
    BY <1>2 DEF InsertFails, TypeOK, Actors
  <2> HIDE DEF at
  <2> QED BY <1>2, <2>1, <2>2, <2>3 DEF TypeOK
<1>4. QueriesOfKind'
  BY <1>2 DEF InsertFails, QueriesOfKind
<1>5. CountsAreRecent'
  BY <1>2 DEF InsertFails, CountsAreRecent, Contested
<1>6. OnlyOvertakenHandlersReopen'
  BY <1>2 DEF InsertFails, OnlyOvertakenHandlersReopen
<1>7. VerdictsPending'
  <2>1. \A m \in Matches : m # runs[a].match =>
          status'[m] = status[m] /\ reportedBy'[m] = reportedBy[m] /\ votes'[m] = votes[m]
    BY DEF InsertFails, TypeOK
  <2>2. runs[a].match \in Matches
    BY DEF TypeOK, RunRecords
  <2>3. \A b \in Actors \ {a} : /\ runs'[b].match = runs[b].match
                                /\ WillSettle(runs[b]) => WillSettle(runs[b])'
                                /\ WillDispute(runs[b]) => WillDispute(runs[b])'
    BY <1>2 DEF InsertFails, SameHandler, WillSettle, WillDispute, HasEntered
  <2>4. ASSUME NEW m \in Matches, m = runs[a].match,
               status'[m] = "reported", Agreed(m, reportedBy[m])', ~Contested(m)'
        PROVE  \/ runs'[a].match = m /\ WillSettle(runs[a])'
               \/ /\ status[m] = "reported" /\ Agreed(m, reportedBy[m]) /\ ~Contested(m)
                  /\ ~WillSettle(runs[a])
    BY <2>4 DEF InsertFails, SameHandler,
                             WillSettle, HasEntered, Agreed, Contested
  <2>5. ASSUME NEW m \in Matches, m = runs[a].match,
               status'[m] = "reported", Contested(m)'
        PROVE  \/ runs'[a].match = m /\ WillDispute(runs[a])'
               \/ status[m] = "reported" /\ Contested(m) /\ ~WillDispute(runs[a])
    BY <2>5 DEF InsertFails, SameHandler,
                             WillDispute, HasEntered, Contested
  <2> HIDE DEF at
  <2> QED BY <2>1, <2>2, <2>3, <2>4, <2>5 DEF VerdictsPending, Agreed, Contested
<1> QED BY <1>3, <1>4, <1>5, <1>6, <1>7

\* The entry makes the match reported, by an author whose decision is to come.
LEMMA EnterInv ==
    ASSUME RaceInv, NEW a \in Actors, Enter(a)
    PROVE  RaceInv'
<1> USE RaceAssumption, IdleFacts DEF RaceInv, Players, OpenStatuses, ClosedStatuses, Entries,
       Settling, Counts, Other, matchVars
<1> DEFINE at == AfterEntry(runs[a])
<1>0. at \in Steps
  BY DEF Enter, AfterEntry, Steps, TypeOK, QueriesOfKind
<1>1. Continue(a, at)
  BY DEF Enter, AfterEntry
<1>2. /\ runs' \in [Actors -> RunRecords]
      /\ \A b \in Actors \ {a} : runs'[b] = runs[b]
      /\ at # "over" => /\ SameHandler(runs'[a], runs[a])
                        /\ runs'[a].at = at
                        /\ runs'[a].missed = runs[a].missed
  BY <1>0, <1>1, ContinueFacts
<1>3. TypeOK'
  <2>1. (/\ status \in [Matches -> OpenStatuses \cup ClosedStatuses]
         /\ reportedBy \in [Matches -> Players]
         /\ votes \in [Matches -> [Players -> {"none", "reset", "agree", "contest"}]]
         /\ timer \in [Matches -> {"running", "expired", "none"}])'
    BY DEF Enter, AfterEntry, TypeOK, QueriesOfKind, VoteOf, RunRecords
  <2>2. (rows \subseteq Matches /\ received \in 0..MaxRequests)'
    BY DEF Enter, AfterEntry, TypeOK
  <2>3. runs'[Sweep] # Idle => runs'[Sweep].match \notin rows'
    BY <1>2 DEF Enter, AfterEntry, TypeOK, SameHandler, Actors
  <2> HIDE DEF at
  <2> QED BY <1>2, <2>1, <2>2, <2>3 DEF TypeOK
<1>4. QueriesOfKind'
  BY <1>2 DEF Enter, AfterEntry, QueriesOfKind, SameHandler
<1>5. CountsAreRecent'
  BY <1>2 DEF Enter, AfterEntry, CountsAreRecent, Contested
<1>6. OnlyOvertakenHandlersReopen'
  BY <1>2 DEF Enter, AfterEntry, OnlyOvertakenHandlersReopen
<1>7. VerdictsPending'
  <2>1. \A m \in Matches : m # runs[a].match =>
          status'[m] = status[m] /\ reportedBy'[m] = reportedBy[m] /\ votes'[m] = votes[m]
    BY DEF Enter, AfterEntry, TypeOK
  <2>2. runs[a].match \in Matches
    BY DEF TypeOK, RunRecords
  <2>3. \A b \in Actors \ {a} : /\ runs'[b].match = runs[b].match
                                /\ runs[b].match # runs[a].match =>
                                      /\ WillSettle(runs[b]) => WillSettle(runs[b])'
                                      /\ WillDispute(runs[b]) => WillDispute(runs[b])'
    BY <1>2, <2>1 DEF TypeOK, RunRecords, SameHandler, WillSettle, WillDispute,
                           HasEntered
  <2>4. ASSUME NEW m \in Matches, m = runs[a].match,
               status'[m] = "reported", Agreed(m, reportedBy[m])', ~Contested(m)'
        PROVE  runs'[a].match = m /\ WillSettle(runs[a])'
    BY <1>2, <2>4 DEF Enter, AfterEntry, QueriesOfKind, SameHandler,
                             WillSettle, HasEntered, Agreed, Contested
  <2>5. ASSUME NEW m \in Matches, m = runs[a].match,
               status'[m] = "reported", Contested(m)'
        PROVE  runs'[a].match = m /\ WillDispute(runs[a])'
    BY <1>2, <2>5 DEF Enter, AfterEntry, QueriesOfKind, SameHandler,
                             WillDispute, HasEntered, Contested
  <2> HIDE DEF at
  <2> QED BY <2>1, <2>2, <2>3, <2>4, <2>5 DEF VerdictsPending, Agreed, Contested
<1> QED BY <1>3, <1>4, <1>5, <1>6, <1>7

\* The author looks for votes to drop, its own check still to come.
LEMMA LookForOthersInv ==
    ASSUME RaceInv, NEW a \in Actors, LookForOthers(a)
    PROVE  RaceInv'
<1> USE RaceAssumption, IdleFacts DEF RaceInv, Players, OpenStatuses, ClosedStatuses, Entries,
       Settling, Counts, Other, matchVars
<1> DEFINE at == IF votes[runs[a].match][Other(runs[a].by)] = "none"
                 THEN AfterReset(runs[a]) ELSE "reset"
<1>0. at \in Steps
  BY DEF LookForOthers, AfterReset, AfterReport, Steps, TypeOK, QueriesOfKind
<1>1. Continue(a, at)
  BY DEF LookForOthers, AfterReset
<1>2. /\ runs' \in [Actors -> RunRecords]
      /\ \A b \in Actors \ {a} : runs'[b] = runs[b]
      /\ at # "over" => /\ SameHandler(runs'[a], runs[a])
                        /\ runs'[a].at = at
                        /\ runs'[a].missed = runs[a].missed
  BY <1>0, <1>1, ContinueFacts
<1>3. TypeOK'
  <2>1. (/\ status \in [Matches -> OpenStatuses \cup ClosedStatuses]
         /\ reportedBy \in [Matches -> Players]
         /\ votes \in [Matches -> [Players -> {"none", "reset", "agree", "contest"}]]
         /\ timer \in [Matches -> {"running", "expired", "none"}])'
    BY DEF LookForOthers, AfterReset, TypeOK, QueriesOfKind, VoteOf, RunRecords
  <2>2. (rows \subseteq Matches /\ received \in 0..MaxRequests)'
    BY DEF LookForOthers, AfterReset, TypeOK
  <2>3. runs'[Sweep] # Idle => runs'[Sweep].match \notin rows'
    BY <1>2 DEF LookForOthers, AfterReset, AfterReport, TypeOK, SameHandler,
                 Actors
  <2> HIDE DEF at
  <2> QED BY <1>2, <2>1, <2>2, <2>3 DEF TypeOK
<1>4. QueriesOfKind'
  BY <1>2 DEF LookForOthers, AfterReset, AfterReport, QueriesOfKind, SameHandler
<1>5. CountsAreRecent'
  BY <1>2 DEF LookForOthers, AfterReset, AfterReport, CountsAreRecent, SameHandler,
     Contested
<1>6. OnlyOvertakenHandlersReopen'
  BY <1>2 DEF LookForOthers, AfterReset, AfterReport, OnlyOvertakenHandlersReopen
<1>7. VerdictsPending'
  <2>1. \A m \in Matches : m # runs[a].match =>
          status'[m] = status[m] /\ reportedBy'[m] = reportedBy[m] /\ votes'[m] = votes[m]
    BY DEF LookForOthers, AfterReset, TypeOK
  <2>2. runs[a].match \in Matches
    BY DEF TypeOK, RunRecords
  <2>3. \A b \in Actors \ {a} : /\ runs'[b].match = runs[b].match
                                /\ WillSettle(runs[b]) => WillSettle(runs[b])'
                                /\ WillDispute(runs[b]) => WillDispute(runs[b])'
    BY <1>2 DEF LookForOthers, SameHandler, WillSettle, WillDispute, HasEntered
  <2>4. ASSUME NEW m \in Matches, m = runs[a].match,
               status'[m] = "reported", Agreed(m, reportedBy[m])', ~Contested(m)'
        PROVE  \/ runs'[a].match = m /\ WillSettle(runs[a])'
               \/ /\ status[m] = "reported" /\ Agreed(m, reportedBy[m]) /\ ~Contested(m)
                  /\ ~WillSettle(runs[a])
    BY <1>2, <2>4 DEF LookForOthers, AfterReset, AfterReport, SameHandler,
                             WillSettle, HasEntered, Agreed, Contested
  <2>5. ASSUME NEW m \in Matches, m = runs[a].match,
               status'[m] = "reported", Contested(m)'
        PROVE  \/ runs'[a].match = m /\ WillDispute(runs[a])'
               \/ status[m] = "reported" /\ Contested(m) /\ ~WillDispute(runs[a])
    BY <1>2, <2>5 DEF LookForOthers, AfterReset, AfterReport, SameHandler,
                             WillDispute, HasEntered, Contested
  <2> HIDE DEF at
  <2> QED BY <2>1, <2>2, <2>3, <2>4, <2>5 DEF VerdictsPending, Agreed, Contested
<1> QED BY <1>3, <1>4, <1>5, <1>6, <1>7

\* Dropping the other vote undoes an agreement and a contestation alike.
LEMMA ResetOthersInv ==
    ASSUME RaceInv, NEW a \in Actors, ResetOthers(a)
    PROVE  RaceInv'
<1> USE RaceAssumption, IdleFacts DEF RaceInv, Players, OpenStatuses, ClosedStatuses, Entries,
       Settling, Counts, Other, matchVars
<1> DEFINE at == AfterReset(runs[a])
<1>0. at \in Steps
  BY DEF ResetOthers, AfterReset, AfterReport, Steps, TypeOK, QueriesOfKind
<1>1. Continue(a, at)
  BY DEF ResetOthers, AfterReset
<1>2. /\ runs' \in [Actors -> RunRecords]
      /\ \A b \in Actors \ {a} : runs'[b] = runs[b]
      /\ at # "over" => /\ SameHandler(runs'[a], runs[a])
                        /\ runs'[a].at = at
                        /\ runs'[a].missed = runs[a].missed
  BY <1>0, <1>1, ContinueFacts
<1>3. TypeOK'
  <2>1. (/\ status \in [Matches -> OpenStatuses \cup ClosedStatuses]
         /\ reportedBy \in [Matches -> Players]
         /\ votes \in [Matches -> [Players -> {"none", "reset", "agree", "contest"}]]
         /\ timer \in [Matches -> {"running", "expired", "none"}])'
    BY DEF ResetOthers, AfterReset, TypeOK, QueriesOfKind, VoteOf, RunRecords
  <2>2. (rows \subseteq Matches /\ received \in 0..MaxRequests)'
    BY DEF ResetOthers, AfterReset, TypeOK
  <2>3. runs'[Sweep] # Idle => runs'[Sweep].match \notin rows'
    BY <1>2 DEF ResetOthers, AfterReset, AfterReport, TypeOK, SameHandler,
                 Actors
  <2> HIDE DEF at
  <2> QED BY <1>2, <2>1, <2>2, <2>3 DEF TypeOK
<1>4. QueriesOfKind'
  BY <1>2 DEF ResetOthers, AfterReset, AfterReport, QueriesOfKind, SameHandler
<1>5. CountsAreRecent'
  BY <1>2 DEF ResetOthers, AfterReset, AfterReport, CountsAreRecent, SameHandler,
     Contested
<1>6. OnlyOvertakenHandlersReopen'
  BY <1>2 DEF ResetOthers, AfterReset, AfterReport, OnlyOvertakenHandlersReopen
<1>7. VerdictsPending'
  <2>1. \A m \in Matches : m # runs[a].match =>
          status'[m] = status[m] /\ reportedBy'[m] = reportedBy[m] /\ votes'[m] = votes[m]
    BY DEF ResetOthers, AfterReset, TypeOK
  <2>2. runs[a].match \in Matches
    BY DEF TypeOK, RunRecords
  <2>3. \A b \in Actors \ {a} : /\ runs'[b].match = runs[b].match
                                /\ runs[b].match # runs[a].match =>
                                      /\ WillSettle(runs[b]) => WillSettle(runs[b])'
                                      /\ WillDispute(runs[b]) => WillDispute(runs[b])'
    BY <1>2, <2>1 DEF TypeOK, RunRecords, SameHandler, WillSettle, WillDispute,
                           HasEntered
  <2>4. ASSUME NEW m \in Matches, m = runs[a].match,
               status'[m] = "reported", Agreed(m, reportedBy[m])', ~Contested(m)'
        PROVE  runs'[a].match = m /\ WillSettle(runs[a])'
    BY <1>2, <2>4 DEF ResetOthers, AfterReset, AfterReport, SameHandler,
                             WillSettle, HasEntered, Agreed, Contested
  <2>5. ASSUME NEW m \in Matches, m = runs[a].match,
               status'[m] = "reported", Contested(m)'
        PROVE  runs'[a].match = m /\ WillDispute(runs[a])'
    BY <1>2, <2>5 DEF ResetOthers, AfterReset, AfterReport, SameHandler,
                             WillDispute, HasEntered, Contested
  <2> HIDE DEF at
  <2> QED BY <2>1, <2>2, <2>3, <2>4, <2>5 DEF VerdictsPending, Agreed, Contested
<1> QED BY <1>3, <1>4, <1>5, <1>6, <1>7

\* A dispute is written over any status, and nothing waits for a verdict then.
LEMMA DisputeInv ==
    ASSUME RaceInv, NEW a \in Actors, Dispute(a)
    PROVE  RaceInv'
<1> USE RaceAssumption, IdleFacts DEF RaceInv, Players, OpenStatuses, ClosedStatuses, Entries,
       Settling, Counts, Other, matchVars
<1> DEFINE at == "over"
<1>0. at \in Steps
  BY DEF Dispute, Steps, TypeOK, QueriesOfKind
<1>1. Continue(a, at)
  BY DEF Dispute
<1>2. /\ runs' \in [Actors -> RunRecords]
      /\ \A b \in Actors \ {a} : runs'[b] = runs[b]
      /\ runs'[a] = Idle
  BY <1>0, <1>1, ContinueFacts
<1>3. TypeOK'
  <2>1. (/\ status \in [Matches -> OpenStatuses \cup ClosedStatuses]
         /\ reportedBy \in [Matches -> Players]
         /\ votes \in [Matches -> [Players -> {"none", "reset", "agree", "contest"}]]
         /\ timer \in [Matches -> {"running", "expired", "none"}])'
    BY DEF Dispute, TypeOK, QueriesOfKind, VoteOf, RunRecords
  <2>2. (rows \subseteq Matches /\ received \in 0..MaxRequests)'
    BY DEF Dispute, TypeOK
  <2>3. runs'[Sweep] # Idle => runs'[Sweep].match \notin rows'
    BY <1>2 DEF Dispute, TypeOK, Actors
  <2> HIDE DEF at
  <2> QED BY <1>2, <2>1, <2>2, <2>3 DEF TypeOK
<1>4. QueriesOfKind'
  BY <1>2 DEF Dispute, QueriesOfKind
<1>5. CountsAreRecent'
  BY <1>2 DEF Dispute, CountsAreRecent, Contested
<1>6. OnlyOvertakenHandlersReopen'
  BY <1>2 DEF Dispute, OnlyOvertakenHandlersReopen
<1>7. VerdictsPending'
  <2>1. \A m \in Matches : m # runs[a].match =>
          status'[m] = status[m] /\ reportedBy'[m] = reportedBy[m] /\ votes'[m] = votes[m]
    BY DEF Dispute, TypeOK
  <2>2. runs[a].match \in Matches
    BY DEF TypeOK, RunRecords
  <2>3. \A b \in Actors \ {a} : /\ runs'[b].match = runs[b].match
                                /\ WillSettle(runs[b]) => WillSettle(runs[b])'
                                /\ WillDispute(runs[b]) => WillDispute(runs[b])'
    BY <1>2 DEF Dispute, SameHandler, WillSettle, WillDispute, HasEntered
  <2>4. ASSUME NEW m \in Matches, m = runs[a].match,
               status'[m] = "reported", Agreed(m, reportedBy[m])', ~Contested(m)'
        PROVE  \/ runs'[a].match = m /\ WillSettle(runs[a])'
               \/ /\ status[m] = "reported" /\ Agreed(m, reportedBy[m]) /\ ~Contested(m)
                  /\ ~WillSettle(runs[a])
    BY <2>4 DEF Dispute, SameHandler,
                             WillSettle, HasEntered, Agreed, Contested
  <2>5. ASSUME NEW m \in Matches, m = runs[a].match,
               status'[m] = "reported", Contested(m)'
        PROVE  \/ runs'[a].match = m /\ WillDispute(runs[a])'
               \/ status[m] = "reported" /\ Contested(m) /\ ~WillDispute(runs[a])
    BY <2>5 DEF Dispute, TypeOK, SameHandler,
                             WillDispute, HasEntered, Contested
  <2> HIDE DEF at
  <2> QED BY <2>1, <2>2, <2>3, <2>4, <2>5 DEF VerdictsPending, Agreed, Contested
<1> QED BY <1>3, <1>4, <1>5, <1>6, <1>7

\* An agreement looks for contestations before it withdraws the dispute.
LEMMA LookForContestsInv ==
    ASSUME RaceInv, NEW a \in Actors, LookForContests(a)
    PROVE  RaceInv'
<1> USE RaceAssumption, IdleFacts DEF RaceInv, Players, OpenStatuses, ClosedStatuses, Entries,
       Settling, Counts, Other, matchVars
<1> DEFINE at == IF Contested(runs[a].match) THEN "check" ELSE "withdraw"
<1>0. at \in Steps
  BY DEF LookForContests, Steps, TypeOK, QueriesOfKind
<1>1. Continue(a, at)
  BY DEF LookForContests
<1>2. /\ runs' \in [Actors -> RunRecords]
      /\ \A b \in Actors \ {a} : runs'[b] = runs[b]
      /\ at # "over" => /\ SameHandler(runs'[a], runs[a])
                        /\ runs'[a].at = at
                        /\ runs'[a].missed = runs[a].missed
  BY <1>0, <1>1, ContinueFacts
<1>3. TypeOK'
  <2>1. (/\ status \in [Matches -> OpenStatuses \cup ClosedStatuses]
         /\ reportedBy \in [Matches -> Players]
         /\ votes \in [Matches -> [Players -> {"none", "reset", "agree", "contest"}]]
         /\ timer \in [Matches -> {"running", "expired", "none"}])'
    BY DEF LookForContests, TypeOK, QueriesOfKind, VoteOf, RunRecords
  <2>2. (rows \subseteq Matches /\ received \in 0..MaxRequests)'
    BY DEF LookForContests, TypeOK
  <2>3. runs'[Sweep] # Idle => runs'[Sweep].match \notin rows'
    BY <1>2 DEF LookForContests, TypeOK, SameHandler, Actors
  <2> HIDE DEF at
  <2> QED BY <1>2, <2>1, <2>2, <2>3 DEF TypeOK
<1>4. QueriesOfKind'
  BY <1>2 DEF LookForContests, QueriesOfKind, SameHandler
<1>5. CountsAreRecent'
  BY <1>2 DEF LookForContests, CountsAreRecent, Contested
<1>6. OnlyOvertakenHandlersReopen'
  BY <1>2 DEF LookForContests, OnlyOvertakenHandlersReopen
<1>7. VerdictsPending'
  <2>1. \A m \in Matches : m # runs[a].match =>
          status'[m] = status[m] /\ reportedBy'[m] = reportedBy[m] /\ votes'[m] = votes[m]
    BY DEF LookForContests, TypeOK
  <2>2. runs[a].match \in Matches
    BY DEF TypeOK, RunRecords
  <2>3. \A b \in Actors \ {a} : /\ runs'[b].match = runs[b].match
                                /\ WillSettle(runs[b]) => WillSettle(runs[b])'
                                /\ WillDispute(runs[b]) => WillDispute(runs[b])'
    BY <1>2 DEF LookForContests, SameHandler, WillSettle, WillDispute, HasEntered
  <2>4. ASSUME NEW m \in Matches, m = runs[a].match,
               status'[m] = "reported", Agreed(m, reportedBy[m])', ~Contested(m)'
        PROVE  \/ runs'[a].match = m /\ WillSettle(runs[a])'
               \/ /\ status[m] = "reported" /\ Agreed(m, reportedBy[m]) /\ ~Contested(m)
                  /\ ~WillSettle(runs[a])
    BY <1>2, <2>4 DEF LookForContests, SameHandler,
                             WillSettle, HasEntered, Agreed, Contested
  <2>5. ASSUME NEW m \in Matches, m = runs[a].match,
               status'[m] = "reported", Contested(m)'
        PROVE  \/ runs'[a].match = m /\ WillDispute(runs[a])'
               \/ status[m] = "reported" /\ Contested(m) /\ ~WillDispute(runs[a])
    BY <1>2, <2>5 DEF LookForContests, SameHandler,
                             WillDispute, HasEntered, Contested
  <2> HIDE DEF at
  <2> QED BY <2>1, <2>2, <2>3, <2>4, <2>5 DEF VerdictsPending, Agreed, Contested
<1> QED BY <1>3, <1>4, <1>5, <1>6, <1>7

\* The withdrawal makes the match reported, with a check to follow.
LEMMA WithdrawInv ==
    ASSUME RaceInv, NEW a \in Actors, Withdraw(a)
    PROVE  RaceInv'
<1> USE RaceAssumption, IdleFacts DEF RaceInv, Players, OpenStatuses, ClosedStatuses, Entries,
       Settling, Counts, Other, matchVars
<1> DEFINE at == AfterWithdrawal(runs[a])
<1>0. at \in Steps
  BY DEF Withdraw, AfterWithdrawal, Steps, TypeOK, QueriesOfKind
<1>1. Continue(a, at)
  BY DEF Withdraw, AfterWithdrawal
<1>2. /\ runs' \in [Actors -> RunRecords]
      /\ \A b \in Actors \ {a} : runs'[b] = runs[b]
      /\ at # "over" => /\ SameHandler(runs'[a], runs[a])
                        /\ runs'[a].at = at
                        /\ runs'[a].missed = runs[a].missed
  BY <1>0, <1>1, ContinueFacts
<1>3. TypeOK'
  <2>1. (/\ status \in [Matches -> OpenStatuses \cup ClosedStatuses]
         /\ reportedBy \in [Matches -> Players]
         /\ votes \in [Matches -> [Players -> {"none", "reset", "agree", "contest"}]]
         /\ timer \in [Matches -> {"running", "expired", "none"}])'
    BY DEF Withdraw, AfterWithdrawal, TypeOK, QueriesOfKind, VoteOf, RunRecords
  <2>2. (rows \subseteq Matches /\ received \in 0..MaxRequests)'
    BY DEF Withdraw, AfterWithdrawal, TypeOK
  <2>3. runs'[Sweep] # Idle => runs'[Sweep].match \notin rows'
    BY <1>2 DEF Withdraw, AfterWithdrawal, TypeOK, SameHandler, Actors
  <2> HIDE DEF at
  <2> QED BY <1>2, <2>1, <2>2, <2>3 DEF TypeOK
<1>4. QueriesOfKind'
  BY <1>2 DEF Withdraw, AfterWithdrawal, QueriesOfKind, SameHandler
<1>5. CountsAreRecent'
  BY <1>2 DEF Withdraw, AfterWithdrawal, CountsAreRecent, Contested
<1>6. OnlyOvertakenHandlersReopen'
  BY <1>2 DEF Withdraw, AfterWithdrawal, OnlyOvertakenHandlersReopen
<1>7. VerdictsPending'
  <2>1. \A m \in Matches : m # runs[a].match =>
          status'[m] = status[m] /\ reportedBy'[m] = reportedBy[m] /\ votes'[m] = votes[m]
    BY DEF Withdraw, AfterWithdrawal, TypeOK
  <2>2. runs[a].match \in Matches
    BY DEF TypeOK, RunRecords
  <2>3. \A b \in Actors \ {a} : /\ runs'[b].match = runs[b].match
                                /\ WillSettle(runs[b]) => WillSettle(runs[b])'
                                /\ WillDispute(runs[b]) => WillDispute(runs[b])'
    BY <1>2 DEF Withdraw, SameHandler, WillSettle, WillDispute, HasEntered
  <2>4. ASSUME NEW m \in Matches, m = runs[a].match,
               status'[m] = "reported", Agreed(m, reportedBy[m])', ~Contested(m)'
        PROVE  \/ runs'[a].match = m /\ WillSettle(runs[a])'
               \/ /\ status[m] = "reported" /\ Agreed(m, reportedBy[m]) /\ ~Contested(m)
                  /\ ~WillSettle(runs[a])
    BY <1>2, <2>4 DEF Withdraw, AfterWithdrawal, SameHandler,
                             WillSettle, HasEntered, Agreed, Contested
  <2>5. ASSUME NEW m \in Matches, m = runs[a].match,
               status'[m] = "reported", Contested(m)'
        PROVE  \/ runs'[a].match = m /\ WillDispute(runs[a])'
               \/ status[m] = "reported" /\ Contested(m) /\ ~WillDispute(runs[a])
    BY <1>2, <2>5 DEF Withdraw, AfterWithdrawal, SameHandler,
                             WillDispute, HasEntered, Contested
  <2> HIDE DEF at
  <2> QED BY <2>1, <2>2, <2>3, <2>4, <2>5 DEF VerdictsPending, Agreed, Contested
<1> QED BY <1>3, <1>4, <1>5, <1>6, <1>7

\* A check goes on to the votes as long as the match is reported.
LEMMA CheckStatusInv ==
    ASSUME RaceInv, NEW a \in Actors, CheckStatus(a)
    PROVE  RaceInv'
<1> USE RaceAssumption, IdleFacts DEF RaceInv, Players, OpenStatuses, ClosedStatuses, Entries,
       Settling, Counts, Other, matchVars
<1> DEFINE at == IF status[runs[a].match] = "reported" THEN "tally" ELSE "over"
<1>0. at \in Steps
  BY DEF CheckStatus, Steps, TypeOK, QueriesOfKind
<1>1. /\ at = "over" => runs' = [runs EXCEPT ![a] = Idle]
      /\ at # "over" => runs' = [runs EXCEPT ![a] =
              [runs[a] EXCEPT !.at = at, !.seen = "none",
                              !.author = reportedBy[runs[a].match]]]
  BY DEF CheckStatus
<1>2. /\ runs' \in [Actors -> RunRecords]
      /\ \A b \in Actors \ {a} : runs'[b] = runs[b]
      /\ at = "over" => runs'[a] = Idle
      /\ at # "over" => /\ SameHandler(runs'[a], runs[a])
                        /\ runs'[a].at = at
                        /\ runs'[a].author = reportedBy[runs[a].match]
                        /\ runs'[a].missed = runs[a].missed
  <2> DEFINE r == [runs[a] EXCEPT !.at = at, !.seen = "none",
                                  !.author = reportedBy[runs[a].match]]
  <2>1. runs \in [Actors -> RunRecords] /\ reportedBy[runs[a].match] \in Players
    BY DEF TypeOK, RunRecords
  <2>2. /\ r \in RunRecords
        /\ SameHandler(r, runs[a])
        /\ r.at = at
        /\ r.author = reportedBy[runs[a].match]
        /\ r.missed = runs[a].missed
    BY <1>0, <2>1 DEF RunRecords, SameHandler
  <2> HIDE DEF at, r
  <2> QED BY <1>1, <2>1, <2>2 DEF r
<1>3. TypeOK'
  <2>1. (/\ status \in [Matches -> OpenStatuses \cup ClosedStatuses]
         /\ reportedBy \in [Matches -> Players]
         /\ votes \in [Matches -> [Players -> {"none", "reset", "agree", "contest"}]]
         /\ timer \in [Matches -> {"running", "expired", "none"}])'
    BY DEF CheckStatus, TypeOK, QueriesOfKind, VoteOf, RunRecords
  <2>2. (rows \subseteq Matches /\ received \in 0..MaxRequests)'
    BY DEF CheckStatus, TypeOK
  <2>3. runs'[Sweep] # Idle => runs'[Sweep].match \notin rows'
    BY <1>2 DEF CheckStatus, TypeOK, SameHandler, Actors
  <2> HIDE DEF at
  <2> QED BY <1>2, <2>1, <2>2, <2>3 DEF TypeOK
<1>4. QueriesOfKind'
  BY <1>2 DEF CheckStatus, QueriesOfKind, SameHandler
<1>5. CountsAreRecent'
  BY <1>2 DEF CheckStatus, CountsAreRecent, Contested
<1>6. OnlyOvertakenHandlersReopen'
  BY <1>2 DEF CheckStatus, OnlyOvertakenHandlersReopen
<1>7. VerdictsPending'
  <2>1. \A m \in Matches : m # runs[a].match =>
          status'[m] = status[m] /\ reportedBy'[m] = reportedBy[m] /\ votes'[m] = votes[m]
    BY DEF CheckStatus, TypeOK
  <2>2. runs[a].match \in Matches
    BY DEF TypeOK, RunRecords
  <2>3. \A b \in Actors \ {a} : /\ runs'[b].match = runs[b].match
                                /\ WillSettle(runs[b]) => WillSettle(runs[b])'
                                /\ WillDispute(runs[b]) => WillDispute(runs[b])'
    BY <1>2 DEF CheckStatus, SameHandler, WillSettle, WillDispute, HasEntered
  <2>4. ASSUME NEW m \in Matches, m = runs[a].match,
               status'[m] = "reported", Agreed(m, reportedBy[m])', ~Contested(m)'
        PROVE  \/ runs'[a].match = m /\ WillSettle(runs[a])'
               \/ /\ status[m] = "reported" /\ Agreed(m, reportedBy[m]) /\ ~Contested(m)
                  /\ ~WillSettle(runs[a])
    BY <1>2, <2>4 DEF CheckStatus, SameHandler,
                             WillSettle, HasEntered, Agreed, Contested
  <2>5. ASSUME NEW m \in Matches, m = runs[a].match,
               status'[m] = "reported", Contested(m)'
        PROVE  \/ runs'[a].match = m /\ WillDispute(runs[a])'
               \/ status[m] = "reported" /\ Contested(m) /\ ~WillDispute(runs[a])
    BY <1>2, <2>5 DEF CheckStatus, SameHandler,
                             WillDispute, HasEntered, Contested
  <2> HIDE DEF at
  <2> QED BY <2>1, <2>2, <2>3, <2>4, <2>5 DEF VerdictsPending, Agreed, Contested
<1> QED BY <1>3, <1>4, <1>5, <1>6, <1>7

\* The count sends the actor where the votes are: to settle or to flag.
LEMMA TallyInv ==
    ASSUME RaceInv, NEW a \in Actors, Tally(a)
    PROVE  RaceInv'
<1> USE RaceAssumption, IdleFacts DEF RaceInv, Players, OpenStatuses, ClosedStatuses, Entries,
       Settling, Counts, Other, matchVars
<1> DEFINE at == Verdict(runs[a].match, runs[a].author)
<1>0. at \in Steps
  BY DEF Tally, Verdict, Steps, TypeOK, QueriesOfKind
<1>1. Notice(a, at, {"contested"})
  BY DEF Tally, Verdict
<1>2. /\ runs' \in [Actors -> RunRecords]
      /\ \A b \in Actors \ {a} : runs'[b] = runs[b]
      /\ at = "over" => runs'[a] = Idle
      /\ at # "over" => /\ SameHandler(runs'[a], runs[a])
                        /\ runs'[a].at = at
                        /\ runs'[a].missed = runs[a].missed \ {"contested"}
  BY <1>0, <1>1, NoticeFacts
<1>3. TypeOK'
  <2>1. (/\ status \in [Matches -> OpenStatuses \cup ClosedStatuses]
         /\ reportedBy \in [Matches -> Players]
         /\ votes \in [Matches -> [Players -> {"none", "reset", "agree", "contest"}]]
         /\ timer \in [Matches -> {"running", "expired", "none"}])'
    BY DEF Tally, Verdict, TypeOK, QueriesOfKind, VoteOf, RunRecords
  <2>2. (rows \subseteq Matches /\ received \in 0..MaxRequests)'
    BY DEF Tally, Verdict, TypeOK
  <2>3. runs'[Sweep] # Idle => runs'[Sweep].match \notin rows'
    BY <1>2 DEF Tally, TypeOK, SameHandler, Actors
  <2> HIDE DEF at
  <2> QED BY <1>2, <2>1, <2>2, <2>3 DEF TypeOK
<1>4. QueriesOfKind'
  BY <1>2 DEF Tally, Verdict, QueriesOfKind, SameHandler
<1>5. CountsAreRecent'
  BY <1>2 DEF Tally, Verdict, CountsAreRecent, SameHandler, Contested
<1>6. OnlyOvertakenHandlersReopen'
  BY <1>2 DEF Tally, Verdict, OnlyOvertakenHandlersReopen
<1>7. VerdictsPending'
  <2>1. \A m \in Matches : m # runs[a].match =>
          status'[m] = status[m] /\ reportedBy'[m] = reportedBy[m] /\ votes'[m] = votes[m]
    BY DEF Tally, Verdict, TypeOK
  <2>2. runs[a].match \in Matches
    BY DEF TypeOK, RunRecords
  <2>3. \A b \in Actors \ {a} : /\ runs'[b].match = runs[b].match
                                /\ WillSettle(runs[b]) => WillSettle(runs[b])'
                                /\ WillDispute(runs[b]) => WillDispute(runs[b])'
    BY <1>2 DEF Tally, SameHandler, WillSettle, WillDispute, HasEntered
  <2>4. ASSUME NEW m \in Matches, m = runs[a].match,
               status'[m] = "reported", Agreed(m, reportedBy[m])', ~Contested(m)'
        PROVE  \/ runs'[a].match = m /\ WillSettle(runs[a])'
               \/ /\ status[m] = "reported" /\ Agreed(m, reportedBy[m]) /\ ~Contested(m)
                  /\ ~WillSettle(runs[a])
    BY <1>2, <2>4 DEF Tally, Verdict, SameHandler,
                             WillSettle, HasEntered, Agreed, Contested
  <2>5. ASSUME NEW m \in Matches, m = runs[a].match,
               status'[m] = "reported", Contested(m)'
        PROVE  \/ runs'[a].match = m /\ WillDispute(runs[a])'
               \/ status[m] = "reported" /\ Contested(m) /\ ~WillDispute(runs[a])
    BY <1>2, <2>5 DEF Tally, Verdict, SameHandler,
                             WillDispute, HasEntered, Contested
  <2> HIDE DEF at
  <2> QED BY <2>1, <2>2, <2>3, <2>4, <2>5 DEF VerdictsPending, Agreed, Contested
<1> QED BY <1>3, <1>4, <1>5, <1>6, <1>7

\* A flagged match is no longer reported.
LEMMA FlagInv ==
    ASSUME RaceInv, NEW a \in Actors, Flag(a)
    PROVE  RaceInv'
<1> USE RaceAssumption, IdleFacts DEF RaceInv, Players, OpenStatuses, ClosedStatuses, Entries,
       Settling, Counts, Other, matchVars
<1> DEFINE at == "over"
<1>0. at \in Steps
  BY DEF Flag, Steps, TypeOK, QueriesOfKind
<1>1. Continue(a, at)
  BY DEF Flag
<1>2. /\ runs' \in [Actors -> RunRecords]
      /\ \A b \in Actors \ {a} : runs'[b] = runs[b]
      /\ runs'[a] = Idle
  BY <1>0, <1>1, ContinueFacts
<1>3. TypeOK'
  <2>1. (/\ status \in [Matches -> OpenStatuses \cup ClosedStatuses]
         /\ reportedBy \in [Matches -> Players]
         /\ votes \in [Matches -> [Players -> {"none", "reset", "agree", "contest"}]]
         /\ timer \in [Matches -> {"running", "expired", "none"}])'
    BY DEF Flag, TypeOK, QueriesOfKind, VoteOf, RunRecords
  <2>2. (rows \subseteq Matches /\ received \in 0..MaxRequests)'
    BY DEF Flag, TypeOK
  <2>3. runs'[Sweep] # Idle => runs'[Sweep].match \notin rows'
    BY <1>2 DEF Flag, TypeOK, Actors
  <2> HIDE DEF at
  <2> QED BY <1>2, <2>1, <2>2, <2>3 DEF TypeOK
<1>4. QueriesOfKind'
  BY <1>2 DEF Flag, QueriesOfKind
<1>5. CountsAreRecent'
  BY <1>2 DEF Flag, CountsAreRecent, Contested
<1>6. OnlyOvertakenHandlersReopen'
  BY <1>2 DEF Flag, OnlyOvertakenHandlersReopen
<1>7. VerdictsPending'
  <2>1. \A m \in Matches : m # runs[a].match =>
          status'[m] = status[m] /\ reportedBy'[m] = reportedBy[m] /\ votes'[m] = votes[m]
    BY DEF Flag, TypeOK
  <2>2. runs[a].match \in Matches
    BY DEF TypeOK, RunRecords
  <2>3. \A b \in Actors \ {a} : /\ runs'[b].match = runs[b].match
                                /\ WillSettle(runs[b]) => WillSettle(runs[b])'
                                /\ WillDispute(runs[b]) => WillDispute(runs[b])'
    BY <1>2 DEF Flag, SameHandler, WillSettle, WillDispute, HasEntered
  <2>4. ASSUME NEW m \in Matches, m = runs[a].match,
               status'[m] = "reported", Agreed(m, reportedBy[m])', ~Contested(m)'
        PROVE  \/ runs'[a].match = m /\ WillSettle(runs[a])'
               \/ /\ status[m] = "reported" /\ Agreed(m, reportedBy[m]) /\ ~Contested(m)
                  /\ ~WillSettle(runs[a])
    BY <2>4 DEF Flag, SameHandler,
                             WillSettle, HasEntered, Agreed, Contested
  <2>5. ASSUME NEW m \in Matches, m = runs[a].match,
               status'[m] = "reported", Contested(m)'
        PROVE  \/ runs'[a].match = m /\ WillDispute(runs[a])'
               \/ status[m] = "reported" /\ Contested(m) /\ ~WillDispute(runs[a])
    BY <2>5 DEF Flag, TypeOK, SameHandler,
                             WillDispute, HasEntered, Contested
  <2> HIDE DEF at
  <2> QED BY <2>1, <2>2, <2>3, <2>4, <2>5 DEF VerdictsPending, Agreed, Contested
<1> QED BY <1>3, <1>4, <1>5, <1>6, <1>7

\* The second read of the status finds the match open, or gives up.
LEMMA ReadBeforeFinalizingInv ==
    ASSUME RaceInv, NEW a \in Actors, ReadBeforeFinalizing(a)
    PROVE  RaceInv'
<1> USE RaceAssumption, IdleFacts DEF RaceInv, Players, OpenStatuses, ClosedStatuses, Entries,
       Settling, Counts, Other, matchVars
<1> DEFINE at == IF CanFinalize(status[runs[a].match]) THEN "finalize" ELSE "over"
<1>0. at \in Steps
  BY DEF ReadBeforeFinalizing, AfterThrow, CanFinalize, Steps, TypeOK, QueriesOfKind
<1>1. Notice(a, at, {"closed"})
  BY DEF ReadBeforeFinalizing, AfterThrow, CanFinalize
<1>2. /\ runs' \in [Actors -> RunRecords]
      /\ \A b \in Actors \ {a} : runs'[b] = runs[b]
      /\ at = "over" => runs'[a] = Idle
      /\ at # "over" => /\ SameHandler(runs'[a], runs[a])
                        /\ runs'[a].at = at
                        /\ runs'[a].missed = runs[a].missed \ {"closed"}
  BY <1>0, <1>1, NoticeFacts
<1>3. TypeOK'
  <2>1. (/\ status \in [Matches -> OpenStatuses \cup ClosedStatuses]
         /\ reportedBy \in [Matches -> Players]
         /\ votes \in [Matches -> [Players -> {"none", "reset", "agree", "contest"}]]
         /\ timer \in [Matches -> {"running", "expired", "none"}])'
    BY DEF ReadBeforeFinalizing, AfterThrow, CanFinalize, TypeOK, QueriesOfKind, VoteOf,
       RunRecords
  <2>2. (rows \subseteq Matches /\ received \in 0..MaxRequests)'
    BY DEF ReadBeforeFinalizing, AfterThrow, CanFinalize, TypeOK
  <2>3. runs'[Sweep] # Idle => runs'[Sweep].match \notin rows'
    BY <1>2 DEF ReadBeforeFinalizing, AfterThrow, TypeOK, SameHandler, Actors
  <2> HIDE DEF at
  <2> QED BY <1>2, <2>1, <2>2, <2>3 DEF TypeOK
<1>4. QueriesOfKind'
  BY <1>2 DEF ReadBeforeFinalizing, QueriesOfKind, SameHandler
<1>5. CountsAreRecent'
  BY <1>2 DEF ReadBeforeFinalizing, CountsAreRecent, SameHandler, Contested
<1>6. OnlyOvertakenHandlersReopen'
  BY <1>2 DEF ReadBeforeFinalizing, CanFinalize, OnlyOvertakenHandlersReopen, SameHandler
<1>7. VerdictsPending'
  <2>1. \A m \in Matches : m # runs[a].match =>
          status'[m] = status[m] /\ reportedBy'[m] = reportedBy[m] /\ votes'[m] = votes[m]
    BY DEF ReadBeforeFinalizing, AfterThrow, CanFinalize, TypeOK
  <2>2. runs[a].match \in Matches
    BY DEF TypeOK, RunRecords
  <2>3. \A b \in Actors \ {a} : /\ runs'[b].match = runs[b].match
                                /\ WillSettle(runs[b]) => WillSettle(runs[b])'
                                /\ WillDispute(runs[b]) => WillDispute(runs[b])'
    BY <1>2 DEF ReadBeforeFinalizing, SameHandler, WillSettle, WillDispute, HasEntered
  <2>4. ASSUME NEW m \in Matches, m = runs[a].match,
               status'[m] = "reported", Agreed(m, reportedBy[m])', ~Contested(m)'
        PROVE  \/ runs'[a].match = m /\ WillSettle(runs[a])'
               \/ /\ status[m] = "reported" /\ Agreed(m, reportedBy[m]) /\ ~Contested(m)
                  /\ ~WillSettle(runs[a])
    BY <1>2, <2>4 DEF ReadBeforeFinalizing, CanFinalize, SameHandler,
                             WillSettle, HasEntered, Agreed, Contested
  <2>5. ASSUME NEW m \in Matches, m = runs[a].match,
               status'[m] = "reported", Contested(m)'
        PROVE  \/ runs'[a].match = m /\ WillDispute(runs[a])'
               \/ status[m] = "reported" /\ Contested(m) /\ ~WillDispute(runs[a])
    BY <1>2, <2>5 DEF ReadBeforeFinalizing, CanFinalize, SameHandler,
                             WillDispute, HasEntered, Contested
  <2> HIDE DEF at
  <2> QED BY <2>1, <2>2, <2>3, <2>4, <2>5 DEF VerdictsPending, Agreed, Contested
<1> QED BY <1>3, <1>4, <1>5, <1>6, <1>7

\* The others at work on the match have missed that it is closed.
LEMMA FinalizeInv ==
    ASSUME RaceInv, NEW a \in Actors, Finalize(a)
    PROVE  RaceInv'
<1> USE RaceAssumption, IdleFacts DEF RaceInv, Players, OpenStatuses, ClosedStatuses, Entries,
       Settling, Counts, Other, matchVars
<1> DEFINE at == "over"
<1>0. at \in Steps
  BY DEF Finalize, Steps, TypeOK, QueriesOfKind
<1>1. Tell(a, at, "closed")
  BY DEF Finalize
<1>2. /\ runs' \in [Actors -> RunRecords]
      /\ \A b \in Actors \ {a} :
            /\ SameHandler(runs'[b], runs[b])
            /\ runs'[b].at = runs[b].at /\ runs'[b].author = runs[b].author
            /\ runs[b].missed \subseteq runs'[b].missed
            /\ runs[b].at = "over" => runs'[b] = runs[b]
            /\ Settling(runs[b]) /\ runs[b].match = runs[a].match =>
                  "closed" \in runs'[b].missed
      /\ runs'[a] = Idle
  BY <1>0, <1>1, TellFacts
<1>3. TypeOK'
  <2>1. (/\ status \in [Matches -> OpenStatuses \cup ClosedStatuses]
         /\ reportedBy \in [Matches -> Players]
         /\ votes \in [Matches -> [Players -> {"none", "reset", "agree", "contest"}]]
         /\ timer \in [Matches -> {"running", "expired", "none"}])'
    BY DEF Finalize, TypeOK, QueriesOfKind, VoteOf, RunRecords
  <2>2. (rows \subseteq Matches /\ received \in 0..MaxRequests)'
    BY DEF Finalize, TypeOK
  <2>3. runs'[Sweep] # Idle => runs'[Sweep].match \notin rows'
    BY <1>2 DEF Finalize, TypeOK, SameHandler, Actors
  <2> HIDE DEF at
  <2> QED BY <1>2, <2>1, <2>2, <2>3 DEF TypeOK
<1>4. QueriesOfKind'
  BY <1>2 DEF Finalize, QueriesOfKind, SameHandler
<1>5. CountsAreRecent'
  BY <1>2 DEF Finalize, CountsAreRecent, SameHandler, Contested
<1>6. OnlyOvertakenHandlersReopen'
  BY <1>2 DEF Finalize, OnlyOvertakenHandlersReopen, SameHandler
<1>7. VerdictsPending'
  <2>1. \A m \in Matches : m # runs[a].match =>
          status'[m] = status[m] /\ reportedBy'[m] = reportedBy[m] /\ votes'[m] = votes[m]
    BY DEF Finalize, TypeOK
  <2>2. runs[a].match \in Matches
    BY DEF TypeOK, RunRecords
  <2>3. \A b \in Actors \ {a} : /\ runs'[b].match = runs[b].match
                                /\ WillSettle(runs[b]) => WillSettle(runs[b])'
                                /\ WillDispute(runs[b]) => WillDispute(runs[b])'
    BY <1>2 DEF Finalize, SameHandler, WillSettle, WillDispute, HasEntered
  <2>4. ASSUME NEW m \in Matches, m = runs[a].match,
               status'[m] = "reported", Agreed(m, reportedBy[m])', ~Contested(m)'
        PROVE  \/ runs'[a].match = m /\ WillSettle(runs[a])'
               \/ /\ status[m] = "reported" /\ Agreed(m, reportedBy[m]) /\ ~Contested(m)
                  /\ ~WillSettle(runs[a])
    BY <2>4 DEF Finalize, TypeOK, SameHandler,
                             WillSettle, HasEntered, Agreed, Contested
  <2>5. ASSUME NEW m \in Matches, m = runs[a].match,
               status'[m] = "reported", Contested(m)'
        PROVE  \/ runs'[a].match = m /\ WillDispute(runs[a])'
               \/ status[m] = "reported" /\ Contested(m) /\ ~WillDispute(runs[a])
    BY <2>2, <2>5 DEF Finalize, TypeOK,
                             WillDispute, HasEntered, Contested
  <2> HIDE DEF at
  <2> QED BY <2>1, <2>2, <2>3, <2>4, <2>5 DEF VerdictsPending, Agreed, Contested
<1> QED BY <1>3, <1>4, <1>5, <1>6, <1>7

\* So have they when it is cancelled.
LEMMA CancelInv ==
    ASSUME RaceInv, NEW a \in Actors, Cancel(a)
    PROVE  RaceInv'
<1> USE RaceAssumption, IdleFacts DEF RaceInv, Players, OpenStatuses, ClosedStatuses, Entries,
       Settling, Counts, Other, matchVars
<1> DEFINE at == "over"
<1>0. at \in Steps
  BY DEF Cancel, Steps, TypeOK, QueriesOfKind
<1>1. Tell(a, at, "closed")
  BY DEF Cancel
<1>2. /\ runs' \in [Actors -> RunRecords]
      /\ \A b \in Actors \ {a} :
            /\ SameHandler(runs'[b], runs[b])
            /\ runs'[b].at = runs[b].at /\ runs'[b].author = runs[b].author
            /\ runs[b].missed \subseteq runs'[b].missed
            /\ runs[b].at = "over" => runs'[b] = runs[b]
            /\ Settling(runs[b]) /\ runs[b].match = runs[a].match =>
                  "closed" \in runs'[b].missed
      /\ runs'[a] = Idle
  BY <1>0, <1>1, TellFacts
<1>3. TypeOK'
  <2>1. (/\ status \in [Matches -> OpenStatuses \cup ClosedStatuses]
         /\ reportedBy \in [Matches -> Players]
         /\ votes \in [Matches -> [Players -> {"none", "reset", "agree", "contest"}]]
         /\ timer \in [Matches -> {"running", "expired", "none"}])'
    BY DEF Cancel, TypeOK, QueriesOfKind, VoteOf, RunRecords
  <2>2. (rows \subseteq Matches /\ received \in 0..MaxRequests)'
    BY DEF Cancel, TypeOK
  <2>3. runs'[Sweep] # Idle => runs'[Sweep].match \notin rows'
    BY <1>2 DEF Cancel, TypeOK, SameHandler, Actors
  <2> HIDE DEF at
  <2> QED BY <1>2, <2>1, <2>2, <2>3 DEF TypeOK
<1>4. QueriesOfKind'
  BY <1>2 DEF Cancel, QueriesOfKind, SameHandler
<1>5. CountsAreRecent'
  BY <1>2 DEF Cancel, CountsAreRecent, SameHandler, Contested
<1>6. OnlyOvertakenHandlersReopen'
  BY <1>2 DEF Cancel, OnlyOvertakenHandlersReopen, SameHandler
<1>7. VerdictsPending'
  <2>1. \A m \in Matches : m # runs[a].match =>
          status'[m] = status[m] /\ reportedBy'[m] = reportedBy[m] /\ votes'[m] = votes[m]
    BY DEF Cancel, TypeOK
  <2>2. runs[a].match \in Matches
    BY DEF TypeOK, RunRecords
  <2>3. \A b \in Actors \ {a} : /\ runs'[b].match = runs[b].match
                                /\ WillSettle(runs[b]) => WillSettle(runs[b])'
                                /\ WillDispute(runs[b]) => WillDispute(runs[b])'
    BY <1>2 DEF Cancel, SameHandler, WillSettle, WillDispute, HasEntered
  <2>4. ASSUME NEW m \in Matches, m = runs[a].match,
               status'[m] = "reported", Agreed(m, reportedBy[m])', ~Contested(m)'
        PROVE  \/ runs'[a].match = m /\ WillSettle(runs[a])'
               \/ /\ status[m] = "reported" /\ Agreed(m, reportedBy[m]) /\ ~Contested(m)
                  /\ ~WillSettle(runs[a])
    BY <2>4 DEF Cancel, SameHandler,
                             WillSettle, HasEntered, Agreed, Contested
  <2>5. ASSUME NEW m \in Matches, m = runs[a].match,
               status'[m] = "reported", Contested(m)'
        PROVE  \/ runs'[a].match = m /\ WillDispute(runs[a])'
               \/ status[m] = "reported" /\ Contested(m) /\ ~WillDispute(runs[a])
    BY <2>5 DEF Cancel, SameHandler,
                             WillDispute, HasEntered, Contested
  <2> HIDE DEF at
  <2> QED BY <2>1, <2>2, <2>3, <2>4, <2>5 DEF VerdictsPending, Agreed, Contested
<1> QED BY <1>3, <1>4, <1>5, <1>6, <1>7

\* A vote is followed by a count, or by the dispute it asks for; the others have
\* missed a contestation.
LEMMA WriteVoteInv ==
    ASSUME RaceInv, NEW a \in Actors, WriteVote(a)
    PROVE  RaceInv'
<1> USE RaceAssumption, IdleFacts DEF RaceInv, Players, OpenStatuses, ClosedStatuses, Entries,
       Settling, Counts, Other, matchVars
<1> DEFINE at == AfterVote(runs[a])
<1>0. at \in Steps \ {"over"}
  BY DEF WriteVote, AfterVote, AfterReport, VoteOf, Steps, TypeOK, QueriesOfKind
<1>1. IF runs[a].kind = "contest" THEN Tell(a, at, "contested") ELSE Continue(a, at)
  BY DEF WriteVote
<1>2. /\ runs' \in [Actors -> RunRecords]
      /\ \A b \in Actors \ {a} :
            /\ SameHandler(runs'[b], runs[b])
            /\ runs'[b].at = runs[b].at /\ runs'[b].author = runs[b].author
            /\ runs[b].missed \subseteq runs'[b].missed
            /\ runs[b].at = "over" => runs'[b] = runs[b]
            /\ runs[a].kind = "contest" /\ Settling(runs[b]) /\ runs[b].match = runs[a].match =>
                  "contested" \in runs'[b].missed
      /\ SameHandler(runs'[a], runs[a])
      /\ runs'[a].at = at
      /\ runs'[a].missed = runs[a].missed
  <2>1. CASE runs[a].kind = "contest"
    BY <1>0, <1>1, <2>1, TellFacts
  <2>2. CASE runs[a].kind # "contest"
    BY <1>0, <1>1, <2>2, ContinueFacts DEF SameHandler
  <2> QED BY <2>1, <2>2
<1>3. TypeOK'
  <2>1. (/\ status \in [Matches -> OpenStatuses \cup ClosedStatuses]
         /\ reportedBy \in [Matches -> Players]
         /\ votes \in [Matches -> [Players -> {"none", "reset", "agree", "contest"}]]
         /\ timer \in [Matches -> {"running", "expired", "none"}])'
    BY DEF WriteVote, AfterVote, AfterReport, VoteOf, TypeOK, QueriesOfKind, VoteOf, RunRecords
  <2>2. (rows \subseteq Matches /\ received \in 0..MaxRequests)'
    BY DEF WriteVote, AfterVote, AfterReport, VoteOf, TypeOK
  <2>3. runs'[Sweep] # Idle => runs'[Sweep].match \notin rows'
    BY <1>2 DEF WriteVote, TypeOK, SameHandler, Actors
  <2> HIDE DEF at
  <2> QED BY <1>2, <2>1, <2>2, <2>3 DEF TypeOK
<1>4. QueriesOfKind'
  BY <1>2 DEF WriteVote, AfterVote, AfterReport, QueriesOfKind, SameHandler
<1>5. CountsAreRecent'
  BY <1>2 DEF WriteVote, AfterVote, AfterReport, VoteOf, QueriesOfKind, CountsAreRecent,
       SameHandler,
     Contested
<1>6. OnlyOvertakenHandlersReopen'
  BY <1>2 DEF WriteVote, AfterVote, AfterReport, QueriesOfKind,
       OnlyOvertakenHandlersReopen, SameHandler
<1>7. VerdictsPending'
  <2>1. \A m \in Matches : m # runs[a].match =>
          status'[m] = status[m] /\ reportedBy'[m] = reportedBy[m] /\ votes'[m] = votes[m]
    BY DEF WriteVote, AfterVote, AfterReport, VoteOf, TypeOK
  <2>2. runs[a].match \in Matches
    BY DEF TypeOK, RunRecords
  <2>3. \A b \in Actors \ {a} : /\ runs'[b].match = runs[b].match
                                /\ runs[b].match # runs[a].match =>
                                      /\ WillSettle(runs[b]) => WillSettle(runs[b])'
                                      /\ WillDispute(runs[b]) => WillDispute(runs[b])'
    BY <1>2, <2>1 DEF TypeOK, RunRecords, SameHandler, WillSettle, WillDispute,
                           HasEntered
  <2>4. ASSUME NEW m \in Matches, m = runs[a].match,
               status'[m] = "reported", Agreed(m, reportedBy[m])', ~Contested(m)'
        PROVE  runs'[a].match = m /\ WillSettle(runs[a])'
    BY <1>2, <2>4 DEF TypeOK, RunRecords, WriteVote, AfterVote, AfterReport, VoteOf,
         QueriesOfKind, SameHandler,
                             WillSettle, HasEntered, Agreed, Contested
  <2>5. ASSUME NEW m \in Matches, m = runs[a].match,
               status'[m] = "reported", Contested(m)'
        PROVE  runs'[a].match = m /\ WillDispute(runs[a])'
    BY <1>2, <2>5 DEF WriteVote, AfterVote, AfterReport, VoteOf, QueriesOfKind, SameHandler,
                             WillDispute, HasEntered, Contested
  <2> HIDE DEF at
  <2> QED BY <2>1, <2>2, <2>3, <2>4, <2>5 DEF VerdictsPending, Agreed, Contested
<1> QED BY <1>3, <1>4, <1>5, <1>6, <1>7

\* A request takes an idle slot, at a query its kind sends first.
LEMMA ReceiveInv ==
    ASSUME RaceInv, NEW a \in Requests, NEW k \in Kinds \ {"sweep"}, NEW p \in Players,
           NEW m \in Matches, Receive(a, k, p, m)
    PROVE  RaceInv'
<1> USE RaceAssumption, IdleFacts DEF RaceInv, Players, OpenStatuses, ClosedStatuses, Entries,
       Settling, Counts, Other, matchVars
<1> DEFINE h == Handler(k, p, m, FirstQuery(k), Remembered(k, m))
<1>1. /\ a \in Actors \ {Sweep}
      /\ runs[a] = Idle
      /\ runs' = [runs EXCEPT ![a] = h]
      /\ UNCHANGED <<status, reportedBy, votes, timer, rows>>
      /\ received' \in 0..MaxRequests
  BY DEF Receive, Actors, TypeOK
<1>2. /\ h \in RunRecords
      /\ h.at \in {"vote", "enter", "cancel", "finalize"}
      /\ h.match = m
      /\ h.at = "vote" => h.kind \in {"agree", "contest"}
      /\ h.at = "enter" => h.kind \in Entries
      /\ h.at = "finalize" => h.kind = "override" /\ status[m] \notin ClosedStatuses
  BY DEF Receive, Handler, May, Remembered, FirstQuery, CanFinalize, Kinds, RunRecords,
       Steps, TypeOK
<1> HIDE DEF h
<1>3. TypeOK'
  <2>1. runs' \in [Actors -> RunRecords] /\ runs'[Sweep] = runs[Sweep]
    BY <1>1, <1>2 DEF TypeOK
  <2> QED BY <1>1, <2>1 DEF TypeOK
<1>4. QueriesOfKind'
  BY <1>1, <1>2 DEF QueriesOfKind
<1>5. CountsAreRecent'
  BY <1>1, <1>2 DEF CountsAreRecent, Contested
<1>6. OnlyOvertakenHandlersReopen'
  BY <1>1, <1>2 DEF OnlyOvertakenHandlersReopen
<1>7. VerdictsPending'
  <2>1. \A b \in Actors : /\ WillSettle(runs[b]) => b # a
                          /\ WillDispute(runs[b]) => b # a
    BY <1>1 DEF WillSettle, WillDispute, HasEntered
  <2> QED BY <1>1, <1>2, <2>1 DEF VerdictsPending, WillSettle, WillDispute, HasEntered,
       Agreed, Contested
<1> QED BY <1>3, <1>4, <1>5, <1>6, <1>7

\* The sweep settles rows whose votes it has just read to be uncontested.
LEMMA VisitRowInv ==
    ASSUME RaceInv, NEW m \in Matches, VisitRow(m)
    PROVE  RaceInv'
<1> USE RaceAssumption, IdleFacts DEF RaceInv, Players, OpenStatuses, ClosedStatuses, Entries,
       Settling, Counts, Other, matchVars
<1> DEFINE a == Sweep
           h == Handler("sweep", Author, m, "settle", "none")
<1>1. /\ a \in Actors
      /\ runs[a] = Idle
      /\ \/ runs' = runs /\ rows' = rows \ {m}
         \/ runs' = [runs EXCEPT ![a] = h] /\ rows' = rows \ {m} /\ ~Contested(m)
      /\ UNCHANGED <<status, reportedBy, votes, timer, received>>
  BY DEF VisitRow, Actors
<1>2. /\ h \in RunRecords
      /\ h.at = "settle" /\ h.match = m /\ h.kind = "sweep"
  BY DEF Handler, Kinds, RunRecords, Steps
<1> HIDE DEF h
<1>3. TypeOK'
  BY <1>1, <1>2 DEF TypeOK
<1>4. QueriesOfKind'
  BY <1>1, <1>2 DEF TypeOK, QueriesOfKind
<1>5. CountsAreRecent'
  BY <1>1, <1>2 DEF TypeOK, CountsAreRecent, Contested
<1>6. OnlyOvertakenHandlersReopen'
  BY <1>1, <1>2 DEF TypeOK, OnlyOvertakenHandlersReopen
<1>7. VerdictsPending'
  <2>1. \A b \in Actors : /\ WillSettle(runs[b]) => b # a
                          /\ WillDispute(runs[b]) => b # a
    BY <1>1 DEF WillSettle, WillDispute, HasEntered
  <2>2. CASE runs' = runs
    BY <1>1, <2>2 DEF VerdictsPending, WillSettle, WillDispute, HasEntered, Agreed, Contested
  <2>3. CASE runs' = [runs EXCEPT ![a] = h]
    BY <1>1, <2>1, <2>3 DEF VerdictsPending, WillSettle, WillDispute, HasEntered, Agreed,
         Contested
  <2> QED BY <1>1, <2>2, <2>3
<1> QED BY <1>3, <1>4, <1>5, <1>6, <1>7

\* The sweep reads its rows when it is idle.
LEMMA StartSweepInv ==
    ASSUME RaceInv, StartSweep
    PROVE  RaceInv'
<1> USE RaceAssumption, IdleFacts DEF RaceInv, Players, OpenStatuses, ClosedStatuses, Entries,
       Settling, Counts, Other, matchVars
<1>1. TypeOK'
  BY DEF StartSweep, TypeOK
<1>2. QueriesOfKind'
  BY DEF StartSweep, QueriesOfKind
<1>3. CountsAreRecent'
  BY DEF StartSweep, CountsAreRecent, Contested
<1>4. OnlyOvertakenHandlersReopen'
  BY DEF StartSweep, OnlyOvertakenHandlersReopen
<1>5. VerdictsPending'
  BY DEF StartSweep, VerdictsPending, WillSettle, WillDispute, HasEntered, Agreed, Contested
<1> QED BY <1>1, <1>2, <1>3, <1>4, <1>5

\* Time passes for the timers only.
LEMMA ExpireInv ==
    ASSUME RaceInv, NEW m \in Matches, Expire(m)
    PROVE  RaceInv'
<1> USE RaceAssumption, IdleFacts DEF RaceInv, Players, OpenStatuses, ClosedStatuses, Entries,
       Settling, Counts, Other, matchVars
<1>1. TypeOK'
  BY DEF Expire, TypeOK
<1>2. QueriesOfKind'
  BY DEF Expire, QueriesOfKind
<1>3. CountsAreRecent'
  BY DEF Expire, CountsAreRecent, Contested
<1>4. OnlyOvertakenHandlersReopen'
  BY DEF Expire, OnlyOvertakenHandlersReopen
<1>5. VerdictsPending'
  BY DEF Expire, VerdictsPending, WillSettle, WillDispute, HasEntered, Agreed, Contested
<1> QED BY <1>1, <1>2, <1>3, <1>4, <1>5

\* Nothing changes.
LEMMA StutterInv ==
    ASSUME RaceInv, UNCHANGED vars
    PROVE  RaceInv'
<1> USE RaceAssumption, IdleFacts DEF RaceInv, Players, OpenStatuses, ClosedStatuses, Entries,
       Settling, Counts, Other, matchVars
<1>1. TypeOK'
  BY DEF vars, TypeOK
<1>2. QueriesOfKind'
  BY DEF vars, QueriesOfKind
<1>3. CountsAreRecent'
  BY DEF vars, CountsAreRecent, Contested
<1>4. OnlyOvertakenHandlersReopen'
  BY DEF vars, OnlyOvertakenHandlersReopen
<1>5. VerdictsPending'
  BY DEF vars, VerdictsPending, WillSettle, WillDispute, HasEntered, Agreed, Contested
<1> QED BY <1>1, <1>2, <1>3, <1>4, <1>5

\* The author has voted, nobody else has, and nobody is at work.
LEMMA InitInv == ASSUME Init PROVE RaceInv
<1> USE RaceAssumption, IdleFacts DEF Init, Players, OpenStatuses, ClosedStatuses, Other, Settling
<1>1. TypeOK
  BY DEF TypeOK
<1>2. QueriesOfKind
  BY DEF QueriesOfKind
<1>3. CountsAreRecent
  BY DEF CountsAreRecent
<1>4. OnlyOvertakenHandlersReopen
  BY DEF OnlyOvertakenHandlersReopen
<1>5. VerdictsPending
  BY DEF VerdictsPending, Agreed, Contested
<1> QED BY <1>1, <1>2, <1>3, <1>4, <1>5 DEF RaceInv

\* The invariant all of the following rest on, for any number of matches and
\* of requests under way.
THEOREM RaceInvariant == Spec => []RaceInv
<1>1. Init => RaceInv
  BY InitInv
<1>2. RaceInv /\ [Next]_vars => RaceInv'
  <2> SUFFICES ASSUME RaceInv, [Next]_vars PROVE RaceInv'
    OBVIOUS
  <2>1. CASE \E a \in Requests, k \in Kinds \ {"sweep"}, p \in Players, m \in Matches :
                Receive(a, k, p, m)
    BY <2>1, ReceiveInv
  <2>2. CASE \E a \in Actors : Query(a)
    BY <2>2, LookForVoteInv, WriteVoteInv, InsertFailsInv, EnterInv, LookForOthersInv,
       ResetOthersInv, DisputeInv, LookForContestsInv, WithdrawInv, CheckStatusInv, TallyInv,
       FlagInv, ReadBeforeFinalizingInv, FinalizeInv, CancelInv DEF Query
  <2>3. CASE SweepStep
    BY <2>3, StartSweepInv, VisitRowInv DEF SweepStep
  <2>4. CASE \E m \in Matches : Expire(m)
    BY <2>4, ExpireInv
  <2>5. CASE UNCHANGED vars
    BY <2>5, StutterInv
  <2> QED BY <2>1, <2>2, <2>3, <2>4, <2>5 DEF Next
<1> QED BY <1>1, <1>2, PTL DEF Spec

\* Every variable of the race keeps its domain, and the sweep holds no row twice.
THEOREM RaceTypeCorrect == Spec => []TypeOK
<1>1. RaceInv => TypeOK
  BY DEF RaceInv
<1> QED BY <1>1, RaceInvariant, PTL

\* An agreement is not lost between the queries of checkAndFinalizeMatch,
\* however many requests on the match interleave.
THEOREM NoConsensusIsMissed == Spec => []ConsensusIsNeverMissed
<1>1. RaceInv => ConsensusIsNeverMissed
  BY DEF RaceInv, VerdictsPending, ConsensusIsNeverMissed, Quiet, WillSettle, HasEntered, Settling
<1> QED BY <1>1, RaceInvariant, PTL

\* Nor is a contestation, whatever withdrawal or new entry writes over it.
THEOREM NoContestIsMissed == Spec => []ContestIsNeverMissed
<1>1. RaceInv => ContestIsNeverMissed
  BY DEF RaceInv, VerdictsPending, ContestIsNeverMissed, Quiet, WillDispute, HasEntered, Settling
<1> QED BY <1>1, RaceInvariant, PTL

\* Neither a consensus nor the sweep finalizes over a contestation it had read.
THEOREM ReadContestsAreHeeded == Spec => []OnlyLateContestsAreOverruled
<1>1. RaceInv => OnlyLateContestsAreOverruled
  BY DEF RaceInv, CountsAreRecent, Settling, OnlyLateContestsAreOverruled
<1> QED BY <1>1, RaceInvariant, PTL

\* finalizeMatch writes over a closed match only if it was closed between its
\* read of the status and its write.
THEOREM ReopeningsAreOvertaken == Spec => []OnlyOvertakenHandlersReopen
<1>1. RaceInv => OnlyOvertakenHandlersReopen
  BY DEF RaceInv
<1> QED BY <1>1, RaceInvariant, PTL
=============================================================================
