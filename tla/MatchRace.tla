----------------------------- MODULE MatchRace -----------------------------
(***************************************************************************)
(* The handlers of MatchLifecycle again, this time one query at a time:    *)
(* several requests and the hourly sweep work on the same matches, and     *)
(* each acts on what it read some queries ago.  No handler holds a lock or *)
(* a transaction over its queries.                                         *)
(*                                                                         *)
(* What is left of a match is what they race for: the status, the author   *)
(* of the result, the votes and the timer.  One player a side votes on the *)
(* result or enters another one, in a mode that settles by consensus or by *)
(* the timer, and at once what an author it trusts reports.                *)
(***************************************************************************)
EXTENDS Naturals, FiniteSets

CONSTANTS
    Matches,
    Author, Opponent,  \* the player of side A, who created the match, and of side B
    Requests,          \* requests under way at the same time
    Sweep,             \* the hourly job
    MaxRequests,       \* bound of the model: requests received when one match is open
    MaxShared          \* bound of the model: requests received when all of them are

Players == {Author, Opponent}
Actors == Requests \cup {Sweep}

ASSUME RaceAssumption ==
    /\ Author # Opponent
    /\ Matches # {}
    /\ Sweep \notin Requests
    /\ MaxRequests \in Nat
    /\ MaxShared \in 0..MaxRequests

VARIABLES
    status,      \* matches.status
    reportedBy,  \* match_results.reported_by
    votes,       \* match_confirmations; "none" where there is no row
    timer,       \* matches.confirmation_deadline against the clock
    runs,        \* what each actor is doing: its next query and what it read
    rows,        \* the matches the sweep has read and not yet visited
    received     \* number of requests received, at most MaxRequests

matchVars == <<status, reportedBy, votes, timer>>
vars == <<matchVars, runs, rows, received>>

OpenStatuses == {"reported", "disputed"}
ClosedStatuses == {"finalized", "cancelled"}
Entries == {"revise", "report", "outright"}
Kinds == Entries \cup {"agree", "contest", "cancel", "override", "sweep"}
-----------------------------------------------------------------------------
(* What an actor does next *)

\* seen is the status the actor read first, where its handler still tests it;
\* author is who entered the result it counts votes for, at the count.  missed is
\* history: what the others did to the match since it set out to finalize it.
Idle == [kind |-> "idle", by |-> Author, match |-> CHOOSE m \in Matches : TRUE,
         at |-> "over", seen |-> "none", author |-> Author, missed |-> {}]

Handler(k, p, m, at, seen) ==
    [kind |-> k, by |-> p, match |-> m, at |-> at, seen |-> seen, author |-> Author,
     missed |-> {}]

\* The actor's run goes on at another query; a match it has just read is known.
Goes(a, at) == IF at = "over" THEN Idle ELSE [runs[a] EXCEPT !.at = at]
Reads(a, at, what) ==
    IF at = "over" THEN Idle
    ELSE [runs[a] EXCEPT !.at = at, !.author = Author, !.missed = @ \ what]

\* The other actors about to finalize the match have not seen the event.
Settling(r) == r.at \in {"settle", "finalize"}
Missing(a, event) ==
    [b \in Actors |-> IF b # a /\ Settling(runs[b]) /\ runs[b].match = runs[a].match
                      THEN [runs[b] EXCEPT !.missed = @ \cup {event}] ELSE runs[b]]

Continue(a, at) == runs' = [runs EXCEPT ![a] = Goes(a, at)]
Notice(a, at, what) == runs' = [runs EXCEPT ![a] = Reads(a, at, what)]
Tell(a, at, event) == runs' = [Missing(a, event) EXCEPT ![a] = Goes(a, at)]
-----------------------------------------------------------------------------
(* What a handler makes of the rows it reads *)

\* detectContestation
Contested(m) == \E p \in Players : votes[m][p] = "contest"

Other(p) == IF p = Author THEN Opponent ELSE Author

\* The side that did not enter the result has to agree.
Agreed(m, author) == votes[m][Other(author)] = "agree"

\* Defect variant (of CanFinalize): any match that is not final yet.
CanFinalizeUnsettled(st) == st # "finalized"

CanFinalize(st) == st \in OpenStatuses

Due(m) == status[m] = "reported" /\ timer[m] = "expired"

\* The mode "none" and the trust score settle a report without counting votes.
AfterReport(r) == IF r.kind = "outright" THEN "settle" ELSE "check"

\* The query after the vote of the request's player is written.
AfterVote(r) ==
    CASE r.kind = "contest" -> "dispute"
      [] r.kind = "agree" -> IF r.seen = "disputed" THEN "contests" ELSE "check"
      [] r.kind = "revise" -> "check"
      [] r.kind \in {"report", "outright"} ->
            IF r.seen = "disputed" THEN "others" ELSE AfterReport(r)

\* An update drops the other votes before its author votes, a report after.
AfterEntry(r) == IF r.kind = "revise" THEN "others" ELSE "vote"
AfterReset(r) == IF r.kind = "revise" THEN "vote" ELSE AfterReport(r)

\* Defect variant (of AfterWithdrawal): the match reopens with no second look.
AfterWithdrawalOver(r) == "over"

AfterWithdrawal(r) == "check"
-----------------------------------------------------------------------------
(* A request comes in: its first query reads the match *)

\* An update is the author's or the creator's, a cancellation the author's.
MayRevise(p, m) == p \in {reportedBy[m], Author} /\ status[m] \in OpenStatuses
MayCancel(p, m) == p = reportedBy[m] /\ status[m] \in OpenStatuses

\* Either player votes, or reports again; whoever overrides makes no difference.
May(k, p, m) ==
    CASE k \in {"agree", "contest", "report", "outright"} -> status[m] \in OpenStatuses
      [] k = "revise" -> MayRevise(p, m)
      [] k = "cancel" -> MayCancel(p, m)
      [] k = "override" -> p = Author /\ CanFinalize(status[m])

FirstQuery(k) ==
    CASE k \in {"agree", "contest"} -> "vote"
      [] k \in Entries -> "enter"
      [] k = "cancel" -> "cancel"
      [] k = "override" -> "finalize"

\* The other handlers test the status they read first, and forget it.
Remembered(k, m) == IF k \in {"agree", "report", "outright"} THEN status[m] ELSE "none"

\* Which of the free slots a request takes makes no difference.
Receive(a, k, p, m) ==
    /\ runs[a] = Idle
    /\ a = CHOOSE b \in Requests : runs[b] = Idle
    /\ received < MaxRequests
    /\ May(k, p, m)
    /\ runs' = [runs EXCEPT ![a] = Handler(k, p, m, FirstQuery(k), Remembered(k, m))]
    /\ received' = received + 1
    /\ UNCHANGED <<matchVars, rows>>
-----------------------------------------------------------------------------
(* upsert of match_confirmations: a read, then an insert or an update *)

LookForVote(a) ==
    /\ runs[a].at = "vote"
    /\ Continue(a, IF votes[runs[a].match][runs[a].by] = "none" THEN "insert" ELSE "update")
    /\ UNCHANGED <<matchVars, rows, received>>

VoteOf(r) == IF r.kind = "contest" THEN "contest" ELSE "agree"

WriteVote(a) ==
    LET r == runs[a] IN
    /\ r.at \in {"insert", "update"}
    /\ r.at = "insert" => votes[r.match][r.by] = "none"
    /\ votes' = [votes EXCEPT ![r.match][r.by] = VoteOf(r)]
    /\ IF r.kind = "contest" THEN Tell(a, AfterVote(r), "contested")
                             ELSE Continue(a, AfterVote(r))
    /\ UNCHANGED <<status, reportedBy, timer, rows, received>>

\* The same player's other request inserted first: the unique key is hit.
InsertFails(a) ==
    /\ runs[a].at = "insert"
    /\ votes[runs[a].match][runs[a].by] # "none"
    /\ Continue(a, "over")
    /\ UNCHANGED <<matchVars, rows, received>>
-----------------------------------------------------------------------------
(* The entry: reportMatchResult, updateMatch *)

Enter(a) ==
    LET m == runs[a].match IN
    /\ runs[a].at = "enter"
    /\ status' = [status EXCEPT ![m] = "reported"]
    /\ timer' = [timer EXCEPT ![m] = "running"]
    /\ reportedBy' = [reportedBy EXCEPT ![m] = runs[a].by]
    /\ Continue(a, AfterEntry(runs[a]))
    /\ UNCHANGED <<votes, rows, received>>

\* resetConfirmationsExcept reads the rows, then clears those it has read.
LookForOthers(a) ==
    /\ runs[a].at = "others"
    /\ Continue(a, IF votes[runs[a].match][Other(runs[a].by)] = "none"
                   THEN AfterReset(runs[a]) ELSE "reset")
    /\ UNCHANGED <<matchVars, rows, received>>

ResetOthers(a) ==
    LET m == runs[a].match IN
    /\ runs[a].at = "reset"
    /\ votes' = [votes EXCEPT ![m][Other(runs[a].by)] = "reset"]
    /\ Continue(a, AfterReset(runs[a]))
    /\ UNCHANGED <<status, reportedBy, timer, rows, received>>
-----------------------------------------------------------------------------
(* The dispute and its withdrawal *)

\* applyDisputeOutcome
Dispute(a) ==
    LET m == runs[a].match IN
    /\ runs[a].at = "dispute"
    /\ status' = [status EXCEPT ![m] = "disputed"]
    /\ timer' = [timer EXCEPT ![m] = "none"]
    /\ Continue(a, "over")
    /\ UNCHANGED <<reportedBy, votes, rows, received>>

LookForContests(a) ==
    /\ runs[a].at = "contests"
    /\ Continue(a, IF Contested(runs[a].match) THEN "check" ELSE "withdraw")
    /\ UNCHANGED <<matchVars, rows, received>>

\* applyDisputeWithdrawal
Withdraw(a) ==
    LET m == runs[a].match IN
    /\ runs[a].at = "withdraw"
    /\ status' = [status EXCEPT ![m] = "reported"]
    /\ timer' = [timer EXCEPT ![m] = "running"]
    /\ Continue(a, AfterWithdrawal(runs[a]))
    /\ UNCHANGED <<reportedBy, votes, rows, received>>
-----------------------------------------------------------------------------
(* checkAndFinalizeMatch and finalizeMatch *)

\* The same query reads who entered the result; the votes are another one.
CheckStatus(a) ==
    LET m == runs[a].match IN
    /\ runs[a].at = "check"
    /\ runs' = [runs EXCEPT ![a] =
                   IF status[m] = "reported"
                   THEN [@ EXCEPT !.at = "tally", !.seen = "none", !.author = reportedBy[m]]
                   ELSE Idle]
    /\ UNCHANGED <<matchVars, rows, received>>

\* Defect variant (of Verdict): an agreement is enough, whoever objects.
VerdictOnAgreement(m, author) ==
    CASE Agreed(m, author) -> "settle"
      [] Contested(m) /\ ~Agreed(m, author) -> "flag"
      [] OTHER -> "over"

Verdict(m, author) ==
    CASE Contested(m) -> "flag"
      [] Agreed(m, author) /\ ~Contested(m) -> "settle"
      [] OTHER -> "over"

Tally(a) ==
    /\ runs[a].at = "tally"
    /\ Notice(a, Verdict(runs[a].match, runs[a].author), {"contested"})
    /\ UNCHANGED <<matchVars, rows, received>>

\* The timer is left as it is: only a dispute clears it.
Flag(a) ==
    /\ runs[a].at = "flag"
    /\ status' = [status EXCEPT ![runs[a].match] = "disputed"]
    /\ Continue(a, "over")
    /\ UNCHANGED <<reportedBy, votes, timer, rows, received>>

\* Defect variant (of AfterThrow): the sweep comes back to the row that failed.
SameRowAgain(a) == IF a = Sweep THEN rows \cup {runs[a].match} ELSE rows

\* An error leaves the loop over the rows, the remaining ones included.
AfterThrow(a) == IF a = Sweep THEN {} ELSE rows

ReadBeforeFinalizing(a) ==
    LET st == status[runs[a].match] IN
    /\ runs[a].at = "settle"
    /\ Notice(a, IF CanFinalize(st) THEN "finalize" ELSE "over", {"closed"})
    /\ rows' = IF CanFinalize(st) THEN rows ELSE AfterThrow(a)
    /\ UNCHANGED <<matchVars, received>>

Finalize(a) ==
    /\ runs[a].at = "finalize"
    /\ status' = [status EXCEPT ![runs[a].match] = "finalized"]
    /\ Tell(a, "over", "closed")
    /\ UNCHANGED <<reportedBy, votes, timer, rows, received>>

Cancel(a) ==
    /\ runs[a].at = "cancel"
    /\ status' = [status EXCEPT ![runs[a].match] = "cancelled"]
    /\ Tell(a, "over", "closed")
    /\ UNCHANGED <<reportedBy, votes, timer, rows, received>>
-----------------------------------------------------------------------------
(* The sweep and the clock *)

StartSweep ==
    /\ runs[Sweep] = Idle /\ rows = {}
    /\ rows' = {m \in Matches : Due(m)}
    /\ rows' # {}
    /\ UNCHANGED <<matchVars, runs, received>>

\* Defect variant (of VisitRow): the row stays in the list.
VisitRowKept(m) ==
    /\ runs[Sweep] = Idle
    /\ m \in rows
    /\ ~Contested(m)
    /\ runs' = [runs EXCEPT ![Sweep] = Handler("sweep", Author, m, "settle", "none")]
    /\ UNCHANGED <<matchVars, rows, received>>

\* Reads the votes; a contested match is counted and left as it is.
VisitRow(m) ==
    /\ runs[Sweep] = Idle
    /\ m \in rows
    /\ rows' = rows \ {m}
    /\ runs' = IF Contested(m) THEN runs
               ELSE [runs EXCEPT ![Sweep] = Handler("sweep", Author, m, "settle", "none")]
    /\ UNCHANGED <<matchVars, received>>

\* Whatever makes a match "reported" again sets a new deadline: the one of a
\* match that is not is never read, and may as well not pass.
Expire(m) ==
    /\ status[m] = "reported" /\ timer[m] = "running"
    /\ timer' = [timer EXCEPT ![m] = "expired"]
    /\ UNCHANGED <<status, reportedBy, votes, runs, rows, received>>
-----------------------------------------------------------------------------
Query(a) ==
    \/ LookForVote(a) \/ WriteVote(a) \/ InsertFails(a)
    \/ Enter(a) \/ LookForOthers(a) \/ ResetOthers(a)
    \/ Dispute(a) \/ LookForContests(a) \/ Withdraw(a)
    \/ CheckStatus(a) \/ Tally(a) \/ Flag(a)
    \/ ReadBeforeFinalizing(a) \/ Finalize(a) \/ Cancel(a)

SweepStep == StartSweep \/ \E m \in Matches : VisitRow(m)

Next ==
    \/ \E a \in Requests, k \in Kinds \ {"sweep"}, p \in Players, m \in Matches :
          Receive(a, k, p, m)
    \/ \E a \in Actors : Query(a)
    \/ SweepStep
    \/ \E m \in Matches : Expire(m)

\* Every open match has been reported by its creator, who agrees with the entry.
Init ==
    /\ \/ /\ status = [m \in Matches |-> "reported"]
          /\ received = MaxRequests - MaxShared
       \/ /\ status = [m \in Matches |-> IF m = Idle.match THEN "reported" ELSE "cancelled"]
          /\ received = 0
    /\ reportedBy = [m \in Matches |-> Author]
    /\ votes = [m \in Matches |-> [p \in Players |-> IF p = Author THEN "agree" ELSE "none"]]
    /\ timer = [m \in Matches |-> "running"]
    /\ runs = [a \in Actors |-> Idle]
    /\ rows = {}

Spec == Init /\ [][Next]_vars

\* A handler that has started runs to its end; the job runs every hour.
FairSpec ==
    /\ Spec
    /\ \A a \in Actors : WF_vars(Query(a))
    /\ WF_vars(SweepStep)
-----------------------------------------------------------------------------
(* Properties *)

Steps == {"over", "vote", "insert", "update", "enter", "others", "reset", "dispute",
          "contests", "withdraw", "check", "tally", "flag", "settle", "finalize", "cancel"}

RunRecords ==
    [kind : Kinds \cup {"idle"}, by : Players, match : Matches, at : Steps,
     seen : OpenStatuses \cup {"none"}, author : Players,
     missed : SUBSET {"contested", "closed"}]

\* Every variable keeps its domain, and the sweep never holds a row twice:
\* the row it is on is not among those it has yet to visit.
TypeOK ==
    /\ status \in [Matches -> OpenStatuses \cup ClosedStatuses]
    /\ reportedBy \in [Matches -> Players]
    /\ votes \in [Matches -> [Players -> {"none", "reset", "agree", "contest"}]]
    /\ timer \in [Matches -> {"running", "expired", "none"}]
    /\ runs \in [Actors -> RunRecords]
    /\ rows \subseteq Matches
    /\ runs[Sweep] # Idle => runs[Sweep].match \notin rows
    /\ received \in 0..MaxRequests

Quiet(m) == \A a \in Actors : runs[a].at # "over" => runs[a].match # m

\* However the votes of the two players interleave, an agreement is not lost
\* between them: once their requests are over, an uncontested entry that the
\* other side approves is not left waiting.  Each of the checks may read the
\* match before another one's write, and either side may have entered another
\* result in between, which turns round whose vote is asked for.
ConsensusIsNeverMissed ==
    \A m \in Matches :
        Quiet(m) /\ Agreed(m, reportedBy[m]) /\ ~Contested(m) => status[m] # "reported"

\* A contestation is not lost either: once the requests are over the match is
\* disputed, or it was settled, but it does not run on as if nobody objected,
\* though a withdrawal or a new entry may write "reported" over the dispute.
ContestIsNeverMissed ==
    \A m \in Matches : Quiet(m) /\ Contested(m) => status[m] # "reported"

\* An organizer's decision and an outright report ask for nobody's votes.
Counts(r) == r.kind \notin {"override", "outright"}

\* A result is settled by the sweep or by a consensus over a standing
\* contestation only if that was filed after the votes were counted: neither
\* ignores one it could read.
OnlyLateContestsAreOverruled ==
    \A a \in Actors :
        runs[a].at = "finalize" /\ Counts(runs[a]) /\ Contested(runs[a].match)
        => "contested" \in runs[a].missed

\* A closed match is finalized again only by a handler that had found it open
\* and was overtaken between that read and its write.
OnlyOvertakenHandlersReopen ==
    \A a \in Actors :
        runs[a].at = "finalize" /\ status[runs[a].match] \in ClosedStatuses
        => "closed" \in runs[a].missed

\* A due match is settled, or goes on in some other way, although a match the
\* sweep can no longer finalize makes it drop all the rows it has left.
DueMatchMovesOn ==
    \A m \in Matches : Due(m) /\ ~Contested(m) ~> ~Due(m) \/ Contested(m)
-----------------------------------------------------------------------------
(* Why they hold: the invariant the proofs are by *)

\* Only the requests that send a query are ever at it, and an actor without a
\* query left is idle.
QueriesOfKind ==
    \A a \in Actors :
        LET r == runs[a] IN
        /\ r.at = "over" => r = Idle
        /\ r.at \in {"vote", "insert", "update"} => r.kind \in Entries \cup {"agree", "contest"}
        /\ r.at \in {"enter", "others", "reset"} => r.kind \in Entries
        /\ r.at \in {"contests", "withdraw"} => r.kind = "agree"
        /\ r.at = "dispute" => r.kind = "contest"

\* A handler that has counted the votes knows of every contestation, or missed it.
CountsAreRecent ==
    \A a \in Actors :
        (/\ Settling(runs[a])
         /\ Counts(runs[a])
         /\ Contested(runs[a].match))
        => "contested" \in runs[a].missed

\* The handler has entered a result, and has its decision still before it: it
\* fails only where the player's other request votes first.
HasEntered(r) ==
    /\ r.kind \in Entries
    /\ \/ r.at \in {"vote", "update", "others", "reset"}
       \/ r.at = "insert" /\ votes[r.match][r.by] = "none"

\* A count settles the match if it knows who entered the result it counts for.
WillSettle(r) ==
    \/ HasEntered(r)
    \/ r.at \in {"contests", "withdraw", "check"} \/ Settling(r)
    \/ r.at = "tally" /\ r.author = reportedBy[r.match]

\* An outright report closes a match that somebody contests.
WillDispute(r) ==
    \/ HasEntered(r)
    \/ r.at \in {"contests", "withdraw", "check", "tally", "dispute", "flag"}
    \/ r.kind = "outright" /\ Settling(r)

\* Whatever makes a reported match ripe for a verdict, be it a vote, a status
\* or an author, is written by a handler that will decide afterwards.
VerdictsPending ==
    \A m \in Matches : status[m] = "reported" =>
        /\ Agreed(m, reportedBy[m]) /\ ~Contested(m) =>
              \E a \in Actors : runs[a].match = m /\ WillSettle(runs[a])
        /\ Contested(m) =>
              \E a \in Actors : runs[a].match = m /\ WillDispute(runs[a])

RaceInv ==
    /\ TypeOK
    /\ QueriesOfKind
    /\ CountsAreRecent
    /\ OnlyOvertakenHandlersReopen
    /\ VerdictsPending
=============================================================================
