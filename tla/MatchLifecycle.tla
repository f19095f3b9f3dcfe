--------------------------- MODULE MatchLifecycle ---------------------------
(***************************************************************************)
(* The life of one match of a competition: creation, report of a result,   *)
(* votes of the players, dispute, finalization (by consensus, by the       *)
(* hourly timer, by the reporter's own word, or by an organizer), dispute  *)
(* after finalization, correction, cancellation and deletion.              *)
(*                                                                         *)
(* One action per request handler of backend/src/services/match.service.ts *)
(* and of the jobs that call it; a handler runs here as one atomic step.   *)
(* The notifications that ask somebody to act and the trust score of the   *)
(* users are part of the state, because the handlers keep them in step     *)
(* with the match.                                                         *)
(***************************************************************************)
EXTENDS Integers, FiniteSets

CONSTANTS
    SideA, SideB,      \* the players of the two sides
    Admins,            \* the users who can manage the competition's matches
    Kiosk,             \* the shared terminal, which never votes
    NoUser,            \* stands for a NULL user id
    ValidationModes,   \* the validation modes the organizers may choose
    CompetitionMode,   \* "championship", "ranked" or "bracket"
    TrustThreshold,    \* trust score from which a reporter settles alone
    InitialTrust,      \* trust scores the users may start from
    MaxEntries         \* bound of the model: results entered for the match

Players == SideA \cup SideB
Users == Players \cup Admins \cup {Kiosk}

ASSUME UsersAssumption ==
    /\ SideA \cap SideB = {}
    /\ Kiosk \notin Players \cup Admins
    /\ NoUser \notin Users

ASSUME ConfigAssumption ==
    /\ ValidationModes \subseteq {"auto", "strict", "admin", "none"}
    /\ CompetitionMode \in {"championship", "ranked", "bracket"}
    /\ TrustThreshold \in Nat
    /\ InitialTrust \subseteq Nat
    /\ MaxEntries \in Nat

VARIABLES
    status,              \* matches.status; "absent" before the row exists
    createdBy,           \* matches.created_by
    reportedBy,          \* match_results.reported_by
    votes,               \* match_confirmations of the validation round
    deadline,            \* matches.confirmation_deadline, seen from now
    finalizationReason,  \* match_results.finalization_reason
    finalizedAt,         \* match_results.finalized_at, seen from now
    postDisputes,        \* players with a post-finalization contestation
    actions,             \* notifications still asking a user to act
    validationMode,      \* tournaments.validation_mode
    trust,               \* app_users.trust_score_count
    settledBy,           \* reason announced in the match thread
    stale,               \* history: players whose vote is for an older entry
    ledger,              \* history: points this match gave minus took back
    entries              \* number of results entered, at most MaxEntries

resultVars == <<finalizationReason, finalizedAt, settledBy>>
trustVars == <<trust, ledger>>
vars == <<status, createdBy, reportedBy, votes, deadline, postDisputes,
          actions, validationMode, stale, entries, resultVars, trustVars>>

Statuses == {"absent", "scheduled", "reported", "disputed", "finalized",
             "cancelled", "deleted"}
OpenStatuses == {"reported", "disputed"}
Reasons == {"consensus", "auto_validation", "trust_score", "admin_override"}
SelfValidated == {"auto_validation", "trust_score"}
Tasks == {"MATCH_VALIDATION", "MATCH_DISPUTE_ESCALATED", "MATCH_POST_DISPUTE"}

-----------------------------------------------------------------------------
(* Notifications that require an action *)

\* Defect variant (of DeleteActions): the organizers' requests are forgotten.
DeleteValidationsOnly(acts) == {a \in acts : a[2] # "MATCH_VALIDATION"}

\* The three deletions of the notification repository, for one match.
DeleteActions(acts) == {}

DeleteActionsForUser(acts, u) == {a \in acts : a[1] # u}

DeleteActionsOfType(acts, type) == {a \in acts : a[2] # type}

Ask(recipients, type) == {<<u, type>> : u \in recipients}

-----------------------------------------------------------------------------
(* The validation round *)

\* Defect variant (of Contested): the author of the entry cannot contest it.
ContestedByOthers(v) == \E p \in Players \ {reportedBy} : v[p] = "contest"

\* A live contestation; the post-finalization ones are kept in postDisputes.
Contested(v) == \E p \in Players : v[p] = "contest"

SideOf(p) == IF p \in SideA THEN SideA ELSE SideB

ConfirmedSides(v) == {SideOf(p) : p \in {q \in Players : v[q] = "agree"}}

\* Defect variant (of Agreed): an outsider's entry is settled by one side.
AgreedByOneSide(v, author) ==
    \E s \in ConfirmedSides(v) : author \in Players => s # SideOf(author)

\* A participant's entry needs the other side, an outsider's needs both.
Agreed(v, author) ==
    IF author \in Players
    THEN \E s \in ConfirmedSides(v) : s # SideOf(author)
    ELSE {SideA, SideB} \subseteq ConfirmedSides(v)

\* Only the auto mode sets a timer; writing NULL clears a previous one.
NewDeadline == IF validationMode = "auto" THEN "running" ELSE "none"

\* Defect variant (of CanFinalize): any match that is not final yet.
CanFinalizeUnsettled(st) == st \in {"scheduled", "reported", "disputed", "cancelled"}

Trusted(u) == validationMode = "auto" /\ trust[u] >= TrustThreshold

CanFinalize(st) == st \in OpenStatuses

\* finalizeMatch: the reason and the date reach match_results only together
\* with a finalizing user; the reporter is credited unless it is an override.
Settle(why, by, author) ==
    /\ status' = "finalized"
    /\ settledBy' = why
    /\ IF by = NoUser
       THEN UNCHANGED <<finalizationReason, finalizedAt>>
       ELSE finalizationReason' = why /\ finalizedAt' = "fresh"
    /\ actions' = DeleteActions(actions)
    /\ IF why # "admin_override" /\ author # NoUser
       THEN /\ trust' = [trust EXCEPT ![author] = @ + 1]
            /\ ledger' = [ledger EXCEPT ![author] = @ + 1]
       ELSE UNCHANGED trustVars

RemainsOpen(st, acts) ==
    /\ status' = st
    /\ actions' = acts
    /\ UNCHANGED <<resultVars, trustVars>>

\* checkAndFinalizeMatch on a reported match, then the notices of its caller.
CheckAndFinalize(v, author, acts, notices) ==
    LET agreed == validationMode # "admin" /\ Agreed(v, author)
    IN  \/ Contested(v) /\ RemainsOpen("disputed", acts)
        \/ ~Contested(v) /\ agreed /\ Settle("consensus", NoUser, author)
        \/ ~Contested(v) /\ ~agreed /\ RemainsOpen("reported", acts \cup notices)

\* What a fresh report does: settle at once, or open a validation round.
SettleOrOpen(u, author, v) ==
    \/ validationMode = "none" /\ Settle("auto_validation", u, author)
    \/ Trusted(u) /\ Settle("trust_score", u, author)
    \/ /\ validationMode # "none"
       /\ ~Trusted(u)
       /\ CheckAndFinalize(v, author, actions, Ask(Players \ {u}, "MATCH_VALIDATION"))

AgreeingOthers(v, u) == {p \in Players \ {u} : v[p] = "agree"}

-----------------------------------------------------------------------------
(* Creation, report and update of the result *)

Init ==
    /\ status = "absent"
    /\ createdBy = NoUser
    /\ reportedBy = NoUser
    /\ votes = [p \in Players |-> "none"]
    /\ deadline = "none"
    /\ finalizationReason = "none"
    /\ finalizedAt = "none"
    /\ postDisputes = {}
    /\ actions = {}
    /\ validationMode \in ValidationModes
    /\ trust \in [Users -> InitialTrust]
    /\ settledBy = "none"
    /\ stale = {}
    /\ ledger = [u \in Users |-> 0]
    /\ entries = 0

CreateScheduled(u) ==
    /\ status = "absent"
    /\ status' = "scheduled"
    /\ createdBy' = u
    /\ UNCHANGED <<reportedBy, votes, deadline, postDisputes, actions,
                   validationMode, stale, entries, resultVars, trustVars>>

\* A kiosk neither votes nor settles alone. A result created without scores
\* ("scored" false) has no author and no timer.
CreateReported(u, scored) ==
    LET author == IF scored THEN u ELSE NoUser
        v == [p \in Players |-> IF p = u THEN "agree" ELSE "none"]
    IN  /\ status = "absent"
        /\ entries < MaxEntries
        /\ createdBy' = u
        /\ reportedBy' = author
        /\ votes' = v
        /\ deadline' = IF scored THEN NewDeadline ELSE "none"
        /\ stale' = {}
        /\ entries' = entries + 1
        /\ IF u = Kiosk
           THEN CheckAndFinalize(v, author, actions, Ask(Players, "MATCH_VALIDATION"))
           ELSE SettleOrOpen(u, author, v)
        /\ UNCHANGED <<postDisputes, validationMode>>

\* Defect variant (of VotesAfterReport): a contestation survives the new entry.
VotesKeptAfterReport(u) == [p \in Players |-> IF p = u THEN "agree" ELSE votes[p]]

\* Only a report on a disputed match drops the votes of the others.
VotesAfterReport(u) ==
    [p \in Players |-> IF p = u THEN "agree"
                      ELSE IF status = "disputed" THEN "none" ELSE votes[p]]

ReportMatchResult(u) ==
    LET v == VotesAfterReport(u)
    IN  /\ status \in {"scheduled", "reported", "disputed"}
        /\ u \in Players \/ (u = Kiosk /\ createdBy = Kiosk)
        /\ entries < MaxEntries
        /\ reportedBy' = u
        /\ votes' = v
        /\ deadline' = NewDeadline
        /\ stale' = AgreeingOthers(v, u)
        /\ entries' = entries + 1
        /\ SettleOrOpen(u, u, v)
        /\ UNCHANGED <<createdBy, postDisputes, validationMode>>

\* runUpdateValidations: a cancelled match is not refused to an organizer.
MayUpdate(u) ==
    /\ status \in {"scheduled", "reported", "disputed", "cancelled"}
    /\ \/ u \in Admins
       \/ u \in Players /\ status = "scheduled"
       \/ u \in Players /\ status \in OpenStatuses /\ u \in {reportedBy, createdBy}

\* An update that moves the date only: every pending action is dropped.
Reschedule(u) ==
    /\ MayUpdate(u)
    /\ actions' = DeleteActions(actions)
    /\ UNCHANGED <<status, createdBy, reportedBy, votes, deadline, postDisputes,
                   validationMode, stale, entries, resultVars, trustVars>>

\* What both result updates share: new author and timer, then the vote count.
EnterUpdate(u, v) ==
    /\ entries < MaxEntries
    /\ entries' = entries + 1
    /\ reportedBy' = u
    /\ votes' = v
    /\ deadline' = NewDeadline
    /\ CheckAndFinalize(v, u, DeleteActions(actions),
                        Ask(Players \ {u}, "MATCH_VALIDATION"))
    /\ UNCHANGED <<createdBy, postDisputes, validationMode>>

\* handleResultRevision: the result fields of a reported match are corrected.
ReviseResult(u) ==
    /\ MayUpdate(u)
    /\ status \in OpenStatuses
    /\ EnterUpdate(u, [p \in Players |-> IF p = u THEN "agree" ELSE "none"])
    /\ stale' = {}

\* handleReportedUpdate: { status: "reported" } on a match without a result,
\* or on one whose result fields the request leaves alone.
ReportByUpdate(u) ==
    LET v == [p \in Players |-> IF p = u THEN "agree" ELSE votes[p]]
    IN  /\ MayUpdate(u)
        /\ EnterUpdate(u, v)
        /\ stale' = IF status \in OpenStatuses THEN stale \ {u}
                    ELSE AgreeingOthers(v, u)

-----------------------------------------------------------------------------
(* Votes before finalization *)

\* applyDisputeWithdrawal: the organizers no longer have to arbitrate.
DropArbitration(acts) == DeleteActionsOfType(acts, "MATCH_DISPUTE_ESCALATED")

\* recordAgreement: the last contester to agree re-opens a validation round.
Agree(p) ==
    LET v == [votes EXCEPT ![p] = "agree"]
        withdrawn == status = "disputed" /\ ~Contested(v)
        kept == IF withdrawn THEN DropArbitration(actions) ELSE actions
        acts == DeleteActionsForUser(kept, p)
    IN  /\ status \in OpenStatuses
        /\ votes' = v
        /\ stale' = stale \ {p}
        /\ deadline' = IF withdrawn THEN NewDeadline ELSE deadline
        /\ IF status = "reported" \/ withdrawn
           THEN CheckAndFinalize(v, reportedBy, acts, {})
           ELSE RemainsOpen("disputed", acts)
        /\ UNCHANGED <<createdBy, reportedBy, postDisputes, validationMode, entries>>

\* applyDisputeOutcome: the timer stops, the organizers are asked to arbitrate.
DisputeOutcome(p) ==
    /\ status' = "disputed"
    /\ deadline' = "none"
    /\ actions' = DeleteActionsForUser(actions, p)
                    \cup Ask(Admins, "MATCH_DISPUTE_ESCALATED")

\* A contestation resets the author's trust score.
Contest(p) ==
    /\ status \in OpenStatuses
    /\ DisputeOutcome(p)
    /\ votes' = [votes EXCEPT ![p] = "contest"]
    /\ stale' = stale \ {p}
    /\ trust' = IF reportedBy = NoUser THEN trust ELSE [trust EXCEPT ![reportedBy] = 0]
    /\ UNCHANGED <<createdBy, reportedBy, postDisputes, validationMode, entries,
                   ledger, resultVars>>

-----------------------------------------------------------------------------
(* Finalization by the timer and by an organizer *)

\* Defect variant (of Expired): the timer is read in the mode that set it only.
ExpiredInAutoMode == deadline = "expired" /\ validationMode = "auto"

Expired == deadline = "expired"

AutoFinalizeExpired ==
    /\ status = "reported"
    /\ Expired
    /\ ~Contested(votes)
    /\ Settle("auto_validation", NoUser, reportedBy)
    /\ UNCHANGED <<createdBy, reportedBy, votes, deadline, postDisputes,
                   validationMode, stale, entries>>

FinalizeByOrganizer(u) ==
    /\ u \in Admins
    /\ CanFinalize(status)
    /\ Settle("admin_override", u, reportedBy)
    /\ UNCHANGED <<createdBy, reportedBy, votes, deadline, postDisputes,
                   validationMode, stale, entries>>

-----------------------------------------------------------------------------
(* After finalization: disputes, corrections, cancellation *)

PostDispute(p) ==
    /\ status = "finalized"
    /\ validationMode \in {"auto", "none"}
    /\ finalizationReason \in SelfValidated
    /\ finalizedAt \in {"fresh", "late"}
    /\ p \notin postDisputes
    /\ postDisputes' = postDisputes \cup {p}
    /\ actions' = actions \cup Ask(Admins \ {p}, "MATCH_POST_DISPUTE")
    /\ trust' = IF reportedBy \in {NoUser, p} THEN trust
                ELSE [trust EXCEPT ![reportedBy] = 0]
    /\ UNCHANGED <<status, createdBy, reportedBy, votes, deadline, validationMode,
                   stale, entries, ledger, resultVars>>

WithdrawPostDispute(p) ==
    /\ status = "finalized"
    /\ p \in postDisputes
    /\ postDisputes' = postDisputes \ {p}
    /\ actions' = DeleteActionsOfType(actions, "MATCH_POST_DISPUTE")
    /\ UNCHANGED <<status, createdBy, reportedBy, votes, deadline, validationMode,
                   stale, entries, resultVars, trustVars>>

OwnSide(u) == {u} \cup (IF u \in Players THEN SideOf(u) ELSE {})

OpposingPostDispute == \E p \in postDisputes : p \notin OwnSide(reportedBy)

\* getFinalizedAmendRights: 48 hours ("fresh"), or 7 days ("late" too) while
\* the other side contests; an organizer is never timed out.
MayAmend(u) ==
    /\ status = "finalized"
    /\ CompetitionMode \in {"championship", "ranked"}
    /\ \/ u \in Admins
       \/ /\ finalizationReason \in SelfValidated
          /\ reportedBy = u
          /\ \/ finalizedAt = "fresh"
             \/ finalizedAt = "late" /\ OpposingPostDispute

Penalized(u, kind) ==
    IF u \in Admins
    THEN OpposingPostDispute \/ finalizationReason \in SelfValidated
    ELSE kind = "cancel"

\* Defect variant (of Decremented): no floor.
DecrementedBelowZero(n) == n - 1

\* decrementTrustScore: GREATEST(trust_score_count - 1, 0).
Decremented(n) == IF n > 0 THEN n - 1 ELSE 0

\* Defect variant (of DisputesAfterAmendment): the contestations are not lifted.
DisputesKept == postDisputes

DisputesAfterAmendment == {}

\* settleFinalizedAmendment: lifts the contestations, may cost the author a point.
SettleAmendment(u, kind) ==
    /\ postDisputes' = DisputesAfterAmendment
    /\ IF Penalized(u, kind) /\ reportedBy # NoUser
       THEN /\ trust' = [trust EXCEPT ![reportedBy] = Decremented(@)]
            /\ ledger' = [ledger EXCEPT ![reportedBy] = @ - 1]
       ELSE UNCHANGED trustVars

\* Defect variant (of CorrectedReason): the settled reason is kept.
ReasonKept(u) == finalizationReason

\* An organizer's correction becomes their decision.
CorrectedReason(u) == IF u \in Admins THEN "admin_override" ELSE finalizationReason

CorrectFinalized(u) ==
    /\ u # Kiosk
    /\ MayAmend(u)
    /\ finalizationReason' = CorrectedReason(u)
    /\ SettleAmendment(u, "correct")
    /\ actions' = IF postDisputes = {} THEN actions
                  ELSE DeleteActionsOfType(actions, "MATCH_POST_DISPUTE")
    /\ UNCHANGED <<status, createdBy, reportedBy, votes, deadline, validationMode,
                   stale, entries, finalizedAt, settledBy>>

\* checkCancelPermissions, and the kiosk's own rule.
MayCancel(u) ==
    IF u = Kiosk THEN createdBy = Kiosk
    ELSE \/ u \in Admins
         \/ /\ u \in Players
            /\ CompetitionMode # "bracket"
            /\ status \in OpenStatuses => reportedBy = u

CancelOpen(u) ==
    /\ status \in {"scheduled", "reported", "disputed"}
    /\ MayCancel(u)
    /\ status' = "cancelled"
    /\ actions' = DeleteActions(actions)
    /\ UNCHANGED <<createdBy, reportedBy, votes, deadline, postDisputes,
                   validationMode, stale, entries, resultVars, trustVars>>

CancelFinalized(u) ==
    /\ MayCancel(u)
    /\ MayAmend(u)
    /\ status' = "cancelled"
    /\ SettleAmendment(u, "cancel")
    /\ actions' = DeleteActions(actions)
    /\ UNCHANGED <<createdBy, reportedBy, votes, deadline, validationMode,
                   stale, entries, resultVars>>

\* The rows of the match go with it; the users' trust scores stay.
DeleteMatch(u) ==
    /\ u \in Admins
    /\ status \in {"scheduled", "reported", "disputed", "cancelled"}
    /\ status' = "deleted"
    /\ createdBy' = NoUser
    /\ reportedBy' = NoUser
    /\ votes' = [p \in Players |-> "none"]
    /\ deadline' = "none"
    /\ finalizationReason' = "none"
    /\ finalizedAt' = "none"
    /\ settledBy' = "none"
    /\ actions' = DeleteActions(actions)
    /\ stale' = {}
    /\ UNCHANGED <<postDisputes, validationMode, entries, trustVars>>

-----------------------------------------------------------------------------
(* The competition and the clock *)

\* The validation mode may be edited at any time, matches under way included.
ChangeValidationMode(m) ==
    /\ m # validationMode
    /\ validationMode' = m
    /\ UNCHANGED <<status, createdBy, reportedBy, votes, deadline, postDisputes,
                   actions, stale, entries, resultVars, trustVars>>

\* The timer runs out. Read on reported matches only, so it only moves there.
DeadlinePasses ==
    /\ status = "reported"
    /\ deadline = "running"
    /\ deadline' = "expired"
    /\ UNCHANGED <<status, createdBy, reportedBy, votes, postDisputes, actions,
                   validationMode, stale, entries, resultVars, trustVars>>

\* 48 hours, then 7 days, after the stored finalization date.
WindowCloses ==
    /\ finalizedAt \in {"fresh", "late"}
    /\ finalizedAt' = IF finalizedAt = "fresh" THEN "late" ELSE "closed"
    /\ UNCHANGED <<status, createdBy, reportedBy, votes, deadline, postDisputes,
                   actions, validationMode, stale, entries, finalizationReason,
                   settledBy, trustVars>>

UserStep(u) ==
    \/ CreateScheduled(u)
    \/ \E scored \in BOOLEAN : CreateReported(u, scored)
    \/ ReportMatchResult(u)
    \/ Reschedule(u)
    \/ ReviseResult(u)
    \/ ReportByUpdate(u)
    \/ FinalizeByOrganizer(u)
    \/ CorrectFinalized(u)
    \/ CancelOpen(u)
    \/ CancelFinalized(u)
    \/ DeleteMatch(u)

PlayerStep(p) ==
    \/ Agree(p)
    \/ Contest(p)
    \/ PostDispute(p)
    \/ WithdrawPostDispute(p)

Next ==
    \/ \E u \in Users : UserStep(u)
    \/ \E p \in Players : PlayerStep(p)
    \/ \E m \in ValidationModes : ChangeValidationMode(m)
    \/ AutoFinalizeExpired
    \/ DeadlinePasses
    \/ WindowCloses

Spec == Init /\ [][Next]_vars

\* Time passes and the hourly job runs; no user is obliged to do anything.
FairSpec == Spec /\ WF_vars(DeadlinePasses) /\ WF_vars(AutoFinalizeExpired)

-----------------------------------------------------------------------------
(* Properties *)

\* The players with a live contestation, read off the votes.
LiveContesters == {p \in Players : votes[p] = "contest"}

\* Every variable keeps its type; in particular a trust score is never negative:
\* decrementTrustScore floors it.
TypeOK ==
    /\ status \in Statuses
    /\ createdBy \in Users \cup {NoUser}
    /\ reportedBy \in Users \cup {NoUser}
    /\ votes \in [Players -> {"none", "agree", "contest"}]
    /\ deadline \in {"none", "running", "expired"}
    /\ finalizationReason \in Reasons \cup {"none"}
    /\ settledBy \in Reasons \cup {"none"}
    /\ finalizedAt \in {"none", "fresh", "late", "closed"}
    /\ postDisputes \subseteq Players
    /\ actions \subseteq Users \X Tasks
    /\ validationMode \in ValidationModes
    /\ trust \in [Users -> Nat]
    /\ stale \subseteq Players
    /\ ledger \in [Users -> Int]
    /\ entries \in 0..MaxEntries

\* A result is disputed exactly as long as somebody contests it: no sequence of
\* votes, re-reports, revisions and withdrawals leaves a disputed match nobody
\* contests (it would wait for ever), or an uncontested status with a live
\* contestation (the timer would settle a disagreement).
DisputeMatchesVotes ==
    /\ status = "disputed" => LiveContesters # {}
    /\ status = "reported" => LiveContesters = {}

\* Neither the other players, nor the timer, nor the author's trust score end a
\* match somebody still contests: only an organizer does.
OnlyOrganizersOverrule ==
    status = "finalized" /\ LiveContesters # {} => settledBy = "admin_override"

\* Amending a finalized match takes back a point it gave, never two for one:
\* what a match costs its author's trust score is at most what it brought.
TrustLedgerNeverNegative == \A u \in Users : ledger[u] >= 0

\* A match finalized by consensus was signed by both sides: each holds the
\* author of the entry or a player who voted for it.
ConsensusOfBothSides ==
    status = "finalized" /\ settledBy = "consensus" =>
        \A side \in {SideA, SideB} :
            \E p \in side : p = reportedBy \/ votes[p] = "agree"

\* A contestation filed after finalization is never left behind on a match that
\* cannot be disputed (any more): a cancelled match, one an organizer decided.
OpenPostDisputesAreAnswerable ==
    postDisputes # {} => status = "finalized" /\ finalizationReason \in SelfValidated

\* Nobody is asked to act on a match that needs no action: once it is settled,
\* cancelled or deleted, what is left are arbitration requests, and only while
\* a contestation is open.
NoOrphanAction ==
    \A a \in actions :
        \/ status \in OpenStatuses
        \/ status = "finalized" /\ a[2] = "MATCH_POST_DISPUTE" /\ postDisputes # {}

\* Nobody has voted against a result that was never entered.
UncontestedBeforeReport == status \in {"absent", "scheduled"} => LiveContesters = {}

\* As long as a result counts as the author's own word, the author holds the
\* point it earned: what an amendment may take back is there.
SelfValidatedIsCredited ==
    status = "finalized" /\ finalizationReason \in SelfValidated /\ reportedBy # NoUser =>
        ledger[reportedBy] >= 1

\* The safety properties above, with the two facts that make them inductive.
LifecycleInv ==
    /\ TypeOK
    /\ DisputeMatchesVotes
    /\ UncontestedBeforeReport
    /\ OnlyOrganizersOverrule
    /\ ConsensusOfBothSides
    /\ OpenPostDisputesAreAnswerable
    /\ NoOrphanAction
    /\ SelfValidatedIsCredited
    /\ TrustLedgerNeverNegative

\* A reported match with a timer does not stay reported for ever: unless a new
\* result is entered, the timer runs out and the hourly job settles the match, or
\* somebody moves it before. It holds whatever validation mode the organizers
\* switch to meanwhile, and whatever votes are taken back.
TimedReportIsSettled ==
    \A n \in 1..MaxEntries :
        (status = "reported" /\ deadline # "none" /\ entries = n)
            ~> (status # "reported" \/ entries # n)

-----------------------------------------------------------------------------
(* The contract with the players, and how this specification implements it *)

PhaseOf(st) == CASE st \in {"absent", "scheduled"} -> "idle"
                 [] st \in OpenStatuses -> "open"
                 [] st = "finalized" -> "settled"
                 [] st = "cancelled" -> "void"
                 [] st = "deleted" -> "gone"

VerdictOf(why) == CASE why = "none" -> "none"
                    [] why = "admin_override" -> "organizer"
                    [] OTHER -> "players"

Contract == INSTANCE MatchContract WITH
    phase <- PhaseOf(status),
    contesters <- LiveContesters,
    verdict <- VerdictOf(settledBy)

\* Every handler and job does to the match what the contract with its players
\* allows, or nothing it can see: a contested result waits for an organizer, a
\* settled one is never reopened nor deleted, a match without a result is never
\* settled by anybody but its reporter.
ImplementsContract == Contract!Spec

-----------------------------------------------------------------------------
(* What the documentation or a comment says, and the code does not do *)

\* docs/src/pages/docs/matches.md: a result settled by the timer stays
\* contestable for seven days; contesting reads the stored reason and date.
TimerResultsStayDisputable ==
    status = "finalized" /\ settledBy = "auto_validation"
      /\ finalizationReason # "admin_override" =>
        finalizationReason \in SelfValidated /\ finalizedAt # "none"

\* match.service.ts, handleResultRevision: opponents must not be held to have
\* validated a result that no longer exists.
ConsensusOnTheFinalEntry ==
    status = "finalized" /\ settledBy = "consensus" =>
        \A side \in {SideA, SideB} :
            \E p \in side : p = reportedBy \/ (votes[p] = "agree" /\ p \notin stale)

\* match-notification.builder.ts: a dispute is in the organizers' list as an
\* action to complete, because nothing else settles it.
DisputeKeepsItsRequest ==
    status = "disputed" =>
        \E u \in Admins : <<u, "MATCH_DISPUTE_ESCALATED">> \in actions

\* docs/src/pages/docs/matches.md: in the admin mode only an organizer finalizes
\* a reported result.
AdminModeIsManual ==
    [][status # "finalized" /\ status' = "finalized" /\ validationMode = "admin"
         => settledBy' = "admin_override"]_vars

=============================================================================
