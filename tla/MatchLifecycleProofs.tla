------------------------ MODULE MatchLifecycleProofs ------------------------
(***************************************************************************)
(* Theorems about MatchLifecycle, for any two sides, any organizers, any   *)
(* trust threshold and any number of results entered.                      *)
(***************************************************************************)
EXTENDS MatchLifecycle, TLAPS

-----------------------------------------------------------------------------
(* Type correctness *)

\* The part of TypeOK that settling a match, or keeping it open, changes.
OutcomeTypeOK ==
    /\ status \in Statuses
    /\ finalizationReason \in Reasons \cup {"none"}
    /\ settledBy \in Reasons \cup {"none"}
    /\ finalizedAt \in {"none", "fresh", "late", "closed"}
    /\ actions \subseteq Users \X Tasks
    /\ trust \in [Users -> Nat]
    /\ ledger \in [Users -> Int]

\* Settling a match keeps the types, whoever settles it and whoever is credited.
LEMMA SettleType ==
    ASSUME TypeOK,
           NEW why \in Reasons, NEW by, NEW author \in Users \cup {NoUser},
           Settle(why, by, author)
    PROVE  OutcomeTypeOK'
<1>1. status' \in Statuses
    BY DEF Settle, Statuses
<1>2. /\ settledBy' \in Reasons \cup {"none"}
      /\ finalizationReason' \in Reasons \cup {"none"}
      /\ finalizedAt' \in {"none", "fresh", "late", "closed"}
    BY DEF Settle, TypeOK
<1>3. actions' \subseteq Users \X Tasks
    BY DEF Settle, DeleteActions
<1>4. trust' \in [Users -> Nat] /\ ledger' \in [Users -> Int]
    <2>1. CASE why # "admin_override" /\ author # NoUser
        <3>1. author \in Users
            BY <2>1
        <3>2. /\ trust' = [trust EXCEPT ![author] = @ + 1]
              /\ ledger' = [ledger EXCEPT ![author] = @ + 1]
            BY <2>1 DEF Settle
        <3> QED
            BY <3>1, <3>2 DEF TypeOK
    <2>2. CASE ~(why # "admin_override" /\ author # NoUser)
        BY <2>2 DEF Settle, trustVars, TypeOK
    <2> QED
        BY <2>1, <2>2
<1> QED
    BY <1>1, <1>2, <1>3, <1>4 DEF OutcomeTypeOK

\* Keeping a match open keeps the types.
LEMMA RemainsOpenType ==
    ASSUME TypeOK, NEW st \in OpenStatuses, NEW acts,
           acts \subseteq Users \X Tasks, RemainsOpen(st, acts)
    PROVE  OutcomeTypeOK'
BY DEF RemainsOpen, OutcomeTypeOK, TypeOK, OpenStatuses, Statuses, resultVars, trustVars

\* So does the vote count, whatever the votes are.
LEMMA CheckAndFinalizeType ==
    ASSUME TypeOK, NEW v, NEW author \in Users \cup {NoUser}, NEW acts, NEW notices,
           acts \subseteq Users \X Tasks, notices \subseteq Users \X Tasks,
           CheckAndFinalize(v, author, acts, notices)
    PROVE  OutcomeTypeOK'
<1>1. CASE RemainsOpen("disputed", acts)
    BY <1>1, RemainsOpenType DEF OpenStatuses
<1>2. CASE Settle("consensus", NoUser, author)
    BY <1>2, SettleType DEF Reasons
<1>3. CASE RemainsOpen("reported", acts \cup notices)
    <2>1. acts \cup notices \subseteq Users \X Tasks
        OBVIOUS
    <2> QED
        BY <1>3, <2>1, RemainsOpenType DEF OpenStatuses
<1> QED
    BY <1>1, <1>2, <1>3 DEF CheckAndFinalize

LEMMA AskType ==
    ASSUME NEW recipients, recipients \subseteq Users, NEW type \in Tasks
    PROVE  Ask(recipients, type) \subseteq Users \X Tasks
BY DEF Ask

LEMMA SettleOrOpenType ==
    ASSUME TypeOK, NEW u, NEW author \in Users \cup {NoUser}, NEW v,
           SettleOrOpen(u, author, v)
    PROVE  OutcomeTypeOK'
<1>1. CASE Settle("auto_validation", u, author)
    BY <1>1, SettleType DEF Reasons
<1>2. CASE Settle("trust_score", u, author)
    BY <1>2, SettleType DEF Reasons
<1>3. CASE CheckAndFinalize(v, author, actions, Ask(Players \ {u}, "MATCH_VALIDATION"))
    <2>1. Ask(Players \ {u}, "MATCH_VALIDATION") \subseteq Users \X Tasks
        BY AskType DEF Tasks, Users
    <2>2. actions \subseteq Users \X Tasks
        BY DEF TypeOK
    <2> QED
        BY <1>3, <2>1, <2>2, CheckAndFinalizeType
<1> QED
    BY <1>1, <1>2, <1>3 DEF SettleOrOpen

\* What the handlers that enter a result write besides the outcome.
EntryTypeOK ==
    /\ createdBy \in Users \cup {NoUser}
    /\ reportedBy \in Users \cup {NoUser}
    /\ votes \in [Players -> {"none", "agree", "contest"}]
    /\ deadline \in {"none", "running", "expired"}
    /\ postDisputes \subseteq Players
    /\ validationMode \in ValidationModes
    /\ stale \subseteq Players
    /\ entries \in 0..MaxEntries

LEMMA TypeSplit == TypeOK <=> OutcomeTypeOK /\ EntryTypeOK
BY DEF TypeOK, OutcomeTypeOK, EntryTypeOK

LEMMA TypeSplitNext == TypeOK' <=> OutcomeTypeOK' /\ EntryTypeOK'
BY DEF TypeOK, OutcomeTypeOK, EntryTypeOK

\* The handlers that enter a result: creation, report, update.
LEMMA EntryStepType ==
    ASSUME TypeOK, NEW u \in Users,
           \/ \E scored \in BOOLEAN : CreateReported(u, scored)
           \/ ReportMatchResult(u)
           \/ ReviseResult(u)
           \/ ReportByUpdate(u)
    PROVE  TypeOK'
<1>1. ASSUME NEW scored \in BOOLEAN, CreateReported(u, scored)
      PROVE  TypeOK'
    <2> DEFINE author == IF scored THEN u ELSE NoUser
               v == [p \in Players |-> IF p = u THEN "agree" ELSE "none"]
    <2>1. EntryTypeOK'
        BY <1>1, ConfigAssumption
        DEF CreateReported, TypeOK, EntryTypeOK, NewDeadline
    <2>2. author \in Users \cup {NoUser}
        OBVIOUS
    <2>3. \/ CheckAndFinalize(v, author, actions, Ask(Players, "MATCH_VALIDATION"))
          \/ SettleOrOpen(u, author, v)
        BY <1>1 DEF CreateReported
    <2>4. CASE CheckAndFinalize(v, author, actions, Ask(Players, "MATCH_VALIDATION"))
        <3>1. Ask(Players, "MATCH_VALIDATION") \subseteq Users \X Tasks
            BY AskType DEF Tasks, Users
        <3>2. actions \subseteq Users \X Tasks
            BY DEF TypeOK
        <3>3. OutcomeTypeOK'
            BY <2>2, <2>4, <3>1, <3>2, CheckAndFinalizeType
        <3> QED
            BY <2>1, <3>3, TypeSplitNext
    <2>5. CASE SettleOrOpen(u, author, v)
        <3>1. OutcomeTypeOK'
            BY <2>2, <2>5, SettleOrOpenType
        <3> QED
            BY <2>1, <3>1, TypeSplitNext
    <2> QED
        BY <2>3, <2>4, <2>5
<1>2. CASE ReportMatchResult(u)
    <2>1. EntryTypeOK'
        BY <1>2, ConfigAssumption
        DEF ReportMatchResult, TypeOK, EntryTypeOK, NewDeadline, VotesAfterReport,
            AgreeingOthers
    <2>2. SettleOrOpen(u, u, VotesAfterReport(u))
        BY <1>2 DEF ReportMatchResult
    <2>3. OutcomeTypeOK'
        BY <2>2, SettleOrOpenType
    <2> QED
        BY <2>1, <2>3, TypeSplitNext
<1>3. ASSUME NEW v, EnterUpdate(u, v)
      PROVE  OutcomeTypeOK'
    <2>1. CheckAndFinalize(v, u, DeleteActions(actions), Ask(Players \ {u}, "MATCH_VALIDATION"))
        BY <1>3 DEF EnterUpdate
    <2>2. Ask(Players \ {u}, "MATCH_VALIDATION") \subseteq Users \X Tasks
        BY AskType DEF Tasks, Users
    <2>3. DeleteActions(actions) \subseteq Users \X Tasks
        BY DEF DeleteActions
    <2> QED
        BY <2>1, <2>2, <2>3, CheckAndFinalizeType
<1>4. CASE ReviseResult(u)
    <2>1. EntryTypeOK'
        BY <1>4, ConfigAssumption
        DEF ReviseResult, EnterUpdate, TypeOK, EntryTypeOK, NewDeadline
    <2>2. OutcomeTypeOK'
        BY <1>3, <1>4 DEF ReviseResult
    <2> QED
        BY <2>1, <2>2, TypeSplitNext
<1>5. CASE ReportByUpdate(u)
    <2>1. EntryTypeOK'
        BY <1>5, ConfigAssumption
        DEF ReportByUpdate, EnterUpdate, TypeOK, EntryTypeOK, NewDeadline, AgreeingOthers
    <2>2. OutcomeTypeOK'
        BY <1>3, <1>5 DEF ReportByUpdate
    <2> QED
        BY <2>1, <2>2, TypeSplitNext
<1> QED
    BY <1>1, <1>2, <1>4, <1>5

\* The votes and disputes of the players.
LEMMA PlayerStepType ==
    ASSUME TypeOK, NEW p \in Players, PlayerStep(p)
    PROVE  TypeOK'
<1>1. CASE Agree(p)
    <2> DEFINE v == [votes EXCEPT ![p] = "agree"]
               withdrawn == status = "disputed" /\ ~Contested(v)
               kept == IF withdrawn
                       THEN DropArbitration(actions)
                       ELSE actions
               acts == DeleteActionsForUser(kept, p)
    <2>1. EntryTypeOK'
        BY <1>1 DEF Agree, TypeOK, EntryTypeOK, NewDeadline
    <2>2. acts \subseteq Users \X Tasks
        BY DEF DropArbitration, DeleteActionsForUser, DeleteActionsOfType, TypeOK
    <2>3. CheckAndFinalize(v, reportedBy, acts, {}) \/ RemainsOpen("disputed", acts)
        BY <1>1 DEF Agree
    <2>4. OutcomeTypeOK'
        <3>1. reportedBy \in Users \cup {NoUser} /\ {} \subseteq Users \X Tasks
            BY DEF TypeOK
        <3> HIDE DEF v, acts
        <3> QED
            BY <2>2, <2>3, <3>1, CheckAndFinalizeType, RemainsOpenType DEF OpenStatuses
    <2> QED
        BY <2>1, <2>4, TypeSplitNext
<1>2. CASE Contest(p)
    <2>1. actions' \subseteq Users \X Tasks
        <3>1. Ask(Admins, "MATCH_DISPUTE_ESCALATED") \subseteq Users \X Tasks
            BY AskType DEF Tasks, Users
        <3> QED
            BY <1>2, <3>1 DEF Contest, DisputeOutcome, DeleteActionsForUser, TypeOK
    <2>2. trust' \in [Users -> Nat]
        BY <1>2 DEF Contest, DisputeOutcome, TypeOK
    <2> QED
        BY <1>2, <2>1, <2>2 DEF Contest, DisputeOutcome, TypeOK, Statuses, resultVars
<1>3. CASE PostDispute(p)
    <2>1. actions' \subseteq Users \X Tasks
        <3>1. Ask(Admins \ {p}, "MATCH_POST_DISPUTE") \subseteq Users \X Tasks
            BY AskType DEF Tasks, Users
        <3> QED
            BY <1>3, <3>1 DEF PostDispute, TypeOK
    <2>2. trust' \in [Users -> Nat]
        BY <1>3 DEF PostDispute, TypeOK
    <2> QED
        BY <1>3, <2>1, <2>2 DEF PostDispute, TypeOK, resultVars
<1>4. CASE WithdrawPostDispute(p)
    BY <1>4 DEF WithdrawPostDispute, TypeOK, DeleteActionsOfType, resultVars, trustVars
<1> QED
    BY <1>1, <1>2, <1>3, <1>4 DEF PlayerStep

\* A correction or a cancellation of a finalized match.
LEMMA SettleAmendmentType ==
    ASSUME TypeOK, NEW u \in Users, NEW kind, SettleAmendment(u, kind)
    PROVE  /\ postDisputes' \subseteq Players
           /\ trust' \in [Users -> Nat]
           /\ ledger' \in [Users -> Int]
<1>1. CASE Penalized(u, kind) /\ reportedBy # NoUser
    <2>1. reportedBy \in Users
        BY <1>1 DEF TypeOK
    <2>2. /\ trust' = [trust EXCEPT ![reportedBy] = Decremented(@)]
          /\ ledger' = [ledger EXCEPT ![reportedBy] = @ - 1]
        BY <1>1 DEF SettleAmendment
    <2> QED
        BY <2>1, <2>2 DEF SettleAmendment, DisputesAfterAmendment, Decremented, TypeOK
<1>2. CASE ~(Penalized(u, kind) /\ reportedBy # NoUser)
    BY <1>2 DEF SettleAmendment, DisputesAfterAmendment, TypeOK, trustVars
<1> QED
    BY <1>1, <1>2

\* Type invariant: every handler and job keeps every variable in its domain. The
\* trust scores stay naturals although two handlers take points back.
THEOREM TypeCorrect == Spec => []TypeOK
<1>1. Init => TypeOK
    <2> SUFFICES ASSUME Init
                 PROVE  TypeOK
        OBVIOUS
    <2>1. trust \in [Users -> Nat]
        BY ConfigAssumption DEF Init
    <2>2. ledger \in [Users -> Int] /\ votes \in [Players -> {"none", "agree", "contest"}]
        BY DEF Init
    <2>3. entries \in 0..MaxEntries
        BY ConfigAssumption DEF Init
    <2> QED
        BY <2>1, <2>2, <2>3 DEF Init, TypeOK, Statuses
<1>2. TypeOK /\ [Next]_vars => TypeOK'
    <2> SUFFICES ASSUME TypeOK, [Next]_vars
                 PROVE  TypeOK'
        OBVIOUS
    <2>1. ASSUME NEW u \in Users, UserStep(u)
          PROVE  TypeOK'
        <3>1. CASE CreateScheduled(u)
            BY <3>1 DEF CreateScheduled, TypeOK, Statuses, resultVars, trustVars
        <3>2. CASE \E scored \in BOOLEAN : CreateReported(u, scored)
            BY <3>2, EntryStepType
        <3>3. CASE ReportMatchResult(u)
            BY <3>3, EntryStepType
        <3>4. CASE Reschedule(u)
            BY <3>4 DEF Reschedule, DeleteActions, TypeOK, resultVars, trustVars
        <3>5. CASE ReviseResult(u)
            BY <3>5, EntryStepType
        <3>6. CASE ReportByUpdate(u)
            BY <3>6, EntryStepType
        <3>7. CASE FinalizeByOrganizer(u)
            <4>1. OutcomeTypeOK'
                BY <3>7, SettleType DEF FinalizeByOrganizer, Reasons, TypeOK
            <4>2. EntryTypeOK'
                BY <3>7 DEF FinalizeByOrganizer, TypeOK, EntryTypeOK
            <4> QED
                BY <4>1, <4>2, TypeSplitNext
        <3>8. CASE CorrectFinalized(u)
            <4>1. SettleAmendment(u, "correct")
                BY <3>8 DEF CorrectFinalized
            <4>2. /\ postDisputes' \subseteq Players
                  /\ trust' \in [Users -> Nat]
                  /\ ledger' \in [Users -> Int]
                BY <4>1, SettleAmendmentType
            <4>3. /\ finalizationReason' \in Reasons \cup {"none"}
                  /\ actions' \subseteq Users \X Tasks
                BY <3>8 DEF CorrectFinalized, CorrectedReason, Reasons,
                            DeleteActionsOfType, TypeOK
            <4> QED
                BY <3>8, <4>2, <4>3 DEF CorrectFinalized, TypeOK
        <3>9. CASE CancelOpen(u)
            BY <3>9 DEF CancelOpen, DeleteActions, TypeOK, Statuses, resultVars, trustVars
        <3>10. CASE CancelFinalized(u)
            <4>1. SettleAmendment(u, "cancel")
                BY <3>10 DEF CancelFinalized
            <4>2. /\ postDisputes' \subseteq Players
                  /\ trust' \in [Users -> Nat]
                  /\ ledger' \in [Users -> Int]
                BY <4>1, SettleAmendmentType
            <4> QED
                BY <3>10, <4>2 DEF CancelFinalized, DeleteActions, TypeOK, Statuses,
                                   resultVars
        <3>11. CASE DeleteMatch(u)
            BY <3>11 DEF DeleteMatch, DeleteActions, TypeOK, Statuses, trustVars
        <3> QED
            BY <2>1, <3>1, <3>2, <3>3, <3>4, <3>5, <3>6, <3>7, <3>8, <3>9, <3>10, <3>11
            DEF UserStep
    <2>2. ASSUME NEW p \in Players, PlayerStep(p)
          PROVE  TypeOK'
        BY <2>2, PlayerStepType
    <2>3. ASSUME NEW m \in ValidationModes, ChangeValidationMode(m)
          PROVE  TypeOK'
        BY <2>3 DEF ChangeValidationMode, TypeOK, resultVars, trustVars
    <2>4. CASE AutoFinalizeExpired
        <3>1. OutcomeTypeOK'
            BY <2>4, SettleType DEF AutoFinalizeExpired, Reasons, TypeOK
        <3>2. EntryTypeOK'
            BY <2>4 DEF AutoFinalizeExpired, TypeOK, EntryTypeOK
        <3> QED
            BY <3>1, <3>2, TypeSplitNext
    <2>5. CASE DeadlinePasses
        BY <2>5 DEF DeadlinePasses, TypeOK, resultVars, trustVars
    <2>6. CASE WindowCloses
        BY <2>6 DEF WindowCloses, TypeOK, trustVars
    <2>7. CASE UNCHANGED vars
        BY <2>7 DEF vars, resultVars, trustVars, TypeOK
    <2> QED
        BY <2>1, <2>2, <2>3, <2>4, <2>5, <2>6, <2>7 DEF Next
<1> QED
    BY <1>1, <1>2, PTL DEF Spec
-----------------------------------------------------------------------------
(* The inductive invariant *)

\* LifecycleInv without its type part, which TypeCorrect carries.
StateInv ==
    /\ DisputeMatchesVotes
    /\ UncontestedBeforeReport
    /\ OnlyOrganizersOverrule
    /\ ConsensusOfBothSides
    /\ OpenPostDisputesAreAnswerable
    /\ NoOrphanAction
    /\ SelfValidatedIsCredited
    /\ TrustLedgerNeverNegative

\* Settling a match for a reason its votes allow, with the author credited.
LEMMA SettleInv ==
    ASSUME TypeOK, StateInv, status # "finalized",
           NEW why \in Reasons, NEW by, NEW author \in Users \cup {NoUser},
           Settle(why, by, author),
           reportedBy' = author,
           postDisputes' = postDisputes,
           why = "admin_override" => by # NoUser,
           why # "admin_override" => ~Contested(votes'),
           why = "consensus" => Agreed(votes', author)
    PROVE  StateInv'
<1>1. /\ status' = "finalized"
      /\ settledBy' = why
      /\ actions' = {}
    BY DEF Settle, DeleteActions
<1>2. postDisputes' = {}
    BY DEF StateInv, OpenPostDisputesAreAnswerable
<1>3. DisputeMatchesVotes' /\ UncontestedBeforeReport'
    BY <1>1 DEF DisputeMatchesVotes, UncontestedBeforeReport, LiveContesters, Contested
<1>4. OnlyOrganizersOverrule'
    BY <1>1 DEF OnlyOrganizersOverrule, LiveContesters, Contested
<1>5. ConsensusOfBothSides'
    <2> SUFFICES ASSUME why = "consensus", NEW side \in {SideA, SideB}
                 PROVE  \E p \in side : p = author \/ votes'[p] = "agree"
        BY <1>1 DEF ConsensusOfBothSides
    <2>1. Agreed(votes', author)
        OBVIOUS
    <2>2. \A s \in ConfirmedSides(votes') : \E p \in s : votes'[p] = "agree"
        BY DEF ConfirmedSides, SideOf, Players
    <2>3. CASE author \in Players
        <3>1. PICK s \in ConfirmedSides(votes') : s # SideOf(author)
            BY <2>1, <2>3 DEF Agreed
        <3>2. s \in {SideA, SideB} /\ SideOf(author) \in {SideA, SideB}
            BY DEF ConfirmedSides, SideOf
        <3>3. author \in SideOf(author)
            BY <2>3 DEF SideOf, Players
        <3>4. CASE side = s
            BY <2>2, <3>4
        <3>5. CASE side = SideOf(author)
            BY <3>3, <3>5
        <3> QED
            BY <3>1, <3>2, <3>4, <3>5
    <2>4. CASE author \notin Players
        BY <2>1, <2>2, <2>4 DEF Agreed
    <2> QED
        BY <2>3, <2>4
<1>6. OpenPostDisputesAreAnswerable' /\ NoOrphanAction'
    BY <1>1, <1>2 DEF OpenPostDisputesAreAnswerable, NoOrphanAction
<1>7. SelfValidatedIsCredited' /\ TrustLedgerNeverNegative'
    <2>1. CASE why # "admin_override" /\ author # NoUser
        <3>1. author \in Users /\ ledger \in [Users -> Int]
            BY <2>1 DEF TypeOK
        <3>2. ledger' = [ledger EXCEPT ![author] = @ + 1]
            BY <2>1 DEF Settle
        <3>3. \A u \in Users : ledger[u] >= 0
            BY DEF StateInv, TrustLedgerNeverNegative
        <3>4. ledger'[author] >= 1
            BY <3>1, <3>2, <3>3
        <3>5. \A u \in Users : ledger'[u] >= 0
            BY <3>1, <3>2, <3>3
        <3> QED
            BY <3>4, <3>5 DEF SelfValidatedIsCredited, TrustLedgerNeverNegative
    <2>2. CASE why = "admin_override"
        <3>1. ledger' = ledger /\ finalizationReason' = "admin_override"
            BY <2>2 DEF Settle, trustVars
        <3> QED
            BY <3>1 DEF StateInv, SelfValidatedIsCredited, TrustLedgerNeverNegative,
                        SelfValidated
    <2>3. CASE author = NoUser
        <3>1. ledger' = ledger
            BY <2>3 DEF Settle, trustVars
        <3> QED
            BY <2>3, <3>1 DEF StateInv, SelfValidatedIsCredited, TrustLedgerNeverNegative
    <2> QED
        BY <2>1, <2>2, <2>3
<1> QED
    BY <1>3, <1>4, <1>5, <1>6, <1>7 DEF StateInv

\* A match that is, and stays, without a final result: what is left to show is
\* that its status agrees with the votes.
LEMMA OpenInv ==
    ASSUME StateInv, status # "finalized", status' \in OpenStatuses,
           postDisputes' = postDisputes, ledger' = ledger,
           status' = "disputed" <=> Contested(votes')
    PROVE  StateInv'
<1>1. postDisputes' = {}
    BY DEF StateInv, OpenPostDisputesAreAnswerable
<1>2. DisputeMatchesVotes' /\ UncontestedBeforeReport'
    BY DEF DisputeMatchesVotes, UncontestedBeforeReport, OpenStatuses,
           LiveContesters, Contested
<1>3. OnlyOrganizersOverrule' /\ ConsensusOfBothSides' /\ SelfValidatedIsCredited'
    BY DEF OnlyOrganizersOverrule, ConsensusOfBothSides, SelfValidatedIsCredited,
           OpenStatuses, LiveContesters, Contested
<1>4. OpenPostDisputesAreAnswerable' /\ NoOrphanAction'
    BY <1>1 DEF OpenPostDisputesAreAnswerable, NoOrphanAction
<1>5. TrustLedgerNeverNegative'
    BY DEF StateInv, TrustLedgerNeverNegative
<1> QED
    BY <1>2, <1>3, <1>4, <1>5 DEF StateInv

\* The vote count: it disputes a contested entry, settles an agreed one, and
\* leaves the others reported.
LEMMA CheckAndFinalizeInv ==
    ASSUME TypeOK, StateInv, status # "finalized",
           NEW author \in Users \cup {NoUser}, NEW acts, NEW notices,
           CheckAndFinalize(votes', author, acts, notices),
           reportedBy' = author,
           postDisputes' = postDisputes
    PROVE  StateInv'
<1>1. CASE Contested(votes') /\ RemainsOpen("disputed", acts)
    BY <1>1, OpenInv DEF RemainsOpen, OpenStatuses, trustVars
<1>2. CASE ~Contested(votes') /\ Agreed(votes', author)
             /\ Settle("consensus", NoUser, author)
    BY <1>2, SettleInv DEF Reasons
<1>3. CASE ~Contested(votes') /\ RemainsOpen("reported", acts \cup notices)
    BY <1>3, OpenInv DEF RemainsOpen, OpenStatuses, trustVars
<1> QED
    BY <1>1, <1>2, <1>3 DEF CheckAndFinalize

LEMMA SettleOrOpenInv ==
    ASSUME TypeOK, StateInv, status # "finalized",
           NEW u \in Users, NEW author \in Users \cup {NoUser},
           SettleOrOpen(u, author, votes'),
           ~Contested(votes'),
           reportedBy' = author,
           postDisputes' = postDisputes
    PROVE  StateInv'
<1>1. CASE Settle("auto_validation", u, author)
    BY <1>1, SettleInv DEF Reasons
<1>2. CASE Settle("trust_score", u, author)
    BY <1>2, SettleInv DEF Reasons
<1>3. CASE CheckAndFinalize(votes', author, actions, Ask(Players \ {u}, "MATCH_VALIDATION"))
    BY <1>3, CheckAndFinalizeInv
<1> QED
    BY <1>1, <1>2, <1>3 DEF SettleOrOpen

\* The handlers that enter a result. A report that may settle alone is never
\* made over a live contestation: it drops those of the others.
LEMMA EntryStepInv ==
    ASSUME TypeOK, StateInv, NEW u \in Users,
           \/ \E scored \in BOOLEAN : CreateReported(u, scored)
           \/ ReportMatchResult(u)
           \/ ReviseResult(u)
           \/ ReportByUpdate(u)
    PROVE  StateInv'
<1>1. ASSUME NEW scored \in BOOLEAN, CreateReported(u, scored)
      PROVE  StateInv'
    <2> DEFINE author == IF scored THEN u ELSE NoUser
    <2>1. votes' = [p \in Players |-> IF p = u THEN "agree" ELSE "none"]
        BY <1>1 DEF CreateReported
    <2>2. /\ status # "finalized"
          /\ reportedBy' = author
          /\ postDisputes' = postDisputes
          /\ \/ CheckAndFinalize(votes', author, actions, Ask(Players, "MATCH_VALIDATION"))
             \/ SettleOrOpen(u, author, votes')
        BY <1>1, <2>1 DEF CreateReported
    <2>3. ~Contested(votes')
        BY <2>1 DEF Contested
    <2> QED
        BY <2>2, <2>3, CheckAndFinalizeInv, SettleOrOpenInv
<1>2. CASE ReportMatchResult(u)
    <2>1. /\ status \in {"scheduled", "reported", "disputed"}
          /\ votes' = VotesAfterReport(u)
          /\ reportedBy' = u
          /\ postDisputes' = postDisputes
          /\ SettleOrOpen(u, u, votes')
        BY <1>2 DEF ReportMatchResult
    <2>2. ~Contested(votes')
        <3>1. CASE status = "disputed"
            BY <2>1, <3>1 DEF VotesAfterReport, Contested
        <3>2. CASE status \in {"scheduled", "reported"}
            BY <2>1, <3>2 DEF VotesAfterReport, Contested, StateInv,
                              DisputeMatchesVotes, UncontestedBeforeReport,
                              LiveContesters
        <3> QED
            BY <2>1, <3>1, <3>2
    <2> QED
        BY <2>1, <2>2, SettleOrOpenInv
<1>3. ASSUME NEW v, EnterUpdate(u, v), MayUpdate(u)
      PROVE  StateInv'
    BY <1>3, CheckAndFinalizeInv DEF EnterUpdate, MayUpdate
<1>4. CASE ReviseResult(u)
    BY <1>3, <1>4 DEF ReviseResult
<1>5. CASE ReportByUpdate(u)
    BY <1>3, <1>5 DEF ReportByUpdate
<1> QED
    BY <1>1, <1>2, <1>4, <1>5

LEMMA AgreeInv ==
    ASSUME TypeOK, StateInv, NEW p \in Players, Agree(p)
    PROVE  StateInv'
<1> DEFINE v == [votes EXCEPT ![p] = "agree"]
           withdrawn == status = "disputed" /\ ~Contested(v)
           kept == IF withdrawn
                   THEN DropArbitration(actions)
                   ELSE actions
           acts == DeleteActionsForUser(kept, p)
<1>1. /\ status \in OpenStatuses
      /\ votes' = v
      /\ reportedBy' = reportedBy
      /\ postDisputes' = postDisputes
      /\ IF status = "reported" \/ withdrawn
         THEN CheckAndFinalize(v, reportedBy, acts, {})
         ELSE RemainsOpen("disputed", acts)
    BY DEF Agree
<1>2. status # "finalized" /\ reportedBy \in Users \cup {NoUser}
    BY <1>1 DEF OpenStatuses, TypeOK
<1>3. CASE status = "reported" \/ withdrawn
    <2>1. CheckAndFinalize(votes', reportedBy, acts, {})
        BY <1>1, <1>3
    <2> QED
        BY <1>1, <1>2, <2>1, CheckAndFinalizeInv
<1>4. CASE ~(status = "reported" \/ withdrawn)
    <2>1. Contested(votes')
        BY <1>1, <1>4 DEF OpenStatuses
    <2>2. status' = "disputed" /\ ledger' = ledger
        BY <1>1, <1>4 DEF RemainsOpen, trustVars
    <2> QED
        BY <1>1, <1>2, <2>1, <2>2, OpenInv DEF OpenStatuses
<1> QED
    BY <1>3, <1>4

LEMMA ContestInv ==
    ASSUME TypeOK, StateInv, NEW p \in Players, Contest(p)
    PROVE  StateInv'
<1>1. votes' = [votes EXCEPT ![p] = "contest"] /\ votes \in [Players -> {"none", "agree", "contest"}]
    BY DEF Contest, DisputeOutcome, TypeOK
<1>2. Contested(votes')
    BY <1>1 DEF Contested
<1> QED
    BY <1>2, OpenInv DEF Contest, DisputeOutcome, OpenStatuses

LEMMA PostDisputeInv ==
    ASSUME TypeOK, StateInv, NEW p \in Players,
           PostDispute(p) \/ WithdrawPostDispute(p)
    PROVE  StateInv'
<1>1. /\ status = "finalized" /\ status' = status
      /\ UNCHANGED <<votes, reportedBy, settledBy, finalizationReason, ledger>>
    BY DEF PostDispute, WithdrawPostDispute, resultVars, trustVars
<1>2. /\ DisputeMatchesVotes' /\ UncontestedBeforeReport'
      /\ OnlyOrganizersOverrule' /\ SelfValidatedIsCredited' /\ TrustLedgerNeverNegative'
    BY <1>1 DEF StateInv, DisputeMatchesVotes, UncontestedBeforeReport, Contested,
                OnlyOrganizersOverrule, SelfValidatedIsCredited, TrustLedgerNeverNegative,
                LiveContesters
<1>3. ConsensusOfBothSides'
    BY <1>1 DEF StateInv, ConsensusOfBothSides
<1>4. OpenPostDisputesAreAnswerable'
    <2>1. CASE PostDispute(p)
        BY <1>1, <2>1 DEF PostDispute, OpenPostDisputesAreAnswerable
    <2>2. CASE WithdrawPostDispute(p)
        BY <1>1, <2>2 DEF WithdrawPostDispute, StateInv, OpenPostDisputesAreAnswerable
    <2> QED
        BY <2>1, <2>2
<1>5. NoOrphanAction'
    <2>1. \A a \in actions : a[2] = "MATCH_POST_DISPUTE" /\ postDisputes # {}
        BY <1>1 DEF StateInv, NoOrphanAction, OpenStatuses
    <2>2. CASE PostDispute(p)
        <3>1. /\ actions' = actions \cup Ask(Admins \ {p}, "MATCH_POST_DISPUTE")
              /\ postDisputes' # {}
            BY <2>2 DEF PostDispute
        <3>2. \A a \in Ask(Admins \ {p}, "MATCH_POST_DISPUTE") : a[2] = "MATCH_POST_DISPUTE"
            BY DEF Ask
        <3> QED
            BY <1>1, <2>1, <3>1, <3>2 DEF NoOrphanAction
    <2>3. CASE WithdrawPostDispute(p)
        <3>1. actions' = {}
            BY <2>1, <2>3 DEF WithdrawPostDispute, DeleteActionsOfType
        <3> QED
            BY <3>1 DEF NoOrphanAction
    <2> QED
        BY <2>2, <2>3
<1> QED
    BY <1>2, <1>3, <1>4, <1>5 DEF StateInv

\* An amendment that costs the author a point takes back one it had given: the
\* result was the author's own word, so the match still holds a point for it.
LEMMA AmendmentLedger ==
    ASSUME TypeOK, StateInv, NEW u \in Users, NEW kind, MayAmend(u),
           SettleAmendment(u, kind)
    PROVE  /\ \A w \in Users : ledger'[w] >= 0
           /\ ~Penalized(u, kind) => ledger' = ledger
<1>1. ledger \in [Users -> Int] /\ \A w \in Users : ledger[w] >= 0
    BY DEF TypeOK, StateInv, TrustLedgerNeverNegative
<1>2. CASE Penalized(u, kind) /\ reportedBy # NoUser
    <2>1. status = "finalized"
        BY DEF MayAmend
    <2>2. OpposingPostDispute => finalizationReason \in SelfValidated
        BY DEF OpposingPostDispute, StateInv, OpenPostDisputesAreAnswerable
    <2>3. finalizationReason \in SelfValidated
        BY <1>2, <2>2 DEF Penalized, MayAmend
    <2>4. ledger[reportedBy] >= 1 /\ reportedBy \in Users
        BY <1>2, <2>1, <2>3 DEF StateInv, SelfValidatedIsCredited, TypeOK
    <2>5. ledger' = [ledger EXCEPT ![reportedBy] = @ - 1]
        BY <1>2 DEF SettleAmendment
    <2> QED
        BY <1>1, <1>2, <2>4, <2>5
<1>3. CASE ~(Penalized(u, kind) /\ reportedBy # NoUser)
    BY <1>1, <1>3 DEF SettleAmendment, trustVars
<1>4. ~Penalized(u, kind) => ledger' = ledger
    BY DEF SettleAmendment, trustVars
<1> QED
    BY <1>2, <1>3, <1>4

LEMMA CorrectFinalizedInv ==
    ASSUME TypeOK, StateInv, NEW u \in Users, CorrectFinalized(u)
    PROVE  StateInv'
<1>1. /\ MayAmend(u) /\ SettleAmendment(u, "correct")
      /\ status = "finalized" /\ status' = status
      /\ UNCHANGED <<votes, reportedBy, settledBy>>
      /\ finalizationReason' = CorrectedReason(u)
      /\ postDisputes' = {}
    BY DEF CorrectFinalized, MayAmend, SettleAmendment, DisputesAfterAmendment
<1>2. /\ DisputeMatchesVotes' /\ UncontestedBeforeReport' /\ OnlyOrganizersOverrule'
      /\ ConsensusOfBothSides' /\ OpenPostDisputesAreAnswerable'
    BY <1>1 DEF StateInv, DisputeMatchesVotes, UncontestedBeforeReport, Contested,
                OnlyOrganizersOverrule, ConsensusOfBothSides,
                OpenPostDisputesAreAnswerable, LiveContesters
<1>3. NoOrphanAction'
    <2>1. \A a \in actions : a[2] = "MATCH_POST_DISPUTE" /\ postDisputes # {}
        BY <1>1 DEF StateInv, NoOrphanAction, OpenStatuses
    <2>2. actions' = {}
        BY <2>1 DEF CorrectFinalized, DeleteActionsOfType
    <2> QED
        BY <2>2 DEF NoOrphanAction
<1>4. TrustLedgerNeverNegative'
    BY <1>1, AmendmentLedger DEF TrustLedgerNeverNegative
<1>5. SelfValidatedIsCredited'
    <2>1. CASE u \in Admins
        BY <1>1, <2>1 DEF CorrectedReason, SelfValidatedIsCredited, SelfValidated
    <2>2. CASE u \notin Admins
        <3>1. ledger' = ledger
            BY <1>1, <2>2, AmendmentLedger DEF Penalized
        <3> QED
            BY <1>1, <2>2, <3>1 DEF CorrectedReason, StateInv, SelfValidatedIsCredited
    <2> QED
        BY <2>1, <2>2
<1> QED
    BY <1>2, <1>3, <1>4, <1>5 DEF StateInv

\* A match that is not open, not finalized, and asks nobody for anything: the
\* cancelled and the deleted one, and the scheduled one.
LEMMA QuietInv ==
    ASSUME StateInv, status' \in {"scheduled", "cancelled", "deleted"},
           status' = "scheduled" => ~Contested(votes'),
           actions' = {}, postDisputes' = {},
           \A u \in Users : ledger'[u] >= 0
    PROVE  StateInv'
<1>1. DisputeMatchesVotes' /\ UncontestedBeforeReport'
    BY DEF DisputeMatchesVotes, UncontestedBeforeReport, LiveContesters, Contested
<1>2. OnlyOrganizersOverrule' /\ ConsensusOfBothSides' /\ SelfValidatedIsCredited'
    BY DEF OnlyOrganizersOverrule, ConsensusOfBothSides, SelfValidatedIsCredited,
           LiveContesters, Contested
<1>3. OpenPostDisputesAreAnswerable' /\ NoOrphanAction' /\ TrustLedgerNeverNegative'
    BY DEF OpenPostDisputesAreAnswerable, NoOrphanAction, TrustLedgerNeverNegative
<1> QED
    BY <1>1, <1>2, <1>3 DEF StateInv

LEMMA WithdrawnMatchInv ==
    ASSUME TypeOK, StateInv, NEW u \in Users,
           CancelOpen(u) \/ CancelFinalized(u) \/ DeleteMatch(u)
    PROVE  StateInv'
<1>1. CASE CancelOpen(u) \/ DeleteMatch(u)
    <2>1. /\ status' \in {"cancelled", "deleted"}
          /\ status # "finalized"
          /\ actions' = {}
          /\ postDisputes' = postDisputes
          /\ ledger' = ledger
        BY <1>1 DEF CancelOpen, DeleteMatch, DeleteActions, trustVars
    <2>2. postDisputes' = {} /\ \A w \in Users : ledger'[w] >= 0
        BY <2>1 DEF StateInv, OpenPostDisputesAreAnswerable, TrustLedgerNeverNegative
    <2> QED
        BY <2>1, <2>2, QuietInv
<1>2. CASE CancelFinalized(u)
    <2>1. /\ status' = "cancelled" /\ actions' = {} /\ postDisputes' = {}
          /\ MayAmend(u) /\ SettleAmendment(u, "cancel")
        BY <1>2 DEF CancelFinalized, DeleteActions, SettleAmendment, DisputesAfterAmendment
    <2>2. \A w \in Users : ledger'[w] >= 0
        BY <2>1, AmendmentLedger
    <2> QED
        BY <2>1, <2>2, QuietInv
<1> QED
    BY <1>1, <1>2

\* The steps that leave the votes, the author, the settlement and the points
\* alone; a match may lose its pending actions on the way.
LEMMA FrameInv ==
    ASSUME StateInv, actions' \subseteq actions,
           UNCHANGED <<status, votes, reportedBy, settledBy, finalizationReason,
                       postDisputes, ledger>>
    PROVE  StateInv'
<1>1. /\ DisputeMatchesVotes' /\ UncontestedBeforeReport' /\ OnlyOrganizersOverrule'
      /\ OpenPostDisputesAreAnswerable'
    BY DEF StateInv, DisputeMatchesVotes, UncontestedBeforeReport, Contested,
           OnlyOrganizersOverrule, OpenPostDisputesAreAnswerable, LiveContesters
<1>2. ConsensusOfBothSides' /\ NoOrphanAction'
    BY DEF StateInv, ConsensusOfBothSides, NoOrphanAction
<1>3. SelfValidatedIsCredited' /\ TrustLedgerNeverNegative'
    BY DEF StateInv, SelfValidatedIsCredited, TrustLedgerNeverNegative
<1> QED
    BY <1>1, <1>2, <1>3 DEF StateInv

LEMMA InitInv == Init => StateInv
<1> SUFFICES ASSUME Init
             PROVE  StateInv
    OBVIOUS
<1>1. DisputeMatchesVotes /\ UncontestedBeforeReport /\ OnlyOrganizersOverrule
    BY DEF Init, DisputeMatchesVotes, UncontestedBeforeReport, Contested,
           OnlyOrganizersOverrule, LiveContesters
<1>2. /\ ConsensusOfBothSides /\ OpenPostDisputesAreAnswerable /\ NoOrphanAction
      /\ SelfValidatedIsCredited
    BY DEF Init, ConsensusOfBothSides, OpenPostDisputesAreAnswerable, NoOrphanAction,
           SelfValidatedIsCredited
<1>3. TrustLedgerNeverNegative
    BY DEF Init, TrustLedgerNeverNegative
<1> QED
    BY <1>1, <1>2, <1>3 DEF StateInv

LEMMA NextInv == TypeOK /\ StateInv /\ [Next]_vars => StateInv'
<1> SUFFICES ASSUME TypeOK, StateInv, [Next]_vars
             PROVE  StateInv'
    OBVIOUS
<1>1. ASSUME NEW u \in Users, UserStep(u)
      PROVE  StateInv'
    <2>1. CASE CreateScheduled(u)
        <3>1. /\ actions' = {} /\ postDisputes' = {} /\ ~Contested(votes')
              /\ \A w \in Users : ledger'[w] >= 0
            BY <2>1 DEF CreateScheduled, StateInv, NoOrphanAction, OpenStatuses,
                        OpenPostDisputesAreAnswerable, UncontestedBeforeReport,
                        TrustLedgerNeverNegative, trustVars, LiveContesters, Contested
        <3> QED
            BY <2>1, <3>1, QuietInv DEF CreateScheduled
    <2>2. CASE \/ \E scored \in BOOLEAN : CreateReported(u, scored)
               \/ ReportMatchResult(u)
               \/ ReviseResult(u)
               \/ ReportByUpdate(u)
        BY <2>2, EntryStepInv
    <2>3. CASE Reschedule(u)
        BY <2>3, FrameInv DEF Reschedule, DeleteActions, resultVars, trustVars
    <2>4. CASE FinalizeByOrganizer(u)
        <3>1. status # "finalized" /\ u # NoUser
            BY <2>4, UsersAssumption DEF FinalizeByOrganizer, CanFinalize, OpenStatuses
        <3> QED
            BY <2>4, <3>1, SettleInv DEF FinalizeByOrganizer, Reasons, TypeOK
    <2>5. CASE CorrectFinalized(u)
        BY <2>5, CorrectFinalizedInv
    <2>6. CASE CancelOpen(u) \/ CancelFinalized(u) \/ DeleteMatch(u)
        BY <2>6, WithdrawnMatchInv
    <2> QED
        BY <1>1, <2>1, <2>2, <2>3, <2>4, <2>5, <2>6 DEF UserStep
<1>2. ASSUME NEW p \in Players, PlayerStep(p)
      PROVE  StateInv'
    BY <1>2, AgreeInv, ContestInv, PostDisputeInv DEF PlayerStep
<1>3. ASSUME NEW m \in ValidationModes, ChangeValidationMode(m)
      PROVE  StateInv'
    BY <1>3, FrameInv DEF ChangeValidationMode, resultVars, trustVars
<1>4. CASE AutoFinalizeExpired
    BY <1>4, SettleInv DEF AutoFinalizeExpired, Reasons, TypeOK
<1>5. CASE DeadlinePasses
    BY <1>5, FrameInv DEF DeadlinePasses, resultVars, trustVars
<1>6. CASE WindowCloses
    BY <1>6, FrameInv DEF WindowCloses, trustVars
<1>7. CASE UNCHANGED vars
    BY <1>7, FrameInv DEF vars, resultVars, trustVars
<1> QED
    BY <1>1, <1>2, <1>3, <1>4, <1>5, <1>6, <1>7 DEF Next

\* Every handler and job preserves the inductive invariant.
THEOREM LifecycleInvariant == Spec => []LifecycleInv
<1>1. Spec => [](TypeOK /\ StateInv)
    BY InitInv, NextInv, TypeCorrect, PTL DEF Spec
<1>2. TypeOK /\ StateInv => LifecycleInv
    BY DEF StateInv, LifecycleInv
<1> QED
    BY <1>1, <1>2, PTL

-----------------------------------------------------------------------------
(* What it means for the players *)

\* A disputed match is one somebody contests, a reported one is not.
THEOREM DisputesFollowVotes == Spec => []DisputeMatchesVotes
BY LifecycleInvariant, PTL DEF LifecycleInv

\* A contested match that ends was ended by an organizer.
THEOREM ContestedNeedsOrganizer == Spec => []OnlyOrganizersOverrule
BY LifecycleInvariant, PTL DEF LifecycleInv

\* A consensus carries the signature of both sides.
THEOREM ConsensusIsSigned == Spec => []ConsensusOfBothSides
BY LifecycleInvariant, PTL DEF LifecycleInv

\* No contestation is left behind on a match it cannot change.
THEOREM PostDisputesAnswerable == Spec => []OpenPostDisputesAreAnswerable
BY LifecycleInvariant, PTL DEF LifecycleInv

\* No request to act survives what it was about.
THEOREM NoOrphans == Spec => []NoOrphanAction
BY LifecycleInvariant, PTL DEF LifecycleInv

\* A match never costs its author more trust points than it brought.
THEOREM TrustIsFair == Spec => []TrustLedgerNeverNegative
BY LifecycleInvariant, PTL DEF LifecycleInv

-----------------------------------------------------------------------------
(* The contract with the players *)

Contesters(v) == {p \in Players : v[p] = "contest"}

LEMMA ContestersOf == \A v : Contested(v) <=> Contesters(v) # {}
BY DEF Contested, Contesters

LEMMA PhaseValues ==
    /\ PhaseOf("absent") = "idle" /\ PhaseOf("scheduled") = "idle"
    /\ PhaseOf("reported") = "open" /\ PhaseOf("disputed") = "open"
    /\ PhaseOf("finalized") = "settled"
    /\ PhaseOf("cancelled") = "void"
    /\ PhaseOf("deleted") = "gone"
BY DEF PhaseOf, OpenStatuses

LEMMA VerdictValues ==
    /\ VerdictOf("none") = "none"
    /\ VerdictOf("admin_override") = "organizer"
    /\ \A why \in {"consensus", "auto_validation", "trust_score"} :
         VerdictOf(why) = "players"
BY DEF VerdictOf

\* The statuses from which a result may be entered.
Enterable == {"absent", "scheduled", "reported", "disputed", "cancelled"}

\* An uncontested settlement is the contract's Accept.
LEMMA SettleAccepts ==
    ASSUME status \in Enterable, NEW by, NEW author,
           NEW why \in {"consensus", "auto_validation", "trust_score"},
           Settle(why, by, author), ~Contested(votes')
    PROVE  Contract!Accept
<1>1. /\ PhaseOf(status) \in {"idle", "open", "void"}
      /\ PhaseOf(status') = "settled" /\ VerdictOf(settledBy') = "players"
    BY PhaseValues, VerdictValues DEF Settle, Enterable
<1>2. Contesters(votes') = {}
    BY ContestersOf
<1> QED
    BY <1>1, <1>2 DEF Contract!Accept, Contesters, LiveContesters

\* Keeping the match open without a new contestation is the contract's Enter.
LEMMA RemainsOpenEnters ==
    ASSUME status \in Enterable, NEW st \in OpenStatuses, NEW acts,
           RemainsOpen(st, acts), Contesters(votes') \subseteq Contesters(votes)
    PROVE  Contract!Enter
<1>1. /\ PhaseOf(status) \in {"idle", "open", "void"}
      /\ PhaseOf(status') = "open" /\ settledBy' = settledBy
    BY PhaseValues DEF RemainsOpen, Enterable, OpenStatuses, resultVars
<1> QED
    BY <1>1 DEF Contract!Enter, Contesters, LiveContesters

LEMMA CheckAndFinalizeContract ==
    ASSUME status \in Enterable, NEW author, NEW acts, NEW notices,
           CheckAndFinalize(votes', author, acts, notices),
           Contesters(votes') \subseteq Contesters(votes)
    PROVE  Contract!Enter \/ Contract!Accept
<1>1. CASE RemainsOpen("disputed", acts)
    BY <1>1, RemainsOpenEnters DEF OpenStatuses
<1>2. CASE ~Contested(votes') /\ Settle("consensus", NoUser, author)
    BY <1>2, SettleAccepts
<1>3. CASE RemainsOpen("reported", acts \cup notices)
    BY <1>3, RemainsOpenEnters DEF OpenStatuses
<1> QED
    BY <1>1, <1>2, <1>3 DEF CheckAndFinalize

LEMMA SettleOrOpenContract ==
    ASSUME status \in Enterable, NEW u, NEW author,
           SettleOrOpen(u, author, votes'), ~Contested(votes')
    PROVE  Contract!Enter \/ Contract!Accept
<1>1. CASE \/ Settle("auto_validation", u, author)
           \/ Settle("trust_score", u, author)
    BY <1>1, SettleAccepts
<1>2. CASE CheckAndFinalize(votes', author, actions, Ask(Players \ {u}, "MATCH_VALIDATION"))
    <2>1. Contesters(votes') \subseteq Contesters(votes)
        BY ContestersOf
    <2> QED
        BY <1>2, <2>1, CheckAndFinalizeContract
<1> QED
    BY <1>1, <1>2 DEF SettleOrOpen

LEMMA EntryStepContract ==
    ASSUME StateInv, NEW u \in Users,
           \/ \E scored \in BOOLEAN : CreateReported(u, scored)
           \/ ReportMatchResult(u)
           \/ ReviseResult(u)
           \/ ReportByUpdate(u)
    PROVE  Contract!Enter \/ Contract!Accept
<1>1. ASSUME NEW scored \in BOOLEAN, CreateReported(u, scored)
      PROVE  Contract!Enter \/ Contract!Accept
    <2> DEFINE author == IF scored THEN u ELSE NoUser
    <2>1. votes' = [p \in Players |-> IF p = u THEN "agree" ELSE "none"]
        BY <1>1 DEF CreateReported
    <2>2. /\ status \in Enterable
          /\ \/ CheckAndFinalize(votes', author, actions, Ask(Players, "MATCH_VALIDATION"))
             \/ SettleOrOpen(u, author, votes')
        BY <1>1, <2>1 DEF CreateReported, Enterable
    <2>3. ~Contested(votes') /\ Contesters(votes') \subseteq Contesters(votes)
        BY <2>1 DEF Contested, Contesters
    <2> QED
        BY <2>2, <2>3, CheckAndFinalizeContract, SettleOrOpenContract
<1>2. CASE ReportMatchResult(u)
    <2>1. /\ status \in {"scheduled", "reported", "disputed"}
          /\ votes' = VotesAfterReport(u)
          /\ SettleOrOpen(u, u, votes')
        BY <1>2 DEF ReportMatchResult
    <2>2. ~Contested(votes')
        BY <2>1 DEF VotesAfterReport, Contested, StateInv, DisputeMatchesVotes,
                    UncontestedBeforeReport, LiveContesters
    <2> QED
        BY <2>1, <2>2, SettleOrOpenContract DEF Enterable
<1>3. CASE ReviseResult(u)
    <2>1. /\ status \in Enterable
          /\ votes' = [p \in Players |-> IF p = u THEN "agree" ELSE "none"]
          /\ CheckAndFinalize(votes', u, DeleteActions(actions),
                              Ask(Players \ {u}, "MATCH_VALIDATION"))
        BY <1>3 DEF ReviseResult, MayUpdate, EnterUpdate, Enterable
    <2>2. Contesters(votes') \subseteq Contesters(votes)
        BY <2>1 DEF Contesters
    <2> QED
        BY <2>1, <2>2, CheckAndFinalizeContract
<1>4. CASE ReportByUpdate(u)
    <2>1. /\ status \in Enterable
          /\ votes' = [p \in Players |-> IF p = u THEN "agree" ELSE votes[p]]
          /\ CheckAndFinalize(votes', u, DeleteActions(actions),
                              Ask(Players \ {u}, "MATCH_VALIDATION"))
        BY <1>4 DEF ReportByUpdate, MayUpdate, EnterUpdate, Enterable
    <2>2. Contesters(votes') \subseteq Contesters(votes)
        BY <2>1 DEF Contesters
    <2> QED
        BY <2>1, <2>2, CheckAndFinalizeContract
<1> QED
    BY <1>1, <1>2, <1>3, <1>4

LEMMA AgreeContract ==
    ASSUME TypeOK, NEW p \in Players, Agree(p)
    PROVE  Contract!Enter \/ Contract!Accept
<1> DEFINE v == [votes EXCEPT ![p] = "agree"]
           withdrawn == status = "disputed" /\ ~Contested(v)
           kept == IF withdrawn
                   THEN DropArbitration(actions)
                   ELSE actions
           acts == DeleteActionsForUser(kept, p)
<1>1. /\ status \in Enterable
      /\ votes' = v
      /\ \/ CheckAndFinalize(v, reportedBy, acts, {})
         \/ RemainsOpen("disputed", acts)
    BY DEF Agree, OpenStatuses, Enterable
<1>2. Contesters(votes') \subseteq Contesters(votes)
    BY <1>1 DEF Contesters, TypeOK
<1>3. CASE CheckAndFinalize(v, reportedBy, acts, {})
    <2>1. CheckAndFinalize(votes', reportedBy, acts, {})
        BY <1>1, <1>3
    <2> QED
        BY <1>1, <1>2, <2>1, CheckAndFinalizeContract
<1>4. CASE RemainsOpen("disputed", acts)
    BY <1>1, <1>2, <1>4, RemainsOpenEnters DEF OpenStatuses
<1> QED
    BY <1>1, <1>3, <1>4

\* What the contract cannot see.
LEMMA ContractStutter ==
    ASSUME UNCHANGED <<votes, settledBy>>, PhaseOf(status') = PhaseOf(status)
    PROVE  UNCHANGED Contract!contractVars
BY DEF Contract!contractVars, LiveContesters

LEMMA StepContract ==
    ASSUME TypeOK, StateInv, [Next]_vars
    PROVE  [Contract!Next]_(Contract!contractVars)
<1>1. ASSUME NEW u \in Users, UserStep(u)
      PROVE  Contract!Next \/ UNCHANGED Contract!contractVars
    <2>1. CASE CreateScheduled(u)
        BY <2>1, PhaseValues, ContractStutter DEF CreateScheduled, resultVars
    <2>2. CASE \/ \E scored \in BOOLEAN : CreateReported(u, scored)
               \/ ReportMatchResult(u)
               \/ ReviseResult(u)
               \/ ReportByUpdate(u)
        BY <2>2, EntryStepContract DEF Contract!Next
    <2>3. CASE Reschedule(u)
        BY <2>3, ContractStutter DEF Reschedule, resultVars
    <2>4. CASE FinalizeByOrganizer(u)
        <3>1. /\ PhaseOf(status) = "open" /\ PhaseOf(status') = "settled"
              /\ VerdictOf(settledBy') = "organizer" /\ votes' = votes
            BY <2>4, PhaseValues, VerdictValues
            DEF FinalizeByOrganizer, CanFinalize, OpenStatuses, Settle
        <3> QED
            BY <3>1 DEF Contract!Arbitrate, Contract!Next, LiveContesters
    <2>5. CASE CorrectFinalized(u)
        BY <2>5, ContractStutter DEF CorrectFinalized
    <2>6. CASE CancelOpen(u) \/ CancelFinalized(u)
        <3>1. /\ PhaseOf(status) \in {"idle", "open", "settled"}
              /\ PhaseOf(status') = "void"
              /\ UNCHANGED <<votes, settledBy>>
            BY <2>6, PhaseValues DEF CancelOpen, CancelFinalized, MayAmend, resultVars
        <3> QED
            BY <3>1 DEF Contract!Void, Contract!Next, LiveContesters
    <2>7. CASE DeleteMatch(u)
        <3>1. /\ PhaseOf(status) \in {"idle", "open", "void"}
              /\ PhaseOf(status') = "gone"
              /\ VerdictOf(settledBy') = "none"
            BY <2>7, PhaseValues, VerdictValues DEF DeleteMatch
        <3>2. Contesters(votes') = {}
            BY <2>7 DEF DeleteMatch, Contesters
        <3> QED
            BY <3>1, <3>2 DEF Contract!Delete, Contract!Next, Contesters, LiveContesters
    <2> QED
        BY <1>1, <2>1, <2>2, <2>3, <2>4, <2>5, <2>6, <2>7 DEF UserStep
<1>2. ASSUME NEW p \in Players, PlayerStep(p)
      PROVE  Contract!Next \/ UNCHANGED Contract!contractVars
    <2>1. CASE Agree(p)
        BY <2>1, AgreeContract DEF Contract!Next
    <2>2. CASE Contest(p)
        <3>1. /\ PhaseOf(status) = "open" /\ PhaseOf(status') = "open"
              /\ settledBy' = settledBy
            BY <2>2, PhaseValues DEF Contest, DisputeOutcome, OpenStatuses, resultVars
        <3>2. Contesters(votes') = Contesters(votes) \cup {p}
            BY <2>2 DEF Contest, DisputeOutcome, Contesters, TypeOK
        <3> QED
            BY <3>1, <3>2 DEF Contract!Contest, Contract!Next, Contesters, LiveContesters
    <2>3. CASE PostDispute(p) \/ WithdrawPostDispute(p)
        BY <2>3, ContractStutter DEF PostDispute, WithdrawPostDispute, resultVars
    <2> QED
        BY <1>2, <2>1, <2>2, <2>3 DEF PlayerStep
<1>3. ASSUME NEW m \in ValidationModes, ChangeValidationMode(m)
      PROVE  UNCHANGED Contract!contractVars
    BY <1>3, ContractStutter DEF ChangeValidationMode, resultVars
<1>4. CASE AutoFinalizeExpired
    BY <1>4, SettleAccepts DEF AutoFinalizeExpired, Enterable, Contract!Next
<1>5. CASE DeadlinePasses \/ WindowCloses \/ UNCHANGED vars
    BY <1>5, ContractStutter DEF DeadlinePasses, WindowCloses, vars, resultVars
<1> QED
    BY <1>1, <1>2, <1>3, <1>4, <1>5 DEF Next

\* The lifecycle implements the contract: whatever the organizers, the players,
\* the kiosk and the timer do, in any order and any number of times.
THEOREM LifecycleImplementsContract == Spec => ImplementsContract
<1>1. Init => Contract!Init
    <2> SUFFICES ASSUME Init
                 PROVE  Contract!Init
        OBVIOUS
    <2>1. PhaseOf(status) = "idle" /\ VerdictOf(settledBy) = "none"
        BY PhaseValues, VerdictValues DEF Init
    <2> QED
        BY <2>1 DEF Init, Contract!Init, LiveContesters
<1>2. Spec => [](TypeOK /\ StateInv)
    BY InitInv, NextInv, TypeCorrect, PTL DEF Spec
<1> QED
    BY <1>1, <1>2, StepContract, PTL DEF Spec, ImplementsContract, Contract!Spec

=============================================================================
