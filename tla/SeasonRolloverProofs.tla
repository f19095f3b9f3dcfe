------------------------ MODULE SeasonRolloverProofs ------------------------
(***************************************************************************)
(* Proofs about SeasonRollover for any number of seasons, servers and      *)
(* requests, and any number of faults and edits: what a run read of its    *)
(* season before other runs and administrators stepped in is still good    *)
(* enough for what it writes, and the chain on its own keeps one season    *)
(* active.                                                                 *)
(***************************************************************************)
EXTENDS SeasonRollover, TLAPS

\* A row in a run's hands names a season; NoEntry does not pass for one.
LEMMA EntryFacts ==
    /\ NoEntry \notin Entries
    /\ NoEntry.season = NoSeason
    /\ NoSeason \notin Seasons
    /\ \A e \in Entries :
          /\ e.season \in Seasons
          /\ e.mode \in {"chain", "close"}
          /\ e.enabled \in BOOLEAN
          /\ e.ongoing \in BOOLEAN
BY RunsAssumption DEF NoEntry, Entries, NoSeason, Seasons

\* What listDue reads of a season with an automation is such a row.
LEMMA EntryOfTyped ==
    ASSUME TypeOK, NEW s \in Seasons, HasAutomation(s)
    PROVE  /\ EntryOf(s) \in Entries
           /\ EntryOf(s).season = s
           /\ EntryOf(s).ongoing = (status[s] = "ongoing")
BY DEF EntryOf, Entries, TypeOK, HasAutomation

\* A step that throws drops what the run had in its hands and writes nothing.
LEMMA ThrowInv ==
    ASSUME RolloverInv, NEW r \in Runs, pc[r] # "idle", Throw(r),
           faults' \in 0..MaxFaults, edits' \in 0..MaxEdits
    PROVE  RolloverInv'
<1> USE RunsAssumption DEF RolloverInv, Runs, automationVars, runVars, historyVars
<1>1. TypeOK'
  BY EntryFacts DEF Throw, Leave, TypeOK, Steps, RunsEquipped
<1>2. OneScheduledRun'
  BY EntryFacts DEF Throw, Leave, TypeOK, OneScheduledRun
<1>3. RunsEquipped'
  BY EntryFacts DEF Throw, Leave, TypeOK, RunsEquipped, Steps, StatusWrites, Target
<1>4. SeasonsKnown'
  BY EntryFacts DEF Throw, Leave, TypeOK, RunsEquipped, SeasonsKnown, Known
<1>5. NothingDangles'
  BY EntryFacts DEF Throw, Leave, TypeOK, NothingDangles
<1>6. ClaimsHeld'
  BY EntryFacts DEF Throw, Leave, TypeOK, RunsEquipped, ClaimsHeld
<1>7. ChainsHeld'
  BY EntryFacts DEF Throw, Leave, TypeOK, RunsEquipped, ChainsHeld, ChainCarriedOn,
     HasAutomation
<1>8. OneLine'
  <2> SUFFICES ASSUME handStarts' < 2, redone' = {}
               PROVE  FirstStart' /\ RowsInHand' /\ Successions'
    BY DEF OneLine
  <2>1. handStarts < 2 /\ redone = {}
    BY DEF Throw, Leave, TypeOK
  <2>2. FirstStart /\ RowsInHand /\ Successions
    BY <2>1 DEF OneLine
  <2>3. FirstStart'
    BY <2>1, <2>2, EntryFacts DEF Throw, Leave, TypeOK, RunsEquipped, FirstStart, ByHand,
       NoneHasRun, Run
  <2>4. RowsInHand'
    BY <2>1, <2>2, EntryFacts DEF Throw, Leave, TypeOK, RunsEquipped, SeasonsKnown, Known,
       RowsInHand, RunOrDeleted, Follows
  <2>5. Successions'
    BY <2>1, <2>2, EntryFacts DEF Throw, Leave, TypeOK, Successions, RunOrDeleted, Run,
       Continued
  <2> QED BY <2>3, <2>4, <2>5
<1> QED BY <1>1, <1>2, <1>3, <1>4, <1>5, <1>6, <1>7, <1>8

\* listDue hands out seasons that have run; the lock was free.
LEMMA TickInv ==
    ASSUME RolloverInv, NEW i \in Instances, Tick(i), UNCHANGED edits
    PROVE  RolloverInv'
<1> USE RunsAssumption DEF RolloverInv, Runs, automationVars, runVars, historyVars
<1>1. TypeOK'
  <2>1. {EntryOf(s) : s \in {t \in Seasons : Due(t)}} \subseteq Entries
    BY EntryOfTyped DEF Due
  <2>2. todo' \in [Instances -> SUBSET Entries]
    BY <2>1 DEF Tick, TypeOK
  <2> QED BY <2>2, EntryFacts DEF Tick, LockFree, TypeOK, Steps
<1>2. OneScheduledRun'
  BY EntryFacts DEF Tick, LockFree, EntryOf, Due, HasAutomation, TypeOK, OneScheduledRun
<1>3. RunsEquipped'
  BY EntryFacts DEF Tick, LockFree, EntryOf, Due, HasAutomation, TypeOK, RunsEquipped,
     Steps, StatusWrites, Target
<1>4. SeasonsKnown'
  BY EntryFacts DEF Tick, LockFree, EntryOf, Due, HasAutomation, TypeOK, RunsEquipped,
     SeasonsKnown, Known
<1>5. NothingDangles'
  BY EntryFacts DEF Tick, LockFree, EntryOf, Due, HasAutomation, TypeOK, NothingDangles
<1>6. ClaimsHeld'
  BY EntryFacts DEF Tick, LockFree, EntryOf, Due, HasAutomation, TypeOK, RunsEquipped,
     ClaimsHeld
<1>7. ChainsHeld'
  BY EntryFacts DEF Tick, LockFree, EntryOf, Due, HasAutomation, TypeOK, RunsEquipped,
     ChainsHeld, ChainCarriedOn
<1>8. OneLine'
  <2> SUFFICES ASSUME handStarts' < 2, redone' = {}
               PROVE  FirstStart' /\ RowsInHand' /\ Successions'
    BY DEF OneLine
  <2>1. handStarts < 2 /\ redone = {}
    BY DEF Tick, LockFree, EntryOf, Due, HasAutomation, TypeOK
  <2>2. FirstStart /\ RowsInHand /\ Successions
    BY <2>1 DEF OneLine
  <2>3. FirstStart'
    BY <2>1, <2>2, EntryFacts DEF Tick, LockFree, EntryOf, Due, HasAutomation, TypeOK,
       RunsEquipped, FirstStart, ByHand, NoneHasRun, Run
  <2>4. RowsInHand'
    BY <2>1, <2>2, EntryFacts DEF Tick, LockFree, EntryOf, Due, HasAutomation, TypeOK,
       RunsEquipped, SeasonsKnown, Known, RowsInHand, RunOrDeleted, Follows
  <2>5. Successions'
    BY <2>1, <2>2, EntryFacts DEF Tick, LockFree, EntryOf, Due, HasAutomation, TypeOK,
       Successions, RunOrDeleted, Run, Continued
  <2> QED BY <2>3, <2>4, <2>5
<1> QED BY <1>1, <1>2, <1>3, <1>4, <1>5, <1>6, <1>7, <1>8

\* The job takes its next row, or gives the lock back with none left.
LEMMA NextEntryInv ==
    ASSUME RolloverInv, NEW i \in Instances, NextEntry(i), UNCHANGED edits
    PROVE  RolloverInv'
<1> USE RunsAssumption DEF RolloverInv, Runs, automationVars, runVars, historyVars
<1>1. TypeOK'
  BY EntryFacts DEF NextEntry, TypeOK, Steps, RunsEquipped
<1>2. OneScheduledRun'
  BY EntryFacts DEF NextEntry, TypeOK, OneScheduledRun
<1>3. RunsEquipped'
  BY EntryFacts DEF NextEntry, TypeOK, RunsEquipped, Steps, StatusWrites, Target
<1>4. SeasonsKnown'
  BY EntryFacts DEF NextEntry, TypeOK, RunsEquipped, SeasonsKnown, Known
<1>5. NothingDangles'
  BY EntryFacts DEF NextEntry, TypeOK, NothingDangles
<1>6. ClaimsHeld'
  BY EntryFacts DEF NextEntry, TypeOK, RunsEquipped, ClaimsHeld
<1>7. ChainsHeld'
  BY EntryFacts DEF NextEntry, TypeOK, RunsEquipped, ChainsHeld, ChainCarriedOn,
     HasAutomation
<1>8. OneLine'
  <2> SUFFICES ASSUME handStarts' < 2, redone' = {}
               PROVE  FirstStart' /\ RowsInHand' /\ Successions'
    BY DEF OneLine
  <2>1. handStarts < 2 /\ redone = {}
    BY DEF NextEntry, TypeOK
  <2>2. FirstStart /\ RowsInHand /\ Successions
    BY <2>1 DEF OneLine
  <2>3. FirstStart'
    BY <2>1, <2>2, EntryFacts DEF NextEntry, TypeOK, RunsEquipped, FirstStart, ByHand,
       NoneHasRun, Run
  <2>4. RowsInHand'
    BY <2>1, <2>2, EntryFacts DEF NextEntry, TypeOK, RunsEquipped, SeasonsKnown, Known,
       RowsInHand, RunOrDeleted, Follows
  <2>5. Successions'
    BY <2>1, <2>2, EntryFacts DEF NextEntry, TypeOK, Successions, RunOrDeleted, Run,
       Continued
  <2> QED BY <2>3, <2>4, <2>5
<1> QED BY <1>1, <1>2, <1>3, <1>4, <1>5, <1>6, <1>7, <1>8

\* A season is about to be ended only if the run read it as ongoing.
LEMMA EndStepInv ==
    ASSUME RolloverInv, NEW r \in Runs, EndStep(r), UNCHANGED edits
    PROVE  RolloverInv'
<1> USE RunsAssumption DEF RolloverInv, Runs, automationVars, runVars, historyVars
<1>1. CASE Throw(r)
  BY <1>1, ThrowInv DEF EndStep, TypeOK, Steps, StatusWrites, Target
<1>2. CASE ~Throw(r)
  <2>1. TypeOK'
    BY <1>2, EntryFacts DEF EndStep, GoTo, AfterEnd, TypeOK, Steps, RunsEquipped
  <2>2. OneScheduledRun'
    BY <1>2, EntryFacts DEF EndStep, GoTo, AfterEnd, TypeOK, OneScheduledRun
  <2>3. RunsEquipped'
    BY <1>2, EntryFacts DEF EndStep, GoTo, AfterEnd, TypeOK, RunsEquipped, Steps,
       StatusWrites, Target
  <2>4. SeasonsKnown'
    BY <1>2, EntryFacts DEF EndStep, GoTo, AfterEnd, TypeOK, RunsEquipped, SeasonsKnown,
       Known
  <2>5. NothingDangles'
    BY <1>2, EntryFacts DEF EndStep, GoTo, AfterEnd, TypeOK, NothingDangles
  <2>6. ClaimsHeld'
    BY <1>2, EntryFacts DEF EndStep, GoTo, AfterEnd, TypeOK, RunsEquipped, ClaimsHeld
  <2>7. ChainsHeld'
    BY <1>2, EntryFacts DEF EndStep, GoTo, AfterEnd, TypeOK, RunsEquipped, ChainsHeld,
       ChainCarriedOn, HasAutomation
  <2>8. OneLine'
    <3> SUFFICES ASSUME handStarts' < 2, redone' = {}
                 PROVE  FirstStart' /\ RowsInHand' /\ Successions'
      BY DEF OneLine
    <3>1. handStarts < 2 /\ redone = {}
      BY <1>2 DEF EndStep, GoTo, AfterEnd, TypeOK
    <3>2. FirstStart /\ RowsInHand /\ Successions
      BY <3>1 DEF OneLine
    <3>3. FirstStart'
      BY <1>2, <3>1, <3>2, EntryFacts DEF EndStep, GoTo, AfterEnd, TypeOK, RunsEquipped,
         FirstStart, ByHand, NoneHasRun, Run
    <3>4. RowsInHand'
      BY <1>2, <3>1, <3>2, EntryFacts DEF EndStep, GoTo, AfterEnd, TypeOK, RunsEquipped,
         SeasonsKnown, Known, RowsInHand, RunOrDeleted, Follows
    <3>5. Successions'
      BY <1>2, <3>1, <3>2, EntryFacts DEF EndStep, GoTo, AfterEnd, TypeOK, Successions,
         RunOrDeleted, Run, Continued
    <3> QED BY <3>3, <3>4, <3>5
  <2> QED BY <2>1, <2>2, <2>3, <2>4, <2>5, <2>6, <2>7, <2>8
<1> QED BY <1>1, <1>2

\* Ending a season, twice included, leaves it one that has run.
LEMMA FinishStepInv ==
    ASSUME RolloverInv, NEW r \in Runs, FinishStep(r), UNCHANGED edits
    PROVE  RolloverInv'
<1> USE RunsAssumption DEF RolloverInv, Runs, automationVars, runVars, historyVars
<1>1. TypeOK'
  BY EntryFacts DEF FinishStep, GoTo, AfterEnd, Updated, TypeOK, Steps, RunsEquipped
<1>2. OneScheduledRun'
  BY EntryFacts DEF FinishStep, GoTo, AfterEnd, Updated, TypeOK, OneScheduledRun
<1>3. RunsEquipped'
  BY EntryFacts DEF FinishStep, GoTo, AfterEnd, Updated, TypeOK, RunsEquipped, Steps,
     StatusWrites, Target
<1>4. SeasonsKnown'
  BY EntryFacts DEF FinishStep, GoTo, AfterEnd, Updated, TypeOK, RunsEquipped, SeasonsKnown,
     Known
<1>5. NothingDangles'
  BY EntryFacts DEF FinishStep, GoTo, AfterEnd, Updated, TypeOK, NothingDangles
<1>6. ClaimsHeld'
  BY EntryFacts DEF FinishStep, GoTo, AfterEnd, Updated, TypeOK, RunsEquipped, ClaimsHeld
<1>7. ChainsHeld'
  BY EntryFacts DEF FinishStep, GoTo, AfterEnd, Updated, TypeOK, RunsEquipped, ChainsHeld,
     ChainCarriedOn, HasAutomation
<1>8. OneLine'
  <2> SUFFICES ASSUME handStarts' < 2, redone' = {}
               PROVE  FirstStart' /\ RowsInHand' /\ Successions'
    BY DEF OneLine
  <2>1. handStarts < 2 /\ redone = {}
    BY DEF FinishStep, GoTo, AfterEnd, Updated, TypeOK
  <2>2. FirstStart /\ RowsInHand /\ Successions
    BY <2>1 DEF OneLine
  <2>3. FirstStart'
    BY <2>1, <2>2, EntryFacts DEF FinishStep, GoTo, AfterEnd, Updated, TypeOK, RunsEquipped,
       FirstStart, ByHand, NoneHasRun, Run
  <2>4. RowsInHand'
    BY <2>1, <2>2, EntryFacts DEF FinishStep, GoTo, AfterEnd, Updated, TypeOK, RunsEquipped,
       SeasonsKnown, Known, RowsInHand, RunOrDeleted, Follows
  <2>5. Successions'
    <3>1. entry[r].season \in Seasons /\ RunOrDeleted(entry[r].season)
      BY <2>2, EntryFacts DEF FinishStep, RunsEquipped, RowsInHand
    <3>2. \A t \in Seasons :
            /\ RunOrDeleted(t)' <=> RunOrDeleted(t)
            /\ Run(t)' <=> Run(t)
            /\ status'[t] = "open" <=> status[t] = "open"
            /\ status[t] \in {"finished", "deleted"} => status'[t] = status[t]
      BY <3>1 DEF FinishStep, Updated, RunOrDeleted, Run, TypeOK
    <3> QED BY <2>2, <3>2 DEF FinishStep, TypeOK, Successions, Continued
  <2> QED BY <2>3, <2>4, <2>5
<1> QED BY <1>1, <1>2, <1>3, <1>4, <1>5, <1>6, <1>7, <1>8

\* A closed season only loses its date.
LEMMA MarkClosedStepInv ==
    ASSUME RolloverInv, NEW r \in Runs, MarkClosedStep(r), UNCHANGED edits
    PROVE  RolloverInv'
<1> USE RunsAssumption DEF RolloverInv, Runs, automationVars, runVars, historyVars
<1>1. TypeOK'
  BY EntryFacts DEF MarkClosedStep, Leave, TypeOK, Steps, RunsEquipped
<1>2. OneScheduledRun'
  BY EntryFacts DEF MarkClosedStep, Leave, TypeOK, OneScheduledRun
<1>3. RunsEquipped'
  BY EntryFacts DEF MarkClosedStep, Leave, TypeOK, RunsEquipped, Steps, StatusWrites, Target
<1>4. SeasonsKnown'
  BY EntryFacts DEF MarkClosedStep, Leave, TypeOK, RunsEquipped, SeasonsKnown, Known
<1>5. NothingDangles'
  BY EntryFacts DEF MarkClosedStep, Leave, TypeOK, NothingDangles
<1>6. ClaimsHeld'
  BY EntryFacts DEF MarkClosedStep, Leave, TypeOK, RunsEquipped, ClaimsHeld
<1>7. ChainsHeld'
  BY EntryFacts DEF MarkClosedStep, Leave, TypeOK, RunsEquipped, ChainsHeld, ChainCarriedOn,
     HasAutomation
<1>8. OneLine'
  <2> SUFFICES ASSUME handStarts' < 2, redone' = {}
               PROVE  FirstStart' /\ RowsInHand' /\ Successions'
    BY DEF OneLine
  <2>1. handStarts < 2 /\ redone = {}
    BY DEF MarkClosedStep, Leave, TypeOK
  <2>2. FirstStart /\ RowsInHand /\ Successions
    BY <2>1 DEF OneLine
  <2>3. FirstStart'
    BY <2>1, <2>2, EntryFacts DEF MarkClosedStep, Leave, TypeOK, RunsEquipped, FirstStart,
       ByHand, NoneHasRun, Run
  <2>4. RowsInHand'
    BY <2>1, <2>2, EntryFacts DEF MarkClosedStep, Leave, TypeOK, RunsEquipped, SeasonsKnown,
       Known, RowsInHand, RunOrDeleted, Follows
  <2>5. Successions'
    BY <2>1, <2>2, EntryFacts DEF MarkClosedStep, Leave, TypeOK, Successions, RunOrDeleted,
       Run, Continued
  <2> QED BY <2>3, <2>4, <2>5
<1> QED BY <1>1, <1>2, <1>3, <1>4, <1>5, <1>6, <1>7, <1>8

\* Looking for an active season changes nothing but where the run is.
LEMMA CreateStepInv ==
    ASSUME RolloverInv, NEW r \in Runs, CreateStep(r), UNCHANGED edits
    PROVE  RolloverInv'
<1> USE RunsAssumption DEF RolloverInv, Runs, automationVars, runVars, historyVars
<1>1. CASE Throw(r)
  BY <1>1, ThrowInv DEF CreateStep, TypeOK, Steps, StatusWrites, Target
<1>2. CASE ~Throw(r)
  <2>1. TypeOK'
    BY <1>2, EntryFacts DEF CreateStep, GoTo, TypeOK, Steps, RunsEquipped
  <2>2. OneScheduledRun'
    BY <1>2, EntryFacts DEF CreateStep, GoTo, TypeOK, OneScheduledRun
  <2>3. RunsEquipped'
    BY <1>2, EntryFacts DEF CreateStep, GoTo, TypeOK, RunsEquipped, Steps, StatusWrites,
       Target
  <2>4. SeasonsKnown'
    BY <1>2, EntryFacts DEF CreateStep, GoTo, TypeOK, RunsEquipped, SeasonsKnown, Known
  <2>5. NothingDangles'
    BY <1>2, EntryFacts DEF CreateStep, GoTo, TypeOK, NothingDangles
  <2>6. ClaimsHeld'
    BY <1>2, EntryFacts DEF CreateStep, GoTo, TypeOK, RunsEquipped, ClaimsHeld
  <2>7. ChainsHeld'
    BY <1>2, EntryFacts DEF CreateStep, GoTo, TypeOK, RunsEquipped, ChainsHeld,
       ChainCarriedOn, HasAutomation
  <2>8. OneLine'
    <3> SUFFICES ASSUME handStarts' < 2, redone' = {}
                 PROVE  FirstStart' /\ RowsInHand' /\ Successions'
      BY DEF OneLine
    <3>1. handStarts < 2 /\ redone = {}
      BY <1>2 DEF CreateStep, GoTo, TypeOK
    <3>2. FirstStart /\ RowsInHand /\ Successions
      BY <3>1 DEF OneLine
    <3>3. FirstStart'
      BY <1>2, <3>1, <3>2, EntryFacts DEF CreateStep, GoTo, TypeOK, RunsEquipped,
         FirstStart, ByHand, NoneHasRun, Run
    <3>4. RowsInHand'
      BY <1>2, <3>1, <3>2, EntryFacts DEF CreateStep, GoTo, TypeOK, RunsEquipped,
         SeasonsKnown, Known, RowsInHand, RunOrDeleted, Follows
    <3>5. Successions'
      BY <1>2, <3>1, <3>2, EntryFacts DEF CreateStep, GoTo, TypeOK, Successions,
         RunOrDeleted, Run, Continued
    <3> QED BY <3>3, <3>4, <3>5
  <2> QED BY <2>1, <2>2, <2>3, <2>4, <2>5, <2>6, <2>7, <2>8
<1> QED BY <1>1, <1>2

\* The new row was absent: no run, claim or opened season knows it yet.
LEMMA InsertStepInv ==
    ASSUME RolloverInv, NEW r \in Runs, InsertStep(r), UNCHANGED edits
    PROVE  RolloverInv'
<1> USE RunsAssumption DEF RolloverInv, Runs, automationVars, runVars, historyVars
<1>1. CASE Throw(r)
  BY <1>1, ThrowInv DEF InsertStep, TypeOK, Steps, StatusWrites, Target
<1>2. CASE ~Throw(r)
  <2>1. TypeOK'
    BY <1>2, EntryFacts DEF InsertStep, GoTo, Leave, Fresh, TypeOK, Steps, RunsEquipped
  <2>2. OneScheduledRun'
    BY <1>2, EntryFacts DEF InsertStep, GoTo, Leave, Fresh, TypeOK, OneScheduledRun
  <2>3. RunsEquipped'
    BY <1>2, EntryFacts DEF InsertStep, GoTo, Leave, Fresh, TypeOK, RunsEquipped, Steps,
       StatusWrites, Target
  <2>4. SeasonsKnown'
    BY <1>2, EntryFacts DEF InsertStep, GoTo, Leave, Fresh, TypeOK, RunsEquipped,
       SeasonsKnown, Known
  <2>5. NothingDangles'
    BY <1>2, EntryFacts DEF InsertStep, GoTo, Leave, Fresh, TypeOK, NothingDangles
  <2>6. ClaimsHeld'
    BY <1>2, EntryFacts DEF InsertStep, GoTo, Leave, Fresh, TypeOK, RunsEquipped, ClaimsHeld
  <2>7. ChainsHeld'
    BY <1>2, EntryFacts DEF InsertStep, GoTo, Leave, Fresh, TypeOK, RunsEquipped,
       ChainsHeld, ChainCarriedOn, HasAutomation
  <2>8. OneLine'
    <3> SUFFICES ASSUME handStarts' < 2, redone' = {}
                 PROVE  FirstStart' /\ RowsInHand' /\ Successions'
      BY DEF OneLine
    <3>1. handStarts < 2 /\ redone = {}
      BY <1>2 DEF InsertStep, GoTo, Leave, Fresh, TypeOK
    <3>2. FirstStart /\ RowsInHand /\ Successions
      BY <3>1 DEF OneLine
    <3>3. FirstStart'
      BY <1>2, <3>1, <3>2, EntryFacts DEF InsertStep, GoTo, Leave, Fresh, TypeOK,
         RunsEquipped, FirstStart, ByHand, NoneHasRun, Run
    <3>4. RowsInHand'
      <4>1. \A t \in Seasons : status[t] # "absent" => status'[t] = status[t]
        BY <1>2 DEF InsertStep, Leave, Fresh, TypeOK
      <4>2. \A q \in Runs : entry'[q] \in Entries => entry'[q] = entry[q] /\ entry[q] \in Entries
        BY <1>2, EntryFacts DEF InsertStep, Leave, TypeOK
      <4>3. \A q \in Runs : entry[q] \in Entries => status'[entry[q].season] = status[entry[q].season]
        BY <4>1, EntryFacts DEF SeasonsKnown, Known
      <4>4. \A q \in Runs : Follows(q)' /\ q # r => Follows(q) /\ made'[q] = made[q]
        BY <1>2, EntryFacts DEF InsertStep, GoTo, Leave, Follows, TypeOK
      <4>5. Follows(r)' => made'[r] \in Fresh /\ status'[made'[r]] = "draft"
        BY <1>2, EntryFacts DEF InsertStep, GoTo, Leave, Follows, Fresh, TypeOK
      <4>6. \A q \in Runs : made[q] \in Seasons =>
              status'[made[q]] = status[made[q]] /\ made[q] \notin Fresh
        BY <4>1 DEF SeasonsKnown, Known, Fresh
      <4>7. \A q \in Runs : Follows(q) => made[q] \in Seasons
        BY DEF Follows, RunsEquipped
      <4>8. \A q \in Runs : entry'[q] \in Entries =>
              /\ RunOrDeleted(entry[q].season)'
              /\ status'[entry'[q].season] = "ongoing" =>
                    entry'[q].ongoing /\ pc'[q] \in {"end", "finish"}
        BY <1>2, <3>2, <4>2, <4>3 DEF InsertStep, GoTo, Leave, RowsInHand, RunOrDeleted, TypeOK
      <4>9. \A i \in Instances : \A e \in todo'[i] :
              RunOrDeleted(e.season)' /\ (status'[e.season] = "ongoing" => e.ongoing)
        BY <1>2, <3>2, <4>1, EntryFacts DEF InsertStep, Leave, RowsInHand, SeasonsKnown, Known,
           RunOrDeleted, TypeOK
      <4>10. \A q \in Runs : pc'[q] = "toFinished" => RunOrDeleted(made[q])'
        BY <1>2, <3>2, <4>6 DEF InsertStep, GoTo, Leave, RowsInHand, RunsEquipped, StatusWrites,
           Target, RunOrDeleted, TypeOK
      <4>11. \A q \in Runs : Follows(q)' => status'[made'[q]] \in {"draft", "deleted"}
        BY <3>2, <4>4, <4>5, <4>6, <4>7 DEF RowsInHand
      <4>12. \A q, p \in Runs : Follows(q)' /\ Follows(p)' /\ made'[q] = made'[p] => q = p
        BY <3>2, <4>4, <4>5, <4>6, <4>7 DEF RowsInHand
      <4> QED BY <4>8, <4>9, <4>10, <4>11, <4>12 DEF RowsInHand
    <3>5. Successions'
      BY <1>2, <3>1, <3>2, EntryFacts DEF InsertStep, GoTo, Leave, Fresh, TypeOK,
         Successions, RunOrDeleted, Run, Continued
    <3> QED BY <3>3, <3>4, <3>5
  <2> QED BY <2>1, <2>2, <2>3, <2>4, <2>5, <2>6, <2>7, <2>8
<1> QED BY <1>1, <1>2

\* The claim is written where there was none, so no other claim is lost.
LEMMA ClaimStepInv ==
    ASSUME RolloverInv, NEW r \in Runs, ClaimStep(r), UNCHANGED edits
    PROVE  RolloverInv'
<1> USE RunsAssumption DEF RolloverInv, Runs, automationVars, runVars, historyVars
<1>1. CASE Throw(r)
  BY <1>1, ThrowInv DEF ClaimStep, TypeOK, Steps, StatusWrites, Target
<1>2. CASE ~Throw(r)
  <2>1. TypeOK'
    BY <1>2, EntryFacts DEF ClaimStep, GoTo, AfterClaim, Unclaimed, HasAutomation, TypeOK,
       Steps, RunsEquipped
  <2>2. OneScheduledRun'
    BY <1>2, EntryFacts DEF ClaimStep, GoTo, AfterClaim, Unclaimed, HasAutomation, TypeOK,
       OneScheduledRun
  <2>3. RunsEquipped'
    BY <1>2, EntryFacts DEF ClaimStep, GoTo, AfterClaim, Unclaimed, HasAutomation, TypeOK,
       RunsEquipped, Steps, StatusWrites, Target
  <2>4. SeasonsKnown'
    BY <1>2, EntryFacts DEF ClaimStep, GoTo, AfterClaim, Unclaimed, HasAutomation, TypeOK,
       RunsEquipped, SeasonsKnown, Known
  <2>5. NothingDangles'
    BY <1>2, EntryFacts DEF ClaimStep, GoTo, AfterClaim, Unclaimed, HasAutomation, TypeOK,
       NothingDangles
  <2>6. ClaimsHeld'
    BY <1>2, EntryFacts DEF ClaimStep, GoTo, AfterClaim, Unclaimed, HasAutomation, TypeOK,
       RunsEquipped, ClaimsHeld
  <2>7. ChainsHeld'
    BY <1>2, EntryFacts DEF ClaimStep, GoTo, AfterClaim, Unclaimed, HasAutomation, TypeOK,
       RunsEquipped, ChainsHeld, ChainCarriedOn
  <2>8. OneLine'
    <3> SUFFICES ASSUME handStarts' < 2, redone' = {}
                 PROVE  FirstStart' /\ RowsInHand' /\ Successions'
      BY DEF OneLine
    <3>1. handStarts < 2 /\ redone = {}
      BY <1>2 DEF ClaimStep, GoTo, AfterClaim, Unclaimed, HasAutomation, TypeOK
    <3>2. FirstStart /\ RowsInHand /\ Successions
      BY <3>1 DEF OneLine
    <3>3. FirstStart'
      BY <1>2, <3>1, <3>2, EntryFacts DEF ClaimStep, GoTo, AfterClaim, Unclaimed,
         HasAutomation, TypeOK, RunsEquipped, FirstStart, ByHand, NoneHasRun, Run
    <3>4. RowsInHand'
      BY <1>2, <3>1, <3>2, EntryFacts DEF ClaimStep, GoTo, AfterClaim, Unclaimed,
         HasAutomation, TypeOK, RunsEquipped, SeasonsKnown, Known, RowsInHand, RunOrDeleted,
         Follows
    <3>5. Successions'
      BY <1>2, <3>1, <3>2, EntryFacts DEF ClaimStep, GoTo, AfterClaim, Unclaimed,
         HasAutomation, TypeOK, Successions, RunOrDeleted, Run, Continued
    <3> QED BY <3>3, <3>4, <3>5
  <2> QED BY <2>1, <2>2, <2>3, <2>4, <2>5, <2>6, <2>7, <2>8
<1> QED BY <1>1, <1>2

\* After the copy, the successor has an automation of its own.
LEMMA CopyStepInv ==
    ASSUME RolloverInv, NEW r \in Runs, CopyStep(r), UNCHANGED edits
    PROVE  RolloverInv'
<1> USE RunsAssumption DEF RolloverInv, Runs, automationVars, runVars, historyVars
<1>1. CASE Throw(r)
  BY <1>1, ThrowInv DEF CopyStep, TypeOK, Steps, StatusWrites, Target
<1>2. CASE ~Throw(r)
  <2>1. TypeOK'
    BY <1>2, EntryFacts DEF CopyStep, GoTo, HasAutomation, TypeOK, Steps, RunsEquipped
  <2>2. OneScheduledRun'
    BY <1>2, EntryFacts DEF CopyStep, GoTo, HasAutomation, TypeOK, OneScheduledRun
  <2>3. RunsEquipped'
    BY <1>2, EntryFacts DEF CopyStep, GoTo, HasAutomation, TypeOK, RunsEquipped, Steps,
       StatusWrites, Target
  <2>4. SeasonsKnown'
    BY <1>2, EntryFacts DEF CopyStep, GoTo, HasAutomation, TypeOK, RunsEquipped,
       SeasonsKnown, Known
  <2>5. NothingDangles'
    BY <1>2, EntryFacts DEF CopyStep, GoTo, HasAutomation, TypeOK, NothingDangles
  <2>6. ClaimsHeld'
    BY <1>2, EntryFacts DEF CopyStep, GoTo, HasAutomation, TypeOK, RunsEquipped, ClaimsHeld
  <2>7. ChainsHeld'
    BY <1>2, EntryFacts DEF CopyStep, GoTo, HasAutomation, TypeOK, RunsEquipped, ChainsHeld,
       ChainCarriedOn
  <2>8. OneLine'
    <3> SUFFICES ASSUME handStarts' < 2, redone' = {}
                 PROVE  FirstStart' /\ RowsInHand' /\ Successions'
      BY DEF OneLine
    <3>1. handStarts < 2 /\ redone = {}
      BY <1>2 DEF CopyStep, GoTo, HasAutomation, TypeOK
    <3>2. FirstStart /\ RowsInHand /\ Successions
      BY <3>1 DEF OneLine
    <3>3. FirstStart'
      BY <1>2, <3>1, <3>2, EntryFacts DEF CopyStep, GoTo, HasAutomation, TypeOK,
         RunsEquipped, FirstStart, ByHand, NoneHasRun, Run
    <3>4. RowsInHand'
      BY <1>2, <3>1, <3>2, EntryFacts DEF CopyStep, GoTo, HasAutomation, TypeOK,
         RunsEquipped, SeasonsKnown, Known, RowsInHand, RunOrDeleted, Follows
    <3>5. Successions'
      BY <1>2, <3>1, <3>2, EntryFacts DEF CopyStep, GoTo, HasAutomation, TypeOK,
         Successions, RunOrDeleted, Run, Continued
    <3> QED BY <3>3, <3>4, <3>5
  <2> QED BY <2>1, <2>2, <2>3, <2>4, <2>5, <2>6, <2>7, <2>8
<1> QED BY <1>1, <1>2

\* Looking at the successor changes nothing but where the run is.
LEMMA StartStepInv ==
    ASSUME RolloverInv, NEW r \in Runs, StartStep(r), UNCHANGED edits
    PROVE  RolloverInv'
<1> USE RunsAssumption DEF RolloverInv, Runs, automationVars, runVars, historyVars
<1>1. CASE Throw(r)
  BY <1>1, ThrowInv DEF StartStep, TypeOK, Steps, StatusWrites, Target
<1>2. CASE ~Throw(r)
  <2>1. TypeOK'
    BY <1>2, EntryFacts DEF StartStep, GoTo, TypeOK, Steps, RunsEquipped
  <2>2. OneScheduledRun'
    BY <1>2, EntryFacts DEF StartStep, GoTo, TypeOK, OneScheduledRun
  <2>3. RunsEquipped'
    BY <1>2, EntryFacts DEF StartStep, GoTo, TypeOK, RunsEquipped, Steps, StatusWrites,
       Target
  <2>4. SeasonsKnown'
    BY <1>2, EntryFacts DEF StartStep, GoTo, TypeOK, RunsEquipped, SeasonsKnown, Known
  <2>5. NothingDangles'
    BY <1>2, EntryFacts DEF StartStep, GoTo, TypeOK, NothingDangles
  <2>6. ClaimsHeld'
    BY <1>2, EntryFacts DEF StartStep, GoTo, TypeOK, RunsEquipped, ClaimsHeld
  <2>7. ChainsHeld'
    BY <1>2, EntryFacts DEF StartStep, GoTo, TypeOK, RunsEquipped, ChainsHeld,
       ChainCarriedOn, HasAutomation
  <2>8. OneLine'
    <3> SUFFICES ASSUME handStarts' < 2, redone' = {}
                 PROVE  FirstStart' /\ RowsInHand' /\ Successions'
      BY DEF OneLine
    <3>1. handStarts < 2 /\ redone = {}
      BY <1>2 DEF StartStep, GoTo, TypeOK
    <3>2. FirstStart /\ RowsInHand /\ Successions
      BY <3>1 DEF OneLine
    <3>3. FirstStart'
      BY <1>2, <3>1, <3>2, EntryFacts DEF StartStep, GoTo, TypeOK, RunsEquipped, FirstStart,
         ByHand, NoneHasRun, Run
    <3>4. RowsInHand'
      BY <1>2, <3>1, <3>2, EntryFacts DEF StartStep, GoTo, TypeOK, RunsEquipped,
         SeasonsKnown, Known, RowsInHand, RunOrDeleted, Follows
    <3>5. Successions'
      BY <1>2, <3>1, <3>2, EntryFacts DEF StartStep, GoTo, TypeOK, Successions,
         RunOrDeleted, Run, Continued
    <3> QED BY <3>3, <3>4, <3>5
  <2> QED BY <2>1, <2>2, <2>3, <2>4, <2>5, <2>6, <2>7, <2>8
<1> QED BY <1>1, <1>2

\* The season that opens is the claimed one, and its automation is there.
LEMMA OpenStepInv ==
    ASSUME RolloverInv, NEW r \in Runs, OpenStep(r), UNCHANGED edits
    PROVE  RolloverInv'
<1> USE RunsAssumption DEF RolloverInv, Runs, automationVars, runVars, historyVars
<1>1. CASE Throw(r)
  BY <1>1, ThrowInv DEF OpenStep, TypeOK, Steps, StatusWrites, Target
<1>2. CASE ~Throw(r)
  <2>1. TypeOK'
    BY <1>2, EntryFacts DEF OpenStep, GoTo, Leave, Updated, HasAutomation, TypeOK, Steps,
       RunsEquipped
  <2>2. OneScheduledRun'
    BY <1>2, EntryFacts DEF OpenStep, GoTo, Leave, Updated, HasAutomation, TypeOK,
       OneScheduledRun
  <2>3. RunsEquipped'
    BY <1>2, EntryFacts DEF OpenStep, GoTo, Leave, Updated, HasAutomation, TypeOK,
       RunsEquipped, Steps, StatusWrites, Target
  <2>4. SeasonsKnown'
    BY <1>2, EntryFacts DEF OpenStep, GoTo, Leave, Updated, HasAutomation, TypeOK,
       RunsEquipped, SeasonsKnown, Known
  <2>5. NothingDangles'
    BY <1>2, EntryFacts DEF OpenStep, GoTo, Leave, Updated, HasAutomation, TypeOK,
       NothingDangles
  <2>6. ClaimsHeld'
    BY <1>2, EntryFacts DEF OpenStep, GoTo, Leave, Updated, HasAutomation, TypeOK,
       RunsEquipped, ClaimsHeld
  <2>7. ChainsHeld'
    BY <1>2, EntryFacts DEF OpenStep, GoTo, Leave, Updated, HasAutomation, TypeOK,
       RunsEquipped, ChainsHeld, ChainCarriedOn
  <2>8. OneLine'
    <3> SUFFICES ASSUME handStarts' < 2, redone' = {}
                 PROVE  FirstStart' /\ RowsInHand' /\ Successions'
      BY DEF OneLine
    <3>1. handStarts < 2 /\ redone = {}
      BY <1>2 DEF OpenStep, GoTo, Leave, Updated, HasAutomation, TypeOK
    <3>2. FirstStart /\ RowsInHand /\ Successions
      BY <3>1 DEF OneLine
    <3>3. FirstStart'
      BY <1>2, <3>1, <3>2, EntryFacts DEF OpenStep, GoTo, Leave, Updated, HasAutomation,
         TypeOK, RunsEquipped, FirstStart, ByHand, NoneHasRun, Run
    <3>4. RowsInHand'
      <4>1. made[r] \in Seasons /\ status[made[r]] # "deleted" /\ status'[made[r]] = "ongoing"
        BY <1>2 DEF OpenStep, Updated, RunsEquipped, TypeOK
      <4>2. \A t \in Seasons : t # made[r] => status'[t] = status[t]
        BY <1>2 DEF OpenStep, Updated, TypeOK
      <4>3. CASE entry[r] = NoEntry
        <5>1. NoneHasRun
          BY <3>2, <4>3 DEF OpenStep, FirstStart, ByHand
        <5>2. \A q \in Runs : entry'[q] = NoEntry
          BY <1>2, <5>1 DEF OpenStep, GoTo, Leave, NoneHasRun, TypeOK
        <5>3. todo' = todo
          BY <1>2 DEF OpenStep, Leave
        <5> QED
          BY <1>2, <3>2, <4>1, <4>2, <5>1, <5>2, <5>3, EntryFacts
          DEF OpenStep, GoTo, Leave, RowsInHand, RunOrDeleted, Follows, NoneHasRun, TypeOK,
              RunsEquipped, StatusWrites, Target
      <4>4. CASE entry[r] \in Entries
        <5>1. Follows(r) /\ status[made[r]] = "draft"
          BY <3>2, <4>1, <4>4 DEF OpenStep, Follows, RowsInHand
        <5>2. \A t \in Seasons : RunOrDeleted(t) => t # made[r]
          BY <5>1 DEF RunOrDeleted
        <5>3. \A q \in Runs : entry'[q] \in Entries => entry'[q] = entry[q]
          BY <1>2, EntryFacts DEF OpenStep, GoTo, Leave, TypeOK
        <5>4. ~Follows(r)' /\ todo' = todo
          BY <1>2, EntryFacts DEF OpenStep, GoTo, Leave, Follows, TypeOK
        <5>5. \A q \in Runs : q # r => pc'[q] = pc[q] /\ entry'[q] = entry[q] /\ made'[q] = made[q]
          BY <1>2 DEF OpenStep, GoTo, Leave, TypeOK
        <5>6. pc[r] = "open" /\ pc'[r] \in {"next", "idle", "schedule"}
          BY <1>2 DEF OpenStep, GoTo, Leave, TypeOK
        <5>7. \A q \in Runs : entry'[q] \in Entries =>
                /\ RunOrDeleted(entry[q].season)'
                /\ status'[entry'[q].season] = "ongoing" =>
                      entry'[q].ongoing /\ pc'[q] \in {"end", "finish"}
          BY <3>2, <4>2, <5>2, <5>3, <5>5, <5>6, EntryFacts DEF RowsInHand, RunOrDeleted
        <5>8. \A i \in Instances : \A e \in todo'[i] :
                RunOrDeleted(e.season)' /\ (status'[e.season] = "ongoing" => e.ongoing)
          BY <3>2, <4>2, <5>2, <5>4, EntryFacts DEF RowsInHand, RunOrDeleted, TypeOK
        <5>9. \A q \in Runs : pc'[q] = "toFinished" => RunOrDeleted(made[q])'
          BY <3>2, <4>1, <4>2, <5>2, <5>5, <5>6
          DEF RowsInHand, RunOrDeleted, RunsEquipped, StatusWrites, Target
        <5>10. \A q \in Runs : Follows(q)' => Follows(q) /\ made'[q] = made[q] /\ made[q] # made[r]
          BY <3>2, <5>1, <5>4, <5>5 DEF Follows, RowsInHand
        <5>11. \A q \in Runs : Follows(q)' => status'[made'[q]] \in {"draft", "deleted"}
          BY <3>2, <4>2, <5>10 DEF RowsInHand, Follows, RunsEquipped
        <5>12. \A q, p \in Runs : Follows(q)' /\ Follows(p)' /\ made'[q] = made'[p] => q = p
          BY <3>2, <5>10 DEF RowsInHand
        <5> QED BY <5>7, <5>8, <5>9, <5>11, <5>12 DEF RowsInHand
      <4> QED BY <4>3, <4>4 DEF TypeOK
    <3>5. Successions'
      <4>1. /\ made[r] \in Seasons
            /\ status[made[r]] # "deleted"
            /\ status'[made[r]] = "ongoing"
        BY <1>2 DEF OpenStep, Updated, RunsEquipped, TypeOK
      <4>2. \A t \in Seasons : t # made[r] => status'[t] = status[t]
        BY <1>2 DEF OpenStep, Updated, TypeOK
      <4>3. CASE entry[r] = NoEntry
        <5>1. NoneHasRun /\ \A t \in Seasons : status[t] # "open"
          BY <3>2, <4>3 DEF OpenStep, FirstStart, ByHand
        <5>2. opened' = opened /\ \A p \in opened : status[p[1]] = "deleted" /\ status[p[2]] = "deleted"
          BY <1>2, <3>2, <4>3, <5>1
          DEF OpenStep, Successions, NoneHasRun, Run, RunOrDeleted, TypeOK
        <5> QED
          BY <4>1, <4>2, <5>1, <5>2 DEF Successions, RunOrDeleted, Run, Continued, NoneHasRun, TypeOK
      <4>4. CASE entry[r] \in Entries
        <5> DEFINE s == entry[r].season
        <5>1. Follows(r) /\ status[made[r]] = "draft" /\ s \in Seasons
          BY <3>2, <4>1, <4>4, EntryFacts DEF OpenStep, Follows, RowsInHand
        <5>2. nextSeason[s] = made[r]
          BY <3>1, <4>4 DEF OpenStep, ClaimsHeld
        <5>3. status[s] = "finished"
          BY <3>2, <4>1, <4>4, <5>1, <5>2, EntryFacts
          DEF OpenStep, RowsInHand, RunOrDeleted, NothingDangles
        <5>4. ~Continued(s)
          BY <3>1, <3>2, <5>1, <5>2 DEF ClaimsHeld, Successions, RunOrDeleted, Continued
        <5>5. opened' = opened \cup {<<s, made[r]>>}
          BY <1>2, <4>4, EntryFacts DEF OpenStep
        <5>6. \A p \in opened' : status'[p[1]] \in {"finished", "deleted"} /\ RunOrDeleted(p[2])'
          BY <3>2, <4>1, <4>2, <5>1, <5>3, <5>5 DEF Successions, RunOrDeleted, TypeOK
        <5>7. \A t \in Seasons :
                (status'[t] = "open" \/ Run(t)') /\ ~Continued(t)' => t = made[r]
          <6> SUFFICES ASSUME NEW t \in Seasons, status'[t] = "open" \/ Run(t)', ~Continued(t)',
                              t # made[r]
                       PROVE  FALSE
            OBVIOUS
          <6>1. status[t] = "open" \/ Run(t)
            BY <4>2 DEF Run
          <6>2. \A p \in opened' : p[1] # t
            BY DEF Continued
          <6>3. ~Continued(t) /\ t # s
            <7>1. <<s, made[r]>> \in opened' /\ <<s, made[r]>>[1] = s
              BY <5>5
            <7> QED BY <5>5, <6>2, <7>1 DEF Continued
          <6>4. Run(s)
            BY <5>3 DEF Run
          <6>5. t = s
            BY <3>2, <5>1, <5>4, <6>1, <6>3, <6>4 DEF Successions
          <6> QED BY <6>3, <6>5
        <5> QED BY <5>6, <5>7 DEF Successions
      <4> QED BY <4>3, <4>4 DEF TypeOK
    <3> QED BY <3>3, <3>4, <3>5
  <2> QED BY <2>1, <2>2, <2>3, <2>4, <2>5, <2>6, <2>7, <2>8
<1> QED BY <1>1, <1>2

\* Scheduling the term touches neither claim nor automation.
LEMMA ScheduleStepInv ==
    ASSUME RolloverInv, NEW r \in Runs, ScheduleStep(r), UNCHANGED edits
    PROVE  RolloverInv'
<1> USE RunsAssumption DEF RolloverInv, Runs, automationVars, runVars, historyVars
<1>1. TypeOK'
  BY EntryFacts DEF ScheduleStep, Leave, TypeOK, Steps, RunsEquipped
<1>2. OneScheduledRun'
  BY EntryFacts DEF ScheduleStep, Leave, TypeOK, OneScheduledRun
<1>3. RunsEquipped'
  BY EntryFacts DEF ScheduleStep, Leave, TypeOK, RunsEquipped, Steps, StatusWrites, Target
<1>4. SeasonsKnown'
  BY EntryFacts DEF ScheduleStep, Leave, TypeOK, RunsEquipped, SeasonsKnown, Known
<1>5. NothingDangles'
  BY EntryFacts DEF ScheduleStep, Leave, TypeOK, NothingDangles
<1>6. ClaimsHeld'
  BY EntryFacts DEF ScheduleStep, Leave, TypeOK, RunsEquipped, ClaimsHeld
<1>7. ChainsHeld'
  BY EntryFacts DEF ScheduleStep, Leave, TypeOK, RunsEquipped, ChainsHeld, ChainCarriedOn,
     HasAutomation
<1>8. OneLine'
  <2> SUFFICES ASSUME handStarts' < 2, redone' = {}
               PROVE  FirstStart' /\ RowsInHand' /\ Successions'
    BY DEF OneLine
  <2>1. handStarts < 2 /\ redone = {}
    BY DEF ScheduleStep, Leave, TypeOK
  <2>2. FirstStart /\ RowsInHand /\ Successions
    BY <2>1 DEF OneLine
  <2>3. FirstStart'
    BY <2>1, <2>2, EntryFacts DEF ScheduleStep, Leave, TypeOK, RunsEquipped, FirstStart,
       ByHand, NoneHasRun, Run
  <2>4. RowsInHand'
    BY <2>1, <2>2, EntryFacts DEF ScheduleStep, Leave, TypeOK, RunsEquipped, SeasonsKnown,
       Known, RowsInHand, RunOrDeleted, Follows
  <2>5. Successions'
    BY <2>1, <2>2, EntryFacts DEF ScheduleStep, Leave, TypeOK, Successions, RunOrDeleted,
       Run, Continued
  <2> QED BY <2>3, <2>4, <2>5
<1> QED BY <1>1, <1>2, <1>3, <1>4, <1>5, <1>6, <1>7, <1>8

\* A status written on a stale read brings no deleted season back.
LEMMA WriteStatusInv ==
    ASSUME RolloverInv, NEW r \in Runs, WriteStatus(r), UNCHANGED edits
    PROVE  RolloverInv'
<1> USE RunsAssumption DEF RolloverInv, Runs, automationVars, runVars, historyVars
<1>1. TypeOK'
  BY EntryFacts DEF WriteStatus, Leave, Updated, StatusWrites, Target, TypeOK, Steps,
     RunsEquipped
<1>2. OneScheduledRun'
  BY EntryFacts DEF WriteStatus, Leave, Updated, StatusWrites, Target, TypeOK,
     OneScheduledRun
<1>3. RunsEquipped'
  BY EntryFacts DEF WriteStatus, Leave, Updated, StatusWrites, Target, TypeOK, RunsEquipped,
     Steps
<1>4. SeasonsKnown'
  BY EntryFacts DEF WriteStatus, Leave, Updated, StatusWrites, Target, TypeOK, RunsEquipped,
     SeasonsKnown, Known
<1>5. NothingDangles'
  BY EntryFacts DEF WriteStatus, Leave, Updated, StatusWrites, Target, TypeOK,
     NothingDangles
<1>6. ClaimsHeld'
  BY EntryFacts DEF WriteStatus, Leave, Updated, StatusWrites, Target, TypeOK, RunsEquipped,
     ClaimsHeld
<1>7. ChainsHeld'
  BY EntryFacts DEF WriteStatus, Leave, Updated, StatusWrites, Target, TypeOK, RunsEquipped,
     ChainsHeld, ChainCarriedOn, HasAutomation
<1>8. OneLine'
  <2> SUFFICES ASSUME handStarts' < 2, redone' = {}
               PROVE  FirstStart' /\ RowsInHand' /\ Successions'
    BY DEF OneLine
  <2>1. handStarts < 2 /\ redone = {}
    BY DEF WriteStatus, Leave, Updated, StatusWrites, Target, TypeOK
  <2>2. FirstStart /\ RowsInHand /\ Successions
    BY <2>1 DEF OneLine
  <2>3. FirstStart'
    <3>1. pc[r] \in {"toDraft", "toOpen", "toOngoing", "toFinished"} /\ made[r] \in Seasons
      BY DEF WriteStatus, RunsEquipped, StatusWrites, Target
    <3>2. /\ \A q \in Runs : q # r => pc'[q] = pc[q] /\ entry'[q] = entry[q]
          /\ entry[r] = NoEntry /\ entry'[r] = NoEntry /\ pc'[r] \in {"next", "idle"}
          /\ todo' = todo /\ handStarts' = handStarts
      BY DEF WriteStatus, Leave, TypeOK, RunsEquipped
    <3>3. \A q \in Runs : ByHand(q)' => ByHand(q) /\ q # r
      BY <3>2 DEF ByHand
    <3>4. /\ pc[r] = "toDraft" => status' = Updated(made[r], "draft")
          /\ pc[r] = "toOpen" => status' = Updated(made[r], "open")
          /\ pc[r] = "toOngoing" => status' = Updated(made[r], "ongoing")
          /\ pc[r] = "toFinished" => status' = Updated(made[r], "finished")
      BY DEF WriteStatus, Target
    <3>5. CASE pc[r] = "toDraft"
      <4>1. NoneHasRun /\ handStarts = 1 /\ \A q \in Runs : ~ByHand(q)
        BY <2>2, <3>5 DEF FirstStart
      <4>2. NoneHasRun'
        BY <3>2, <3>4, <3>5, <4>1 DEF Updated, NoneHasRun, Run, TypeOK
      <4> QED BY <3>2, <3>3, <4>1, <4>2 DEF FirstStart
    <3>6. CASE pc[r] = "toOpen"
      <4>1. /\ ByHand(r) /\ NoneHasRun /\ handStarts = 1
            /\ \A q \in Runs : pc[q] # "toDraft" /\ (ByHand(q) => q = r)
        BY <2>2, <3>2, <3>6 DEF FirstStart, ByHand
      <4>2. NoneHasRun'
        BY <3>2, <3>4, <3>6, <4>1 DEF Updated, NoneHasRun, Run, TypeOK
      <4> QED BY <3>2, <3>3, <4>1, <4>2 DEF FirstStart
    <3>7. CASE pc[r] = "toOngoing"
      <4>1. /\ ByHand(r) /\ handStarts = 1 /\ \A t \in Seasons : status[t] # "open"
            /\ \A q \in Runs : pc[q] # "toDraft" /\ (ByHand(q) => q = r)
        BY <2>2, <3>2, <3>7 DEF FirstStart, ByHand
      <4>2. \A t \in Seasons : status'[t] # "open"
        BY <3>4, <3>7, <4>1 DEF Updated, TypeOK
      <4> QED BY <3>2, <3>3, <4>1, <4>2 DEF FirstStart
    <3>8. CASE pc[r] = "toFinished"
      <4>1. RunOrDeleted(made[r])
        BY <2>2, <3>8 DEF RowsInHand
      <4>2. \A t \in Seasons : (Run(t)' <=> Run(t)) /\ (status'[t] = "open" => status[t] = "open")
        BY <3>1, <3>4, <3>8, <4>1 DEF Updated, Run, RunOrDeleted, TypeOK
      <4>3. NoneHasRun => NoneHasRun'
        BY <3>2, <4>2 DEF NoneHasRun
      <4> QED BY <2>2, <3>2, <3>3, <4>2, <4>3 DEF FirstStart
    <3> QED BY <3>1, <3>5, <3>6, <3>7, <3>8
  <2>4. RowsInHand'
    <3>1. /\ pc[r] \in {"toDraft", "toOpen", "toOngoing", "toFinished"}
          /\ made[r] \in Seasons /\ Known(made[r])
      BY DEF WriteStatus, RunsEquipped, SeasonsKnown, StatusWrites, Target
    <3>2. /\ \A q \in Runs : q # r =>
                pc'[q] = pc[q] /\ entry'[q] = entry[q] /\ made'[q] = made[q]
          /\ entry[r] = NoEntry /\ entry'[r] = NoEntry /\ pc'[r] \in {"next", "idle"}
          /\ todo' = todo
      BY DEF WriteStatus, Leave, TypeOK, RunsEquipped
    <3>3. \A t \in Seasons : t # made[r] \/ status[t] = "deleted" => status'[t] = status[t]
      BY <3>1 DEF WriteStatus, Updated, TypeOK
    <3>4. CASE pc[r] # "toFinished"
      <4>1. NoneHasRun
        BY <2>2, <3>1, <3>2, <3>4 DEF FirstStart, ByHand
      <4>2. \A t \in Seasons : RunOrDeleted(t) => status[t] = "deleted"
        BY <4>1 DEF NoneHasRun, Run, RunOrDeleted
      <4>3. \A q \in Runs : entry'[q] = NoEntry
        BY <3>2, <4>1 DEF NoneHasRun
      <4>4. \A q \in Runs : pc'[q] = "toFinished" => RunOrDeleted(made[q])'
        BY <2>2, <3>2, <3>3, <4>2 DEF RowsInHand, RunOrDeleted, RunsEquipped, StatusWrites, Target
      <4> QED BY <3>2, <4>1, <4>3, <4>4, EntryFacts DEF RowsInHand, NoneHasRun, Follows
    <3>5. CASE pc[r] = "toFinished"
      <4>1. RunOrDeleted(made[r])
        BY <2>2, <3>5 DEF RowsInHand
      <4>2. status[made[r]] # "deleted" => status'[made[r]] = "finished"
        BY <3>1, <3>5 DEF WriteStatus, Updated, Target, TypeOK
      <4>3. \A t \in Seasons :
              /\ RunOrDeleted(t) => RunOrDeleted(t)'
              /\ status'[t] = "ongoing" => status[t] = "ongoing"
              /\ status[t] \in {"draft", "deleted"} => status'[t] = status[t]
        BY <3>3, <4>1, <4>2 DEF RunOrDeleted
      <4> QED
        BY <2>2, <3>2, <4>3, EntryFacts
        DEF RowsInHand, Follows, RunsEquipped, StatusWrites, Target, TypeOK
    <3> QED BY <3>4, <3>5
  <2>5. Successions'
    <3>1. /\ pc[r] \in {"toDraft", "toOpen", "toOngoing", "toFinished"}
          /\ made[r] \in Seasons /\ entry[r] = NoEntry
      BY DEF WriteStatus, RunsEquipped, StatusWrites, Target
    <3>2. \A t \in Seasons : t # made[r] \/ status[t] = "deleted" => status'[t] = status[t]
      BY <3>1 DEF WriteStatus, Updated, TypeOK
    <3>3. opened' = opened
      BY DEF WriteStatus, historyVars
    <3>4. CASE pc[r] # "toFinished"
      <4>1. NoneHasRun
        BY <2>2, <3>1, <3>4 DEF FirstStart, ByHand
      <4>2. \A p \in opened : status[p[1]] = "deleted" /\ status[p[2]] = "deleted"
        BY <2>2, <4>1 DEF Successions, NoneHasRun, Run, RunOrDeleted, TypeOK
      <4>3. pc[r] = "toDraft" \/ \A t \in Seasons : status[t] # "open"
        BY <2>2, <3>1, <3>4 DEF FirstStart, ByHand
      <4>4. \A t \in Seasons : status'[t] = "open" \/ Run(t)' =>
              t = made[r] \/ (pc[r] = "toDraft" /\ status[t] = "open")
        BY <3>2, <4>1, <4>3 DEF NoneHasRun, Run
      <4>5. pc[r] = "toDraft" => status'[made[r]] \in {"draft", "deleted"}
        BY <3>1 DEF WriteStatus, Updated, Target, TypeOK
      <4>6. \A t \in Seasons : Continued(t)' <=> Continued(t)
        BY <3>3 DEF Continued
      <4>7. \A s, t \in Seasons :
              (status'[s] = "open" \/ Run(s)') /\ (status'[t] = "open" \/ Run(t)')
                /\ ~Continued(s)' /\ ~Continued(t)' => s = t
        BY <2>2, <4>4, <4>5, <4>6 DEF Successions, Run
      <4> QED BY <3>2, <3>3, <4>2, <4>7 DEF Successions, RunOrDeleted, TypeOK
    <3>5. CASE pc[r] = "toFinished"
      <4>1. RunOrDeleted(made[r])
        BY <2>2, <3>5 DEF RowsInHand
      <4>2. status[made[r]] # "deleted" => status'[made[r]] = "finished"
        BY <3>1, <3>5 DEF WriteStatus, Updated, Target, TypeOK
      <4>3. \A t \in Seasons :
              /\ RunOrDeleted(t)' <=> RunOrDeleted(t)
              /\ Run(t)' <=> Run(t)
              /\ status'[t] = "open" <=> status[t] = "open"
              /\ status[t] \in {"finished", "deleted"} => status'[t] = status[t]
        BY <3>2, <4>1, <4>2 DEF RunOrDeleted, Run
      <4> QED BY <2>2, <3>3, <4>3 DEF TypeOK, Successions, Continued
    <3> QED BY <3>4, <3>5
  <2> QED BY <2>3, <2>4, <2>5
<1> QED BY <1>1, <1>2, <1>3, <1>4, <1>5, <1>6, <1>7, <1>8

\* Deleting a season frees the claim on it: the chain is taken apart.
LEMMA EraseStepInv ==
    ASSUME RolloverInv, NEW r \in Runs, EraseStep(r), UNCHANGED edits
    PROVE  RolloverInv'
<1> USE RunsAssumption DEF RolloverInv, Runs, automationVars, runVars, historyVars
<1>1. TypeOK'
  BY EntryFacts DEF EraseStep, Leave, TypeOK, Steps, RunsEquipped
<1>2. OneScheduledRun'
  BY EntryFacts DEF EraseStep, Leave, TypeOK, OneScheduledRun
<1>3. RunsEquipped'
  BY EntryFacts DEF EraseStep, Leave, TypeOK, RunsEquipped, Steps, StatusWrites, Target
<1>4. SeasonsKnown'
  BY EntryFacts DEF EraseStep, Leave, TypeOK, RunsEquipped, SeasonsKnown, Known
<1>5. NothingDangles'
  BY EntryFacts DEF EraseStep, Leave, TypeOK, NothingDangles
<1>6. ClaimsHeld'
  BY EntryFacts DEF EraseStep, Leave, TypeOK, RunsEquipped, ClaimsHeld
<1>7. ChainsHeld'
  BY EntryFacts DEF EraseStep, Leave, TypeOK, RunsEquipped, ChainsHeld, ChainCarriedOn,
     HasAutomation
<1>8. OneLine'
  <2> SUFFICES ASSUME handStarts' < 2, redone' = {}
               PROVE  FirstStart' /\ RowsInHand' /\ Successions'
    BY DEF OneLine
  <2>1. handStarts < 2 /\ redone = {}
    BY DEF EraseStep, Leave, TypeOK
  <2>2. FirstStart /\ RowsInHand /\ Successions
    BY <2>1 DEF OneLine
  <2>3. FirstStart'
    BY <2>1, <2>2, EntryFacts DEF EraseStep, Leave, TypeOK, RunsEquipped, FirstStart,
       ByHand, NoneHasRun, Run
  <2>4. RowsInHand'
    BY <2>1, <2>2, EntryFacts DEF EraseStep, Leave, TypeOK, RunsEquipped, SeasonsKnown,
       Known, RowsInHand, RunOrDeleted, Follows
  <2>5. Successions'
    <3>1. \A p \in opened : p[1] # made[r] /\ p[2] # made[r]
      BY <2>1, EntryFacts DEF EraseStep, Leave, TypeOK, ClaimsHeld
    <3>2. \A t \in Seasons : t # made[r] => status'[t] = status[t]
      BY DEF EraseStep, TypeOK
    <3>3. made[r] \in Seasons /\ status'[made[r]] = "deleted"
      BY DEF EraseStep, RunsEquipped, TypeOK
    <3> QED
      BY <2>2, <3>1, <3>2, <3>3 DEF EraseStep, TypeOK, Successions, RunOrDeleted, Run, Continued
  <2> QED BY <2>3, <2>4, <2>5
<1> QED BY <1>1, <1>2, <1>3, <1>4, <1>5, <1>6, <1>7, <1>8

\* Any step of a rollover may throw.
LEMMA StepThrowsInv ==
    ASSUME RolloverInv, NEW r \in Runs, StepThrows(r), UNCHANGED edits
    PROVE  RolloverInv'
<1> USE RunsAssumption DEF RolloverInv, Runs
<1> QED BY ThrowInv DEF StepThrows, TypeOK, Steps, StatusWrites, Target

\* A crash frees the lock of the server that held it, and no other.
LEMMA CrashInv ==
    ASSUME RolloverInv, NEW r \in Runs, Crash(r), UNCHANGED edits
    PROVE  RolloverInv'
<1> USE RunsAssumption DEF RolloverInv, Runs, automationVars, runVars, historyVars
<1>1. TypeOK'
  BY EntryFacts DEF Crash, LockAfterCrash, TypeOK, Steps, RunsEquipped
<1>2. OneScheduledRun'
  BY EntryFacts DEF Crash, LockAfterCrash, TypeOK, OneScheduledRun
<1>3. RunsEquipped'
  BY EntryFacts DEF Crash, LockAfterCrash, TypeOK, RunsEquipped, Steps, StatusWrites, Target
<1>4. SeasonsKnown'
  BY EntryFacts DEF Crash, LockAfterCrash, TypeOK, RunsEquipped, SeasonsKnown, Known
<1>5. NothingDangles'
  BY EntryFacts DEF Crash, LockAfterCrash, TypeOK, NothingDangles
<1>6. ClaimsHeld'
  BY EntryFacts DEF Crash, LockAfterCrash, TypeOK, RunsEquipped, ClaimsHeld
<1>7. ChainsHeld'
  BY EntryFacts DEF Crash, LockAfterCrash, TypeOK, RunsEquipped, ChainsHeld, ChainCarriedOn,
     HasAutomation
<1>8. OneLine'
  <2> SUFFICES ASSUME handStarts' < 2, redone' = {}
               PROVE  FirstStart' /\ RowsInHand' /\ Successions'
    BY DEF OneLine
  <2>1. handStarts < 2 /\ redone = {}
    BY DEF Crash, LockAfterCrash, TypeOK
  <2>2. FirstStart /\ RowsInHand /\ Successions
    BY <2>1 DEF OneLine
  <2>3. FirstStart'
    BY <2>1, <2>2, EntryFacts DEF Crash, LockAfterCrash, TypeOK, RunsEquipped, FirstStart,
       ByHand, NoneHasRun, Run
  <2>4. RowsInHand'
    BY <2>1, <2>2, EntryFacts DEF Crash, LockAfterCrash, TypeOK, RunsEquipped, SeasonsKnown,
       Known, RowsInHand, RunOrDeleted, Follows
  <2>5. Successions'
    BY <2>1, <2>2, EntryFacts DEF Crash, LockAfterCrash, TypeOK, Successions, RunOrDeleted,
       Run, Continued
  <2> QED BY <2>3, <2>4, <2>5
<1> QED BY <1>1, <1>2, <1>3, <1>4, <1>5, <1>6, <1>7, <1>8

\* A request starts from a season that is ongoing.
LEMMA RolloverNowInv ==
    ASSUME RolloverInv, NEW r \in Requests, NEW s \in Seasons,
           RolloverNow(r, s), UNCHANGED edits
    PROVE  RolloverInv'
<1> USE RunsAssumption DEF RolloverInv, Runs, automationVars, runVars, historyVars
<1>0. EntryOf(s) \in Entries
  BY EntryOfTyped DEF RolloverNow, HasAutomation
<1>1. TypeOK'
  BY <1>0 DEF RolloverNow, GoTo, TypeOK, Steps
<1>2. OneScheduledRun'
  BY EntryFacts DEF RolloverNow, GoTo, EntryOf, TypeOK, OneScheduledRun
<1>3. RunsEquipped'
  BY <1>0 DEF RolloverNow, GoTo, TypeOK, RunsEquipped, StatusWrites, Target
<1>4. SeasonsKnown'
  BY EntryFacts DEF RolloverNow, GoTo, EntryOf, TypeOK, RunsEquipped, SeasonsKnown, Known
<1>5. NothingDangles'
  BY EntryFacts DEF RolloverNow, GoTo, EntryOf, TypeOK, NothingDangles
<1>6. ClaimsHeld'
  BY EntryFacts DEF RolloverNow, GoTo, EntryOf, TypeOK, RunsEquipped, ClaimsHeld
<1>7. ChainsHeld'
  BY EntryFacts DEF RolloverNow, GoTo, EntryOf, TypeOK, RunsEquipped, ChainsHeld,
     ChainCarriedOn, HasAutomation
<1>8. OneLine'
  <2> SUFFICES ASSUME handStarts' < 2, redone' = {}
               PROVE  FirstStart' /\ RowsInHand' /\ Successions'
    BY DEF OneLine
  <2>1. handStarts < 2 /\ redone = {}
    BY DEF RolloverNow, GoTo, EntryOf, TypeOK
  <2>2. FirstStart /\ RowsInHand /\ Successions
    BY <2>1 DEF OneLine
  <2>3. FirstStart'
    BY <2>1, <2>2, EntryFacts DEF RolloverNow, GoTo, EntryOf, TypeOK, RunsEquipped,
       FirstStart, ByHand, NoneHasRun, Run
  <2>4. RowsInHand'
    BY <2>1, <2>2, EntryFacts DEF RolloverNow, GoTo, EntryOf, TypeOK, RunsEquipped,
       SeasonsKnown, Known, RowsInHand, RunOrDeleted, Follows
  <2>5. Successions'
    BY <2>1, <2>2, EntryFacts DEF RolloverNow, GoTo, EntryOf, TypeOK, Successions,
       RunOrDeleted, Run, Continued
  <2> QED BY <2>3, <2>4, <2>5
<1> QED BY <1>1, <1>2, <1>3, <1>4, <1>5, <1>6, <1>7, <1>8

\* Starting a draft by hand is the tail of a rollover, of no season.
LEMMA StartSeasonInv ==
    ASSUME RolloverInv, NEW r \in Requests, NEW s \in Seasons,
           StartSeason(r, s), UNCHANGED edits
    PROVE  RolloverInv'
<1> USE RunsAssumption DEF RolloverInv, Runs, automationVars, runVars, historyVars
<1>1. TypeOK'
  BY EntryFacts DEF StartSeason, GoTo, OneMore, TypeOK, Steps, RunsEquipped
<1>2. OneScheduledRun'
  BY EntryFacts DEF StartSeason, GoTo, OneMore, TypeOK, OneScheduledRun
<1>3. RunsEquipped'
  BY EntryFacts DEF StartSeason, GoTo, OneMore, TypeOK, RunsEquipped, Steps, StatusWrites,
     Target
<1>4. SeasonsKnown'
  BY EntryFacts DEF StartSeason, GoTo, OneMore, TypeOK, RunsEquipped, SeasonsKnown, Known
<1>5. NothingDangles'
  BY EntryFacts DEF StartSeason, GoTo, OneMore, TypeOK, NothingDangles
<1>6. ClaimsHeld'
  BY EntryFacts DEF StartSeason, GoTo, OneMore, TypeOK, RunsEquipped, ClaimsHeld
<1>7. ChainsHeld'
  BY EntryFacts DEF StartSeason, GoTo, OneMore, TypeOK, RunsEquipped, ChainsHeld,
     ChainCarriedOn, HasAutomation
<1>8. OneLine'
  <2> SUFFICES ASSUME handStarts' < 2, redone' = {}
               PROVE  FirstStart' /\ RowsInHand' /\ Successions'
    BY DEF OneLine
  <2>1. handStarts < 2 /\ redone = {}
    BY DEF StartSeason, GoTo, OneMore, TypeOK
  <2>2. FirstStart /\ RowsInHand /\ Successions
    BY <2>1 DEF OneLine
  <2>3. FirstStart'
    BY <2>1, <2>2, EntryFacts DEF StartSeason, GoTo, OneMore, TypeOK, RunsEquipped,
       FirstStart, ByHand, NoneHasRun, Run
  <2>4. RowsInHand'
    BY <2>1, <2>2, EntryFacts DEF StartSeason, GoTo, OneMore, TypeOK, RunsEquipped,
       SeasonsKnown, Known, RowsInHand, RunOrDeleted, Follows
  <2>5. Successions'
    BY <2>1, <2>2, EntryFacts DEF StartSeason, GoTo, OneMore, TypeOK, Successions,
       RunOrDeleted, Run, Continued
  <2> QED BY <2>3, <2>4, <2>5
<1> QED BY <1>1, <1>2, <1>3, <1>4, <1>5, <1>6, <1>7, <1>8

\* Time passes for the dates only.
LEMMA TermPassesInv ==
    ASSUME RolloverInv, NEW s \in Seasons, TermPasses(s), UNCHANGED edits
    PROVE  RolloverInv'
<1> USE RunsAssumption DEF RolloverInv, Runs, automationVars, runVars, historyVars
<1>1. TypeOK'
  BY EntryFacts DEF TermPasses, TypeOK, Steps, RunsEquipped
<1>2. OneScheduledRun'
  BY EntryFacts DEF TermPasses, TypeOK, OneScheduledRun
<1>3. RunsEquipped'
  BY EntryFacts DEF TermPasses, TypeOK, RunsEquipped, Steps, StatusWrites, Target
<1>4. SeasonsKnown'
  BY EntryFacts DEF TermPasses, TypeOK, RunsEquipped, SeasonsKnown, Known
<1>5. NothingDangles'
  BY EntryFacts DEF TermPasses, TypeOK, NothingDangles
<1>6. ClaimsHeld'
  BY EntryFacts DEF TermPasses, TypeOK, RunsEquipped, ClaimsHeld
<1>7. ChainsHeld'
  BY EntryFacts DEF TermPasses, TypeOK, RunsEquipped, ChainsHeld, ChainCarriedOn,
     HasAutomation
<1>8. OneLine'
  <2> SUFFICES ASSUME handStarts' < 2, redone' = {}
               PROVE  FirstStart' /\ RowsInHand' /\ Successions'
    BY DEF OneLine
  <2>1. handStarts < 2 /\ redone = {}
    BY DEF TermPasses, TypeOK
  <2>2. FirstStart /\ RowsInHand /\ Successions
    BY <2>1 DEF OneLine
  <2>3. FirstStart'
    BY <2>1, <2>2, EntryFacts DEF TermPasses, TypeOK, RunsEquipped, FirstStart, ByHand,
       NoneHasRun, Run
  <2>4. RowsInHand'
    BY <2>1, <2>2, EntryFacts DEF TermPasses, TypeOK, RunsEquipped, SeasonsKnown, Known,
       RowsInHand, RunOrDeleted, Follows
  <2>5. Successions'
    BY <2>1, <2>2, EntryFacts DEF TermPasses, TypeOK, Successions, RunOrDeleted, Run,
       Continued
  <2> QED BY <2>3, <2>4, <2>5
<1> QED BY <1>1, <1>2, <1>3, <1>4, <1>5, <1>6, <1>7, <1>8

\* A season is created by hand the way a run creates it, for no other season.
LEMMA CreateSeasonInv ==
    ASSUME RolloverInv, NEW r \in Requests, CreateSeason(r), edits' \in 0..MaxEdits
    PROVE  RolloverInv'
<1> USE RunsAssumption DEF RolloverInv, Runs, automationVars, runVars, historyVars
<1>1. TypeOK'
  BY EntryFacts DEF CreateSeason, GoTo, TypeOK, Steps, RunsEquipped
<1>2. OneScheduledRun'
  BY EntryFacts DEF CreateSeason, GoTo, TypeOK, OneScheduledRun
<1>3. RunsEquipped'
  BY EntryFacts DEF CreateSeason, GoTo, TypeOK, RunsEquipped, Steps, StatusWrites, Target
<1>4. SeasonsKnown'
  BY EntryFacts DEF CreateSeason, GoTo, TypeOK, RunsEquipped, SeasonsKnown, Known
<1>5. NothingDangles'
  BY EntryFacts DEF CreateSeason, GoTo, TypeOK, NothingDangles
<1>6. ClaimsHeld'
  BY EntryFacts DEF CreateSeason, GoTo, TypeOK, RunsEquipped, ClaimsHeld
<1>7. ChainsHeld'
  BY EntryFacts DEF CreateSeason, GoTo, TypeOK, RunsEquipped, ChainsHeld, ChainCarriedOn,
     HasAutomation
<1>8. OneLine'
  <2> SUFFICES ASSUME handStarts' < 2, redone' = {}
               PROVE  FirstStart' /\ RowsInHand' /\ Successions'
    BY DEF OneLine
  <2>1. handStarts < 2 /\ redone = {}
    BY DEF CreateSeason, GoTo, TypeOK
  <2>2. FirstStart /\ RowsInHand /\ Successions
    BY <2>1 DEF OneLine
  <2>3. FirstStart'
    BY <2>1, <2>2, EntryFacts DEF CreateSeason, GoTo, TypeOK, RunsEquipped, FirstStart,
       ByHand, NoneHasRun, Run
  <2>4. RowsInHand'
    BY <2>1, <2>2, EntryFacts DEF CreateSeason, GoTo, TypeOK, RunsEquipped, SeasonsKnown,
       Known, RowsInHand, RunOrDeleted, Follows
  <2>5. Successions'
    BY <2>1, <2>2, EntryFacts DEF CreateSeason, GoTo, TypeOK, Successions, RunOrDeleted,
       Run, Continued
  <2> QED BY <2>3, <2>4, <2>5
<1> QED BY <1>1, <1>2, <1>3, <1>4, <1>5, <1>6, <1>7, <1>8

\* A status change was allowed by the status it read.
LEMMA ChangeStatusInv ==
    ASSUME RolloverInv, NEW r \in Requests, NEW s \in Seasons,
           NEW write \in StatusWrites, ChangeStatus(r, s, write), edits' \in 0..MaxEdits
    PROVE  RolloverInv'
<1> USE RunsAssumption DEF RolloverInv, Runs, automationVars, runVars, historyVars
<1>1. TypeOK'
  BY EntryFacts DEF ChangeStatus, GoTo, Transitions, OneMore, StatusWrites, Target, TypeOK,
     Steps, RunsEquipped
<1>2. OneScheduledRun'
  BY EntryFacts DEF ChangeStatus, GoTo, Transitions, OneMore, StatusWrites, Target, TypeOK,
     OneScheduledRun
<1>3. RunsEquipped'
  BY EntryFacts DEF ChangeStatus, GoTo, Transitions, OneMore, StatusWrites, Target, TypeOK,
     RunsEquipped, Steps
<1>4. SeasonsKnown'
  BY EntryFacts DEF ChangeStatus, GoTo, Transitions, OneMore, StatusWrites, Target, TypeOK,
     RunsEquipped, SeasonsKnown, Known
<1>5. NothingDangles'
  BY EntryFacts DEF ChangeStatus, GoTo, Transitions, OneMore, StatusWrites, Target, TypeOK,
     NothingDangles
<1>6. ClaimsHeld'
  BY EntryFacts DEF ChangeStatus, GoTo, Transitions, OneMore, StatusWrites, Target, TypeOK,
     RunsEquipped, ClaimsHeld
<1>7. ChainsHeld'
  BY EntryFacts DEF ChangeStatus, GoTo, Transitions, OneMore, StatusWrites, Target, TypeOK,
     RunsEquipped, ChainsHeld, ChainCarriedOn, HasAutomation
<1>8. OneLine'
  <2> SUFFICES ASSUME handStarts' < 2, redone' = {}
               PROVE  FirstStart' /\ RowsInHand' /\ Successions'
    BY DEF OneLine
  <2>1. handStarts < 2 /\ redone = {}
    BY DEF ChangeStatus, GoTo, Transitions, OneMore, StatusWrites, Target, TypeOK
  <2>2. FirstStart /\ RowsInHand /\ Successions
    BY <2>1 DEF OneLine
  <2>3. FirstStart'
    BY <2>1, <2>2, EntryFacts DEF ChangeStatus, GoTo, Transitions, OneMore, StatusWrites,
       Target, TypeOK, RunsEquipped, FirstStart, ByHand, NoneHasRun, Run
  <2>4. RowsInHand'
    BY <2>1, <2>2, EntryFacts DEF ChangeStatus, GoTo, Transitions, OneMore, StatusWrites,
       Target, TypeOK, RunsEquipped, SeasonsKnown, Known, RowsInHand, RunOrDeleted, Follows
  <2>5. Successions'
    BY <2>1, <2>2, EntryFacts DEF ChangeStatus, GoTo, Transitions, OneMore, StatusWrites,
       Target, TypeOK, Successions, RunOrDeleted, Run, Continued
  <2> QED BY <2>3, <2>4, <2>5
<1> QED BY <1>1, <1>2, <1>3, <1>4, <1>5, <1>6, <1>7, <1>8

\* Only a draft is about to be deleted.
LEMMA DeleteDraftInv ==
    ASSUME RolloverInv, NEW r \in Requests, NEW s \in Seasons,
           DeleteDraft(r, s), edits' \in 0..MaxEdits
    PROVE  RolloverInv'
<1> USE RunsAssumption DEF RolloverInv, Runs, automationVars, runVars, historyVars
<1>1. TypeOK'
  BY EntryFacts DEF DeleteDraft, GoTo, TypeOK, Steps, RunsEquipped
<1>2. OneScheduledRun'
  BY EntryFacts DEF DeleteDraft, GoTo, TypeOK, OneScheduledRun
<1>3. RunsEquipped'
  BY EntryFacts DEF DeleteDraft, GoTo, TypeOK, RunsEquipped, Steps, StatusWrites, Target
<1>4. SeasonsKnown'
  BY EntryFacts DEF DeleteDraft, GoTo, TypeOK, RunsEquipped, SeasonsKnown, Known
<1>5. NothingDangles'
  BY EntryFacts DEF DeleteDraft, GoTo, TypeOK, NothingDangles
<1>6. ClaimsHeld'
  BY EntryFacts DEF DeleteDraft, GoTo, TypeOK, RunsEquipped, ClaimsHeld
<1>7. ChainsHeld'
  BY EntryFacts DEF DeleteDraft, GoTo, TypeOK, RunsEquipped, ChainsHeld, ChainCarriedOn,
     HasAutomation
<1>8. OneLine'
  <2> SUFFICES ASSUME handStarts' < 2, redone' = {}
               PROVE  FirstStart' /\ RowsInHand' /\ Successions'
    BY DEF OneLine
  <2>1. handStarts < 2 /\ redone = {}
    BY DEF DeleteDraft, GoTo, TypeOK
  <2>2. FirstStart /\ RowsInHand /\ Successions
    BY <2>1 DEF OneLine
  <2>3. FirstStart'
    BY <2>1, <2>2, EntryFacts DEF DeleteDraft, GoTo, TypeOK, RunsEquipped, FirstStart,
       ByHand, NoneHasRun, Run
  <2>4. RowsInHand'
    BY <2>1, <2>2, EntryFacts DEF DeleteDraft, GoTo, TypeOK, RunsEquipped, SeasonsKnown,
       Known, RowsInHand, RunOrDeleted, Follows
  <2>5. Successions'
    BY <2>1, <2>2, EntryFacts DEF DeleteDraft, GoTo, TypeOK, Successions, RunOrDeleted, Run,
       Continued
  <2> QED BY <2>3, <2>4, <2>5
<1> QED BY <1>1, <1>2, <1>3, <1>4, <1>5, <1>6, <1>7, <1>8

\* Setting an automation removes none.
LEMMA SetAutomationInv ==
    ASSUME RolloverInv, NEW s \in Seasons, NEW m \in {"chain", "close"},
           NEW on \in BOOLEAN, SetAutomation(s, m, on), edits' \in 0..MaxEdits
    PROVE  RolloverInv'
<1> USE RunsAssumption DEF RolloverInv, Runs, automationVars, runVars, historyVars
<1>1. TypeOK'
  BY EntryFacts DEF SetAutomation, Transitions, TypeOK, Steps, RunsEquipped
<1>2. OneScheduledRun'
  BY EntryFacts DEF SetAutomation, Transitions, TypeOK, OneScheduledRun
<1>3. RunsEquipped'
  BY EntryFacts DEF SetAutomation, Transitions, TypeOK, RunsEquipped, Steps, StatusWrites,
     Target
<1>4. SeasonsKnown'
  BY EntryFacts DEF SetAutomation, Transitions, TypeOK, RunsEquipped, SeasonsKnown, Known
<1>5. NothingDangles'
  BY EntryFacts DEF SetAutomation, Transitions, TypeOK, NothingDangles
<1>6. ClaimsHeld'
  BY EntryFacts DEF SetAutomation, Transitions, TypeOK, RunsEquipped, ClaimsHeld
<1>7. ChainsHeld'
  BY EntryFacts DEF SetAutomation, Transitions, TypeOK, RunsEquipped, ChainsHeld,
     ChainCarriedOn, HasAutomation
<1>8. OneLine'
  <2> SUFFICES ASSUME handStarts' < 2, redone' = {}
               PROVE  FirstStart' /\ RowsInHand' /\ Successions'
    BY DEF OneLine
  <2>1. handStarts < 2 /\ redone = {}
    BY DEF SetAutomation, Transitions, TypeOK
  <2>2. FirstStart /\ RowsInHand /\ Successions
    BY <2>1 DEF OneLine
  <2>3. FirstStart'
    BY <2>1, <2>2, EntryFacts DEF SetAutomation, Transitions, TypeOK, RunsEquipped,
       FirstStart, ByHand, NoneHasRun, Run
  <2>4. RowsInHand'
    BY <2>1, <2>2, EntryFacts DEF SetAutomation, Transitions, TypeOK, RunsEquipped,
       SeasonsKnown, Known, RowsInHand, RunOrDeleted, Follows
  <2>5. Successions'
    BY <2>1, <2>2, EntryFacts DEF SetAutomation, Transitions, TypeOK, Successions,
       RunOrDeleted, Run, Continued
  <2> QED BY <2>3, <2>4, <2>5
<1> QED BY <1>1, <1>2, <1>3, <1>4, <1>5, <1>6, <1>7, <1>8

\* Deleting an automation frees its claim: the chain is taken apart.
LEMMA DeleteAutomationInv ==
    ASSUME RolloverInv, NEW s \in Seasons, DeleteAutomation(s), edits' \in 0..MaxEdits
    PROVE  RolloverInv'
<1> USE RunsAssumption DEF RolloverInv, Runs, automationVars, runVars, historyVars
<1>1. TypeOK'
  BY EntryFacts DEF DeleteAutomation, TypeOK, Steps, RunsEquipped
<1>2. OneScheduledRun'
  BY EntryFacts DEF DeleteAutomation, TypeOK, OneScheduledRun
<1>3. RunsEquipped'
  BY EntryFacts DEF DeleteAutomation, TypeOK, RunsEquipped, Steps, StatusWrites, Target
<1>4. SeasonsKnown'
  BY EntryFacts DEF DeleteAutomation, TypeOK, RunsEquipped, SeasonsKnown, Known
<1>5. NothingDangles'
  BY EntryFacts DEF DeleteAutomation, TypeOK, NothingDangles
<1>6. ClaimsHeld'
  BY EntryFacts DEF DeleteAutomation, TypeOK, RunsEquipped, ClaimsHeld
<1>7. ChainsHeld'
  BY EntryFacts DEF DeleteAutomation, TypeOK, RunsEquipped, ChainsHeld, ChainCarriedOn,
     HasAutomation
<1>8. OneLine'
  <2> SUFFICES ASSUME handStarts' < 2, redone' = {}
               PROVE  FirstStart' /\ RowsInHand' /\ Successions'
    BY DEF OneLine
  <2>1. handStarts < 2 /\ redone = {}
    BY DEF DeleteAutomation, TypeOK
  <2>2. FirstStart /\ RowsInHand /\ Successions
    BY <2>1 DEF OneLine
  <2>3. FirstStart'
    BY <2>1, <2>2, EntryFacts DEF DeleteAutomation, TypeOK, RunsEquipped, FirstStart,
       ByHand, NoneHasRun, Run
  <2>4. RowsInHand'
    BY <2>1, <2>2, EntryFacts DEF DeleteAutomation, TypeOK, RunsEquipped, SeasonsKnown,
       Known, RowsInHand, RunOrDeleted, Follows
  <2>5. Successions'
    BY <2>1, <2>2, EntryFacts DEF DeleteAutomation, TypeOK, Successions, RunOrDeleted, Run,
       Continued
  <2> QED BY <2>3, <2>4, <2>5
<1> QED BY <1>1, <1>2, <1>3, <1>4, <1>5, <1>6, <1>7, <1>8

\* Moving a term touches neither claim nor automation.
LEMMA RescheduleCloseInv ==
    ASSUME RolloverInv, NEW s \in Seasons, RescheduleClose(s), edits' \in 0..MaxEdits
    PROVE  RolloverInv'
<1> USE RunsAssumption DEF RolloverInv, Runs, automationVars, runVars, historyVars
<1>1. TypeOK'
  BY EntryFacts DEF RescheduleClose, TypeOK, Steps, RunsEquipped
<1>2. OneScheduledRun'
  BY EntryFacts DEF RescheduleClose, TypeOK, OneScheduledRun
<1>3. RunsEquipped'
  BY EntryFacts DEF RescheduleClose, TypeOK, RunsEquipped, Steps, StatusWrites, Target
<1>4. SeasonsKnown'
  BY EntryFacts DEF RescheduleClose, TypeOK, RunsEquipped, SeasonsKnown, Known
<1>5. NothingDangles'
  BY EntryFacts DEF RescheduleClose, TypeOK, NothingDangles
<1>6. ClaimsHeld'
  BY EntryFacts DEF RescheduleClose, TypeOK, RunsEquipped, ClaimsHeld
<1>7. ChainsHeld'
  BY EntryFacts DEF RescheduleClose, TypeOK, RunsEquipped, ChainsHeld, ChainCarriedOn,
     HasAutomation
<1>8. OneLine'
  <2> SUFFICES ASSUME handStarts' < 2, redone' = {}
               PROVE  FirstStart' /\ RowsInHand' /\ Successions'
    BY DEF OneLine
  <2>1. handStarts < 2 /\ redone = {}
    BY DEF RescheduleClose, TypeOK
  <2>2. FirstStart /\ RowsInHand /\ Successions
    BY <2>1 DEF OneLine
  <2>3. FirstStart'
    BY <2>1, <2>2, EntryFacts DEF RescheduleClose, TypeOK, RunsEquipped, FirstStart, ByHand,
       NoneHasRun, Run
  <2>4. RowsInHand'
    BY <2>1, <2>2, EntryFacts DEF RescheduleClose, TypeOK, RunsEquipped, SeasonsKnown,
       Known, RowsInHand, RunOrDeleted, Follows
  <2>5. Successions'
    BY <2>1, <2>2, EntryFacts DEF RescheduleClose, TypeOK, Successions, RunOrDeleted, Run,
       Continued
  <2> QED BY <2>3, <2>4, <2>5
<1> QED BY <1>1, <1>2, <1>3, <1>4, <1>5, <1>6, <1>7, <1>8

\* Nothing has happened yet.
LEMMA InitInv == ASSUME Init PROVE RolloverInv
<1> USE RunsAssumption DEF Init, Runs
<1>1. TypeOK
  BY DEF TypeOK, Seasons
<1>2. OneScheduledRun
  BY DEF OneScheduledRun
<1>3. RunsEquipped
  BY DEF RunsEquipped, StatusWrites, Target
<1>4. SeasonsKnown
  BY EntryFacts DEF SeasonsKnown
<1>5. NothingDangles
  BY DEF NothingDangles
<1>6. ClaimsHeld
  BY EntryFacts DEF ClaimsHeld
<1>7. ChainsHeld
  BY EntryFacts DEF ChainsHeld, ChainCarriedOn
<1>8. OneLine
  BY EntryFacts DEF OneLine, FirstStart, RowsInHand, Successions, ByHand, NoneHasRun, Run,
     Follows
<1> QED BY <1>1, <1>2, <1>3, <1>4, <1>5, <1>6, <1>7, <1>8 DEF RolloverInv

\* What the server does, step by step, and what its clock does.
LEMMA UneditedInv == ASSUME RolloverInv, Unedited, UNCHANGED edits PROVE RolloverInv'
<1>1. CASE \E i \in Instances : Tick(i) \/ NextEntry(i)
  BY <1>1, TickInv, NextEntryInv
<1>2. CASE \E r \in Runs : Step(r)
  BY <1>2, EndStepInv, FinishStepInv, MarkClosedStepInv, CreateStepInv, InsertStepInv,
     ClaimStepInv, CopyStepInv, StartStepInv, OpenStepInv, ScheduleStepInv, WriteStatusInv,
     EraseStepInv DEF Step
<1>3. CASE \E r \in Runs : StepThrows(r) \/ Crash(r)
  BY <1>3, StepThrowsInv, CrashInv
<1>4. CASE \E r \in Requests, s \in Seasons : RolloverNow(r, s) \/ StartSeason(r, s)
  BY <1>4, RolloverNowInv, StartSeasonInv
<1>5. CASE \E s \in Seasons : TermPasses(s)
  BY <1>5, TermPassesInv
<1> QED BY <1>1, <1>2, <1>3, <1>4, <1>5 DEF Unedited

\* What administrators do meanwhile.
LEMMA EditedInv == ASSUME RolloverInv, Edited PROVE RolloverInv'
<1>1. edits' \in 0..MaxEdits
  BY RunsAssumption DEF Edited, RolloverInv, TypeOK
<1>2. CASE \E s \in Seasons : Edit(s)
  BY <1>1, <1>2, SetAutomationInv, DeleteAutomationInv, RescheduleCloseInv DEF Edit
<1>3. CASE \E r \in Requests : Ask(r)
  BY <1>1, <1>3, CreateSeasonInv, DeleteDraftInv, ChangeStatusInv DEF Ask
<1> QED BY <1>2, <1>3 DEF Edited

\* Nor does it when nothing changes.
LEMMA StutterInv == ASSUME RolloverInv, UNCHANGED vars PROVE RolloverInv'
<1> USE DEF vars, automationVars, runVars, historyVars, RolloverInv
<1>1. TypeOK'
  BY DEF TypeOK
<1>2. OneScheduledRun' /\ RunsEquipped' /\ SeasonsKnown' /\ NothingDangles'
  BY DEF OneScheduledRun, RunsEquipped, SeasonsKnown, Known, NothingDangles
<1>3. ClaimsHeld' /\ ChainsHeld'
  BY DEF ClaimsHeld, ChainsHeld, ChainCarriedOn, HasAutomation
<1>4. OneLine'
  BY DEF OneLine, FirstStart, RowsInHand, Successions, ByHand, NoneHasRun, Run, Follows,
     RunOrDeleted, Continued
<1> QED BY <1>1, <1>2, <1>3, <1>4

\* The invariant all of the following rest on, for any number of servers,
\* requests, seasons, faults and edits.
THEOREM RolloverInvariant == Spec => []RolloverInv
<1>1. Init => RolloverInv
  BY InitInv
<1>2. RolloverInv /\ [Next]_vars => RolloverInv'
  BY UneditedInv, EditedInv, StutterInv DEF Next
<1> QED BY <1>1, <1>2, PTL DEF Spec

\* Every variable of the rollover keeps its type.
THEOREM RolloverTypeCorrect == Spec => []TypeOK
<1>1. RolloverInv => TypeOK
  BY DEF RolloverInv
<1> QED BY <1>1, RolloverInvariant, PTL

\* Only one server rolls seasons over at a time: the one that holds the
\* advisory lock (withAdvisoryLock), whoever crashes meanwhile.
THEOREM RunsAreSerial == Spec => []OneScheduledRun
<1>1. RolloverInv => OneScheduledRun
  BY DEF RolloverInv
<1> QED BY <1>1, RolloverInvariant, PTL

\* A season opens one successor, by the claim of markRolledOver, however many
\* scheduled and manual rollovers race for it.
THEOREM SuccessorIsUnique == Spec => []OneSuccessorOpened
<1>1. RolloverInv => OneSuccessorOpened
  <2> SUFFICES ASSUME RolloverInv, NEW p \in opened, NEW q \in opened,
                      p[1] = q[1], p[1] \notin redone
               PROVE  p = q
    BY DEF OneSuccessorOpened
  <2>1. p[2] = nextSeason[p[1]] /\ q[2] = nextSeason[p[1]]
    BY DEF RolloverInv, ClaimsHeld
  <2>2. p = <<p[1], p[2]>> /\ q = <<q[1], q[2]>>
    BY DEF RolloverInv, TypeOK
  <2> QED BY <2>1, <2>2
<1> QED BY <1>1, RolloverInvariant, PTL

\* A successor that a run has opened carries the chain on: the automation is
\* copied before the start.
THEOREM ChainGoesOn == Spec => []ChainCarriedOn
<1>1. RolloverInv => ChainCarriedOn
  BY DEF RolloverInv, ChainsHeld
<1> QED BY <1>1, RolloverInvariant, PTL

\* The chain on its own keeps one season of the discipline active, without a lock
\* on it: a run opens the successor it claimed, and its season, ended by then, was
\* the only one that could still have been active.
THEOREM ActiveSeasonIsUnique == Spec => []OneActiveSeason
<1>1. RolloverInv => OneActiveSeason
  <2> SUFFICES ASSUME RolloverInv, handStarts < 2, redone = {},
                      NEW s \in ActiveSeasons, NEW t \in ActiveSeasons
               PROVE  s = t
    BY DEF OneActiveSeason
  <2>1. Successions
    BY DEF RolloverInv, OneLine
  <2>2. ~Continued(s) /\ ~Continued(t)
    BY <2>1 DEF Successions, Continued, ActiveSeasons
  <2> QED BY <2>1, <2>2 DEF Successions, ActiveSeasons, Run
<1> QED BY <1>1, RolloverInvariant, PTL
=============================================================================
