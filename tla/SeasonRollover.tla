--------------------------- MODULE SeasonRollover ---------------------------
(***************************************************************************)
(* The chaining of the ranked seasons of one discipline: the half-hourly   *)
(* job that ends the seasons whose term has passed and opens their         *)
(* successors, the organizer's "chain it now" request, and the edits an    *)
(* administrator makes meanwhile.                                          *)
(*                                                                         *)
(* A run (the job of one server instance, or a request) advances one query *)
(* at a time: what it reads is one step, what it writes for that another.  *)
(* Between two steps any other run or edit may happen, the step may throw, *)
(* or the server may crash. Nothing is undone.                             *)
(***************************************************************************)
EXTENDS Integers, FiniteSets

CONSTANTS
    MaxSeasons,  \* bound of the model: season rows ever created
    Instances,   \* servers that run the cron
    Requests,    \* concurrent administrator requests that take several steps
    NoRun,       \* nobody holds the advisory lock
    MaxFaults,   \* bound of the model: throwing steps and crashes
    MaxEdits     \* bound of the model: what administrators do, requests aside

ASSUME RunsAssumption ==
    /\ MaxSeasons \in Nat
    /\ MaxFaults \in Nat
    /\ MaxEdits \in Nat
    /\ Instances \cap Requests = {}
    /\ NoRun \notin Instances

NoSeason == 0
Seasons == 1..MaxSeasons
Runs == Instances \cup Requests

VARIABLES
    status,        \* tournaments.status of the ranked seasons
    mode,          \* ranked_season_automations.mode; "none" without a row
    enabled,       \* ranked_season_automations.enabled
    nextSeason,    \* ranked_season_automations.next_season_id
    nextRollover,  \* ranked_season_automations.next_rollover_at, seen from now
    lock,          \* holder of the job's advisory lock
    pc,            \* next step of each run
    entry,         \* the automation and season row a run is working from
    made,          \* the successor a run is building, or the season it starts
    todo,          \* the due rows the job has not reached yet
    faults,        \* throwing steps and crashes so far
    edits,         \* administrator's edits so far
    opened,        \* history: successors started by a run, with their season
    redone,        \* history: seasons whose chain an administrator took apart
    handStarts     \* history: requests that opened or started a season, two for more

automationVars == <<mode, enabled, nextSeason, nextRollover>>
runVars == <<lock, pc, entry, made, todo>>
historyVars == <<opened, redone, handStarts>>
vars == <<status, automationVars, runVars, faults, edits, historyVars>>

Entries == [season : Seasons, ongoing : BOOLEAN, mode : {"chain", "close"},
            enabled : BOOLEAN]
NoEntry == [season |-> NoSeason]

\* The status each of an administrator's requests is about to write.
Target == [toDraft |-> "draft", toOpen |-> "open", toOngoing |-> "ongoing",
           toFinished |-> "finished"]
StatusWrites == DOMAIN Target
Steps == {"next", "end", "finish", "create", "insert", "claim", "copy", "start", "open",
          "schedule", "markClosed", "erase"} \cup StatusWrites

Init ==
    /\ status = [s \in Seasons |-> "absent"]
    /\ mode = [s \in Seasons |-> "none"]
    /\ enabled = [s \in Seasons |-> FALSE]
    /\ nextSeason = [s \in Seasons |-> NoSeason]
    /\ nextRollover = [s \in Seasons |-> "none"]
    /\ lock = NoRun
    /\ pc = [r \in Runs |-> "idle"]
    /\ entry = [r \in Runs |-> NoEntry]
    /\ made = [r \in Runs |-> NoSeason]
    /\ todo = [i \in Instances |-> {}]
    /\ faults = 0
    /\ edits = 0
    /\ opened = {}
    /\ redone = {}
    /\ handStarts = 0

-----------------------------------------------------------------------------
(* Reads *)

HasAutomation(s) == mode[s] # "none"

\* getActiveSeasonByDiscipline
ActiveSeasons == {s \in Seasons : status[s] \in {"open", "ongoing"}}

\* The next id; rows are never reused.
Fresh == {s \in Seasons : status[s] = "absent" /\ \A t \in 1..(s - 1) : status[t] # "absent"}

\* listDue: the term has passed, or a chain ended without a successor.
Due(s) ==
    /\ HasAutomation(s)
    /\ enabled[s]
    /\ nextSeason[s] = NoSeason
    /\ \/ status[s] = "ongoing" /\ nextRollover[s] = "passed"
       \/ status[s] = "finished" /\ mode[s] = "chain"

EntryOf(s) == [season |-> s, ongoing |-> status[s] = "ongoing", mode |-> mode[s],
               enabled |-> enabled[s]]

-----------------------------------------------------------------------------
(* The job: one run at a time, whatever the number of instances *)

\* Defect variant (of LockFree): the result of the try-lock is ignored.
LockIgnored == TRUE

LockFree == lock = NoRun

Tick(i) ==
    /\ pc[i] = "idle"
    /\ LockFree
    /\ \E s \in Seasons : Due(s)
    /\ lock' = i
    /\ pc' = [pc EXCEPT ![i] = "next"]
    /\ todo' = [todo EXCEPT ![i] = {EntryOf(s) : s \in {t \in Seasons : Due(t)}}]
    /\ UNCHANGED <<status, automationVars, entry, made, faults, historyVars>>

NextEntry(i) ==
    /\ pc[i] = "next"
    /\ \/ \E e \in todo[i] :
            /\ entry' = [entry EXCEPT ![i] = e]
            /\ todo' = [todo EXCEPT ![i] = @ \ {e}]
            /\ pc' = [pc EXCEPT ![i] = "end"]
            /\ UNCHANGED <<lock, made>>
       \/ /\ todo[i] = {}
          /\ lock' = NoRun
          /\ pc' = [pc EXCEPT ![i] = "idle"]
          /\ entry' = [entry EXCEPT ![i] = NoEntry]
          /\ made' = [made EXCEPT ![i] = NoSeason]
          /\ UNCHANGED todo
    /\ UNCHANGED <<status, automationVars, faults, historyVars>>

\* An instance records the error and goes on with the next season; a request ends.
Leave(r) ==
    /\ pc' = [pc EXCEPT ![r] = IF r \in Instances THEN "next" ELSE "idle"]
    /\ entry' = [entry EXCEPT ![r] = NoEntry]
    /\ made' = [made EXCEPT ![r] = NoSeason]
    /\ UNCHANGED <<lock, todo>>

Throw(r) == Leave(r) /\ UNCHANGED <<status, automationVars, historyVars>>

GoTo(r, step) == pc' = [pc EXCEPT ![r] = step]

-----------------------------------------------------------------------------
(* The steps of a rollover *)

AfterEnd(e) == IF e.mode = "close" THEN "markClosed" ELSE "create"

\* runEndSeason reads the row again, and refuses a season somebody ended meanwhile.
EndStep(r) ==
    LET e == entry[r] IN
    /\ pc[r] = "end"
    /\ IF e.ongoing /\ status[e.season] # "ongoing"
       THEN Throw(r)
       ELSE /\ GoTo(r, IF e.ongoing THEN "finish" ELSE AfterEnd(e))
            /\ UNCHANGED <<status, automationVars, lock, entry, made, todo, historyVars>>
    /\ UNCHANGED faults

\* An update of the status finds a row in whatever status, or none.
Updated(t, st) == [status EXCEPT ![t] = IF @ = "deleted" THEN @ ELSE st]

FinishStep(r) ==
    /\ pc[r] = "finish"
    /\ status' = Updated(entry[r].season, "finished")
    /\ GoTo(r, AfterEnd(entry[r]))
    /\ UNCHANGED <<automationVars, lock, entry, made, todo, faults, historyVars>>

MarkClosedStep(r) ==
    LET s == entry[r].season IN
    /\ pc[r] = "markClosed"
    /\ nextRollover' = [nextRollover EXCEPT ![s] = "none"]
    /\ Leave(r)
    /\ UNCHANGED <<status, mode, enabled, nextSeason, faults, historyVars>>

\* runCreateSeason is refused while the discipline has an active season, ...
CreateStep(r) ==
    /\ pc[r] = "create"
    /\ IF ActiveSeasons # {}
       THEN Throw(r)
       ELSE /\ GoTo(r, "insert")
            /\ UNCHANGED <<status, automationVars, lock, entry, made, todo, historyVars>>
    /\ UNCHANGED faults

\* ... and inserts a draft, with no second look and no unique key. A successor may
\* refer to the season it draws its ranks from, which must then still be there.
InsertStep(r) ==
    /\ pc[r] = "insert"
    /\ \/ \E t \in Fresh :
            /\ status' = [status EXCEPT ![t] = "draft"]
            /\ IF entry[r] = NoEntry
               THEN Leave(r)
               ELSE /\ made' = [made EXCEPT ![r] = t]
                    /\ GoTo(r, "claim")
                    /\ UNCHANGED <<lock, entry, todo>>
            /\ UNCHANGED <<automationVars, historyVars>>
       \/ /\ Fresh = {} \/ (entry[r] # NoEntry /\ status[entry[r].season] = "deleted")
          /\ Throw(r)
    /\ UNCHANGED faults

\* Defect variant (of AfterClaim): the successor starts before it has its chain.
StartFirst == "start"

AfterClaim == "copy"

\* Defect variant (of Unclaimed): the claim overwrites another run's successor.
ClaimUnguarded(s) == HasAutomation(s)

\* markRolledOver: an update guarded by next_season_id IS NULL.
Unclaimed(s) == HasAutomation(s) /\ nextSeason[s] = NoSeason

ClaimStep(r) ==
    LET s == entry[r].season IN
    /\ pc[r] = "claim"
    /\ IF Unclaimed(s) /\ status[made[r]] # "deleted"
       THEN /\ nextSeason' = [nextSeason EXCEPT ![s] = made[r]]
            /\ GoTo(r, AfterClaim)
            /\ UNCHANGED <<status, mode, enabled, nextRollover, lock, entry, made,
                           todo, historyVars>>
       ELSE Throw(r)
    /\ UNCHANGED faults

\* createForSuccessor: does nothing when the row is already there.
CopyStep(r) ==
    LET t == made[r] IN
    /\ pc[r] = "copy"
    /\ IF status[t] = "deleted"
       THEN Throw(r)
       ELSE /\ IF HasAutomation(t)
               THEN UNCHANGED <<mode, enabled>>
               ELSE /\ mode' = [mode EXCEPT ![t] = entry[r].mode]
                    /\ enabled' = [enabled EXCEPT ![t] = entry[r].enabled]
            /\ GoTo(r, "start")
            /\ UNCHANGED <<status, nextSeason, nextRollover, lock, entry, made, todo,
                           historyVars>>
    /\ UNCHANGED faults

\* runStartSeason reads the status: only a draft starts, and other active seasons
\* are not looked at.
StartStep(r) ==
    /\ pc[r] = "start"
    /\ IF status[made[r]] # "draft"
       THEN Throw(r)
       ELSE /\ GoTo(r, "open")
            /\ UNCHANGED <<status, automationVars, lock, entry, made, todo, historyVars>>
    /\ UNCHANGED faults

\* It then writes the status whatever it has become; a deleted row fails the tiers.
OpenStep(r) ==
    LET t == made[r] IN
    /\ pc[r] = "open"
    /\ IF status[t] = "deleted"
       THEN Throw(r)
       ELSE /\ status' = Updated(t, "ongoing")
            /\ opened' = IF entry[r] = NoEntry THEN opened
                         ELSE opened \cup {<<entry[r].season, t>>}
            /\ IF HasAutomation(t) /\ enabled[t]
               THEN GoTo(r, "schedule") /\ UNCHANGED <<lock, entry, made, todo>>
               ELSE Leave(r)
            /\ UNCHANGED <<automationVars, redone, handStarts>>
    /\ UNCHANGED faults

\* scheduleRollover, after the status: a run that dies between the two leaves an
\* ongoing season no tick will ever find due.
ScheduleStep(r) ==
    LET t == made[r] IN
    /\ pc[r] = "schedule"
    /\ nextRollover' = [nextRollover EXCEPT
                          ![t] = IF HasAutomation(t) THEN "scheduled" ELSE @]
    /\ Leave(r)
    /\ UNCHANGED <<status, mode, enabled, nextSeason, faults, historyVars>>

\* changeTournamentStatus, updateTournament, endSeason: they write the status they
\* were asked for, whatever the one they checked has become.
WriteStatus(r) ==
    /\ pc[r] \in StatusWrites
    /\ status' = Updated(made[r], Target[pc[r]])
    /\ Leave(r)
    /\ UNCHANGED <<automationVars, faults, historyVars>>

\* A deleted season takes its automation along and frees the claim on it.
EraseStep(r) ==
    LET s == made[r] IN
    /\ pc[r] = "erase"
    /\ status' = [status EXCEPT ![s] = "deleted"]
    /\ mode' = [mode EXCEPT ![s] = "none"]
    /\ enabled' = [enabled EXCEPT ![s] = FALSE]
    /\ nextSeason' = [t \in Seasons |->
                        IF t = s \/ nextSeason[t] = s THEN NoSeason ELSE nextSeason[t]]
    /\ nextRollover' = [nextRollover EXCEPT ![s] = "none"]
    /\ redone' = redone \cup {t \in Seasons : nextSeason[t] = s}
                        \cup {t \in {s} : nextSeason[t] # NoSeason}
    /\ Leave(r)
    /\ UNCHANGED <<faults, opened, handStarts>>

\* A database call fails, or the season's name is taken between probe and insert.
StepThrows(r) ==
    /\ pc[r] \in Steps \ {"next"}
    /\ faults < MaxFaults
    /\ faults' = faults + 1
    /\ Throw(r)

\* Defect variant (of LockAfterCrash): the lock is reset to a wrong value.
LockCleared(r) == NoSeason

\* Defect variant (of LockAfterCrash): the lock outlives its connection.
LockKept(r) == lock

LockAfterCrash(r) == IF lock = r THEN NoRun ELSE lock

\* The server dies; the advisory lock goes with its connection.
Crash(r) ==
    /\ pc[r] # "idle"
    /\ faults < MaxFaults
    /\ faults' = faults + 1
    /\ pc' = [pc EXCEPT ![r] = "idle"]
    /\ entry' = [entry EXCEPT ![r] = NoEntry]
    /\ made' = [made EXCEPT ![r] = NoSeason]
    /\ todo' = [i \in Instances |-> IF i = r THEN {} ELSE todo[i]]
    /\ lock' = LockAfterCrash(r)
    /\ UNCHANGED <<status, automationVars, historyVars>>

Step(r) ==
    \/ EndStep(r)
    \/ FinishStep(r)
    \/ MarkClosedStep(r)
    \/ CreateStep(r)
    \/ InsertStep(r)
    \/ ClaimStep(r)
    \/ CopyStep(r)
    \/ StartStep(r)
    \/ OpenStep(r)
    \/ ScheduleStep(r)
    \/ WriteStatus(r)
    \/ EraseStep(r)

-----------------------------------------------------------------------------
(* Requests of an administrator *)

\* rolloverNow: an early rollover takes the same steps, without the lock.
RolloverNow(r, s) ==
    /\ pc[r] = "idle"
    /\ mode[s] = "chain"
    /\ nextSeason[s] = NoSeason
    /\ status[s] = "ongoing"
    /\ entry' = [entry EXCEPT ![r] = EntryOf(s)]
    /\ GoTo(r, "end")
    /\ UNCHANGED <<status, automationVars, lock, made, todo, faults, historyVars>>

OneMore(n) == IF n < 2 THEN n + 1 ELSE n

StartSeason(r, s) ==
    /\ pc[r] = "idle"
    /\ status[s] = "draft"
    /\ made' = [made EXCEPT ![r] = s]
    /\ GoTo(r, "start")
    /\ handStarts' = OneMore(handStarts)
    /\ UNCHANGED <<status, automationVars, lock, entry, todo, faults, opened, redone>>

CreateSeason(r) ==
    /\ pc[r] = "idle"
    /\ GoTo(r, "create")
    /\ UNCHANGED <<status, automationVars, lock, entry, made, todo, faults, historyVars>>

\* TOURNAMENT_STATUS_TRANSITIONS
Transitions == [draft |-> {"open"}, open |-> {"ongoing", "draft"}, ongoing |-> {"finished"},
                finished |-> {}]

\* The requests for any competition do not look at its mode: a ranked season, too,
\* is opened, taken back to a draft and started by them.
ChangeStatus(r, s, write) ==
    /\ pc[r] = "idle"
    /\ status[s] \in DOMAIN Transitions
    /\ Target[write] \in Transitions[status[s]]
    /\ made' = [made EXCEPT ![r] = s]
    /\ GoTo(r, write)
    /\ handStarts' = IF write \in {"toOpen", "toOngoing"} THEN OneMore(handStarts)
                     ELSE handStarts
    /\ UNCHANGED <<status, automationVars, lock, entry, todo, faults, opened, redone>>

\* deleteTournament: only a draft.
DeleteDraft(r, s) ==
    /\ pc[r] = "idle"
    /\ status[s] = "draft"
    /\ made' = [made EXCEPT ![r] = s]
    /\ GoTo(r, "erase")
    /\ UNCHANGED <<status, automationVars, lock, entry, todo, faults, historyVars>>

\* scheduleTerm: at the term, or now when it has already passed.
SetAutomation(s, m, on) ==
    /\ status[s] \in DOMAIN Transitions
    /\ mode' = [mode EXCEPT ![s] = m]
    /\ enabled' = [enabled EXCEPT ![s] = on]
    /\ IF on /\ status[s] = "ongoing"
       THEN \E at \in {"scheduled", "passed"} :
                nextRollover' = [nextRollover EXCEPT ![s] = at]
       ELSE UNCHANGED nextRollover
    /\ UNCHANGED <<status, nextSeason, runVars, faults, historyVars>>

DeleteAutomation(s) ==
    /\ HasAutomation(s)
    /\ mode' = [mode EXCEPT ![s] = "none"]
    /\ enabled' = [enabled EXCEPT ![s] = FALSE]
    /\ nextSeason' = [nextSeason EXCEPT ![s] = NoSeason]
    /\ nextRollover' = [nextRollover EXCEPT ![s] = "none"]
    /\ redone' = redone \cup {s}
    /\ UNCHANGED <<status, runVars, faults, opened, handStarts>>

\* rescheduleCloseIfNeeded: moving the end date moves a scheduled close.
RescheduleClose(s) ==
    /\ status[s] = "ongoing"
    /\ mode[s] = "close"
    /\ enabled[s]
    /\ \E at \in {"scheduled", "passed"} : nextRollover' = [nextRollover EXCEPT ![s] = at]
    /\ UNCHANGED <<status, mode, enabled, nextSeason, runVars, faults, historyVars>>

TermPasses(s) ==
    /\ nextRollover[s] = "scheduled"
    /\ nextRollover' = [nextRollover EXCEPT ![s] = "passed"]
    /\ UNCHANGED <<status, mode, enabled, nextSeason, runVars, faults, historyVars>>

\* Edits of the automation are taken as one step: what they write after a read is
\* at most the date of a rollover.
Edit(s) ==
    \/ \E m \in {"chain", "close"}, on \in BOOLEAN : SetAutomation(s, m, on)
    \/ DeleteAutomation(s)
    \/ RescheduleClose(s)

Ask(r) ==
    \/ CreateSeason(r)
    \/ \E s \in Seasons : DeleteDraft(r, s)
    \/ \E s \in Seasons, write \in StatusWrites : ChangeStatus(r, s, write)

Edited ==
    /\ edits < MaxEdits
    /\ edits' = edits + 1
    /\ \/ \E s \in Seasons : Edit(s)
       \/ \E r \in Requests : Ask(r)

Unedited ==
    \/ \E i \in Instances : Tick(i) \/ NextEntry(i)
    \/ \E r \in Runs : Step(r) \/ StepThrows(r) \/ Crash(r)
    \/ \E r \in Requests, s \in Seasons : RolloverNow(r, s) \/ StartSeason(r, s)
    \/ \E s \in Seasons : TermPasses(s)

Next ==
    \/ Unedited /\ UNCHANGED edits
    \/ Edited

Spec == Init /\ [][Next]_vars

\* The job of some server goes on: its cron fires when a season is due and no server
\* holds the lock, and a run that is neither dead nor failing takes its next step.
\* No administrator is obliged to do anything, nor any request to end.
Job == \E i \in Instances : Tick(i) \/ NextEntry(i) \/ Step(i)

FairSpec == Spec /\ WF_vars(Job /\ UNCHANGED edits)

-----------------------------------------------------------------------------
(* Properties *)

\* Every variable keeps its type.
TypeOK ==
    /\ status \in [Seasons -> {"absent", "draft", "open", "ongoing", "finished", "deleted"}]
    /\ mode \in [Seasons -> {"none", "chain", "close"}]
    /\ enabled \in [Seasons -> BOOLEAN]
    /\ nextSeason \in [Seasons -> Seasons \cup {NoSeason}]
    /\ nextRollover \in [Seasons -> {"none", "scheduled", "passed"}]
    /\ lock \in Instances \cup {NoRun}
    /\ pc \in [Runs -> Steps \cup {"idle"}]
    /\ entry \in [Runs -> Entries \cup {NoEntry}]
    /\ made \in [Runs -> Seasons \cup {NoSeason}]
    /\ todo \in [Instances -> SUBSET Entries]
    /\ faults \in 0..MaxFaults
    /\ edits \in 0..MaxEdits
    /\ opened \subseteq Seasons \X Seasons
    /\ redone \subseteq Seasons
    /\ handStarts \in 0..2

\* However many instances tick, crash and restart, only one of them rolls seasons
\* over at a time, and it is the one that holds the lock.
OneScheduledRun == \A i \in Instances : pc[i] # "idle" => lock = i

\* Two rollovers of the same season, scheduled and manual, crashed or not, never
\* both open a successor, unless an administrator took the chain apart in between:
\* the loser of the claim leaves a draft behind and goes no further.
OneSuccessorOpened ==
    \A p, q \in opened : p[1] = q[1] /\ p[1] \notin redone => p = q

\* "One active season per discipline", which no lock and no key enforces: the chain
\* on its own keeps it, however its runs race, crash and leave drafts behind. Two
\* active seasons take two by an administrator's hand, or a chain taken apart.
OneActiveSeason ==
    handStarts < 2 /\ redone = {} => \A s, t \in ActiveSeasons : s = t

\* A successor a run has opened carries the chain on, unless an administrator took it
\* off or deleted it: the copy comes before the start, and a failure between the two
\* loses no chain.
ChainCarriedOn ==
    \A p \in opened :
        p[2] \in redone \/ status[p[2]] = "deleted" \/ HasAutomation(p[2])

\* A chain interrupted before its claim, by a crash or an error, is taken up again:
\* no season stays due for ever, unless another season of the discipline is running.
Blocked(s) == ActiveSeasons \ {s} # {} \/ Fresh = {}

DueChainMovesOn == []<>(\A s \in Seasons : Due(s) => Blocked(s))

-----------------------------------------------------------------------------
(* Why they hold: the invariant the proofs are by *)

\* The row and the season a run needs for its next step are in its hands.
RunsEquipped ==
    \A r \in Runs :
        /\ pc[r] \in {"idle", "next", "erase"} \cup StatusWrites => entry[r] = NoEntry
        /\ pc[r] \in {"end", "finish", "markClosed", "claim", "copy"} => entry[r] \in Entries
        /\ pc[r] \in {"claim", "copy", "start", "open", "schedule", "erase"} \cup StatusWrites =>
              made[r] \in Seasons

\* Rows are never reused: what a run or a history speaks of is no season to come.
Known(s) == status[s] # "absent"
SeasonsKnown ==
    /\ \A r \in Runs : entry[r] \in Entries => Known(entry[r].season)
    /\ \A r \in Runs : made[r] \in Seasons => Known(made[r])
    /\ \A i \in Instances : \A e \in todo[i] : Known(e.season)
    /\ \A p \in opened : Known(p[1]) /\ Known(p[2])

\* A deleted season leaves neither an automation nor a claim behind.
NothingDangles ==
    \A s \in Seasons : status[s] = "deleted" => mode[s] = "none" /\ nextSeason[s] = NoSeason

\* A successor past its claim is the one its season names, unless an
\* administrator took the chain apart.
ClaimsHeld ==
    /\ \A r \in Runs :
          entry[r] \in Entries /\ pc[r] \in {"copy", "start", "open"} =>
              entry[r].season \in redone \/ nextSeason[entry[r].season] = made[r]
    /\ \A p \in opened : p[1] \in redone \/ nextSeason[p[1]] = p[2]

\* The copied automation outlives the start, or the successor does not.
ChainsHeld ==
    /\ \A r \in Runs :
          entry[r] \in Entries /\ pc[r] \in {"start", "open"} =>
              made[r] \in redone \/ HasAutomation(made[r]) \/ status[made[r]] = "deleted"
    /\ ChainCarriedOn

\* A request that brings a draft to life, and a run that does so with a successor.
ByHand(r) == entry[r] = NoEntry /\ pc[r] \in {"start", "open", "toOpen", "toOngoing"}
Follows(r) == entry[r] \in Entries /\ pc[r] \in {"claim", "copy", "start", "open"}

Run(s) == status[s] \in {"ongoing", "finished"}
RunOrDeleted(s) == status[s] \in {"ongoing", "finished", "deleted"}
Continued(s) == \E p \in opened : p[1] = s

\* Nobody has a season that has run, and there is none.
NoneHasRun ==
    /\ \A s \in Seasons : ~Run(s)
    /\ \A r \in Runs : entry[r] = NoEntry
    /\ \A i \in Instances : todo[i] = {}

\* Before the first season runs: one request at most is about to start or open it.
FirstStart ==
    /\ \A r \in Runs : ByHand(r) => handStarts = 1
    /\ handStarts = 0 \/ (\E r \in Runs : ByHand(r)) =>
          NoneHasRun /\ \A s \in Seasons : status[s] # "open"
    /\ \A q, r \in Runs : ByHand(q) /\ ByHand(r) => q = r
    /\ (\E s \in Seasons : status[s] = "open") \/ (\E r \in Runs : pc[r] = "toDraft") =>
          NoneHasRun /\ handStarts = 1 /\ \A r \in Runs : ~ByHand(r)

\* What the runs hold: seasons that have run, and successors that have not.
RowsInHand ==
    /\ \A r \in Runs : entry[r] \in Entries =>
          /\ RunOrDeleted(entry[r].season)
          /\ status[entry[r].season] = "ongoing" =>
                entry[r].ongoing /\ pc[r] \in {"end", "finish"}
    /\ \A i \in Instances : \A e \in todo[i] :
          RunOrDeleted(e.season) /\ (status[e.season] = "ongoing" => e.ongoing)
    /\ \A r \in Runs : pc[r] = "toFinished" => RunOrDeleted(made[r])
    /\ \A r \in Runs : Follows(r) => status[made[r]] \in {"draft", "deleted"}
    /\ \A q, r \in Runs : Follows(q) /\ Follows(r) /\ made[q] = made[r] => q = r

\* The seasons of the chain follow each other, and only the last one can be active.
Successions ==
    /\ \A p \in opened : status[p[1]] \in {"finished", "deleted"} /\ RunOrDeleted(p[2])
    /\ \A s, t \in Seasons :
          (status[s] = "open" \/ Run(s)) /\ (status[t] = "open" \/ Run(t))
            /\ ~Continued(s) /\ ~Continued(t) => s = t

OneLine == handStarts < 2 /\ redone = {} => FirstStart /\ RowsInHand /\ Successions

RolloverInv ==
    /\ TypeOK
    /\ OneScheduledRun
    /\ RunsEquipped
    /\ SeasonsKnown
    /\ NothingDangles
    /\ ClaimsHeld
    /\ ChainsHeld
    /\ OneLine

-----------------------------------------------------------------------------
(* What a comment says, and the code does not do *)

\* A successor nobody schedules: still a draft, or running without a term.
Stalled(t) ==
    \/ status[t] = "draft"
    \/ status[t] = "ongoing" /\ enabled[t] /\ nextRollover[t] = "none"

\* ranked-season-rollover.service.ts: every step past the close is replayable, and
\* a crash mid-rollover is resumed on the next tick. A claimed successor that has
\* stalled is picked up again without an administrator.
InterruptedRolloverResumes ==
    \A s, t \in Seasons :
        (nextSeason[s] = t /\ enabled[s] /\ Stalled(t)) ~>
            ~(nextSeason[s] = t /\ enabled[s] /\ Stalled(t))

\* ranked-season-rollover.service.ts: runCreateSeason refuses while the discipline
\* still has an open/ongoing season, and the MMR seeds may only be drawn from a source
\* that is already finished. No successor is inserted on a season that runs again.
SuccessorOfAnEndedSeason ==
    [][\A r \in Runs : pc[r] = "insert" /\ pc'[r] = "claim" =>
          status[entry[r].season] = "finished"]_vars

=============================================================================
