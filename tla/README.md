# Skol Arena in TLA+

Skol Arena organizes competitions (championships, ranked seasons, brackets) whose
matches are created, reported, confirmed and contested by the players themselves.
This directory holds a formal model of the backend's logic: TLA+ modules, TLC
configurations that check them on small instances, and TLAPS proofs for every value
of the constants. `PROJECT.json` maps each definition to the lines it models.

    tlc -config MatchLifecycle.cfg MCMatchLifecycle.tla     # any .cfg; one module
    tlapm MatchLifecycleProofs.tla                          # any *Proofs.tla

## 1. The system and its parts

The backend is a Bun server (`src/backend`) over PostgreSQL, with a job scheduler in
each instance and a graphile-worker queue. Several requests, the scheduler and the
worker run at the same time; a handler is a sequence of awaited database calls, mostly
*without* one transaction around it.

| Component | State it keeps | Operations | Talks to |
|---|---|---|---|
| **Match lifecycle** (`match.service.ts`, validators, `shared/types/match.ts`) | match status, author, votes, deadline, reason and date of finalization | create, report, update, revise, agree, contest, dispute after finalization, finalize, correct, cancel, delete | all below |
| **Finalization side effects** (`match-finalization.orchestrator.ts`) | none | after finalization, cancellation, correction | bracket, queue, standings, notifications |
| **Pending actions** (`notification.*`) | notifications that ask a user to act | send, delete per match / user / type | called by the lifecycle |
| **Trust score** (`user.repository.ts`) | a count per user | +1, floored −1, reset | called by the lifecycle |
| **Scheduler** (`jobs/`) | advisory locks | hourly auto-finalization, season rollover, pruning | lifecycle, rollover |
| **MMR queue and worker** (`mmr-job-queue.service.ts`, `mmr-recalculation.worker.ts`, `mmr-calculation.service.ts`) | jobs keyed per match, official MMR and its history | enqueue, finalize, cancel, correct, recalculate a season | reads matches |
| **Season rollover** (`ranked-season-rollover.service.ts`) | automation rows: due date, successor, last error | due rollover, manual rollover, close | creates and starts seasons |
| **Bracket** (`bracket.service.ts`) | matches of the draw, entries per side, links to the next match | generate, byes, advance winner and loser | called on finalization |
| **Standings, statistics, rewind** | caches | recompute, invalidate | read matches and MMR |
| **Tournament and ruleset** | status, validation mode, frozen ruleset | status transitions, edit, propagate | queue |
| **Teams, invitations, organizations** | members, codes and their uses | join, leave, claim | |
| **Rules and badges** | badge awards, dirty flag | evaluate, reconcile | worker |
| **WebSocket hub, messages, push, avatars, HTTP layer, frontend, docs** | – | fan-out, storage, presentation | |

### What makes each correct, and what is hard about it

* **Match lifecycle.** A dispute exists exactly while somebody contests; nothing but an
  organizer ends a contested match; a consensus is signed by both sides; a timer fires;
  nobody is asked to act on a settled match; amendments take back no more trust points
  than the match gave. Hard: long sequences of legal calls by several actors, a
  validation mode edited under way, fields read by one handler and written by another,
  a timer racing a late vote.
* **The same handlers, interleaved.** A status is read, other calls are awaited, then it
  is overwritten: two agreements, or the timer and a contestation, may both "win".
* **MMR queue.** Once the queue is drained, the official MMR is the replay of the
  finalized matches in date order. Hard: keyed jobs that collapse, failed enqueues that
  are logged and dropped, cancellation queued behind a finalization that has not run.
* **Season rollover.** At most one successor, at most one active season per discipline,
  a due chain continues. Hard: a crash between any two of close, create, claim, copy of
  the automation, start; a manual rollover that takes no lock; a status written on a read
  that no longer holds.
* **Bracket.** Each entry of the next match is the winner of its feeder; the two
  feeders take different positions; every match can be played eventually. Hard: both
  feeders finalized together, draws, byes, losers' bracket.

* **Rosters.** A seat is taken once, a team's line-up is frozen once it has a match, an
  emptied team goes away, a removed player stays out. Hard: every handler is a list of
  queries that read before they write; only the seat itself is taken under a lock.

`PROJECT.json` lists every such hazard at its line, with the properties that watch it or
the reason why none does.

## 2. Modules

| Module | Grain | Models | With |
|---|---|---|---|
| `MatchLifecycle` | a handler is a step | one match from creation to deletion | `MatchContract`, what a match promises its players, which it implements; `MatchLifecycleProofs` |
| `MatchRace` | a query is a step | the handlers that vote, enter, settle at once, cancel and finalize, and the hourly sweep, on two matches at once | `MatchRaceProofs` |
| `Bracket` | generation is a transaction, the rest a query a step | generation and deletion of a draw, any number of times; report, finalization, advancement | `BracketDrawProofs` (the shape of a draw), `BracketProofs` |
| `MmrLadder` | a handler's commit, an enqueue, a player's rebuild are steps | the season's job queue, the worker and the official MMR | `MmrLadderProofs` |
| `SeasonRollover` | a statement is a step | chained seasons, two servers' cron, administrators | `SeasonRolloverProofs` |
| `Rosters` | a query is a step | registrations, teams, line-ups | `RostersProofs` |

`RecursionFacts` holds what the proofs about `Bracket` and `MmrLadder` need of recursion.

Each component has an `MC` module with its instances and one `.cfg` per question. `MatchRace` is
`MatchLifecycle` at a finer grain with less data: one player a side, no organizer, no
pending actions. The modules meet at `finalizeMatch`: `MatchLifecycle` and `MatchRace`
establish when it runs, `Bracket` and `MmrLadder` begin there.

Operators introduced as *defect variants* are used by no specification: each is the form
a plausible bug would give the operator it names, and the property listed with it in
`PROJECT.json` must then fail.

Left for later, as far as they earn it: the freeze of a ruleset at the opening of a
competition, the claim of an invitation code, the dirty flag of the badge reconciliation,
amendments of finalized matches at the grain of `MatchRace`.

## 3. The models: state and actions

### `MatchLifecycle`


| Variable | Code |
|---|---|
| `status` | `matches.status`; `"absent"` and `"deleted"` bracket the row's life. `confirmed` and `pending_confirmation` are accepted by some guards but written nowhere, so they are left out |
| `createdBy`, `reportedBy` | `matches.created_by`, `match_results.reported_by` |
| `votes` | the rows of `match_confirmations` with `is_post_finalization = false`: `"agree"`, `"contest"`, or none / reset. Rows of people outside the match are left out: the code never counts them |
| `postDisputes` | the rows with `is_post_finalization = true` |
| `deadline` | `matches.confirmation_deadline` against the clock: none, running, expired |
| `finalizationReason`, `finalizedAt` | `match_results`. The date is seen from now: fresh (48 h), late (7 days), closed |
| `settledBy` | the reason posted in the match's thread by `finalizeMatch`, which is stored even when the result row is not |
| `actions` | notifications with `requires_action`, as pairs of user and type |
| `validationMode` | `tournaments.validation_mode`, editable with matches under way |
| `trust` | `app_users.trust_score_count` |
| `stale`, `ledger`, `entries` | history: votes cast for an older entry, points this match gave minus took back, results entered |

Each handler is one action: `CreateScheduled`, `CreateReported`, `ReportMatchResult`,
`Reschedule` / `ReviseResult` / `ReportByUpdate` (the three courses of `updateMatch`),
`Agree` (`confirmMatch`, and `respondToMatch` with "agree"), `Contest` (`contestMatch`,
"dispute"), `AutoFinalizeExpired` (the hourly sweep, for this match),
`FinalizeByOrganizer`, `PostDispute`, `WithdrawPostDispute`, `CorrectFinalized`,
`CancelOpen`, `CancelFinalized`, `DeleteMatch`; `ChangeValidationMode` is the edit of the
competition; `DeadlinePasses` and `WindowCloses` are the clock. Calls made inside a
handler are operators with the code's names or close to them: `Settle`
(`finalizeMatch`), `CheckAndFinalize`, `SettleOrOpen`, `DisputeOutcome`,
`SettleAmendment`, `MayAmend`, ... 
Points of the code worth knowing when reading the model:

* `Settle` writes `finalizationReason` and `finalizedAt` only with a finalizing user:
  `upsertMatchResult` skips the result row otherwise. The timer and a consensus pass
  none. What is stored then is what an earlier finalization left, if the match was
  cancelled and revived.
* `updateMatch` with `{ status: "reported" }` is refused on finalized matches only, so an
  organizer revives a cancelled match (`MayUpdate`), with its old votes.
* `updateMatch` does not settle at once in the mode "none" or for a trusted author;
  `reportMatchResult` and the creation do.
* A reported creation without scores has no author and no timer.
* Withdrawing one contestation after finalization drops the organizers' requests of all
  of them (`WithdrawPostDispute`).

Abstracted: scores and their validation, outcome types, score-less competitions, the
rule engine's refusal of a creation, the tournament-status checks, the refusal of a
bracket match whose two entries are not known yet (a scheduled bracket match is modelled
once both are), informative notifications, realtime and thread messages except the
reason of a finalization. `MATCH_POST_DISPUTE` notices to players ask for no action and
are left out. A handler is atomic in this module; `MatchRace` takes them apart.

### `MatchRace`

| Variable | Code |
|---|---|
| `status`, `reportedBy`, `votes`, `timer` | as in `MatchLifecycle`; `"none"` is a vote without a row, which decides between insert and update |
| `runs` | what each request, and the sweep, is doing: the kind of call, the player, the match, the next query, the status it read first, and the author whose result it counts votes for |
| `rows` | the reported matches `autoFinalizeExpiredMatches` has read and not yet visited |
| `runs[a].missed` | history: what others did to the match (a contestation, a closing) since the actor last looked |

`Receive` is the first query of a request (it reads the match and passes its guards); then
one action per query: `LookForVote` / `WriteVote` / `InsertFails` (the upsert of a vote),
`Enter` (the update of the result), `LookForOthers` / `ResetOthers`
(`resetConfirmationsExcept`), `Dispute`, `LookForContests` / `Withdraw`, `CheckStatus` /
`Tally` / `Flag` (`checkAndFinalizeMatch`), `ReadBeforeFinalizing` / `Finalize`
(`finalizeMatch`), `Cancel`; `StartSweep` and `VisitRow` are the job. The order of the
queries after a vote differs from one handler to the next (`AfterVote`, `AfterEntry`,
`AfterReset`, `AfterWithdrawal`). Either player reports again (`May`); an update is for the
author of the standing result and the creator of the match (`MayRevise`), a cancellation
for the author (`MayCancel`). A report of kind `outright` is one the mode "none" or the
author's trust score settles without a count (`AfterReport`). Whose agreement a count asks
for follows from the author it read, which may not be the author any more when it settles.

The deadline of a match that is not reported is never read, and every write of `reported`
sets a new one, so `Expire` passes those of reported matches only.

Worth knowing: an overtaken handler can write `reported` or `finalized` over a cancelled
match, although the comment at `match.service.ts:1402` says a cancelled match is not
finalized; and `confirmMatch` names no result, so an approval may be given to a result
the approver has not seen. A contestation whose request dies between its vote and its
status would leave a reported match that the sweep skips from then on: requests do not
die in this module.

### `Bracket`

| Variable | Code |
|---|---|
| `draw` | `bracket_configs` and `bracket_seeds`: format, number of entries, seed number of each |
| `sides`, `status`, `winnerSide` | `match_sides` as pairs of entry and position, and the two columns of `matches`, for each match of the draw |
| `asked` | a generation that has passed its checks and not yet committed |
| `handlers` | requests that finalize a match, and the row they are about to insert |
| `orphans`, `alone` | history: matches whose effects a failure cut short; matches reported while only one side was known |

The shape is computed, not enumerated: `MatchesOf`, `WinnerTo`, `LoserTo` and `FirstSides`
translate the building of the rounds, the links and the pairing of seeds; a match is its
round and its number in it. `AskDraw`, `GenerateBracket`, `GenerateFails`, `DeleteBracket`
and `Report` are the organizers' and players' calls; `ReadStatus`, `FinalizeMatch`,
`ReadNextSides`, `InsertSide` are one finalization; `RequestDies` stops one.

Worth knowing: byes never advance by themselves, the lone player reports them; `POST
/report` does not ask for both sides, `PATCH` does. The check that no match is finalized
is read outside the generation's transaction, and the deletion has none. Players who left
while the competition was open are still drawn. An organizer's cancellation or deletion
of a bracket match is left out.

### `MmrLadder`

| Variable | Code |
|---|---|
| `status`, `winner`, `ruleset` | the matches of one season in playing order, their result, the version of the season's snapshot |
| `effects` | jobs a handler has still to enqueue after its commit |
| `queue`, `job` | the named queue of the season; the job the worker runs |
| `todo`, `before`, `processed` | the current wave of the cascade and the MMR it started from |
| `history`, `ladder` | `mmr_history`, `player_mmr` |
| `lost`, `damaged` | history: a fault the next replay of the season has still to repair |

Handlers: `Finalize`, `CancelFinalized`, `CorrectFinalized`, `Revive` (an update of a cancelled
match, which may then be finalized again), `DeleteMatch` (of any match that is not finalized),
`Propagate`;
`Enqueue` (with its job key) and `LoseEnqueue` (logged and swallowed, or the server dies);
the worker: `StartJob`, `RecalculatePlayer`, `EndWave`, `StartReplay`, `FinishReplay`,
`JobFails`. Handlers run between any two steps of a job. `Rebuilt` is
`recalculatePlayerMmr`, a fold over the player's matches from a checkpoint;
`ReplayedSeason` the chronological pass. A price depends on the sign of the MMR difference
and on the result only, which is enough to tell on which snapshot a player was valued: the
loser pays down to 1, the winner gets what was paid (`Pot`), a draw moves a point from the
favourite (`DrawGain`). The K factor, the score and importance multipliers and the doubled
stake of a placement match are left out, and so are the shares of team-mates: matches are
of two players. No badges, no animation. `RecalculatePlayer` takes the rebuild of one
player as one step: handlers and failures come before and after it, and `JobFails` also
in the middle, after the deletion of the rows.

### `SeasonRollover`

| Variable | Code |
|---|---|
| `status` | `tournaments.status` of the ranked seasons of one discipline; rows are never reused |
| `mode`, `enabled`, `nextSeason`, `nextRollover` | `ranked_season_automations`; the date is seen from now |
| `lock` | the advisory lock of the job |
| `pc`, `entry`, `made`, `todo` | the next statement of each run, the rows it read, the season it is making, the due rows it has left |
| `opened`, `redone`, `handStarts` | history: successors opened by a run; chains an administrator took apart; seasons opened or started by hand, counted up to two |

`Tick` and `NextEntry` are the job. A rollover reads and writes in separate steps: `EndStep`
and `FinishStep` end the season, `CreateStep` looks for an active season of the discipline
and `InsertStep` inserts the successor, `ClaimStep`, `CopyStep`, `StartStep` and `OpenStep`,
`ScheduleStep`, `MarkClosedStep` do the rest. `StepThrows` is an error of the step (a taken
name, a failing query), `Crash` the end of the process, which drops the lock. `RolloverNow`
takes the same steps without the lock; `StartSeason` and `CreateSeason` their last and
middle ones. `ChangeStatus` and `DeleteDraft` are the requests for competitions of any mode,
which do not look at the mode: a check now, a write (`WriteStatus`, `EraseStep`) later.

One step each are the claim, a guarded update; the copy, an insert that gives way to an
existing row; the write of the status together with the read of the automation that decides
whether a term is scheduled; and the edits of the automation (`SetAutomation`,
`DeleteAutomation`, `RescheduleClose`), whose late write could at most be the date of a
rollover. Names, carried participants and tiers, MMR seeds and the ruleset of the successor
are left out.

Worth knowing: `startSeason` does not look for another active season, and neither do the
requests for any competition, so two seasons started by hand run side by side. A late write
of `ongoing` may start the season again that its successor was to follow (`ReopenedSource.cfg`).

### `Rosters`

| Variable | Code |
|---|---|
| `status` | `tournaments.status` |
| `registration` | `tournament_participants.status` |
| `teams`, `members` | `teams`, `team_members` |
| `fielded`, `entries` | the teams with an entry, hence a match, and the players of that entry |
| `runs` | requests under way; `Queries` lists what each kind of request still has to do |
| `manned`, `loose`, `returning` | history: teams that have had a member; teams fielded while a request was at work on them; players removed while a request of their own was about to write |

`Receive` reads the competition; `Check` is any query that only tests something (`Passes`);
`Enroll`, `Withdraw`, `Expel`, `Insert`, `Seat`, `Unseat`, `Drop`, `Field` write. `Seat` is
`addMemberIfAllowed`, the one place with a lock. `ChangeStatus` is the life of the
competition.

Worth knowing: a line-up may field a player who has been removed or has withdrawn; a
player who joins just before the last leaver's (or the failed creator's) deletion loses
the seat; a withdrawal overtaken by a removal writes `withdrawn` over `removed`, after
which the player may register again (`returning`). Requests do not die in this module: one
that does between the removal of a member and the count of those left would leave a deserted
team. Team names, access to the organization and the deletion of a match are left out.

## 4. What the runs check

| Run | Instance | Shows |
|---|---|---|
| `lifecycle` | a player a side, an organizer, a kiosk, all four modes, ranked, trust scores 0 or 1 with threshold 1, two results; 1.2 million states | all safety properties, and that every step is a step of `MatchContract` |
| `lifecycle_teams` | two against one, the organizer plays, three modes, championship, threshold 2, three results; 0.9 million states | the properties teams and a third result could break, and the inductive invariant |
| `lifecycle_live` | a bracket, modes auto and strict, `FairSpec` | a running timer ends in a settlement |
| `match_race` | two requests at a time and the sweep; three requests on one open match, two on two matches; either player enters results; `FairSpec`; 1.2 million states | no agreement and no contestation falls between two handlers; what is overruled was overtaken; a due match moves on |
| `bracket` | draws of 2 to 16 entries in three formats; those of up to four are played, by two requests, one of which may die; 2.8 million states | draws are well formed; every finalization seats winner and loser, and knocks losers out |
| `mmr_ladder` | three players, two matches finalized in any order, won, lost or drawn, two amendments, a fault; 1.5 million states | once the queue is empty the history covers the finalized matches and is unbroken |
| `season_rollover` | two servers, one request, three seasons, a fault, three edits; `FairSpec`; 1.6 million states | one scheduled run, one successor, one active season, and the chain moves on up to the claim |
| `rosters` | a bracket of three players, two teams of at most two, two requests at a time, three in all; 0.5 million states | seats, deserted teams, frozen line-ups, removals |
| `timer_dispute` | *violated* | a result settled by the timer stores no reason and no date: it cannot be contested, nor amended by its author, against the documented 7-day and 48-hour windows |
| `final_entry` | *violated* | a rival result reported over a reported one is settled by the vote its author gave to the first |
| `dispute_request` | *violated* | moving the date of a disputed match drops the organizers' arbitration request, and nothing sends it again |
| `admin_mode` | *violated* | a timer started in the auto mode settles a match of a competition that is in the admin mode by now |

What the properties say is written above each of them; what each guards against is under
"hazards" in `PROJECT.json`. The four violated ones state a sentence of the documentation
or of a comment, quoted under "findings".

**Exemptions.** Where the code has no answer to a fault, a property names what it exempts
and nothing more: `orphans` and `alone` in `Bracket`, `lost` and `damaged` in `MmrLadder`
(until the next replay of the season, which must repair them), `redone` and `handStarts` in
`SeasonRollover` (an administrator took the chain apart, or started two seasons), `missed` in
`MatchRace`, `loose` and `returning` in `Rosters` (somebody was overtaken). The exempted
interleavings happen in the models, and TLC explores what follows, but the property does
not catch them: it shows that the damage ends there. Where that leaves a hazard uncaught,
its entry in `PROJECT.json` says so.

### Further divergences

Six configurations, not among the runs, reproduce other sentences of the repository that
the code does not keep. Each is violated:

| Configuration | Property | Sentence | What the code does |
|---|---|---|---|
| `InterruptedRollover.cfg` | `InterruptedRolloverResumes` | `ranked-season-rollover.service.ts:41`: "Every step past the close is replayable, and `nextSeasonId` records completion, so a crash mid-rollover is resumed on the next tick" | `listDue` wants `nextSeasonId` null: a run that dies after the claim leaves its successor a draft, or ongoing without a term, for good |
| `ReopenedSource.cfg` | `SuccessorOfAnEndedSeason` | `ranked-season-rollover.service.ts:38`: "`runCreateSeason` refuses while the discipline still has an open/ongoing season, and the MMR seeds may only be drawn from a source that is already `finished`" | the look for an active season and the insert are two queries: a start asked for before the season ended writes `ongoing` between them |
| `SimultaneousResults.cfg` | `OneSideAndOneSideB` | `shared/src/types/match.ts:215`: a match has exactly one side A (position 1) and one side B (position 2) | two feeders finalized at once both count no side and both insert position 1 |
| `ChampionshipSeeding.cfg` | `EveryEntryIsDrawn` | the pairing takes the seeds to be 1 to n | a ranked player who does not take part leaves a gap in the seed numbers: somebody is never drawn, or the generation fails on a number given twice |
| `LadderOrder.cfg` | `OrderIndependent` | `scripts/README.md:136`: the job is a replay from a date, so it is order-independent | an earlier match finalized after a later one values a player on what they became since |
| `DeletedMatch.cfg` | `CancellationKeepsHistoryConsistent` | `showcase/features/ranked-mode.md:40`: cancelling ripples a recalculation | a cancelled match deleted before its job runs leaves the job without players, and the later rows on an MMR nobody had |

### Bounds

* `MatchLifecycle`: `MaxEntries` counts results entered. Two is what a re-report, a
  revision or a revival needs, three lets one follow another. Votes, contestations,
  withdrawals, corrections, cancellations and mode changes are unbounded. One player a side
  separates "own side" from "other side"; the second player of side A separates "author"
  from "author's side". The threshold 1 (or 2) stands for the code's 10: only the
  comparison matters, and both outcomes occur. `DeadlinePasses` applies to reported matches
  only, because no other status reads the deadline. A date is a position in its windows, so
  each window boundary is crossed at any moment.
* `MatchRace`: `MaxRequests`, `MaxShared` count requests received. Three on one match let a
  request overtake two others that overtake each other; two matches are what an aborted
  sweep needs.
* `Bracket`: one draw is generated (`MaxDraws`) and may be deleted while it is played; that
  a second one changes nothing is left to the proofs. Sizes 2 to 16 include a power of two,
  one below, one above; four entries are the smallest played draw with a bronze match, a
  losers' bracket and two feeders of one match. `MaxMishaps` bounds requests that die and
  matches reported alone. The proofs hold for any size that is played, any number of
  requests and any bound.
* `MmrLadder`: `MaxAmendments` and `MaxFaults`. The second match has one player of the
  first, so a cascade from the first takes a second wave. Two amendments let a match be
  cancelled and revived, or corrected twice; three were checked as well, without a
  difference.
* `SeasonRollover`: `MaxSeasons` rows, `MaxFaults` errors and crashes, `MaxEdits` status
  changes, creations, deletions and edits of an automation; rollovers and starts by hand are
  bounded by the slots (`Requests`) only.
* `Rosters`: `MaxRequests` requests, at most two at a time: every property is about a pair
  of them; the proofs hold for any number.

**Deadlock** is checked in `MatchLifecycle`, where a validation mode can always be edited.
Elsewhere the bounds end the behaviours, or the system may be done (a bracket that is
over), and the `.cfg` says so.

### Fairness

* `MatchLifecycle`: time passes (`DeadlinePasses`) and the hourly sweep reaches the match
  (`AutoFinalizeExpired`), both weakly: the cron of `scheduler.ts` runs every hour in at
  least one instance, and a skipped run means another instance holds the lock. Each action
  stays enabled until somebody moves the match or enters another result, which the
  property allows for.
* `MatchRace`: a request or a sweep that has started goes on to its next query, and the job
  starts. `DueMatchMovesOn` is where a row that throws and aborts the rest matters: the
  rows it drops are read again an hour later.
* `SeasonRollover`: the job goes on as long as some instance can take its next step: its cron
  fires when a season is due and nobody holds the lock, and a run that is neither dead nor
  failing proceeds. Administrators' requests are not obliged to end.

No user, organizer or administrator is ever obliged to do anything.

## 5. What is proved


### `MatchLifecycleProofs`

For any sides, organizers, thresholds, initial trust scores and
bounds that satisfy `UsersAssumption` (disjoint sides, a kiosk who is neither player nor
organizer, a null user) and `ConfigAssumption` (types of the constants):

* `TypeCorrect`: `Spec => []TypeOK`. The helpers (`Settle`, `CheckAndFinalize`,
  `SettleOrOpen`, `SettleAmendment`) are typed by a lemma each, the handlers on top.
* `LifecycleInvariant`: `Spec => []LifecycleInv`, by `Init => LifecycleInv` and
  preservation by each action (`NextInv`, a lemma per action or group). The safety
  properties are not inductive alone; two facts close the argument:
  - `UncontestedBeforeReport`: a scheduled match has no live contestation. Without it, the
    first report, which keeps the votes found, could open a round already contested.
  - `SelfValidatedIsCredited`: while the *stored* reason says the author settled the result
    alone, the author's ledger holds at least one point. An amendment takes a point back
    only from such a result, and turns it into an override (an organizer's correction) or
    ends it (a cancellation), so it never takes two. An author's own correction takes none.
    A contestation that makes a correction cost a point exists only on such results
    (`OpenPostDisputesAreAnswerable`), which is why the two are proved together.
* `DisputesFollowVotes`, `ContestedNeedsOrganizer`, `ConsensusIsSigned`,
  `PostDisputesAnswerable`, `NoOrphans`, `TrustIsFair`: the invariant's parts, as theorems.
* `LifecycleImplementsContract`: `Spec => ImplementsContract`. The mapping reads the phase
  off `status` (`PhaseOf`), the contesters off `votes` (`LiveContesters`) and the verdict
  off `settledBy` (`VerdictOf`). Entering a result maps to `Enter` or `Accept`, an agreement
  to `Enter` or `Accept`, a contestation to `Contest`, the timer to `Accept`, an
  organizer's finalization to `Arbitrate`, a cancellation to `Void`; the rest stutters.
  `LifecycleInv` is used in the steps: the timer may accept only because a reported match
  is uncontested.

### `RostersProofs`

For any set of players and teams, any number of requests, and any team size and bounds
that satisfy `RostersAssumption`:

* `RostersInvariant`: `Spec => []RostersInv`. The seats need no history: `addMemberIfAllowed`
  tests and inserts under the lock. The frozen line-up does: `OnTheWay` says that a request
  past its look at the team's matches works on a team without a match, or on one fielded
  under its eyes (`loose`). With it, whoever changes the members of a fielded team was
  already on the way, which is `FieldedLineUpIsKept`.
* `RostersTypeCorrect`, `SeatsTakenOnce`, `LineUpKept`: parts of it.
* `RequestsInvariant` adds two facts about requests under way: `EmptyTeamsAreDue`, an empty
  team that somebody has been in still has a leaver past the removal of the member, who will
  count and delete; and `OvertakenOnes`, a request that is about to write a registration
  read before the removal is one the removal has recorded.
* `NoTeamDeserted` follows when no request is left; `BroughtBackByOrganizers` is an action
  property: the only write that ends a removal comes from an organizer, or from one of the
  overtaken requests.

### `SeasonRolloverProofs`

For any number of seasons, servers, requests, faults and edits that satisfy
`RunsAssumption`:

* `RolloverInvariant`: `Spec => []RolloverInv`. A run acts on a row it read many steps
  ago, so the invariant says what of that read still holds: `RunsEquipped`, the row and the
  successor a step needs are in the run's hands; `SeasonsKnown` and `NothingDangles`, rows
  are never reused and a deleted one leaves nothing behind; `ClaimsHeld`, past the claim the
  season names this run's successor, unless an administrator took the chain apart
  (`redone`); `ChainsHeld`, past the copy the successor has an automation or is deleted.
* `RolloverTypeCorrect`, `RunsAreSerial`, `ChainGoesOn`: parts of it.
* `SuccessorIsUnique`: two opened successors of one season are both the one it names.
* `ActiveSeasonIsUnique`: no lock and no key keeps a discipline to one active season, and
  the look at the active seasons (`CreateStep`) is of no help, as anything may happen before
  the insert. What does is `OneLine`: `FirstStart`, a single request brings the first season
  to life, and nothing else is under way until then; `RowsInHand`, a run holds seasons that
  have run, and successors that have not and are nobody else's; `Successions`, the seasons
  that have run follow each other by `opened`, so all but the last one have ended. A run
  opens only the successor of a season it ended or found ended, and that season was the
  last, because its claim is still this run's.

### `MatchRaceProofs`

For any number of matches (one at least), of requests under way and of requests received:

* `RaceInvariant`: `Spec => []RaceInv`. What makes a missed verdict impossible is
  `VerdictsPending`: every write that could make a reported match ripe, a vote, an entry or
  a withdrawal, comes from a handler with its own count of the votes still before it, and a
  handler that drops out on the way (the unique key of the votes) leaves a match it was not
  the last hope of. That is `HasEntered`, `WillSettle` and `WillDispute`: an entry changes
  whose agreement is asked for, so a count that is pending will read the new author, or has;
  and an entry loses its insert of the vote only to another request of the same player,
  which has its own count still before it. An outright report does not count, and closes the
  match whatever the votes. `QueriesOfKind` says which requests are ever at which query, and
  `CountsAreRecent` extends the late contestations to the read before the final write.
* `NoConsensusIsMissed`, `NoContestIsMissed`: of a quiet match, nobody has a count pending.
* `ReadContestsAreHeeded`, `ReopeningsAreOvertaken`, `RaceTypeCorrect`: parts of it.

### `RecursionFacts`

What a recursive function computes for every argument needs an induction, and the induction
theorems of the library take an operator, which the provers cannot instantiate. Here the
same is said of sets and functions: a set of naturals has a least element
(`LeastNatural`, from `WellFoundedInduction`), so a set that holds 0 and is closed under
successor holds them all (`NatSetInduction`, `UpToInduction`), and a function given by its
first value and a table of steps exists (`RecursiveFunction`, `NatRecursion`). The cited
facts are instantiated with `{n \in Nat : ...}` or with the table of the definition.

### `MmrLadderProofs`

For any number of players and matches, any pairing of players, any prices that keep a rating
above 0, and any bounds that satisfy `LadderAssumption`:

* `Invariance`: `Spec => []IInv`. While jobs are pending the history and the ladder may be
  wrong anywhere, so the invariant cannot say that they are right. It says that nothing is
  wrong in silence: `Due(p, k)` holds if the rows of player p from match k on will be
  rebuilt, by a job that waits or is yet to be enqueued, by the wave the worker is in, or by
  a replay of the season that somebody owes (`lost`, `damaged`); and every row, and every
  line of the ladder, is right or due (`RowsRight`, `LaddersRight`). A row is right if it is
  there exactly when its match counts and follows from the state the rows before it make.
  A step may only disturb what it makes due. The rebuild of a player from a checkpoint
  settles that player, and passes whatever changed to the opponents of the next wave.
  `JobStillDue` and `WavesAreOfOthers` say how far the worker is in its waves,
  `ReplayIsPriced` on which snapshot a replay works.
* `HistorySettles`, `ChainsSettle`: with the queue drained and no replay owed nothing is due,
  so every row is right.
* `TypeCorrect`: part of it. No rebuild takes a rating below 1.

`IInv` was checked by TLC on the instance of `mmr_ladder` before it was proved.

### `BracketDrawProofs` and `BracketProofs`

For any numbers of entries and formats, any number of requests, draws or no draws allowed,
and any bounds that satisfy `BracketAssumption`. First the shape of one draw, d:

* `PositionsInjective`, `PositionsSurjective`: the order of the seeds is a permutation of the
  2^r slots, by induction on r.
* `MatchesMembers`, `WinnerToIs`, `LoserToIs`: matches and links as numbers; no link of a
  draw of more than two leads to a match that does not exist.
* `TwoFeeders`: a match of a later round is fed by two links and no more: one lemma for the
  winners' bracket, the bronze match, the losers' bracket (whose rounds alternate) and the
  grand final.
* `SeedOnPath`: one of the 2^k best seeds, as long as it wins, is in round j the seed that a
  draw of r - j rounds puts at the number of its match, so two of them are in different ones.

Then what happens to it:

* `Invariance`: `Spec => []Base`. `Provenance`: whoever is in a match was drawn there, or a
  finalized match sends them there. It is inductive because what a finalized match sends
  never changes, not even when the match itself gets a side afterwards: a side that comes
  late does not take the first one's place (`PlaceOne`). `RequestsFounded` carries it
  through the steps of a request.
* `TypeCorrect`, `FullyFedHolds`, `EveryEntryIsDrawnHolds`, `TopSeedsKeptApart` follow from it
  and from the shape.
* `LossesKnockOutHolds`: `Way`, by induction on the rounds: an entry was sent on from every
  match it has been in but the last, so a match is never sent the same entry from two sides
  (`OneSender`), and a defeat leaves one way.
* `NoThirdSideHolds`: two links, each of one entry if places differ, by induction on the
  rounds.
* `NobodyIsForgotten`: `Spec => []NobodyForgotten`. Of a finalized match whose effects no
  failure cut short, the winner is seated or a request is there to do it, and so is the
  loser. The unique key complicates it: of two requests on the same match the slower one
  fails on the winner and never gets to the loser. So the invariant also says that once the
  winner is seated, a request *past the winner* is there for the loser.
* `EverybodyMovesOnHolds` follows when no request is left, and `DrawNeverStallsHolds` when
  nothing went wrong at all: of the matches that are not over, one of the least round has
  both its sides.

`EveryEntryIsDrawnHolds` and `DrawNeverStallsHolds` assume `Seedings \subseteq {"random"}`:
with championship-based seeding both are false, which `ChampionshipSeeding.cfg` shows of the
first. `Base` and `NobodyForgotten` were checked by TLC before they were proved, on smaller
draws to the end and on the instance of `bracket` for most of its states.

### Only model-checked, or refuted

Only model-checked are the liveness properties `TimedReportIsSettled`, `DueMatchMovesOn` and
`DueChainMovesOn`: fairness is out of the prover's reach. Every other property of a passing
run is stated by a theorem. Refuted are the four properties of the findings and the five of
section 4.

## 6. Not modelled

Within the modelled components: scores and their validation, outcome types and reasons,
informative notifications, realtime messages, the ruleset's content, badges, the rewind,
carried participants and tiers, team names, teams in ranked matches; `PROJECT.json` says
for each component what its modules leave out.

Whole components, and why:

* Standings, player statistics, the yearly recap, the rule engine: data-heavy computation
  over stored results without interleaving of their own.
* Invitations, organizations, disciplines, outcomes, users: short handlers around one
  conditional statement.
* Avatars, push, WebSocket fan-out, the discussion thread: pure I/O, nothing reads it back.
* HTTP and authentication layers, frontend, documentation site, release and load-test
  tooling: not part of the logic that keeps the state.
