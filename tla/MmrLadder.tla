----------------------------- MODULE MmrLadder -----------------------------
(***************************************************************************)
(* The official MMR of one ranked season: the handlers that finalize,      *)
(* correct, cancel and delete matches and hand jobs to the season's queue, *)
(* and the worker that runs these jobs one at a time.                      *)
(*                                                                         *)
(* A finalization, a correction or a cancellation rebuilds the history of  *)
(* the match's own players from its date on, then, in waves, that of the   *)
(* players who later met one whose MMR moved. A season replay wipes the    *)
(* history and rebuilds it in one chronological pass. Nothing is           *)
(* transactional: handlers run between any two steps of a job.             *)
(*                                                                         *)
(* Matches are numbered by playing date. A price depends on the sign of    *)
(* the MMR difference only: enough to tell which snapshot a player was     *)
(* valued on.                                                              *)
(***************************************************************************)
EXTENDS Integers, Sequences, SequencesExt, FiniteSets

CONSTANTS
    Players,
    Pairing,        \* the two players of each match, by playing date
    BaseMmr,        \* entry MMR of everybody: season base or carried-over seed
    MaxAmendments,  \* bound of the model: corrections, cancellations, deletions, propagations
    MaxFaults       \* bound of the model: dying workers and enqueues that fail

LastMatch == Len(Pairing)
Matches == 1..LastMatch
NoMatch == 0
NoWinner == 0

ASSUME LadderAssumption ==
    /\ Pairing \in Seq(Players \X Players)
    /\ \A m \in Matches : Pairing[m][1] # Pairing[m][2]
    /\ BaseMmr \in Nat \ {0}
    /\ {MaxAmendments, MaxFaults} \subseteq Nat

VARIABLES
    status,      \* matches.status
    winner,      \* matches.winnerSide, as a position; NoWinner for a draw
    ruleset,     \* version of the season's ruleset snapshot
    effects,     \* jobs a handler has still to enqueue after its commit
    queue,       \* the season's named queue
    job,         \* the job the worker runs
    prices,      \* version of the ruleset the running replay has read
    todo,        \* players of the current wave still to rebuild
    before,      \* currentMmr of the wave's players when it began
    processed,   \* players already rebuilt by this job
    history,     \* mmr_history
    ladder,      \* player_mmr
    amendments,  \* amendments so far
    faults,      \* faults so far
    lost,        \* history: an enqueue was lost and no replay has run since
    damaged      \* history: a match was deleted before its jobs ran, or a job died while it
                 \* rebuilt a third player, and no replay has run since

matchVars == <<status, winner, ruleset, amendments>>
queueVars == <<effects, queue, faults, lost>>
workerVars == <<job, prices, todo, before, processed>>
tableVars == <<history, ladder>>
vars == <<matchVars, queueVars, workerVars, tableVars, damaged>>

Jobs == [kind : {"finalize", "cancel", "correct"}, match : Matches]
          \cup {[kind |-> "replay", match |-> NoMatch]}
Replay == [kind |-> "replay", match |-> NoMatch]
NoJob == [kind |-> "none", match |-> NoMatch]
NoWave == [p \in {} |-> 0]
NoRow == [mmr |-> 0, wins |-> 0, losses |-> 0, draws |-> 0, streak |-> 0]
EntryState == [NoRow EXCEPT !.mmr = BaseMmr]

\* The results a match may have.
Positions == {1, 2, NoWinner}

PlayersOf(m) == {Pairing[m][1], Pairing[m][2]}
Opponent(p, m) == CHOOSE q \in PlayersOf(m) : q # p
Result(p, m) ==
    IF winner[m] = NoWinner THEN "draw" ELSE IF Pairing[m][winner[m]] = p THEN "win" ELSE "loss"

Init ==
    /\ status = [m \in Matches |-> "reported"]
    /\ winner = [m \in Matches |-> 1]
    /\ ruleset = 0
    /\ effects = {}
    /\ queue = <<>>
    /\ job = NoJob
    /\ prices = 0
    /\ todo = {}
    /\ before = NoWave
    /\ processed = {}
    /\ history = {}
    /\ ladder = [p \in Players |-> NoRow]
    /\ amendments = 0
    /\ faults = 0
    /\ lost = FALSE
    /\ damaged = FALSE

-----------------------------------------------------------------------------
(* Pricing one match for one player *)

SmallerOf(x, y) == IF x < y THEN x ELSE y

Gain(winnerMmr, loserMmr) ==
    IF winnerMmr < loserMmr THEN 3 ELSE IF winnerMmr = loserMmr THEN 2 ELSE 1

\* Defect variant (of NewMmr): no floor under a loser's rating.
NoFloor(own, opponent, result) ==
    CASE result = "win" -> own + Gain(own, opponent)
      [] result = "loss" -> own - Gain(opponent, own)
      [] result = "draw" -> own

\* A loser's rating stops at 1, and what it could not pay the winner does not get.
Pot(winnerMmr, loserMmr) == SmallerOf(Gain(winnerMmr, loserMmr), loserMmr - 1)

\* A draw moves a point from the favourite to the other player.
DrawGain(own, opponent) ==
    IF own < opponent THEN 1 ELSE IF own = opponent THEN 0 ELSE -1

\* calculateMatchMmr as this player sees it.
NewMmr(own, opponent, result) ==
    CASE result = "win" -> own + Pot(own, opponent)
      [] result = "loss" -> own - Pot(opponent, own)
      [] result = "draw" -> own + DrawGain(own, opponent)

\* A draw does not end a streak.
AdvanceState(state, mmr, result) ==
    [mmr |-> mmr,
     wins |-> state.wins + (IF result = "win" THEN 1 ELSE 0),
     losses |-> state.losses + (IF result = "loss" THEN 1 ELSE 0),
     draws |-> state.draws + (IF result = "draw" THEN 1 ELSE 0),
     streak |-> CASE result = "win" -> state.streak + 1
                  [] result = "loss" -> 0
                  [] result = "draw" -> state.streak]

RowOf(p, m, old, new, version) ==
    [player |-> p, match |-> m, before |-> old.mmr, after |-> new.mmr,
     result |-> Result(p, m), rules |-> version]

RowsOf(p, rows) == {r \in rows : r.player = p}

HasRow(p, k, rows) == \E r \in RowsOf(p, rows) : r.match = k
RowAt(p, k, rows) == CHOOSE r \in RowsOf(p, rows) : r.match = k

\* What the rows say of a player after each match, from the entry state (match 0) on.
StateAfter(p, rows) ==
    LET after[k \in 0..LastMatch] ==
            IF k = 0 THEN EntryState
            ELSE IF HasRow(p, k, rows)
                 THEN AdvanceState(after[k - 1], RowAt(p, k, rows).after, RowAt(p, k, rows).result)
                 ELSE after[k - 1]
    IN  after

-----------------------------------------------------------------------------
(* Rebuilding one player from a date on (recalculatePlayerMmr) *)

\* getCheckpointState: the rows of earlier matches, whatever became of the matches.
Checkpoint(p, m) == StateAfter(p, history)[m - 1]

\* Defect variant (of CountedFrom): cancelled matches stay in the replay.
CountedWhateverStatus(p, m) ==
    {k \in Matches : k >= m /\ p \in PlayersOf(k) /\ status[k] \in {"finalized", "cancelled"}}

\* getPlayerMatchesForSeason
CountedFrom(p, m) == {k \in Matches : k >= m /\ p \in PlayersOf(k) /\ status[k] = "finalized"}

\* What the opponent was worth: the row of that match, else the current MMR.
SnapshotMmr(q, m) ==
    IF HasRow(q, m, history) THEN RowAt(q, m, history).before
    ELSE IF ladder[q] # NoRow THEN ladder[q].mmr ELSE BaseMmr

\* deleteMmrHistoryForPlayer leaves the other players and the earlier matches.
Kept(p, m) == {r \in history : r.player # p \/ r.match < m}

RebuildMatch(acc, p, k) ==
    LET new == AdvanceState(acc.state,
                            NewMmr(acc.state.mmr, SnapshotMmr(Opponent(p, k), k), Result(p, k)),
                            Result(p, k))
    IN  [state |-> new, rows |-> acc.rows \cup {RowOf(p, k, acc.state, new, ruleset)}]

\* One player's state and new rows, match by match in playing order.
Rebuilding(p, m) ==
    LET upTo[k \in 0..LastMatch] ==
            IF k = 0 THEN [state |-> Checkpoint(p, m), rows |-> {}]
            ELSE IF k \in CountedFrom(p, m) THEN RebuildMatch(upTo[k - 1], p, k)
                 ELSE upTo[k - 1]
    IN  upTo

Rebuilt(p, m) == Rebuilding(p, m)[LastMatch]

\* Defect variant (of LadderRow): a player left without matches keeps the row.
LadderRowKept(p, m, state) == state

\* A player left with no match at all loses the ladder row.
LadderRow(p, m, state) ==
    IF CountedFrom(p, m) = {} /\ ~\E r \in RowsOf(p, history) : r.match < m
    THEN NoRow
    ELSE state

-----------------------------------------------------------------------------
(* The whole season in one pass (recalculateSeasonMmrDeterministic) *)

ReplayMatch(acc, m, version) ==
    LET StateOf(p) == IF acc.states[p] = NoRow THEN EntryState ELSE acc.states[p]
        After(p) == AdvanceState(StateOf(p),
                                 NewMmr(StateOf(p).mmr, StateOf(Opponent(p, m)).mmr, Result(p, m)),
                                 Result(p, m))
    IN  [states |-> [p \in Players |-> IF p \in PlayersOf(m) THEN After(p) ELSE acc.states[p]],
         rows |-> acc.rows \cup {RowOf(p, m, StateOf(p), After(p), version) : p \in PlayersOf(m)}]

\* The finalized matches in playing order (getFinalizedMatchesPageForSeason).
Replaying(version) ==
    LET upTo[m \in 0..LastMatch] ==
            IF m = 0 THEN [states |-> [p \in Players |-> NoRow], rows |-> {}]
            ELSE IF status[m] = "finalized" THEN ReplayMatch(upTo[m - 1], m, version)
                 ELSE upTo[m - 1]
    IN  upTo

ReplayedSeason(version) == Replaying(version)[LastMatch]

-----------------------------------------------------------------------------
(* Handlers: a commit, then an enqueue that may fail or never be reached *)

Effect(kind, m) == [kind |-> kind, match |-> m]

Finalize(m) ==
    /\ status[m] = "reported"
    /\ status' = [status EXCEPT ![m] = "finalized"]
    /\ effects' = effects \cup {Effect("finalize", m)}
    /\ UNCHANGED <<winner, ruleset, amendments, queue, faults, lost, workerVars, tableVars, damaged>>

Amend == amendments < MaxAmendments /\ amendments' = amendments + 1

CancelFinalized(m) ==
    /\ status[m] = "finalized"
    /\ Amend
    /\ status' = [status EXCEPT ![m] = "cancelled"]
    /\ effects' = effects \cup {Effect("cancel", m)}
    /\ UNCHANGED <<winner, ruleset, queue, faults, lost, workerVars, tableVars, damaged>>

\* Only the result can be corrected, and it must change.
CorrectFinalized(m, position) ==
    /\ status[m] = "finalized"
    /\ position # winner[m]
    /\ Amend
    /\ winner' = [winner EXCEPT ![m] = position]
    /\ effects' = effects \cup {Effect("correct", m)}
    /\ UNCHANGED <<status, ruleset, queue, faults, lost, workerVars, tableVars, damaged>>

\* An organizer's update enters a result in a match that was cancelled.
Revive(m, position) ==
    /\ status[m] = "cancelled"
    /\ Amend
    /\ status' = [status EXCEPT ![m] = "reported"]
    /\ winner' = [winner EXCEPT ![m] = position]
    /\ UNCHANGED <<ruleset, queueVars, workerVars, tableVars, damaged>>

\* Anything but a finalized match can be deleted; its history rows go with it.
DeleteMatch(m) ==
    /\ status[m] \in {"reported", "cancelled"}
    /\ Amend
    /\ status' = [status EXCEPT ![m] = "deleted"]
    /\ history' = {r \in history : r.match # m}
    /\ damaged' = (damaged \/ \E e \in effects \cup ToSet(queue) \cup {job} : e.match = m)
    /\ UNCHANGED <<winner, ruleset, queueVars, workerVars, ladder>>

\* propagateOne on a ranked season.
Propagate ==
    /\ Amend
    /\ ruleset' = ruleset + 1
    /\ effects' = effects \cup {Replay}
    /\ UNCHANGED <<status, winner, queue, faults, lost, workerVars, tableVars, damaged>>

\* addJob with a job key, of which the queue holds at most one job: it is moved to the
\* end. A running one is left alone.
Queued(j) == Append(RemoveFirst(queue, j), j)

Enqueue(e) ==
    /\ e \in effects
    /\ effects' = effects \ {e}
    /\ queue' = Queued(e)
    /\ UNCHANGED <<matchVars, faults, lost, workerVars, tableVars, damaged>>

\* The enqueue fails and is logged, or the server dies before it.
LoseEnqueue(e) ==
    /\ e \in effects
    /\ faults < MaxFaults
    /\ faults' = faults + 1
    /\ effects' = effects \ {e}
    /\ lost' = TRUE
    /\ UNCHANGED <<matchVars, queue, workerVars, tableVars, damaged>>

-----------------------------------------------------------------------------
(* The worker *)

CurrentMmr(p) == ladder[p].mmr

\* The players a job rebuilds first. A deleted match has none any more; only the
\* correction looks at the status.
JobPlayers(j) ==
    IF status[j.match] = "deleted" \/ (j.kind = "correct" /\ status[j.match] # "finalized")
    THEN {}
    ELSE PlayersOf(j.match)

\* Snapshots are taken when the wave begins, after ensurePlayerMmrExists.
StartWave(players, rows) ==
    /\ todo' = players
    /\ before' = [p \in players |-> rows[p].mmr]

StartJob ==
    /\ job = NoJob
    /\ queue # <<>>
    /\ Head(queue).kind # "replay"
    /\ LET j == Head(queue)
           ps == JobPlayers(j)
           rows == [p \in Players |-> IF j.kind = "finalize" /\ p \in ps /\ ladder[p] = NoRow
                                      THEN EntryState ELSE ladder[p]]
       IN  /\ job' = j
           /\ ladder' = rows
           /\ StartWave(ps, rows)
           /\ processed' = ps
    /\ queue' = Tail(queue)
    /\ UNCHANGED <<matchVars, effects, faults, lost, prices, history, damaged>>

\* recalculatePlayerMmr
RecalculatePlayer(p) ==
    /\ p \in todo
    /\ LET rebuilt == Rebuilt(p, job.match) IN
       /\ history' = Kept(p, job.match) \cup rebuilt.rows
       /\ ladder' = [ladder EXCEPT ![p] = LadderRow(p, job.match, rebuilt.state)]
    /\ todo' = todo \ {p}
    /\ UNCHANGED <<matchVars, queueVars, job, prices, before, processed, damaged>>

\* findAffectedPlayers: who later met a player whose MMR moved.
AffectedPlayers(changed) ==
    {q \in Players \ processed : \E k \in Matches : /\ k > job.match
                                                  /\ status[k] = "finalized"
                                                  /\ q \in PlayersOf(k)
                                                  /\ PlayersOf(k) \cap changed # {}}

EndWave ==
    LET changed == {p \in DOMAIN before : CurrentMmr(p) # before[p]}
        next == AffectedPlayers(changed)
    IN  /\ job \notin {NoJob, Replay}
        /\ todo = {}
        /\ StartWave(next, ladder)
        /\ processed' = IF next = {} THEN {} ELSE processed \cup next
        /\ job' = IF next = {} THEN NoJob ELSE job
        /\ UNCHANGED <<matchVars, queueVars, prices, tableVars, damaged>>

\* The replay reads its ruleset, wipes the season's history, ...
StartReplay ==
    /\ job = NoJob
    /\ queue # <<>>
    /\ Head(queue) = Replay
    /\ queue' = Tail(queue)
    /\ job' = Replay
    /\ prices' = ruleset
    /\ history' = {}
    /\ lost' = FALSE
    /\ damaged' = FALSE
    /\ UNCHANGED <<matchVars, effects, faults, todo, before, processed, ladder>>

\* ... then writes what it replayed.
FinishReplay ==
    /\ job = Replay
    /\ LET season == ReplayedSeason(prices) IN
       /\ history' = season.rows
       /\ ladder' = season.states
    /\ job' = NoJob
    /\ prices' = 0
    /\ UNCHANGED <<matchVars, queueVars, todo, before, processed, damaged>>

\* A failed job comes back after a delay, behind what was queued or run meanwhile,
\* unless the same key was queued again.
Retried(q, j) == IF j \in ToSet(q) THEN {q} ELSE {InsertAt(q, i, j) : i \in 1..(Len(q) + 1)}

\* A job throws or the worker dies, between two players or in the middle of one,
\* whose rows are then already deleted.
JobFails ==
    /\ job # NoJob
    /\ faults < MaxFaults
    /\ faults' = faults + 1
    /\ \E q \in Retried(queue, job) : queue' = q
    /\ \/ UNCHANGED <<history, damaged>>
       \/ \E p \in todo :
            /\ history' = Kept(p, job.match)
            /\ damaged' = (damaged \/ p \notin PlayersOf(job.match))
    /\ job' = NoJob
    /\ prices' = 0
    /\ todo' = {}
    /\ before' = NoWave
    /\ processed' = {}
    /\ UNCHANGED <<matchVars, effects, lost, ladder>>

Handler(m) ==
    \/ Finalize(m) \/ CancelFinalized(m) \/ DeleteMatch(m)
    \/ \E position \in Positions : CorrectFinalized(m, position) \/ Revive(m, position)

Worker == StartJob \/ (\E p \in Players : RecalculatePlayer(p)) \/ EndWave
            \/ StartReplay \/ FinishReplay

Next ==
    \/ \E m \in Matches : Handler(m)
    \/ Propagate
    \/ \E e \in Jobs : Enqueue(e) \/ LoseEnqueue(e)
    \/ Worker
    \/ JobFails

Spec == Init /\ [][Next]_vars

-----------------------------------------------------------------------------
(* Properties *)

Ratings == Nat \ {0}
Rows == [player : Players, match : Matches, before : Ratings, after : Ratings,
         result : {"win", "loss", "draw"}, rules : 0..MaxAmendments]
States == [mmr : Ratings, wins : Nat, losses : Nat, draws : Nat, streak : Nat]

\* Every variable keeps its type; no rating ever falls below 1.
TypeOK ==
    /\ status \in [Matches -> {"reported", "finalized", "cancelled", "deleted"}]
    /\ winner \in [Matches -> Positions]
    /\ ruleset \in 0..MaxAmendments
    /\ effects \subseteq Jobs
    /\ queue \in Seq(Jobs)
    /\ job \in Jobs \cup {NoJob}
    /\ prices \in 0..MaxAmendments
    /\ todo \subseteq Players
    /\ DOMAIN before \subseteq Players
    /\ processed \subseteq Players
    /\ \A r \in history : r \in Rows
    /\ ladder \in [Players -> States \cup {NoRow}]
    /\ amendments \in 0..MaxAmendments
    /\ faults \in 0..MaxFaults
    /\ lost \in BOOLEAN
    /\ damaged \in BOOLEAN

Settled == effects = {} /\ queue = <<>> /\ job = NoJob

\* Once the queue has drained, however the jobs interleaved with the handlers and
\* failed, the history is that of the finalized matches: one row per player and
\* match, with the result as it stands and under the current ruleset; none for a
\* match cancelled meanwhile.
HistoryOfFinalizedMatches ==
    Settled /\ ~lost /\ ~damaged =>
        /\ \A p \in Players, m \in Matches :
              HasRow(p, m, history) <=> status[m] = "finalized" /\ p \in PlayersOf(m)
        /\ \A r, s \in history : r.player = s.player /\ r.match = s.match => r = s
        /\ \A r \in history : r.result = Result(r.player, r.match) /\ r.rules = ruleset

\* The history of a player is one unbroken chain, from the entry MMR to the MMR and
\* the counters of the ladder, and a player without history is not on the ladder.
Chain(p) ==
    LET after == StateAfter(p, history)
    IN  /\ \A r \in RowsOf(p, history) : r.before = after[r.match - 1].mmr
        /\ ladder[p] = (IF RowsOf(p, history) = {} THEN NoRow ELSE after[LastMatch])

HistoryIsAChain == Settled /\ ~lost /\ ~damaged => \A p \in Players : Chain(p)

-----------------------------------------------------------------------------
(* What the documentation says, and the code does not do *)

\* scripts/README.md: the job is a replay from a date, so it is order-independent.
\* Once settled, the ladder is the one the season replay would give.
OrderIndependent ==
    Settled /\ ~lost /\ ~damaged => ladder = ReplayedSeason(ruleset).states

\* ranked-mode.md: cancelling a finalized match ripples a recalculation, so the
\* season's history stays consistent, whatever becomes of the cancelled match.
CancellationKeepsHistoryConsistent ==
    Settled /\ ~lost => \A p \in Players : Chain(p)

=============================================================================
