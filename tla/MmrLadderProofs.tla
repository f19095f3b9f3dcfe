-------------------------- MODULE MmrLadderProofs --------------------------
(***************************************************************************)
(* Proofs about MmrLadder for any number of players and matches, any       *)
(* pairing and any number of amendments and faults.                        *)
(*                                                                         *)
(* While jobs are pending the history and the ladder may be wrong, but     *)
(* never silently: whatever is wrong of a player from a match on is due,   *)
(* that is, rebuilt by a job that waits or runs (Due, RowsRight and        *)
(* LaddersRight). A step may only disturb what it makes due, and a rebuild *)
(* settles the player it is about. Once nothing waits or runs, nothing is  *)
(* due and everything is right.                                            *)
(***************************************************************************)
EXTENDS MmrLadder, RecursionFacts, SequenceTheorems, TLAPS

-----------------------------------------------------------------------------
(* Ratings and rows *)

\* What the assumption says of the matches.
LEMMA ConstantFacts ==
    /\ LastMatch \in Nat
    /\ \A m \in Matches : m \in Nat /\ m >= 1 /\ m <= LastMatch
    /\ \A m \in Matches : Pairing[m][1] \in Players /\ Pairing[m][2] \in Players
    /\ \A m \in Matches : Pairing[m][1] # Pairing[m][2]
BY LadderAssumption DEF LastMatch, Matches

\* A match has players of the season, and each has an opponent.
LEMMA PlayersOfFacts ==
    ASSUME NEW m \in Matches
    PROVE  /\ PlayersOf(m) \subseteq Players
           /\ \A p \in PlayersOf(m) : Opponent(p, m) \in PlayersOf(m)
BY ConstantFacts DEF PlayersOf, Opponent

\* No price takes a rating below 1.
LEMMA NewMmrType ==
    ASSUME NEW own \in Ratings, NEW opponent \in Ratings, NEW result \in {"win", "loss", "draw"}
    PROVE  NewMmr(own, opponent, result) \in Ratings
BY DEF NewMmr, Pot, DrawGain, Gain, SmallerOf, Ratings

\* The entry state is a state.
LEMMA EntryStateType ==
    /\ EntryState \in States
    /\ EntryState = [mmr |-> BaseMmr, wins |-> 0, losses |-> 0, draws |-> 0, streak |-> 0]
BY LadderAssumption DEF EntryState, States, NoRow, Ratings

\* No state passes for a missing ladder row.
LEMMA NoRowFacts == \A s \in States : s # NoRow
<1>1. NoRow.mmr = 0
  BY DEF NoRow
<1> QED BY <1>1 DEF States, Ratings

\* A match leads from a state to a state with the rating it is given.
LEMMA AdvanceStateType ==
    ASSUME NEW state \in States, NEW mmr \in Ratings, NEW result \in {"win", "loss", "draw"}
    PROVE  /\ AdvanceState(state, mmr, result) \in States
           /\ AdvanceState(state, mmr, result).mmr = mmr
BY DEF AdvanceState, States

\* The row of a player for a match is one.
LEMMA RowAtFacts ==
    ASSUME NEW p, NEW k, NEW rows, HasRow(p, k, rows)
    PROVE  /\ RowAt(p, k, rows) \in rows
           /\ RowAt(p, k, rows).player = p
           /\ RowAt(p, k, rows).match = k
BY DEF HasRow, RowAt, RowsOf

\* A row without rival is the row of its player for its match.
LEMMA RowAtIs ==
    ASSUME NEW rows, NEW r \in rows,
           \A s \in rows : s.player = r.player /\ s.match = r.match => s = r
    PROVE  HasRow(r.player, r.match, rows) /\ RowAt(r.player, r.match, rows) = r
BY RowAtFacts DEF HasRow, RowsOf

-----------------------------------------------------------------------------
(* What the rows say of a player *)

\* What the rows make of a state at match k.
AfterMatch(p, rows, state, k) ==
    IF HasRow(p, k, rows)
    THEN AdvanceState(state, RowAt(p, k, rows).after, RowAt(p, k, rows).result)
    ELSE state

\* The states a history makes of a player: the entry state, then match by match.
LEMMA StateAfterFacts ==
    ASSUME NEW p, NEW rows, \A r \in rows : r \in Rows
    PROVE  /\ StateAfter(p, rows) \in [0..LastMatch -> States]
           /\ StateAfter(p, rows)[0] = EntryState
           /\ \A k \in Matches :
                 StateAfter(p, rows)[k] = AfterMatch(p, rows, StateAfter(p, rows)[k - 1], k)
<1> DEFINE Eqn(f) == f = [k \in 0..LastMatch |->
                        IF k = 0 THEN EntryState
                        ELSE IF HasRow(p, k, rows)
                             THEN AdvanceState(f[k - 1], RowAt(p, k, rows).after, RowAt(p, k, rows).result)
                             ELSE f[k - 1]]
           step == [x \in States \X (1..LastMatch) |-> AfterMatch(p, rows, x[1], x[2])]
<1>1. ASSUME NEW state \in States, NEW k \in 1..LastMatch
      PROVE  AfterMatch(p, rows, state, k) \in States
  <2>1. CASE HasRow(p, k, rows)
    <3>1. RowAt(p, k, rows) \in Rows
      BY <2>1, RowAtFacts
    <3>2. /\ RowAt(p, k, rows).after \in Ratings
          /\ RowAt(p, k, rows).result \in {"win", "loss", "draw"}
      BY <3>1 DEF Rows
    <3> QED BY <2>1, <3>2, AdvanceStateType DEF AfterMatch
  <2> QED BY <2>1 DEF AfterMatch
<1>2. step \in [States \X (1..LastMatch) -> States]
  BY <1>1
<1>3. \A state \in States, k \in 1..LastMatch :
          step[<<state, k>>] = AfterMatch(p, rows, state, k)
  OBVIOUS
<1> HIDE DEF step
<1>4. PICK h : BuiltBy(h, LastMatch, States, EntryState, step)
  <2>1. LastMatch \in Nat /\ EntryState \in States
    BY ConstantFacts, EntryStateType
  <2> QED BY <1>2, <2>1, RecursiveFunction, Zenon
<1>5. Eqn(h)
  <2>1. ASSUME NEW k \in 0..LastMatch
        PROVE  h[k] = IF k = 0 THEN EntryState
                      ELSE IF HasRow(p, k, rows)
                           THEN AdvanceState(h[k - 1], RowAt(p, k, rows).after, RowAt(p, k, rows).result)
                           ELSE h[k - 1]
    <3>1. CASE k = 0
      BY <1>4, <3>1 DEF BuiltBy
    <3>2. CASE k # 0
      <4>1. k \in 1..LastMatch /\ k - 1 \in 0..LastMatch
        BY <3>2, ConstantFacts
      <4>2. h[k] = AfterMatch(p, rows, h[k - 1], k)
        BY <1>3, <1>4, <4>1 DEF BuiltBy
      <4> QED BY <3>2, <4>2 DEF AfterMatch
    <3> QED BY <3>1, <3>2
  <2> QED BY <1>4, <2>1 DEF BuiltBy
<1>6. StateAfter(p, rows) = CHOOSE f : Eqn(f)
  BY DEF StateAfter
<1> HIDE DEF Eqn
<1>7. Eqn(StateAfter(p, rows))
  BY <1>5, <1>6
<1> DEFINE f == StateAfter(p, rows)
<1> HIDE DEF f
<1>8. Eqn(f)
  BY <1>7 DEF f
<1>9. DOMAIN f = 0..LastMatch /\ f[0] = EntryState
  BY <1>8, ConstantFacts DEF Eqn
<1>10. \A k \in Matches : f[k] = AfterMatch(p, rows, f[k - 1], k)
  BY <1>8, ConstantFacts DEF Eqn, AfterMatch, Matches
<1> DEFINE S == {k \in 0..LastMatch : f[k] \in States}
<1>11. 0 \in S
  BY <1>9, EntryStateType, ConstantFacts
<1>12. ASSUME NEW n \in 0..(LastMatch - 1), n \in S PROVE n + 1 \in S
  <2>1. n + 1 \in 1..LastMatch /\ n + 1 - 1 = n
    BY ConstantFacts
  <2>2. f[n + 1] = AfterMatch(p, rows, f[n], n + 1)
    BY <1>10, <2>1 DEF Matches
  <2> QED BY <1>1, <1>12, <2>1, <2>2
<1> HIDE DEF S
<1>13. \A k \in 0..LastMatch : k \in S
  BY <1>11, <1>12, ConstantFacts, UpToInduction
<1>14. f \in [0..LastMatch -> States]
  <2>1. f = [k \in 0..LastMatch |-> f[k]]
    BY <1>8 DEF Eqn
  <2> QED BY <1>13, <2>1 DEF S
<1> QED BY <1>9, <1>10, <1>14 DEF f

\* States that start like those of a history and go on like them are those of the history.
LEMMA StateAfterFollows ==
    ASSUME NEW p, NEW rows, \A r \in rows : r \in Rows,
           NEW lo \in 0..LastMatch, NEW hi \in 0..LastMatch, NEW f,
           f[lo] = StateAfter(p, rows)[lo],
           \A k \in (lo + 1)..hi : f[k] = AfterMatch(p, rows, f[k - 1], k)
    PROVE  \A k \in lo..hi : StateAfter(p, rows)[k] = f[k]
<1> DEFINE g == StateAfter(p, rows)
           S == {k \in 0..hi : k >= lo => g[k] = f[k]}
<1> HIDE DEF g
<1>1. \A k \in Matches : g[k] = AfterMatch(p, rows, g[k - 1], k)
  BY StateAfterFacts DEF g
<1>2. g[lo] = f[lo]
  BY DEF g
<1>3. 0 \in S
  BY <1>2, ConstantFacts
<1>4. ASSUME NEW n \in 0..(hi - 1), n \in S PROVE n + 1 \in S
  <2>1. n + 1 \in 0..hi /\ n + 1 \in 1..LastMatch /\ (n + 1) - 1 = n
    BY ConstantFacts
  <2>2. CASE n + 1 <= lo
    BY <1>2, <2>1, <2>2, ConstantFacts
  <2>3. CASE n >= lo
    <3>1. g[n + 1] = AfterMatch(p, rows, g[n], n + 1)
      BY <1>1, <2>1 DEF Matches
    <3>2. f[n + 1] = AfterMatch(p, rows, f[n], n + 1)
      BY <2>1, <2>3
    <3> QED BY <1>4, <2>1, <2>3, <3>1, <3>2
  <2> QED BY <2>2, <2>3, ConstantFacts
<1> HIDE DEF S
<1>5. \A k \in 0..hi : k \in S
  BY <1>3, <1>4, ConstantFacts, UpToInduction
<1> QED BY <1>5, ConstantFacts DEF S, g

\* The two histories hold the same row of the player for match k, if any.
SameRows(p, k, rows, other) ==
    /\ HasRow(p, k, rows) <=> HasRow(p, k, other)
    /\ HasRow(p, k, rows) => RowAt(p, k, rows) = RowAt(p, k, other)

\* Histories with the same rows up to a match make the same states up to it.
LEMMA StateAfterSame ==
    ASSUME NEW p, NEW rows, NEW other, \A r \in rows : r \in Rows, \A r \in other : r \in Rows,
           NEW n \in 0..LastMatch, \A k \in 1..n : SameRows(p, k, rows, other)
    PROVE  \A k \in 0..n : StateAfter(p, rows)[k] = StateAfter(p, other)[k]
<1> DEFINE f == StateAfter(p, other)
<1>1. f[0] = StateAfter(p, rows)[0]
  BY StateAfterFacts
<1>2. ASSUME NEW k \in 1..n PROVE f[k] = AfterMatch(p, rows, f[k - 1], k)
  <2>1. k \in Matches
    BY ConstantFacts DEF Matches
  <2>2. f[k] = AfterMatch(p, other, f[k - 1], k)
    BY <2>1, StateAfterFacts
  <2> QED BY <2>2 DEF AfterMatch, SameRows
<1> HIDE DEF f
<1>3. 0 \in 0..LastMatch /\ \A k \in (0 + 1)..n : k \in 1..n
  BY ConstantFacts
<1>4. \A k \in 0..n : StateAfter(p, rows)[k] = f[k]
  BY <1>1, <1>2, <1>3, StateAfterFollows
<1> QED BY <1>4 DEF f

\* Among unique rows the same rows are the same row.
LEMMA SameRowsOfUnique ==
    ASSUME NEW p, NEW k, NEW rows, NEW other,
           \A r \in rows : r.player = p /\ r.match = k => r \in other,
           \A r \in other : r.player = p /\ r.match = k => r \in rows,
           \A r, s \in rows : r.player = s.player /\ r.match = s.match => r = s
    PROVE  SameRows(p, k, rows, other)
<1>1. HasRow(p, k, rows) <=> HasRow(p, k, other)
  BY DEF HasRow, RowsOf
<1>2. ASSUME HasRow(p, k, rows) PROVE RowAt(p, k, rows) = RowAt(p, k, other)
  <2>1. HasRow(p, k, other)
    BY <1>1, <1>2
  <2> QED BY <1>2, <2>1, RowAtFacts
<1> QED BY <1>1, <1>2 DEF SameRows

-----------------------------------------------------------------------------
(* Rebuilding one player *)

\* What the rebuild of one player goes through.
Rebuilds == [state : States, rows : SUBSET Rows]

\* An opponent is always worth a rating.
LEMMA SnapshotMmrType ==
    ASSUME TypeOK, NEW q \in Players, NEW k \in Matches
    PROVE  SnapshotMmr(q, k) \in Ratings
<1>1. CASE HasRow(q, k, history)
  <2>1. RowAt(q, k, history) \in Rows
    BY <1>1, RowAtFacts DEF TypeOK
  <2> QED BY <1>1, <2>1 DEF SnapshotMmr, Rows
<1>2. CASE ~HasRow(q, k, history)
  <2>1. ladder[q] # NoRow => ladder[q] \in States
    BY DEF TypeOK
  <2> QED BY <1>2, <2>1, LadderAssumption DEF SnapshotMmr, States, Ratings
<1> QED BY <1>1, <1>2

\* A match is won, lost or drawn.
LEMMA ResultType ==
    ASSUME NEW p, NEW k \in Matches PROVE Result(p, k) \in {"win", "loss", "draw"}
BY DEF Result

\* What a rebuild writes is a row.
LEMMA RowOfType ==
    ASSUME NEW p \in Players, NEW k \in Matches, NEW old \in States, NEW new \in States,
           NEW version \in 0..MaxAmendments
    PROVE  RowOf(p, k, old, new, version) \in Rows
BY DEF RowOf, Rows, States, Result

\* A rebuild starts from a state.
LEMMA CheckpointType ==
    ASSUME TypeOK, NEW p \in Players, NEW m \in Matches
    PROVE  Checkpoint(p, m) \in States
<1>1. m - 1 \in 0..LastMatch
  BY ConstantFacts
<1>2. \A r \in history : r \in Rows
  BY DEF TypeOK
<1> QED BY <1>1, <1>2, StateAfterFacts DEF Checkpoint

\* The price of match k for a player in that state.
Priced(p, k, state) ==
    AdvanceState(state, NewMmr(state.mmr, SnapshotMmr(Opponent(p, k), k), Result(p, k)), Result(p, k))

\* The price of a match leads to a state.
LEMMA PricedType ==
    ASSUME TypeOK, NEW p, NEW k \in Matches, p \in PlayersOf(k), NEW state \in States
    PROVE  /\ Priced(p, k, state) \in States
           /\ Priced(p, k, state) = AdvanceState(state, Priced(p, k, state).mmr, Result(p, k))
<1>1. SnapshotMmr(Opponent(p, k), k) \in Ratings
  BY PlayersOfFacts, SnapshotMmrType
<1>2. NewMmr(state.mmr, SnapshotMmr(Opponent(p, k), k), Result(p, k)) \in Ratings
  BY <1>1, NewMmrType, ResultType DEF States
<1> QED BY <1>2, AdvanceStateType, ResultType DEF Priced

\* One match of a rebuild.
LEMMA RebuildMatchFacts ==
    ASSUME TypeOK, NEW p \in Players, NEW k \in Matches, p \in PlayersOf(k), NEW acc \in Rebuilds
    PROVE  /\ RebuildMatch(acc, p, k) \in Rebuilds
           /\ RebuildMatch(acc, p, k).state = Priced(p, k, acc.state)
           /\ RebuildMatch(acc, p, k).rows
                = acc.rows \cup {RowOf(p, k, acc.state, Priced(p, k, acc.state), ruleset)}
<1>1. acc.state \in States /\ acc.rows \in SUBSET Rows
  BY DEF Rebuilds
<1>2. Priced(p, k, acc.state) \in States
  BY <1>1, PricedType
<1>3. ruleset \in 0..MaxAmendments
  BY DEF TypeOK
<1>4. RowOf(p, k, acc.state, Priced(p, k, acc.state), ruleset) \in Rows
  BY <1>1, <1>2, <1>3, RowOfType
<1>5. RebuildMatch(acc, p, k) =
        [state |-> Priced(p, k, acc.state),
         rows |-> acc.rows \cup {RowOf(p, k, acc.state, Priced(p, k, acc.state), ruleset)}]
  BY DEF RebuildMatch, Priced
<1> QED BY <1>1, <1>2, <1>4, <1>5 DEF Rebuilds

\* A rebuild, match by match.
LEMMA RebuildingFacts ==
    ASSUME TypeOK, NEW p \in Players, NEW m \in Matches
    PROVE  /\ Rebuilding(p, m) \in [0..LastMatch -> Rebuilds]
           /\ Rebuilding(p, m)[0] = [state |-> Checkpoint(p, m), rows |-> {}]
           /\ \A k \in Matches :
                 Rebuilding(p, m)[k] =
                     IF k \in CountedFrom(p, m) THEN RebuildMatch(Rebuilding(p, m)[k - 1], p, k)
                     ELSE Rebuilding(p, m)[k - 1]
<1> DEFINE start == [state |-> Checkpoint(p, m), rows |-> {}]
           Eqn(f) == f = [k \in 0..LastMatch |->
                        IF k = 0 THEN start
                        ELSE IF k \in CountedFrom(p, m) THEN RebuildMatch(f[k - 1], p, k)
                             ELSE f[k - 1]]
           After(acc, k) == IF k \in CountedFrom(p, m) THEN RebuildMatch(acc, p, k) ELSE acc
           step == [x \in Rebuilds \X (1..LastMatch) |-> After(x[1], x[2])]
<1>0. start \in Rebuilds
  BY CheckpointType DEF Rebuilds
<1>1. ASSUME NEW acc \in Rebuilds, NEW k \in 1..LastMatch
      PROVE  After(acc, k) \in Rebuilds
  BY RebuildMatchFacts DEF CountedFrom, Matches
<1>2. step \in [Rebuilds \X (1..LastMatch) -> Rebuilds]
  BY <1>1
<1>3. \A acc \in Rebuilds, k \in 1..LastMatch : step[<<acc, k>>] = After(acc, k)
  OBVIOUS
<1> HIDE DEF step, start
<1>4. PICK h : BuiltBy(h, LastMatch, Rebuilds, start, step)
  <2>1. LastMatch \in Nat
    BY ConstantFacts
  <2> QED BY <1>0, <1>2, <2>1, RecursiveFunction, Zenon
<1>5. Eqn(h)
  <2>1. ASSUME NEW k \in 0..LastMatch
        PROVE  h[k] = IF k = 0 THEN start ELSE After(h[k - 1], k)
    <3>1. CASE k = 0
      BY <1>4, <3>1 DEF BuiltBy
    <3>2. CASE k # 0
      <4>1. k \in 1..LastMatch /\ k - 1 \in 0..LastMatch
        BY <3>2, ConstantFacts
      <4>2. h[k] = step[<<h[k - 1], k>>] /\ h[k - 1] \in Rebuilds
        BY <1>4, <4>1 DEF BuiltBy
      <4>3. h[k] = After(h[k - 1], k)
        BY <1>3, <4>1, <4>2
      <4> QED BY <3>2, <4>3
    <3> QED BY <3>1, <3>2
  <2> QED BY <1>4, <2>1 DEF BuiltBy
<1>6. Rebuilding(p, m) = CHOOSE f : Eqn(f)
  BY DEF Rebuilding, start
<1> HIDE DEF Eqn, After
<1>7. Eqn(Rebuilding(p, m))
  BY <1>5, <1>6
<1> DEFINE f == Rebuilding(p, m)
<1> HIDE DEF f
<1>8. Eqn(f)
  BY <1>7 DEF f
<1>9. DOMAIN f = 0..LastMatch /\ f[0] = start
  BY <1>8, ConstantFacts DEF Eqn
<1>10. \A k \in Matches : f[k] = After(f[k - 1], k)
  BY <1>8, ConstantFacts DEF Eqn, After, Matches
<1> DEFINE S == {k \in 0..LastMatch : f[k] \in Rebuilds}
<1>11. 0 \in S
  BY <1>0, <1>9, ConstantFacts
<1>12. ASSUME NEW n \in 0..(LastMatch - 1), n \in S PROVE n + 1 \in S
  <2>1. n + 1 \in 1..LastMatch /\ n + 1 - 1 = n
    BY ConstantFacts
  <2>2. f[n + 1] = After(f[n], n + 1)
    BY <1>10, <2>1 DEF Matches
  <2> QED BY <1>1, <1>12, <2>1, <2>2
<1> HIDE DEF S
<1>13. \A k \in 0..LastMatch : k \in S
  BY <1>11, <1>12, ConstantFacts, UpToInduction
<1>14. f \in [0..LastMatch -> Rebuilds]
  <2>1. f = [k \in 0..LastMatch |-> f[k]]
    BY <1>8 DEF Eqn
  <2> QED BY <1>13, <2>1 DEF S
<1> QED BY <1>9, <1>10, <1>14 DEF f, start, After

\* The row the rebuild writes for match k.
NewRow(p, m, k) ==
    RowOf(p, k, Rebuilding(p, m)[k - 1].state, Rebuilding(p, m)[k].state, ruleset)

\* A rebuild starts from the checkpoint, with no row.
LEMMA RebuildingStart ==
    ASSUME TypeOK, NEW p \in Players, NEW m \in Matches
    PROVE  Rebuilding(p, m)[0].state = Checkpoint(p, m) /\ Rebuilding(p, m)[0].rows = {}
<1>1. Rebuilding(p, m)[0] = [state |-> Checkpoint(p, m), rows |-> {}]
  BY RebuildingFacts
<1> QED BY <1>1

\* A match that counts writes a row and advances the state; another does nothing.
LEMMA RebuildingSteps ==
    ASSUME TypeOK, NEW p \in Players, NEW m \in Matches, NEW k \in Matches
    PROVE  /\ Rebuilding(p, m)[k - 1] \in Rebuilds
           /\ Rebuilding(p, m)[k] \in Rebuilds
           /\ k \notin CountedFrom(p, m) => Rebuilding(p, m)[k] = Rebuilding(p, m)[k - 1]
           /\ k \in CountedFrom(p, m) =>
                /\ Rebuilding(p, m)[k].rows = Rebuilding(p, m)[k - 1].rows \cup {NewRow(p, m, k)}
                /\ Rebuilding(p, m)[k].state
                     = AdvanceState(Rebuilding(p, m)[k - 1].state, Rebuilding(p, m)[k].state.mmr,
                                    Result(p, k))
                /\ NewRow(p, m, k) \in Rows
<1> DEFINE f == Rebuilding(p, m)
<1> HIDE DEF f
<1>1. f \in [0..LastMatch -> Rebuilds]
  BY RebuildingFacts DEF f
<1>2. k - 1 \in 0..LastMatch /\ k \in 0..LastMatch
  BY ConstantFacts DEF Matches
<1>3. f[k - 1] \in Rebuilds /\ f[k] \in Rebuilds
  BY <1>1, <1>2
<1>4. f[k] = IF k \in CountedFrom(p, m) THEN RebuildMatch(f[k - 1], p, k) ELSE f[k - 1]
  BY RebuildingFacts DEF f
<1>5. ASSUME k \in CountedFrom(p, m)
      PROVE  /\ f[k].rows = f[k - 1].rows \cup {NewRow(p, m, k)}
             /\ f[k].state = AdvanceState(f[k - 1].state, f[k].state.mmr, Result(p, k))
             /\ NewRow(p, m, k) \in Rows
  <2>1. p \in PlayersOf(k) /\ f[k] = RebuildMatch(f[k - 1], p, k)
    BY <1>4, <1>5 DEF CountedFrom
  <2>2. /\ f[k].state = Priced(p, k, f[k - 1].state)
        /\ f[k].rows = f[k - 1].rows \cup {RowOf(p, k, f[k - 1].state, f[k].state, ruleset)}
    BY <1>3, <2>1, RebuildMatchFacts
  <2>3. f[k - 1].state \in States /\ f[k].state \in States
    BY <1>3 DEF Rebuilds
  <2>4. f[k].state = AdvanceState(f[k - 1].state, f[k].state.mmr, Result(p, k))
    BY <2>1, <2>2, <2>3, PricedType
  <2>5. ruleset \in 0..MaxAmendments
    BY DEF TypeOK
  <2>6. RowOf(p, k, f[k - 1].state, f[k].state, ruleset) \in Rows
    BY <2>3, <2>5, RowOfType
  <2> QED BY <2>2, <2>4, <2>6 DEF NewRow, f
<1> QED BY <1>3, <1>4, <1>5 DEF f

\* The rows written so far are those of the matches that count so far.
LEMMA RowsOfRebuilding ==
    ASSUME TypeOK, NEW p \in Players, NEW m \in Matches, NEW k \in 0..LastMatch
    PROVE  Rebuilding(p, m)[k].rows = {NewRow(p, m, j) : j \in {i \in CountedFrom(p, m) : i <= k}}
<1> DEFINE f == Rebuilding(p, m)
           C == CountedFrom(p, m)
           row(j) == NewRow(p, m, j)
           S == {n \in 0..LastMatch : f[n].rows = {row(j) : j \in {i \in C : i <= n}}}
<1>1. C \subseteq Matches
  BY DEF CountedFrom
<1>2. f[0].rows = {}
  BY RebuildingStart
<1>3. \A n \in Matches : f[n].rows = IF n \in C THEN f[n - 1].rows \cup {row(n)} ELSE f[n - 1].rows
  BY RebuildingSteps
<1> HIDE DEF f, C, row
<1>4. 0 \in S
  <2>1. {i \in C : i <= 0} = {}
    BY <1>1, ConstantFacts
  <2> QED BY <1>2, <2>1, ConstantFacts
<1>5. ASSUME NEW n \in 0..(LastMatch - 1), n \in S PROVE n + 1 \in S
  <2>1. n + 1 \in Matches /\ (n + 1) - 1 = n
    BY ConstantFacts DEF Matches
  <2>2. {i \in C : i <= n + 1} = {i \in C : i <= n} \cup (C \cap {n + 1})
    BY <1>1, ConstantFacts
  <2>3. f[n].rows = {row(j) : j \in {i \in C : i <= n}}
    BY <1>5
  <2>4. f[n + 1].rows = IF n + 1 \in C THEN f[n].rows \cup {row(n + 1)} ELSE f[n].rows
    BY <1>3, <2>1
  <2>5. f[n + 1].rows = {row(j) : j \in {i \in C : i <= n + 1}}
    BY <2>2, <2>3, <2>4
  <2> QED BY <2>1, <2>5 DEF Matches
<1> HIDE DEF S
<1>6. k \in S
  BY <1>4, <1>5, ConstantFacts, UpToInduction
<1> QED BY <1>6 DEF S, f, C, row

\* The history once a player is rebuilt from match m on.
Recalculated(p, m) == Kept(p, m) \cup Rebuilt(p, m).rows

\* At most one row per player and match.
RowsUnique(rows) == \A r, s \in rows : r.player = s.player /\ r.match = s.match => r = s

\* The history once a player is rebuilt: what is kept and what is new.
LEMMA RecalculatedRows ==
    ASSUME TypeOK, NEW p \in Players, NEW m \in Matches
    PROVE  /\ \A r \in Recalculated(p, m) : r \in Rows
           /\ \A r \in history : r.player # p \/ r.match < m => r \in Recalculated(p, m)
           /\ \A k \in CountedFrom(p, m) : NewRow(p, m, k) \in Recalculated(p, m)
           /\ \A r \in Recalculated(p, m) :
                 \/ r \in history /\ (r.player # p \/ r.match < m)
                 \/ \E k \in CountedFrom(p, m) : r = NewRow(p, m, k)
<1>1. LastMatch \in 0..LastMatch
  BY ConstantFacts
<1>2. {i \in CountedFrom(p, m) : i <= LastMatch} = CountedFrom(p, m)
  BY ConstantFacts DEF CountedFrom
<1>3. Rebuilt(p, m).rows = {NewRow(p, m, j) : j \in CountedFrom(p, m)}
  BY <1>1, <1>2, RowsOfRebuilding DEF Rebuilt
<1>4. \A j \in CountedFrom(p, m) : NewRow(p, m, j) \in Rows
  BY RebuildingSteps DEF CountedFrom
<1>5. \A r \in history : r \in Rows
  BY DEF TypeOK
<1> QED BY <1>3, <1>4, <1>5 DEF Recalculated, Kept

\* What a new row says.
LEMMA NewRowFacts ==
    ASSUME NEW p, NEW m, NEW k
    PROVE  /\ NewRow(p, m, k).player = p
           /\ NewRow(p, m, k).match = k
           /\ NewRow(p, m, k).before = Rebuilding(p, m)[k - 1].state.mmr
           /\ NewRow(p, m, k).after = Rebuilding(p, m)[k].state.mmr
           /\ NewRow(p, m, k).result = Result(p, k)
           /\ NewRow(p, m, k).rules = ruleset
BY DEF NewRow, RowOf

\* A rebuild leaves no second row of a match.
LEMMA RecalculatedUnique ==
    ASSUME TypeOK, RowsUnique(history), NEW p \in Players, NEW m \in Matches
    PROVE  RowsUnique(Recalculated(p, m))
<1> SUFFICES ASSUME NEW r \in Recalculated(p, m), NEW s \in Recalculated(p, m),
                    r.player = s.player, r.match = s.match
             PROVE  r = s
  BY DEF RowsUnique
<1>1. \A k \in CountedFrom(p, m) : k >= m /\ k \in Int /\ m \in Int
  BY ConstantFacts DEF CountedFrom
<1>2. CASE r \in history /\ s \in history
  BY <1>2 DEF RowsUnique
<1>3. CASE \E k \in CountedFrom(p, m) : r = NewRow(p, m, k)
  <2>1. PICK k \in CountedFrom(p, m) : r = NewRow(p, m, k)
    BY <1>3
  <2>2. s.player = p /\ ~(s.match < m)
    BY <1>1, <2>1, NewRowFacts
  <2>3. PICK j \in CountedFrom(p, m) : s = NewRow(p, m, j)
    BY <2>2, RecalculatedRows
  <2> QED BY <2>1, <2>3, NewRowFacts
<1>4. CASE \E k \in CountedFrom(p, m) : s = NewRow(p, m, k)
  <2>1. PICK k \in CountedFrom(p, m) : s = NewRow(p, m, k)
    BY <1>4
  <2>2. r.player = p /\ ~(r.match < m)
    BY <1>1, <2>1, NewRowFacts
  <2>3. PICK j \in CountedFrom(p, m) : r = NewRow(p, m, j)
    BY <2>2, RecalculatedRows
  <2> QED BY <2>1, <2>3, NewRowFacts
<1> QED BY <1>2, <1>3, <1>4, RecalculatedRows

\* A rebuild leaves the other players and the earlier matches alone.
LEMMA RecalculatedKeeps ==
    ASSUME TypeOK, RowsUnique(history), NEW p \in Players, NEW m \in Matches,
           NEW q, NEW k \in Matches, q # p \/ k < m
    PROVE  SameRows(q, k, Recalculated(p, m), history)
<1>1. \A j \in CountedFrom(p, m) : j >= m /\ j \in Int
  BY DEF CountedFrom, Matches
<1>2. \A r \in Recalculated(p, m) : r.player = q /\ r.match = k => r \in history
  BY <1>1, NewRowFacts, RecalculatedRows, ConstantFacts
<1>3. \A r \in history : r.player = q /\ r.match = k => r \in Recalculated(p, m)
  BY RecalculatedRows
<1>4. \A r, s \in Recalculated(p, m) : r.player = s.player /\ r.match = s.match => r = s
  BY RecalculatedUnique DEF RowsUnique
<1> QED BY <1>2, <1>3, <1>4, SameRowsOfUnique

\* From the match on, the player has the row of each match that counts and no other.
LEMMA RecalculatedFrom ==
    ASSUME TypeOK, RowsUnique(history), NEW p \in Players, NEW m \in Matches,
           NEW k \in Matches, k >= m
    PROVE  /\ HasRow(p, k, Recalculated(p, m)) <=> k \in CountedFrom(p, m)
           /\ HasRow(p, k, Recalculated(p, m)) => RowAt(p, k, Recalculated(p, m)) = NewRow(p, m, k)
<1>0. \A i \in Matches : i \in Int
  BY ConstantFacts
<1>1. ASSUME HasRow(p, k, Recalculated(p, m))
      PROVE  k \in CountedFrom(p, m) /\ RowAt(p, k, Recalculated(p, m)) = NewRow(p, m, k)
  <2> DEFINE r == RowAt(p, k, Recalculated(p, m))
  <2>1. r \in Recalculated(p, m) /\ r.player = p /\ r.match = k
    BY <1>1, RowAtFacts
  <2>2. PICK j \in CountedFrom(p, m) : r = NewRow(p, m, j)
    BY <1>0, <2>1, RecalculatedRows
  <2>3. j = k
    BY <2>1, <2>2, NewRowFacts
  <2> QED BY <2>2, <2>3
<1>2. ASSUME k \in CountedFrom(p, m) PROVE HasRow(p, k, Recalculated(p, m))
  <2>1. NewRow(p, m, k) \in Recalculated(p, m)
    BY <1>2, RecalculatedRows
  <2> QED BY <2>1, NewRowFacts DEF HasRow, RowsOf
<1> QED BY <1>1, <1>2

\* The rebuilt rows say of the player what the rebuild computed, and the same as before of
\* the matches before m and of everybody else.
LEMMA RecalculatedStates ==
    ASSUME TypeOK, RowsUnique(history), NEW p \in Players, NEW m \in Matches
    PROVE  /\ \A q : q # p =>
                 \A k \in 0..LastMatch :
                    StateAfter(q, Recalculated(p, m))[k] = StateAfter(q, history)[k]
           /\ \A k \in 0..(m - 1) :
                 StateAfter(p, Recalculated(p, m))[k] = StateAfter(p, history)[k]
           /\ \A k \in (m - 1)..LastMatch :
                 StateAfter(p, Recalculated(p, m))[k] = Rebuilding(p, m)[k].state
<1> DEFINE new == Recalculated(p, m)
<1>1. (\A r \in new : r \in Rows) /\ (\A r \in history : r \in Rows)
  BY RecalculatedRows DEF TypeOK
<1>2. ASSUME NEW q, q # p, NEW k \in 0..LastMatch
      PROVE  StateAfter(q, new)[k] = StateAfter(q, history)[k]
  <2>1. \A j \in 1..LastMatch : SameRows(q, j, new, history)
    BY <1>2, RecalculatedKeeps DEF Matches
  <2>2. LastMatch \in 0..LastMatch
    BY ConstantFacts
  <2> HIDE DEF new
  <2> QED BY <1>1, <2>1, <2>2, StateAfterSame
<1>3. ASSUME NEW k \in 0..(m - 1)
      PROVE  StateAfter(p, new)[k] = StateAfter(p, history)[k]
  <2>1. m - 1 \in 0..LastMatch
    BY ConstantFacts
  <2>2. \A j \in 1..(m - 1) : SameRows(p, j, new, history)
    BY RecalculatedKeeps, ConstantFacts DEF Matches
  <2> HIDE DEF new
  <2> QED BY <1>1, <2>1, <2>2, StateAfterSame
<1>4. ASSUME NEW k \in 0..(m - 1) PROVE Rebuilding(p, m)[k].state = Checkpoint(p, m)
  <2> DEFINE f == Rebuilding(p, m)
             S == {n \in 0..(m - 1) : f[n].state = Checkpoint(p, m)}
  <2>1. f[0].state = Checkpoint(p, m)
    BY RebuildingStart
  <2>2. ASSUME NEW n \in 0..(m - 2), n \in S PROVE n + 1 \in S
    <3>1. n + 1 \in Matches /\ (n + 1) - 1 = n /\ n + 1 \in 0..(m - 1) /\ ~(n + 1 >= m)
      BY ConstantFacts DEF Matches
    <3>2. n + 1 \notin CountedFrom(p, m)
      BY <3>1 DEF CountedFrom
    <3>3. f[n + 1] = f[n]
      BY <3>1, <3>2, RebuildingSteps
    <3> QED BY <2>2, <3>1, <3>3
  <2> HIDE DEF f
  <2>3. 0 \in S /\ m - 1 \in Nat
    BY <2>1, ConstantFacts
  <2> HIDE DEF S
  <2>4. \A n \in 0..((m - 1) - 1) : n \in 0..(m - 2)
    BY ConstantFacts
  <2>5. k \in S
    BY <2>2, <2>3, <2>4, UpToInduction
  <2> QED BY <2>5 DEF S, f
<1>5. \A k \in (m - 1)..LastMatch : StateAfter(p, new)[k] = Rebuilding(p, m)[k].state
  <2> DEFINE f == [k \in 0..LastMatch |-> Rebuilding(p, m)[k].state]
  <2>1. m - 1 \in 0..LastMatch /\ LastMatch \in 0..LastMatch /\ m - 1 \in 0..(m - 1)
    BY ConstantFacts
  <2>2. f[m - 1] = StateAfter(p, new)[m - 1]
    BY <1>3, <1>4, <2>1 DEF Checkpoint
  <2>3. ASSUME NEW k \in ((m - 1) + 1)..LastMatch
        PROVE  f[k] = AfterMatch(p, new, f[k - 1], k)
    <3>1. k \in Matches /\ k >= m /\ k \in 0..LastMatch /\ k - 1 \in 0..LastMatch
      BY ConstantFacts DEF Matches
    <3>2. f[k] = Rebuilding(p, m)[k].state /\ f[k - 1] = Rebuilding(p, m)[k - 1].state
      BY <3>1
    <3> HIDE DEF f
    <3>3. CASE k \in CountedFrom(p, m)
      <4>1. HasRow(p, k, new) /\ RowAt(p, k, new) = NewRow(p, m, k)
        BY <3>1, <3>3, RecalculatedFrom
      <4>2. f[k] = AdvanceState(f[k - 1], f[k].mmr, Result(p, k))
        BY <3>1, <3>2, <3>3, RebuildingSteps
      <4> HIDE DEF new
      <4> QED BY <3>2, <4>1, <4>2, NewRowFacts DEF AfterMatch
    <3>4. CASE k \notin CountedFrom(p, m)
      <4>1. ~HasRow(p, k, new)
        BY <3>1, <3>4, RecalculatedFrom
      <4>2. f[k] = f[k - 1]
        BY <3>1, <3>2, <3>4, RebuildingSteps
      <4> HIDE DEF new
      <4> QED BY <4>1, <4>2 DEF AfterMatch
    <3> QED BY <3>3, <3>4
  <2> HIDE DEF new, f
  <2>4. \A k \in (m - 1)..LastMatch : StateAfter(p, new)[k] = f[k]
    BY <1>1, <2>1, <2>2, <2>3, StateAfterFollows
  <2>5. \A k \in (m - 1)..LastMatch : f[k] = Rebuilding(p, m)[k].state
    BY ConstantFacts DEF f
  <2> QED BY <2>4, <2>5
<1> QED BY <1>2, <1>3, <1>5

\* The ladder row that goes with the rebuilt history.
LEMMA RecalculatedLadder ==
    ASSUME TypeOK, RowsUnique(history), NEW p \in Players, NEW m \in Matches
    PROVE  LadderRow(p, m, Rebuilt(p, m).state)
             = (IF RowsOf(p, Recalculated(p, m)) = {} THEN NoRow
                ELSE StateAfter(p, Recalculated(p, m))[LastMatch])
<1>1. Rebuilt(p, m).state = StateAfter(p, Recalculated(p, m))[LastMatch]
  <2>1. LastMatch \in (m - 1)..LastMatch
    BY ConstantFacts
  <2> QED BY <2>1, RecalculatedStates DEF Rebuilt
<1>2. ASSUME RowsOf(p, Recalculated(p, m)) = {}
      PROVE  CountedFrom(p, m) = {} /\ ~\E r \in RowsOf(p, history) : r.match < m
  BY <1>2, RecalculatedRows, NewRowFacts DEF RowsOf
<1>3. ASSUME CountedFrom(p, m) = {}, ~\E r \in RowsOf(p, history) : r.match < m
      PROVE  RowsOf(p, Recalculated(p, m)) = {}
  BY <1>3, RecalculatedRows DEF RowsOf
<1> QED BY <1>1, <1>2, <1>3 DEF LadderRow

-----------------------------------------------------------------------------
(* Replaying the season *)

\* What the season replay goes through.
Seasons == [states : [Players -> States \cup {NoRow}], rows : SUBSET Rows]

\* A player's state in the middle of a replay.
StateIn(season, p) == IF season.states[p] = NoRow THEN EntryState ELSE season.states[p]

\* The state the replay gives a player of match m.
ReplayPriced(season, p, m) ==
    AdvanceState(StateIn(season, p),
                 NewMmr(StateIn(season, p).mmr, StateIn(season, Opponent(p, m)).mmr, Result(p, m)),
                 Result(p, m))

\* A player in the middle of a replay is in a state.
LEMMA StateInType ==
    ASSUME NEW season \in Seasons, NEW p \in Players
    PROVE  StateIn(season, p) \in States
BY EntryStateType DEF StateIn, Seasons

\* The price of a match in a replay leads to a state.
LEMMA ReplayPricedType ==
    ASSUME TypeOK, NEW season \in Seasons, NEW m \in Matches, NEW p \in PlayersOf(m)
    PROVE  /\ ReplayPriced(season, p, m) \in States
           /\ ReplayPriced(season, p, m)
                = AdvanceState(StateIn(season, p), ReplayPriced(season, p, m).mmr, Result(p, m))
<1>1. p \in Players /\ Opponent(p, m) \in Players
  BY PlayersOfFacts
<1>2. StateIn(season, p) \in States /\ StateIn(season, Opponent(p, m)) \in States
  BY <1>1, StateInType
<1>3. NewMmr(StateIn(season, p).mmr, StateIn(season, Opponent(p, m)).mmr, Result(p, m)) \in Ratings
  BY <1>2, NewMmrType, ResultType DEF States
<1> QED BY <1>2, <1>3, AdvanceStateType, ResultType DEF ReplayPriced

\* One match of a replay.
LEMMA ReplayMatchFacts ==
    ASSUME TypeOK, NEW v \in 0..MaxAmendments, NEW m \in Matches, NEW acc \in Seasons
    PROVE  /\ ReplayMatch(acc, m, v) \in Seasons
           /\ \A p \in Players :
                 ReplayMatch(acc, m, v).states[p]
                   = IF p \in PlayersOf(m) THEN ReplayPriced(acc, p, m) ELSE acc.states[p]
           /\ ReplayMatch(acc, m, v).rows
                = acc.rows \cup
                    {RowOf(p, m, StateIn(acc, p), ReplayPriced(acc, p, m), v) : p \in PlayersOf(m)}
<1> DEFINE states == [p \in Players |-> IF p \in PlayersOf(m) THEN ReplayPriced(acc, p, m)
                                        ELSE acc.states[p]]
           rows == {RowOf(p, m, StateIn(acc, p), ReplayPriced(acc, p, m), v) : p \in PlayersOf(m)}
<1>1. ReplayMatch(acc, m, v) = [states |-> states, rows |-> acc.rows \cup rows]
  BY DEF ReplayMatch, StateIn, ReplayPriced
<1>2. acc.states \in [Players -> States \cup {NoRow}] /\ acc.rows \in SUBSET Rows
  BY DEF Seasons
<1>3. states \in [Players -> States \cup {NoRow}]
  BY <1>2, ReplayPricedType
<1>4. \A p \in PlayersOf(m) : RowOf(p, m, StateIn(acc, p), ReplayPriced(acc, p, m), v) \in Rows
  BY PlayersOfFacts, StateInType, ReplayPricedType, RowOfType
<1>5. rows \in SUBSET Rows
  BY <1>4
<1>6. \A p \in Players :
         states[p] = IF p \in PlayersOf(m) THEN ReplayPriced(acc, p, m) ELSE acc.states[p]
  OBVIOUS
<1> HIDE DEF states, rows
<1>7. [states |-> states, rows |-> acc.rows \cup rows] \in Seasons
  BY <1>2, <1>3, <1>5 DEF Seasons
<1>8. /\ ReplayMatch(acc, m, v).states = states
      /\ ReplayMatch(acc, m, v).rows = acc.rows \cup rows
  BY <1>1
<1> QED BY <1>1, <1>6, <1>7, <1>8 DEF rows

\* Where the replay starts.
NoSeason == [states |-> [p \in Players |-> NoRow], rows |-> {}]

\* The replay starts with nobody on the ladder and no row.
LEMMA NoSeasonFacts ==
    /\ NoSeason \in Seasons
    /\ \A p \in Players : NoSeason.states[p] = NoRow
    /\ NoSeason.rows = {}
BY DEF NoSeason, Seasons

\* A replay, match by match.
LEMMA ReplayingFacts ==
    ASSUME TypeOK, NEW v \in 0..MaxAmendments
    PROVE  /\ Replaying(v) \in [0..LastMatch -> Seasons]
           /\ Replaying(v)[0] = NoSeason
           /\ \A m \in Matches :
                 Replaying(v)[m] =
                     IF status[m] = "finalized" THEN ReplayMatch(Replaying(v)[m - 1], m, v)
                     ELSE Replaying(v)[m - 1]
<1> DEFINE Eqn(f) == f = [m \in 0..LastMatch |->
                        IF m = 0 THEN NoSeason
                        ELSE IF status[m] = "finalized" THEN ReplayMatch(f[m - 1], m, v)
                             ELSE f[m - 1]]
           After(acc, m) == IF status[m] = "finalized" THEN ReplayMatch(acc, m, v) ELSE acc
           step == [x \in Seasons \X (1..LastMatch) |-> After(x[1], x[2])]
<1>1. ASSUME NEW acc \in Seasons, NEW m \in 1..LastMatch
      PROVE  After(acc, m) \in Seasons
  BY ReplayMatchFacts DEF Matches
<1>2. step \in [Seasons \X (1..LastMatch) -> Seasons]
  BY <1>1
<1>3. \A acc \in Seasons, m \in 1..LastMatch : step[<<acc, m>>] = After(acc, m)
  OBVIOUS
<1> HIDE DEF step
<1>4. PICK h : BuiltBy(h, LastMatch, Seasons, NoSeason, step)
  <2>1. LastMatch \in Nat /\ NoSeason \in Seasons
    BY ConstantFacts, NoSeasonFacts
  <2> QED BY <1>2, <2>1, RecursiveFunction, Zenon
<1>5. Eqn(h)
  <2>1. ASSUME NEW m \in 0..LastMatch
        PROVE  h[m] = IF m = 0 THEN NoSeason ELSE After(h[m - 1], m)
    <3>1. CASE m = 0
      BY <1>4, <3>1 DEF BuiltBy
    <3>2. CASE m # 0
      <4>1. m \in 1..LastMatch /\ m - 1 \in 0..LastMatch
        BY <3>2, ConstantFacts
      <4>2. h[m] = step[<<h[m - 1], m>>] /\ h[m - 1] \in Seasons
        BY <1>4, <4>1 DEF BuiltBy
      <4>3. h[m] = After(h[m - 1], m)
        BY <1>3, <4>1, <4>2
      <4> QED BY <3>2, <4>3
    <3> QED BY <3>1, <3>2
  <2> QED BY <1>4, <2>1 DEF BuiltBy
<1>6. Replaying(v) = CHOOSE f : Eqn(f)
  BY DEF Replaying, NoSeason
<1> HIDE DEF Eqn, After
<1>7. Eqn(Replaying(v))
  BY <1>5, <1>6
<1> DEFINE f == Replaying(v)
<1> HIDE DEF f
<1>8. Eqn(f)
  BY <1>7 DEF f
<1>9. DOMAIN f = 0..LastMatch /\ f[0] = NoSeason
  BY <1>8, ConstantFacts DEF Eqn
<1>10. \A m \in Matches : f[m] = After(f[m - 1], m)
  BY <1>8, ConstantFacts DEF Eqn, After, Matches
<1> DEFINE S == {m \in 0..LastMatch : f[m] \in Seasons}
<1>11. 0 \in S
  BY <1>9, NoSeasonFacts, ConstantFacts
<1>12. ASSUME NEW n \in 0..(LastMatch - 1), n \in S PROVE n + 1 \in S
  <2>1. n + 1 \in 1..LastMatch /\ n + 1 - 1 = n
    BY ConstantFacts
  <2>2. f[n + 1] = After(f[n], n + 1)
    BY <1>10, <2>1 DEF Matches
  <2> QED BY <1>1, <1>12, <2>1, <2>2
<1> HIDE DEF S
<1>13. \A m \in 0..LastMatch : m \in S
  BY <1>11, <1>12, ConstantFacts, UpToInduction
<1>14. f \in [0..LastMatch -> Seasons]
  <2>1. f = [m \in 0..LastMatch |-> f[m]]
    BY <1>8 DEF Eqn
  <2> QED BY <1>13, <2>1 DEF S
<1> QED BY <1>9, <1>10, <1>14 DEF f, After

\* The row the replay writes for a player of match m.
ReplayedRow(v, p, m) ==
    RowOf(p, m, StateIn(Replaying(v)[m - 1], p), Replaying(v)[m].states[p], v)

\* What a replayed row says.
LEMMA ReplayedRowFacts ==
    ASSUME NEW v, NEW p, NEW m
    PROVE  /\ ReplayedRow(v, p, m).player = p
           /\ ReplayedRow(v, p, m).match = m
           /\ ReplayedRow(v, p, m).before = StateIn(Replaying(v)[m - 1], p).mmr
           /\ ReplayedRow(v, p, m).after = Replaying(v)[m].states[p].mmr
           /\ ReplayedRow(v, p, m).result = Result(p, m)
           /\ ReplayedRow(v, p, m).rules = v
BY DEF ReplayedRow, RowOf

\* A finalized match writes the rows of its players and advances them; another does nothing.
LEMMA ReplayingSteps ==
    ASSUME TypeOK, NEW v \in 0..MaxAmendments, NEW m \in Matches
    PROVE  /\ Replaying(v)[m - 1] \in Seasons
           /\ Replaying(v)[m] \in Seasons
           /\ status[m] # "finalized" => Replaying(v)[m] = Replaying(v)[m - 1]
           /\ \A p \in Players : p \notin PlayersOf(m) =>
                 Replaying(v)[m].states[p] = Replaying(v)[m - 1].states[p]
           /\ status[m] = "finalized" =>
                /\ Replaying(v)[m].rows = Replaying(v)[m - 1].rows
                                            \cup {ReplayedRow(v, p, m) : p \in PlayersOf(m)}
                /\ \A p \in PlayersOf(m) :
                     /\ Replaying(v)[m].states[p] \in States
                     /\ Replaying(v)[m].states[p]
                          = AdvanceState(StateIn(Replaying(v)[m - 1], p),
                                         Replaying(v)[m].states[p].mmr, Result(p, m))
<1> DEFINE f == Replaying(v)
<1> HIDE DEF f
<1>1. f \in [0..LastMatch -> Seasons]
  BY ReplayingFacts DEF f
<1>2. m - 1 \in 0..LastMatch /\ m \in 0..LastMatch
  BY ConstantFacts DEF Matches
<1>3. f[m - 1] \in Seasons /\ f[m] \in Seasons
  BY <1>1, <1>2
<1>4. f[m] = IF status[m] = "finalized" THEN ReplayMatch(f[m - 1], m, v) ELSE f[m - 1]
  BY ReplayingFacts DEF f
<1>5. ASSUME status[m] = "finalized"
      PROVE  /\ f[m].rows = f[m - 1].rows
                   \cup {RowOf(p, m, StateIn(f[m - 1], p), f[m].states[p], v) : p \in PlayersOf(m)}
             /\ \A p \in PlayersOf(m) :
                  /\ f[m].states[p] \in States
                  /\ f[m].states[p]
                       = AdvanceState(StateIn(f[m - 1], p), f[m].states[p].mmr, Result(p, m))
             /\ \A p \in Players : p \notin PlayersOf(m) => f[m].states[p] = f[m - 1].states[p]
  <2>1. f[m] = ReplayMatch(f[m - 1], m, v)
    BY <1>4, <1>5
  <2>2. \A p \in PlayersOf(m) : f[m].states[p] = ReplayPriced(f[m - 1], p, m)
    BY <1>3, <2>1, ReplayMatchFacts, PlayersOfFacts
  <2>3. \A p \in Players : p \notin PlayersOf(m) => f[m].states[p] = f[m - 1].states[p]
    BY <1>3, <2>1, ReplayMatchFacts
  <2>4. f[m].rows = f[m - 1].rows
                \cup {RowOf(p, m, StateIn(f[m - 1], p), ReplayPriced(f[m - 1], p, m), v) :
                        p \in PlayersOf(m)}
    BY <1>3, <2>1, ReplayMatchFacts
  <2>5. f[m].rows = f[m - 1].rows
                \cup {RowOf(p, m, StateIn(f[m - 1], p), f[m].states[p], v) : p \in PlayersOf(m)}
    BY <2>2, <2>4
  <2>6. \A p \in PlayersOf(m) :
            /\ f[m].states[p] \in States
            /\ f[m].states[p] = AdvanceState(StateIn(f[m - 1], p), f[m].states[p].mmr, Result(p, m))
    BY <1>3, <2>2, ReplayPricedType
  <2> QED BY <2>3, <2>5, <2>6
<1>6. status[m] # "finalized" => f[m] = f[m - 1]
  BY <1>4
<1> QED BY <1>3, <1>5, <1>6 DEF f, ReplayedRow

\* After match n of the replay: the rows written, and who is on the ladder.
ReplayedUpTo(v, n) ==
    /\ \A r \in Replaying(v)[n].rows :
          \E k \in Matches : k <= n /\ status[k] = "finalized"
                               /\ \E p \in PlayersOf(k) : r = ReplayedRow(v, p, k)
    /\ \A k \in Matches : k <= n /\ status[k] = "finalized" =>
          \A p \in PlayersOf(k) : /\ ReplayedRow(v, p, k) \in Replaying(v)[n].rows
                                  /\ Replaying(v)[n].states[p] # NoRow
    /\ \A p \in Players : Replaying(v)[n].states[p] # NoRow =>
          \E k \in Matches : k <= n /\ status[k] = "finalized" /\ p \in PlayersOf(k)

\* After every match of the replay, its rows are those of the finalized matches so far.
LEMMA ReplayedSoFar ==
    ASSUME TypeOK, NEW v \in 0..MaxAmendments, NEW n \in 0..LastMatch
    PROVE  ReplayedUpTo(v, n)
<1> DEFINE S == {i \in 0..LastMatch : ReplayedUpTo(v, i)}
<1>1. 0 \in S
  <2>1. \A k \in Matches : ~(k <= 0)
    BY ConstantFacts
  <2>2. Replaying(v)[0] = NoSeason
    BY ReplayingFacts
  <2> QED BY <2>1, <2>2, NoSeasonFacts, ConstantFacts DEF ReplayedUpTo
<1>2. ASSUME NEW i \in 0..(LastMatch - 1), i \in S PROVE i + 1 \in S
  <2> DEFINE m == i + 1
             f == Replaying(v)
  <2>1. m \in Matches /\ m - 1 = i /\ m \in 0..LastMatch
    BY ConstantFacts DEF Matches
  <2>2. \A k \in Matches : (k <= m <=> k <= i \/ k = m)
    BY ConstantFacts
  <2>3. ReplayedUpTo(v, i)
    BY <1>2
  <2> HIDE DEF m
  <2>4. CASE status[m] # "finalized"
    <3>1. f[m] = f[i]
      BY <2>1, <2>4, ReplayingSteps
    <3>2. \A k \in Matches : k <= m /\ status[k] = "finalized"
                               <=> k <= i /\ status[k] = "finalized"
      BY <2>2, <2>4
    <3>3. ReplayedUpTo(v, m)
      BY <2>3, <3>1, <3>2 DEF ReplayedUpTo
    <3> QED BY <2>1, <3>3 DEF m
  <2>5. CASE status[m] = "finalized"
    <3>1. /\ f[m].rows = f[i].rows \cup {ReplayedRow(v, p, m) : p \in PlayersOf(m)}
          /\ \A p \in PlayersOf(m) : f[m].states[p] \in States
          /\ \A p \in Players : p \notin PlayersOf(m) => f[m].states[p] = f[i].states[p]
      BY <2>1, <2>5, ReplayingSteps
    <3> HIDE DEF f
    <3>2. \A p \in PlayersOf(m) : f[m].states[p] # NoRow
      BY <3>1, NoRowFacts
    <3>3. ASSUME NEW r \in f[m].rows
          PROVE  \E k \in Matches : k <= m /\ status[k] = "finalized"
                                      /\ \E p \in PlayersOf(k) : r = ReplayedRow(v, p, k)
      BY <2>1, <2>2, <2>3, <2>5, <3>1, <3>3 DEF ReplayedUpTo, f
    <3>4. ASSUME NEW k \in Matches, k <= m, status[k] = "finalized", NEW p \in PlayersOf(k)
          PROVE  ReplayedRow(v, p, k) \in f[m].rows /\ f[m].states[p] # NoRow
      <4>1. p \in Players
        BY PlayersOfFacts
      <4>2. CASE k = m
        BY <3>1, <3>2, <4>2
      <4>3. CASE k <= i
        BY <2>3, <3>1, <3>2, <3>4, <4>1, <4>3 DEF ReplayedUpTo, f
      <4> QED BY <2>2, <3>4, <4>2, <4>3
    <3>5. ASSUME NEW p \in Players, f[m].states[p] # NoRow
          PROVE  \E k \in Matches : k <= m /\ status[k] = "finalized" /\ p \in PlayersOf(k)
      <4>1. CASE p \in PlayersOf(m)
        BY <2>1, <2>2, <2>5, <4>1
      <4>2. CASE p \notin PlayersOf(m)
        BY <2>2, <2>3, <3>1, <3>5, <4>2 DEF ReplayedUpTo, f
      <4> QED BY <4>1, <4>2
    <3>6. ReplayedUpTo(v, m)
      BY <3>3, <3>4, <3>5 DEF ReplayedUpTo, f
    <3> QED BY <2>1, <3>6 DEF m
  <2> QED BY <2>4, <2>5
<1> HIDE DEF S
<1>3. n \in S
  BY <1>1, <1>2, ConstantFacts, UpToInduction
<1> QED BY <1>3 DEF S

\* The replayed season has one row per player of each finalized match.
LEMMA ReplayedSeasonFacts ==
    ASSUME TypeOK, NEW v \in 0..MaxAmendments
    PROVE  /\ ReplayedSeason(v) \in Seasons
           /\ RowsUnique(ReplayedSeason(v).rows)
           /\ \A p \in Players, k \in Matches :
                 /\ HasRow(p, k, ReplayedSeason(v).rows)
                      <=> status[k] = "finalized" /\ p \in PlayersOf(k)
                 /\ HasRow(p, k, ReplayedSeason(v).rows) =>
                      RowAt(p, k, ReplayedSeason(v).rows) = ReplayedRow(v, p, k)
<1> DEFINE rows == ReplayedSeason(v).rows
<1>1. LastMatch \in 0..LastMatch /\ \A k \in Matches : k <= LastMatch
  BY ConstantFacts
<1>2. ReplayedSeason(v) \in Seasons
  BY <1>1, ReplayingFacts DEF ReplayedSeason
<1>3. ReplayedUpTo(v, LastMatch)
  BY <1>1, ReplayedSoFar
<1>4. \A r \in rows : \E k \in Matches : status[k] = "finalized"
                               /\ \E p \in PlayersOf(k) : r = ReplayedRow(v, p, k)
  BY <1>3 DEF ReplayedUpTo, ReplayedSeason
<1>5. \A k \in Matches : status[k] = "finalized" =>
          \A p \in PlayersOf(k) : ReplayedRow(v, p, k) \in rows
  BY <1>1, <1>3 DEF ReplayedUpTo, ReplayedSeason
<1> HIDE DEF rows
<1>6. \A r \in rows : /\ r = ReplayedRow(v, r.player, r.match)
                      /\ r.match \in Matches
                      /\ status[r.match] = "finalized" /\ r.player \in PlayersOf(r.match)
  BY <1>4, ReplayedRowFacts
<1>7. RowsUnique(rows)
  BY <1>6 DEF RowsUnique
<1>8. ASSUME NEW p \in Players, NEW k \in Matches
      PROVE  /\ HasRow(p, k, rows) <=> status[k] = "finalized" /\ p \in PlayersOf(k)
             /\ HasRow(p, k, rows) => RowAt(p, k, rows) = ReplayedRow(v, p, k)
  <2>1. ASSUME HasRow(p, k, rows)
        PROVE  status[k] = "finalized" /\ p \in PlayersOf(k)
                 /\ RowAt(p, k, rows) = ReplayedRow(v, p, k)
    BY <1>6, <2>1, RowAtFacts
  <2>2. ASSUME status[k] = "finalized", p \in PlayersOf(k) PROVE HasRow(p, k, rows)
    BY <1>5, <2>2, ReplayedRowFacts DEF HasRow, RowsOf
  <2> QED BY <2>1, <2>2
<1> QED BY <1>2, <1>7, <1>8 DEF rows

\* The replayed rows say of each player what the replay computed, step by step.
LEMMA ReplayedStates ==
    ASSUME TypeOK, NEW v \in 0..MaxAmendments, NEW p \in Players
    PROVE  /\ \A k \in 0..LastMatch :
                 StateAfter(p, ReplayedSeason(v).rows)[k] = StateIn(Replaying(v)[k], p)
           /\ ReplayedSeason(v).states[p]
                = (IF RowsOf(p, ReplayedSeason(v).rows) = {} THEN NoRow
                   ELSE StateAfter(p, ReplayedSeason(v).rows)[LastMatch])
<1> DEFINE rows == ReplayedSeason(v).rows
           f == [k \in 0..LastMatch |-> StateIn(Replaying(v)[k], p)]
<1>1. \A r \in rows : r \in Rows
  BY ReplayedSeasonFacts DEF Seasons
<1>2. 0 \in 0..LastMatch /\ LastMatch \in 0..LastMatch
  BY ConstantFacts
<1>3. f[0] = StateAfter(p, rows)[0]
  <2>1. Replaying(v)[0] = NoSeason
    BY ReplayingFacts
  <2>2. StateAfter(p, rows)[0] = EntryState
    BY <1>1, StateAfterFacts
  <2> QED BY <1>2, <2>1, <2>2, NoSeasonFacts DEF StateIn
<1>4. ASSUME NEW k \in (0 + 1)..LastMatch
      PROVE  f[k] = AfterMatch(p, rows, f[k - 1], k)
  <2>1. k \in Matches /\ k \in 0..LastMatch /\ k - 1 \in 0..LastMatch
    BY ConstantFacts DEF Matches
  <2>2. f[k] = StateIn(Replaying(v)[k], p) /\ f[k - 1] = StateIn(Replaying(v)[k - 1], p)
    BY <2>1
  <2> HIDE DEF f
  <2>3. CASE status[k] = "finalized" /\ p \in PlayersOf(k)
    <3>1. HasRow(p, k, rows) /\ RowAt(p, k, rows) = ReplayedRow(v, p, k)
      BY <2>1, <2>3, ReplayedSeasonFacts
    <3>2. /\ Replaying(v)[k].states[p] \in States
          /\ Replaying(v)[k].states[p]
               = AdvanceState(StateIn(Replaying(v)[k - 1], p), Replaying(v)[k].states[p].mmr,
                              Result(p, k))
      BY <2>1, <2>3, ReplayingSteps
    <3>3. f[k] = Replaying(v)[k].states[p]
      BY <2>2, <3>2, NoRowFacts DEF StateIn
    <3>4. RowAt(p, k, rows).after = Replaying(v)[k].states[p].mmr /\ RowAt(p, k, rows).result = Result(p, k)
      BY <3>1, ReplayedRowFacts
    <3> HIDE DEF rows
    <3> QED BY <2>2, <3>1, <3>2, <3>3, <3>4 DEF AfterMatch
  <2>4. CASE ~(status[k] = "finalized" /\ p \in PlayersOf(k))
    <3>1. ~HasRow(p, k, rows)
      BY <2>1, <2>4, ReplayedSeasonFacts
    <3>2. Replaying(v)[k].states[p] = Replaying(v)[k - 1].states[p]
      BY <2>1, <2>4, ReplayingSteps
    <3> HIDE DEF rows
    <3> QED BY <2>2, <3>1, <3>2 DEF AfterMatch, StateIn
  <2> QED BY <2>3, <2>4
<1> HIDE DEF f
<1>5. \A k \in 0..LastMatch : StateAfter(p, rows)[k] = f[k]
  <2> HIDE DEF rows
  <2> QED BY <1>1, <1>2, <1>3, <1>4, StateAfterFollows
<1>6. \A k \in 0..LastMatch : StateAfter(p, rows)[k] = StateIn(Replaying(v)[k], p)
  BY <1>5 DEF f
<1>7. RowsOf(p, rows) = {} <=> ReplayedSeason(v).states[p] = NoRow
  <2>1. ReplayedUpTo(v, LastMatch)
    BY <1>2, ReplayedSoFar
  <2>2. ASSUME NEW k \in Matches, status[k] = "finalized", p \in PlayersOf(k)
        PROVE  RowsOf(p, rows) # {} /\ ReplayedSeason(v).states[p] # NoRow
    <3>1. /\ ReplayedRow(v, p, k) \in rows
          /\ ReplayedSeason(v).states[p] # NoRow
      BY <2>1, <2>2, ConstantFacts DEF ReplayedUpTo, ReplayedSeason
    <3> QED BY <3>1, ReplayedRowFacts DEF RowsOf
  <2>3. ASSUME ReplayedSeason(v).states[p] # NoRow
        PROVE  \E k \in Matches : status[k] = "finalized" /\ p \in PlayersOf(k)
    BY <2>1, <2>3 DEF ReplayedUpTo, ReplayedSeason
  <2>4. ASSUME NEW r \in RowsOf(p, rows)
        PROVE  \E k \in Matches : status[k] = "finalized" /\ p \in PlayersOf(k)
    <3>1. r \in rows /\ r.player = p
      BY DEF RowsOf
    <3>2. PICK k \in Matches : status[k] = "finalized" /\ \E q \in PlayersOf(k) : r = ReplayedRow(v, q, k)
      BY <2>1, <3>1 DEF ReplayedUpTo, ReplayedSeason
    <3> QED BY <3>1, <3>2, ReplayedRowFacts
  <2> QED BY <2>2, <2>3, <2>4
<1>8. StateIn(ReplayedSeason(v), p) = StateAfter(p, rows)[LastMatch]
  BY <1>2, <1>6 DEF ReplayedSeason
<1> QED BY <1>6, <1>7, <1>8 DEF StateIn

-----------------------------------------------------------------------------
(* The queue *)

\* The members of a sequence.
LEMMA ToSetOfSeq ==
    ASSUME NEW T, NEW s \in Seq(T)
    PROVE  ToSet(s) = {s[i] : i \in 1..Len(s)}
<1>1. DOMAIN s = 1..Len(s)
  BY LenProperties
<1> QED BY <1>1 DEF ToSet

\* The members of a concatenation.
LEMMA ToSetOfConcat ==
    ASSUME NEW T, NEW s \in Seq(T), NEW t \in Seq(T)
    PROVE  s \o t \in Seq(T) /\ ToSet(s \o t) = ToSet(s) \cup ToSet(t)
<1> DEFINE u == s \o t
<1>1. /\ u \in Seq(T) /\ Len(u) = Len(s) + Len(t)
      /\ \A i \in 1..(Len(s) + Len(t)) : u[i] = IF i <= Len(s) THEN s[i] ELSE t[i - Len(s)]
      /\ Len(s) \in Nat /\ Len(t) \in Nat
  BY ConcatProperties, LenProperties
<1> HIDE DEF u
<1>2. ASSUME NEW i \in 1..Len(u) PROVE u[i] \in ToSet(s) \cup ToSet(t)
  <2>1. ToSet(s) = {s[k] : k \in 1..Len(s)} /\ ToSet(t) = {t[k] : k \in 1..Len(t)}
    BY ToSetOfSeq
  <2> QED BY <1>1, <2>1
<1>3. ASSUME NEW i \in 1..Len(s) PROVE s[i] \in ToSet(u)
  <2>1. ToSet(u) = {u[k] : k \in 1..Len(u)}
    BY <1>1, ToSetOfSeq
  <2>2. i \in 1..Len(u) /\ u[i] = s[i]
    BY <1>1
  <2> QED BY <2>1, <2>2
<1>4. ASSUME NEW i \in 1..Len(t) PROVE t[i] \in ToSet(u)
  <2>1. ToSet(u) = {u[k] : k \in 1..Len(u)}
    BY <1>1, ToSetOfSeq
  <2>2. /\ Len(s) + i \in 1..Len(u) /\ Len(s) + i \in 1..(Len(s) + Len(t))
        /\ ~(Len(s) + i <= Len(s)) /\ (Len(s) + i) - Len(s) = i
    BY <1>1
  <2>3. u[Len(s) + i] = t[i]
    BY <1>1, <2>2
  <2> QED BY <2>1, <2>2, <2>3
<1>5. /\ ToSet(s) = {s[k] : k \in 1..Len(s)} /\ ToSet(t) = {t[k] : k \in 1..Len(t)}
      /\ ToSet(u) = {u[k] : k \in 1..Len(u)}
  BY <1>1, ToSetOfSeq
<1> QED BY <1>1, <1>2, <1>3, <1>4, <1>5 DEF u

\* The member of a sequence of one.
LEMMA ToSetOfOne ==
    ASSUME NEW T, NEW e \in T
    PROVE  <<e>> \in Seq(T) /\ ToSet(<<e>>) = {e}
<1>1. <<e>> \in Seq(T) /\ Len(<<e>>) = 1 /\ <<e>>[1] = e
  OBVIOUS
<1>2. ToSet(<<e>>) = {<<e>>[i] : i \in 1..1}
  BY <1>1, ToSetOfSeq
<1> QED BY <1>1, <1>2

\* The members of a subsequence.
LEMMA ToSetOfSubSeq ==
    ASSUME NEW T, NEW s \in Seq(T), NEW m \in 1..(Len(s) + 1), NEW n \in 0..Len(s)
    PROVE  SubSeq(s, m, n) \in Seq(T) /\ ToSet(SubSeq(s, m, n)) = {s[i] : i \in m..n}
<1> DEFINE u == SubSeq(s, m, n)
<1>1. /\ u \in Seq(T) /\ Len(u) = (IF m <= n THEN n - m + 1 ELSE 0)
      /\ \A i \in 1..(n - m + 1) : u[i] = s[m + i - 1]
  <2>1. Len(s) \in Nat /\ \A i \in 1..Len(s) : s[i] \in T
    BY LenProperties, ElementOfSeq
  <2>2. m \in Int /\ n \in Int /\ \A i \in m..n : s[i] \in T
    BY <2>1
  <2> QED BY <2>2, SubSeqProperties
<1> HIDE DEF u
<1>2. ToSet(u) = {u[i] : i \in 1..Len(u)}
  BY <1>1, ToSetOfSeq
<1>3. m \in Int /\ n \in Int
  BY LenProperties
<1>4. ASSUME NEW i \in m..n PROVE s[i] \in ToSet(u)
  <2>1. i - m + 1 \in 1..Len(u) /\ u[i - m + 1] = s[i]
    BY <1>1, <1>3
  <2> QED BY <1>2, <2>1
<1>5. ASSUME NEW i \in 1..Len(u) PROVE \E k \in m..n : u[i] = s[k]
  <2>1. m + i - 1 \in m..n /\ u[i] = s[m + i - 1]
    BY <1>1, <1>3
  <2> QED BY <2>1
<1>6. ToSet(u) = {s[i] : i \in m..n}
  BY <1>2, <1>4, <1>5
<1> QED BY <1>1, <1>6 DEF u

\* The replay is the one job without a match; no job at all is not a job.
LEMMA JobsFacts ==
    /\ Replay \in Jobs
    /\ Replay # NoJob
    /\ NoJob \notin Jobs
    /\ \A j \in Jobs : j # Replay => j.match \in Matches /\ j.kind \in {"finalize", "cancel", "correct"}
    /\ \A j \in Jobs : j.kind = "replay" <=> j = Replay
BY ConstantFacts DEF Jobs, Replay, NoJob, NoMatch

\* What a handler hands over is a job about its match.
LEMMA EffectFacts ==
    ASSUME NEW kind \in {"finalize", "cancel", "correct"}, NEW m \in Matches
    PROVE  /\ Effect(kind, m) \in Jobs /\ Effect(kind, m) # Replay
           /\ Effect(kind, m).kind = kind /\ Effect(kind, m).match = m
BY DEF Effect, Jobs, Replay

\* Enqueueing adds the job, wherever an earlier one of its key stood.
LEMMA QueuedFacts ==
    ASSUME TypeOK, NEW j \in Jobs
    PROVE  Queued(j) \in Seq(Jobs) /\ ToSet(Queued(j)) = ToSet(queue) \cup {j}
<1> DEFINE rest == RemoveFirst(queue, j)
<1>0. queue \in Seq(Jobs) /\ Len(queue) \in Nat
  BY LenProperties DEF TypeOK
<1>1. ToSet(queue) = {queue[i] : i \in 1..Len(queue)}
  BY <1>0, ToSetOfSeq
<1>2. rest \in Seq(Jobs) /\ ToSet(rest) \cup {j} = ToSet(queue) \cup {j}
  <2>1. CASE \E i \in 1..Len(queue) : queue[i] = j
    <3> DEFINE I == {i \in 1..Len(queue) : queue[i] = j}
               k == SelectInSeq(queue, LAMBDA v : v = j)
    <3>1. k = Min(I)
      BY <2>1 DEF SelectInSeq
    <3>2. PICK x \in I : \A y \in I : x <= y
      <4>1. I # {} /\ I \subseteq Nat
        BY <2>1
      <4> HIDE DEF I
      <4> QED BY <4>1, LeastNatural
    <3>3. Min(I) \in I
      BY <3>2 DEF Min
    <3>4. k \in 1..Len(queue) /\ queue[k] = j
      BY <3>1, <3>3
    <3> HIDE DEF k
    <3>5. rest = SubSeq(queue, 1, k - 1) \o SubSeq(queue, k + 1, Len(queue))
      BY <2>1 DEF RemoveFirst, RemoveAt, k
    <3>6. /\ 1 \in 1..(Len(queue) + 1) /\ k - 1 \in 0..Len(queue)
          /\ k + 1 \in 1..(Len(queue) + 1) /\ Len(queue) \in 0..Len(queue)
      BY <1>0, <3>4
    <3>7. /\ SubSeq(queue, 1, k - 1) \in Seq(Jobs)
          /\ ToSet(SubSeq(queue, 1, k - 1)) = {queue[i] : i \in 1..(k - 1)}
      BY <1>0, <3>6, ToSetOfSubSeq
    <3>8. /\ SubSeq(queue, k + 1, Len(queue)) \in Seq(Jobs)
          /\ ToSet(SubSeq(queue, k + 1, Len(queue))) = {queue[i] : i \in (k + 1)..Len(queue)}
      BY <1>0, <3>6, ToSetOfSubSeq
    <3> DEFINE a == SubSeq(queue, 1, k - 1)
               b == SubSeq(queue, k + 1, Len(queue))
    <3> HIDE DEF a, b
    <3>11. a \o b \in Seq(Jobs) /\ ToSet(a \o b) = ToSet(a) \cup ToSet(b)
      <4>1. a \in Seq(Jobs) /\ b \in Seq(Jobs)
        BY <3>7, <3>8 DEF a, b
      <4> QED BY <4>1, ToSetOfConcat, Zenon
    <3>12. rest = a \o b
      BY <3>5 DEF a, b
    <3>13. rest \in Seq(Jobs) /\ ToSet(rest) = {queue[i] : i \in 1..(k - 1)}
                                                \cup {queue[i] : i \in (k + 1)..Len(queue)}
      BY <3>7, <3>8, <3>11, <3>12 DEF a, b
    <3>10. 1..Len(queue) = (1..(k - 1)) \cup {k} \cup ((k + 1)..Len(queue))
      BY <1>0, <3>4
    <3> QED BY <1>1, <3>4, <3>10, <3>13
  <2>2. CASE ~\E i \in 1..Len(queue) : queue[i] = j
    BY <1>0, <2>2 DEF RemoveFirst
  <2> QED BY <2>1, <2>2
<1> HIDE DEF rest
<1>3. Queued(j) = rest \o <<j>>
  <2>1. Queued(j) = Append(rest, j)
    BY DEF Queued, rest
  <2> QED BY <1>2, <2>1
<1>4. <<j>> \in Seq(Jobs) /\ ToSet(<<j>>) = {j}
  BY ToSetOfOne, Zenon
<1>5. rest \o <<j>> \in Seq(Jobs) /\ ToSet(rest \o <<j>>) = ToSet(rest) \cup ToSet(<<j>>)
  <2>1. rest \in Seq(Jobs) /\ <<j>> \in Seq(Jobs)
    BY <1>2, <1>4
  <2> QED BY <2>1, ToSetOfConcat, Zenon
<1> QED BY <1>2, <1>3, <1>4, <1>5

\* A failed job comes back, wherever it comes in.
LEMMA RetriedFacts ==
    ASSUME TypeOK, NEW j \in Jobs, NEW q \in Retried(queue, j)
    PROVE  q \in Seq(Jobs) /\ ToSet(q) = ToSet(queue) \cup {j}
<1>0. queue \in Seq(Jobs) /\ Len(queue) \in Nat
  BY LenProperties DEF TypeOK
<1>1. CASE j \in ToSet(queue)
  BY <1>0, <1>1 DEF Retried
<1>2. CASE j \notin ToSet(queue)
  <2>1. PICK i \in 1..(Len(queue) + 1) : q = InsertAt(queue, i, j)
    BY <1>2 DEF Retried
  <2> DEFINE a == SubSeq(queue, 1, i - 1)
             b == SubSeq(queue, i, Len(queue))
  <2>2. q = (a \o <<j>>) \o b
    BY <2>1 DEF InsertAt
  <2>3. /\ 1 \in 1..(Len(queue) + 1) /\ i - 1 \in 0..Len(queue)
        /\ Len(queue) \in 0..Len(queue)
    BY <1>0
  <2>4. a \in Seq(Jobs) /\ ToSet(a) = {queue[n] : n \in 1..(i - 1)}
    BY <1>0, <2>3, ToSetOfSubSeq
  <2>5. b \in Seq(Jobs) /\ ToSet(b) = {queue[n] : n \in i..Len(queue)}
    BY <1>0, <2>3, ToSetOfSubSeq
  <2> HIDE DEF a, b
  <2>6. a \o <<j>> \in Seq(Jobs) /\ ToSet(a \o <<j>>) = ToSet(a) \cup {j}
    <3>1. <<j>> \in Seq(Jobs) /\ ToSet(<<j>>) = {j}
      BY ToSetOfOne, Zenon
    <3>2. a \o <<j>> \in Seq(Jobs) /\ ToSet(a \o <<j>>) = ToSet(a) \cup ToSet(<<j>>)
      BY <2>4, <3>1, ToSetOfConcat, Zenon
    <3> QED BY <3>1, <3>2
  <2>7. q \in Seq(Jobs) /\ ToSet(q) = ToSet(a) \cup {j} \cup ToSet(b)
    <3> DEFINE c == a \o <<j>>
    <3> HIDE DEF c
    <3>1. c \in Seq(Jobs) /\ ToSet(c) = ToSet(a) \cup {j} /\ q = c \o b
      BY <2>2, <2>6 DEF c
    <3>2. c \o b \in Seq(Jobs) /\ ToSet(c \o b) = ToSet(c) \cup ToSet(b)
      <4>1. c \in Seq(Jobs) /\ b \in Seq(Jobs)
        BY <2>5, <3>1
      <4> QED BY <4>1, ToSetOfConcat, Zenon
    <3> QED BY <3>1, <3>2
  <2>8. 1..Len(queue) = (1..(i - 1)) \cup (i..Len(queue))
    BY <1>0
  <2>9. ToSet(queue) = {queue[n] : n \in 1..Len(queue)}
    BY <1>0, ToSetOfSeq
  <2> QED BY <2>4, <2>5, <2>7, <2>8, <2>9
<1> QED BY <1>1, <1>2

\* The worker takes a job from the queue and leaves the others.
LEMMA HeadFacts ==
    ASSUME TypeOK, queue # <<>>
    PROVE  /\ Head(queue) \in Jobs /\ Tail(queue) \in Seq(Jobs)
           /\ ToSet(queue) = ToSet(Tail(queue)) \cup {Head(queue)}
<1>0. queue \in Seq(Jobs) /\ Len(queue) \in Nat \ {0}
  BY EmptySeq, LenProperties DEF TypeOK
<1>1. Head(queue) = queue[1] /\ Head(queue) \in Jobs
  BY <1>0
<1>2. Tail(queue) = SubSeq(queue, 2, Len(queue))
  BY <1>0, TailIsSubSeq
<1>3. 2 \in 1..(Len(queue) + 1) /\ Len(queue) \in 0..Len(queue)
  BY <1>0
<1>4. Tail(queue) \in Seq(Jobs) /\ ToSet(Tail(queue)) = {queue[i] : i \in 2..Len(queue)}
  <2>1. /\ SubSeq(queue, 2, Len(queue)) \in Seq(Jobs)
        /\ ToSet(SubSeq(queue, 2, Len(queue))) = {queue[i] : i \in 2..Len(queue)}
    BY <1>0, <1>3, ToSetOfSubSeq
  <2> QED BY <1>2, <2>1
<1>5. 1..Len(queue) = {1} \cup (2..Len(queue))
  BY <1>0
<1>6. ToSet(queue) = {queue[i] : i \in 1..Len(queue)}
  BY <1>0, ToSetOfSeq
<1> QED BY <1>1, <1>4, <1>5, <1>6

-----------------------------------------------------------------------------
(* The inductive invariant *)

\* Jobs queued, or to be enqueued by a handler that has committed.
Waiting == effects \cup ToSet(queue)
\* The worker is in the middle of a recalculation.
Working == job \notin {NoJob, Replay}

\* Nothing short of a replay of the season makes up for what happened, or it is on its way.
SeasonDue == lost \/ damaged \/ Replay \in Waiting \cup {job}

\* The player's rows are still to be rebuilt from match k on, or from an earlier one.
Due(p, k) ==
    \/ SeasonDue
    \/ \E j \in Waiting \ {Replay} : j.match <= k /\ p \in JobPlayers(j)
    \/ Working /\ job.match <= k /\ p \in todo \cap PlayersOf(job.match)

\* The row of the player for match k is there exactly if the match counts, and says what the
\* match and the row before it say.
RowRight(p, k) ==
    /\ HasRow(p, k, history) <=> status[k] = "finalized" /\ p \in PlayersOf(k)
    /\ HasRow(p, k, history) =>
         /\ RowAt(p, k, history).result = Result(p, k)
         /\ RowAt(p, k, history).rules = ruleset
         /\ RowAt(p, k, history).before = StateAfter(p, history)[k - 1].mmr

\* The ladder says what the last row says.
LadderRight(p) ==
    ladder[p] = (IF RowsOf(p, history) = {} THEN NoRow ELSE StateAfter(p, history)[LastMatch])

\* Rows are of the players of their match.
RowsOfPlayers == \A r \in history : r.player \in PlayersOf(r.match)
\* The heart of the invariant: what is wrong in the history or on the ladder is due.
RowsRight == \A p \in Players, k \in Matches : Due(p, k) \/ RowRight(p, k)
LaddersRight == \A p \in Players : Due(p, LastMatch) \/ LadderRight(p)

\* While a job has players of its match to rebuild, running it again would rebuild them, or
\* the cancellation that overtook it will.
JobStillDue ==
    Working /\ todo \cap PlayersOf(job.match) # {} =>
        \/ lost \/ damaged
        \/ /\ status[job.match] # "deleted"
           /\ \/ job.kind = "correct" => status[job.match] = "finalized"
              \/ Effect("cancel", job.match) \in Waiting

\* The later waves leave the players of the match alone.
WavesAreOfOthers ==
    Working => PlayersOf(job.match) \subseteq processed \/ (todo = {} /\ DOMAIN before = {})

\* A running replay reads the ruleset as it stands, or another replay will.
ReplayIsPriced == job = Replay => prices = ruleset \/ lost \/ Replay \in Waiting

\* The inductive invariant.
IInv ==
    /\ TypeOK
    /\ ruleset <= amendments
    /\ RowsUnique(history)
    /\ RowsOfPlayers
    /\ RowsRight
    /\ LaddersRight
    /\ JobStillDue
    /\ WavesAreOfOthers
    /\ ReplayIsPriced
    /\ ~Working => todo = {}

\* A step that does not touch what a row of (p, k) rests on.
RowUntouched(p, k) ==
    /\ \A j \in 1..k : SameRows(p, j, history', history)
    /\ ruleset' = ruleset
    /\ p \in PlayersOf(k) => /\ status'[k] = "finalized" <=> status[k] = "finalized"
                             /\ status'[k] = "finalized" => winner'[k] = winner[k]

\* A step that does not touch what the ladder row of p rests on.
LadderUntouched(p) ==
    /\ \A j \in Matches : SameRows(p, j, history', history)
    /\ ladder'[p] = ladder[p]

\* A row that was right stays right if a step does not touch what it rests on.
LEMMA RowRightKept ==
    ASSUME IInv, TypeOK', NEW p \in Players, NEW k \in Matches, RowRight(p, k), RowUntouched(p, k)
    PROVE  RowRight(p, k)'
<1>0. k - 1 \in 0..LastMatch /\ k \in 1..k /\ \A j \in 1..(k - 1) : j \in 1..k
  BY ConstantFacts
<1>1. SameRows(p, k, history', history)
  BY <1>0 DEF RowUntouched
<1>2. (\A r \in history : r \in Rows) /\ (\A r \in history' : r \in Rows)
  BY DEF IInv, TypeOK
<1>3. StateAfter(p, history')[k - 1] = StateAfter(p, history)[k - 1]
  <2>1. \A j \in 1..(k - 1) : SameRows(p, j, history', history)
    BY <1>0 DEF RowUntouched
  <2>2. k - 1 \in 0..(k - 1)
    BY ConstantFacts
  <2> QED BY <1>0, <1>2, <2>1, <2>2, StateAfterSame
<1>4. HasRow(p, k, history) => p \in PlayersOf(k)
  BY DEF RowRight
<1>5. HasRow(p, k, history)' <=> (status[k] = "finalized" /\ p \in PlayersOf(k))'
  BY <1>1 DEF RowRight, SameRows, RowUntouched
<1>6. ASSUME HasRow(p, k, history)'
      PROVE  /\ RowAt(p, k, history)' = RowAt(p, k, history) /\ Result(p, k)' = Result(p, k)
             /\ HasRow(p, k, history)
  <2>1. HasRow(p, k, history') /\ HasRow(p, k, history) /\ p \in PlayersOf(k)
    BY <1>1, <1>4, <1>6 DEF SameRows
  <2>2. RowAt(p, k, history') = RowAt(p, k, history)
    BY <1>1, <2>1 DEF SameRows
  <2>3. winner'[k] = winner[k]
    BY <1>5, <1>6, <2>1 DEF RowUntouched
  <2> QED BY <2>1, <2>2, <2>3 DEF Result
<1>7. ruleset' = ruleset
  BY DEF RowUntouched
<1> QED BY <1>3, <1>5, <1>6, <1>7 DEF RowRight

\* A ladder row that was right stays right likewise.
LEMMA LadderRightKept ==
    ASSUME IInv, TypeOK', NEW p \in Players, LadderRight(p), LadderUntouched(p)
    PROVE  LadderRight(p)'
<1>1. (\A r \in history : r \in Rows) /\ (\A r \in history' : r \in Rows)
  BY DEF IInv, TypeOK
<1>2. LastMatch \in 0..LastMatch /\ \A j \in 1..LastMatch : SameRows(p, j, history', history)
  BY ConstantFacts DEF LadderUntouched, Matches
<1>3. StateAfter(p, history')[LastMatch] = StateAfter(p, history)[LastMatch]
  BY <1>1, <1>2, StateAfterSame
<1>4. ASSUME NEW rows, \A r \in rows : r \in Rows
      PROVE  RowsOf(p, rows) = {} <=> \A k \in Matches : ~HasRow(p, k, rows)
  <2>1. \A r \in rows : r.match \in Matches
    BY <1>4 DEF Rows
  <2> QED BY <2>1 DEF RowsOf, HasRow
<1>5. RowsOf(p, history') = {} <=> RowsOf(p, history) = {}
  BY <1>1, <1>4 DEF LadderUntouched, SameRows
<1> QED BY <1>3, <1>5 DEF LadderRight, LadderUntouched

\* Rows that were right stay so if whatever a step touches is due for a rebuild after it.
LEMMA RightKept ==
    ASSUME IInv, TypeOK',
           \A p \in Players, k \in 0..LastMatch : ~Due(p, k)' => ~Due(p, k),
           \A p \in Players, k \in Matches : ~Due(p, k)' => RowUntouched(p, k),
           \A p \in Players : ~Due(p, LastMatch)' => LadderUntouched(p)
    PROVE  RowsRight' /\ LaddersRight'
<1>1. ASSUME NEW p \in Players, NEW k \in Matches, ~Due(p, k)' PROVE RowRight(p, k)'
  <2>1. k \in 0..LastMatch
    BY ConstantFacts DEF Matches
  <2>2. RowRight(p, k) /\ RowUntouched(p, k)
    BY <1>1, <2>1 DEF IInv, RowsRight
  <2> QED BY <2>2, RowRightKept
<1>2. ASSUME NEW p \in Players, ~Due(p, LastMatch)' PROVE LadderRight(p)'
  <2>1. LastMatch \in 0..LastMatch
    BY ConstantFacts
  <2>2. LadderRight(p) /\ LadderUntouched(p)
    BY <1>2, <2>1 DEF IInv, LaddersRight
  <2> QED BY <2>2, LadderRightKept
<1> QED BY <1>1, <1>2 DEF RowsRight, LaddersRight

\* A history has the same rows as itself.
LEMMA SameRowsRefl == \A p, k, rows : SameRows(p, k, rows, rows)
BY DEF SameRows

\* A step that leaves the history alone.
LEMMA TablesUntouched ==
    ASSUME history' = history
    PROVE  /\ \A p, k : SameRows(p, k, history', history)
           /\ RowsUnique(history) => RowsUnique(history)'
           /\ RowsOfPlayers => RowsOfPlayers'
BY SameRowsRefl DEF RowsUnique, RowsOfPlayers

\* At first there is no match that counts, no row and nobody on the ladder.
LEMMA InitInv == ASSUME Init PROVE IInv
<1>1. TypeOK
  <2>1. MaxAmendments \in Nat /\ MaxFaults \in Nat
    BY LadderAssumption
  <2>2. <<>> \in Seq(Jobs) /\ DOMAIN NoWave = {}
    BY EmptySeq DEF NoWave
  <2>3. /\ status \in [Matches -> {"reported", "finalized", "cancelled", "deleted"}]
        /\ winner \in [Matches -> Positions]
        /\ ladder \in [Players -> States \cup {NoRow}]
    BY DEF Init, Positions
  <2>4. /\ queue \in Seq(Jobs) /\ effects \subseteq Jobs /\ job \in Jobs \cup {NoJob}
        /\ DOMAIN before \subseteq Players
    BY <2>2 DEF Init
  <2>5. /\ ruleset \in 0..MaxAmendments /\ prices \in 0..MaxAmendments
        /\ amendments \in 0..MaxAmendments /\ faults \in 0..MaxFaults
    BY <2>1 DEF Init
  <2>6. /\ todo \subseteq Players /\ processed \subseteq Players
        /\ \A r \in history : r \in Rows
        /\ lost \in BOOLEAN /\ damaged \in BOOLEAN
    BY DEF Init
  <2> QED BY <2>3, <2>4, <2>5, <2>6 DEF TypeOK
<1>2. history = {} /\ \A p, k : ~HasRow(p, k, history)
  BY DEF Init, HasRow, RowsOf
<1>3. RowsRight
  BY <1>2 DEF Init, RowsRight, RowRight
<1>4. LaddersRight
  BY <1>2 DEF Init, LaddersRight, LadderRight, RowsOf
<1>5. ~Working
  BY DEF Init, Working
<1>6. RowsUnique(history) /\ RowsOfPlayers
  BY <1>2 DEF RowsUnique, RowsOfPlayers
<1>7. job # Replay /\ todo = {} /\ ruleset <= amendments
  BY JobsFacts DEF Init
<1> QED BY <1>1, <1>3, <1>4, <1>5, <1>6, <1>7
        DEF IInv, JobStillDue, WavesAreOfOthers, ReplayIsPriced

-----------------------------------------------------------------------------
(* The handlers *)

\* What waits are jobs.
LEMMA WaitingFacts ==
    ASSUME TypeOK
    PROVE  /\ Waiting \subseteq Jobs
           /\ \A j \in Waiting : j # Replay => j.match \in Matches
<1>1. ToSet(queue) = {queue[i] : i \in 1..Len(queue)} /\ \A i \in 1..Len(queue) : queue[i] \in Jobs
  BY ToSetOfSeq, ElementOfSeq DEF TypeOK
<1> QED BY <1>1, JobsFacts DEF Waiting, TypeOK

\* A job starts with the players of its match, unless it finds the match void.
LEMMA JobPlayersFacts ==
    ASSUME NEW j \in Jobs, j # Replay
    PROVE  /\ j.match \in Matches
           /\ JobPlayers(j) \subseteq PlayersOf(j.match)
           /\ status[j.match] # "deleted" /\ (j.kind = "correct" => status[j.match] = "finalized")
                => JobPlayers(j) = PlayersOf(j.match)
BY JobsFacts DEF JobPlayers

\* What is due stays due when jobs are added and none becomes void.
LEMMA DueKept ==
    ASSUME IInv, job' = job, todo' = todo, lost => lost', damaged => damaged',
           Waiting \subseteq Waiting',
           \A j \in Waiting \ {Replay} : JobPlayers(j) \subseteq JobPlayers(j)'
    PROVE  \A p, k : Due(p, k) => Due(p, k)'
BY DEF Due, SeasonDue, Working

\* A finalization makes its players due from its match on, before anything else.
LEMMA FinalizeInv ==
    ASSUME IInv, NEW m \in Matches, Finalize(m)
    PROVE  IInv'
<1> DEFINE e == Effect("finalize", m)
<1>0. TypeOK /\ e \in Jobs /\ e # Replay /\ e.kind = "finalize" /\ e.match = m
  BY EffectFacts DEF IInv
<1> HIDE DEF e
<1>1. /\ status' = [status EXCEPT ![m] = "finalized"] /\ status[m] = "reported"
      /\ effects' = effects \cup {e}
      /\ UNCHANGED <<winner, ruleset, amendments, queue, faults, lost, job, prices, todo, before,
                     processed, history, ladder, damaged>>
  BY DEF Finalize, workerVars, tableVars, e
<1>2. TypeOK'
  BY <1>0, <1>1 DEF TypeOK
<1>3. Waiting' = Waiting \cup {e}
  BY <1>1 DEF Waiting
<1>4. \A k \in Matches : status'[k] = IF k = m THEN "finalized" ELSE status[k]
  BY <1>0, <1>1 DEF TypeOK
<1>5. \A j \in Waiting \ {Replay} : JobPlayers(j) \subseteq JobPlayers(j)'
  BY <1>0, <1>1, <1>4, WaitingFacts DEF JobPlayers
<1>6. \A p, k : Due(p, k) => Due(p, k)'
  BY <1>1, <1>3, <1>5, DueKept
<1>7. ASSUME NEW p \in PlayersOf(m), NEW k, m <= k PROVE Due(p, k)'
  <2>1. p \in JobPlayers(e)'
    BY <1>0, <1>4, <1>7 DEF JobPlayers
  <2> QED BY <1>0, <1>3, <1>7, <2>1 DEF Due
<1>8. ASSUME NEW p \in Players, NEW k \in Matches, ~Due(p, k)' PROVE RowUntouched(p, k)
  BY <1>1, <1>4, <1>7, <1>8, SameRowsRefl, ConstantFacts DEF RowUntouched
<1>9. \A p \in Players : LadderUntouched(p)
  BY <1>1, SameRowsRefl DEF LadderUntouched
<1>10. RowsRight' /\ LaddersRight'
  BY <1>2, <1>6, <1>8, <1>9, RightKept
<1>11. RowsUnique(history)' /\ RowsOfPlayers'
  BY <1>1, TablesUntouched DEF IInv
<1>12. JobStillDue'
  <2>1. Working => job.match \in Matches
    BY <1>0, JobsFacts DEF Working, TypeOK
  <2> QED BY <1>1, <1>3, <1>4, <2>1 DEF IInv, JobStillDue, Working
<1>13. WavesAreOfOthers' /\ ReplayIsPriced' /\ (~Working => todo = {})' /\ (ruleset <= amendments)'
  BY <1>1, <1>3 DEF IInv, WavesAreOfOthers, ReplayIsPriced, Working
<1> QED BY <1>2, <1>10, <1>11, <1>12, <1>13 DEF IInv

\* The bound on the amendments also bounds the versions of the ruleset.
LEMMA AmendFacts ==
    ASSUME IInv, Amend
    PROVE  /\ amendments' \in 0..MaxAmendments /\ amendments' = amendments + 1
           /\ ruleset + 1 \in 0..MaxAmendments /\ ruleset + 1 <= amendments'
           /\ ruleset <= amendments'
<1>1. /\ amendments \in 0..MaxAmendments /\ ruleset \in 0..MaxAmendments
      /\ ruleset <= amendments /\ MaxAmendments \in Nat
  BY LadderAssumption DEF IInv, TypeOK
<1> QED BY <1>1 DEF Amend

\* So does a cancellation.
LEMMA CancelFinalizedInv ==
    ASSUME IInv, NEW m \in Matches, CancelFinalized(m)
    PROVE  IInv'
<1> DEFINE e == Effect("cancel", m)
<1>0. TypeOK /\ e \in Jobs /\ e # Replay /\ e.kind = "cancel" /\ e.match = m
  BY EffectFacts DEF IInv
<1>18. e = Effect("cancel", m)
  OBVIOUS
<1> HIDE DEF e
<1>1. /\ status' = [status EXCEPT ![m] = "cancelled"] /\ status[m] = "finalized"
      /\ effects' = effects \cup {e}
      /\ Amend
      /\ UNCHANGED <<winner, ruleset, queue, faults, lost, job, prices, todo, before,
                     processed, history, ladder, damaged>>
  BY <1>18 DEF CancelFinalized, workerVars, tableVars
<1>2. TypeOK'
  BY <1>0, <1>1, AmendFacts DEF TypeOK
<1>3. Waiting' = Waiting \cup {e}
  BY <1>1 DEF Waiting
<1>4. \A k \in Matches : status'[k] = IF k = m THEN "cancelled" ELSE status[k]
  BY <1>0, <1>1 DEF TypeOK
<1>5. ASSUME NEW p \in PlayersOf(m), NEW k, m <= k PROVE Due(p, k)'
  <2>1. p \in JobPlayers(e)'
    BY <1>0, <1>4, <1>5 DEF JobPlayers
  <2> QED BY <1>0, <1>3, <1>5, <2>1 DEF Due
<1>6. ASSUME NEW p, NEW k, Due(p, k) PROVE Due(p, k)'
  <2>1. CASE \E j \in Waiting \ {Replay} : j.match <= k /\ p \in JobPlayers(j)
    <3>1. PICK j \in Waiting \ {Replay} : j.match <= k /\ p \in JobPlayers(j)
      BY <2>1
    <3>2. j \in Jobs /\ j # Replay /\ j.match \in Matches
      BY <1>0, WaitingFacts
    <3>3. CASE j.match = m
      <4>1. p \in PlayersOf(m)
        BY <3>1, <3>2, <3>3, JobPlayersFacts
      <4> QED BY <1>5, <3>1, <3>3, <4>1
    <3>4. CASE j.match # m
      <4>1. p \in JobPlayers(j)'
        BY <1>4, <3>1, <3>2, <3>4 DEF JobPlayers
      <4> QED BY <1>3, <3>1, <4>1 DEF Due
    <3> QED BY <3>3, <3>4
  <2>2. CASE SeasonDue
    BY <1>1, <1>3, <2>2 DEF Due, SeasonDue
  <2>3. CASE Working /\ job.match <= k /\ p \in todo \cap PlayersOf(job.match)
    BY <1>1, <2>3 DEF Due, Working
  <2> QED BY <1>6, <2>1, <2>2, <2>3 DEF Due
<1>8. ASSUME NEW p \in Players, NEW k \in Matches, ~Due(p, k)' PROVE RowUntouched(p, k)
  BY <1>1, <1>4, <1>5, <1>8, SameRowsRefl, ConstantFacts DEF RowUntouched
<1>9. \A p \in Players : LadderUntouched(p)
  BY <1>1, SameRowsRefl DEF LadderUntouched
<1>10. RowsRight' /\ LaddersRight'
  BY <1>2, <1>6, <1>8, <1>9, RightKept
<1>11. RowsUnique(history)' /\ RowsOfPlayers'
  BY <1>1, TablesUntouched DEF IInv
<1>12. JobStillDue'
  <2>1. Working => job.match \in Matches
    BY <1>0, JobsFacts DEF Working, TypeOK
  <2> QED BY <1>18, <1>1, <1>3, <1>4, <2>1 DEF IInv, JobStillDue, Working
<1>13. WavesAreOfOthers' /\ ReplayIsPriced' /\ (~Working => todo = {})' /\ (ruleset <= amendments)'
  BY <1>1, <1>3, AmendFacts DEF IInv, WavesAreOfOthers, ReplayIsPriced, Working
<1> QED BY <1>2, <1>10, <1>11, <1>12, <1>13 DEF IInv

\* So does a correction.
LEMMA CorrectFinalizedInv ==
    ASSUME IInv, NEW m \in Matches, NEW position \in Positions, CorrectFinalized(m, position)
    PROVE  IInv'
<1> DEFINE e == Effect("correct", m)
<1>0. TypeOK /\ e \in Jobs /\ e # Replay /\ e.kind = "correct" /\ e.match = m
  BY EffectFacts DEF IInv
<1> HIDE DEF e
<1>1. /\ winner' = [winner EXCEPT ![m] = position] /\ status[m] = "finalized"
      /\ effects' = effects \cup {e}
      /\ Amend
      /\ UNCHANGED <<status, ruleset, queue, faults, lost, job, prices, todo, before,
                     processed, history, ladder, damaged>>
  BY DEF CorrectFinalized, workerVars, tableVars, e
<1>2. TypeOK'
  <2>1. winner' \in [Matches -> Positions]
    BY <1>0, <1>1 DEF TypeOK
  <2> QED BY <1>0, <1>1, <2>1, AmendFacts DEF TypeOK
<1>3. Waiting' = Waiting \cup {e}
  BY <1>1 DEF Waiting
<1>4. \A k \in Matches : k # m => winner'[k] = winner[k]
  BY <1>0, <1>1 DEF TypeOK
<1>5. \A j : JobPlayers(j)' = JobPlayers(j)
  BY <1>1 DEF JobPlayers
<1>6. \A p, k : Due(p, k) => Due(p, k)'
  BY <1>1, <1>3, <1>5, DueKept
<1>7. ASSUME NEW p \in PlayersOf(m), NEW k, m <= k PROVE Due(p, k)'
  <2>1. p \in JobPlayers(e)'
    BY <1>0, <1>1, <1>7 DEF JobPlayers
  <2> QED BY <1>0, <1>3, <1>7, <2>1 DEF Due
<1>8. ASSUME NEW p \in Players, NEW k \in Matches, ~Due(p, k)' PROVE RowUntouched(p, k)
  BY <1>1, <1>4, <1>7, <1>8, SameRowsRefl, ConstantFacts DEF RowUntouched
<1>9. \A p \in Players : LadderUntouched(p)
  BY <1>1, SameRowsRefl DEF LadderUntouched
<1>10. RowsRight' /\ LaddersRight'
  BY <1>2, <1>6, <1>8, <1>9, RightKept
<1>11. RowsUnique(history)' /\ RowsOfPlayers'
  BY <1>1, TablesUntouched DEF IInv
<1>12. JobStillDue'
  BY <1>1, <1>3 DEF IInv, JobStillDue, Working
<1>13. WavesAreOfOthers' /\ ReplayIsPriced' /\ (~Working => todo = {})' /\ (ruleset <= amendments)'
  BY <1>1, <1>3, AmendFacts DEF IInv, WavesAreOfOthers, ReplayIsPriced, Working
<1> QED BY <1>2, <1>10, <1>11, <1>12, <1>13 DEF IInv

\* A result entered in a cancelled match counts for nothing until it is finalized again.
LEMMA ReviveInv ==
    ASSUME IInv, NEW m \in Matches, NEW position \in Positions, Revive(m, position)
    PROVE  IInv'
<1>0. TypeOK
  BY DEF IInv
<1>1. /\ winner' = [winner EXCEPT ![m] = position] /\ status[m] = "cancelled"
      /\ status' = [status EXCEPT ![m] = "reported"]
      /\ Amend
      /\ UNCHANGED <<ruleset, effects, queue, faults, lost, job, prices, todo, before,
                     processed, history, ladder, damaged>>
  BY DEF Revive, queueVars, workerVars, tableVars
<1>2. TypeOK'
  <2>1. winner' \in [Matches -> Positions]
    BY <1>0, <1>1 DEF TypeOK
  <2> QED BY <1>0, <1>1, <2>1, AmendFacts DEF TypeOK
<1>3. Waiting' = Waiting
  BY <1>1 DEF Waiting
<1>4. /\ \A k \in Matches : status'[k] = IF k = m THEN "reported" ELSE status[k]
      /\ \A k \in Matches : k # m => winner'[k] = winner[k]
  BY <1>0, <1>1 DEF TypeOK
<1>5. \A j \in Waiting \ {Replay} : JobPlayers(j) \subseteq JobPlayers(j)'
  BY <1>0, <1>1, <1>4, WaitingFacts DEF JobPlayers
<1>6. \A p, k : Due(p, k) => Due(p, k)'
  BY <1>1, <1>3, <1>5, DueKept
<1>8. \A p \in Players, k \in Matches : RowUntouched(p, k)
  BY <1>1, <1>4, SameRowsRefl DEF RowUntouched
<1>9. \A p \in Players : LadderUntouched(p)
  BY <1>1, SameRowsRefl DEF LadderUntouched
<1>10. RowsRight' /\ LaddersRight'
  BY <1>2, <1>6, <1>8, <1>9, RightKept
<1>11. RowsUnique(history)' /\ RowsOfPlayers'
  BY <1>1, TablesUntouched DEF IInv
<1>12. JobStillDue'
  <2>1. Working => job.match \in Matches
    BY <1>0, JobsFacts DEF Working, TypeOK
  <2> QED BY <1>1, <1>3, <1>4, <2>1 DEF IInv, JobStillDue, Working
<1>13. WavesAreOfOthers' /\ ReplayIsPriced' /\ (~Working => todo = {})' /\ (ruleset <= amendments)'
  BY <1>1, <1>3, AmendFacts DEF IInv, WavesAreOfOthers, ReplayIsPriced, Working
<1> QED BY <1>2, <1>10, <1>11, <1>12, <1>13 DEF IInv

\* An edited ruleset makes the whole season due, rows already priced included.
LEMMA PropagateInv ==
    ASSUME IInv, Propagate
    PROVE  IInv'
<1>0. TypeOK /\ Replay \in Jobs
  BY JobsFacts DEF IInv
<1>1. /\ ruleset' = ruleset + 1 /\ effects' = effects \cup {Replay} /\ Amend
      /\ UNCHANGED <<status, winner, queue, faults, lost, job, prices, todo, before,
                     processed, history, ladder, damaged>>
  BY DEF Propagate, workerVars, tableVars
<1>2. TypeOK'
  BY <1>0, <1>1, AmendFacts DEF TypeOK
<1>3. Waiting' = Waiting \cup {Replay}
  BY <1>1 DEF Waiting
<1>4. \A p, k : Due(p, k)'
  BY <1>3 DEF Due, SeasonDue
<1>5. RowsRight' /\ LaddersRight'
  BY <1>4 DEF RowsRight, LaddersRight
<1>6. RowsUnique(history)' /\ RowsOfPlayers'
  BY <1>1, TablesUntouched DEF IInv
<1>7. JobStillDue'
  BY <1>1, <1>3 DEF IInv, JobStillDue, Working
<1>8. WavesAreOfOthers' /\ ReplayIsPriced' /\ (~Working => todo = {})' /\ (ruleset <= amendments)'
  BY <1>1, <1>3, AmendFacts DEF IInv, WavesAreOfOthers, ReplayIsPriced, Working
<1> QED BY <1>2, <1>5, <1>6, <1>7, <1>8 DEF IInv

\* A match deleted before its jobs ran voids them: the season is damaged. Otherwise its rows
\* were gone already, or are of players that are due.
LEMMA DeleteMatchInv ==
    ASSUME IInv, NEW m \in Matches, DeleteMatch(m)
    PROVE  IInv'
<1>0. TypeOK /\ RowsUnique(history) /\ RowsOfPlayers
  BY DEF IInv
<1>1. /\ status[m] \in {"reported", "cancelled"}
      /\ status' = [status EXCEPT ![m] = "deleted"]
      /\ history' = {r \in history : r.match # m}
      /\ damaged' = (damaged \/ \E e \in Waiting \cup {job} : e.match = m)
      /\ Amend
      /\ UNCHANGED <<winner, ruleset, effects, queue, faults, lost, job, prices, todo, before,
                     processed, ladder>>
  BY DEF DeleteMatch, workerVars, queueVars, Waiting
<1>2. TypeOK'
  <2>1. damaged' \in BOOLEAN
    BY <1>1, <1>0 DEF TypeOK
  <2> QED BY <1>0, <1>1, <2>1, AmendFacts DEF TypeOK
<1>3. Waiting' = Waiting
  BY <1>1 DEF Waiting
<1>4. \A k \in Matches : status'[k] = IF k = m THEN "deleted" ELSE status[k]
  BY <1>0, <1>1 DEF TypeOK
<1>5. damaged => damaged'
  BY <1>1
<1>6. ASSUME NEW p, NEW k, Due(p, k) PROVE Due(p, k)'
  <2>1. CASE \E j \in Waiting \ {Replay} : j.match <= k /\ p \in JobPlayers(j)
    <3>1. PICK j \in Waiting \ {Replay} : j.match <= k /\ p \in JobPlayers(j)
      BY <2>1
    <3>2. j \in Jobs /\ j # Replay /\ j.match \in Matches
      BY <1>0, WaitingFacts
    <3>3. CASE j.match = m
      BY <1>1, <3>3 DEF Due, SeasonDue
    <3>4. CASE j.match # m
      <4>1. p \in JobPlayers(j)'
        BY <1>4, <3>1, <3>2, <3>4 DEF JobPlayers
      <4> QED BY <1>3, <3>1, <4>1 DEF Due
    <3> QED BY <3>3, <3>4
  <2>2. CASE SeasonDue
    BY <1>1, <1>3, <1>5, <2>2 DEF Due, SeasonDue
  <2>3. CASE Working /\ job.match <= k /\ p \in todo \cap PlayersOf(job.match)
    BY <1>1, <2>3 DEF Due, Working
  <2> QED BY <1>6, <2>1, <2>2, <2>3 DEF Due
<1>7. ASSUME NEW p \in Players, NEW n \in 0..LastMatch, NEW k \in Matches, k <= n, ~Due(p, n)'
      PROVE  SameRows(p, k, history', history)
  <2>1. CASE k # m
    BY <1>0, <1>1, <2>1, SameRowsOfUnique DEF RowsUnique
  <2>2. CASE k = m
    <3>1. ~Due(p, m)
      <4>1. ~Due(p, n)
        BY <1>6, <1>7
      <4>2. \A j \in Matches : j <= m => j <= n
        BY <1>7, <2>2, ConstantFacts
      <4>3. \A j \in Waiting \ {Replay} : j.match \in Matches
        BY <1>0, WaitingFacts
      <4>4. Working => job.match \in Matches
        BY <1>0, JobsFacts DEF Working, TypeOK
      <4> QED BY <4>1, <4>2, <4>3, <4>4 DEF Due
    <3>2. ~HasRow(p, m, history)
      BY <1>1, <3>1 DEF IInv, RowsRight, RowRight
    <3>3. ~HasRow(p, m, history')
      BY <1>1 DEF HasRow, RowsOf
    <3> QED BY <2>2, <3>2, <3>3 DEF SameRows
  <2> QED BY <2>1, <2>2
<1>8. ASSUME NEW p \in Players, NEW k \in Matches, ~Due(p, k)' PROVE RowUntouched(p, k)
  <2>1. k \in 0..LastMatch /\ \A j \in 1..k : j \in Matches /\ j <= k
    BY ConstantFacts DEF Matches
  <2>2. \A j \in 1..k : SameRows(p, j, history', history)
    BY <1>7, <1>8, <2>1
  <2> QED BY <1>1, <1>4, <2>2 DEF RowUntouched
<1>9. ASSUME NEW p \in Players, ~Due(p, LastMatch)' PROVE LadderUntouched(p)
  <2>1. LastMatch \in 0..LastMatch /\ \A j \in Matches : j <= LastMatch
    BY ConstantFacts DEF Matches
  <2> QED BY <1>1, <1>7, <1>9, <2>1 DEF LadderUntouched
<1>10. RowsRight' /\ LaddersRight'
  BY <1>2, <1>6, <1>8, <1>9, RightKept
<1>11. RowsUnique(history)' /\ RowsOfPlayers'
  BY <1>0, <1>1 DEF RowsUnique, RowsOfPlayers
<1>12. JobStillDue'
  <2>1. Working => job.match \in Matches
    BY <1>0, JobsFacts DEF Working, TypeOK
  <2>2. Working /\ job.match = m => damaged'
    BY <1>1
  <2>3. Working' <=> Working
    BY <1>1 DEF Working
  <2> QED BY <1>1, <1>3, <1>4, <1>5, <2>1, <2>2, <2>3 DEF IInv, JobStillDue
<1>13. WavesAreOfOthers' /\ ReplayIsPriced' /\ (~Working => todo = {})' /\ (ruleset <= amendments)'
  BY <1>1, <1>3, AmendFacts DEF IInv, WavesAreOfOthers, ReplayIsPriced, Working
<1> QED BY <1>2, <1>10, <1>11, <1>12, <1>13 DEF IInv

\* A job that moves from a handler to the queue waits before and after.
LEMMA EnqueueInv ==
    ASSUME IInv, NEW e \in Jobs, Enqueue(e)
    PROVE  IInv'
<1>0. TypeOK
  BY DEF IInv
<1>1. /\ e \in effects /\ effects' = effects \ {e} /\ queue' = Queued(e)
      /\ UNCHANGED <<status, winner, ruleset, amendments, faults, lost, job, prices, todo, before,
                     processed, history, ladder, damaged>>
  BY DEF Enqueue, matchVars, workerVars, tableVars
<1>2. queue' \in Seq(Jobs) /\ ToSet(queue') = ToSet(queue) \cup {e}
  BY <1>0, <1>1, QueuedFacts
<1>3. TypeOK'
  BY <1>0, <1>1, <1>2 DEF TypeOK
<1>4. Waiting' = Waiting
  BY <1>1, <1>2 DEF Waiting
<1>5. \A j : JobPlayers(j)' = JobPlayers(j)
  BY <1>1 DEF JobPlayers
<1>6. \A p, k : Due(p, k) => Due(p, k)'
  BY <1>1, <1>4, <1>5, DueKept
<1>7. \A p \in Players : LadderUntouched(p) /\ \A k \in Matches : RowUntouched(p, k)
  BY <1>1, SameRowsRefl DEF LadderUntouched, RowUntouched
<1>8. RowsRight' /\ LaddersRight'
  BY <1>3, <1>6, <1>7, RightKept
<1>9. RowsUnique(history)' /\ RowsOfPlayers'
  BY <1>1, TablesUntouched DEF IInv
<1>10. JobStillDue' /\ WavesAreOfOthers' /\ ReplayIsPriced' /\ (~Working => todo = {})'
       /\ (ruleset <= amendments)'
  BY <1>1, <1>4 DEF IInv, JobStillDue, WavesAreOfOthers, ReplayIsPriced, Working
<1> QED BY <1>3, <1>8, <1>9, <1>10 DEF IInv

\* A lost job makes the season due.
LEMMA LoseEnqueueInv ==
    ASSUME IInv, NEW e \in Jobs, LoseEnqueue(e)
    PROVE  IInv'
<1>0. TypeOK /\ MaxFaults \in Nat
  BY LadderAssumption DEF IInv
<1>1. /\ effects' = effects \ {e} /\ lost' = TRUE /\ faults < MaxFaults /\ faults' = faults + 1
      /\ UNCHANGED <<status, winner, ruleset, amendments, queue, job, prices, todo, before,
                     processed, history, ladder, damaged>>
  BY DEF LoseEnqueue, matchVars, workerVars, tableVars
<1>2. faults' \in 0..MaxFaults
  BY <1>0, <1>1 DEF TypeOK
<1>3. TypeOK'
  BY <1>0, <1>1, <1>2 DEF TypeOK
<1>4. \A p, k : Due(p, k)'
  BY <1>1 DEF Due, SeasonDue
<1>5. RowsRight' /\ LaddersRight'
  BY <1>4 DEF RowsRight, LaddersRight
<1>6. RowsUnique(history)' /\ RowsOfPlayers'
  BY <1>1, TablesUntouched DEF IInv
<1>7. JobStillDue' /\ WavesAreOfOthers' /\ ReplayIsPriced' /\ (~Working => todo = {})'
       /\ (ruleset <= amendments)'
  BY <1>1 DEF IInv, JobStillDue, WavesAreOfOthers, ReplayIsPriced, Working
<1> QED BY <1>3, <1>5, <1>6, <1>7 DEF IInv

-----------------------------------------------------------------------------
(* The worker *)

\* A job that starts is due to its players until they are rebuilt; a void one had none.
LEMMA StartJobInv ==
    ASSUME IInv, StartJob
    PROVE  IInv'
<1> DEFINE j == Head(queue)
           ps == JobPlayers(j)
           rows == [p \in Players |-> IF j.kind = "finalize" /\ p \in ps /\ ladder[p] = NoRow
                                      THEN EntryState ELSE ladder[p]]
<1>0. TypeOK
  BY DEF IInv
<1>1. /\ job = NoJob /\ queue # <<>> /\ j.kind # "replay"
      /\ job' = j /\ ladder' = rows /\ todo' = ps /\ before' = [p \in ps |-> rows[p].mmr]
      /\ processed' = ps /\ queue' = Tail(queue)
      /\ UNCHANGED <<status, winner, ruleset, amendments, effects, faults, lost, prices, history,
                     damaged>>
  BY DEF StartJob, StartWave, matchVars
<1>2. /\ j \in Jobs /\ queue' \in Seq(Jobs)
      /\ ToSet(queue) = ToSet(queue') \cup {j}
  BY <1>0, <1>1, HeadFacts
<1> HIDE DEF j
<1>3. j # Replay /\ j # NoJob /\ j.match \in Matches /\ ps \subseteq PlayersOf(j.match)
  BY <1>1, <1>2, JobsFacts, JobPlayersFacts
<1>4. ps \subseteq Players
  BY <1>3, PlayersOfFacts
<1>5. \A p \in Players : /\ ladder'[p] \in States \cup {NoRow}
                         /\ p \notin ps => ladder'[p] = ladder[p]
  BY <1>0, <1>1, EntryStateType DEF TypeOK
<1>6. ladder' \in [Players -> States \cup {NoRow}] /\ DOMAIN before' = ps
  BY <1>1, <1>5
<1> HIDE DEF ps, rows
<1>7. TypeOK'
  BY <1>0, <1>1, <1>2, <1>4, <1>6 DEF TypeOK
<1>8. Waiting = Waiting' \cup {j}
  BY <1>1, <1>2 DEF Waiting
<1>9. Working' /\ ~Working
  BY <1>1, <1>3 DEF Working
<1>10. \A k : JobPlayers(k)' = JobPlayers(k)
  BY <1>1 DEF JobPlayers
<1>11. ASSUME NEW p \in Players, NEW k, j.match <= k, p \in ps PROVE Due(p, k)'
  BY <1>1, <1>3, <1>9, <1>11 DEF Due
<1>12. ASSUME NEW p \in Players, NEW k, Due(p, k) PROVE Due(p, k)'
  <2>1. CASE SeasonDue
    BY <1>1, <1>3, <1>8, <2>1, JobsFacts DEF Due, SeasonDue
  <2>2. CASE \E e \in Waiting \ {Replay} : e.match <= k /\ p \in JobPlayers(e)
    <3>1. PICK e \in Waiting \ {Replay} : e.match <= k /\ p \in JobPlayers(e)
      BY <2>2
    <3>2. CASE e = j
      BY <1>11, <3>1, <3>2 DEF ps
    <3>3. CASE e # j
      BY <1>8, <1>10, <3>1, <3>3 DEF Due
    <3> QED BY <3>2, <3>3
  <2> QED BY <1>9, <1>12, <2>1, <2>2 DEF Due
<1>13. \A p \in Players, k \in Matches : RowUntouched(p, k)
  BY <1>1, SameRowsRefl DEF RowUntouched
<1>14. ASSUME NEW p \in Players, ~Due(p, LastMatch)' PROVE LadderUntouched(p)
  <2>1. p \notin ps
    BY <1>3, <1>11, <1>14, ConstantFacts
  <2> QED BY <1>1, <1>5, <2>1, SameRowsRefl DEF LadderUntouched
<1>15. RowsRight' /\ LaddersRight'
  BY <1>7, <1>12, <1>13, <1>14, RightKept
<1>16. RowsUnique(history)' /\ RowsOfPlayers'
  BY <1>1, TablesUntouched DEF IInv
<1>17. JobStillDue' /\ WavesAreOfOthers'
  <2>1. CASE status[j.match] = "deleted" \/ (j.kind = "correct" /\ status[j.match] # "finalized")
    <3>1. ps = {}
      BY <2>1 DEF ps, JobPlayers
    <3> QED BY <1>1, <1>6, <3>1 DEF JobStillDue, WavesAreOfOthers
  <2>2. CASE ~(status[j.match] = "deleted" \/ (j.kind = "correct" /\ status[j.match] # "finalized"))
    <3>1. ps = PlayersOf(j.match)
      BY <2>2 DEF ps, JobPlayers
    <3> QED BY <1>1, <2>2, <3>1 DEF JobStillDue, WavesAreOfOthers
  <2> QED BY <2>1, <2>2
<1>18. ReplayIsPriced' /\ (~Working => todo = {})' /\ (ruleset <= amendments)'
  BY <1>1, <1>3, <1>9 DEF IInv, ReplayIsPriced
<1> QED BY <1>7, <1>15, <1>16, <1>17, <1>18 DEF IInv

\* The rebuild of a player settles the rows from the match on, and disturbs nobody else's.
LEMMA RecalculatePlayerInv ==
    ASSUME IInv, NEW p \in Players, RecalculatePlayer(p)
    PROVE  IInv'
<1> DEFINE m == job.match
<1>0. TypeOK /\ RowsUnique(history) /\ RowsOfPlayers
  BY DEF IInv
<1>1. /\ p \in todo
      /\ history' = Recalculated(p, m)
      /\ ladder' = [ladder EXCEPT ![p] = LadderRow(p, m, Rebuilt(p, m).state)]
      /\ todo' = todo \ {p}
      /\ UNCHANGED <<status, winner, ruleset, amendments, effects, queue, faults, lost, job, prices,
                     before, processed, damaged>>
  BY DEF RecalculatePlayer, Recalculated, matchVars, queueVars
<1>2. Working /\ Working'
  BY <1>1 DEF IInv, Working
<1>3. m \in Matches
  BY <1>0, <1>2, JobsFacts DEF Working, TypeOK
<1> HIDE DEF m
<1>4. LadderRow(p, m, Rebuilt(p, m).state) \in States \cup {NoRow}
  <2>1. LastMatch \in 0..LastMatch
    BY ConstantFacts
  <2>2. Rebuilding(p, m)[LastMatch] \in Rebuilds
    BY <1>0, <1>3, <2>1, RebuildingFacts
  <2> QED BY <2>2 DEF LadderRow, Rebuilt, Rebuilds
<1>5. TypeOK'
  <2>1. \A r \in history' : r \in Rows
    BY <1>0, <1>1, <1>3, RecalculatedRows
  <2>2. ladder' \in [Players -> States \cup {NoRow}]
    BY <1>0, <1>1, <1>4 DEF TypeOK
  <2> QED BY <1>0, <1>1, <2>1, <2>2 DEF TypeOK
<1>6. Waiting' = Waiting /\ \A j : JobPlayers(j)' = JobPlayers(j)
  BY <1>1 DEF Waiting, JobPlayers
<1>7. \A q, k : q # p => (Due(q, k) <=> Due(q, k)')
  BY <1>1, <1>2, <1>6 DEF Due, SeasonDue
<1>8. ASSUME NEW k, Due(p, k) PROVE Due(p, k)' \/ m <= k
  BY <1>1, <1>2, <1>6, <1>8 DEF Due, SeasonDue, m
<1>9. \A k \in Matches : k \in Int /\ k >= 1 /\ k <= LastMatch /\ LastMatch \in Int /\ m \in Int
  BY <1>3, ConstantFacts
\* The rows the player keeps, and those of the others.
<1>10. ASSUME NEW q \in Players, NEW k \in Matches, q # p \/ k < m, ~Due(q, k)'
       PROVE  RowRight(q, k)'
  <2>1. ~Due(q, k)
    BY <1>3, <1>7, <1>8, <1>9, <1>10
  <2>2. RowRight(q, k)
    BY <2>1 DEF IInv, RowsRight
  <2>3. ASSUME NEW j \in 1..k PROVE SameRows(q, j, history', history)
    <3>1. j \in Matches /\ (k < m => j < m)
      BY <1>3, <1>9, ConstantFacts DEF Matches
    <3> QED BY <1>0, <1>1, <1>3, <1>10, <3>1, RecalculatedKeeps
  <2>4. RowUntouched(q, k)
    BY <1>1, <2>3 DEF RowUntouched
  <2> QED BY <1>5, <2>2, <2>4, RowRightKept
\* The rows that were just written.
<1>11. ASSUME NEW k \in Matches, k >= m PROVE RowRight(p, k)'
  <2>1. HasRow(p, k, history') <=> status[k] = "finalized" /\ p \in PlayersOf(k)
    <3>1. k \in CountedFrom(p, m) <=> status[k] = "finalized" /\ p \in PlayersOf(k)
      BY <1>11 DEF CountedFrom
    <3> QED BY <1>0, <1>1, <1>3, <1>11, <3>1, RecalculatedFrom
  <2>2. ASSUME HasRow(p, k, history')
        PROVE  /\ RowAt(p, k, history').result = Result(p, k)
               /\ RowAt(p, k, history').rules = ruleset
               /\ RowAt(p, k, history').before = StateAfter(p, history')[k - 1].mmr
    <3>1. RowAt(p, k, history') = NewRow(p, m, k)
      BY <1>0, <1>1, <1>3, <1>11, <2>2, RecalculatedFrom
    <3>2. k - 1 \in (m - 1)..LastMatch
      BY <1>9, <1>11
    <3>3. StateAfter(p, history')[k - 1] = Rebuilding(p, m)[k - 1].state
      BY <1>0, <1>1, <1>3, <3>2, RecalculatedStates
    <3> QED BY <3>1, <3>3, NewRowFacts
  <2>3. Result(p, k)' = Result(p, k)
    BY <1>1 DEF Result
  <2> QED BY <1>1, <2>1, <2>2, <2>3 DEF RowRight
<1>12. RowsRight'
  <2>1. \A k \in Matches : k < m \/ k >= m
    BY <1>9
  <2> QED BY <1>10, <1>11, <2>1 DEF RowsRight
<1>13. LadderRight(p)'
  <2>1. ladder'[p] = LadderRow(p, m, Rebuilt(p, m).state)
    BY <1>0, <1>1 DEF TypeOK
  <2> QED BY <1>0, <1>1, <1>3, <2>1, RecalculatedLadder DEF LadderRight
<1>14. ASSUME NEW q \in Players, q # p, ~Due(q, LastMatch)' PROVE LadderRight(q)'
  <2>1. LadderRight(q)
    BY <1>7, <1>14 DEF IInv, LaddersRight
  <2>2. \A j \in Matches : SameRows(q, j, history', history)
    BY <1>0, <1>1, <1>3, <1>14, RecalculatedKeeps
  <2>3. LadderUntouched(q)
    BY <1>0, <1>1, <1>14, <2>2 DEF LadderUntouched, TypeOK
  <2> QED BY <1>5, <2>1, <2>3, LadderRightKept
<1>15. LaddersRight'
  BY <1>13, <1>14 DEF LaddersRight
<1>16. RowsUnique(history)'
  BY <1>0, <1>1, <1>3, RecalculatedUnique DEF RowsUnique
<1>17. RowsOfPlayers'
  <2>1. ASSUME NEW r \in history' PROVE r.player \in PlayersOf(r.match)
    <3>1. CASE r \in history
      BY <1>0, <3>1 DEF RowsOfPlayers
    <3>2. CASE \E k \in CountedFrom(p, m) : r = NewRow(p, m, k)
      BY <3>2, NewRowFacts DEF CountedFrom
    <3> QED BY <1>0, <1>1, <1>3, <3>1, <3>2, RecalculatedRows
  <2> QED BY <2>1 DEF RowsOfPlayers
<1>18. JobStillDue' /\ WavesAreOfOthers' /\ ReplayIsPriced' /\ (~Working => todo = {})'
       /\ (ruleset <= amendments)'
  BY <1>1, <1>2, <1>6 DEF IInv, JobStillDue, WavesAreOfOthers, ReplayIsPriced
<1> QED BY <1>5, <1>12, <1>15, <1>16, <1>17, <1>18 DEF IInv

\* The next wave is of other players: nothing of the match itself is left to do.
LEMMA EndWaveInv ==
    ASSUME IInv, EndWave
    PROVE  IInv'
<1> DEFINE changed == {p \in DOMAIN before : CurrentMmr(p) # before[p]}
           next == AffectedPlayers(changed)
<1>0. TypeOK /\ NoJob \notin Jobs
  BY JobsFacts DEF IInv
<1>1. /\ Working /\ todo = {}
      /\ todo' = next /\ before' = [p \in next |-> ladder[p].mmr]
      /\ processed' = IF next = {} THEN {} ELSE processed \cup next
      /\ job' = IF next = {} THEN NoJob ELSE job
      /\ UNCHANGED <<status, winner, ruleset, amendments, effects, queue, faults, lost, prices,
                     history, ladder, damaged>>
  BY DEF EndWave, StartWave, matchVars, queueVars, tableVars, Working
<1>2. next \subseteq Players /\ next \cap processed = {} /\ (changed = {} => next = {})
  BY DEF AffectedPlayers
<1>3. DOMAIN before = {} => changed = {}
  OBVIOUS
<1>4. DOMAIN before' = next
  BY <1>1
<1> HIDE DEF next, changed
<1>5. TypeOK'
  BY <1>0, <1>1, <1>2, <1>4 DEF TypeOK
<1>6. Waiting' = Waiting /\ \A j : JobPlayers(j)' = JobPlayers(j)
  BY <1>1 DEF Waiting, JobPlayers
<1>7. job # Replay /\ (job' = Replay => FALSE)
  BY <1>1, JobsFacts DEF Working
<1>8. \A p, k : Due(p, k) => Due(p, k)'
  BY <1>1, <1>6, <1>7 DEF Due, SeasonDue
<1>9. \A p \in Players : LadderUntouched(p) /\ \A k \in Matches : RowUntouched(p, k)
  BY <1>1, SameRowsRefl DEF LadderUntouched, RowUntouched
<1>10. RowsRight' /\ LaddersRight'
  BY <1>5, <1>8, <1>9, RightKept
<1>11. RowsUnique(history)' /\ RowsOfPlayers'
  BY <1>1, TablesUntouched DEF IInv
<1>12. next # {} => PlayersOf(job.match) \subseteq processed
  BY <1>1, <1>2, <1>3 DEF IInv, WavesAreOfOthers
<1>13. JobStillDue' /\ WavesAreOfOthers'
  <2>1. CASE next = {}
    BY <1>1, <2>1 DEF JobStillDue, WavesAreOfOthers, Working
  <2>2. CASE next # {}
    <3>1. todo' \cap PlayersOf(job'.match) = {} /\ PlayersOf(job'.match) \subseteq processed'
      BY <1>1, <1>2, <1>12, <2>2
    <3> QED BY <3>1 DEF JobStillDue, WavesAreOfOthers
  <2> QED BY <2>1, <2>2
<1>14. ReplayIsPriced' /\ (~Working => todo = {})' /\ (ruleset <= amendments)'
  BY <1>1, <1>7 DEF IInv, ReplayIsPriced, Working
<1> QED BY <1>5, <1>10, <1>11, <1>13, <1>14 DEF IInv

\* A replay that runs makes the whole season due, so that nothing has to be right.
LEMMA StartReplayInv ==
    ASSUME IInv, StartReplay
    PROVE  IInv'
<1>0. TypeOK /\ Replay \in Jobs
  BY JobsFacts DEF IInv
<1>1. /\ job = NoJob /\ queue # <<>> /\ queue' = Tail(queue) /\ job' = Replay /\ prices' = ruleset
      /\ history' = {} /\ lost' = FALSE /\ damaged' = FALSE
      /\ UNCHANGED <<status, winner, ruleset, amendments, effects, faults, todo, before, processed,
                     ladder>>
  BY DEF StartReplay, matchVars
<1>2. queue' \in Seq(Jobs)
  BY <1>0, <1>1, HeadFacts
<1>3. TypeOK'
  BY <1>0, <1>1, <1>2 DEF TypeOK
<1>4. \A p, k : Due(p, k)'
  BY <1>1 DEF Due, SeasonDue
<1>5. RowsRight' /\ LaddersRight'
  BY <1>4 DEF RowsRight, LaddersRight
<1>6. RowsUnique(history)' /\ RowsOfPlayers'
  BY <1>1 DEF RowsUnique, RowsOfPlayers
<1>7. ~Working /\ ~Working'
  BY <1>1 DEF Working
<1>8. JobStillDue' /\ WavesAreOfOthers' /\ ReplayIsPriced' /\ (~Working => todo = {})'
       /\ (ruleset <= amendments)'
  BY <1>1, <1>7 DEF IInv, JobStillDue, WavesAreOfOthers, ReplayIsPriced
<1> QED BY <1>3, <1>5, <1>6, <1>8 DEF IInv

\* A replay settles every row and the ladder, unless another one is due.
LEMMA FinishReplayInv ==
    ASSUME IInv, FinishReplay
    PROVE  IInv'
<1> DEFINE season == ReplayedSeason(prices)
<1>0. TypeOK /\ prices \in 0..MaxAmendments
  BY DEF IInv, TypeOK
<1>1. /\ job = Replay /\ job' = NoJob /\ prices' = 0
      /\ history' = season.rows /\ ladder' = season.states
      /\ UNCHANGED <<status, winner, ruleset, amendments, effects, queue, faults, lost, todo, before,
                     processed, damaged>>
  BY DEF FinishReplay, matchVars, queueVars
<1>2. season \in Seasons
  BY <1>0, ReplayedSeasonFacts
<1> HIDE DEF season
<1>3. season.rows \in SUBSET Rows /\ season.states \in [Players -> States \cup {NoRow}]
  BY <1>2 DEF Seasons
<1>4. TypeOK'
  <2>1. 0 \in 0..MaxAmendments
    BY LadderAssumption
  <2> QED BY <1>0, <1>1, <1>3, <2>1 DEF TypeOK
<1>5. ~Working /\ ~Working' /\ todo = {}
  BY <1>1 DEF IInv, Working
<1>6. Waiting' = Waiting
  BY <1>1 DEF Waiting
<1>7. ASSUME NEW p \in Players, NEW k, ~Due(p, k)' PROVE prices = ruleset
  BY <1>1, <1>6, <1>7 DEF Due, SeasonDue, IInv, ReplayIsPriced
<1>8. ASSUME NEW p \in Players, NEW k \in Matches, ~Due(p, k)' PROVE RowRight(p, k)'
  <2>1. prices = ruleset
    BY <1>7, <1>8
  <2>2. HasRow(p, k, history') <=> status[k] = "finalized" /\ p \in PlayersOf(k)
    BY <1>0, <1>1, ReplayedSeasonFacts DEF season
  <2>3. ASSUME HasRow(p, k, history')
        PROVE  /\ RowAt(p, k, history').result = Result(p, k)
               /\ RowAt(p, k, history').rules = ruleset
               /\ RowAt(p, k, history').before = StateAfter(p, history')[k - 1].mmr
    <3>1. RowAt(p, k, history') = ReplayedRow(prices, p, k)
      BY <1>0, <1>1, <2>3, ReplayedSeasonFacts DEF season
    <3>2. k - 1 \in 0..LastMatch
      BY ConstantFacts
    <3>3. StateAfter(p, history')[k - 1] = StateIn(Replaying(prices)[k - 1], p)
      BY <1>0, <1>1, <3>2, ReplayedStates DEF season
    <3> QED BY <2>1, <3>1, <3>3, ReplayedRowFacts
  <2>4. Result(p, k)' = Result(p, k)
    BY <1>1 DEF Result
  <2> QED BY <1>1, <2>2, <2>3, <2>4 DEF RowRight
<1>9. \A p \in Players : LadderRight(p)'
  BY <1>0, <1>1, ReplayedStates DEF LadderRight, season
<1>10. RowsRight' /\ LaddersRight'
  BY <1>8, <1>9 DEF RowsRight, LaddersRight
<1>11. RowsUnique(history)'
  BY <1>0, <1>1, ReplayedSeasonFacts DEF RowsUnique, season
<1>12. RowsOfPlayers'
  <2>1. ASSUME NEW r \in history' PROVE r.player \in PlayersOf(r.match)
    <3>1. r.player \in Players /\ r.match \in Matches
      BY <1>4 DEF TypeOK, Rows
    <3>2. HasRow(r.player, r.match, history')
      BY DEF HasRow, RowsOf
    <3> QED BY <1>0, <1>1, <3>1, <3>2, ReplayedSeasonFacts DEF season
  <2> QED BY <2>1 DEF RowsOfPlayers
<1>13. JobStillDue' /\ WavesAreOfOthers' /\ ReplayIsPriced' /\ (~Working => todo = {})'
       /\ (ruleset <= amendments)'
  BY <1>1, <1>5, JobsFacts DEF IInv, JobStillDue, WavesAreOfOthers, ReplayIsPriced
<1> QED BY <1>4, <1>10, <1>11, <1>12, <1>13 DEF IInv

\* A job that fails waits again, and the rows it had already deleted are due with it.
LEMMA JobFailsInv ==
    ASSUME IInv, JobFails
    PROVE  IInv'
<1>0. TypeOK /\ RowsUnique(history) /\ RowsOfPlayers
  BY DEF IInv
<1>1. /\ job # NoJob /\ faults < MaxFaults /\ faults' = faults + 1
      /\ queue' \in Retried(queue, job)
      /\ \/ history' = history /\ damaged' = damaged
         \/ \E p \in todo : /\ history' = Kept(p, job.match)
                            /\ damaged' = (damaged \/ p \notin PlayersOf(job.match))
      /\ job' = NoJob /\ prices' = 0 /\ todo' = {} /\ before' = NoWave /\ processed' = {}
      /\ UNCHANGED <<status, winner, ruleset, amendments, effects, lost, ladder>>
  BY DEF JobFails, matchVars
<1>2. job \in Jobs
  BY <1>0, <1>1 DEF TypeOK
<1>3. queue' \in Seq(Jobs) /\ ToSet(queue') = ToSet(queue) \cup {job}
  BY <1>0, <1>1, <1>2, RetriedFacts
<1>4. history' \subseteq history
  BY <1>1 DEF Kept
<1>5. TypeOK'
  <2>1. faults' \in 0..MaxFaults /\ 0 \in 0..MaxAmendments
    BY <1>0, <1>1, LadderAssumption DEF TypeOK
  <2>2. damaged' \in BOOLEAN /\ DOMAIN before' = {}
    BY <1>0, <1>1 DEF TypeOK, NoWave
  <2>3. \A r \in history' : r \in Rows
    BY <1>0, <1>4 DEF TypeOK
  <2> QED BY <1>0, <1>1, <1>3, <2>1, <2>2, <2>3 DEF TypeOK
<1>6. Waiting' = Waiting \cup {job} /\ \A j : JobPlayers(j)' = JobPlayers(j)
  BY <1>1, <1>3 DEF Waiting, JobPlayers
<1>7. ~Working' /\ (damaged => damaged')
  <2>1. ~Working'
    BY <1>1 DEF Working
  <2>2. damaged => damaged'
    BY <1>1
  <2> QED BY <2>1, <2>2
\* What the job had still to rebuild of its own match is due again.
<1>8. ASSUME Working, NEW p \in todo \cap PlayersOf(job.match), NEW k, job.match <= k
      PROVE  Due(p, k)'
  <2>1. job # Replay /\ job.match \in Matches /\ JobStillDue
    BY <1>2, <1>8, JobsFacts DEF Working, IInv
  <2>2. CASE lost \/ damaged
    BY <1>1, <1>7, <2>2 DEF Due, SeasonDue
  <2>3. CASE /\ status[job.match] # "deleted"
             /\ job.kind = "correct" => status[job.match] = "finalized"
    <3>1. p \in JobPlayers(job)
      BY <1>8, <2>3 DEF JobPlayers
    <3> QED BY <1>6, <1>8, <2>1, <3>1 DEF Due
  <2>4. CASE status[job.match] # "deleted" /\ Effect("cancel", job.match) \in Waiting
    <3> DEFINE e == Effect("cancel", job.match)
    <3>1. e.kind = "cancel" /\ e.match = job.match /\ e # Replay
      BY <2>1, EffectFacts
    <3>2. p \in JobPlayers(e)
      BY <1>8, <2>4, <3>1 DEF JobPlayers
    <3> HIDE DEF e
    <3>3. e \in Waiting
      BY <2>4 DEF e
    <3> QED BY <1>6, <1>8, <3>1, <3>2, <3>3 DEF Due
  <2> QED BY <1>8, <2>1, <2>2, <2>3, <2>4 DEF JobStillDue
<1>9. ASSUME NEW p, NEW k, Due(p, k) PROVE Due(p, k)'
  <2>1. CASE SeasonDue
    BY <1>1, <1>6, <1>7, <2>1 DEF Due, SeasonDue
  <2>2. CASE \E j \in Waiting \ {Replay} : j.match <= k /\ p \in JobPlayers(j)
    BY <1>6, <2>2 DEF Due
  <2>3. CASE Working /\ job.match <= k /\ p \in todo \cap PlayersOf(job.match)
    BY <1>8, <2>3
  <2> QED BY <1>9, <2>1, <2>2, <2>3 DEF Due
<1>10. ASSUME NEW q \in Players, NEW n \in 0..LastMatch, NEW k \in Matches, k <= n, ~Due(q, n)'
       PROVE  SameRows(q, k, history', history)
  <2>1. CASE history' = history
    BY <2>1, SameRowsRefl
  <2>2. CASE \E p \in todo : /\ history' = Kept(p, job.match)
                             /\ damaged' = (damaged \/ p \notin PlayersOf(job.match))
    <3>1. PICK p \in todo : /\ history' = Kept(p, job.match)
                            /\ damaged' = (damaged \/ p \notin PlayersOf(job.match))
      BY <2>2
    <3>2. Working /\ job.match \in Matches
      BY <1>0, <3>1, JobsFacts DEF IInv, Working, TypeOK
    <3>3. p \in PlayersOf(job.match)
      BY <1>10, <3>1 DEF Due, SeasonDue
    <3>4. q = p => n < job.match
      BY <1>8, <1>10, <3>1, <3>2, <3>3, ConstantFacts
    <3>5. q # p \/ k < job.match
      BY <1>10, <3>2, <3>4, ConstantFacts
    <3>6. \A r \in history : r.player = q /\ r.match = k => r \in history'
      BY <3>1, <3>5 DEF Kept
    <3>7. \A r, s \in history' : r.player = s.player /\ r.match = s.match => r = s
      BY <1>0, <1>4 DEF RowsUnique
    <3> QED BY <1>4, <3>6, <3>7, SameRowsOfUnique
  <2> QED BY <1>1, <2>1, <2>2
<1>11. ASSUME NEW p \in Players, NEW k \in Matches, ~Due(p, k)' PROVE RowUntouched(p, k)
  <2>1. k \in 0..LastMatch /\ \A j \in 1..k : j \in Matches /\ j <= k
    BY ConstantFacts DEF Matches
  <2>2. \A j \in 1..k : SameRows(p, j, history', history)
    BY <1>10, <1>11, <2>1
  <2> QED BY <1>1, <2>2 DEF RowUntouched
<1>12. ASSUME NEW p \in Players, ~Due(p, LastMatch)' PROVE LadderUntouched(p)
  <2>1. LastMatch \in 0..LastMatch /\ \A j \in Matches : j <= LastMatch
    BY ConstantFacts DEF Matches
  <2> QED BY <1>1, <1>10, <1>12, <2>1 DEF LadderUntouched
<1>13. RowsRight' /\ LaddersRight'
  BY <1>5, <1>9, <1>11, <1>12, RightKept
<1>14. RowsUnique(history)' /\ RowsOfPlayers'
  BY <1>0, <1>4 DEF RowsUnique, RowsOfPlayers
<1>15. JobStillDue' /\ WavesAreOfOthers' /\ ReplayIsPriced' /\ (~Working => todo = {})'
       /\ (ruleset <= amendments)'
  BY <1>1, <1>7, JobsFacts DEF IInv, JobStillDue, WavesAreOfOthers, ReplayIsPriced
<1> QED BY <1>5, <1>13, <1>14, <1>15 DEF IInv

\* Nothing changes in a stuttering step.
LEMMA StutterInv == ASSUME IInv, UNCHANGED vars PROVE IInv'
<1>1. UNCHANGED <<status, winner, ruleset, amendments, effects, queue, faults, lost, job, prices, todo,
                  before, processed, history, ladder, damaged>>
  BY DEF vars, matchVars, queueVars, workerVars, tableVars
<1>2. TypeOK' /\ Waiting' = Waiting /\ (\A j : JobPlayers(j)' = JobPlayers(j)) /\ Working' = Working
  BY <1>1 DEF IInv, TypeOK, Waiting, JobPlayers, Working
<1>3. \A p, k : Due(p, k) => Due(p, k)'
  BY <1>1, <1>2, DueKept
<1>4. \A p \in Players : LadderUntouched(p) /\ \A k \in Matches : RowUntouched(p, k)
  BY <1>1, SameRowsRefl DEF LadderUntouched, RowUntouched
<1>5. RowsRight' /\ LaddersRight'
  BY <1>2, <1>3, <1>4, RightKept
<1>6. RowsUnique(history)' /\ RowsOfPlayers'
  BY <1>1, TablesUntouched DEF IInv
<1>7. JobStillDue' /\ WavesAreOfOthers' /\ ReplayIsPriced' /\ (~Working => todo = {})'
       /\ (ruleset <= amendments)'
  BY <1>1, <1>2 DEF IInv, JobStillDue, WavesAreOfOthers, ReplayIsPriced
<1> QED BY <1>2, <1>5, <1>6, <1>7 DEF IInv

-----------------------------------------------------------------------------
(* The theorems *)

\* Every step keeps the invariant.
LEMMA NextInv == ASSUME IInv, [Next]_vars PROVE IInv'
<1>1. ASSUME NEW m \in Matches, Handler(m) PROVE IInv'
  <2>1. CASE Finalize(m)
    BY <2>1, FinalizeInv
  <2>2. CASE CancelFinalized(m)
    BY <2>2, CancelFinalizedInv
  <2>3. CASE DeleteMatch(m)
    BY <2>3, DeleteMatchInv
  <2>4. CASE \E position \in Positions : CorrectFinalized(m, position) \/ Revive(m, position)
    BY <2>4, CorrectFinalizedInv, ReviveInv
  <2> QED BY <1>1, <2>1, <2>2, <2>3, <2>4 DEF Handler
<1>2. ASSUME Worker PROVE IInv'
  BY <1>2, StartJobInv, RecalculatePlayerInv, EndWaveInv, StartReplayInv, FinishReplayInv
     DEF Worker
<1>3. ASSUME NEW e \in Jobs, Enqueue(e) \/ LoseEnqueue(e) PROVE IInv'
  BY <1>3, EnqueueInv, LoseEnqueueInv
<1> QED BY <1>1, <1>2, <1>3, PropagateInv, JobFailsInv, StutterInv DEF Next

\* With nothing waiting or running nothing is due, so everything is right.
LEMMA SettledFacts ==
    ASSUME IInv, Settled, ~lost, ~damaged
    PROVE  \A p \in Players : LadderRight(p) /\ \A k \in Matches : RowRight(p, k)
<1>1. Waiting = {} /\ job = NoJob
  BY DEF Settled, Waiting, ToSet
<1>2. \A p, k : ~Due(p, k)
  BY <1>1, JobsFacts DEF Due, SeasonDue, Working
<1> QED BY <1>2 DEF IInv, RowsRight, LaddersRight

\* In every reachable state what is wrong with the history or the ladder of a player is due to
\* be rebuilt: by a job a handler is about to enqueue, one in the queue or the one the worker
\* runs (the handlers of match.service.ts and the jobs of mmr-recalculation.worker.ts, in any order).
THEOREM Invariance == Spec => []IInv
<1>1. Init => IInv
  BY InitInv
<1>2. IInv /\ [Next]_vars => IInv'
  BY NextInv
<1> QED BY <1>1, <1>2, PTL DEF Spec

\* Every variable keeps its type: whatever the worker and the handlers interleave, ratings
\* never fall below 1 and the queue holds jobs of the season.
THEOREM TypeCorrect == Spec => []TypeOK
<1>1. IInv => TypeOK
  BY DEF IInv
<1> QED BY <1>1, Invariance, PTL

\* Once the queue has drained, mmr_history has one row per player of each finalized match, with
\* its result and the current ruleset, and no other: recalculatePlayerMmr and the season replay
\* leave nothing behind, whatever finalizations, corrections, cancellations and dying workers
\* came between their steps.
THEOREM HistorySettles == Spec => []HistoryOfFinalizedMatches
<1>1. ASSUME IInv, Settled, ~lost, ~damaged
      PROVE  /\ \A p \in Players, m \in Matches :
                   HasRow(p, m, history) <=> status[m] = "finalized" /\ p \in PlayersOf(m)
             /\ RowsUnique(history)
             /\ \A r \in history : r.result = Result(r.player, r.match) /\ r.rules = ruleset
  <2>1. \A p \in Players, k \in Matches : RowRight(p, k)
    BY <1>1, SettledFacts
  <2>2. RowsUnique(history)
    BY <1>1 DEF IInv
  <2>3. ASSUME NEW r \in history
        PROVE  r.result = Result(r.player, r.match) /\ r.rules = ruleset
    <3>1. r.player \in Players /\ r.match \in Matches
      BY <1>1 DEF IInv, TypeOK, Rows
    <3>2. HasRow(r.player, r.match, history) /\ RowAt(r.player, r.match, history) = r
      BY <2>2, RowAtIs DEF RowsUnique
    <3> QED BY <2>1, <3>1, <3>2 DEF RowRight
  <2> QED BY <2>1, <2>2, <2>3 DEF RowRight
<1>2. IInv => HistoryOfFinalizedMatches
  BY <1>1 DEF HistoryOfFinalizedMatches, RowsUnique
<1> QED BY <1>2, Invariance, PTL

\* Once the queue has drained, each row of a player starts at the MMR where the row before it
\* ended, and player_mmr holds the MMR, the counters and the streak of the last one: rebuilding
\* one player from a checkpoint does not break the chain.
THEOREM ChainsSettle == Spec => []HistoryIsAChain
<1>1. ASSUME IInv, Settled, ~lost, ~damaged, NEW p \in Players PROVE Chain(p)
  <2>1. LadderRight(p) /\ \A k \in Matches : RowRight(p, k)
    BY <1>1, SettledFacts
  <2>2. ASSUME NEW r \in RowsOf(p, history)
        PROVE  r.before = StateAfter(p, history)[r.match - 1].mmr
    <3>1. r \in history /\ r.player = p /\ r.match \in Matches
      BY <1>1 DEF IInv, TypeOK, Rows, RowsOf
    <3>2. HasRow(p, r.match, history) /\ RowAt(p, r.match, history) = r
      BY <1>1, <3>1, RowAtIs DEF IInv, RowsUnique
    <3> QED BY <2>1, <3>1, <3>2 DEF RowRight
  <2> QED BY <2>1, <2>2 DEF Chain, LadderRight
<1>2. IInv => HistoryIsAChain
  BY <1>1 DEF HistoryIsAChain
<1> QED BY <1>2, Invariance, PTL
=============================================================================
