------------------------------ MODULE Bracket ------------------------------
(***************************************************************************)
(* Elimination draws: how a bracket is generated from the seeded entries,  *)
(* and how the finalization of a match, whose effects run after its own    *)
(* commit and one query at a time, seats the winner and the loser in the   *)
(* matches that follow.                                                    *)
(*                                                                         *)
(* An entry is its place in the list of seeds: the entries of a random     *)
(* draw are interchangeable, those of a championship-based draw are sorted *)
(* by their rank in the source standings.  A match is a pair of its round  *)
(* and its number in that round, both from 0, as in the code.              *)
(***************************************************************************)
EXTENDS Integers, FiniteSets, Sequences, SequencesExt

CONSTANTS
    DrawSizes,    \* numbers of entries a draw may have
    Formats,      \* brackets an organizer may ask for
    Seedings,     \* "random", "championship_based"
    MaxSource,    \* bound of the model: players ranked in the source championship
    MaxPlayed,    \* bound of the model: entries of the largest draw that is played
    AllowDraw,    \* tournaments.allowDraw
    Handlers,     \* requests that may finalize a match at the same time
    MaxDraws,     \* bound of the model: brackets generated
    MaxMishaps    \* bound of the model: requests that die half-way and matches reported while
                  \* only one side is known

ASSUME BracketAssumption ==
    /\ DrawSizes \subseteq Nat \ {0, 1}
    /\ Formats \subseteq {"single", "single_bronze", "double"}
    /\ Seedings \subseteq {"random", "championship_based"}
    /\ {MaxSource, MaxPlayed, MaxDraws, MaxMishaps} \subseteq Nat
    /\ AllowDraw \in BOOLEAN

VARIABLES
    draw,        \* bracket_configs and bracket_seeds
    sides,       \* match_sides of each match
    status,      \* matches.status
    winnerSide,  \* matches.winner_side
    handlers,    \* finalizations under way
    asked,       \* a generation has passed its checks, its transaction has still to commit
    draws,       \* brackets generated
    failures,    \* requests that died
    orphans,     \* history: finalized matches whose effects a failure cut short
    alone        \* history: matches reported while only one side was known

drawVars == <<draw, asked, draws>>
matchVars == <<sides, status, winnerSide>>
requestVars == <<handlers, failures, orphans, alone>>
vars == <<drawVars, matchVars, requestVars>>
-----------------------------------------------------------------------------
(* The shape of a bracket. *)

\* Math.pow(2, r): the slots of r rounds.
Pow2[r \in Nat] == IF r = 0 THEN 1 ELSE 2 * Pow2[r - 1]

\* Math.ceil(Math.log2(n)): the rounds of a winners' bracket of n entries.
RoundsFor(n) == CHOOSE r \in 0..n : n <= Pow2[r] /\ (r > 0 => Pow2[r - 1] < n)

\* Seeds of the first round in drawing order, for Pow2[r] slots.
BalancedSeedPositions[r \in Nat] ==
    IF r = 0 THEN <<1>>
    ELSE LET half == BalancedSeedPositions[r - 1]
         IN [i \in 1..Pow2[r] |-> IF i % 2 = 1 THEN half[(i + 1) \div 2]
                                               ELSE Pow2[r] + 1 - half[i \div 2]]

LosersRoundsCount(r) == 2 * (r - 1)

Round(index, count) == {index} \X (0..(count - 1))

WinnersMatches(r) == UNION {Round(k, Pow2[r - 1 - k]) : k \in 0..(r - 1)}

\* Two rounds of each length: the losers among themselves, then against those who drop in.
LosersMatches(r) ==
    UNION {Round(r + i, Pow2[r - 2 - (i \div 2)]) : i \in 0..(LosersRoundsCount(r) - 1)}

GrandFinal(r) == <<r + LosersRoundsCount(r), 0>>
BronzeMatch(r) == <<r, 0>>

MatchesOf(d) ==
    LET r == RoundsFor(d.size)
    IN CASE d.format = "none" -> {}
         [] d.format = "single" -> WinnersMatches(r)
         [] d.format = "single_bronze" ->
                WinnersMatches(r) \cup (IF r >= 2 THEN {BronzeMatch(r)} ELSE {})
         [] d.format = "double" -> WinnersMatches(r) \cup LosersMatches(r) \cup {GrandFinal(r)}

\* A link to a match that does not exist is not stored: the final of a draw of two.
Linked(d, target) == {target} \cap MatchesOf(d)

\* Where the winner of m goes: at most one match.
WinnerTo(d, m) ==
    LET r == RoundsFor(d.size)
        i == m[1] - r
    IN CASE m[1] < r - 1 -> Linked(d, <<m[1] + 1, m[2] \div 2>>)
         [] m[1] = r - 1 -> IF d.format = "double" THEN Linked(d, GrandFinal(r)) ELSE {}
         [] m[1] >= r /\ (d.format # "double" \/ m = GrandFinal(r)) -> {}
         [] OTHER -> Linked(d, <<m[1] + 1, IF i % 2 = 0 THEN m[2] ELSE m[2] \div 2>>)

\* Defect variant: the losers of the winners' round k skip a round.
LosersRoundLate(k) == IF k = 0 THEN 0 ELSE 2 * k

\* The losers' round the losers of the winners' round k drop into.
LosersRound(k) == IF k = 0 THEN 0 ELSE 2 * k - 1

\* Where the loser of m goes: at most one match.
LoserTo(d, m) ==
    LET r == RoundsFor(d.size)
    IN CASE d.format = "single_bronze" /\ m[1] + 2 = r -> Linked(d, BronzeMatch(r))
         [] d.format = "double" /\ m[1] < r ->
                Linked(d, <<r + LosersRound(m[1]), IF m[1] = 0 THEN m[2] \div 2 ELSE m[2]>>)
         [] OTHER -> {}

\* The entry with that seed number, if any.
Seeded(d, number) == {e \in 1..d.size : d.seeds[e] = number}

\* Defect variant: the seeds are paired in their order.
SlotInOrder(d, m, position) == 2 * m[2] + position

Slot(d, m, position) == BalancedSeedPositions[RoundsFor(d.size)][2 * m[2] + position]

\* Defect variant: the last seed is taken for a bye.
FirstSidesTooManyByes(d, m) ==
    LET at(p) == {[entry |-> e, position |-> p] : e \in Seeded(d, Slot(d, m, p))}
    IN IF m[1] # 0 THEN {}
       ELSE at(1) \cup (IF Slot(d, m, 2) >= d.size THEN {} ELSE at(2))

\* The first round: a slot whose number nobody holds stays empty.
FirstSides(d, m) ==
    LET at(p) == {[entry |-> e, position |-> p] : e \in Seeded(d, Slot(d, m, p))}
    IN IF m[1] # 0 THEN {}
       ELSE at(1) \cup (IF Slot(d, m, 2) > d.size THEN {} ELSE at(2))
-----------------------------------------------------------------------------
(* Seeding. *)

RandomSeeding(n) == [e \in 1..n |-> e]

\* The ranks of k entries in the source standings, best first.
RanksFound(k) ==
    {ranks \in [1..k -> 1..MaxSource] : \A i \in 1..(k - 1) : ranks[i] < ranks[i + 1]}

\* The first k entries are found in the source standings and keep their rank there, the
\* others are numbered from k + 1.
ChampionshipSeedings(n) ==
    UNION {{[i \in 1..n |-> IF i <= k THEN ranks[i] ELSE i] : ranks \in RanksFound(k)} :
              k \in 0..n}

\* bracket_seeds.seed_number is unique in a bracket: anything else fails the transaction.
StorableSeedings(seeding, n) ==
    IF seeding = "random" THEN {RandomSeeding(n)}
    ELSE {s \in ChampionshipSeedings(n) : IsInjective(s)}

NoDraw == [format |-> "none", size |-> 0, seeds |-> <<>>]
-----------------------------------------------------------------------------
(* Reading a match. *)

Idle == [at |-> "idle", match |-> <<0, 0>>, entry |-> 0, position |-> 0]

\* MatchDetail.sides[].isWinner: the winning side by its position.
Winners(m) == {s \in sides[m] : winnerSide[m] = (IF s.position = 1 THEN "A" ELSE "B")}
Losers(m) == sides[m] \ Winners(m)

\* sides.find(...): the sides come by position; two at the same position, in any order.
Found(candidates) == {s \in candidates : \A t \in candidates : s.position <= t.position}

Seats(m) == {s.entry : s \in sides[m]}

\* Only a match with a side can be reported: PATCH asks for both, POST for a player.
Reportable(m) == status[m] \in {"scheduled", "reported"} /\ sides[m] # {}

Started == \E m \in DOMAIN status : status[m] = "finalized"

\* Defect variants: the count of sides is off by one.
VacantForThree(m) == Cardinality(sides[m]) <= 2
VacantWhenEmpty(m) == Cardinality(sides[m]) < 1

\* The row a request may still insert when this many sides were read.
Vacant(m) == Cardinality(sides[m]) < 2
-----------------------------------------------------------------------------
Init ==
    /\ draw = NoDraw
    /\ sides = <<>> /\ status = <<>> /\ winnerSide = <<>>
    /\ handlers = [h \in Handlers |-> Idle]
    /\ asked = FALSE
    /\ draws = 0 /\ failures = 0
    /\ orphans = {} /\ alone = {}

\* canGenerateBracket, read outside the transaction that follows.
AskDraw ==
    /\ ~asked
    /\ draws < MaxDraws
    /\ ~Started
    /\ asked' = TRUE
    /\ UNCHANGED <<draw, draws, matchVars, requestVars>>

\* The transaction of generateBracket.  The previous bracket is deleted, and requests that
\* still hold one of its matches find no row to write to.
GenerateBracket(n, format, seeds) ==
    /\ asked
    /\ asked' = FALSE
    /\ draws' = draws + 1
    /\ draw' = [format |-> format, size |-> n, seeds |-> seeds]
    /\ sides' = [m \in MatchesOf(draw') |-> FirstSides(draw', m)]
    /\ status' = [m \in MatchesOf(draw') |-> "scheduled"]
    /\ winnerSide' = [m \in MatchesOf(draw') |-> "none"]
    /\ handlers' = [h \in Handlers |-> Idle]
    /\ orphans' = {} /\ alone' = {}
    /\ UNCHANGED failures

\* The transaction throws: no seed may be stored twice.
GenerateFails ==
    /\ asked
    /\ asked' = FALSE
    /\ UNCHANGED <<draw, draws, matchVars, requestVars>>

\* deleteBracket asks for no check on the matches.
DeleteBracket ==
    /\ draw # NoDraw
    /\ draw' = NoDraw
    /\ sides' = <<>> /\ status' = <<>> /\ winnerSide' = <<>>
    /\ handlers' = [h \in Handlers |-> Idle]
    /\ orphans' = {} /\ alone' = {}
    /\ UNCHANGED <<asked, draws, failures>>

\* A result is entered, or entered again, with its winning position (or a draw).
Report(m, w) ==
    /\ draw.size <= MaxPlayed
    /\ Reportable(m)
    /\ w = "draw" => AllowDraw
    /\ alone' = IF Cardinality(sides[m]) = 1 THEN alone \cup {m} ELSE alone \ {m}
    /\ failures + Cardinality(alone') <= MaxMishaps
    /\ winnerSide' = [winnerSide EXCEPT ![m] = w]
    /\ status' = [status EXCEPT ![m] = "reported"]
    /\ UNCHANGED <<drawVars, sides, handlers, failures, orphans>>
-----------------------------------------------------------------------------
(* A request that finalizes a match, from one query to the next. *)

MoveTo(h, request) == handlers' = [handlers EXCEPT ![h] = request]

\* finalizeMatch reads the status.
ReadStatus(h, m) ==
    /\ handlers[h] = Idle
    /\ status[m] = "reported"
    /\ MoveTo(h, [Idle EXCEPT !.at = "finalize", !.match = m])
    /\ UNCHANGED <<drawVars, matchVars, failures, orphans, alone>>

\* ... and writes it, whatever it is by now.
FinalizeMatch(h) ==
    LET m == handlers[h].match
    IN /\ handlers[h].at = "finalize"
       /\ status' = [status EXCEPT ![m] = "finalized"]
       /\ MoveTo(h, [handlers[h] EXCEPT !.at = "winner"])
       /\ UNCHANGED <<drawVars, sides, winnerSide, failures, orphans, alone>>

Target(d, outcome, m) == IF outcome = "winner" THEN WinnerTo(d, m) ELSE LoserTo(d, m)
\* Defect variant: the first side is taken for the loser.
CandidatesUnchecked(outcome, m) == Found(IF outcome = "winner" THEN Winners(m) ELSE sides[m])

Candidates(outcome, m) == Found(IF outcome = "winner" THEN Winners(m) ELSE Losers(m))
Seating(outcome) == IF outcome = "winner" THEN "seat_winner" ELSE "seat_loser"

\* Defect variant: the loser is forgotten once the winner is seated.
ContinueWithoutLoser(h, outcome) == MoveTo(h, Idle)

\* Once the winner is dealt with, the loser is, if a link waits for it; then the request ends.
Continue(h, outcome) ==
    LET m == handlers[h].match
    IN MoveTo(h, IF outcome = "winner" /\ LoserTo(draw, m) # {}
                 THEN [Idle EXCEPT !.at = "loser", !.match = m] ELSE Idle)

Seatable(s, t) == s.entry \notin Seats(t) /\ Vacant(t)

\* advanceWinnerToNextRound and advanceLoserToNextRound, up to their read of the next
\* match's sides: the position of the row to insert is computed here.
ReadNextSides(h, outcome) ==
    LET m == handlers[h].match
        moves == Candidates(outcome, m) \X Target(draw, outcome, m)
    IN /\ handlers[h].at = outcome
       /\ \/ \E s \in Candidates(outcome, m), t \in Target(draw, outcome, m) :
               /\ Seatable(s, t)
               /\ MoveTo(h, [at |-> Seating(outcome), match |-> m, entry |-> s.entry,
                             position |-> Cardinality(sides[t]) + 1])
          \/ /\ moves = {} \/ \E move \in moves : ~Seatable(move[1], move[2])
             /\ Continue(h, outcome)
       /\ UNCHANGED <<drawVars, matchVars, failures, orphans, alone>>

\* ... and the insertion. The unique key on match and entry fails a second one, and the
\* request with it.
InsertSide(h, outcome) ==
    LET row == [entry |-> handlers[h].entry, position |-> handlers[h].position]
    IN /\ handlers[h].at = Seating(outcome)
       /\ \E t \in Target(draw, outcome, handlers[h].match) :
            \/ /\ row.entry \in Seats(t)
               /\ MoveTo(h, Idle)
               /\ UNCHANGED sides
            \/ /\ row.entry \notin Seats(t)
               /\ sides' = [sides EXCEPT ![t] = @ \cup {row}]
               /\ Continue(h, outcome)
       /\ UNCHANGED <<drawVars, status, winnerSide, failures, orphans, alone>>

\* A query fails or the server stops: nothing takes the effects up again.
RequestDies(h) ==
    /\ handlers[h].at \notin {"idle", "finalize"}
    /\ failures + Cardinality(alone) < MaxMishaps
    /\ failures' = failures + 1
    /\ orphans' = orphans \cup {handlers[h].match}
    /\ MoveTo(h, Idle)
    /\ UNCHANGED <<drawVars, matchVars, alone>>

Next ==
    \/ AskDraw
    \/ \E seeding \in Seedings, n \in DrawSizes, format \in Formats :
         \E seeds \in StorableSeedings(seeding, n) : GenerateBracket(n, format, seeds)
    \/ GenerateFails
    \/ DeleteBracket
    \/ \E m \in DOMAIN status, w \in {"A", "B", "draw"} : Report(m, w)
    \/ \E h \in Handlers :
         \/ \E m \in DOMAIN status : ReadStatus(h, m)
         \/ FinalizeMatch(h)
         \/ \E outcome \in {"winner", "loser"} : ReadNextSides(h, outcome) \/ InsertSide(h, outcome)
         \/ RequestDies(h)

Spec == Init /\ [][Next]_vars
-----------------------------------------------------------------------------
(* Properties. *)

\* The matches of the draw.
Matches == DOMAIN status

SidesType == [entry : 1..draw.size, position : {1, 2}]

\* Types of the variables; the sides of a match are of different entries (its unique key).
TypeOK ==
    /\ draw = NoDraw \/ /\ draw.format \in Formats /\ draw.size \in DrawSizes
                        /\ draw.seeds \in Seq(Nat \ {0}) /\ Len(draw.seeds) = draw.size
    /\ sides \in [Matches -> SUBSET SidesType]
    /\ \A m \in Matches : \A s, t \in sides[m] : s.entry = t.entry => s = t
    /\ status \in [MatchesOf(draw) -> {"scheduled", "reported", "finalized"}]
    /\ winnerSide \in [Matches -> {"none", "A", "B", "draw"}]
    /\ \A h \in Handlers : handlers[h] = Idle \/ handlers[h].match \in Matches
    /\ asked \in BOOLEAN
    /\ draws \in 0..MaxDraws /\ failures \in 0..MaxMishaps
    /\ orphans \subseteq Matches /\ alone \subseteq Matches

Feeders(m) ==
    {feed \in Matches \X {"winner", "loser"} : m \in Target(draw, feed[2], feed[1])}

\* The draw as it was generated: no result yet.
Fresh == \A m \in Matches : status[m] = "scheduled"

\* Whatever its size and format, a bracket has neither a match that waits for a side nobody
\* sends nor one that is sent a third (winner and loser links of the generation).
FullyFed == Fresh => \A m \in Matches : m[1] # 0 => Cardinality(Feeders(m)) = 2

FirstRound == {m \in Matches : m[1] = 0}

\* A draw places every entry in exactly one match of the first round, each of which has a
\* player: byes never meet (slots of the first round against the seeds).
EveryEntryIsDrawn ==
    draw # NoDraw /\ Fresh =>
        /\ \A e \in 1..draw.size : Cardinality({m \in FirstRound : e \in Seats(m)}) = 1
        /\ \A m \in FirstRound : sides[m] # {}

\* The match of the winners' bracket that a match of the first round leads to.
Path(m) ==
    LET step[k \in 0..(RoundsFor(draw.size) - 1)] ==
            IF k = 0 THEN m ELSE CHOOSE t \in WinnerTo(draw, step[k - 1]) : TRUE
    IN step

\* "Top seeds are kept apart as long as possible": two of the 2^k best cannot meet before
\* the round where 2^k players are left (comment of generateStandardBracketPairings).
TopSeedsAreKeptApart ==
    LET r == RoundsFor(draw.size)
    IN draw # NoDraw /\ Fresh =>
        \A m, n \in FirstRound : m # n =>
            \A e \in Seats(m), f \in Seats(n), k \in 1..(r - 1) :
                draw.seeds[e] <= Pow2[k] /\ draw.seeds[f] <= Pow2[k] =>
                    \A j \in 0..(r - 1 - k) : Path(m)[j] # Path(n)[j]

\* The finalized matches an entry has not won.
Losses(e) ==
    {m \in Matches : status[m] = "finalized" /\ \E s \in Losers(m) : s.entry = e}

\* Losing knocks out: nobody waits for a match of the winners' bracket after a defeat (the
\* grand final: after two), and whoever is in the losers' bracket, or in the bronze match,
\* has exactly one, whatever requests overlap or die (links and advancement together).
LossesKnockOut ==
    \A m \in {n \in Matches : status[n] # "finalized"} :
        \A s \in sides[m] :
            LET r == RoundsFor(draw.size)
            IN CASE m[1] < r -> Losses(s.entry) = {}
                 [] draw.format = "double" /\ m = GrandFinal(r) -> Cardinality(Losses(s.entry)) <= 1
                 [] OTHER -> Cardinality(Losses(s.entry)) = 1

Positions(m) == {s.position : s \in sides[m]}

\* "A match has exactly one side A (position 1) and one side B (position 2)" (comment of
\* matchSidesSchema): of two sides, none stands in the other's place.
OneSideAndOneSideB == \A m \in Matches : Cardinality(sides[m]) = 2 => Positions(m) = {1, 2}

\* A request has yet to seat somebody from match m.
UnderWay(m) == \E h \in Handlers : handlers[h] # Idle /\ handlers[h].match = m

\* No finalization is lost: once the requests on a match are over, if none died, whoever won
\* and whoever lost it are seated where the links say, also when both feeders of a match, or
\* the same match twice, are finalized at the same time (unless two entries stand in the
\* same place, which leaves open who is found to have won).
EverybodyMovesOn ==
  OneSideAndOneSideB =>
    \A m \in {n \in Matches : status[n] = "finalized" /\ n \notin orphans /\ ~UnderWay(n)
                               /\ (n \in alone => Cardinality(sides[n]) = 1)} :
        \A outcome \in {"winner", "loser"} :
            Candidates(outcome, m) # {} =>
                \A t \in Target(draw, outcome, m) :
                    \E s \in Candidates(outcome, m) : s.entry \in Seats(t)

\* With the same exception, no match gets a third side, however the requests that count its
\* sides overlap.
NoThirdSide == OneSideAndOneSideB => \A m \in Matches : Cardinality(sides[m]) <= 2

FullDraw == draw # NoDraw /\ draw.size = Pow2[RoundsFor(draw.size)]

\* As long as every result names a winner, no request died and no two entries stand in the
\* same place, a draw without byes never stalls: a match with both its sides is open until
\* all of them are over.
DrawNeverStalls ==
    /\ FullDraw
    /\ \A m \in Matches : ~UnderWay(m) /\ m \notin orphans \cup alone
    /\ \A m \in Matches : status[m] = "finalized" => winnerSide[m] # "draw"
    /\ OneSideAndOneSideB
    => \/ \E m \in Matches : status[m] # "finalized" /\ Cardinality(sides[m]) = 2
       \/ \A m \in Matches : status[m] = "finalized"
=============================================================================
