--------------------------- MODULE BracketProofs ---------------------------
(***************************************************************************)
(* Proofs about Bracket for any sizes and formats of draws and any number  *)
(* of requests that finalize matches at the same time.                     *)
(*                                                                         *)
(* Base says where everybody comes from: whoever is in a match was drawn   *)
(* there, or a finalized match sends them there (Provenance), and what a   *)
(* finalized match sends never changes, since a side that comes late finds *)
(* the place of the first one taken (PlaceOne).  So an entry has one way   *)
(* through the bracket (Way), no match is sent the same entry from two     *)
(* sides (OneSender), and nobody plays on after a defeat.                  *)
(*                                                                         *)
(* NobodyForgotten says who looks after whoever has yet to be seated: a    *)
(* request, which is there until it is done or dies.                       *)
(***************************************************************************)
EXTENDS BracketDrawProofs

-----------------------------------------------------------------------------
(* Types *)

\* The stages of a request under way.
Requested == {"finalize", "winner", "seat_winner", "loser", "seat_loser"}

\* The draw is one that generateBracket stores.
DrawRight ==
    \/ draw = NoDraw
    \/ /\ draw.format \in Formats /\ draw.size \in DrawSizes
       /\ Elimination(draw) /\ Seeds(draw)
       /\ Seedings \subseteq {"random"} => Shuffled(draw)

\* The rows of the matches are of its matches, and of its entries.
MatchesRight ==
    /\ sides \in [MatchesOf(draw) -> SUBSET SidesType]
    /\ \A m \in MatchesOf(draw) :
         IsFiniteSet(sides[m]) /\ \A s, t \in sides[m] : s.entry = t.entry => s = t
    /\ status \in [MatchesOf(draw) -> {"scheduled", "reported", "finalized"}]
    /\ winnerSide \in [MatchesOf(draw) -> {"none", "A", "B", "draw"}]

\* Requests are about matches of the draw.
RequestsRight ==
    /\ handlers \in [Handlers -> [at : Requested \cup {"idle"}, match : Nat \X Nat, entry : Nat,
                                  position : Nat]]
    /\ \A h \in Handlers :
         /\ handlers[h] = Idle
            \/ (handlers[h].at \in Requested /\ handlers[h].match \in MatchesOf(draw))
         /\ handlers[h].at \in {"seat_winner", "seat_loser"} =>
              handlers[h].entry \in 1..draw.size /\ handlers[h].position \in {1, 2}

\* The counters keep to their bounds.
CountsRight ==
    /\ asked \in BOOLEAN /\ draws \in 0..MaxDraws /\ (asked => draws < MaxDraws)
    /\ failures \in 0..MaxMishaps
    /\ orphans \subseteq MatchesOf(draw)
    /\ alone \subseteq MatchesOf(draw) /\ IsFiniteSet(alone)

\* Types, in the detail the proofs need.
TypeInv == DrawRight /\ MatchesRight /\ RequestsRight /\ CountsRight

\* Without a draw there are no matches.
LEMMA NoMatches == MatchesOf(NoDraw) = {}
BY DEF MatchesOf, NoDraw

\* Where there are matches, there is a draw.
LEMMA DrawFacts ==
    ASSUME DrawRight, MatchesOf(draw) # {}
    PROVE  draw # NoDraw /\ Elimination(draw) /\ Seeds(draw)
BY NoMatches DEF DrawRight

\* The types in detail give TypeOK.
LEMMA Typed ==
    ASSUME TypeInv
    PROVE  /\ TypeOK
           /\ Matches = MatchesOf(draw)
<1> USE DEF TypeInv
<1>1. Matches = MatchesOf(draw)
  BY DEF Matches, MatchesRight
<1>2. draw = NoDraw \/ /\ draw.format \in Formats /\ draw.size \in DrawSizes
                       /\ draw.seeds \in Seq(Nat \ {0}) /\ Len(draw.seeds) = draw.size
  <2>1. CASE draw = NoDraw
    BY <2>1
  <2>2. CASE draw # NoDraw
    <3>1. draw.size \in Nat /\ draw.seeds \in [1..draw.size -> Nat \ {0}]
      BY <2>2 DEF DrawRight, Elimination, Seeds
    <3>2. draw.seeds \in Seq(Nat \ {0}) /\ Len(draw.seeds) = draw.size
      BY <3>1
    <3> QED BY <2>2, <3>2 DEF DrawRight
  <2> QED BY <2>1, <2>2
<1> QED BY <1>1, <1>2 DEF TypeOK, MatchesRight, RequestsRight, CountsRight

\* An idle request is typed.
LEMMA IdleType ==
    Idle \in [at : Requested \cup {"idle"}, match : Nat \X Nat, entry : Nat, position : Nat]
BY DEF Idle

\* What generateBracket stores: seeds without repetition, and all of them if random.
LEMMA SeedsStored ==
    ASSUME NEW seeding \in Seedings, NEW n \in DrawSizes, NEW format \in Formats,
           NEW seeds \in StorableSeedings(seeding, n), NEW d,
           d = [format |-> format, size |-> n, seeds |-> seeds]
    PROVE  /\ Elimination(d) /\ Seeds(d)
           /\ seeding = "random" => Shuffled(d)
<1>1. n \in Nat /\ n >= 2 /\ format \in {"single", "single_bronze", "double"} /\ MaxSource \in Nat
      /\ seeding \in {"random", "championship_based"}
  BY BracketAssumption
<1>2. Elimination(d)
  BY <1>1 DEF Elimination
<1>3. CASE seeding = "random"
  <2>1. Shuffled(d)
    BY <1>3 DEF StorableSeedings, Shuffled
  <2> QED BY <1>2, <2>1, ShuffledSeeds
<1>4. CASE seeding # "random"
  <2>1. seeds \in ChampionshipSeedings(n) /\ IsInjective(seeds)
    BY <1>4 DEF StorableSeedings
  <2>2. PICK k \in 0..n :
          seeds \in {[i \in 1..n |-> IF i <= k THEN ranks[i] ELSE i] : ranks \in RanksFound(k)}
    BY <2>1 DEF ChampionshipSeedings
  <2>3. PICK ranks \in RanksFound(k) : seeds = [i \in 1..n |-> IF i <= k THEN ranks[i] ELSE i]
    BY <2>2
  <2>4. ranks \in [1..k -> 1..MaxSource]
    BY <2>3 DEF RanksFound
  <2>5. seeds \in [1..n -> Nat \ {0}]
    <3>1. ASSUME NEW i \in 1..n
          PROVE  (IF i <= k THEN ranks[i] ELSE i) \in Nat \ {0}
      <4>1. CASE i <= k
        <5>1. i \in 1..k
          BY <1>1, <2>2, <4>1
        <5> QED BY <1>1, <2>4, <4>1, <5>1
      <4>2. CASE ~(i <= k)
        BY <1>1, <4>2
      <4> QED BY <4>1, <4>2
    <3> QED BY <2>3, <3>1
  <2>6. \A e, f \in 1..n : seeds[e] = seeds[f] => e = f
    BY <2>1, <2>5 DEF IsInjective
  <2> QED BY <1>2, <1>4, <2>5, <2>6 DEF Seeds
<1> QED BY <1>3, <1>4

\* At the start there is no draw.
LEMMA TypeInit == Init => TypeInv
<1> SUFFICES ASSUME Init PROVE TypeInv
  OBVIOUS
<1> USE DEF Init
<1>1. MatchesOf(draw) = {}
  BY NoMatches
<1>2. DrawRight
  BY DEF DrawRight
<1>3. MatchesRight
  BY <1>1 DEF MatchesRight
<1>4. RequestsRight
  BY IdleType DEF RequestsRight, Idle
<1>5. CountsRight
  <2>1. 0 \in 0..MaxDraws /\ 0 \in 0..MaxMishaps
    BY BracketAssumption
  <2>2. IsFiniteSet(alone)
    BY FS_EmptySet
  <2> QED BY <2>1, <2>2 DEF CountsRight
<1> QED BY <1>2, <1>3, <1>4, <1>5 DEF TypeInv

\* A request takes a step of its own.
LEMMA RequestMoves ==
    ASSUME TypeInv, NEW h \in Handlers, NEW req, MoveTo(h, req), draw' = draw,
           \/ req = Idle
           \/ /\ req \in [at : Requested, match : MatchesOf(draw), entry : Nat, position : Nat]
              /\ req.at \in {"seat_winner", "seat_loser"} =>
                   req.entry \in 1..draw.size /\ req.position \in {1, 2}
    PROVE  /\ RequestsRight'
           /\ handlers' \in [Handlers -> [at : Requested \cup {"idle"}, match : Nat \X Nat,
                                          entry : Nat, position : Nat]]
           /\ handlers'[h] = req
           /\ \A g \in Handlers \ {h} : handlers'[g] = handlers[g]
<1> USE DEF TypeInv, RequestsRight
<1>1. MatchesOf(draw) \subseteq Nat \X Nat
  <2>1. CASE MatchesOf(draw) = {}
    BY <2>1
  <2>2. CASE MatchesOf(draw) # {}
    BY <2>2, DrawFacts, MatchesMembers
  <2> QED BY <2>1, <2>2
<1>2. req \in [at : Requested \cup {"idle"}, match : Nat \X Nat, entry : Nat, position : Nat]
  BY <1>1, IdleType
<1>3. /\ handlers' \in [Handlers -> [at : Requested \cup {"idle"}, match : Nat \X Nat,
                                     entry : Nat, position : Nat]]
      /\ handlers'[h] = req
      /\ \A g \in Handlers \ {h} : handlers'[g] = handlers[g]
  BY <1>2 DEF MoveTo
<1>4. ASSUME NEW g \in Handlers
      PROVE  /\ handlers'[g] = Idle
                \/ (handlers'[g].at \in Requested /\ handlers'[g].match \in MatchesOf(draw))
             /\ handlers'[g].at \in {"seat_winner", "seat_loser"} =>
                  handlers'[g].entry \in 1..draw.size /\ handlers'[g].position \in {1, 2}
  <2>1. CASE g = h
    BY <1>3, <2>1 DEF Idle
  <2>2. CASE g # h
    BY <1>3, <2>2
  <2> QED BY <2>1, <2>2
<1> QED BY <1>3, <1>4

\* A new bracket, or none: no result, no request.
LEMMA FreshType ==
    ASSUME TypeInv, DrawRight',
           sides' = [m \in MatchesOf(draw') |-> FirstSides(draw', m)],
           status' = [m \in MatchesOf(draw') |-> "scheduled"],
           winnerSide' = [m \in MatchesOf(draw') |-> "none"],
           handlers' = [h \in Handlers |-> Idle]
    PROVE  MatchesRight' /\ RequestsRight'
<1> DEFINE M == MatchesOf(draw')
<1>1. ASSUME NEW m \in M
      PROVE  /\ FirstSides(draw', m) \in SUBSET SidesType'
             /\ IsFiniteSet(FirstSides(draw', m))
             /\ \A s, t \in FirstSides(draw', m) : s.entry = t.entry => s = t
  <2>1. Elimination(draw') /\ Seeds(draw')
    BY <1>1, NoMatches DEF DrawRight
  <2>2. CASE m[1] = 0
    <3>1. IsFiniteSet(FirstSides(draw', m))
      BY <2>1, <2>2, FirstSidesFinite
    <3>2. FirstSides(draw', m) \in SUBSET SidesType'
      BY <2>1, <2>2, FirstSidesFacts DEF SidesType
    <3>3. \A s, t \in FirstSides(draw', m) : s.entry = t.entry => s = t
      BY <2>1, <2>2, FirstSidesFacts
    <3> QED BY <3>1, <3>2, <3>3
  <2>3. CASE m[1] # 0
    BY <2>3, FirstSidesLater, FS_EmptySet
  <2> QED BY <2>2, <2>3
<1>2. MatchesRight'
  BY <1>1 DEF MatchesRight
<1>3. RequestsRight'
  BY IdleType DEF RequestsRight, Idle
<1> QED BY <1>2, <1>3

\* A new draw is typed.
LEMMA TypeGenerate ==
    ASSUME TypeInv, NEW seeding \in Seedings, NEW n \in DrawSizes, NEW format \in Formats,
           NEW seeds \in StorableSeedings(seeding, n), GenerateBracket(n, format, seeds)
    PROVE  TypeInv'
<1> USE DEF GenerateBracket
<1>1. Elimination(draw') /\ Seeds(draw') /\ (seeding = "random" => Shuffled(draw'))
  BY SeedsStored
<1>2. DrawRight'
  BY <1>1 DEF DrawRight
<1>3. MatchesRight' /\ RequestsRight'
  BY <1>2, FreshType
<1>4. CountsRight'
  <2>1. draws < MaxDraws /\ draws \in 0..MaxDraws /\ MaxDraws \in Nat /\ failures \in 0..MaxMishaps
    BY BracketAssumption DEF TypeInv, CountsRight
  <2>2. draws' \in 0..MaxDraws
    BY <2>1
  <2>3. IsFiniteSet(alone')
    BY FS_EmptySet
  <2> QED BY <2>1, <2>2, <2>3 DEF CountsRight
<1> QED BY <1>2, <1>3, <1>4 DEF TypeInv

\* So is none.
LEMMA TypeDelete ==
    ASSUME TypeInv, DeleteBracket
    PROVE  TypeInv'
<1> USE DEF DeleteBracket
<1>0. MatchesOf(draw') = {}
  BY NoMatches
<1>1. DrawRight'
  BY DEF DrawRight
<1>2. MatchesRight'
  BY <1>0 DEF MatchesRight
<1>3. RequestsRight'
  BY IdleType DEF RequestsRight, Idle
<1>4. CountsRight'
  BY FS_EmptySet DEF TypeInv, CountsRight
<1> QED BY <1>1, <1>2, <1>3, <1>4 DEF TypeInv

\* A result leaves the types right.
LEMMA TypeReport ==
    ASSUME TypeInv, NEW m \in DOMAIN status, NEW w \in {"A", "B", "draw"}, Report(m, w)
    PROVE  TypeInv'
<1> USE DEF Report
<1>1. m \in MatchesOf(draw)
  BY DEF TypeInv, MatchesRight
<1>2. DrawRight' /\ RequestsRight'
  BY DEF TypeInv, DrawRight, RequestsRight, drawVars
<1>3. MatchesRight'
  BY <1>1 DEF TypeInv, MatchesRight, drawVars, SidesType
<1>4. IsFiniteSet(alone') /\ alone' \subseteq MatchesOf(draw)
  <2>1. IsFiniteSet(alone \cup {m}) /\ IsFiniteSet(alone \ {m}) /\ alone \subseteq MatchesOf(draw)
    BY FS_AddElement, FS_RemoveElement DEF TypeInv, CountsRight
  <2> QED BY <1>1, <2>1
<1>5. CountsRight'
  BY <1>4 DEF TypeInv, CountsRight, drawVars
<1> QED BY <1>2, <1>3, <1>5 DEF TypeInv

\* A step that only moves requests does.
LEMMA TypeRequest ==
    ASSUME TypeInv, RequestsRight', UNCHANGED <<drawVars, matchVars, failures, orphans, alone>>
    PROVE  TypeInv'
<1>1. DrawRight'
  BY DEF TypeInv, DrawRight, drawVars
<1>2. MatchesRight'
  BY DEF TypeInv, MatchesRight, drawVars, matchVars, SidesType
<1>3. CountsRight'
  BY DEF TypeInv, CountsRight, drawVars
<1> QED BY <1>1, <1>2, <1>3 DEF TypeInv

\* Reading the status does.
LEMMA TypeReadStatus ==
    ASSUME TypeInv, NEW h \in Handlers, NEW m \in DOMAIN status, ReadStatus(h, m)
    PROVE  TypeInv'
<1> DEFINE req == [Idle EXCEPT !.at = "finalize", !.match = m]
<1>1. m \in MatchesOf(draw)
  BY DEF TypeInv, MatchesRight
<1>2. /\ req \in [at : Requested, match : MatchesOf(draw), entry : Nat, position : Nat]
      /\ req.at \notin {"seat_winner", "seat_loser"}
  BY <1>1 DEF Idle, Requested
<1>3. MoveTo(h, req) /\ draw' = draw
  BY DEF ReadStatus, drawVars
<1> HIDE DEF req
<1>4. RequestsRight'
  BY <1>2, <1>3, RequestMoves
<1> QED BY <1>4, TypeRequest DEF ReadStatus

\* A request at work: what it holds.
LEMMA RequestHolds ==
    ASSUME TypeInv, NEW h \in Handlers, handlers[h].at # "idle"
    PROVE  /\ handlers[h].match \in MatchesOf(draw)
           /\ handlers[h].at \in Requested
           /\ handlers[h].entry \in Nat /\ handlers[h].position \in Nat
           /\ handlers[h] \in [at : Requested, match : MatchesOf(draw), entry : Nat, position : Nat]
           /\ Elimination(draw) /\ Seeds(draw) /\ draw # NoDraw
<1>1. handlers[h].match \in MatchesOf(draw) /\ handlers[h].at \in Requested
  BY DEF TypeInv, RequestsRight, Idle
<1>2. handlers[h] \in [at : Requested \cup {"idle"}, match : Nat \X Nat, entry : Nat,
                       position : Nat]
  BY DEF TypeInv, RequestsRight
<1> QED BY <1>1, <1>2, DrawFacts DEF TypeInv

\* Writing the status does.
LEMMA TypeFinalize ==
    ASSUME TypeInv, NEW h \in Handlers, FinalizeMatch(h)
    PROVE  TypeInv'
<1> DEFINE m == handlers[h].match
           req == [handlers[h] EXCEPT !.at = "winner"]
<1>1. /\ m \in MatchesOf(draw)
      /\ handlers[h] \in [at : Requested, match : MatchesOf(draw), entry : Nat, position : Nat]
  BY RequestHolds DEF FinalizeMatch
<1>2. /\ req \in [at : Requested, match : MatchesOf(draw), entry : Nat, position : Nat]
      /\ req.at \notin {"seat_winner", "seat_loser"}
  BY <1>1 DEF Requested
<1>3. MoveTo(h, req) /\ draw' = draw /\ status' = [status EXCEPT ![m] = "finalized"]
      /\ UNCHANGED <<drawVars, sides, winnerSide, failures, orphans, alone>>
  BY DEF FinalizeMatch, drawVars
<1> HIDE DEF req
<1>4. RequestsRight'
  BY <1>2, <1>3, RequestMoves
<1>5. DrawRight'
  BY <1>3 DEF TypeInv, DrawRight, drawVars
<1>6. MatchesRight'
  BY <1>1, <1>3 DEF TypeInv, MatchesRight, drawVars, SidesType
<1>7. CountsRight'
  BY <1>3 DEF TypeInv, CountsRight, drawVars
<1> QED BY <1>4, <1>5, <1>6, <1>7 DEF TypeInv

\* Going on to the loser, or ending, does.
LEMMA TypeContinue ==
    ASSUME TypeInv, NEW h \in Handlers, NEW o \in Outcomes, handlers[h].at # "idle",
           Continue(h, o), draw' = draw
    PROVE  RequestsRight'
<1> DEFINE req == IF o = "winner" /\ LoserTo(draw, handlers[h].match) # {}
                  THEN [Idle EXCEPT !.at = "loser", !.match = handlers[h].match] ELSE Idle
<1>1. handlers[h].match \in MatchesOf(draw)
  BY RequestHolds
<1>2. \/ req = Idle
      \/ /\ req \in [at : Requested, match : MatchesOf(draw), entry : Nat, position : Nat]
         /\ req.at \notin {"seat_winner", "seat_loser"}
  BY <1>1 DEF Idle, Requested
<1>3. MoveTo(h, req)
  BY DEF Continue
<1> HIDE DEF req
<1> QED BY <1>2, <1>3, RequestMoves

\* Winner and loser are sides of the match.
LEMMA CandidatesAreSides ==
    ASSUME NEW o, NEW m
    PROVE  Candidates(o, m) \subseteq sides[m]
BY DEF Candidates, Found, Winners, Losers

\* The position a request computes is 1 or 2: it saw fewer than two sides.
LEMMA TypeReadNext ==
    ASSUME TypeInv, NEW h \in Handlers, NEW o \in Outcomes, ReadNextSides(h, o)
    PROVE  TypeInv'
<1> DEFINE m == handlers[h].match
<1>1. handlers[h].at = o /\ o # "idle" /\ draw' = draw
      /\ UNCHANGED <<drawVars, matchVars, failures, orphans, alone>>
  BY DEF ReadNextSides, drawVars, Outcomes
<1>2. m \in MatchesOf(draw) /\ Elimination(draw)
  BY <1>1, RequestHolds
<1>3. CASE Continue(h, o)
  BY <1>1, <1>3, TypeContinue, TypeRequest
<1>4. CASE \E s \in Candidates(o, m), t \in Target(draw, o, m) :
             /\ Seatable(s, t)
             /\ MoveTo(h, [at |-> Seating(o), match |-> m, entry |-> s.entry,
                           position |-> Cardinality(sides[t]) + 1])
  <2>1. PICK s \in Candidates(o, m), t \in Target(draw, o, m) :
             /\ Seatable(s, t)
             /\ MoveTo(h, [at |-> Seating(o), match |-> m, entry |-> s.entry,
                           position |-> Cardinality(sides[t]) + 1])
    BY <1>4
  <2> DEFINE req == [at |-> Seating(o), match |-> m, entry |-> s.entry,
                     position |-> Cardinality(sides[t]) + 1]
  <2>2. s.entry \in 1..draw.size
    BY <1>2, CandidatesAreSides DEF TypeInv, MatchesRight, SidesType
  <2>3. t \in MatchesOf(draw)
    BY <1>2, TargetFacts
  <2>4. Cardinality(sides[t]) \in Nat /\ Cardinality(sides[t]) < 2
    BY <2>1, <2>3, FS_CardinalityType DEF TypeInv, MatchesRight, Seatable, Vacant
  <2>5. req.position \in {1, 2} /\ req.entry \in 1..draw.size /\ req.at \in Requested
    BY <2>2, <2>4 DEF Seating, Requested
  <2>6. req \in [at : Requested, match : MatchesOf(draw), entry : Nat, position : Nat]
    BY <1>2, <2>5 DEF Elimination
  <2>7. MoveTo(h, req)
    BY <2>1
  <2> HIDE DEF req
  <2>8. RequestsRight'
    BY <1>1, <2>5, <2>6, <2>7, RequestMoves
  <2> QED BY <1>1, <2>8, TypeRequest
<1> QED BY <1>3, <1>4 DEF ReadNextSides

\* A row is added to a match.
LEMMA RowAdded ==
    ASSUME TypeInv, NEW h \in Handlers, NEW o \in Outcomes, InsertSide(h, o),
           NEW t \in Target(draw, o, handlers[h].match), handlers[h].entry \notin Seats(t),
           sides' = [sides EXCEPT ![t] = @ \cup {[entry |-> handlers[h].entry,
                                                  position |-> handlers[h].position]}]
    PROVE  MatchesRight' /\ t \in MatchesOf(draw)
<1> DEFINE row == [entry |-> handlers[h].entry, position |-> handlers[h].position]
<1>1. handlers[h].at = Seating(o) /\ UNCHANGED <<drawVars, status, winnerSide>>
  BY DEF InsertSide
<1>2. handlers[h].at \in {"seat_winner", "seat_loser"}
  BY <1>1 DEF Seating
<1>3. handlers[h].match \in MatchesOf(draw) /\ Elimination(draw) /\ row \in SidesType
  BY <1>2, RequestHolds DEF TypeInv, RequestsRight, SidesType
<1>4. t \in MatchesOf(draw)
  BY <1>3, TargetFacts
<1>5. sides[t] \in SUBSET SidesType /\ IsFiniteSet(sides[t])
      /\ \A s, u \in sides[t] : s.entry = u.entry => s = u
  BY <1>4 DEF TypeInv, MatchesRight
<1>6. sides'[t] = sides[t] \cup {row} /\ \A m \in MatchesOf(draw) \ {t} : sides'[m] = sides[m]
  BY <1>4 DEF TypeInv, MatchesRight
<1>7. row.entry \notin Seats(t)
  OBVIOUS
<1> HIDE DEF row
<1>8. IsFiniteSet(sides'[t])
  BY <1>5, <1>6, FS_AddElement
<1>9. \A s, u \in sides'[t] : s.entry = u.entry => s = u
  BY <1>5, <1>6, <1>7 DEF Seats
<1>10. sides' \in [MatchesOf(draw) -> SUBSET SidesType]
  BY <1>3, <1>4, <1>5, <1>6 DEF TypeInv, MatchesRight, row
<1>11. draw' = draw
  BY <1>1 DEF drawVars
<1>12. ASSUME NEW m \in MatchesOf(draw)
       PROVE  IsFiniteSet(sides'[m]) /\ \A s, u \in sides'[m] : s.entry = u.entry => s = u
  BY <1>6, <1>8, <1>9 DEF TypeInv, MatchesRight
<1> QED BY <1>1, <1>4, <1>10, <1>11, <1>12 DEF TypeInv, MatchesRight, SidesType

\* An insertion leaves the types right: the unique key keeps entries apart.
LEMMA TypeInsert ==
    ASSUME TypeInv, NEW h \in Handlers, NEW o \in Outcomes, InsertSide(h, o)
    PROVE  TypeInv'
<1>1. handlers[h].at = Seating(o) /\ Seating(o) # "idle" /\ draw' = draw
      /\ UNCHANGED <<drawVars, status, winnerSide, failures, orphans, alone>>
  BY DEF InsertSide, Seating, drawVars
<1>2. PICK t \in Target(draw, o, handlers[h].match) :
        \/ MoveTo(h, Idle) /\ UNCHANGED sides
        \/ /\ handlers[h].entry \notin Seats(t)
           /\ sides' = [sides EXCEPT ![t] = @ \cup {[entry |-> handlers[h].entry,
                                                     position |-> handlers[h].position]}]
           /\ Continue(h, o)
  BY DEF InsertSide
<1>3. CASE MoveTo(h, Idle) /\ UNCHANGED sides
  BY <1>1, <1>3, RequestMoves, TypeRequest DEF matchVars
<1>4. CASE /\ handlers[h].entry \notin Seats(t)
           /\ sides' = [sides EXCEPT ![t] = @ \cup {[entry |-> handlers[h].entry,
                                                     position |-> handlers[h].position]}]
           /\ Continue(h, o)
  <2>1. MatchesRight'
    BY <1>4, RowAdded
  <2>2. RequestsRight'
    BY <1>1, <1>4, TypeContinue
  <2>3. DrawRight' /\ CountsRight'
    BY <1>1 DEF TypeInv, DrawRight, CountsRight, drawVars
  <2> QED BY <2>1, <2>2, <2>3 DEF TypeInv
<1> QED BY <1>2, <1>3, <1>4

\* So does a failure.
LEMMA TypeDies ==
    ASSUME TypeInv, NEW h \in Handlers, RequestDies(h)
    PROVE  TypeInv'
<1> USE DEF RequestDies
<1>1. draw' = draw /\ handlers[h].match \in MatchesOf(draw)
  BY RequestHolds DEF drawVars
<1>2. RequestsRight'
  BY <1>1, RequestMoves
<1>3. DrawRight'
  BY DEF TypeInv, DrawRight, drawVars
<1>4. MatchesRight'
  BY DEF TypeInv, MatchesRight, drawVars, matchVars, SidesType
<1>5. failures' \in 0..MaxMishaps
  <2>1. Cardinality(alone) \in Nat /\ failures \in 0..MaxMishaps /\ MaxMishaps \in Nat
    BY BracketAssumption, FS_CardinalityType DEF TypeInv, CountsRight
  <2> QED BY <2>1
<1>6. CountsRight'
  BY <1>1, <1>5 DEF TypeInv, CountsRight, drawVars
<1> QED BY <1>2, <1>3, <1>4, <1>6 DEF TypeInv

-----------------------------------------------------------------------------
(* Who is sent where *)

\* The winner and the loser of a match with these sides and this winning side.
Won(S, w) == {s \in S : w = (IF s.position = 1 THEN "A" ELSE "B")}
Cand(o, S, w) == Found(IF o = "winner" THEN Won(S, w) ELSE S \ Won(S, w))

\* Winner and loser by the sides and the winning side.
LEMMA CandidatesAre ==
    ASSUME NEW o, NEW m
    PROVE  /\ Candidates(o, m) = Cand(o, sides[m], winnerSide[m])
           /\ Candidates(o, m)' = Cand(o, sides'[m], winnerSide'[m])
BY DEF Candidates, Winners, Losers, Cand, Won

\* Sides stand at position 1 or 2.
Placed(S) == \A s \in S : s.position \in {1, 2}

\* Winner and loser are different sides, and each is unique where places are.
LEMMA CandFacts ==
    ASSUME NEW S, NEW w, NEW o
    PROVE  /\ Cand(o, S, w) \subseteq S
           /\ \A s \in Cand("winner", S, w), t \in Cand("loser", S, w) : s # t
           /\ (\A s, t \in S : s.position = t.position => s = t) /\ Placed(S) =>
                \A s, t \in Cand(o, S, w) : s = t
BY DEF Cand, Found, Won, Placed

\* A side that comes later changes nothing for those who were there.
LEMMA CandGrows ==
    ASSUME NEW S, NEW w, NEW o, NEW x, Placed(S), x.position \in {1, 2},
           S # {} => \E s \in S : s.position = 1
    PROVE  Cand(o, S, w) \subseteq Cand(o, S \cup {x}, w)
<1> SUFFICES ASSUME NEW c \in Cand(o, S, w) PROVE c \in Cand(o, S \cup {x}, w)
  OBVIOUS
<1>0. Placed(S \cup {x}) /\ \A s \in S : s.position \in {1, 2}
  BY DEF Placed
<1>1. c \in S
  BY CandFacts
<1>2. PICK f \in S : f.position = 1
  BY <1>1
<1>3. CASE o = "winner"
  <2>1. c \in Won(S \cup {x}, w) /\ \A t \in Won(S \cup {x}, w) : t.position = c.position
    BY <1>0, <1>3 DEF Cand, Found, Won
  <2> QED BY <1>0, <1>1, <1>3, <2>1 DEF Cand, Found
<1>4. CASE o # "winner"
  <2>1. c \in S \ Won(S, w) /\ \A t \in S \ Won(S, w) : c.position <= t.position
    BY <1>4 DEF Cand, Found
  <2>2. c \in (S \cup {x}) \ Won(S \cup {x}, w)
    BY <2>1 DEF Won
  <2>3. x \notin Won(S \cup {x}, w) => c.position <= x.position
    <3>1. SUFFICES ASSUME x \notin Won(S \cup {x}, w), c.position = 2, x.position = 1 PROVE FALSE
      BY <1>0, <1>1
    <3>2. w # "A"
      BY <3>1 DEF Won
    <3>3. f \in S \ Won(S, w)
      BY <1>2, <3>2 DEF Won
    <3> QED BY <1>2, <2>1, <3>1, <3>3
  <2>4. \A t \in (S \cup {x}) \ Won(S \cup {x}, w) : c.position <= t.position
    BY <2>1, <2>3 DEF Won
  <2> QED BY <1>4, <2>2, <2>4 DEF Cand, Found
<1> QED BY <1>3, <1>4

\* The effects of m, once finalized, send e to t.
Sends(m, o, e, t) ==
    /\ status[m] = "finalized"
    /\ t \in Target(draw, o, m)
    /\ \E s \in Candidates(o, m) : s.entry = e

\* Nobody comes from nowhere: whoever is in a match was drawn there or is sent there.
Provenance ==
    \A t \in MatchesOf(draw) :
        /\ t[1] = 0 => sides[t] = FirstSides(draw, t)
        /\ t[1] # 0 => \A s \in sides[t] :
                          \E m \in MatchesOf(draw), o \in Outcomes : Sends(m, o, s.entry, t)

\* The first who comes to a later match stands at position 1.
PlaceOne ==
    \A t \in MatchesOf(draw) : t[1] # 0 /\ sides[t] # {} => \E s \in sides[t] : s.position = 1

\* What a request goes by: a result, then a final one, and an entry its match does send.
RequestFounded(h) ==
    LET m == handlers[h].match
    IN /\ handlers[h].at = "finalize" => status[m] # "scheduled"
       /\ handlers[h].at \in Requested \ {"finalize"} => status[m] = "finalized"
       /\ \A o \in Outcomes : handlers[h].at = Seating(o) =>
            /\ \E s \in Candidates(o, m) : s.entry = handlers[h].entry
            /\ \A t \in Target(draw, o, m) : handlers[h].position = 2 => sides[t] # {}

RequestsFounded == \A h \in Handlers : RequestFounded(h)

\* A match with a result has a side, both of them unless it was reported for one.
Reported ==
    \A m \in MatchesOf(draw) : status[m] # "scheduled" =>
        /\ winnerSide[m] # "none"
        /\ sides[m] # {}
        /\ m \notin alone => Cardinality(sides[m]) >= 2

\* The inductive invariant of all but the last two properties.
Base == TypeInv /\ Provenance /\ PlaceOne /\ RequestsFounded /\ Reported

\* What every step but a new draw does.
Onward ==
    /\ draw' = draw
    /\ \A m \in MatchesOf(draw) :
         /\ sides[m] \subseteq sides'[m]
         /\ status[m] # "scheduled" => status'[m] # "scheduled"
         /\ status[m] = "finalized" =>
              /\ status'[m] = "finalized"
              /\ \A o \in Outcomes : Candidates(o, m) \subseteq Candidates(o, m)'

\* What a finalized match sends, it goes on sending.
LEMMA SendsOnward ==
    ASSUME Onward, NEW m \in MatchesOf(draw), NEW o \in Outcomes, NEW e, NEW t, Sends(m, o, e, t)
    PROVE  Sends(m, o, e, t)'
<1>1. PICK s \in Candidates(o, m) : s.entry = e
  BY DEF Sends
<1>2. s \in Candidates(o, m)' /\ status'[m] = "finalized" /\ draw' = draw
  BY <1>1 DEF Onward, Sends
<1>3. t \in Target(draw', o, m)
  BY <1>2 DEF Sends
<1> HIDE DEF Target, Candidates
<1> QED BY <1>1, <1>2, <1>3 DEF Sends

\* What a request goes by stays true while others work.
LEMMA RequestsOnward ==
    ASSUME TypeInv, RequestsFounded, Onward, NEW h \in Handlers, handlers'[h] = handlers[h]
    PROVE  RequestFounded(h)'
<1> DEFINE m == handlers[h].match
<1>1. CASE handlers[h].at = "idle"
  BY <1>1 DEF RequestFounded, Requested, Seating, Outcomes
<1>2. CASE handlers[h].at # "idle"
  <2>1. m \in MatchesOf(draw) /\ Elimination(draw)
    BY <1>2, RequestHolds
  <2>2. RequestFounded(h)
    BY DEF RequestsFounded
  <2>3. ASSUME NEW o \in Outcomes, handlers[h].at = Seating(o)
        PROVE  /\ \E s \in Candidates(o, m)' : s.entry = handlers[h].entry
               /\ \A t \in Target(draw, o, m) : handlers[h].position = 2 => sides'[t] # {}
    <3>1. status[m] = "finalized"
      BY <2>2, <2>3 DEF RequestFounded, Requested, Seating
    <3>2. PICK s \in Candidates(o, m) : s.entry = handlers[h].entry
      BY <2>2, <2>3 DEF RequestFounded
    <3>3. s \in Candidates(o, m)'
      BY <2>1, <3>1, <3>2 DEF Onward
    <3>4. ASSUME NEW t \in Target(draw, o, m), handlers[h].position = 2
          PROVE  sides'[t] # {}
      <4>1. t \in MatchesOf(draw)
        BY <2>1, TargetFacts
      <4>2. sides[t] # {}
        BY <2>2, <2>3, <3>4 DEF RequestFounded
      <4> QED BY <4>1, <4>2 DEF Onward
    <3> QED BY <3>2, <3>3, <3>4
  <2>4. /\ handlers[h].at = "finalize" => status'[m] # "scheduled"
        /\ handlers[h].at \in Requested \ {"finalize"} => status'[m] = "finalized"
    BY <2>1, <2>2 DEF RequestFounded, Onward
  <2>5. draw' = draw
    BY DEF Onward
  <2> QED BY <2>3, <2>4, <2>5 DEF RequestFounded
<1> QED BY <1>1, <1>2

\* A step keeps Provenance if the rows it adds are sent where it puts them.
LEMMA ProvenanceOnward ==
    ASSUME Provenance, Onward,
           \A t \in MatchesOf(draw) :
             /\ t[1] = 0 => sides'[t] = sides[t]
             /\ \A s \in sides'[t] \ sides[t] :
                  \E m \in MatchesOf(draw), o \in Outcomes : Sends(m, o, s.entry, t)
    PROVE  Provenance'
<1>1. draw' = draw
  BY DEF Onward
<1>2. ASSUME NEW t \in MatchesOf(draw), t[1] = 0
      PROVE  sides'[t] = FirstSides(draw, t)
  BY <1>2 DEF Provenance
<1>3. ASSUME NEW t \in MatchesOf(draw), t[1] # 0, NEW s \in sides'[t]
      PROVE  \E m \in MatchesOf(draw), o \in Outcomes : Sends(m, o, s.entry, t)'
  <2>1. PICK m \in MatchesOf(draw), o \in Outcomes : Sends(m, o, s.entry, t)
    <3>1. CASE s \in sides[t]
      BY <1>3, <3>1 DEF Provenance
    <3>2. CASE s \notin sides[t]
      BY <1>3, <3>2
    <3> QED BY <3>1, <3>2
  <2> QED BY <2>1, SendsOnward
<1> HIDE DEF Sends
<1> QED BY <1>1, <1>2, <1>3 DEF Provenance

\* A step that leaves the matches as they are.
LEMMA Onlooking ==
    ASSUME UNCHANGED <<draw, sides, status, winnerSide>>
    PROVE  Onward
<1>1. ASSUME NEW o, NEW m PROVE Candidates(o, m)' = Candidates(o, m)
  BY CandidatesAre
<1> HIDE DEF Candidates
<1> QED BY <1>1 DEF Onward

\* A step that leaves the matches alone only has to account for its request.
LEMMA BaseStill ==
    ASSUME Base, TypeInv', UNCHANGED <<draw, sides, status, winnerSide, alone>>,
           \A h \in Handlers : handlers'[h] = handlers[h] \/ RequestFounded(h)'
    PROVE  Base'
<1>1. Onward
  BY Onlooking
<1>2. Provenance'
  BY <1>1, ProvenanceOnward DEF Base
<1>3. RequestsFounded'
  <2>1. ASSUME NEW h \in Handlers PROVE RequestFounded(h)'
    BY <1>1, RequestsOnward DEF Base
  <2> HIDE DEF RequestFounded
  <2> QED BY <2>1 DEF RequestsFounded
<1>4. PlaceOne' /\ Reported'
  BY DEF Base, PlaceOne, Reported
<1> QED BY <1>2, <1>3, <1>4 DEF Base

\* In a new draw, everybody is where they were drawn.
LEMMA BaseFresh ==
    ASSUME TypeInv',
           sides' = [m \in MatchesOf(draw') |-> FirstSides(draw', m)],
           status' = [m \in MatchesOf(draw') |-> "scheduled"],
           handlers' = [h \in Handlers |-> Idle]
    PROVE  Base'
<1>1. Provenance'
  BY FirstSidesLater DEF Provenance
<1>2. PlaceOne'
  BY FirstSidesLater DEF PlaceOne
<1>3. RequestsFounded'
  BY DEF RequestsFounded, RequestFounded, Idle, Requested, Seating, Outcomes
<1>4. Reported'
  BY DEF Reported
<1> QED BY <1>1, <1>2, <1>3, <1>4 DEF Base

\* At the start nobody is anywhere.
LEMMA BaseInit == Init => Base
<1> SUFFICES ASSUME Init PROVE Base
  OBVIOUS
<1>1. MatchesOf(draw) = {}
  BY NoMatches DEF Init
<1>2. Provenance /\ PlaceOne /\ Reported
  BY <1>1 DEF Provenance, PlaceOne, Reported
<1>3. RequestsFounded
  BY DEF RequestsFounded, RequestFounded, Idle, Requested, Seating, Outcomes, Init
<1> QED BY <1>2, <1>3, TypeInit DEF Base

\* Nor after a deletion, whatever requests were under way.
LEMMA BaseDelete ==
    ASSUME Base, DeleteBracket
    PROVE  Base'
<1>1. TypeInv'
  BY TypeDelete DEF Base
<1>2. MatchesOf(draw') = {}
  BY NoMatches DEF DeleteBracket
<1>3. Provenance' /\ PlaceOne' /\ Reported'
  BY <1>2 DEF Provenance, PlaceOne, Reported
<1>4. RequestsFounded'
  BY DEF RequestsFounded, RequestFounded, Idle, Requested, Seating, Outcomes, DeleteBracket
<1> QED BY <1>1, <1>3, <1>4 DEF Base

\* Only a match without a final result is reported.
LEMMA ReportIsOnward ==
    ASSUME TypeInv, NEW m \in DOMAIN status, NEW w \in {"A", "B", "draw"}, Report(m, w)
    PROVE  Onward
<1>1. /\ m \in MatchesOf(draw) /\ status[m] # "finalized"
      /\ status' = [status EXCEPT ![m] = "reported"] /\ winnerSide' = [winnerSide EXCEPT ![m] = w]
      /\ draw' = draw /\ sides' = sides
  BY DEF Report, Reportable, drawVars, TypeInv, MatchesRight
<1>2. /\ \A n \in MatchesOf(draw) \ {m} : status'[n] = status[n] /\ winnerSide'[n] = winnerSide[n]
      /\ status'[m] = "reported"
  BY <1>1 DEF TypeInv, MatchesRight
<1>3. ASSUME NEW n \in MatchesOf(draw), status[n] = "finalized", NEW o \in Outcomes
      PROVE  status'[n] = "finalized" /\ Candidates(o, n)' = Candidates(o, n)
  BY <1>1, <1>2, <1>3, CandidatesAre
<1> HIDE DEF Candidates
<1> QED BY <1>1, <1>2, <1>3 DEF Onward

\* A result may change while nobody has been sent on.
LEMMA BaseReport ==
    ASSUME Base, NEW m \in DOMAIN status, NEW w \in {"A", "B", "draw"}, Report(m, w)
    PROVE  Base'
<1>1. TypeInv' /\ Onward
  BY TypeReport, ReportIsOnward DEF Base
<1>2. /\ m \in MatchesOf(draw) /\ sides[m] # {} /\ draw' = draw /\ sides' = sides
      /\ handlers' = handlers
      /\ alone' = IF Cardinality(sides[m]) = 1 THEN alone \cup {m} ELSE alone \ {m}
      /\ status' = [status EXCEPT ![m] = "reported"] /\ winnerSide' = [winnerSide EXCEPT ![m] = w]
  BY DEF Report, Reportable, drawVars, Base, TypeInv, MatchesRight
<1>3. Provenance'
  BY <1>1, <1>2, ProvenanceOnward DEF Base
<1>4. PlaceOne'
  BY <1>2 DEF Base, PlaceOne
<1>5. RequestsFounded'
  <2>1. ASSUME NEW h \in Handlers PROVE RequestFounded(h)'
    BY <1>1, <1>2, RequestsOnward DEF Base
  <2> HIDE DEF RequestFounded
  <2> QED BY <2>1 DEF RequestsFounded
<1>6. Reported'
  <2>1. Cardinality(sides[m]) \in Nat /\ Cardinality(sides[m]) # 0
    BY <1>2, FS_EmptySet, FS_CardinalityType DEF Base, TypeInv, MatchesRight
  <2>2. ASSUME NEW n \in MatchesOf(draw), status'[n] # "scheduled"
        PROVE  /\ winnerSide'[n] # "none" /\ sides'[n] # {}
               /\ n \notin alone' => Cardinality(sides'[n]) >= 2
    <3>1. CASE n = m
      <4>1. winnerSide'[n] = w /\ sides'[n] = sides[m]
        BY <1>2, <3>1 DEF Base, TypeInv, MatchesRight
      <4>2. n \notin alone' => Cardinality(sides[m]) # 1
        BY <1>2, <3>1
      <4> QED BY <1>2, <2>1, <4>1, <4>2
    <3>2. CASE n # m
      <4>1. winnerSide'[n] = winnerSide[n] /\ status'[n] = status[n] /\ sides'[n] = sides[n]
        BY <1>2, <3>2 DEF Base, TypeInv, MatchesRight
      <4>2. n \notin alone' => n \notin alone
        BY <1>2, <3>2
      <4> QED BY <2>2, <4>1, <4>2 DEF Base, Reported
    <3> QED BY <3>1, <3>2
  <2> QED BY <1>2, <2>2 DEF Reported
<1> QED BY <1>1, <1>3, <1>4, <1>5, <1>6 DEF Base

\* A request that starts has seen a result.
LEMMA BaseReadStatus ==
    ASSUME Base, NEW h \in Handlers, NEW m \in DOMAIN status, ReadStatus(h, m)
    PROVE  Base'
<1>1. TypeInv'
  BY TypeReadStatus DEF Base
<1>2. /\ UNCHANGED <<draw, sides, status, winnerSide, alone>>
      /\ status[m] = "reported"
      /\ handlers' = [handlers EXCEPT ![h] = [Idle EXCEPT !.at = "finalize", !.match = m]]
  BY DEF ReadStatus, drawVars, matchVars, MoveTo
<1>3. handlers'[h].at = "finalize" /\ handlers'[h].match = m
  BY <1>2 DEF Base, TypeInv, RequestsRight, Idle
<1>4. RequestFounded(h)'
  BY <1>2, <1>3 DEF RequestFounded, Seating, Requested, Outcomes
<1>5. \A g \in Handlers \ {h} : handlers'[g] = handlers[g]
  BY <1>2 DEF Base, TypeInv, RequestsRight
<1> HIDE DEF RequestFounded
<1> QED BY <1>1, <1>2, <1>4, <1>5, BaseStill

\* The write of the status, seen from the matches.
LEMMA FinalizeIs ==
    ASSUME TypeInv, NEW h \in Handlers, FinalizeMatch(h)
    PROVE  LET m == handlers[h].match
           IN /\ m \in MatchesOf(draw)
              /\ status'[m] = "finalized"
              /\ \A n \in MatchesOf(draw) \ {m} : status'[n] = status[n]
              /\ handlers'[h].at = "winner" /\ handlers'[h].match = m
              /\ \A g \in Handlers \ {h} : handlers'[g] = handlers[g]
              /\ UNCHANGED <<draw, sides, winnerSide, orphans, alone>>
              /\ handlers[h].at = "finalize"
              /\ Onward
              /\ Elimination(draw)
<1> DEFINE m == handlers[h].match
<1>1. m \in MatchesOf(draw) /\ Elimination(draw)
  BY RequestHolds DEF FinalizeMatch
<1>2. status'[m] = "finalized" /\ \A n \in MatchesOf(draw) \ {m} : status'[n] = status[n]
  BY <1>1 DEF FinalizeMatch, TypeInv, MatchesRight
<1>3. handlers'[h].at = "winner" /\ handlers'[h].match = m
      /\ \A g \in Handlers \ {h} : handlers'[g] = handlers[g]
  BY DEF FinalizeMatch, MoveTo, TypeInv, RequestsRight
<1>4. UNCHANGED <<draw, sides, winnerSide, orphans, alone>> /\ handlers[h].at = "finalize"
  BY DEF FinalizeMatch, drawVars
<1>5. \A o, n : Candidates(o, n)' = Candidates(o, n)
  BY <1>4, CandidatesAre
<1>6. Onward
  <2> HIDE DEF Candidates
  <2> QED BY <1>2, <1>4, <1>5 DEF Onward
<1> QED BY <1>1, <1>2, <1>3, <1>4, <1>6

\* What was reported becomes final, twice included, and nothing else changes.
LEMMA BaseFinalize ==
    ASSUME Base, NEW h \in Handlers, FinalizeMatch(h)
    PROVE  Base'
<1> DEFINE m == handlers[h].match
<1>1. TypeInv'
  BY TypeFinalize DEF Base
<1>2. /\ m \in MatchesOf(draw)
      /\ status'[m] = "finalized"
      /\ \A n \in MatchesOf(draw) \ {m} : status'[n] = status[n]
      /\ handlers'[h].at = "winner" /\ handlers'[h].match = m
      /\ \A g \in Handlers \ {h} : handlers'[g] = handlers[g]
      /\ UNCHANGED <<draw, sides, winnerSide, alone>>
      /\ handlers[h].at = "finalize"
      /\ Onward
  BY FinalizeIs DEF Base
<1>3. Provenance'
  BY <1>2, ProvenanceOnward DEF Base
<1>4. PlaceOne'
  BY <1>2 DEF Base, PlaceOne
<1>5. RequestsFounded'
  <2>1. ASSUME NEW g \in Handlers PROVE RequestFounded(g)'
    <3>1. CASE g = h
      BY <1>2, <3>1 DEF RequestFounded, Seating, Outcomes
    <3>2. CASE g # h
      BY <1>2, <3>2, RequestsOnward DEF Base
    <3> QED BY <3>1, <3>2
  <2> HIDE DEF RequestFounded
  <2> QED BY <2>1 DEF RequestsFounded
<1>6. Reported'
  <2>1. status[m] # "scheduled"
    BY <1>2 DEF Base, RequestsFounded, RequestFounded
  <2> QED BY <1>2, <2>1 DEF Base, Reported
<1> QED BY <1>1, <1>3, <1>4, <1>5, <1>6 DEF Base

\* Where a request stands once it is done with one outcome.
LEMMA ContinueIs ==
    ASSUME TypeInv, NEW h \in Handlers, NEW o \in Outcomes, Continue(h, o)
    PROVE  /\ IF o = "winner" /\ LoserTo(draw, handlers[h].match) # {}
              THEN handlers'[h].at = "loser" /\ handlers'[h].match = handlers[h].match
              ELSE handlers'[h] = Idle
           /\ \A g \in Handlers \ {h} : handlers'[g] = handlers[g]
BY DEF Continue, MoveTo, Idle, TypeInv, RequestsRight

\* A request that goes on to the loser still has a final match.
LEMMA FoundedContinue ==
    ASSUME Base, NEW h \in Handlers, NEW o \in Outcomes, Continue(h, o), Onward,
           handlers[h].at \in Requested \ {"finalize"}
    PROVE  RequestFounded(h)'
<1> DEFINE m == handlers[h].match
<1>1. m \in MatchesOf(draw) /\ status[m] = "finalized"
  BY RequestHolds DEF Base, RequestsFounded, RequestFounded, Requested
<1>2. status'[m] = "finalized"
  BY <1>1 DEF Onward
<1>3. CASE o = "winner" /\ LoserTo(draw, m) # {}
  <2>1. handlers'[h].at = "loser" /\ handlers'[h].match = m
    BY <1>3, ContinueIs DEF Base
  <2> QED BY <1>2, <2>1 DEF RequestFounded, Seating, Outcomes
<1>4. CASE ~(o = "winner" /\ LoserTo(draw, m) # {})
  <2>1. handlers'[h] = Idle
    BY <1>4, ContinueIs DEF Base
  <2> QED BY <2>1 DEF RequestFounded, Seating, Outcomes, Idle, Requested
<1> QED BY <1>3, <1>4

\* A request takes an entry its match sends, at position 2 only if somebody is there.
LEMMA BaseReadNext ==
    ASSUME Base, NEW h \in Handlers, NEW o \in Outcomes, ReadNextSides(h, o)
    PROVE  Base'
<1> DEFINE m == handlers[h].match
<1>1. TypeInv'
  BY TypeReadNext DEF Base
<1>2. /\ UNCHANGED <<draw, sides, status, winnerSide, alone>>
      /\ handlers[h].at = o /\ handlers[h].at \in Requested \ {"finalize"}
      /\ Onward
  BY Onlooking DEF ReadNextSides, drawVars, matchVars, Outcomes, Requested
<1>3. m \in MatchesOf(draw) /\ Elimination(draw) /\ status[m] = "finalized"
  BY <1>2, RequestHolds DEF Base, RequestsFounded, RequestFounded, Requested
<1>4. CASE Continue(h, o)
  <2>1. RequestFounded(h)'
    BY <1>2, <1>4, FoundedContinue
  <2>2. \A g \in Handlers \ {h} : handlers'[g] = handlers[g]
    BY <1>4, ContinueIs DEF Base
  <2> HIDE DEF RequestFounded
  <2> QED BY <1>1, <1>2, <2>1, <2>2, BaseStill
<1>5. CASE \E s \in Candidates(o, m), t \in Target(draw, o, m) :
             /\ Seatable(s, t)
             /\ MoveTo(h, [at |-> Seating(o), match |-> m, entry |-> s.entry,
                           position |-> Cardinality(sides[t]) + 1])
  <2>1. PICK s \in Candidates(o, m), t \in Target(draw, o, m) :
             /\ Seatable(s, t)
             /\ MoveTo(h, [at |-> Seating(o), match |-> m, entry |-> s.entry,
                           position |-> Cardinality(sides[t]) + 1])
    BY <1>5
  <2>2. /\ handlers'[h] = [at |-> Seating(o), match |-> m, entry |-> s.entry,
                           position |-> Cardinality(sides[t]) + 1]
        /\ \A g \in Handlers \ {h} : handlers'[g] = handlers[g]
    BY <2>1 DEF MoveTo, Base, TypeInv, RequestsRight
  <2>3. t \in MatchesOf(draw) /\ \A u \in Target(draw, o, m) : u = t
    BY <1>3, TargetFacts
  <2>4. Cardinality(sides[t]) + 1 = 2 => sides[t] # {}
    BY FS_EmptySet
  <2>5. s \in Candidates(o, m)'
    <3>1. handlers'[h].match = m /\ sides' = sides /\ winnerSide' = winnerSide
      BY <1>2, <2>2
    <3> QED BY <2>1, <3>1 DEF Candidates, Winners, Losers
  <2>6. \A p \in Outcomes : Seating(o) = Seating(p) => p = o
    BY DEF Seating, Outcomes
  <2>7. Seating(o) # "finalize" /\ status'[m] = "finalized" /\ draw' = draw /\ sides' = sides
    BY <1>2, <1>3 DEF Seating
  <2>8. RequestFounded(h)'
    <3> HIDE DEF Candidates, Target, Seating
    <3> QED BY <2>2, <2>3, <2>4, <2>5, <2>6, <2>7 DEF RequestFounded
  <2> HIDE DEF RequestFounded
  <2> QED BY <1>1, <1>2, <2>2, <2>8, BaseStill
<1> QED BY <1>4, <1>5 DEF ReadNextSides

\* A failure leaves the matches as they are.
LEMMA BaseDies ==
    ASSUME Base, NEW h \in Handlers, RequestDies(h)
    PROVE  Base'
<1>1. TypeInv'
  BY TypeDies DEF Base
<1>2. /\ UNCHANGED <<draw, sides, status, winnerSide, alone>>
      /\ handlers'[h] = Idle
      /\ \A g \in Handlers \ {h} : handlers'[g] = handlers[g]
  BY DEF RequestDies, drawVars, matchVars, MoveTo, Base, TypeInv, RequestsRight
<1>3. RequestFounded(h)'
  BY <1>2 DEF RequestFounded, Seating, Outcomes, Idle, Requested
<1> HIDE DEF RequestFounded
<1> QED BY <1>1, <1>2, <1>3, BaseStill

\* The insertion of a row, seen from the matches.
LEMMA InsertIs ==
    ASSUME Base, NEW h \in Handlers, NEW o \in Outcomes, InsertSide(h, o)
    PROVE  \E t \in Target(draw, o, handlers[h].match) :
             /\ t \in MatchesOf(draw) /\ handlers[h].match \in MatchesOf(draw) /\ Elimination(draw)
             /\ handlers[h].at = Seating(o)
             /\ Sends(handlers[h].match, o, handlers[h].entry, t)
             /\ t[1] # 0
             /\ UNCHANGED <<draw, status, winnerSide, orphans, alone>>
             /\ \A g \in Handlers \ {h} : handlers'[g] = handlers[g]
             /\ \/ handlers[h].entry \in Seats(t) /\ handlers'[h] = Idle /\ sides' = sides
                \/ /\ handlers[h].entry \notin Seats(t)
                   /\ sides'[t] = sides[t] \cup {[entry |-> handlers[h].entry,
                                                  position |-> handlers[h].position]}
                   /\ \A n \in MatchesOf(draw) \ {t} : sides'[n] = sides[n]
                   /\ handlers[h].position \in {1, 2}
                   /\ handlers[h].position = 2 => sides[t] # {}
                   /\ Continue(h, o)
<1> DEFINE m == handlers[h].match
           row == [entry |-> handlers[h].entry, position |-> handlers[h].position]
<1>1. handlers[h].at = Seating(o) /\ Seating(o) \in {"seat_winner", "seat_loser"}
      /\ UNCHANGED <<draw, status, winnerSide, orphans, alone>>
  BY DEF InsertSide, Seating, drawVars
<1>2. m \in MatchesOf(draw) /\ Elimination(draw) /\ status[m] = "finalized"
      /\ handlers[h].position \in {1, 2} /\ \E s \in Candidates(o, m) : s.entry = handlers[h].entry
  BY <1>1, RequestHolds DEF Base, RequestsFounded, RequestFounded, Requested, TypeInv,
     RequestsRight
<1>3. PICK t \in Target(draw, o, m) :
        \/ handlers[h].entry \in Seats(t) /\ MoveTo(h, Idle) /\ UNCHANGED sides
        \/ /\ handlers[h].entry \notin Seats(t)
           /\ sides' = [sides EXCEPT ![t] = @ \cup {row}]
           /\ Continue(h, o)
  BY DEF InsertSide
<1>4. t \in MatchesOf(draw) /\ t[1] # 0
  BY <1>2, TargetFacts
<1>5. Sends(m, o, handlers[h].entry, t)
  BY <1>2 DEF Sends
<1>6. handlers[h].position = 2 => sides[t] # {}
  BY <1>1 DEF Base, RequestsFounded, RequestFounded
<1>7. CASE handlers[h].entry \in Seats(t) /\ MoveTo(h, Idle) /\ UNCHANGED sides
  <2>1. handlers'[h] = Idle /\ \A g \in Handlers \ {h} : handlers'[g] = handlers[g]
    BY <1>7 DEF MoveTo, Base, TypeInv, RequestsRight
  <2> HIDE DEF Sends, Target
  <2> QED BY <1>1, <1>2, <1>3, <1>4, <1>5, <1>7, <2>1
<1>8. CASE /\ handlers[h].entry \notin Seats(t)
           /\ sides' = [sides EXCEPT ![t] = @ \cup {row}]
           /\ Continue(h, o)
  <2>1. \A g \in Handlers \ {h} : handlers'[g] = handlers[g]
    BY <1>8, ContinueIs DEF Base
  <2>2. sides'[t] = sides[t] \cup {row} /\ \A n \in MatchesOf(draw) \ {t} : sides'[n] = sides[n]
    BY <1>4, <1>8 DEF Base, TypeInv, MatchesRight
  <2> HIDE DEF Sends, Target
  <2> QED BY <1>1, <1>2, <1>3, <1>4, <1>5, <1>6, <1>8, <2>1, <2>2
<1> QED BY <1>3, <1>7, <1>8

\* An insertion takes nothing back: not even in a finalized match that gets a late side.
LEMMA InsertIsOnward ==
    ASSUME Base, NEW h \in Handlers, NEW o \in Outcomes, InsertSide(h, o)
    PROVE  Onward
<1>1. PICK t \in Target(draw, o, handlers[h].match) :
        /\ t \in MatchesOf(draw) /\ t[1] # 0
        /\ UNCHANGED <<draw, status, winnerSide>>
        /\ \/ sides' = sides
           \/ /\ sides'[t] = sides[t] \cup {[entry |-> handlers[h].entry,
                                             position |-> handlers[h].position]}
              /\ \A n \in MatchesOf(draw) \ {t} : sides'[n] = sides[n]
              /\ handlers[h].position \in {1, 2}
  BY InsertIs
<1> DEFINE row == [entry |-> handlers[h].entry, position |-> handlers[h].position]
<1>2. ASSUME NEW n \in MatchesOf(draw), NEW p \in Outcomes
      PROVE  Candidates(p, n) \subseteq Candidates(p, n)'
  <2>1. CASE sides'[n] = sides[n]
    BY <1>1, <2>1, CandidatesAre
  <2>2. CASE /\ n = t /\ sides'[t] = sides[t] \cup {row}
             /\ handlers[h].position \in {1, 2}
    <3>1. Placed(sides[t])
      BY <1>1 DEF Placed, Base, TypeInv, MatchesRight, SidesType
    <3>2. sides[t] # {} => \E s \in sides[t] : s.position = 1
      BY <1>1 DEF Base, PlaceOne
    <3>3. row.position \in {1, 2} /\ sides'[t] = sides[t] \cup {row}
      BY <2>2
    <3> HIDE DEF row
    <3>4. Cand(p, sides[t], winnerSide[t]) \subseteq Cand(p, sides[t] \cup {row}, winnerSide[t])
      BY <3>1, <3>2, <3>3, CandGrows
    <3>5. winnerSide' = winnerSide
      BY <1>1
    <3>6. /\ Candidates(p, n) = Cand(p, sides[t], winnerSide[t])
          /\ Candidates(p, n)' = Cand(p, sides[t] \cup {row}, winnerSide[t])
      BY <2>2, <3>3, <3>5, CandidatesAre
    <3> QED BY <3>4, <3>6
  <2> QED BY <1>1, <2>1, <2>2
<1> HIDE DEF Candidates
<1> QED BY <1>1, <1>2 DEF Onward

\* The row is one its match sends there, at position 1 if it is the first.
LEMMA BaseInsert ==
    ASSUME Base, NEW h \in Handlers, NEW o \in Outcomes, InsertSide(h, o)
    PROVE  Base'
<1> DEFINE m == handlers[h].match
           row == [entry |-> handlers[h].entry, position |-> handlers[h].position]
<1>1. TypeInv' /\ Onward
  BY TypeInsert, InsertIsOnward DEF Base
<1>2. PICK t \in Target(draw, o, m) :
        /\ t \in MatchesOf(draw) /\ m \in MatchesOf(draw)
        /\ handlers[h].at = Seating(o)
        /\ Sends(m, o, handlers[h].entry, t)
        /\ t[1] # 0
        /\ UNCHANGED <<draw, status, winnerSide, alone>>
        /\ \A g \in Handlers \ {h} : handlers'[g] = handlers[g]
        /\ \/ handlers[h].entry \in Seats(t) /\ handlers'[h] = Idle /\ sides' = sides
           \/ /\ handlers[h].entry \notin Seats(t)
              /\ sides'[t] = sides[t] \cup {row}
              /\ \A n \in MatchesOf(draw) \ {t} : sides'[n] = sides[n]
              /\ handlers[h].position \in {1, 2}
              /\ handlers[h].position = 2 => sides[t] # {}
              /\ Continue(h, o)
  BY InsertIs
<1>3. Provenance'
  <2>1. ASSUME NEW n \in MatchesOf(draw), NEW s \in sides'[n] \ sides[n]
        PROVE  n = t /\ s.entry = handlers[h].entry
    BY <1>2
  <2>2. \A n \in MatchesOf(draw) : n[1] = 0 => sides'[n] = sides[n]
    BY <1>2
  <2>3. ASSUME NEW n \in MatchesOf(draw), NEW s \in sides'[n] \ sides[n]
        PROVE  \E k \in MatchesOf(draw), p \in Outcomes : Sends(k, p, s.entry, n)
    <3> HIDE DEF Sends
    <3> QED BY <1>2, <2>1
  <2> HIDE DEF Sends
  <2> QED BY <1>1, <2>2, <2>3, ProvenanceOnward DEF Base
<1>4. PlaceOne'
  <2>1. ASSUME NEW n \in MatchesOf(draw), n[1] # 0, sides'[n] # {}
        PROVE  \E s \in sides'[n] : s.position = 1
    <3>1. CASE sides'[n] = sides[n]
      BY <2>1, <3>1 DEF Base, PlaceOne
    <3>2. CASE /\ n = t /\ sides'[t] = sides[t] \cup {row} /\ handlers[h].position \in {1, 2}
               /\ handlers[h].position = 2 => sides[t] # {}
      <4>1. CASE handlers[h].position = 1
        <5>1. row \in sides'[n] /\ row.position = 1
          BY <3>2, <4>1
        <5> QED BY <5>1
      <4>2. CASE sides[t] # {}
        BY <1>2, <3>2, <4>2 DEF Base, PlaceOne
      <4> QED BY <3>2, <4>1, <4>2
    <3> QED BY <1>2, <3>1, <3>2
  <2> QED BY <1>2, <2>1 DEF PlaceOne
<1>5. RequestsFounded'
  <2>1. handlers[h].at \in Requested \ {"finalize"}
    BY <1>2 DEF Seating, Requested
  <2>2. RequestFounded(h)'
    <3>1. CASE handlers'[h] = Idle
      BY <3>1 DEF RequestFounded, Seating, Outcomes, Idle, Requested
    <3>2. CASE Continue(h, o)
      BY <1>1, <2>1, <3>2, FoundedContinue
    <3> QED BY <1>2, <3>1, <3>2
  <2>3. ASSUME NEW g \in Handlers PROVE RequestFounded(g)'
    <3>1. CASE g = h
      BY <2>2, <3>1
    <3>2. CASE g # h
      BY <1>1, <1>2, <3>2, RequestsOnward DEF Base
    <3> QED BY <3>1, <3>2
  <2> HIDE DEF RequestFounded
  <2> QED BY <2>3 DEF RequestsFounded
<1>6. Reported'
  <2>1. ASSUME NEW n \in MatchesOf(draw), status'[n] # "scheduled"
        PROVE  /\ winnerSide'[n] # "none" /\ sides'[n] # {}
               /\ n \notin alone' => Cardinality(sides'[n]) >= 2
    <3>1. /\ status[n] # "scheduled" /\ winnerSide'[n] = winnerSide[n] /\ alone' = alone
          /\ sides[n] \subseteq sides'[n]
      BY <1>1, <1>2, <2>1 DEF Onward
    <3>2. /\ winnerSide[n] # "none" /\ sides[n] # {}
          /\ n \notin alone => Cardinality(sides[n]) >= 2
      BY <3>1 DEF Base, Reported
    <3>3. IsFiniteSet(sides'[n])
      BY <1>1, <1>2 DEF TypeInv, MatchesRight
    <3>4. Cardinality(sides[n]) <= Cardinality(sides'[n]) /\ Cardinality(sides[n]) \in Nat
          /\ Cardinality(sides'[n]) \in Nat
      BY <3>1, <3>3, FS_Subset, FS_CardinalityType
    <3> QED BY <3>1, <3>2, <3>4
  <2> QED BY <1>2, <2>1 DEF Reported
<1> QED BY <1>1, <1>3, <1>4, <1>5, <1>6 DEF Base

\* A generation makes a new draw.
LEMMA BaseGenerate ==
    ASSUME Base, NEW seeding \in Seedings, NEW n \in DrawSizes, NEW format \in Formats,
           NEW seeds \in StorableSeedings(seeding, n), GenerateBracket(n, format, seeds)
    PROVE  Base'
<1>1. TypeInv'
  BY TypeGenerate DEF Base
<1> QED BY <1>1, BaseFresh DEF GenerateBracket

\* The checks before a generation touch nothing of this.
LEMMA BaseAside ==
    ASSUME Base, UNCHANGED <<draw, matchVars, requestVars>>, asked' \in BOOLEAN,
           draws' = draws, asked' => draws < MaxDraws
    PROVE  Base'
<1>1. UNCHANGED <<draw, sides, status, winnerSide, handlers, failures, orphans, alone>>
  BY DEF matchVars, requestVars
<1>2. TypeInv'
  BY <1>1 DEF Base, TypeInv, DrawRight, MatchesRight, RequestsRight, CountsRight, SidesType
<1> QED BY <1>1, <1>2, BaseStill

\* Every step keeps Base.
LEMMA BaseNext ==
    ASSUME Base, [Next]_vars
    PROVE  Base'
<1>1. CASE AskDraw
  BY <1>1, BaseAside DEF AskDraw
<1>2. CASE \E seeding \in Seedings, n \in DrawSizes, format \in Formats :
             \E seeds \in StorableSeedings(seeding, n) : GenerateBracket(n, format, seeds)
  BY <1>2, BaseGenerate
<1>3. CASE GenerateFails
  BY <1>3, BaseAside DEF GenerateFails
<1>4. CASE DeleteBracket
  BY <1>4, BaseDelete
<1>5. CASE \E m \in DOMAIN status, w \in {"A", "B", "draw"} : Report(m, w)
  BY <1>5, BaseReport
<1>6. CASE \E h \in Handlers : \E m \in DOMAIN status : ReadStatus(h, m)
  BY <1>6, BaseReadStatus
<1>7. CASE \E h \in Handlers : FinalizeMatch(h)
  BY <1>7, BaseFinalize
<1>8. CASE \E h \in Handlers : \E o \in {"winner", "loser"} : ReadNextSides(h, o)
  BY <1>8, BaseReadNext DEF Outcomes
<1>9. CASE \E h \in Handlers : \E o \in {"winner", "loser"} : InsertSide(h, o)
  BY <1>9, BaseInsert DEF Outcomes
<1>10. CASE \E h \in Handlers : RequestDies(h)
  BY <1>10, BaseDies
<1>11. CASE UNCHANGED vars
  BY <1>11, BaseAside DEF vars, drawVars, Base, TypeInv, CountsRight
<1> QED BY <1>1, <1>2, <1>3, <1>4, <1>5, <1>6, <1>7, <1>8, <1>9, <1>10, <1>11 DEF Next

\* Where everybody comes from, at any time.
THEOREM Invariance == Spec => []Base
<1>1. Init => Base
  BY BaseInit
<1>2. Base /\ [Next]_vars => Base'
  BY BaseNext
<1> QED BY <1>1, <1>2, PTL DEF Spec

\* The variables keep their types: at any time the rows are of matches and entries of the
\* draw, and the sides of a match of different entries (generateBracket, the advancements).
THEOREM TypeCorrect == Spec => []TypeOK
<1>1. Base => TypeOK
  BY Typed DEF Base
<1> QED BY <1>1, Invariance, PTL

-----------------------------------------------------------------------------
(* The draw *)

\* A new draw, by its links.
LEMMA Fed ==
    ASSUME Base
    PROVE  FullyFed
<1> SUFFICES ASSUME NEW m \in Matches, m[1] # 0 PROVE Cardinality(Feeders(m)) = 2
  BY DEF FullyFed
<1>1. Matches = MatchesOf(draw) /\ Elimination(draw)
  BY Typed, DrawFacts DEF Base, TypeInv
<1>2. PICK f1 \in MatchesOf(draw), f2 \in MatchesOf(draw), o1 \in Outcomes, o2 \in Outcomes :
        AreFeeders(draw, m, f1, o1, f2, o2)
  BY <1>1, TwoFeeders
<1>3. Feeders(m) = {<<f1, o1>>, <<f2, o2>>}
  <2>1. ASSUME NEW feed \in Matches \X Outcomes
        PROVE  m \in Target(draw, feed[2], feed[1]) <=> feed \in {<<f1, o1>>, <<f2, o2>>}
    <3>1. PICK f \in Matches, o \in Outcomes : feed = <<f, o>>
      BY <2>1
    <3>2. m \in Target(draw, o, f) <=> (f = f1 /\ o = o1) \/ (f = f2 /\ o = o2)
      BY <1>1, <1>2, <3>1 DEF AreFeeders
    <3> HIDE DEF Target
    <3> QED BY <3>1, <3>2
  <2> HIDE DEF Target
  <2> QED BY <1>1, <2>1 DEF Feeders, Outcomes
<1>4. <<f1, o1>> # <<f2, o2>>
  BY <1>2 DEF AreFeeders
<1> QED BY <1>3, <1>4, Pairs

\* Whatever its size and format, a bracket has neither a match that waits for a side nobody
\* sends nor one that is sent a third (linkWinnerMatches and linkLoserMatches).
THEOREM FullyFedHolds == Spec => []FullyFed
<1>1. Base => FullyFed
  BY Fed
<1> QED BY <1>1, Invariance, PTL

\* The first round of a new draw.
LEMMA FirstRoundIs ==
    ASSUME Base, draw # NoDraw
    PROVE  /\ Elimination(draw) /\ Seeds(draw)
           /\ Matches = MatchesOf(draw)
           /\ \A m \in FirstRound :
                m \in MatchesOf(draw) /\ m[1] = 0 /\ sides[m] = FirstSides(draw, m)
BY Typed DEF Base, TypeInv, DrawRight, Provenance, FirstRound

\* A new random draw, by its slots.
LEMMA Drawn ==
    ASSUME Base, Seedings \subseteq {"random"}
    PROVE  EveryEntryIsDrawn
<1> SUFFICES ASSUME draw # NoDraw
             PROVE  /\ \A e \in 1..draw.size : Cardinality({m \in FirstRound : e \in Seats(m)}) = 1
                    /\ \A m \in FirstRound : sides[m] # {}
  BY DEF EveryEntryIsDrawn
<1>1. Shuffled(draw)
  BY DEF Base, TypeInv, DrawRight
<1>2. /\ Elimination(draw) /\ Seeds(draw)
      /\ Matches = MatchesOf(draw)
      /\ \A m \in FirstRound : m \in MatchesOf(draw) /\ m[1] = 0 /\ sides[m] = FirstSides(draw, m)
  BY FirstRoundIs
<1>3. ASSUME NEW e \in 1..draw.size
      PROVE  Cardinality({m \in FirstRound : e \in Seats(m)}) = 1
  <2>1. PICK m \in MatchesOf(draw) : m[1] = 0 /\ \E s \in FirstSides(draw, m) : s.entry = e
    BY <1>1, <1>2, EveryEntryHasAMatch
  <2>2. m \in FirstRound /\ e \in Seats(m)
    BY <1>2, <2>1 DEF FirstRound, Seats
  <2>3. ASSUME NEW n \in FirstRound, e \in Seats(n)
        PROVE  n = m
    <3>1. PICK s \in FirstSides(draw, n) : s.entry = e
      BY <1>2, <2>3 DEF Seats
    <3> QED BY <1>2, <2>1, <3>1, FirstSidesFacts
  <2>4. {n \in FirstRound : e \in Seats(n)} = {m}
    BY <2>2, <2>3
  <2> QED BY <2>4, FS_Singleton
<1>4. ASSUME NEW m \in FirstRound PROVE sides[m] # {}
  BY <1>1, <1>2, SomebodyInPlaceOne
<1> QED BY <1>3, <1>4

\* A random draw of any size places every entry in exactly one match of the first round, and
\* leaves none of these empty (buildFirstRound). With ranks of another championship for seed
\* numbers it may not: run ChampionshipSeeding.
THEOREM EveryEntryIsDrawnHolds ==
    ASSUME Seedings \subseteq {"random"}
    PROVE  Spec => []EveryEntryIsDrawn
<1>1. Base => EveryEntryIsDrawn
  BY Drawn
<1> QED BY <1>1, Invariance, PTL

\* A new draw, by the seeds each match of the winners' bracket may get.
LEMMA KeptApart ==
    ASSUME Base
    PROVE  TopSeedsAreKeptApart
<1> SUFFICES ASSUME draw # NoDraw, NEW m \in FirstRound, NEW n \in FirstRound, m # n,
                    NEW e \in Seats(m), NEW f \in Seats(n),
                    NEW k \in 1..(RoundsFor(draw.size) - 1),
                    draw.seeds[e] <= Pow2[k], draw.seeds[f] <= Pow2[k],
                    NEW j \in 0..(RoundsFor(draw.size) - 1 - k), Path(m)[j] = Path(n)[j]
             PROVE  FALSE
  <2> HIDE DEF Path, RoundsFor
  <2> QED BY DEF TopSeedsAreKeptApart
<1>1. /\ Elimination(draw) /\ Seeds(draw)
      /\ m \in MatchesOf(draw) /\ m[1] = 0 /\ sides[m] = FirstSides(draw, m)
      /\ n \in MatchesOf(draw) /\ n[1] = 0 /\ sides[n] = FirstSides(draw, n)
  BY FirstRoundIs
<1>2. k \in 1..(R(draw) - 1) /\ j \in 0..(R(draw) - 1 - k)
  BY DEF R
<1>3. PICK p \in {1, 2} : draw.seeds[e] = Slot(draw, m, p)
  BY <1>1, FirstSidesAre DEF Seats
<1>4. PICK q \in {1, 2} : draw.seeds[f] = Slot(draw, n, q)
  BY <1>1, FirstSidesAre DEF Seats
<1>5. Slot(draw, m, p) = BalancedSeedPositions[R(draw) - 1 - j][Path(m)[j][2] + 1]
  BY <1>1, <1>2, <1>3, SeedOnPath
<1>6. Slot(draw, n, q) = BalancedSeedPositions[R(draw) - 1 - j][Path(n)[j][2] + 1]
  BY <1>1, <1>2, <1>4, SeedOnPath
<1> HIDE DEF Slot, Path
<1>7. Slot(draw, m, p) = Slot(draw, n, q)
  BY <1>5, <1>6
<1> QED BY <1>1, <1>7, SlotsDiffer

\* Of the 2^k best seeds, no two can meet before the round where 2^k players are left, for any
\* size of draw (getBalancedSeedPositions).
THEOREM TopSeedsKeptApart == Spec => []TopSeedsAreKeptApart
<1>1. Base => TopSeedsAreKeptApart
  BY KeptApart
<1> QED BY <1>1, Invariance, PTL

-----------------------------------------------------------------------------
(* The way of an entry *)

\* What holds of any match.
LEMMA Setting ==
    ASSUME Base, NEW m \in MatchesOf(draw)
    PROVE  /\ Elimination(draw) /\ Seeds(draw) /\ Matches = MatchesOf(draw)
           /\ m[1] \in Nat /\ m[2] \in Nat
           /\ IsFiniteSet(sides[m]) /\ sides[m] \subseteq SidesType
           /\ \A s, t \in sides[m] : s.entry = t.entry => s = t
           /\ Placed(sides[m])
<1>1. Elimination(draw) /\ Seeds(draw) /\ Matches = MatchesOf(draw)
  BY Typed, DrawFacts DEF Base, TypeInv
<1>2. m[1] \in Nat /\ m[2] \in Nat
  BY <1>1, MatchesMembers
<1> QED BY <1>1, <1>2 DEF Base, TypeInv, MatchesRight, Placed, SidesType

\* A match sends its own sides, each one way, and whoever loses goes the loser's.
LEMMA SendsFacts ==
    ASSUME Base, NEW m \in MatchesOf(draw), NEW o \in Outcomes, NEW e, NEW t, Sends(m, o, e, t)
    PROVE  /\ e \in Seats(m)
           /\ t \in MatchesOf(draw) /\ t[1] # 0 /\ t[1] > m[1]
           /\ \A p \in Outcomes : \A u : Sends(m, p, e, u) => o = p /\ t = u
           /\ o = "loser" => m \in Losses(e)
<1>1. Elimination(draw) /\ \A s, u \in sides[m] : s.entry = u.entry => s = u
  BY Setting
<1>2. t \in Target(draw, o, m)
  BY DEF Sends
<1>3. PICK s \in Candidates(o, m) : s.entry = e
  BY DEF Sends
<1>4. s \in sides[m]
  BY <1>3, CandidatesAreSides
<1>5. ASSUME NEW p \in Outcomes, NEW u, Sends(m, p, e, u)
      PROVE  o = p /\ t = u
  <2>1. PICK c \in Candidates(p, m) : c.entry = e
    BY <1>5 DEF Sends
  <2>2. c = s
    BY <1>1, <1>3, <1>4, <2>1, CandidatesAreSides
  <2>3. o = p
    BY <1>3, <2>1, <2>2, CandidatesAre, CandFacts DEF Outcomes
  <2> QED BY <1>1, <1>2, <1>5, <2>3, TargetFacts DEF Sends
<1>6. o = "loser" => m \in Losses(e)
  <2>1. SUFFICES ASSUME o = "loser" PROVE m \in Losses(e)
    OBVIOUS
  <2>2. s \in Losers(m)
    BY <1>3, <2>1 DEF Candidates, Found
  <2>3. m \in Matches /\ status[m] = "finalized"
    BY Setting DEF Sends
  <2> QED BY <1>3, <2>2, <2>3 DEF Losses
<1>7. t \in MatchesOf(draw) /\ t[1] # 0 /\ t[1] > m[1]
  BY <1>1, <1>2, TargetFacts
<1> QED BY <1>3, <1>4, <1>5, <1>6, <1>7 DEF Seats

\* Whoever is in a later match was sent there.
LEMMA Sent ==
    ASSUME Base, NEW t \in MatchesOf(draw), t[1] # 0, NEW e \in Seats(t)
    PROVE  \E m \in MatchesOf(draw), o \in Outcomes : Sends(m, o, e, t)
<1>1. PICK s \in sides[t] : s.entry = e
  BY DEF Seats
<1> HIDE DEF Sends
<1> QED BY <1>1 DEF Base, Provenance

\* Nobody is drawn twice.
LEMMA DrawnOnce ==
    ASSUME Base, NEW m \in MatchesOf(draw), NEW n \in MatchesOf(draw), m[1] = 0, n[1] = 0,
           NEW e \in Seats(m), e \in Seats(n)
    PROVE  m = n
<1>1. Elimination(draw) /\ Seeds(draw)
  BY Setting
<1>2. sides[m] = FirstSides(draw, m) /\ sides[n] = FirstSides(draw, n)
  BY DEF Base, Provenance
<1>3. PICK s \in FirstSides(draw, m), u \in FirstSides(draw, n) : s.entry = u.entry
  BY <1>2 DEF Seats
<1> QED BY <1>1, <1>3, FirstSidesFacts

\* Up to n, e was sent on from every match it has been in.
WayTo(e, n) ==
    \A m \in MatchesOf(draw) :
        e \in Seats(m) /\ m # n /\ m[1] <= n[1] =>
            \E o \in Outcomes, t \in MatchesOf(draw) :
                Sends(m, o, e, t) /\ e \in Seats(t) /\ t[1] <= n[1]

\* One match more on the way.
LEMMA WayGoesOn ==
    ASSUME Base, NEW n \in MatchesOf(draw), n[1] # 0, NEW e \in Seats(n),
           \A k \in MatchesOf(draw) : k[1] < n[1] /\ e \in Seats(k) => WayTo(e, k)
    PROVE  WayTo(e, n)
<1> SUFFICES ASSUME NEW m \in MatchesOf(draw), e \in Seats(m), m # n, m[1] <= n[1]
             PROVE  \E o \in Outcomes, t \in MatchesOf(draw) :
                       Sends(m, o, e, t) /\ e \in Seats(t) /\ t[1] <= n[1]
  BY DEF WayTo
<1> HIDE DEF Sends, Seats
<1>1. PICK p \in MatchesOf(draw), op \in Outcomes : Sends(p, op, e, n)
  BY Sent
<1>2. e \in Seats(p) /\ n[1] > p[1] /\ \A o \in Outcomes : \A t : Sends(p, o, e, t) => t = n
  BY <1>1, SendsFacts
<1>3. m[1] \in Nat /\ n[1] \in Nat /\ p[1] \in Nat
  BY Setting
<1>4. WayTo(e, p)
  BY <1>2, <1>3
<1>5. CASE m = p
  BY <1>1, <1>3, <1>5
<1>6. CASE m # p /\ m[1] <= p[1]
  <2>1. PICK o \in Outcomes, t \in MatchesOf(draw) :
          Sends(m, o, e, t) /\ e \in Seats(t) /\ t[1] <= p[1]
    BY <1>4, <1>6 DEF WayTo
  <2>2. t[1] \in Nat
    BY Setting
  <2>3. t[1] <= n[1]
    BY <1>2, <1>3, <2>1, <2>2
  <2> QED BY <2>1, <2>3
<1>7. CASE p[1] < m[1] /\ m[1] < n[1]
  <2>1. WayTo(e, m) /\ p # m /\ p[1] <= m[1]
    BY <1>3, <1>7
  <2>2. PICK o \in Outcomes, t \in MatchesOf(draw) : Sends(p, o, e, t) /\ t[1] <= m[1]
    BY <1>2, <2>1 DEF WayTo
  <2>3. t = n
    BY <1>2, <2>2
  <2> QED BY <1>3, <1>7, <2>2, <2>3
<1>8. CASE m[1] = n[1]
  <2>1. PICK q \in MatchesOf(draw), oq \in Outcomes : Sends(q, oq, e, m)
    BY <1>8, Sent
  <2>2. e \in Seats(q) /\ m[1] > q[1] /\ \A o \in Outcomes : \A t : Sends(q, o, e, t) => t = m
    BY <2>1, SendsFacts
  <2>3. q[1] \in Nat
    BY Setting
  <2>4. q # p
    BY <1>1, <2>2
  <2>5. CASE q[1] <= p[1]
    <3>1. PICK o \in Outcomes, t \in MatchesOf(draw) : Sends(q, o, e, t) /\ t[1] <= p[1]
      BY <1>4, <2>2, <2>4, <2>5 DEF WayTo
    <3> QED BY <1>2, <1>3, <1>8, <2>2, <3>1
  <2>6. CASE p[1] <= q[1]
    <3>1. WayTo(e, q)
      BY <1>3, <1>8, <2>2, <2>3
    <3>2. PICK o \in Outcomes, t \in MatchesOf(draw) : Sends(p, o, e, t) /\ t[1] <= q[1]
      BY <1>2, <2>4, <2>6, <3>1 DEF WayTo
    <3> QED BY <1>2, <1>3, <1>8, <2>2, <2>3, <3>2
  <2> QED BY <1>3, <2>3, <2>5, <2>6
<1> QED BY <1>3, <1>5, <1>6, <1>7, <1>8

\* The way of an entry up to any match it is in.
LEMMA Way ==
    ASSUME Base, NEW n \in MatchesOf(draw), NEW e \in Seats(n)
    PROVE  WayTo(e, n)
<1> DEFINE S == {k \in Nat : \A x \in MatchesOf(draw) : x[1] <= k /\ e \in Seats(x) => WayTo(e, x)}
<1> HIDE DEF Sends, Seats
<1>1. 0 \in S
  <2>1. ASSUME NEW x \in MatchesOf(draw), x[1] <= 0, e \in Seats(x)
        PROVE  WayTo(e, x)
    <3>1. ASSUME NEW m \in MatchesOf(draw), e \in Seats(m), m # x, m[1] <= x[1]
          PROVE  FALSE
      <4>1. m[1] = 0 /\ x[1] = 0
        BY <2>1, <3>1, Setting
      <4> QED BY <2>1, <3>1, <4>1, DrawnOnce
    <3> QED BY <3>1 DEF WayTo
  <2> HIDE DEF WayTo
  <2> QED BY <2>1
<1>2. ASSUME NEW k \in Nat, k \in S PROVE k + 1 \in S
  <2>1. ASSUME NEW x \in MatchesOf(draw), x[1] <= k + 1, e \in Seats(x)
        PROVE  WayTo(e, x)
    <3>1. x[1] \in Nat
      BY Setting
    <3>2. CASE x[1] <= k
      BY <1>2, <2>1, <3>2
    <3>3. CASE x[1] = k + 1
      <4>1. ASSUME NEW y \in MatchesOf(draw), y[1] < x[1], e \in Seats(y)
            PROVE  WayTo(e, y)
        <5>1. y[1] <= k
          BY <3>3, <4>1, Setting
        <5> QED BY <1>2, <4>1, <5>1
      <4>2. x[1] # 0
        BY <3>3
      <4> HIDE DEF WayTo
      <4> QED BY <2>1, <4>1, <4>2, WayGoesOn
    <3> QED BY <2>1, <3>1, <3>2, <3>3
  <2> HIDE DEF WayTo
  <2> QED BY <2>1
<1> HIDE DEF S, WayTo
<1>3. n[1] \in S
  BY <1>1, <1>2, NatSetInduction, Setting
<1>4. n[1] <= n[1]
  BY Setting
<1> QED BY <1>3, <1>4 DEF S

\* Nobody is sent to a match from two places.
LEMMA OneSender ==
    ASSUME Base, NEW f \in MatchesOf(draw), NEW g \in MatchesOf(draw), NEW o \in Outcomes,
           NEW p \in Outcomes, NEW e, NEW t, Sends(f, o, e, t), Sends(g, p, e, t)
    PROVE  f = g /\ o = p
<1> HIDE DEF Sends, Seats
<1>1. /\ e \in Seats(f) /\ t[1] > f[1] /\ t \in MatchesOf(draw)
      /\ \A q \in Outcomes : \A u : Sends(f, q, e, u) => o = q /\ t = u
  BY SendsFacts
<1>2. /\ e \in Seats(g) /\ t[1] > g[1]
      /\ \A q \in Outcomes : \A u : Sends(g, q, e, u) => p = q /\ t = u
  BY SendsFacts
<1>3. f[1] \in Nat /\ g[1] \in Nat /\ t[1] \in Nat
  BY <1>1, Setting
<1>4. WayTo(e, f) /\ WayTo(e, g)
  BY <1>1, <1>2, Way
<1>5. f = g
  <2>1. SUFFICES ASSUME f # g PROVE FALSE
    OBVIOUS
  <2>2. CASE f[1] <= g[1]
    <3>1. PICK q \in Outcomes, u \in MatchesOf(draw) : Sends(f, q, e, u) /\ u[1] <= g[1]
      BY <1>1, <1>4, <2>1, <2>2 DEF WayTo
    <3> QED BY <1>1, <1>2, <1>3, <3>1
  <2>3. CASE g[1] <= f[1]
    <3>1. PICK q \in Outcomes, u \in MatchesOf(draw) : Sends(g, q, e, u) /\ u[1] <= f[1]
      BY <1>2, <1>4, <2>1, <2>3 DEF WayTo
    <3> QED BY <1>1, <1>2, <1>3, <3>1
  <2> QED BY <1>3, <2>2, <2>3
<1> QED BY <1>1, <1>5

-----------------------------------------------------------------------------
(* Losing knocks out *)

\* Whoever waits for a match after a defeat was sent on from it as the loser.
LEMMA LossSent ==
    ASSUME Base, NEW n \in MatchesOf(draw), status[n] # "finalized", NEW e \in Seats(n),
           NEW m \in Losses(e)
    PROVE  /\ m \in MatchesOf(draw) /\ m[1] < n[1]
           /\ \E t \in MatchesOf(draw) :
                Sends(m, "loser", e, t) /\ e \in Seats(t) /\ t[1] <= n[1]
<1>1. /\ m \in MatchesOf(draw) /\ status[m] = "finalized"
      /\ \E s \in Losers(m) : s.entry = e
  BY Setting DEF Losses
<1>2. e \in Seats(m)
  BY <1>1 DEF Seats, Losers
<1>3. m[1] \in Nat /\ n[1] \in Nat
  BY <1>1, Setting
<1>4. m[1] < n[1]
  <2>1. SUFFICES ASSUME n[1] <= m[1] PROVE FALSE
    BY <1>3
  <2>2. WayTo(e, m)
    BY <1>1, <1>2, Way
  <2>3. \E o \in Outcomes, t \in MatchesOf(draw) : Sends(n, o, e, t)
    <3> HIDE DEF Sends, Seats
    <3> QED BY <1>1, <2>1, <2>2 DEF WayTo
  <2> QED BY <2>3 DEF Sends
<1>5. WayTo(e, n)
  BY Way
<1>6. PICK o \in Outcomes, t \in MatchesOf(draw) :
        Sends(m, o, e, t) /\ e \in Seats(t) /\ t[1] <= n[1]
  <2> HIDE DEF Sends, Seats
  <2> QED BY <1>1, <1>2, <1>3, <1>4, <1>5 DEF WayTo
<1>7. o = "loser"
  <2>1. SUFFICES ASSUME o = "winner" PROVE FALSE
    BY DEF Outcomes
  <2>2. PICK c \in Candidates("winner", m) : c.entry = e
    BY <1>6, <2>1 DEF Sends
  <2>3. c \in Winners(m) /\ c \in sides[m]
    BY <2>2 DEF Candidates, Found, Winners
  <2>4. PICK s \in sides[m] : s \notin Winners(m) /\ s.entry = e
    BY <1>1 DEF Losers
  <2>5. c = s
    BY <1>1, <2>2, <2>3, <2>4, Setting
  <2> QED BY <2>3, <2>4, <2>5
<1> QED BY <1>1, <1>4, <1>6, <1>7

\* Whoever is in the losers' bracket, or in the bronze match, was sent there by a defeat.
LEMMA LossBefore ==
    ASSUME Base, NEW n \in MatchesOf(draw), n[1] >= R(draw),
           ~(draw.format = "double" /\ n = GrandFinal(R(draw))), NEW e \in Seats(n)
    PROVE  \E m \in MatchesOf(draw) : m \in Losses(e)
<1> DEFINE Safe(x) == x[1] >= R(draw) /\ ~(draw.format = "double" /\ x = GrandFinal(R(draw)))
           S == {k \in Nat : \A x \in MatchesOf(draw) :
                    x[1] <= k /\ Safe(x) /\ e \in Seats(x) =>
                      \E m \in MatchesOf(draw) : m \in Losses(e)}
<1>0. Elimination(draw) /\ R(draw) \in Nat /\ R(draw) >= 1
  BY Setting, RoundsType
<1> HIDE DEF Sends, Seats, Losses
<1>1. 0 \in S
  <2>1. \A x \in MatchesOf(draw) : ~(x[1] <= 0 /\ Safe(x))
    BY <1>0, Setting
  <2> HIDE DEF Safe
  <2> QED BY <2>1
<1>2. ASSUME NEW k \in Nat, k \in S PROVE k + 1 \in S
  <2>1. ASSUME NEW x \in MatchesOf(draw), x[1] <= k + 1, Safe(x), e \in Seats(x)
        PROVE  \E m \in MatchesOf(draw) : m \in Losses(e)
    <3>1. x[1] \in Nat /\ x[1] # 0
      BY <1>0, <2>1, Setting
    <3>2. PICK p \in MatchesOf(draw), o \in Outcomes : Sends(p, o, e, x)
      BY <2>1, <3>1, Sent
    <3>3. e \in Seats(p) /\ p[1] < x[1] /\ p[1] \in Nat /\ (o = "loser" => p \in Losses(e))
          /\ x \in Target(draw, o, p)
      BY <3>2, SendsFacts, Setting DEF Sends
    <3>4. CASE o = "loser"
      BY <3>3, <3>4
    <3>5. CASE o = "winner"
      <4>1. p[1] >= R(draw)
        BY <1>0, <2>1, <3>3, <3>5, TargetFacts
      <4>2. ~(draw.format = "double" /\ p = GrandFinal(R(draw)))
        <5>1. SUFFICES ASSUME draw.format = "double", p = GrandFinal(R(draw)) PROVE FALSE
          OBVIOUS
        <5>2. p[1] = R(draw) + 2 * (R(draw) - 1)
          BY <5>1 DEF GrandFinal, LosersRoundsCount
        <5>3. ~GoesOn(draw, o, p)
          BY <1>0, <3>5, <5>2 DEF GoesOn, WinnerGoesOn
        <5> QED BY <1>0, <3>3, <5>3, TargetIs
      <4>3. p[1] <= k
        BY <2>1, <3>1, <3>3
      <4>4. Safe(p)
        BY <4>1, <4>2
      <4> HIDE DEF Safe
      <4> QED BY <1>2, <3>3, <4>3, <4>4
    <3> QED BY <3>4, <3>5 DEF Outcomes
  <2> HIDE DEF Safe
  <2> QED BY <2>1
<1> HIDE DEF S, Safe
<1>3. n[1] \in S
  BY <1>1, <1>2, NatSetInduction, Setting
<1>4. n[1] <= n[1] /\ Safe(n)
  BY Setting DEF Safe
<1> QED BY <1>3, <1>4 DEF S

\* Count of the defeats, from the way of an entry.
LEMMA KnockedOut ==
    ASSUME Base
    PROVE  LossesKnockOut
<1> SUFFICES ASSUME NEW n \in Matches, status[n] # "finalized", NEW s \in sides[n]
             PROVE  LET r == RoundsFor(draw.size)
                    IN CASE n[1] < r -> Losses(s.entry) = {}
                         [] draw.format = "double" /\ n = GrandFinal(r) ->
                              Cardinality(Losses(s.entry)) <= 1
                         [] OTHER -> Cardinality(Losses(s.entry)) = 1
  BY DEF LossesKnockOut
<1> DEFINE r == RoundsFor(draw.size)
           e == s.entry
<1>1. n \in MatchesOf(draw) /\ Elimination(draw) /\ n[1] \in Nat
  <2>1. n \in MatchesOf(draw)
    BY Typed DEF Base
  <2> QED BY <2>1, Setting
<1>2. r \in Nat /\ r >= 1 /\ R(draw) = r
  BY <1>1, RoundsType DEF R
<1>3. e \in Seats(n)
  BY DEF Seats
<1> HIDE DEF r, e, Seats, Losses, Sends
<1>4. ASSUME NEW m \in Losses(e)
      PROVE  /\ m \in MatchesOf(draw) /\ m[1] < n[1] /\ m[1] < r /\ m[1] \in Nat /\ e \in Seats(m)
             /\ \E t \in MatchesOf(draw) :
                  /\ Sends(m, "loser", e, t) /\ e \in Seats(t)
                  /\ t[1] <= n[1] /\ t[1] >= r /\ t[1] \in Nat
  <2>1. m \in MatchesOf(draw) /\ m[1] < n[1]
    BY <1>1, <1>3, LossSent
  <2>2. PICK t \in MatchesOf(draw) : Sends(m, "loser", e, t) /\ e \in Seats(t) /\ t[1] <= n[1]
    BY <1>1, <1>3, LossSent
  <2>3. m[1] < r /\ t[1] >= r
    <3>1. t \in Target(draw, "loser", m)
      BY <2>2 DEF Sends
    <3> QED BY <1>1, <1>2, <2>1, <3>1, TargetFacts DEF Outcomes
  <2>4. e \in Seats(m) /\ m[1] \in Nat /\ t[1] \in Nat
    BY <2>1, <2>2, SendsFacts, Setting DEF Outcomes
  <2> QED BY <2>1, <2>2, <2>3, <2>4
<1>5. \A m, k \in Losses(e) : m = k
  <2>1. ASSUME NEW m \in Losses(e), NEW k \in Losses(e), m # k, m[1] <= k[1]
        PROVE  FALSE
    <3>1. k \in MatchesOf(draw) /\ m \in MatchesOf(draw) /\ e \in Seats(k) /\ e \in Seats(m)
          /\ k[1] < r /\ k[1] \in Nat
      BY <1>4
    <3>2. PICK t \in MatchesOf(draw) : Sends(m, "loser", e, t) /\ t[1] >= r /\ t[1] \in Nat
      BY <1>4
    <3>3. PICK o \in Outcomes, u \in MatchesOf(draw) : Sends(m, o, e, u) /\ u[1] <= k[1]
      BY <2>1, <3>1, Way DEF WayTo
    <3>4. u = t
      BY <3>1, <3>2, <3>3, SendsFacts DEF Outcomes
    <3> QED BY <1>2, <3>1, <3>2, <3>3, <3>4
  <2>2. ASSUME NEW m \in Losses(e), NEW k \in Losses(e), m # k
        PROVE  FALSE
    <3>1. m[1] \in Nat /\ k[1] \in Nat
      BY <1>4
    <3> QED BY <2>1, <2>2, <3>1
  <2> QED BY <2>2
<1>6. Cardinality(Losses(e)) = IF Losses(e) = {} THEN 0 ELSE 1
  BY <1>5, AtMostOne
<1>7. n[1] < r => Losses(e) = {}
  BY <1>1, <1>2, <1>4
<1>8. ~(n[1] < r) /\ ~(draw.format = "double" /\ n = GrandFinal(r)) => Losses(e) # {}
  BY <1>1, <1>2, <1>3, LossBefore
<1>9. CASE n[1] < r
  <2>1. Losses(e) = {}
    BY <1>7, <1>9
  <2>2. ~(draw.format = "double" /\ n = GrandFinal(r))
    <3>1. GrandFinal(r)[1] = r + 2 * (r - 1)
      BY DEF GrandFinal, LosersRoundsCount
    <3> QED BY <1>1, <1>2, <1>9, <3>1
  <2> QED BY <1>9, <2>1, <2>2 DEF r, e
<1>10. CASE ~(n[1] < r) /\ draw.format = "double" /\ n = GrandFinal(r)
  <2>1. Cardinality(Losses(e)) <= 1
    BY <1>6
  <2> QED BY <1>10, <2>1 DEF r, e
<1>11. CASE ~(n[1] < r) /\ ~(draw.format = "double" /\ n = GrandFinal(r))
  <2>1. Cardinality(Losses(e)) = 1
    BY <1>6, <1>8, <1>11
  <2> QED BY <1>11, <2>1 DEF r, e
<1> QED BY <1>9, <1>10, <1>11

\* Nobody waits for a match of the winners' bracket after a defeat, nor for one of the losers'
\* bracket without one or after two, whatever requests overlap or die (advanceWinnerToNextRound
\* and advanceLoserToNextRound).
THEOREM LossesKnockOutHolds == Spec => []LossesKnockOut
<1>1. Base => LossesKnockOut
  BY KnockedOut
<1> QED BY <1>1, Invariance, PTL

-----------------------------------------------------------------------------
(* No third side *)

\* No two sides of a match stand in the same place.
PlacesDiffer ==
    \A m \in MatchesOf(draw) : \A s, t \in sides[m] : s.position = t.position => s = t

\* Where places differ, one side has won and one has lost.
LEMMA OneCandidate ==
    ASSUME Base, NEW m \in MatchesOf(draw), NEW o \in Outcomes,
           \A s, t \in sides[m] : s.position = t.position => s = t
    PROVE  \A s, t \in Candidates(o, m) : s = t
BY Setting, CandidatesAre, CandFacts

\* Two feeders that send one entry each fill a match.
LEMMA TwoAtMost ==
    ASSUME Base, NEW t \in MatchesOf(draw), t[1] # 0,
           \A f \in MatchesOf(draw) :
              f[1] < t[1] => \A x, y \in sides[f] : x.position = y.position => x = y
    PROVE  Cardinality(sides[t]) <= 2
<1>0. Elimination(draw) /\ \A x, y \in sides[t] : x.entry = y.entry => x = y
  BY Setting
<1>1. PICK f1 \in MatchesOf(draw), f2 \in MatchesOf(draw), o1 \in Outcomes, o2 \in Outcomes :
        AreFeeders(draw, t, f1, o1, f2, o2)
  BY <1>0, TwoFeeders
<1>2. ASSUME NEW f \in MatchesOf(draw), NEW o \in Outcomes, t \in Target(draw, o, f)
      PROVE  \A x, y \in Candidates(o, f) : x = y
  <2>1. f[1] < t[1]
    BY <1>0, <1>2, TargetFacts
  <2> QED BY <2>1, OneCandidate
<1> DEFINE From(f, o) == {x \in sides[t] : Sends(f, o, x.entry, t)}
<1>3. ASSUME NEW f \in MatchesOf(draw), NEW o \in Outcomes
      PROVE  \A x, y \in From(f, o) : x = y
  <2>1. SUFFICES ASSUME NEW x \in From(f, o), NEW y \in From(f, o) PROVE x = y
    OBVIOUS
  <2>2. PICK c \in Candidates(o, f) : c.entry = x.entry
    BY DEF Sends
  <2>3. PICK d \in Candidates(o, f) : d.entry = y.entry
    BY DEF Sends
  <2>4. t \in Target(draw, o, f)
    BY DEF Sends
  <2> QED BY <1>0, <1>2, <2>2, <2>3, <2>4
<1>4. ASSUME NEW x \in sides[t]
      PROVE  x \in From(f1, o1) \/ x \in From(f2, o2)
  <2>1. PICK m \in MatchesOf(draw), o \in Outcomes : Sends(m, o, x.entry, t)
    <3> HIDE DEF Sends
    <3> QED BY DEF Base, Provenance
  <2>2. t \in Target(draw, o, m)
    BY <2>1 DEF Sends
  <2>3. (m = f1 /\ o = o1) \/ (m = f2 /\ o = o2)
    BY <1>1, <2>2 DEF AreFeeders
  <2> HIDE DEF Sends
  <2> QED BY <2>1, <2>3
<1> HIDE DEF From
<1>5. \E x, y : sides[t] \subseteq {x, y}
  <2>1. ASSUME NEW f \in MatchesOf(draw), NEW o \in Outcomes
        PROVE  \E x : From(f, o) \subseteq {x}
    <3>1. CASE From(f, o) = {}
      BY <3>1
    <3>2. CASE From(f, o) # {}
      BY <1>3, <3>2
    <3> QED BY <3>1, <3>2
  <2>2. PICK x : From(f1, o1) \subseteq {x}
    BY <2>1
  <2>3. PICK y : From(f2, o2) \subseteq {y}
    BY <2>1
  <2> QED BY <1>4, <2>2, <2>3
<1> QED BY <1>5, AtMostTwo

\* The first round, by its slots.
LEMMA TwoInFirst ==
    ASSUME Base, NEW m \in MatchesOf(draw), m[1] = 0
    PROVE  Cardinality(sides[m]) <= 2 /\ \A x, y \in sides[m] : x.position = y.position => x = y
<1>1. sides[m] = FirstSides(draw, m) /\ Elimination(draw) /\ Seeds(draw)
  BY Setting DEF Base, Provenance
<1> QED BY <1>1, FirstSidesFinite, FirstSidesFacts

\* Two sides in both places differ in place.
LEMMA PlacesOfFew ==
    ASSUME NEW S, IsFiniteSet(S), Cardinality(S) <= 2,
           Cardinality(S) = 2 => {s.position : s \in S} = {1, 2}
    PROVE  \A x, y \in S : x.position = y.position => x = y
<1>1. SUFFICES ASSUME NEW x \in S, NEW y \in S, x.position = y.position, x # y PROVE FALSE
  OBVIOUS
<1>2. Cardinality(S) = 2 /\ S = {x, y}
  BY <1>1, TwoMembers
<1>3. {s.position : s \in S} = {x.position}
  BY <1>1, <1>2
<1> QED BY <1>2, <1>3

\* If of two sides none stands in the other's place, there never are more than two.
LEMMA TwoSides ==
    ASSUME Base, OneSideAndOneSideB
    PROVE  /\ \A m \in MatchesOf(draw) : Cardinality(sides[m]) <= 2
           /\ PlacesDiffer
<1> DEFINE S == {k \in Nat : \A m \in MatchesOf(draw) : m[1] <= k => Cardinality(sides[m]) <= 2}
<1>1. ASSUME NEW m \in MatchesOf(draw), Cardinality(sides[m]) <= 2
      PROVE  \A x, y \in sides[m] : x.position = y.position => x = y
  <2>1. Cardinality(sides[m]) = 2 => {s.position : s \in sides[m]} = {1, 2}
    BY Setting DEF OneSideAndOneSideB, Positions
  <2> QED BY <1>1, <2>1, PlacesOfFew, Setting
<1>2. 0 \in S
  <2>1. ASSUME NEW m \in MatchesOf(draw), m[1] <= 0 PROVE Cardinality(sides[m]) <= 2
    <3>1. m[1] = 0
      BY <2>1, Setting
    <3> QED BY <3>1, TwoInFirst
  <2> QED BY <2>1
<1>3. ASSUME NEW k \in Nat, k \in S PROVE k + 1 \in S
  <2>1. ASSUME NEW m \in MatchesOf(draw), m[1] <= k + 1 PROVE Cardinality(sides[m]) <= 2
    <3>1. CASE m[1] = 0
      BY <3>1, TwoInFirst
    <3>2. CASE m[1] # 0
      <4>1. ASSUME NEW f \in MatchesOf(draw), f[1] < m[1]
            PROVE  \A x, y \in sides[f] : x.position = y.position => x = y
        <5>1. f[1] <= k
          BY <2>1, <4>1, Setting
        <5>2. Cardinality(sides[f]) <= 2
          BY <1>3, <5>1
        <5> QED BY <1>1, <5>2
      <4> QED BY <3>2, <4>1, TwoAtMost
    <3> QED BY <3>1, <3>2
  <2> QED BY <2>1
<1> HIDE DEF S
<1>4. ASSUME NEW m \in MatchesOf(draw) PROVE Cardinality(sides[m]) <= 2
  <2>1. m[1] \in S /\ m[1] <= m[1]
    BY <1>2, <1>3, NatSetInduction, Setting
  <2> QED BY <2>1 DEF S
<1> QED BY <1>1, <1>4 DEF PlacesDiffer

\* From there to the property.
LEMMA NoThird ==
    ASSUME Base
    PROVE  NoThirdSide
BY TwoSides, Typed DEF NoThirdSide, Base

\* As long as the sides of each match with two are a side A and a side B, no match gets a
\* third, however the requests that count its sides overlap (insertMatchSide).
THEOREM NoThirdSideHolds == Spec => []NoThirdSide
<1>1. Base => NoThirdSide
  BY NoThird
<1> QED BY <1>1, Invariance, PTL

\* The same from the places alone.
LEMMA TwoSidesApart ==
    ASSUME Base, PlacesDiffer, NEW m \in MatchesOf(draw)
    PROVE  Cardinality(sides[m]) <= 2
<1>1. CASE m[1] = 0
  BY <1>1, TwoInFirst
<1>2. CASE m[1] # 0
  BY <1>2, TwoAtMost DEF PlacesDiffer
<1> QED BY <1>1, <1>2

-----------------------------------------------------------------------------
(* Everybody moves on *)

\* A finalized match whose effects no failure cut short, and whose sides are those it was
\* reported for.
Stable(m) ==
    /\ status[m] = "finalized"
    /\ m \notin orphans
    /\ m \in alone => Cardinality(sides[m]) = 1

\* Whoever goes that way from m is seated.
Arrived(o, m) == \A t \in Target(draw, o, m) : \E s \in Candidates(o, m) : s.entry \in Seats(t)

\* A request on m is at one of these stages.
HeldAt(m, stages) == \E h \in Handlers : handlers[h].match = m /\ handlers[h].at \in stages

\* The stages of a request that has yet to deal with that outcome.
Before(o) ==
    IF o = "winner" THEN {"winner", "seat_winner"}
    ELSE {"winner", "seat_winner", "loser", "seat_loser"}

\* The stages of a request that deals with the loser.
AtLoser == {"loser", "seat_loser"}

\* For each way out of m: somebody is seated, or a request is on its way to do it. And once
\* the winner is seated, the loser is, or a request is past the winner.
Attended(m) ==
    /\ \A o \in Outcomes : Candidates(o, m) # {} => Arrived(o, m) \/ HeldAt(m, Before(o))
    /\ /\ Target(draw, "winner", m) # {} /\ Candidates("winner", m) # {} /\ Arrived("winner", m)
       /\ Candidates("loser", m) # {}
       => Arrived("loser", m) \/ HeldAt(m, AtLoser)

\* Until a winner or a loser is seated, a request is there to do it; a request that fails on
\* a winner already seated leaves the loser to the one that seated the winner.
NobodyForgotten == PlacesDiffer => \A m \in MatchesOf(draw) : Stable(m) => Attended(m)

\* What a step never changes of a finalized match.
Settled ==
    \A m \in MatchesOf(draw) : status[m] = "finalized" =>
        /\ winnerSide'[m] = winnerSide[m]
        /\ m \in alone' <=> m \in alone
        /\ m \in orphans => m \in orphans'

\* No match has a third side.
AtMostTwoSides == \A m \in MatchesOf(draw) : Cardinality(sides[m]) <= 2

\* The same as one fact about the state.
LEMMA FewSides == Base /\ PlacesDiffer => AtMostTwoSides
BY TwoSidesApart DEF AtMostTwoSides

\* ... and about the next one.
LEMMA FewSidesNext == Base' /\ PlacesDiffer' => AtMostTwoSides'
BY FewSides, PTL

\* A match that is stable after a step was so before it, with the same sides.
LEMMA StableBefore ==
    ASSUME Base, Base', Onward, Settled, PlacesDiffer', NEW m \in MatchesOf(draw),
           status[m] = "finalized", Stable(m)'
    PROVE  /\ PlacesDiffer /\ Stable(m)
           /\ sides'[m] = sides[m]
           /\ \A o \in Outcomes : Candidates(o, m)' = Candidates(o, m)
<1>1. draw' = draw /\ sides[m] \subseteq sides'[m]
  BY DEF Onward
<1>2. PlacesDiffer
  BY DEF PlacesDiffer, Onward
<1>3. IsFiniteSet(sides[m]) /\ IsFiniteSet(sides'[m])
  BY <1>1 DEF Base, TypeInv, MatchesRight
<1>4. /\ Cardinality(sides[m]) \in Nat /\ Cardinality(sides'[m]) \in Nat
      /\ Cardinality(sides[m]) <= Cardinality(sides'[m])
      /\ Cardinality(sides[m]) = Cardinality(sides'[m]) => sides[m] = sides'[m]
      /\ Cardinality(sides[m]) # 0
  <2>1. sides[m] # {}
    BY DEF Base, Reported
  <2> QED BY <1>1, <1>3, <2>1, FS_Subset, FS_CardinalityType, FS_EmptySet
<1>5. Cardinality(sides'[m]) <= 2
  BY <1>1, FewSidesNext DEF AtMostTwoSides
<1>6. CASE m \in alone
  <2>1. Cardinality(sides'[m]) = 1
    BY <1>6 DEF Settled, Stable
  <2>2. sides'[m] = sides[m] /\ Cardinality(sides[m]) = 1
    BY <1>4, <2>1
  <2>3. Stable(m)
    BY <2>2 DEF Stable, Settled
  <2>4. \A o \in Outcomes : Candidates(o, m)' = Candidates(o, m)
    BY <2>2, CandidatesAre DEF Settled
  <2> QED BY <1>2, <2>2, <2>3, <2>4
<1>7. CASE m \notin alone
  <2>1. Cardinality(sides[m]) >= 2
    BY <1>7 DEF Base, Reported
  <2>2. sides'[m] = sides[m]
    BY <1>4, <1>5, <2>1
  <2>3. Stable(m)
    BY <1>7 DEF Stable, Settled
  <2>4. \A o \in Outcomes : Candidates(o, m)' = Candidates(o, m)
    BY <2>2, CandidatesAre DEF Settled
  <2> QED BY <1>2, <2>2, <2>3, <2>4
<1> QED BY <1>6, <1>7

\* Whoever is seated stays seated.
LEMMA ArrivedStays ==
    ASSUME Base, Onward, NEW m \in MatchesOf(draw), NEW o \in Outcomes,
           Candidates(o, m)' = Candidates(o, m), Arrived(o, m)
    PROVE  Arrived(o, m)'
<1>1. ASSUME NEW t \in Target(draw, o, m)
      PROVE  \E s \in Candidates(o, m) : s.entry \in Seats(t)'
  <2>1. PICK s \in Candidates(o, m) : s.entry \in Seats(t)
    BY DEF Arrived
  <2>2. t \in MatchesOf(draw)
    BY TargetFacts, Setting
  <2>3. sides[t] \subseteq sides'[t]
    BY <2>2 DEF Onward
  <2>4. s.entry \in Seats(t)'
    BY <2>1, <2>3 DEF Seats
  <2> QED BY <2>1, <2>4
<1>2. draw' = draw
  BY DEF Onward
<1> HIDE DEF Candidates, Target, Seats
<1> QED BY <1>1, <1>2 DEF Arrived

\* A step of a request that does not hold an effect of m.
LEMMA AttendedAside ==
    ASSUME Base, Onward, NEW m \in MatchesOf(draw), Attended(m),
           \A o \in Outcomes : Candidates(o, m)' = Candidates(o, m),
           Arrived("winner", m)' => Arrived("winner", m),
           \A g \in Handlers : \/ handlers'[g] = handlers[g]
                               \/ handlers[g].match # m \/ handlers[g].at \in {"idle", "finalize"}
    PROVE  Attended(m)'
<1>1. draw' = draw
  BY DEF Onward
<1>2. ASSUME NEW stages, stages \subseteq {"winner", "seat_winner", "loser", "seat_loser"},
             HeldAt(m, stages)
      PROVE  HeldAt(m, stages)'
  BY <1>2 DEF HeldAt
<1>3. \A o \in Outcomes : Arrived(o, m) => Arrived(o, m)'
  BY ArrivedStays
<1>4. "winner" \in Outcomes /\ "loser" \in Outcomes
  BY DEF Outcomes
<1>5. \A o \in Outcomes : HeldAt(m, Before(o)) => HeldAt(m, Before(o))'
  BY <1>2 DEF Before
<1>6. HeldAt(m, AtLoser) => HeldAt(m, AtLoser)'
  BY <1>2 DEF AtLoser
<1> HIDE DEF Candidates, Target, Arrived, HeldAt, Before, AtLoser
<1> QED BY <1>1, <1>3, <1>4, <1>5, <1>6 DEF Attended

\* A step that leaves the matches as they are and moves no request but h, which stays with m.
LEMMA AttendedSeating ==
    ASSUME Base, Onward, sides' = sides, NEW m \in MatchesOf(draw), Attended(m),
           \A o \in Outcomes : Candidates(o, m)' = Candidates(o, m),
           NEW h \in Handlers, NEW o \in Outcomes, handlers[h].at = o,
           handlers[h].match = m, handlers'[h].match = m, handlers'[h].at = Seating(o),
           \A g \in Handlers \ {h} : handlers'[g] = handlers[g]
    PROVE  Attended(m)'
<1>1. draw' = draw
  BY DEF Onward
<1>2. ASSUME NEW stages, o \in stages => Seating(o) \in stages, HeldAt(m, stages)
      PROVE  HeldAt(m, stages)'
  <2>1. PICK g \in Handlers : handlers[g].match = m /\ handlers[g].at \in stages
    BY <1>2 DEF HeldAt
  <2>2. CASE g = h
    BY <1>2, <2>1, <2>2 DEF HeldAt
  <2>3. CASE g # h
    BY <2>1, <2>3 DEF HeldAt
  <2> QED BY <2>2, <2>3
<1>3. \A p \in Outcomes : HeldAt(m, Before(p)) => HeldAt(m, Before(p))'
  BY <1>2 DEF Before, Seating, Outcomes
<1>4. HeldAt(m, AtLoser) => HeldAt(m, AtLoser)'
  BY <1>2 DEF AtLoser, Seating, Outcomes
<1>5. \A p \in Outcomes : Arrived(p, m)' <=> Arrived(p, m)
  <2>1. \A t : Seats(t)' = Seats(t)
    BY DEF Seats
  <2> HIDE DEF Candidates, Target, Seats
  <2> QED BY <1>1, <2>1 DEF Arrived
<1>6. "winner" \in Outcomes /\ "loser" \in Outcomes
  BY DEF Outcomes
<1> HIDE DEF Candidates, Target, Arrived, HeldAt, Before, AtLoser, Seating
<1> QED BY <1>1, <1>3, <1>4, <1>5, <1>6 DEF Attended

\* Request h is done with one outcome of m, and goes on.
LEMMA AttendedContinue ==
    ASSUME Base, Onward, NEW m \in MatchesOf(draw), Attended(m),
           \A p \in Outcomes : Candidates(p, m)' = Candidates(p, m),
           NEW h \in Handlers, NEW o \in Outcomes, handlers[h].at \in {o, Seating(o)},
           handlers[h].match = m, Continue(h, o),
           Candidates(o, m) = {} \/ Arrived(o, m)'
    PROVE  Attended(m)'
<1>1. draw' = draw
  BY DEF Onward
<1>2. \A g \in Handlers \ {h} : handlers'[g] = handlers[g]
  BY ContinueIs DEF Base
<1>3. "winner" \in Outcomes /\ "loser" \in Outcomes
  BY DEF Outcomes
<1>4. \A p \in Outcomes : Arrived(p, m) => Arrived(p, m)'
  BY ArrivedStays
<1>5. CASE o = "winner"
  <2>1. LoserTo(draw, m) = {} => Arrived("loser", m)'
    BY <1>1 DEF Arrived, Target
  <2>2. LoserTo(draw, m) # {} => HeldAt(m, AtLoser)' /\ HeldAt(m, Before("loser"))'
    <3>1. SUFFICES ASSUME LoserTo(draw, m) # {}
                   PROVE  HeldAt(m, AtLoser)' /\ HeldAt(m, Before("loser"))'
      OBVIOUS
    <3>2. handlers'[h].at = "loser" /\ handlers'[h].match = m
      BY <1>5, <3>1, ContinueIs DEF Base
    <3> QED BY <3>2 DEF HeldAt, AtLoser, Before
  <2> HIDE DEF Candidates, Target, Arrived, HeldAt, Before, AtLoser
  <2> QED BY <1>3, <1>5, <2>1, <2>2 DEF Attended, Outcomes
<1>6. CASE o = "loser"
  <2>1. HeldAt(m, Before("winner")) => HeldAt(m, Before("winner"))'
    <3>1. SUFFICES ASSUME HeldAt(m, Before("winner")) PROVE HeldAt(m, Before("winner"))'
      OBVIOUS
    <3>2. PICK g \in Handlers :
            handlers[g].match = m /\ handlers[g].at \in {"winner", "seat_winner"}
      BY <3>1 DEF HeldAt, Before
    <3>3. g # h
      BY <1>6, <3>2 DEF Seating
    <3> QED BY <1>2, <3>2, <3>3 DEF HeldAt, Before
  <2> HIDE DEF Candidates, Target, Arrived, HeldAt, Before, AtLoser
  <2> QED BY <1>3, <1>4, <1>6, <2>1 DEF Attended, Outcomes
<1> QED BY <1>5, <1>6 DEF Outcomes

\* A match with two sides has whoever m sends there.
LEMMA FullHasMine ==
    ASSUME Base, PlacesDiffer, NEW m \in MatchesOf(draw), NEW o \in Outcomes,
           NEW t \in Target(draw, o, m), NEW s \in Candidates(o, m), ~(Cardinality(sides[t]) < 2)
    PROVE  s.entry \in Seats(t)
<1>1. /\ Elimination(draw) /\ t \in MatchesOf(draw) /\ t[1] # 0
      /\ IsFiniteSet(sides[t]) /\ \A x, y \in sides[t] : x.entry = y.entry => x = y
  <2>1. Elimination(draw)
    BY Setting
  <2>2. t \in MatchesOf(draw) /\ t[1] # 0
    BY <2>1, TargetFacts
  <2> QED BY <2>1, <2>2, Setting
<1>2. PICK x \in sides[t], y \in sides[t] : x # y
  <2>1. SUFFICES ASSUME \A x, y \in sides[t] : x = y PROVE FALSE
    OBVIOUS
  <2> QED BY <2>1, AtMostOne
<1>3. PICK f1 \in MatchesOf(draw), f2 \in MatchesOf(draw), o1 \in Outcomes, o2 \in Outcomes :
        AreFeeders(draw, t, f1, o1, f2, o2)
  BY <1>1, TwoFeeders
<1>4. ASSUME NEW z \in sides[t]
      PROVE  \E f \in MatchesOf(draw), p \in Outcomes : Sends(f, p, z.entry, t)
  <2> HIDE DEF Sends
  <2> QED BY <1>1 DEF Base, Provenance
<1>5. PICK fx \in MatchesOf(draw), ox \in Outcomes : Sends(fx, ox, x.entry, t)
  BY <1>4
<1>6. PICK fy \in MatchesOf(draw), oy \in Outcomes : Sends(fy, oy, y.entry, t)
  BY <1>4
<1>7. \A f \in MatchesOf(draw), p \in Outcomes : \A c, d \in Candidates(p, f) : c = d
  <2> HIDE DEF Candidates
  <2> QED BY OneCandidate DEF PlacesDiffer
<1>8. PICK cx \in Candidates(ox, fx) : cx.entry = x.entry
  BY <1>5 DEF Sends
<1>9. PICK cy \in Candidates(oy, fy) : cy.entry = y.entry
  BY <1>6 DEF Sends
<1>10. ~(fx = fy /\ ox = oy)
  <2> HIDE DEF Candidates
  <2> QED BY <1>1, <1>2, <1>7, <1>8, <1>9
<1>11. t \in Target(draw, ox, fx) /\ t \in Target(draw, oy, fy)
  BY <1>5, <1>6 DEF Sends
<1>12. \/ m = fx /\ o = ox
       \/ m = fy /\ o = oy
  <2> HIDE DEF Target
  <2> QED BY <1>3, <1>10, <1>11 DEF AreFeeders
<1>13. s = cx \/ s = cy
  <2> HIDE DEF Candidates
  <2> QED BY <1>7, <1>8, <1>9, <1>12
<1> QED BY <1>8, <1>9, <1>13 DEF Seats

\* Nobody arrives where no row is written.
LEMMA ArrivedSame ==
    ASSUME draw' = draw, sides' = sides, NEW m, NEW o, Candidates(o, m)' = Candidates(o, m)
    PROVE  Arrived(o, m)' <=> Arrived(o, m)
<1>1. \A t : Seats(t)' = Seats(t)
  BY DEF Seats
<1> HIDE DEF Candidates, Target, Seats
<1> QED BY <1>1 DEF Arrived

\* A step that leaves the matches as they are and moves no request that holds an effect of m.
LEMMA AttendedIdle ==
    ASSUME Base, Onward, sides' = sides, NEW m \in MatchesOf(draw), Attended(m),
           \A o \in Outcomes : Candidates(o, m)' = Candidates(o, m),
           \A g \in Handlers : \/ handlers'[g] = handlers[g]
                               \/ handlers[g].match # m \/ handlers[g].at \in {"idle", "finalize"}
    PROVE  Attended(m)'
<1>1. "winner" \in Outcomes /\ draw' = draw
  BY DEF Outcomes, Onward
<1>2. Arrived("winner", m)' => Arrived("winner", m)
  <2> HIDE DEF Arrived, Candidates
  <2> QED BY <1>1, ArrivedSame
<1> HIDE DEF Arrived, Candidates, Attended
<1> QED BY <1>2, AttendedAside

\* A request fails on an entry that is already seated: the other outcome is another's.
LEMMA AttendedFails ==
    ASSUME Base, Onward, sides' = sides, NEW m \in MatchesOf(draw), Attended(m),
           \A p \in Outcomes : Candidates(p, m)' = Candidates(p, m),
           NEW h \in Handlers, NEW o \in Outcomes, handlers[h].at = Seating(o),
           \A g \in Handlers \ {h} : handlers'[g] = handlers[g],
           Arrived(o, m), Candidates(o, m) # {}, Target(draw, o, m) # {}
    PROVE  Attended(m)'
<1>1. draw' = draw
  BY DEF Onward
<1>2. "winner" \in Outcomes /\ "loser" \in Outcomes
  BY DEF Outcomes
<1>3. \A p \in Outcomes : Arrived(p, m) <=> Arrived(p, m)'
  <2> HIDE DEF Arrived, Candidates
  <2> QED BY <1>1, ArrivedSame
<1>4. ASSUME NEW stages, Seating(o) \notin stages, HeldAt(m, stages)
      PROVE  HeldAt(m, stages)'
  BY <1>4 DEF HeldAt
<1>5. CASE o = "winner"
  <2>1. HeldAt(m, AtLoser) => HeldAt(m, AtLoser)'
    BY <1>4, <1>5 DEF AtLoser, Seating
  <2>2. HeldAt(m, AtLoser)' => HeldAt(m, Before("loser"))'
    BY DEF HeldAt, AtLoser, Before
  <2> HIDE DEF Candidates, Target, Arrived, HeldAt, Before, AtLoser
  <2> QED BY <1>1, <1>2, <1>3, <1>5, <2>1, <2>2 DEF Attended, Outcomes
<1>6. CASE o = "loser"
  <2>1. HeldAt(m, Before("winner")) => HeldAt(m, Before("winner"))'
    BY <1>4, <1>6 DEF Before, Seating
  <2> HIDE DEF Candidates, Target, Arrived, HeldAt, Before, AtLoser
  <2> QED BY <1>1, <1>2, <1>3, <1>6, <2>1 DEF Attended, Outcomes
<1> QED BY <1>5, <1>6 DEF Outcomes

\* What is left to show of a step that goes on with the draw.
LEMMA Remembered ==
    ASSUME Base, Base', NobodyForgotten, Onward, Settled,
           \A m \in MatchesOf(draw) :
              /\ PlacesDiffer' /\ Stable(m)'
              /\ status[m] = "finalized" =>
                   /\ PlacesDiffer /\ Attended(m)
                   /\ \A o \in Outcomes : Candidates(o, m)' = Candidates(o, m)
              => Attended(m)'
    PROVE  NobodyForgotten'
<1>1. draw' = draw
  BY DEF Onward
<1>2. ASSUME NEW m \in MatchesOf(draw), PlacesDiffer', Stable(m)'
      PROVE  Attended(m)'
  <2>1. CASE status[m] = "finalized"
    <3>1. PlacesDiffer /\ Stable(m) /\ \A o \in Outcomes : Candidates(o, m)' = Candidates(o, m)
      <4> HIDE DEF Candidates
      <4> QED BY <1>2, <2>1, StableBefore
    <3>2. Attended(m)
      BY <3>1 DEF NobodyForgotten
    <3> HIDE DEF Candidates, Attended, Stable, PlacesDiffer
    <3> QED BY <1>2, <3>1, <3>2
  <2>2. CASE status[m] # "finalized"
    <3> HIDE DEF Candidates, Attended, Stable, PlacesDiffer
    <3> QED BY <1>2, <2>2
  <2> QED BY <2>1, <2>2
<1> HIDE DEF Attended, Stable, PlacesDiffer
<1> QED BY <1>1, <1>2 DEF NobodyForgotten

\* A step of nobody but, at most, requests that hold no effect.
LEMMA RememberedAside ==
    ASSUME Base, Base', NobodyForgotten,
           UNCHANGED <<draw, sides, status, winnerSide, orphans, alone>>,
           \A g \in Handlers : handlers'[g] = handlers[g] \/ handlers[g].at = "idle"
    PROVE  NobodyForgotten'
<1>1. Onward
  BY Onlooking
<1>2. Settled
  BY DEF Settled
<1>3. ASSUME NEW m \in MatchesOf(draw), Stable(m)',
             status[m] = "finalized" =>
                /\ PlacesDiffer /\ Attended(m)
                /\ \A o \in Outcomes : Candidates(o, m)' = Candidates(o, m)
      PROVE  Attended(m)'
  <2>1. status[m] = "finalized"
    BY <1>3 DEF Stable
  <2> HIDE DEF Attended, Candidates
  <2> QED BY <1>1, <1>3, <2>1, AttendedIdle
<1> HIDE DEF Attended, Candidates, Stable, PlacesDiffer
<1> QED BY <1>1, <1>2, <1>3, Remembered

\* In a new draw nothing is final.
LEMMA RememberedFresh ==
    ASSUME \A m \in MatchesOf(draw') : status'[m] = "scheduled"
    PROVE  NobodyForgotten'
BY DEF NobodyForgotten, Stable

\* A result is entered in a match that is not final.
LEMMA RememberedReport ==
    ASSUME Base, Base', NobodyForgotten, NEW n \in DOMAIN status, NEW w \in {"A", "B", "draw"},
           Report(n, w)
    PROVE  NobodyForgotten'
<1>1. Onward
  BY ReportIsOnward DEF Base
<1>2. /\ n \in MatchesOf(draw) /\ status[n] # "finalized" /\ sides' = sides
      /\ handlers' = handlers /\ orphans' = orphans
      /\ alone' = IF Cardinality(sides[n]) = 1 THEN alone \cup {n} ELSE alone \ {n}
      /\ status' = [status EXCEPT ![n] = "reported"] /\ winnerSide' = [winnerSide EXCEPT ![n] = w]
      /\ status \in [MatchesOf(draw) -> {"scheduled", "reported", "finalized"}]
      /\ winnerSide \in [MatchesOf(draw) -> {"none", "A", "B", "draw"}]
  BY DEF Report, Reportable, drawVars, Base, TypeInv, MatchesRight
<1>3. Settled
  BY <1>2 DEF Settled
<1>4. ASSUME NEW m \in MatchesOf(draw), Stable(m)',
             status[m] = "finalized" =>
                /\ PlacesDiffer /\ Attended(m)
                /\ \A o \in Outcomes : Candidates(o, m)' = Candidates(o, m)
      PROVE  Attended(m)'
  <2>1. status[m] = "finalized"
    BY <1>2, <1>4 DEF Stable
  <2> HIDE DEF Attended, Candidates
  <2> QED BY <1>1, <1>2, <1>4, <2>1, AttendedIdle
<1> HIDE DEF Attended, Candidates, Stable, PlacesDiffer
<1> QED BY <1>1, <1>3, <1>4, Remembered

\* Before it is final, a match has sent nobody on.
LEMMA NobodyAhead ==
    ASSUME Base, NEW m \in MatchesOf(draw), status[m] # "finalized", NEW o \in Outcomes,
           Target(draw, o, m) # {}, Candidates(o, m) # {}
    PROVE  ~Arrived(o, m)
<1>1. SUFFICES ASSUME Arrived(o, m) PROVE FALSE
  OBVIOUS
<1>2. PICK t \in Target(draw, o, m) : TRUE
  OBVIOUS
<1>3. PICK s \in Candidates(o, m) : s.entry \in Seats(t)
  BY <1>1, <1>2 DEF Arrived
<1>4. s.entry \in Seats(m)
  BY <1>3, CandidatesAreSides DEF Seats
<1>5. t \in MatchesOf(draw) /\ t[1] > m[1] /\ t[1] \in Nat /\ m[1] \in Nat
  BY <1>2, Setting, TargetFacts
<1>6. WayTo(s.entry, t)
  BY <1>3, <1>5, Way
<1>7. m # t /\ m[1] <= t[1]
  BY <1>5
<1>8. \E p \in Outcomes, u \in MatchesOf(draw) : Sends(m, p, s.entry, u)
  <2> HIDE DEF Sends, Seats
  <2> QED BY <1>4, <1>6, <1>7 DEF WayTo
<1> QED BY <1>8 DEF Sends

\* The request that finalizes a match is the first to look after it, or one more.
LEMMA RememberedFinalize ==
    ASSUME Base, Base', NobodyForgotten, NEW h \in Handlers, FinalizeMatch(h)
    PROVE  NobodyForgotten'
<1> DEFINE n == handlers[h].match
<1>1. /\ n \in MatchesOf(draw)
      /\ \A k \in MatchesOf(draw) \ {n} : status'[k] = status[k]
      /\ handlers'[h].at = "winner" /\ handlers'[h].match = n
      /\ \A g \in Handlers \ {h} : handlers'[g] = handlers[g]
      /\ UNCHANGED <<draw, sides, winnerSide, orphans, alone>>
      /\ handlers[h].at = "finalize"
      /\ Onward
  BY FinalizeIs DEF Base
<1>2. Settled
  BY <1>1 DEF Settled
<1>3. ASSUME NEW m \in MatchesOf(draw), Stable(m)',
             status[m] = "finalized" =>
                /\ PlacesDiffer /\ Attended(m)
                /\ \A o \in Outcomes : Candidates(o, m)' = Candidates(o, m)
      PROVE  Attended(m)'
  <2>1. CASE status[m] = "finalized"
    <3>1. \A g \in Handlers : handlers'[g] = handlers[g] \/ handlers[g].at \in {"idle", "finalize"}
      BY <1>1
    <3> HIDE DEF Attended, Candidates
    <3> QED BY <1>1, <1>3, <2>1, <3>1, AttendedIdle
  <2>2. CASE status[m] # "finalized"
    <3>1. m = n
      BY <1>1, <1>3, <2>2 DEF Stable
    <3>2. \A o \in Outcomes : HeldAt(m, Before(o))'
      BY <1>1, <3>1 DEF HeldAt, Before
    <3>3. "winner" \in Outcomes
      BY DEF Outcomes
    <3>4. \A o \in Outcomes : Candidates(o, m)' = Candidates(o, m)
      BY <1>1, CandidatesAre
    <3>5. Arrived("winner", m)' <=> Arrived("winner", m)
      <4> HIDE DEF Arrived, Candidates
      <4> QED BY <1>1, <3>3, <3>4, ArrivedSame
    <3>6. Target(draw, "winner", m) # {} /\ Candidates("winner", m) # {} => ~Arrived("winner", m)
      BY <2>2, <3>3, NobodyAhead
    <3>7. draw' = draw
      BY <1>1
    <3> HIDE DEF Candidates, Target, Arrived, HeldAt, Before, AtLoser
    <3> QED BY <3>2, <3>3, <3>4, <3>5, <3>6, <3>7 DEF Attended
  <2> QED BY <2>1, <2>2
<1> HIDE DEF Attended, Candidates, Stable, PlacesDiffer
<1> QED BY <1>1, <1>2, <1>3, Remembered

\* A request that dies leaves an orphan.
LEMMA RememberedDies ==
    ASSUME Base, Base', NobodyForgotten, NEW h \in Handlers, RequestDies(h)
    PROVE  NobodyForgotten'
<1>1. /\ UNCHANGED <<draw, sides, status, winnerSide, alone>>
      /\ orphans' = orphans \cup {handlers[h].match}
      /\ \A g \in Handlers \ {h} : handlers'[g] = handlers[g]
  BY DEF RequestDies, drawVars, matchVars, MoveTo, Base, TypeInv, RequestsRight
<1>2. Onward /\ Settled
  BY <1>1, Onlooking DEF Settled
<1>3. ASSUME NEW m \in MatchesOf(draw), Stable(m)',
             status[m] = "finalized" =>
                /\ PlacesDiffer /\ Attended(m)
                /\ \A o \in Outcomes : Candidates(o, m)' = Candidates(o, m)
      PROVE  Attended(m)'
  <2>1. status[m] = "finalized" /\ handlers[h].match # m
    BY <1>1, <1>3 DEF Stable
  <2>2. \A g \in Handlers : handlers'[g] = handlers[g] \/ handlers[g].match # m
    BY <1>1, <2>1
  <2> HIDE DEF Attended, Candidates
  <2> QED BY <1>1, <1>2, <1>3, <2>1, <2>2, AttendedIdle
<1> HIDE DEF Attended, Candidates, Stable, PlacesDiffer
<1> QED BY <1>2, <1>3, Remembered

\* A request that finds nobody to seat leaves nobody behind.
LEMMA NobodyToSeat ==
    ASSUME Base, PlacesDiffer, NEW m \in MatchesOf(draw), NEW o \in Outcomes,
           \/ Candidates(o, m) \X Target(draw, o, m) = {}
           \/ \E move \in Candidates(o, m) \X Target(draw, o, m) : ~Seatable(move[1], move[2])
    PROVE  Candidates(o, m) = {} \/ Arrived(o, m)
<1>1. CASE Candidates(o, m) = {} \/ Target(draw, o, m) = {}
  BY <1>1 DEF Arrived
<1>2. CASE \E move \in Candidates(o, m) \X Target(draw, o, m) : ~Seatable(move[1], move[2])
  <2>1. PICK s \in Candidates(o, m), t \in Target(draw, o, m) : ~Seatable(s, t)
    <3> HIDE DEF Candidates, Target, Seatable
    <3> QED BY <1>2
  <2>2. s.entry \in Seats(t)
    <3>1. s.entry \in Seats(t) \/ ~(Cardinality(sides[t]) < 2)
      BY <2>1 DEF Seatable, Vacant
    <3> QED BY <3>1, FullHasMine
  <2>3. \A u \in Target(draw, o, m) : u = t
    BY Setting, TargetFacts
  <2> HIDE DEF Candidates, Target, Seats
  <2> QED BY <2>2, <2>3 DEF Arrived
<1>3. Candidates(o, m) = {} \/ Target(draw, o, m) = {}
      \/ \E move \in Candidates(o, m) \X Target(draw, o, m) : ~Seatable(move[1], move[2])
  <2> DEFINE C == Candidates(o, m)
             T == Target(draw, o, m)
  <2>1. C \X T = {} \/ \E move \in C \X T : ~Seatable(move[1], move[2])
    OBVIOUS
  <2>2. ASSUME NEW c \in C, NEW t \in T PROVE <<c, t>> \in C \X T
    OBVIOUS
  <2> HIDE DEF C, T, Seatable
  <2>3. C = {} \/ T = {} \/ \E move \in C \X T : ~Seatable(move[1], move[2])
    BY <2>1, <2>2
  <2> QED BY <2>3 DEF C, T
<1> QED BY <1>1, <1>2, <1>3

\* A request that leaves the winner, or the loser, finds them seated or nobody to seat.
LEMMA RememberedRead ==
    ASSUME Base, Base', NobodyForgotten, NEW h \in Handlers, NEW o \in Outcomes,
           ReadNextSides(h, o)
    PROVE  NobodyForgotten'
<1> DEFINE n == handlers[h].match
<1>1. /\ UNCHANGED <<draw, sides, status, winnerSide, orphans, alone>>
      /\ handlers[h].at = o
  BY DEF ReadNextSides, drawVars, matchVars
<1>2. Onward /\ Settled
  BY <1>1, Onlooking DEF Settled
<1>3. \/ Continue(h, o)
         /\ \/ Candidates(o, n) \X Target(draw, o, n) = {}
            \/ \E move \in Candidates(o, n) \X Target(draw, o, n) : ~Seatable(move[1], move[2])
      \/ \E s, t : MoveTo(h, [at |-> Seating(o), match |-> n, entry |-> s.entry,
                              position |-> Cardinality(sides[t]) + 1])
  <2> HIDE DEF Candidates, Target, Seatable, Seating, MoveTo, Continue
  <2> QED BY DEF ReadNextSides
<1>4. \A g \in Handlers \ {h} : handlers'[g] = handlers[g]
  <2>1. CASE Continue(h, o)
    BY <2>1, ContinueIs DEF Base
  <2>2. CASE \E s, t : MoveTo(h, [at |-> Seating(o), match |-> n, entry |-> s.entry,
                                  position |-> Cardinality(sides[t]) + 1])
    BY <2>2 DEF MoveTo, Base, TypeInv, RequestsRight
  <2> HIDE DEF Candidates, Target, Seatable, Seating, MoveTo, Continue
  <2> QED BY <1>3, <2>1, <2>2
<1>5. ASSUME NEW m \in MatchesOf(draw), Stable(m)',
             status[m] = "finalized" =>
                /\ PlacesDiffer /\ Attended(m)
                /\ \A p \in Outcomes : Candidates(p, m)' = Candidates(p, m)
      PROVE  Attended(m)'
  <2>1. status[m] = "finalized"
    BY <1>1, <1>5 DEF Stable
  <2>2. CASE m # n
    <3>1. \A g \in Handlers : handlers'[g] = handlers[g] \/ handlers[g].match # m
      BY <1>4, <2>2
    <3> HIDE DEF Attended, Candidates
    <3> QED BY <1>1, <1>2, <1>5, <2>1, <3>1, AttendedIdle
  <2>3. CASE m = n /\ \E s, t : MoveTo(h, [at |-> Seating(o), match |-> n, entry |-> s.entry,
                                           position |-> Cardinality(sides[t]) + 1])
    <3>1. handlers'[h].match = m /\ handlers'[h].at = Seating(o)
      BY <2>3 DEF MoveTo, Base, TypeInv, RequestsRight
    <3> HIDE DEF Attended, Candidates, Seating
    <3> QED BY <1>1, <1>2, <1>4, <1>5, <2>1, <2>3, <3>1, AttendedSeating
  <2>4. CASE /\ m = n /\ Continue(h, o)
             /\ \/ Candidates(o, n) \X Target(draw, o, n) = {}
                \/ \E move \in Candidates(o, n) \X Target(draw, o, n) :
                      ~Seatable(move[1], move[2])
    <3>1. Candidates(o, m) = {} \/ Arrived(o, m)
      <4> HIDE DEF Candidates, Target, Seatable, PlacesDiffer, Arrived
      <4> QED BY <1>5, <2>1, <2>4, NobodyToSeat
    <3>2. Candidates(o, m) = {} \/ Arrived(o, m)'
      <4> HIDE DEF Candidates, Arrived
      <4> QED BY <1>1, <1>5, <2>1, <3>1, ArrivedSame
    <3> HIDE DEF Attended, Candidates, Seating, Arrived, Continue
    <3> QED BY <1>1, <1>2, <1>5, <2>1, <2>4, <3>2, AttendedContinue
  <2> HIDE DEF Candidates, Target, Seatable, Seating, MoveTo, Continue
  <2> QED BY <1>3, <2>2, <2>3, <2>4
<1> HIDE DEF Attended, Candidates, Stable, PlacesDiffer
<1> QED BY <1>2, <1>5, Remembered

\* A row inserted for another match seats nobody m sends.
LEMMA AnothersRow ==
    ASSUME Base, NEW m \in MatchesOf(draw), NEW n \in MatchesOf(draw), m # n,
           status[m] = "finalized", NEW o \in Outcomes, NEW p \in Outcomes, NEW e,
           NEW t \in MatchesOf(draw), Sends(n, o, e, t), draw' = draw,
           Candidates(p, m)' = Candidates(p, m),
           \A u \in MatchesOf(draw) : \A s \in sides'[u] : s \in sides[u] \/ (u = t /\ s.entry = e),
           Arrived(p, m)'
    PROVE  Arrived(p, m)
<1>1. ASSUME NEW u \in Target(draw, p, m)
      PROVE  \E s \in Candidates(p, m) : s.entry \in Seats(u)
  <2>1. PICK s \in Candidates(p, m) : s.entry \in {x.entry : x \in sides'[u]}
    <3>1. Arrived(p, m)' <=>
            \A v \in Target(draw', p, m) : \E s \in Candidates(p, m)' : s.entry \in Seats(v)'
      BY DEF Arrived
    <3>2. \A v : Seats(v)' = {x.entry : x \in sides'[v]}
      BY DEF Seats
    <3> HIDE DEF Candidates, Target, Seats, Arrived
    <3> QED BY <3>1, <3>2
  <2>2. PICK x \in sides'[u] : x.entry = s.entry
    BY <2>1
  <2>3. u \in MatchesOf(draw)
    BY Setting, TargetFacts
  <2>4. CASE x \in sides[u]
    BY <2>2, <2>4 DEF Seats
  <2>5. CASE u = t /\ x.entry = e
    <3>1. Sends(m, p, e, t)
      BY <2>2, <2>5 DEF Sends
    <3> HIDE DEF Sends
    <3> QED BY <3>1, OneSender
  <2> QED BY <2>2, <2>3, <2>4, <2>5
<1> HIDE DEF Candidates, Target, Seats
<1> QED BY <1>1 DEF Arrived

\* An insertion seats whom it came for, or fails on somebody who is seated.
LEMMA RememberedInsert ==
    ASSUME Base, Base', NobodyForgotten, NEW h \in Handlers, NEW o \in Outcomes,
           InsertSide(h, o)
    PROVE  NobodyForgotten'
<1> DEFINE n == handlers[h].match
           e == handlers[h].entry
           row == [entry |-> handlers[h].entry, position |-> handlers[h].position]
<1>1. PICK t \in Target(draw, o, n) :
        /\ t \in MatchesOf(draw) /\ n \in MatchesOf(draw) /\ Elimination(draw)
        /\ handlers[h].at = Seating(o)
        /\ Sends(n, o, e, t)
        /\ UNCHANGED <<draw, status, winnerSide, orphans, alone>>
        /\ \A g \in Handlers \ {h} : handlers'[g] = handlers[g]
        /\ \/ e \in Seats(t) /\ handlers'[h] = Idle /\ sides' = sides
           \/ /\ e \notin Seats(t)
              /\ sides'[t] = sides[t] \cup {row}
              /\ \A k \in MatchesOf(draw) \ {t} : sides'[k] = sides[k]
              /\ Continue(h, o)
  BY InsertIs
<1>2. Onward
  BY InsertIsOnward
<1>3. Settled
  BY <1>1 DEF Settled
<1>4. \A u \in MatchesOf(draw) : \A s \in sides'[u] : s \in sides[u] \/ (u = t /\ s.entry = e)
  BY <1>1
<1>5. PICK c \in Candidates(o, n) : c.entry = e
  BY <1>1 DEF Sends
<1>6. \A u \in Target(draw, o, n) : u = t
  BY <1>1, TargetFacts
<1>7. ASSUME NEW m \in MatchesOf(draw), Stable(m)',
             status[m] = "finalized" =>
                /\ PlacesDiffer /\ Attended(m)
                /\ \A p \in Outcomes : Candidates(p, m)' = Candidates(p, m)
      PROVE  Attended(m)'
  <2>1. status[m] = "finalized"
    BY <1>1, <1>7 DEF Stable
  <2>2. CASE m # n
    <3>1. \A g \in Handlers : handlers'[g] = handlers[g] \/ handlers[g].match # m
      BY <1>1, <2>2
    <3>2. "winner" \in Outcomes
      BY DEF Outcomes
    <3>3. Arrived("winner", m)' => Arrived("winner", m)
      <4> HIDE DEF Candidates, Arrived, Sends, e
      <4> QED BY <1>1, <1>4, <1>7, <2>1, <2>2, <3>2, AnothersRow
    <3> HIDE DEF Attended, Candidates, Arrived
    <3> QED BY <1>2, <1>7, <2>1, <3>1, <3>3, AttendedAside
  <2>3. CASE m = n /\ e \in Seats(t) /\ sides' = sides
    <3>1. Arrived(o, m) /\ Candidates(o, m) # {} /\ Target(draw, o, m) # {}
      <4> HIDE DEF Candidates, Seats, Target, e
      <4> QED BY <1>1, <1>5, <1>6, <2>3 DEF Arrived
    <3> HIDE DEF Attended, Candidates, Arrived, Target, Seating, Sends
    <3> QED BY <1>1, <1>2, <1>7, <2>1, <2>3, <3>1, AttendedFails
  <2>4. CASE m = n /\ sides'[t] = sides[t] \cup {row} /\ Continue(h, o)
    <3>1. c \in Candidates(o, m)' /\ draw' = draw
      <4> HIDE DEF Candidates
      <4> QED BY <1>1, <1>5, <1>7, <2>1, <2>4
    <3>2. e \in Seats(t)'
      BY <2>4 DEF Seats
    <3>3. Arrived(o, m)'
      <4> HIDE DEF Candidates, Seats, Target, e
      <4> QED BY <1>1, <1>5, <1>6, <2>4, <3>1, <3>2 DEF Arrived
    <3> HIDE DEF Attended, Candidates, Arrived, Target, Seating, Sends, Continue
    <3> QED BY <1>1, <1>2, <1>7, <2>1, <2>4, <3>3, AttendedContinue
  <2> HIDE DEF Sends, Continue
  <2> QED BY <1>1, <2>2, <2>3, <2>4
<1> HIDE DEF Attended, Candidates, Stable, PlacesDiffer
<1> QED BY <1>2, <1>3, <1>7, Remembered

\* Every step keeps NobodyForgotten.
LEMMA RememberedNext ==
    ASSUME Base, NobodyForgotten, [Next]_vars
    PROVE  NobodyForgotten'
<1>0. Base'
  BY BaseNext
<1>1. CASE AskDraw \/ GenerateFails \/ UNCHANGED vars
  <2>1. UNCHANGED <<draw, sides, status, winnerSide, orphans, alone, handlers>>
    BY <1>1 DEF AskDraw, GenerateFails, vars, drawVars, matchVars, requestVars
  <2> QED BY <1>0, <2>1, RememberedAside
<1>2. CASE \E seeding \in Seedings, n \in DrawSizes, format \in Formats :
             \E seeds \in StorableSeedings(seeding, n) : GenerateBracket(n, format, seeds)
  <2>1. status' = [m \in MatchesOf(draw') |-> "scheduled"]
    BY <1>2 DEF GenerateBracket
  <2> QED BY <2>1, RememberedFresh
<1>3. CASE DeleteBracket
  <2>1. MatchesOf(draw') = {}
    BY <1>3, NoMatches DEF DeleteBracket
  <2> QED BY <2>1, RememberedFresh
<1>4. CASE \E m \in DOMAIN status, w \in {"A", "B", "draw"} : Report(m, w)
  BY <1>0, <1>4, RememberedReport
<1>5. CASE \E h \in Handlers : \E m \in DOMAIN status : ReadStatus(h, m)
  <2>1. /\ UNCHANGED <<draw, sides, status, winnerSide, orphans, alone>>
        /\ \A g \in Handlers : handlers'[g] = handlers[g] \/ handlers[g].at = "idle"
    BY <1>5 DEF ReadStatus, MoveTo, Idle, drawVars, matchVars, Base, TypeInv, RequestsRight
  <2> QED BY <1>0, <2>1, RememberedAside
<1>6. CASE \E h \in Handlers : FinalizeMatch(h)
  BY <1>0, <1>6, RememberedFinalize
<1>7. CASE \E h \in Handlers : \E o \in {"winner", "loser"} : ReadNextSides(h, o)
  BY <1>0, <1>7, RememberedRead DEF Outcomes
<1>8. CASE \E h \in Handlers : \E o \in {"winner", "loser"} : InsertSide(h, o)
  BY <1>0, <1>8, RememberedInsert DEF Outcomes
<1>9. CASE \E h \in Handlers : RequestDies(h)
  BY <1>0, <1>9, RememberedDies
<1> QED BY <1>1, <1>2, <1>3, <1>4, <1>5, <1>6, <1>7, <1>8, <1>9 DEF Next

\* Until the winner and the loser of a finalized match are seated a request is there to do
\* it, or one has died (runPostFinalizationEffects).
THEOREM NobodyIsForgotten == Spec => []NobodyForgotten
<1>1. Init => NobodyForgotten
  BY NoMatches DEF Init, NobodyForgotten
<1>2. Base /\ NobodyForgotten /\ [Next]_vars => NobodyForgotten'
  BY RememberedNext
<1> QED BY <1>1, <1>2, Invariance, PTL DEF Spec

\* From there to the property: no request, so everybody is seated.
LEMMA MovedOn ==
    ASSUME Base, NobodyForgotten
    PROVE  EverybodyMovesOn
<1> SUFFICES ASSUME OneSideAndOneSideB, NEW m \in Matches, status[m] = "finalized",
                    m \notin orphans, ~UnderWay(m), m \in alone => Cardinality(sides[m]) = 1,
                    NEW o \in {"winner", "loser"}, Candidates(o, m) # {}
             PROVE  Arrived(o, m)
  BY DEF EverybodyMovesOn, Arrived
<1>1. m \in MatchesOf(draw) /\ o \in Outcomes
  BY Typed DEF Base, Outcomes
<1>2. Attended(m)
  BY <1>1, TwoSides DEF NobodyForgotten, Stable
<1>3. ~HeldAt(m, Before(o))
  BY DEF HeldAt, Before, UnderWay, Idle
<1> HIDE DEF Candidates, Arrived, HeldAt, Before
<1> QED BY <1>1, <1>2, <1>3 DEF Attended

\* Once the requests on a match are over, if none died, its winner and its loser are seated
\* where the links say, also when two requests finalize it, or both feeders of a match, at the
\* same time (runPostFinalizationEffects).
THEOREM EverybodyMovesOnHolds == Spec => []EverybodyMovesOn
<1>1. Base /\ NobodyForgotten => EverybodyMovesOn
  BY MovedOn
<1> QED BY <1>1, Invariance, NobodyIsForgotten, PTL

-----------------------------------------------------------------------------
(* A draw without byes never stalls *)

\* A match won by one of its two sides has a winner and a loser.
LEMMA WinnerAndLoser ==
    ASSUME Base, NEW f \in MatchesOf(draw), Cardinality(sides[f]) = 2, Positions(f) = {1, 2},
           winnerSide[f] \in {"A", "B"}, NEW o \in Outcomes
    PROVE  Candidates(o, f) # {}
<1>1. PICK x \in sides[f] : x.position = 1
  BY DEF Positions
<1>2. PICK y \in sides[f] : y.position = 2
  BY DEF Positions
<1>3. sides[f] = {x, y}
  <2>1. IsFiniteSet(sides[f]) /\ x # y
    BY <1>1, <1>2, Setting
  <2> QED BY <2>1, TwoMembers
<1>4. CASE winnerSide[f] = "A"
  <2>1. Winners(f) = {x} /\ Losers(f) = {y}
    BY <1>1, <1>2, <1>3, <1>4 DEF Winners, Losers
  <2> QED BY <1>1, <1>2, <2>1 DEF Candidates, Found
<1>5. CASE winnerSide[f] = "B"
  <2>1. Winners(f) = {y} /\ Losers(f) = {x}
    BY <1>1, <1>2, <1>3, <1>5 DEF Winners, Losers
  <2> QED BY <1>1, <1>2, <2>1 DEF Candidates, Found
<1> QED BY <1>4, <1>5

\* Of the matches that are not final, those of the least round have both their sides.
LEMMA NeverStalls ==
    ASSUME Base, NobodyForgotten, Seedings \subseteq {"random"}
    PROVE  DrawNeverStalls
<1> SUFFICES ASSUME FullDraw, OneSideAndOneSideB,
                    \A m \in Matches : ~UnderWay(m) /\ m \notin orphans \cup alone,
                    \A m \in Matches : status[m] = "finalized" => winnerSide[m] # "draw",
                    NEW x \in Matches, status[x] # "finalized"
             PROVE  \E m \in Matches : status[m] # "finalized" /\ Cardinality(sides[m]) = 2
  <2> HIDE DEF Matches, FullDraw, OneSideAndOneSideB, UnderWay
  <2> QED BY DEF DrawNeverStalls
<1>1. Matches = MatchesOf(draw) /\ Elimination(draw) /\ Shuffled(draw)
      /\ draw.size = Pow2[R(draw)]
  BY Typed DEF Base, TypeInv, DrawRight, FullDraw, R
<1>2. (\A m \in MatchesOf(draw) : Cardinality(sides[m]) <= 2) /\ PlacesDiffer
  BY TwoSides
<1> DEFINE Open == {m \in MatchesOf(draw) : status[m] # "finalized"}
<1>3. PICK t \in Open : \A m \in Open : t[1] <= m[1]
  <2> DEFINE rounds == {m[1] : m \in Open}
  <2>1. rounds \subseteq Nat /\ rounds # {}
    BY <1>1, Setting
  <2> HIDE DEF rounds
  <2>2. PICK k \in rounds : \A j \in rounds : k <= j
    BY <2>1, LeastNatural
  <2> QED BY <2>2 DEF rounds
<1>4. \E y, z \in sides[t] : y # z
  <2>1. CASE t[1] = 0
    <3>1. sides[t] = FirstSides(draw, t)
      BY <2>1 DEF Base, Provenance
    <3>2. \A p \in {1, 2} : \E s \in FirstSides(draw, t) : s.position = p
      BY <1>1, <2>1, BothInFullDraw
    <3>3. PICK y \in FirstSides(draw, t) : y.position = 1
      BY <3>2
    <3>4. PICK z \in FirstSides(draw, t) : z.position = 2
      BY <3>2
    <3> QED BY <3>1, <3>3, <3>4
  <2>2. CASE t[1] # 0
    <3>1. PICK f1 \in MatchesOf(draw), f2 \in MatchesOf(draw), o1 \in Outcomes, o2 \in Outcomes :
            AreFeeders(draw, t, f1, o1, f2, o2)
      BY <1>1, <2>2, TwoFeeders
    <3>2. t \in Target(draw, o1, f1) /\ t \in Target(draw, o2, f2) /\ ~(f1 = f2 /\ o1 = o2)
      <4> HIDE DEF Target
      <4> QED BY <3>1 DEF AreFeeders
    <3>3. ASSUME NEW f \in MatchesOf(draw), NEW o \in Outcomes, t \in Target(draw, o, f)
          PROVE  \E e \in Seats(t) : Sends(f, o, e, t)
      <4>1. f[1] < t[1] /\ f[1] \in Nat /\ t[1] \in Nat
        BY <1>1, <3>3, TargetFacts
      <4>2. status[f] = "finalized"
        BY <1>3, <4>1
      <4>3. winnerSide[f] \in {"A", "B"} /\ Cardinality(sides[f]) >= 2
        BY <1>1, <4>2 DEF Base, Reported, TypeInv, MatchesRight
      <4>4. Cardinality(sides[f]) = 2
        <5>1. Cardinality(sides[f]) \in Nat /\ Cardinality(sides[f]) <= 2
          BY <1>2, Setting, FS_CardinalityType
        <5> QED BY <4>3, <5>1
      <4>5. Positions(f) = {1, 2}
        BY <1>1, <4>4 DEF OneSideAndOneSideB
      <4>6. Candidates(o, f) # {}
        BY <4>3, <4>4, <4>5, WinnerAndLoser
      <4>7. f \notin orphans /\ f \notin alone /\ ~UnderWay(f)
        BY <1>1
      <4>8. Attended(f)
        BY <1>2, <4>2, <4>7 DEF NobodyForgotten, Stable
      <4>9. ~HeldAt(f, Before(o))
        BY <4>7 DEF HeldAt, Before, UnderWay, Idle
      <4>10. Arrived(o, f)
        <5> HIDE DEF Candidates, Arrived, HeldAt, Before
        <5> QED BY <4>6, <4>8, <4>9 DEF Attended
      <4>11. PICK s \in Candidates(o, f) : s.entry \in Seats(t)
        BY <3>3, <4>10 DEF Arrived
      <4> HIDE DEF Candidates, Target, Seats
      <4> QED BY <3>3, <4>2, <4>11 DEF Sends
    <3>4. PICK e1 \in Seats(t) : Sends(f1, o1, e1, t)
      BY <3>2, <3>3
    <3>5. PICK e2 \in Seats(t) : Sends(f2, o2, e2, t)
      BY <3>2, <3>3
    <3>6. e1 # e2
      <4> HIDE DEF Sends
      <4> QED BY <3>2, <3>4, <3>5, OneSender
    <3> QED BY <3>6 DEF Seats
  <2> QED BY <2>1, <2>2
<1>5. Cardinality(sides[t]) = 2
  <2>1. Cardinality(sides[t]) \in Nat /\ Cardinality(sides[t]) <= 2 /\ IsFiniteSet(sides[t])
    BY <1>2, Setting, FS_CardinalityType
  <2>2. ~(Cardinality(sides[t]) < 2)
    BY <1>4, <2>1, FewMembers
  <2> QED BY <2>1, <2>2
<1> QED BY <1>1, <1>5

\* A random draw without byes, of any size and format, always has a match to play until all
\* are over (links, first round and advancements together).
THEOREM DrawNeverStallsHolds ==
    ASSUME Seedings \subseteq {"random"}
    PROVE  Spec => []DrawNeverStalls
<1>1. Base /\ NobodyForgotten => DrawNeverStalls
  BY NeverStalls
<1> QED BY <1>1, Invariance, NobodyIsForgotten, PTL
=============================================================================
