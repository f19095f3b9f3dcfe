--------------------------- MODULE MatchContract ---------------------------
(***************************************************************************)
(* What a match promises its players, whatever the validation mode, the    *)
(* votes, the timer and the trust scores: a result somebody contests is    *)
(* settled by an organizer or not at all, a settled result is never        *)
(* reopened, and it only disappears by being voided.                       *)
(*                                                                         *)
(* MatchLifecycle implements this specification (ImplementsContract there, *)
(* proved in MatchLifecycleProofs).                                        *)
(***************************************************************************)
CONSTANT Players

VARIABLES
    phase,       \* "idle" (no result yet), "open", "settled", "void", "gone"
    contesters,  \* the players who contest the result
    verdict      \* who settled it: "none", "players" or "organizer"

contractVars == <<phase, contesters, verdict>>

\* "players" is what the players' votes, their silence until the timer runs out
\* or the author's trust score decide; "organizer" is a decision.
Verdicts == {"none", "players", "organizer"}

Init == phase = "idle" /\ contesters = {} /\ verdict = "none"

\* A result is entered, or entered again: it can only calm the contestations.
\* A voided match may carry a result again.
Enter ==
    /\ phase \in {"idle", "open", "void"}
    /\ phase' = "open"
    /\ contesters' \subseteq contesters
    /\ UNCHANGED verdict

\* The players' side settles a result nobody contests any more.
Accept ==
    /\ phase \in {"idle", "open", "void"}
    /\ contesters' \subseteq contesters
    /\ contesters' = {}
    /\ phase' = "settled"
    /\ verdict' = "players"

Contest(p) ==
    /\ phase = "open"
    /\ contesters' = contesters \cup {p}
    /\ UNCHANGED <<phase, verdict>>

\* An organizer decides, contested or not; only on a result somebody entered.
Arbitrate ==
    /\ phase = "open"
    /\ phase' = "settled"
    /\ verdict' = "organizer"
    /\ UNCHANGED contesters

Void ==
    /\ phase \in {"idle", "open", "settled"}
    /\ phase' = "void"
    /\ UNCHANGED <<contesters, verdict>>

\* A settled match is never deleted.
Delete ==
    /\ phase \in {"idle", "open", "void"}
    /\ phase' = "gone"
    /\ contesters' = {}
    /\ verdict' = "none"

Next ==
    \/ Enter
    \/ Accept
    \/ \E p \in Players : Contest(p)
    \/ Arbitrate
    \/ Void
    \/ Delete

Spec == Init /\ [][Next]_contractVars
============================================================================
