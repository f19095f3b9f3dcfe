-------------------------- MODULE MCMatchLifecycle --------------------------
(* Instances of MatchLifecycle for TLC. *)
EXTENDS MatchLifecycle

CONSTANTS a1, a2, b1, org, kiosk, nobody

TeamA == {a1, a2}
SoloA == {a1}
SoloB == {b1}
Organizers == {org}
\* An organizer who also plays on side A.
PlayingOrganizer == {a1}
AllModes == {"auto", "strict", "admin", "none"}
AutoAndAdmin == {"auto", "admin"}
AutoStrictNone == {"auto", "strict", "none"}
AutoAndStrict == {"auto", "strict"}
=============================================================================
