------------------------------ MODULE MCAgenda ------------------------------
(* Values for the constants of Agenda.                                     *)
EXTENDS Agenda, TLC

CONSTANTS a1, a2, a3, r1, r2, r3, ana, bea

OneDay == {1}
TwoDays == {1, 2}
OneStart == {0}
TwoStarts == {0, 1}
Hours == {0, 1, 2}

\* A cut takes a tick; a colour two, and one more to tidy up.
CutAndColour == {"cut", "colour"}
JustCut == {"cut"}
DurationOf == [s \in {"cut", "colour"} |-> IF s = "cut" THEN 1 ELSE 2]
CleanupOf == [s \in {"cut", "colour"} |-> IF s = "cut" THEN 0 ELSE 1]
CutOnly == [s \in {"cut"} |-> 1]
NoCleanup == [s \in {"cut"} |-> 0]

\* Bodies of an edit: the full form; one column at a time.
FullForm == {Fields}
OneColumn == {{"at"}, {"pro"}}

Symmetric == Permutations(Appts) \cup Permutations(Requests)
                 \cup Permutations(Pros)
=============================================================================
