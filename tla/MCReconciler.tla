---------------------------- MODULE MCReconciler ----------------------------
(* Constants of the runs of Reconciler. *)
EXTENDS ReconcilerProps, TLC

CONSTANTS f1, f2, f3, p1, p2, p3, x1, x2, l1, l2, l3

\* One project, one label.
OneProject == [f \in Fips |-> p1]
OneLabel == [p \in Projects |-> x1]

\* f1 and the rest belong to different projects, each with a label of its own.
TwoProjects == [f \in Fips |-> IF f = f1 THEN p1 ELSE p2]
OwnLabels == [p \in Projects |-> IF p = p1 THEN x1 ELSE x2]

\* Three projects, the labels of the first two the same.
ThreeProjects == [f \in Fips |-> CASE f = f1 -> p1 [] f = f2 -> p2 [] OTHER -> p3]
SharedLabel == [p \in Projects |-> IF p = p3 THEN x2 ELSE x1]

\* Where all floating IPs are in one project any two of them are interchangeable,
\* and so are the random labels.
FipsAndLabels == Permutations(Fips) \cup Permutations(Labels)
LabelsOnly == Permutations(Labels)
=============================================================================
