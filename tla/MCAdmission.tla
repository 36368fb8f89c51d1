---------------------------- MODULE MCAdmission ----------------------------
(* Small instances of Admission for TLC.                                     *)
EXTENDS Admission, TLC

CONSTANTS o1, o2, r1, c1, c2, c3, i1, i2, i3, i4

TwoEach == [o \in Orgs |-> 2]
ThreeCores == [o \in Orgs |-> 3]
FourCores == [r \in Regions |-> 4]

Symmetry == Permutations({o1, o2}) \cup Permutations({c1, c2, c3})
              \cup Permutations({i1, i2, i3, i4})
=============================================================================
