----------------------------- MODULE MCSession -----------------------------
(* Instances of Session for TLC.                                           *)
EXTENDS Session, TLC

CONSTANTS f1, f2, pw1, pw2, s1, s2, r1, r2

OneFile      == {f1}
TwoFiles     == {f1, f2}
TwoPasswords == {pw1, pw2}
TwoSalts     == {s1, s2}
OneRecord    == {r1}
TwoRecords   == {r1, r2}

\* Nothing tells passwords, salts or records apart.
Symmetric == Permutations(TwoPasswords) \cup Permutations(TwoSalts)
             \cup Permutations(TwoRecords)
=============================================================================
