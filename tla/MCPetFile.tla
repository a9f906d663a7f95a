----------------------------- MODULE MCPetFile -----------------------------
(* Instances of PetFile for TLC: password lists that are whole, partial,   *)
(* empty, or encrypted under the key of another time.                      *)
EXTENDS PetFileInv, TLC

CONSTANTS p1, p2, r1, r2, k1, k2

It(r, k) == [rec |-> r, key |-> k]

OneProc  == {p1}
TwoProcs == {p1, p2}
OneRecord  == {r1}
TwoRecords == {r1, r2}
OneKey  == {k1}
TwoKeys == {k1, k2}

SingleLists == {{It(r1, k1), It(r2, k1)}, {It(r2, k2)}, {It(r1, k1), It(r2, k2)}}
SharedLists == {{It(r1, k1)}}

SymmetricProcs == Permutations(TwoProcs)

\* Two processes are about modification times: how calls ended and what was
\* promised is history that no step depends on.
Shared == <<disk, now, foreign,
            [p \in Procs |-> [obj[p] EXCEPT !.res = "none"]],
            [p \in Procs |-> [call[p] EXCEPT !.lost = FALSE]]>>
=============================================================================
