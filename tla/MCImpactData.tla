---------------------------- MODULE MCImpactData ----------------------------
(* A repository of two pull requests, three releases, two of them of one    *)
(* name, and a version tag; each item may be missing from it.               *)
EXTENDS ImpactData

CONSTANTS r1, r2, r3, t1, f1, f2

NameOf(r) == IF r = r1 THEN "m1" ELSE "m2"

\* Releases of one name are told apart by nothing.
SameName == Permutations({r2, r3})

VersionTag(t) == TRUE

NumberOf(p) == IF p = 1 THEN "pr_1" ELSE "pr_2"

Named(l, feature, b, t, f) ==
    [labels |-> l, feature |-> feature, branch |-> b, title |-> t, file |-> f]

SomeNamings ==
    {[p \in PRs |-> IF p = 1 THEN n ELSE m] :
       n \in {Named({}, None, "", f1, f2), Named({f1, f2}, None, None, None, f1),
              Named({}, f1, f2, None, None)},
       m \in {Named({}, None, None, None, f1), Named({}, None, None, None, None)}}
=============================================================================
