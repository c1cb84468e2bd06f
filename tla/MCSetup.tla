------------------------------ MODULE MCSetup ------------------------------
(* Recipes of two steps that between them have every kind of step.          *)
EXTENDS Setup

CONSTANTS p1, d1, d2

OneProc == {p1}
TwoDigests == {d1, d2}

SomeRecipes ==
    {<<"custom", "verify">>, <<"keychain", "verify">>, <<"block", "json">>,
     <<"rekey", "verify">>, <<"directory", "pull">>, <<"build", "verify">>,
     <<"overwrite", "verify">>, <<"lookup", "verify">>, <<"secret", "verify">>}

\* The two versions of the artifact are interchangeable.
Symmetry == Permutations(TwoDigests)
=============================================================================
