------------------------------ MODULE MCRegistry ------------------------------
(***************************************************************************)
(* TLC instances of Registry: an empty checkout, and a published registry  *)
(* with one vendored package and one native reference.                     *)
(***************************************************************************)
EXTENDS Registry, TLC

\* Built with @@, so that TLC tabulates it before the plans change it with EXCEPT.
Empty == [f \in Roots \X {0} |-> NoFile]
           @@ [f \in (Parts \cup {"entry", "evidence"}) \X Names |-> NoFile]
Started == InitRegistry(Empty)
Published == Promote(Vendor(Started, 1, 1), 2, 1, "approved")
\* The same with its assessments, and with a payload that cannot be delivered.
Assessed(s) == [s EXCEPT ![<<"security", 0>>] = SecurityIndex(At(s, "index", 0), "clean")]
Undeliverable == Promote(Vendor(Started, 1, 3), 2, 1, "approved")
MCStarts == {Empty, Published, Assessed(Published), Undeliverable}

Symmetric == Permutations(Procs)
=============================================================================
