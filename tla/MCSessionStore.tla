--------------------------- MODULE MCSessionStore ---------------------------
(* Small instances of SessionStore for TLC. *)
EXTENDS SessionStore

\* Tests are interchangeable, and so are the threads of the pool; used by runs
\* of safety properties only.
Symmetry == Permutations(Test) \cup Permutations(Pool)

=============================================================================
