--------------------------- MODULE MCJournalSync ---------------------------
(* Model-checking instances of JournalSync. *)
EXTENDS JournalSync, TLC

\* Clients, labels, values and stream identifiers are interchangeable.
Symmetry == Permutations(Clients) \union Permutations(Labels)
              \union Permutations(Values) \union Permutations(StreamIds)
=============================================================================
