----------------------------- MODULE MCCollector -----------------------------
(***************************************************************************)
(* Collector with a collection that has no databases query (one pseudo     *)
(* database), or one that always returns the same two databases.           *)
(***************************************************************************)
EXTENDS Collector, TLC

CONSTANTS d1, d2

MCOneDatabase == {{d1}}
MCTwoDatabases == {{d1, d2}}

\* The row with n in the counter columns and g in the gauge columns.
MCRow(n, g) == [c \in Columns |-> IF c \in Counters THEN n ELSE g]

MCRows == {MCRow(1, 0), MCRow(2, Null), MCRow(Null, 1)}

\* Two rows of a result are alike, but for their labels, or one of each of two kinds.
MCAnswers ==
    UNION {{[l \in ls |-> row] : row \in MCRows} :
           ls \in {s \in SUBSET Labels : Cardinality(s) <= MaxResults}}
    \cup {(p[1] :> MCRow(1, 0)) @@ (p[2] :> MCRow(2, Null)) :
             p \in {p \in Labels \X Labels : p[1] # p[2]}}

\* The label values are interchangeable.
LabelSymmetry == Permutations(Labels)
=============================================================================
