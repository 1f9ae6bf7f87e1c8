--------------------------- MODULE MCLaiHashTable ---------------------------
(* Five children with four names for TLC; two share a name.                *)
EXTENDS LaiHashTable

Nodes_ == {"a1", "a2", "b", "c", "d"}
NameOf_ == [n \in Nodes_ |-> IF n \in {"a1", "a2"} THEN "a" ELSE n]

\* Names that collide in every table, names that collide until it grows, a negative hash.
Hash_ == [name \in {"a", "b", "c", "d"} |->
            CASE name \in {"a", "b"} -> 3 [] name = "c" -> 7 [] name = "d" -> -1]
Junk_ == 3
=============================================================================
