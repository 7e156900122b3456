--------------------------- MODULE MCContentStore ---------------------------
(***************************************************************************)
(* Small instances of ContentStore. Components 1 and 2 are digests, 10 and  *)
(* 11 generic components.                                                  *)
(***************************************************************************)
EXTENDS ContentStore

Packet(name, digest, freshness) == [name |-> name, digest |-> digest, freshness |-> freshness]
Query(name, rightmost, mbf) == [name |-> name, rightmost |-> rightmost, mbf |-> mbf]

\* Two Data of one name, and Data below it.
SameNameData ==
    {Packet(<<10>>, 1, 0), Packet(<<10>>, 2, 1), Packet(<<10, 11>>, 1, 1)}
TwoData == {Packet(<<10>>, 1, 0), Packet(<<10>>, 2, 1)}

\* By prefix, and by full name.
FewQueries == {Query(<<>>, FALSE, FALSE), Query(<<10>>, TRUE, TRUE)}
FullNameQueries == {Query(<<10, d>>, r, TRUE) : d \in {1, 2}, r \in BOOLEAN}

=============================================================================
