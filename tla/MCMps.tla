------------------------------- MODULE MCMps -------------------------------
(***************************************************************************)
(* Files for TLC: the file of tests/io/simple_lp.mps grown by a second     *)
(* variable and two more rows, with two sections at a time replaced.      *)
(***************************************************************************)
EXTENDS MpsProperties

Numbers == [w \in {"-1", "0", "1", "2", "5"} |->
               CASE w = "-1" -> -1 [] w = "0" -> 0 [] w = "1" -> 1
                 [] w = "2" -> 2 [] OTHER -> 5]

Assembled(name, rws, columns, rhs, bounds, end) ==
    name \o rws \o columns \o rhs \o bounds \o end

Name == << <<"NAME", "LP">> >>
Rows == << <<"ROWS">>, <<"N", "OBJ">>, <<"L", "LIMIT">>, <<"G", "NEED">>, <<"E", "BAL">> >>
Columns == << <<"COLUMNS">>, <<"X", "OBJ", "1", "LIMIT", "2">>, <<"X", "BAL", "5">>,
              <<"Y", "NEED", "1", "OBJ", "-1">> >>
RhsCards == << <<"RHS">>, <<"RHS1", "LIMIT", "5", "BAL", "1">>, <<"RHS1", "NEED", "2">> >>
Bounds == << <<"BOUNDS">>, <<"UP", "BND", "X", "5">>, <<"FR", "BND", "Y">> >>
End == << <<"ENDATA">> >>

RowSections ==
    {Rows, Rows \o << <<"Q", "ODD">> >>, Rows \o << <<"L">> >>, Rows \o << <<"">> >>,
     Rows \o << <<>>, <<"N">> >>,
     Rows \o << <<"N", "COST">> >>,                     \* a second objective
     Rows \o << <<"L", "LIMIT">> >>,                    \* a row twice
     Tail(Rows), SubSeq(Rows, 1, 3)}                    \* no header; rows missing
ColumnSections ==
    {Columns, Columns \o << <<"X", "LIMIT", "1">> >>,   \* a value given twice
     Columns \o << <<"Y", "OBJ", "5", "NEED", "0">>, <<"Z", "BAL", "2">> >>,
     Columns \o << <<"X", "NOROW", "1">> >>, Columns \o << <<"X", "BAL">> >>,
     Columns \o << <<"X", "BAL", "many">> >>, Columns \o << <<"X", "BAL", "0", "OBJ">> >>,
     Columns \o << <<>>, <<"">> >>, << <<"COLUMNS">> >>}
RhsSections ==
    {RhsCards, << <<"RHS">> >>, Tail(RhsCards), RhsCards \o << <<"RHS1", "BAL", "2">> >>,
     RhsCards \o << <<"RHS1", "NOROW", "1">> >>, RhsCards \o << <<"RHS1", "BAL">> >>,
     RhsCards \o << <<"RHS1", "BAL", "2", "LIMIT", "0">> >>}
BoundSections ==
    {<<>>, Bounds} \cup {Bounds \o extra : extra \in
        {<< <<"LO", "BND", "X", "2">> >>, << <<"FX", "BND", "X", "2">> >>,
         << <<"BV", "BND", "Y">> >>, << <<"BV", "BND", "X">>, <<"UP", "BND", "X", "2">> >>,
         << <<"FR", "BND", "X">>, <<"LO", "BND", "X", "-1">> >>,
         << <<"UP", "BND", "X", "-1">> >>,              \* below the lower bound
         << <<"MI", "BND", "X">> >>, << <<"UP", "BND", "X">> >>, << <<"UP", "X", "2">> >>,
         << <<"FR", "Y">> >>, << <<"LO", "BND", "W", "1">> >>}}
Ends == {End, <<>>, << <<>> >>, << <<"ENDATA">>, <<"L", "AFTER">> >>}

\* Two neighbouring sections changed at a time.
Changed ==
    {Assembled(Name, r, c, RhsCards, Bounds, End) : r \in RowSections, c \in ColumnSections}
      \cup {Assembled(Name, r, Columns, b, Bounds, End) : r \in RowSections, b \in RhsSections}
      \cup {Assembled(Name, Rows, c, RhsCards, b, End) :
                 c \in ColumnSections, b \in BoundSections}
      \cup {Assembled(Name, Rows, Columns, r, b, e) :
                 r \in RhsSections, b \in BoundSections, e \in Ends}
\* The sections in other orders, without a name, and with lines before NAME.
Reordered ==
    {Assembled(Name, Bounds, RhsCards, Columns, Rows, End),
     Assembled(Name, Columns, Rows, Bounds, RhsCards, End),
     Assembled(<<>>, Rows, Columns, RhsCards, Bounds, End),
     Assembled(<< <<>>, <<"*", "a", "comment">> >> \o Name, Rows, Columns, RhsCards,
               <<>>, End),
     Assembled(Name, Rows, Columns \o Name \o << <<"X", "OBJ">> >>, RhsCards, Bounds, End),
     Assembled(Name, Rows, Columns, RhsCards, << <<"ROWS">>, <<"G", "LATE">> >>, End)}
AllFiles == Changed \cup Reordered

\* A file whose right-hand sides are named by the word RHS itself: MeansTheFile
\* does not hold of it, and AllFiles leaves it out.
NamedRhs == {Assembled(Name, Rows, Columns, << <<"RHS">>, <<"RHS", "LIMIT", "5">> >>,
                       Bounds, End)}
=============================================================================
