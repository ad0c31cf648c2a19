--------------------------- MODULE MpsProperties ---------------------------
(***************************************************************************)
(* What reading an MPS file promises.  Meaning gives the model a file      *)
(* stands for, from the whole file at once and not line by line: a card    *)
(* belongs to the last header before it, and of two cards for the same     *)
(* thing the later one counts.  A header is a line of one keyword, or any  *)
(* line that starts with NAME.                                             *)
(***************************************************************************)
EXTENDS MpsReader

IsHeader(ln) ==
    ln # <<>> /\ ln[1] \in Keywords /\ (ln[1] = "NAME" \/ Len(ln) = 1)
Headers(f) == {i \in DOMAIN f : IsHeader(f[i])}
\* The lines before the first ENDATA.
Body(f) == {i \in DOMAIN f : \A j \in 1 .. i : f[j] # <<"ENDATA">>}
HeaderOf(f, i) ==
    LET before == {h \in Headers(f) : h < i}
    IN  IF before = {} THEN "none" ELSE f[Max(before)][1]
Cards(f, name) ==
    {i \in Body(f) \ Headers(f) : f[i] # <<>> /\ HeaderOf(f, i) = name}

RowCards(f) == {i \in Cards(f, "ROWS") : f[i][1] # "N"}
RowNames(f) == {f[i][2] : i \in RowCards(f)}
ObjectiveNames(f) == {f[i][2] : i \in Cards(f, "ROWS") \ RowCards(f)}
RowType(f, r) == f[CHOOSE i \in RowCards(f) : f[i][2] = r][1]
VariablesOf(f) == {f[i][1] : i \in Cards(f, "COLUMNS")}

\* The places <<line, word>> where a COLUMNS or RHS card gives r a value.
Mentions(f, cards, r) ==
    {at \in cards \X {2, 4} :
        IsNumber(f[at[1]], at[2] + 1) /\ Word(f[at[1]], at[2]) = r}
Latest(f, mentions) ==
    LET at == CHOOSE m \in mentions :
                  \A n \in mentions : 10 * n[1] + n[2] <= 10 * m[1] + m[2]
    IN  IF mentions = {} THEN 0 ELSE Numeric[f[at[1]][at[2] + 1]]
Coefficient(f, r, v) ==
    Mentions(f, {i \in Cards(f, "COLUMNS") : f[i][1] = v}, r)
RhsOf(f, r) == Latest(f, Mentions(f, Cards(f, "RHS"), r))

\* The last BOUNDS card of v whose type is one of those that set a side.
BoundOf(f, v, values, default) ==
    LET cards == {i \in Cards(f, "BOUNDS") : f[i][3] = v /\ f[i][1] \in DOMAIN values}
        card == f[Max(cards)]
    IN  IF cards = {} THEN default
        ELSE IF card[1] \in {"LO", "UP", "FX"} THEN Numeric[card[4]] ELSE values[card[1]]
LowerOf(f, v) ==
    BoundOf(f, v, [LO |-> 0, FX |-> 0, FR |-> -Infinity, BV |-> 0], 0)
UpperOf(f, v) ==
    BoundOf(f, v, [UP |-> 0, FX |-> 0, FR |-> Infinity, BV |-> 1], Infinity)

Meaning(f) ==
    [objective |-> [v \in VariablesOf(f) |->
         Latest(f, UNION {Coefficient(f, r, v) : r \in ObjectiveNames(f)})],
     lower |-> [v \in VariablesOf(f) |-> LowerOf(f, v)],
     upper |-> [v \in VariablesOf(f) |-> UpperOf(f, v)],
     types |-> [v \in VariablesOf(f) |->
         IF \E i \in Cards(f, "BOUNDS") : f[i][1] = "BV" /\ f[i][3] = v
         THEN "binary" ELSE "continuous"],
     row_lower |-> [r \in RowNames(f) |->
         IF RowType(f, r) = "L" THEN -Infinity ELSE RhsOf(f, r)],
     row_upper |-> [r \in RowNames(f) |->
         IF RowType(f, r) = "G" THEN Infinity ELSE RhsOf(f, r)],
     matrix |-> [at \in {p \in RowNames(f) \X VariablesOf(f) :
                            Coefficient(f, p[1], p[2]) # {}} |->
         Latest(f, Coefficient(f, at[1], at[2]))]]

\* What makes a card of a section a good one.
GoodCard(f, i) ==
    LET ln == f[i] IN
    CASE HeaderOf(f, i) = "ROWS" -> Len(ln) >= 2 /\ ln[1] \in {"N", "L", "G", "E"}
      [] HeaderOf(f, i) \in {"COLUMNS", "RHS"} -> Len(ln) >= 3 /\ IsNumber(ln, 3)
      [] HeaderOf(f, i) = "BOUNDS" ->
            \/ Len(ln) >= 3 /\ ln[1] \in {"BV", "FR"}
            \/ Len(ln) >= 4 /\ ln[1] \in {"LO", "UP", "FX"} /\ IsNumber(ln, 4)
      [] OTHER -> TRUE
SectionsOf(f) == {f[i][1] : i \in Headers(f) \cap Body(f)}
Complete(f) ==
    /\ Required \subseteq SectionsOf(f)
    /\ \E i \in DOMAIN f : f[i] = <<"ENDATA">>
\* Every row has one name of its own, and there is at most one objective.
DistinctRows(f) ==
    /\ Cardinality(RowNames(f)) = Cardinality(RowCards(f))
    /\ Cardinality(Cards(f, "ROWS") \ RowCards(f)) <= 1
    /\ RowNames(f) \cap ObjectiveNames(f) = {}
WellFormed(f) ==
    /\ Complete(f) /\ \A i \in Body(f) \ Headers(f) : f[i] # <<>> => GoodCard(f, i)
    /\ DistinctRows(f)
    /\ \A i \in Cards(f, "COLUMNS") : \A k \in {2, 4} :
          IsNumber(f[i], k + 1) => f[i][k] \in RowNames(f) \cup ObjectiveNames(f)
    /\ \A i \in Cards(f, "BOUNDS") : f[i][3] \in VariablesOf(f)
    /\ \A v \in VariablesOf(f) : LowerOf(f, v) <= UpperOf(f, v)

\* The model read, with its rows addressed by name.
ByName(f, bounds) == [r \in RowNames(f) |-> bounds[RowIndex(r)]]
ReadModel ==
    [model EXCEPT
       !.row_lower = ByName(file, model.row_lower),
       !.row_upper = ByName(file, model.row_upper),
       !.matrix = [at \in {<<rows[p[1]].name, p[2]>> : p \in DOMAIN model.matrix} |->
                      model.matrix[<<RowIndex(at[1]), at[2]>>]]]

-----------------------------------------------------------------------------
(* The types of the reader, and what it keeps of the file.                 *)
Entries == [variable : STRING, row : STRING, value : Int]
BoundEntries == [type : {"LO", "UP", "FX", "BV", "FR"}, variable : STRING, value : Int]
MpsTypeOK ==
    /\ pc \in {"idle", "lines", "check", "columns", "bounds", "validate", "done"}
    /\ file \in Files \cup {<<>>} /\ position \in 0 .. Len(file)
    /\ section \in {"none", "ROWS", "COLUMNS", "RHS", "BOUNDS"}
    /\ saw \subseteq Required \cup {"ENDATA"}
    /\ errors \in Seq(0 .. Len(file))
    /\ variable_names \in Seq(STRING) /\ objective_row \in STRING \cup {NoWord}
    /\ rows \in Seq([name : STRING, type : {"L", "G", "E"}])
    /\ column_entries \in Seq(Entries) /\ bound_entries \in Seq(BoundEntries)
    /\ DOMAIN rhs_values \subseteq STRING
    /\ accepted \in BOOLEAN /\ reads \in 0 .. MaxReads

\* An accepted file is read as the model it means: no value is dropped,
\* attributed to another row or variable, or left over from an earlier read
\* by the same reader (MpsReader.cpp:9-552).
MeansTheFile ==
    pc = "done" /\ accepted /\ DistinctRows(file) => ReadModel = Meaning(file)

\* A well-formed file is never refused, whatever was read before it.
GoodFilesAreRead == pc = "done" /\ ~accepted => ~WellFormed(file)

\* Every error that names a line names a card that is at fault, or the end of
\* a file without ENDATA: the numbers handed to the user are right even
\* after empty lines (MpsReader.cpp:50-55).
ErrorsNameTheLine ==
    \A k \in DOMAIN errors :
        LET n == errors[k] IN
        n # 0 => \/ n \in Body(file) \ Headers(file) /\ ~GoodCard(file, n)
                 \/ n = Len(file) /\ \A i \in DOMAIN file : file[i] # <<"ENDATA">>

\* A file is refused only for an error or for bounds that cross; a refused
\* read never looks like an accepted one (MpsReader.cpp:16-22 and 551).
RefusalsHaveCause ==
    pc = "done" => (accepted <=> errors = <<>> /\ Valid(model))
=============================================================================
