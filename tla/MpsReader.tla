----------------------------- MODULE MpsReader -----------------------------
(***************************************************************************)
(* MpsReader::read of io/MpsReader.cpp: one pass over the lines of a file, *)
(* then the construction of a Model from what was collected.  A reader and *)
(* a model may be used for several reads.                                  *)
(*                                                                         *)
(* A line is the sequence of its words; a line with no character is <<>>   *)
(* and a line of blanks is <<NoWord>>: the first word the code gets from   *)
(* it is the empty string.  Numeric gives the value of every word          *)
(* that >> can read as a number; any other word makes >> fail.  Values are *)
(* integers, error messages are left out (an error is its line number),    *)
(* and variables are addressed by name instead of by index.                *)
(***************************************************************************)
EXTENDS Integers, SequencesExt

CONSTANTS
    Files,       \* the files that can be opened: sequences of lines
    Numeric,     \* words read as numbers, with their values
    Infinity,    \* Model::infinity()
    MaxReads     \* bound on the number of reads

NoWord == ""         \* what >> leaves of a word that is not there

\* Words are what >> yields: only a line of blanks has an empty one.
ASSUME FilesAssumption ==
    \A f \in Files :
        /\ f \in Seq(Seq(STRING))
        /\ \A i \in DOMAIN f : f[i] = <<NoWord>> \/ \A k \in DOMAIN f[i] : f[i][k] # NoWord
ASSUME NumericAssumption ==
    /\ Infinity \in Nat /\ MaxReads \in Nat
    /\ \A w \in DOMAIN Numeric : /\ w \in STRING /\ w # NoWord
                                /\ Numeric[w] \in -Infinity + 1 .. Infinity - 1

VARIABLES
    pc, file,
    position,                    \* line_number: lines taken from the file
    section,                     \* in_rows, in_columns, in_rhs, in_bounds
    saw,                         \* saw_name, saw_rows, ..., saw_endata
    errors,                      \* errors_, as line numbers
    variable_names, rows, objective_row, column_entries,
    rhs_values, bound_entries,
    model, accepted, reads

members == <<variable_names, rows, objective_row, column_entries>>
collected == <<members, rhs_values, bound_entries>>
vars == <<pc, file, position, section, saw, errors, collected, model, accepted, reads>>

Word(line, k) == IF k <= Len(line) THEN line[k] ELSE NoWord
IsNumber(line, k) == Word(line, k) \in DOMAIN Numeric

\* Of the entries at some places the last one counts.
LastValue(entries, places, default) ==
    IF places = {} THEN default ELSE entries[Max(places)].value

EmptyFunction == [v \in {} |-> 0]
EmptyModel ==
    [objective |-> EmptyFunction, lower |-> EmptyFunction, upper |-> EmptyFunction,
     types |-> EmptyFunction, row_lower |-> <<>>, row_upper |-> <<>>,
     matrix |-> EmptyFunction]

Init ==
    /\ pc = "idle" /\ file = <<>> /\ position = 0 /\ section = "none" /\ saw = {}
    /\ errors = <<>>
    /\ variable_names = <<>> /\ rows = <<>> /\ objective_row = NoWord /\ column_entries = <<>>
    /\ rhs_values = EmptyFunction /\ bound_entries = <<>>
    /\ model = EmptyModel /\ accepted = FALSE /\ reads = 0

-----------------------------------------------------------------------------
(* Opening.  The members are cleared before the file is opened, the model  *)
(* only after it.                                                          *)
\* Mutant: one member survives the read.
ClearAllButEntries ==
    /\ variable_names' = <<>> /\ rows' = <<>>
    /\ objective_row' = NoWord /\ UNCHANGED column_entries
ClearMembers ==
    /\ variable_names' = <<>> /\ rows' = <<>>
    /\ objective_row' = NoWord /\ column_entries' = <<>>

Open ==
    /\ pc \in {"idle", "done"} /\ reads < MaxReads /\ reads' = reads + 1
    /\ ClearMembers /\ rhs_values' = EmptyFunction /\ bound_entries' = <<>>
    /\ position' = 0 /\ section' = "none" /\ saw' = {} /\ accepted' = FALSE
    /\ \/ /\ file' = <<>> /\ errors' = <<0>> /\ pc' = "done" /\ model' = model
       \/ /\ file' \in Files /\ errors' = <<>> /\ pc' = "lines" /\ model' = EmptyModel

-----------------------------------------------------------------------------
(* One line.                                                               *)
Keywords == {"NAME", "ROWS", "COLUMNS", "RHS", "BOUNDS", "ENDATA"}
SectionOf(word) == IF word = "NAME" THEN "none" ELSE word

line == file[position + 1]
first == Word(line, 1)
NextLine ==
    /\ pc = "lines" /\ position < Len(file)
    /\ position' = position + 1
    /\ UNCHANGED <<file, model, accepted, reads>>
Card(name) ==
    /\ NextLine /\ line # <<>> /\ first \notin Keywords /\ section = name
    /\ UNCHANGED <<pc, section, saw>>
\* Mutant: lines are counted from 0.
RejectFromZero(n) == errors' = Append(errors, n - 1) /\ UNCHANGED collected
Reject(n) == errors' = Append(errors, n) /\ UNCHANGED collected

SkipLine ==
    /\ NextLine
    /\ line = <<>> \/ (first \notin Keywords /\ section = "none")
    /\ UNCHANGED <<pc, section, saw, errors, collected>>

Header ==
    /\ NextLine /\ first \in Keywords
    /\ saw' = IF first = "BOUNDS" THEN saw ELSE saw \cup {first}
    /\ IF first = "ENDATA" THEN pc' = "check" /\ UNCHANGED section
       ELSE section' = SectionOf(first) /\ UNCHANGED pc
    /\ UNCHANGED <<errors, collected>>

RowCard ==
    /\ Card("ROWS")
    /\ \/ /\ Word(line, 2) = NoWord \/ first \notin {"N", "L", "G", "E"}
          /\ Reject(position')
       \/ /\ Word(line, 2) # NoWord /\ first = "N"
          /\ objective_row' = line[2]
          /\ UNCHANGED <<errors, variable_names, rows, column_entries, rhs_values,
                         bound_entries>>
       \/ /\ Word(line, 2) # NoWord /\ first \in {"L", "G", "E"}
          /\ rows' = Append(rows, [name |-> line[2], type |-> first])
          /\ UNCHANGED <<errors, variable_names, objective_row, column_entries,
                         rhs_values, bound_entries>>

\* Mutant: the second pair is required.
MalformedOrSingle ==
    first = NoWord \/ Word(line, 2) = NoWord \/ ~IsNumber(line, 3) \/ ~IsNumber(line, 5)
\* A COLUMNS or RHS card has one pair, and a second one if that is whole.
Malformed == first = NoWord \/ Word(line, 2) = NoWord \/ ~IsNumber(line, 3)
Entry(k) == [variable |-> first, row |-> line[k], value |-> Numeric[line[k + 1]]]

ColumnCard ==
    /\ Card("COLUMNS")
    /\ \/ Malformed /\ Reject(position')
       \/ /\ ~Malformed
          /\ variable_names' = Append(variable_names, first)
          /\ column_entries' = column_entries \o
                 IF IsNumber(line, 5) THEN <<Entry(2), Entry(4)>> ELSE <<Entry(2)>>
          /\ UNCHANGED <<errors, rows, objective_row, rhs_values, bound_entries>>

WithRhs(values, row, value) ==
    [r \in DOMAIN values \cup {row} |-> IF r = row THEN value ELSE values[r]]
RhsCard ==
    /\ Card("RHS")
    /\ \/ Malformed /\ Reject(position')
       \/ /\ ~Malformed
          /\ LET one == WithRhs(rhs_values, line[2], Numeric[line[3]])
             IN  rhs_values' = IF IsNumber(line, 5)
                               THEN WithRhs(one, line[4], Numeric[line[5]]) ELSE one
          /\ UNCHANGED <<errors, members, bound_entries>>

BoundCard ==
    /\ Card("BOUNDS")
    /\ LET named == Word(line, 2) # NoWord /\ Word(line, 3) # NoWord
           valued == first \in {"LO", "UP", "FX"} /\ IsNumber(line, 4)
           good == named /\ (valued \/ first \in {"BV", "FR"})
       IN  \/ ~good /\ Reject(position')
           \/ /\ good
              /\ bound_entries' = Append(bound_entries,
                     [type |-> first, variable |-> line[3],
                      value |-> IF valued THEN Numeric[line[4]]
                                ELSE IF first = "BV" THEN 1 ELSE 0])
              /\ UNCHANGED <<errors, members, rhs_values>>

EndOfFile ==
    /\ pc = "lines" /\ position = Len(file)
    /\ pc' = "check"
    /\ UNCHANGED <<file, position, section, saw, errors, collected, model, accepted, reads>>

-----------------------------------------------------------------------------
(* The construction of the model, in the order of the code: each stage     *)
(* returns false as soon as it has left an error.                          *)
\* Mutant: no early return.
GoOn(stage) == pc' = stage
Go(stage) == pc' = IF errors' = <<>> THEN stage ELSE "done"
Kept == UNCHANGED <<file, position, section, saw, collected, reads>>

\* One error that belongs to no line for every member of S.
ErrorsAtZero(S) == [i \in 1 .. Cardinality(S) |-> 0]

Required == {"NAME", "ROWS", "COLUMNS", "RHS"}
CheckSections ==
    /\ pc = "check"
    /\ errors' = errors \o ErrorsAtZero(Required \ saw)
                     \o (IF "ENDATA" \in saw THEN <<>> ELSE <<position>>)
    /\ Go("columns") /\ Kept /\ UNCHANGED <<model, accepted>>

Variables == ToSet(variable_names)
\* row_index: of two rows of the same name the later one is found.
RowIndex(name) == SelectLastInSeq(rows, LAMBDA r : r.name = name)

InRow(e) == e.row # objective_row /\ RowIndex(e.row) # 0
Unknown(e) == e.row # objective_row /\ RowIndex(e.row) = 0

BuildColumns ==
    /\ pc = "columns"
    /\ LET unknown == {i \in DOMAIN column_entries : Unknown(column_entries[i])}
       IN  errors' = errors \o ErrorsAtZero(unknown)
    /\ model' =
         [objective |-> [v \in Variables |->
              LastValue(column_entries,
                        {i \in DOMAIN column_entries :
                            /\ column_entries[i].variable = v
                            /\ column_entries[i].row = objective_row}, 0)],
          lower |-> [v \in Variables |-> 0],
          upper |-> [v \in Variables |-> Infinity],
          types |-> [v \in Variables |-> "continuous"],
          row_lower |-> [i \in DOMAIN rows |-> -Infinity],
          row_upper |-> [i \in DOMAIN rows |-> Infinity],
          matrix |-> EmptyFunction]
    /\ Go("bounds") /\ Kept /\ UNCHANGED accepted

Rhs(row) == IF row.name \in DOMAIN rhs_values THEN rhs_values[row.name] ELSE 0

\* One BOUNDS entry after the other, on the sides it sets; one of an unknown
\* variable is passed over.
Bounded(m, b) ==
    IF b.variable \notin DOMAIN m.lower THEN m ELSE
    [m EXCEPT
       !.lower[b.variable] = CASE b.type \in {"LO", "FX"} -> b.value
                               [] b.type = "FR" -> -Infinity
                               [] b.type = "BV" -> 0
                               [] OTHER -> @,
       !.upper[b.variable] = CASE b.type \in {"UP", "FX"} -> b.value
                               [] b.type = "FR" -> Infinity
                               [] b.type = "BV" -> 1
                               [] OTHER -> @,
       !.types[b.variable] = IF b.type = "BV" THEN "binary" ELSE @]

BuildBounds ==
    /\ pc = "bounds"
    /\ LET start == [model EXCEPT
               !.row_lower = [i \in DOMAIN rows |->
                   IF rows[i].type = "L" THEN -Infinity ELSE Rhs(rows[i])],
               !.row_upper = [i \in DOMAIN rows |->
                   IF rows[i].type = "G" THEN Infinity ELSE Rhs(rows[i])]]
           unknown == {i \in DOMAIN bound_entries : bound_entries[i].variable \notin Variables}
       IN  /\ errors' = errors \o ErrorsAtZero(unknown)
           /\ model' = FoldLeft(Bounded, start, bound_entries)
    /\ Go("validate") /\ Kept /\ UNCHANGED accepted

\* matrix_entries, on the pairs <<row, variable>>: the last entry stays.
MatrixEntries ==
    LET inRows == {i \in DOMAIN column_entries : InRow(column_entries[i])}
        place(i) == <<RowIndex(column_entries[i].row), column_entries[i].variable>>
    IN  [at \in {place(i) : i \in inRows} |->
            LastValue(column_entries, {i \in inRows : place(i) = at}, 0)]

\* Model::validate: the sizes agree by construction, the bounds need not.
Valid(m) == \A v \in DOMAIN m.lower : m.lower[v] <= m.upper[v]

Validate ==
    /\ pc = "validate"
    /\ model' = [model EXCEPT !.matrix = MatrixEntries]
    /\ accepted' = Valid(model')
    /\ pc' = "done"
    /\ Kept /\ UNCHANGED errors

Returned == pc = "done" /\ reads = MaxReads /\ UNCHANGED vars

Next ==
    \/ Open
    \/ SkipLine \/ Header \/ RowCard \/ ColumnCard \/ RhsCard \/ BoundCard \/ EndOfFile
    \/ CheckSections \/ BuildColumns \/ BuildBounds \/ Validate
    \/ Returned

Spec == Init /\ [][Next]_vars
FairSpec == Spec /\ WF_vars(Next)
=============================================================================
