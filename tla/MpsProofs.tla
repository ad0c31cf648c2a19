----------------------------- MODULE MpsProofs -----------------------------
(***************************************************************************)
(* The MPS reader, for every set of files and every number of reads: its   *)
(* types, why it refuses, which lines its errors name, that it reads every *)
(* well-formed file, and that what it reads is what the file means.        *)
(***************************************************************************)
EXTENDS MpsProperties, FiniteSetTheorems, SequenceTheorems, TLAPS

-----------------------------------------------------------------------------
(***************************************************************************)
(* The line in hand.                                                       *)
(***************************************************************************)
LEMMA LineFacts ==
  ASSUME MpsTypeOK, position < Len(file)
  PROVE  /\ position \in Nat /\ position + 1 \in DOMAIN file
         /\ file \in Files /\ file \in Seq(Seq(STRING)) /\ line \in Seq(STRING)
         /\ line = <<NoWord>> \/ \A k \in DOMAIN line : line[k] # NoWord
<1>1. \A f \in Files : f \in Seq(Seq(STRING)) BY FilesAssumption
<1>2. file \in Files \cup {<<>>} /\ position \in 0 .. Len(file) BY DEF MpsTypeOK
<1>3. file \in Files
  <2>1. CASE file = <<>>
    <3>1. Len(file) = 0 BY <2>1
    <3> QED BY <1>2, <3>1
  <2> QED BY <1>2, <2>1
<1>4. file \in Seq(Seq(STRING)) /\ position \in Nat /\ Len(file) \in Nat BY <1>1, <1>2, <1>3
<1>5. position + 1 \in DOMAIN file BY <1>2, <1>4
<1>6. line \in Seq(STRING) BY <1>4, <1>5 DEF line
<1>7. line = <<NoWord>> \/ \A k \in DOMAIN line : line[k] # NoWord
  BY <1>3, <1>5, FilesAssumption DEF line
<1> QED BY <1>3, <1>4, <1>5, <1>6, <1>7

LEMMA WordFacts ==
  ASSUME NEW ln \in Seq(STRING), NEW k \in Nat \ {0}
  PROVE  /\ Word(ln, k) \in STRING \cup {NoWord}
         /\ Word(ln, k) # NoWord => k \in DOMAIN ln /\ ln[k] = Word(ln, k)
         /\ IsNumber(ln, k) =>
              /\ Word(ln, k) # NoWord /\ ln[k] \in DOMAIN Numeric /\ Numeric[ln[k]] \in Int
<1>1. Word(ln, k) \in STRING \cup {NoWord} BY DEF Word
<1>2. Word(ln, k) # NoWord => k \in DOMAIN ln /\ ln[k] = Word(ln, k) BY DEF Word
<1>3. ASSUME IsNumber(ln, k)
      PROVE  Word(ln, k) # NoWord /\ ln[k] \in DOMAIN Numeric /\ Numeric[ln[k]] \in Int
  <2>1. Word(ln, k) # NoWord BY <1>3, NumericAssumption DEF IsNumber
  <2>2. ln[k] \in DOMAIN Numeric BY <1>2, <1>3, <2>1 DEF IsNumber
  <2>3. Numeric[ln[k]] \in -Infinity + 1 .. Infinity - 1 /\ Infinity \in Int
    BY <2>2, NumericAssumption
  <2> QED BY <2>1, <2>2, <2>3
<1> QED BY <1>1, <1>2, <1>3

\* The errors without a line are zeros.
LEMMA ZeroFacts ==
  ASSUME NEW S, IsFiniteSet(S)
  PROVE  /\ ErrorsAtZero(S) \in Seq({0})
         /\ ErrorsAtZero(S) = <<>> <=> S = {}
<1>1. Cardinality(S) \in Nat BY FS_CardinalityType
<1>2. Cardinality(S) = 0 <=> S = {} BY FS_EmptySet
<1> QED BY <1>1, <1>2 DEF ErrorsAtZero

LEMMA FiniteErrors ==
  ASSUME MpsTypeOK
  PROVE  /\ IsFiniteSet(Required \ saw)
         /\ \A S : S \subseteq DOMAIN column_entries => IsFiniteSet(S)
         /\ \A S : S \subseteq DOMAIN bound_entries => IsFiniteSet(S)
<1>1. IsFiniteSet(Required)
  <2>1. Required = {"NAME"} \cup {"ROWS"} \cup {"COLUMNS"} \cup {"RHS"} BY DEF Required
  <2> QED BY <2>1, FS_Singleton, FS_Union
<1>2. IsFiniteSet(DOMAIN column_entries)
  <2>1. Len(column_entries) \in Nat /\ DOMAIN column_entries = 1 .. Len(column_entries)
    BY DEF MpsTypeOK
  <2> QED BY <2>1, FS_Interval
<1>3. IsFiniteSet(DOMAIN bound_entries)
  <2>1. Len(bound_entries) \in Nat /\ DOMAIN bound_entries = 1 .. Len(bound_entries)
    BY DEF MpsTypeOK
  <2> QED BY <2>1, FS_Interval
<1> QED BY <1>1, <1>2, <1>3, FS_Subset

-----------------------------------------------------------------------------
(***************************************************************************)
(* Types.                                                                  *)
(***************************************************************************)
Clear ==
  /\ variable_names = <<>> /\ rows = <<>> /\ objective_row = NoWord
  /\ column_entries = <<>> /\ bound_entries = <<>> /\ rhs_values = EmptyFunction
  /\ saw = {} /\ section = "none" /\ position = 0 /\ accepted = FALSE

ClearTyped ==
  /\ Clear /\ file \in Files \cup {<<>>} /\ errors \in Seq(0 .. Len(file))
  /\ pc \in {"idle", "lines", "done"} /\ reads \in 0 .. MaxReads

LEMMA ClearTypes == ClearTyped => MpsTypeOK
<1> SUFFICES ASSUME ClearTyped PROVE MpsTypeOK OBVIOUS
<1> USE DEF ClearTyped
<1>1. variable_names \in Seq(STRING) BY DEF Clear
<1>2. rows \in Seq([name : STRING, type : {"L", "G", "E"}]) BY DEF Clear
<1>3. column_entries \in Seq(Entries) /\ bound_entries \in Seq(BoundEntries) BY DEF Clear
<1>4. DOMAIN rhs_values \subseteq STRING BY DEF Clear, EmptyFunction
<1>5. objective_row \in STRING \cup {NoWord} BY DEF Clear
<1>6. Len(file) \in Nat
  <2>1. \A f \in Files : f \in Seq(Seq(STRING)) BY FilesAssumption
  <2> QED BY <2>1
<1>7. position \in 0 .. Len(file) BY <1>6 DEF Clear
<1>8. saw \subseteq Required \cup {"ENDATA"} /\ accepted \in BOOLEAN
      /\ section \in {"none", "ROWS", "COLUMNS", "RHS", "BOUNDS"}
  BY DEF Clear
<1> QED BY <1>1, <1>2, <1>3, <1>4, <1>5, <1>7, <1>8 DEF MpsTypeOK

LEMMA ClearTypesNext == ClearTyped' => MpsTypeOK'
BY ClearTypes, PTL

LEMMA MpsTypesInit == Init => MpsTypeOK
<1> SUFFICES ASSUME Init PROVE MpsTypeOK OBVIOUS
<1>1. reads \in 0 .. MaxReads BY NumericAssumption DEF Init
<1>2. Clear /\ file \in Files \cup {<<>>} /\ pc \in {"idle", "lines", "done"}
  BY DEF Init, Clear
<1>3. errors \in Seq(0 .. Len(file)) BY DEF Init
<1> QED BY <1>1, <1>2, <1>3, ClearTypes DEF ClearTyped

\* What a card that is rejected, and one that is taken, leave alone.
LEMMA RejectTypes ==
  ASSUME MpsTypeOK, NextLine, Reject(position'), UNCHANGED <<pc, section, saw>>
  PROVE  MpsTypeOK'
<1>1. position \in Nat /\ position + 1 \in 1 .. Len(file) /\ Len(file) \in Nat
  BY LineFacts DEF NextLine
<1>2. position' = position + 1 /\ file' = file BY DEF NextLine
<1>3. errors' \in Seq(0 .. Len(file)) BY <1>1, <1>2 DEF Reject, MpsTypeOK
<1> QED BY <1>1, <1>2, <1>3
    DEF Reject, NextLine, collected, members, MpsTypeOK

LEMMA MpsTypesNext == MpsTypeOK /\ [Next]_vars => MpsTypeOK'
<1> SUFFICES ASSUME MpsTypeOK, [Next]_vars PROVE MpsTypeOK' OBVIOUS
<1>a. CASE Open
  <2>1. reads' \in 0 .. MaxReads BY <1>a, NumericAssumption DEF Open, MpsTypeOK
  <2>2. Clear' /\ file' \in Files \cup {<<>>} /\ pc' \in {"idle", "lines", "done"}
    BY <1>a DEF Open, ClearMembers, Clear
  <2>3. CASE file' = <<>> /\ errors' = <<0>>
    <3>1. Len(file') = 0 BY <2>3
    <3>2. errors' \in Seq(0 .. Len(file')) BY <2>3, <3>1
    <3> QED BY <2>1, <2>2, <3>2, ClearTypesNext DEF ClearTyped
  <2>4. CASE errors' = <<>>
    <3>1. errors' \in Seq(0 .. Len(file')) BY <2>4
    <3> QED BY <2>1, <2>2, <3>1, ClearTypesNext DEF ClearTyped
  <2> QED BY <1>a, <2>3, <2>4 DEF Open
<1>b. CASE SkipLine
  <2>1. position \in Nat /\ position + 1 \in 1 .. Len(file) BY <1>b, LineFacts DEF SkipLine, NextLine
  <2> QED BY <1>b, <2>1 DEF SkipLine, NextLine, collected, members, MpsTypeOK
<1>c. CASE Header
  <2>1. position \in Nat /\ position + 1 \in 1 .. Len(file) BY <1>c, LineFacts DEF Header, NextLine
  <2>2. saw' \subseteq Required \cup {"ENDATA"}
    BY <1>c DEF Header, Keywords, Required, MpsTypeOK
  <2>3. section' \in {"none", "ROWS", "COLUMNS", "RHS", "BOUNDS"}
        /\ pc' \in {"lines", "check"}
    BY <1>c DEF Header, NextLine, SectionOf, Keywords, MpsTypeOK
  <2> QED BY <1>c, <2>1, <2>2, <2>3 DEF Header, NextLine, collected, members, MpsTypeOK
<1>d. CASE RowCard
  <2>0. NextLine /\ UNCHANGED <<pc, section, saw>> BY <1>d DEF RowCard, Card
  <2>1. position \in Nat /\ position + 1 \in 1 .. Len(file) /\ line \in Seq(STRING)
    BY <2>0, LineFacts DEF NextLine
  <2>2. CASE Reject(position') BY <2>0, <2>2, RejectTypes
  <2>3. ASSUME Word(line, 2) # NoWord PROVE line[2] \in STRING BY <2>1, <2>3, WordFacts
  <2>4. CASE Word(line, 2) # NoWord /\ objective_row' = line[2]
             /\ UNCHANGED <<errors, variable_names, rows, column_entries, rhs_values,
                            bound_entries>>
    BY <2>0, <2>1, <2>3, <2>4 DEF NextLine, MpsTypeOK
  <2>5. CASE /\ Word(line, 2) # NoWord /\ first \in {"L", "G", "E"}
             /\ rows' = Append(rows, [name |-> line[2], type |-> first])
             /\ UNCHANGED <<errors, variable_names, objective_row, column_entries,
                            rhs_values, bound_entries>>
    <3>1. rows' \in Seq([name : STRING, type : {"L", "G", "E"}])
      BY <2>3, <2>5 DEF MpsTypeOK
    <3> QED BY <2>0, <2>1, <2>5, <3>1 DEF NextLine, MpsTypeOK
  <2> QED BY <1>d, <2>2, <2>4, <2>5 DEF RowCard
<1>e. CASE ColumnCard
  <2>0. NextLine /\ UNCHANGED <<pc, section, saw>> BY <1>e DEF ColumnCard, Card
  <2>1. position \in Nat /\ position + 1 \in 1 .. Len(file) /\ line \in Seq(STRING)
    BY <2>0, LineFacts DEF NextLine
  <2>2. CASE Reject(position') BY <2>0, <2>2, RejectTypes
  <2>3. CASE /\ ~Malformed
             /\ variable_names' = Append(variable_names, first)
             /\ column_entries' = column_entries \o
                    IF IsNumber(line, 5) THEN <<Entry(2), Entry(4)>> ELSE <<Entry(2)>>
             /\ UNCHANGED <<errors, rows, objective_row, rhs_values, bound_entries>>
    <3>1. first \in STRING BY <2>1, <2>3, WordFacts DEF Malformed, first
    <3>2. Entry(2) \in Entries
      <4>1. line[2] \in STRING /\ Numeric[line[3]] \in Int
        BY <2>1, <2>3, WordFacts DEF Malformed
      <4> QED BY <3>1, <4>1 DEF Entry, Entries
    <3>3. ASSUME IsNumber(line, 5) PROVE Entry(4) \in Entries
      <4>1. 5 \in DOMAIN line /\ Numeric[line[5]] \in Int BY <2>1, <3>3, WordFacts
      <4>2. line[4] \in STRING BY <2>1, <4>1
      <4> QED BY <3>1, <4>1, <4>2 DEF Entry, Entries
    <3>4. column_entries' \in Seq(Entries)
      <4>1. CASE IsNumber(line, 5)
        <5>1. <<Entry(2), Entry(4)>> \in Seq(Entries) BY <3>2, <3>3, <4>1
        <5> QED BY <2>3, <4>1, <5>1 DEF MpsTypeOK
      <4>2. CASE ~IsNumber(line, 5)
        <5>1. <<Entry(2)>> \in Seq(Entries) BY <3>2
        <5> QED BY <2>3, <4>2, <5>1 DEF MpsTypeOK
      <4> QED BY <4>1, <4>2
    <3>5. variable_names' \in Seq(STRING) BY <2>3, <3>1 DEF MpsTypeOK
    <3> QED BY <2>0, <2>1, <2>3, <3>4, <3>5 DEF NextLine, MpsTypeOK
  <2> QED BY <1>e, <2>2, <2>3 DEF ColumnCard
<1>f. CASE RhsCard
  <2>0. NextLine /\ UNCHANGED <<pc, section, saw>> BY <1>f DEF RhsCard, Card
  <2>1. position \in Nat /\ position + 1 \in 1 .. Len(file) /\ line \in Seq(STRING)
    BY <2>0, LineFacts DEF NextLine
  <2>2. CASE Reject(position') BY <2>0, <2>2, RejectTypes
  <2>3. CASE ~Malformed /\ ~Reject(position')
    <3>1. line[2] \in STRING BY <2>1, <2>3, WordFacts DEF Malformed
    <3>2. IsNumber(line, 5) => line[4] \in STRING
      <4>1. IsNumber(line, 5) => 5 \in DOMAIN line BY <2>1, WordFacts
      <4> QED BY <2>1, <4>1
    <3>3. DOMAIN rhs_values' \subseteq STRING
      BY <1>f, <2>3, <3>1, <3>2 DEF RhsCard, WithRhs, MpsTypeOK
    <3>4. UNCHANGED <<errors, members, bound_entries>> BY <1>f, <2>3 DEF RhsCard
    <3> QED BY <2>0, <2>1, <3>3, <3>4 DEF NextLine, members, MpsTypeOK
  <2> QED BY <1>f, <2>2, <2>3 DEF RhsCard
<1>g. CASE BoundCard
  <2>0. NextLine /\ UNCHANGED <<pc, section, saw>> BY <1>g DEF BoundCard, Card
  <2>1. position \in Nat /\ position + 1 \in 1 .. Len(file) /\ line \in Seq(STRING)
    BY <2>0, LineFacts DEF NextLine
  <2>2. CASE Reject(position') BY <2>0, <2>2, RejectTypes
  <2>3. CASE ~Reject(position')
    <3> DEFINE valued == first \in {"LO", "UP", "FX"} /\ IsNumber(line, 4)
               entry == [type |-> first, variable |-> line[3],
                         value |-> IF valued THEN Numeric[line[4]]
                                   ELSE IF first = "BV" THEN 1 ELSE 0]
    <3>1. /\ Word(line, 3) # NoWord /\ (valued \/ first \in {"BV", "FR"})
          /\ bound_entries' = Append(bound_entries, entry)
          /\ UNCHANGED <<errors, members, rhs_values>>
      BY <1>g, <2>3 DEF BoundCard
    <3>2. line[3] \in STRING BY <2>1, <3>1, WordFacts
    <3>3. valued => Numeric[line[4]] \in Int BY <2>1, WordFacts
    <3>4. entry \in BoundEntries BY <3>1, <3>2, <3>3 DEF BoundEntries
    <3>5. bound_entries' \in Seq(BoundEntries) BY <3>1, <3>4 DEF MpsTypeOK
    <3> QED BY <2>0, <2>1, <3>1, <3>5 DEF NextLine, members, MpsTypeOK
  <2> QED BY <2>2, <2>3
<1>h. CASE EndOfFile
  BY <1>h DEF EndOfFile, collected, members, MpsTypeOK
<1>i. CASE CheckSections
  <2>1. Len(file) \in Nat /\ position \in 0 .. Len(file)
    BY FilesAssumption DEF MpsTypeOK
  <2>2. ErrorsAtZero(Required \ saw) \in Seq(0 .. Len(file))
    BY <2>1, FiniteErrors, ZeroFacts
  <2>3. errors' \in Seq(0 .. Len(file))
    <3> DEFINE end == IF "ENDATA" \in saw THEN <<>> ELSE <<position>>
    <3>1. end \in Seq(0 .. Len(file))
      <4>1. <<>> \in Seq(0 .. Len(file)) OBVIOUS
      <4>2. <<position>> \in Seq(0 .. Len(file)) BY <2>1
      <4> QED BY <4>1, <4>2
    <3>2. errors \in Seq(0 .. Len(file)) BY DEF MpsTypeOK
    <3>3. errors' = errors \o ErrorsAtZero(Required \ saw) \o end BY <1>i DEF CheckSections
    <3> HIDE DEF end
    <3> QED BY <2>2, <3>1, <3>2, <3>3
  <2>4. pc' \in {"columns", "done"} BY <1>i DEF CheckSections, Go
  <2>5. /\ UNCHANGED <<file, position, section, saw, reads, accepted>>
        /\ UNCHANGED <<variable_names, rows, objective_row, column_entries,
                       rhs_values, bound_entries>>
    BY <1>i DEF CheckSections, Kept, collected, members
  <2> QED BY <2>3, <2>4, <2>5 DEF MpsTypeOK
<1>j. CASE BuildColumns
  <2> DEFINE unknown == {i \in DOMAIN column_entries : Unknown(column_entries[i])}
  <2>1. Len(file) \in Nat BY FilesAssumption DEF MpsTypeOK
  <2>2. ErrorsAtZero(unknown) \in Seq(0 .. Len(file)) BY <2>1, FiniteErrors, ZeroFacts
  <2>3. errors' = errors \o ErrorsAtZero(unknown) BY <1>j DEF BuildColumns
  <2>4. errors' \in Seq(0 .. Len(file)) BY <2>2, <2>3 DEF MpsTypeOK
  <2>5. pc' \in {"bounds", "done"} BY <1>j DEF BuildColumns, Go
  <2> QED BY <1>j, <2>4, <2>5 DEF BuildColumns, Kept, collected, members, MpsTypeOK
<1>k. CASE BuildBounds
  <2> DEFINE unknown == {i \in DOMAIN bound_entries :
                            bound_entries[i].variable \notin Variables}
  <2>1. Len(file) \in Nat BY FilesAssumption DEF MpsTypeOK
  <2>2. ErrorsAtZero(unknown) \in Seq(0 .. Len(file)) BY <2>1, FiniteErrors, ZeroFacts
  <2>3. errors' = errors \o ErrorsAtZero(unknown) BY <1>k DEF BuildBounds
  <2>4. errors' \in Seq(0 .. Len(file)) BY <2>2, <2>3 DEF MpsTypeOK
  <2>5. pc' \in {"validate", "done"} BY <1>k DEF BuildBounds, Go
  <2> QED BY <1>k, <2>4, <2>5 DEF BuildBounds, Kept, collected, members, MpsTypeOK
<1>l. CASE Validate
  <2>1. accepted' \in BOOLEAN BY <1>l DEF Validate, Valid
  <2> QED BY <1>l, <2>1 DEF Validate, Kept, collected, members, MpsTypeOK
<1>m. CASE UNCHANGED vars
  BY <1>m DEF vars, collected, members, MpsTypeOK
<1> QED
  BY <1>a, <1>b, <1>c, <1>d, <1>e, <1>f, <1>g, <1>h, <1>i, <1>j, <1>k, <1>l, <1>m
  DEF Next, Returned

\* The reader never leaves its types, whatever the files and however many
\* reads.
THEOREM MpsTypes == Spec => []MpsTypeOK
<1>1. Init => MpsTypeOK BY MpsTypesInit
<1>2. MpsTypeOK /\ [Next]_vars => MpsTypeOK' BY MpsTypesNext
<1> QED BY <1>1, <1>2, PTL DEF Spec

-----------------------------------------------------------------------------
(***************************************************************************)
(* Why a file is refused.  RefusalsHaveCause speaks of finished reads only *)
(* and is not inductive: it needs that a read that has left an error never *)
(* gets to a later stage, and that accepted is not set before the end.     *)
(***************************************************************************)
Stages ==
    /\ pc \in {"columns", "bounds", "validate"} => errors = <<>>
    /\ pc \in {"idle", "lines", "check", "columns", "bounds", "validate"} => ~accepted
    /\ pc = "done" /\ errors # <<>> => ~accepted
    /\ pc = "done" => (accepted <=> errors = <<>> /\ Valid(model))

LEMMA StagesNext == MpsTypeOK /\ Stages /\ [Next]_vars => Stages'
<1> SUFFICES ASSUME MpsTypeOK, Stages, [Next]_vars PROVE Stages' OBVIOUS
<1>a. CASE Open BY <1>a DEF Open, Stages
<1>b. CASE NextLine /\ pc' \in {"lines", "check"}
  BY <1>b DEF NextLine, Stages
<1>c. CASE EndOfFile BY <1>c DEF EndOfFile, Stages
<1>d. CASE CheckSections BY <1>d DEF CheckSections, Go, Stages
<1>e. CASE BuildColumns
  <2>1. pc' = IF errors' = <<>> THEN "bounds" ELSE "done" BY <1>e DEF BuildColumns, Go
  <2>2. ~accepted /\ accepted' = accepted BY <1>e DEF BuildColumns, Stages
  <2> QED BY <2>1, <2>2 DEF Stages
<1>f. CASE BuildBounds
  <2>1. pc' = IF errors' = <<>> THEN "validate" ELSE "done" BY <1>f DEF BuildBounds, Go
  <2>2. ~accepted /\ accepted' = accepted BY <1>f DEF BuildBounds, Stages
  <2> QED BY <2>1, <2>2 DEF Stages
<1>g. CASE Validate BY <1>g DEF Validate, Stages
<1>h. CASE UNCHANGED vars BY <1>h DEF vars, Stages, Valid
<1> QED
  BY <1>a, <1>b, <1>c, <1>d, <1>e, <1>f, <1>g, <1>h
  DEF Next, Returned, SkipLine, Header, RowCard, ColumnCard, RhsCard, BoundCard, Card,
      NextLine

\* A file is refused for an error or for bounds that cross and for nothing
\* else, and no refused read looks accepted.
THEOREM RefusalsCaused == Spec => []RefusalsHaveCause
<1>1. Init => Stages BY DEF Init, Stages
<1>2. Stages => RefusalsHaveCause BY DEF Stages, RefusalsHaveCause
<1> QED BY <1>1, <1>2, MpsTypes, StagesNext, PTL DEF Spec

-----------------------------------------------------------------------------
(***************************************************************************)
(* Which lines the errors name, for files whose lines that start with a    *)
(* keyword are headers (elsewhere the code takes a card for a header).     *)
(***************************************************************************)
HeadersPlain ==
    \A f \in Files : \A i \in DOMAIN f :
        f[i] # <<>> /\ f[i][1] \in Keywords => IsHeader(f[i])

LEMMA NoWordIsNoKeyword == NoWord \notin Keywords
BY Zenon DEF NoWord, Keywords

\* One line more: its header is the section, or the section goes on.
LEMMA HeaderStep ==
  ASSUME NEW f \in Seq(Seq(STRING)), NEW p \in 1 .. Len(f)
  PROVE  HeaderOf(f, p + 1) = IF IsHeader(f[p]) THEN f[p][1] ELSE HeaderOf(f, p)
<1> DEFINE before(i) == {h \in Headers(f) : h < i}
<1>1. Headers(f) \subseteq Nat BY DEF Headers
<1>2. CASE IsHeader(f[p])
  <2>1. p \in before(p + 1) /\ \A h \in before(p + 1) : h \in Nat /\ h <= p
    BY <1>1, <1>2 DEF Headers
  <2>2. Max(before(p + 1)) = p BY <2>1 DEF Max
  <2>3. before(p + 1) # {} BY <2>1
  <2> QED BY <1>2, <2>2, <2>3 DEF HeaderOf
<1>3. CASE ~IsHeader(f[p])
  <2>1. before(p + 1) = before(p) BY <1>1, <1>3 DEF Headers
  <2> QED BY <1>3, <2>1 DEF HeaderOf
<1> QED BY <1>2, <1>3

NoEnd(f, p) == \A j \in 1 .. p : f[j] # <<"ENDATA">>

LEMMA NoEndStep ==
  ASSUME NEW f, NEW p \in Nat, NoEnd(f, p), f[p + 1] # <<"ENDATA">>
  PROVE  NoEnd(f, p + 1)
<1> SUFFICES ASSUME NEW j \in 1 .. p + 1 PROVE f[j] # <<"ENDATA">> BY DEF NoEnd
<1>1. CASE j = p + 1 BY <1>1
<1>2. CASE j \in 1 .. p BY <1>2 DEF NoEnd
<1> QED BY <1>1, <1>2

\* The lines an error may name, with the number 0 of the errors without one.
Nameable(f) ==
    {n \in 0 .. Len(f) :
        n # 0 => \/ n \in Body(f) \ Headers(f) /\ ~GoodCard(f, n)
                 \/ n = Len(f) /\ \A i \in DOMAIN f : f[i] # <<"ENDATA">>}

Located ==
    /\ errors \in Seq(Nameable(file))
    /\ pc = "lines" => /\ section = SectionOf(HeaderOf(file, position + 1))
                       /\ NoEnd(file, position)
    /\ pc = "check" /\ "ENDATA" \notin saw =>
         position = Len(file) /\ \A i \in DOMAIN file : file[i] # <<"ENDATA">>

LEMMA LocatedNames == MpsTypeOK /\ Located => ErrorsNameTheLine
BY DEF Located, Nameable, ErrorsNameTheLine

\* A line that is no header keeps the section open.
LEMMA NoHeaderStep ==
  ASSUME MpsTypeOK, Located, NextLine, line = <<>> \/ first \notin Keywords
  PROVE  /\ section = SectionOf(HeaderOf(file, position + 1 + 1))
         /\ NoEnd(file, position + 1)
         /\ position + 1 \in Body(file) \ Headers(file)
<1>1. /\ file \in Seq(Seq(STRING)) /\ position \in Nat /\ position + 1 \in 1 .. Len(file)
      /\ line \in Seq(STRING) /\ position + 1 \in DOMAIN file
  BY LineFacts DEF NextLine
<1>2. ~IsHeader(line) /\ line # <<"ENDATA">>
  <2>1. line # <<>> => first = line[1] BY <1>1 DEF first, Word
  <2>2. line = <<"ENDATA">> => line # <<>> /\ line[1] \in Keywords BY DEF Keywords
  <2> QED BY <2>1, <2>2 DEF IsHeader
<1>3. HeaderOf(file, position + 1 + 1) = HeaderOf(file, position + 1)
  BY <1>1, <1>2, HeaderStep DEF line
<1>4. section = SectionOf(HeaderOf(file, position + 1)) /\ NoEnd(file, position)
  BY DEF Located, NextLine
<1>5. file[position + 1] # <<"ENDATA">> BY <1>2 DEF line
<1>6. NoEnd(file, position + 1) BY <1>1, <1>4, <1>5, NoEndStep
<1>7. position + 1 \in Body(file) BY <1>1, <1>6 DEF Body, NoEnd
<1>8. position + 1 \notin Headers(file) BY <1>2 DEF Headers, line
<1> QED BY <1>3, <1>4, <1>6, <1>7, <1>8

\* A card in a section is rejected only if it is not a good one.
LEMMA RejectedCards ==
  ASSUME MpsTypeOK, Located, NextLine, line # <<>>, first \notin Keywords,
         \/ section = "ROWS" /\ (Word(line, 2) = NoWord \/ first \notin {"N", "L", "G", "E"})
         \/ section \in {"COLUMNS", "RHS"} /\ Malformed
         \/ section = "BOUNDS"
            /\ ~(/\ Word(line, 2) # NoWord /\ Word(line, 3) # NoWord
                 /\ \/ first \in {"LO", "UP", "FX"} /\ IsNumber(line, 4)
                    \/ first \in {"BV", "FR"})
  PROVE  ~GoodCard(file, position + 1)
<1>1. line \in Seq(STRING) /\ (line = <<NoWord>> \/ \A k \in DOMAIN line : line[k] # NoWord)
  BY LineFacts DEF NextLine
<1>2. first = line[1] BY <1>1 DEF first, Word
<1>3. section = HeaderOf(file, position + 1)
  <2>1. section = SectionOf(HeaderOf(file, position + 1)) BY DEF Located, NextLine
  <2> QED BY <2>1 DEF SectionOf
<1>4. ASSUME Len(line) >= 2
      PROVE  /\ Word(line, 2) # NoWord /\ first # NoWord
             /\ Len(line) >= 3 => Word(line, 3) # NoWord
  <2>1. line # <<NoWord>>
    <3>1. Len(<<NoWord>>) = 1 OBVIOUS
    <3> QED BY <1>4, <3>1
  <2>2. 1 \in DOMAIN line /\ 2 \in DOMAIN line /\ (Len(line) >= 3 => 3 \in DOMAIN line)
    BY <1>1, <1>4
  <2> QED BY <1>1, <1>2, <1>4, <2>1, <2>2 DEF Word
<1>5. CASE section = "ROWS"
  BY <1>1, <1>2, <1>3, <1>4, <1>5 DEF GoodCard, line
<1>6. CASE section \in {"COLUMNS", "RHS"}
  BY <1>1, <1>2, <1>3, <1>4, <1>6 DEF GoodCard, Malformed, line
<1>7. CASE section = "BOUNDS"
  BY <1>1, <1>2, <1>3, <1>4, <1>7 DEF GoodCard, line
<1> QED BY <1>5, <1>6, <1>7

LEMMA CardStep ==
  ASSUME MpsTypeOK, Located, NextLine, pc' = pc, section' = section,
         line = <<>> \/ first \notin Keywords,
         \/ errors' = errors
         \/ errors' = Append(errors, position') /\ ~GoodCard(file, position + 1)
  PROVE  Located'
<1>1. position + 1 \in 1 .. Len(file) /\ position' = position + 1 /\ file' = file
      /\ pc = "lines"
  BY LineFacts DEF NextLine
<1>2. errors' \in Seq(Nameable(file))
  <2>1. errors \in Seq(Nameable(file)) BY DEF Located
  <2>2. CASE errors' = errors BY <2>1, <2>2
  <2>3. CASE errors' = Append(errors, position') /\ ~GoodCard(file, position + 1)
    <3>1. position' \in Nameable(file) BY <1>1, <2>3, NoHeaderStep DEF Nameable
    <3> QED BY <2>1, <2>3, <3>1
  <2> QED BY <2>2, <2>3
<1> QED BY <1>1, <1>2, NoHeaderStep DEF Located

LEMMA LocatedNext == HeadersPlain /\ MpsTypeOK /\ Located /\ [Next]_vars => Located'
<1> SUFFICES ASSUME HeadersPlain, MpsTypeOK, Located, [Next]_vars PROVE Located'
  OBVIOUS
<1>a. CASE Open
  <2>1. CASE file' = <<>> /\ errors' = <<0>> /\ pc' = "done"
    <3>1. Len(file') = 0 BY <2>1
    <3>2. 0 \in Nameable(file') BY <3>1 DEF Nameable
    <3>3. errors' \in Seq(Nameable(file')) BY <2>1, <3>2
    <3> QED BY <2>1, <3>3 DEF Located
  <2>2. CASE file' \in Files /\ errors' = <<>> /\ pc' = "lines"
    <3>1. errors' \in Seq(Nameable(file')) BY <2>2
    <3>2. position' = 0 /\ section' = "none" BY <1>a DEF Open
    <3>3. file' \in Seq(Seq(STRING)) BY <2>2, FilesAssumption
    <3>4. {h \in Headers(file') : h < 1} = {} BY <3>3 DEF Headers
    <3>5. HeaderOf(file', 1) = "none" BY <3>4 DEF HeaderOf
    <3>6. section' = SectionOf(HeaderOf(file', position' + 1))
      BY <3>2, <3>5 DEF SectionOf
    <3> QED BY <2>2, <3>1, <3>2, <3>6 DEF Located, NoEnd
  <2> QED BY <1>a, <2>1, <2>2 DEF Open
<1>b. CASE SkipLine
  BY <1>b, CardStep DEF SkipLine
<1>c. CASE Header
  <2>1. /\ NextLine /\ first \in Keywords /\ errors' = errors /\ file' = file
        /\ position' = position + 1
    BY <1>c DEF Header, NextLine
  <2>2. errors' \in Seq(Nameable(file')) BY <2>1 DEF Located
  <2>3. CASE first = "ENDATA"
    <3>1. pc' = "check" /\ "ENDATA" \in saw' BY <1>c, <2>3 DEF Header
    <3> QED BY <2>2, <3>1 DEF Located
  <2>4. CASE first # "ENDATA"
    <3>1. pc' = "lines" /\ section' = SectionOf(first)
      BY <1>c, <2>1, <2>4 DEF Header, NextLine
    <3>2. /\ file \in Files /\ file \in Seq(Seq(STRING)) /\ position \in Nat
          /\ position + 1 \in 1 .. Len(file) /\ position + 1 \in DOMAIN file
          /\ line \in Seq(STRING)
      BY <2>1, LineFacts DEF NextLine
    <3>3. line # <<>> /\ first = line[1]
      <4>1. first # NoWord BY <2>1, NoWordIsNoKeyword
      <4>2. 1 \in DOMAIN line BY <3>2, <4>1, WordFacts DEF first
      <4> QED BY <3>2, <4>1, <4>2, WordFacts DEF first
    <3>4. IsHeader(line) BY <2>1, <3>2, <3>3 DEF HeadersPlain, line
    <3>5. HeaderOf(file, position + 1 + 1) = first
      BY <3>2, <3>3, <3>4, HeaderStep DEF line
    <3>6. NoEnd(file, position) BY <2>1 DEF Located, NextLine
    <3>7. file[position + 1] # <<"ENDATA">>
      <4>1. <<"ENDATA">>[1] = "ENDATA" OBVIOUS
      <4> QED BY <2>4, <3>3, <4>1 DEF line
    <3>8. NoEnd(file, position + 1) BY <3>2, <3>6, <3>7, NoEndStep
    <3> QED BY <2>1, <2>2, <3>1, <3>5, <3>8 DEF Located
  <2> QED BY <2>3, <2>4
<1>d. CASE RowCard
  <2>1. /\ NextLine /\ line # <<>> /\ first \notin Keywords /\ section = "ROWS"
        /\ pc' = pc /\ section' = section
    BY <1>d DEF RowCard, Card
  <2>2. \/ errors' = errors
        \/ /\ errors' = Append(errors, position')
           /\ Word(line, 2) = NoWord \/ first \notin {"N", "L", "G", "E"}
    BY <1>d DEF RowCard, Reject
  <2> QED BY <2>1, <2>2, RejectedCards, CardStep
<1>e. CASE ColumnCard \/ RhsCard
  <2>1. /\ NextLine /\ line # <<>> /\ first \notin Keywords
        /\ section \in {"COLUMNS", "RHS"} /\ pc' = pc /\ section' = section
    <3>1. CASE ColumnCard BY <3>1 DEF ColumnCard, Card
    <3>2. CASE RhsCard BY <3>2 DEF RhsCard, Card
    <3> QED BY <1>e, <3>1, <3>2
  <2>2. errors' = errors \/ (errors' = Append(errors, position') /\ Malformed)
    <3>1. CASE ColumnCard BY <3>1 DEF ColumnCard, Reject
    <3>2. CASE RhsCard BY <3>2 DEF RhsCard, Reject
    <3> QED BY <1>e, <3>1, <3>2
  <2> QED BY <2>1, <2>2, RejectedCards, CardStep
<1>f. CASE BoundCard
  <2>1. /\ NextLine /\ line # <<>> /\ first \notin Keywords /\ section = "BOUNDS"
        /\ pc' = pc /\ section' = section
    BY <1>f DEF BoundCard, Card
  <2>2. \/ errors' = errors
        \/ /\ errors' = Append(errors, position')
           /\ ~(/\ Word(line, 2) # NoWord /\ Word(line, 3) # NoWord
                /\ \/ first \in {"LO", "UP", "FX"} /\ IsNumber(line, 4)
                   \/ first \in {"BV", "FR"})
    BY <1>f DEF BoundCard, Reject
  <2> QED BY <2>1, <2>2, RejectedCards, CardStep
<1>g. CASE EndOfFile
  <2>1. /\ pc' = "check" /\ UNCHANGED <<file, position, saw, errors>>
        /\ position = Len(file) /\ NoEnd(file, position)
    BY <1>g DEF EndOfFile, Located
  <2>2. DOMAIN file = 1 .. Len(file)
    <3>1. \A f \in Files : f \in Seq(Seq(STRING)) BY FilesAssumption
    <3> QED BY <3>1 DEF MpsTypeOK
  <2> QED BY <2>1, <2>2 DEF Located, NoEnd
<1>h. CASE CheckSections
  <2> DEFINE zeros == ErrorsAtZero(Required \ saw)
             end == IF "ENDATA" \in saw THEN <<>> ELSE <<position>>
  <2>1. Len(file) \in Nat /\ position \in 0 .. Len(file)
    BY FilesAssumption DEF MpsTypeOK
  <2>2. 0 \in Nameable(file) BY <2>1 DEF Nameable
  <2>3. zeros \in Seq(Nameable(file))
    <3>1. zeros \in Seq({0}) BY FiniteErrors, ZeroFacts
    <3> HIDE DEF zeros
    <3> QED BY <2>2, <3>1
  <2>4. end \in Seq(Nameable(file))
    <3>1. CASE "ENDATA" \in saw BY <3>1
    <3>2. CASE "ENDATA" \notin saw
      <4>1. position \in Nameable(file)
        BY <1>h, <2>1, <3>2 DEF CheckSections, Located, Nameable
      <4>2. end = <<position>> BY <3>2
      <4> QED BY <4>1, <4>2
    <3> QED BY <3>1, <3>2
  <2>5. /\ errors' = errors \o zeros \o end /\ file' = file
        /\ pc' \in {"columns", "done"}
    BY <1>h DEF CheckSections, Go, Kept
  <2>6. errors \in Seq(Nameable(file)) BY DEF Located
  <2> HIDE DEF zeros, end
  <2>7. errors' \in Seq(Nameable(file)) BY <2>3, <2>4, <2>5, <2>6
  <2> QED BY <2>5, <2>7 DEF Located
<1>i. CASE BuildColumns \/ BuildBounds
  <2>1. Len(file) \in Nat BY FilesAssumption DEF MpsTypeOK
  <2>2. 0 \in Nameable(file) BY <2>1 DEF Nameable
  <2>3. PICK S : IsFiniteSet(S) /\ errors' = errors \o ErrorsAtZero(S)
    BY <1>i, FiniteErrors DEF BuildColumns, BuildBounds
  <2>4. ErrorsAtZero(S) \in Seq(Nameable(file))
    <3>1. ErrorsAtZero(S) \in Seq({0}) BY <2>3, ZeroFacts
    <3> QED BY <2>2, <3>1
  <2>5. errors' \in Seq(Nameable(file)) BY <2>3, <2>4 DEF Located
  <2>6. file' = file /\ pc' \in {"bounds", "validate", "done"}
    BY <1>i DEF BuildColumns, BuildBounds, Kept, Go
  <2> QED BY <2>5, <2>6 DEF Located
<1>j. CASE Validate BY <1>j DEF Validate, Kept, Located
<1>k. CASE UNCHANGED vars BY <1>k DEF vars, Located
<1> QED
  BY <1>a, <1>b, <1>c, <1>d, <1>e, <1>f, <1>g, <1>h, <1>i, <1>j, <1>k DEF Next, Returned

\* Every error names a card that is at fault or the end of a file without
\* ENDATA, if no line that starts with a keyword is a card.
THEOREM ErrorsNamed == HeadersPlain => (Spec => []ErrorsNameTheLine)
<1> SUFFICES ASSUME HeadersPlain PROVE Spec => []ErrorsNameTheLine OBVIOUS
<1>1. Init => Located BY DEF Init, Located
<1>2. MpsTypeOK /\ Located /\ [Next]_vars => Located' BY LocatedNext
<1> QED BY <1>1, <1>2, MpsTypes, LocatedNames, PTL DEF Spec

-----------------------------------------------------------------------------
(***************************************************************************)
(* What has been collected says what the lines read so far say.  The cards *)
(* of a section among the first n lines:                                   *)
(***************************************************************************)
Till(f, n, name) ==
    {i \in 1 .. n : i \notin Headers(f) /\ f[i] # <<>> /\ HeaderOf(f, i) = name}

LEMMA BodyTill ==
    ASSUME NEW f, NEW n \in Nat, Body(f) = 1 .. n, NEW name
    PROVE  Cards(f, name) = Till(f, n, name)
BY DEF Cards, Till

LEMMA TillStep ==
    ASSUME NEW f \in Seq(Seq(STRING)), NEW n \in Nat, NEW name
    PROVE  /\ ~IsHeader(f[n + 1]) /\ f[n + 1] # <<>> /\ HeaderOf(f, n + 1) = name
                /\ n + 1 \in 1 .. Len(f) =>
                 Till(f, n + 1, name) = Till(f, n, name) \cup {n + 1}
           /\ n + 1 \in 1 .. Len(f)
                /\ (IsHeader(f[n + 1]) \/ f[n + 1] = <<>> \/ HeaderOf(f, n + 1) # name) =>
                 Till(f, n + 1, name) = Till(f, n, name)
<1>1. 1 .. n + 1 = (1 .. n) \cup {n + 1} OBVIOUS
<1>2. n + 1 \in 1 .. Len(f) => (n + 1 \in Headers(f) <=> IsHeader(f[n + 1])) BY DEF Headers
<1> QED BY <1>1, <1>2 DEF Till

-----------------------------------------------------------------------------
(* Latest values.                                                          *)
LEMMA LatestAdds ==
    ASSUME NEW f, NEW M \in SUBSET (Nat \X {2, 4}), NEW i \in Nat, NEW k \in {2, 4},
           \A m \in M : 10 * m[1] + m[2] < 10 * i + k
    PROVE  Latest(f, M \cup {<<i, k>>}) = Numeric[f[i][k + 1]]
<1> DEFINE new == <<i, k>>
           N == M \cup {new}
           P(m) == m \in N /\ \A o \in N : 10 * o[1] + o[2] <= 10 * m[1] + m[2]
<1>1. new[1] = i /\ new[2] = k /\ N # {} OBVIOUS
<1>2. \A m \in M : m[1] \in Nat /\ m[2] \in {2, 4} OBVIOUS
<1>3. P(new)
  <2>1. \A m \in M : 10 * m[1] + m[2] <= 10 * i + k BY <1>2
  <2> QED BY <1>1, <2>1
<1>4. ASSUME NEW m, P(m) PROVE m = new
  <2> SUFFICES ASSUME m \in M PROVE FALSE BY <1>4
  <2>1. 10 * i + k <= 10 * m[1] + m[2] BY <1>1, <1>4
  <2>2. 10 * m[1] + m[2] < 10 * i + k OBVIOUS
  <2> QED BY <1>2, <2>1, <2>2
<1>5. (CHOOSE m \in N : \A o \in N : 10 * o[1] + o[2] <= 10 * m[1] + m[2]) = new
  BY <1>3, <1>4
<1> QED BY <1>1, <1>5 DEF Latest

LEMMA MaxAdds ==
    ASSUME NEW n \in Nat, NEW S \in SUBSET (1 .. n)
    PROVE  Max(S \cup {n + 1}) = n + 1
<1> DEFINE T == S \cup {n + 1}
<1>1. n + 1 \in T /\ \A y \in T : n + 1 >= y /\ y \in Nat OBVIOUS
<1>2. \A x \in T : (\A y \in T : x >= y) => x = n + 1 BY <1>1
<1> QED BY <1>1, <1>2 DEF Max

Add(a, b) == a + b
Theory == INSTANCE FoldTheory WITH Typ <- Int, Op <- Add, Base <- 0

LEMMA MaxFacts ==
    ASSUME NEW n \in Nat, NEW S \in SUBSET (1 .. n), S # {}
    PROVE  Max(S) \in S /\ \A y \in S : y <= Max(S)
<1>1. S \in SUBSET Int /\ n \in Int /\ \A s \in S : s <= n OBVIOUS
<1>2. \E x \in S : \A s \in S : s <= x BY <1>1, Theory!GreatestExists
<1>3. \A x, s \in S : s <= x <=> x >= s BY <1>1
<1> QED BY <1>2, <1>3 DEF Max

\* The entries of a variable in a row, and the mentions they stand for.
EntriesOf(es, r, v) == {k \in DOMAIN es : es[k].variable = v /\ es[k].row = r}
Agree(es, r, v, f, M) ==
    /\ EntriesOf(es, r, v) = {} <=> M = {}
    /\ LastValue(es, EntriesOf(es, r, v), 0) = Latest(f, M)

LEMMA EntryAdded ==
    ASSUME NEW es \in Seq(Entries), NEW e \in Entries, NEW r, NEW v,
           NEW f, NEW M \in SUBSET (Nat \X {2, 4}), Agree(es, r, v, f, M),
           NEW i \in Nat, NEW k \in {2, 4}, \A m \in M : 10 * m[1] + m[2] < 10 * i + k,
           e.value = Numeric[f[i][k + 1]],
           NEW N, N = IF e.variable = v /\ e.row = r THEN M \cup {<<i, k>>} ELSE M
    PROVE  Agree(Append(es, e), r, v, f, N)
<1> DEFINE n == Len(es)
           S == EntriesOf(es, r, v)
           more == Append(es, e)
           T == EntriesOf(more, r, v)
<1>1. /\ n \in Nat /\ DOMAIN es = 1 .. n /\ DOMAIN more = (1 .. n) \cup {n + 1}
      /\ more[n + 1] = e /\ \A j \in 1 .. n : more[j] = es[j]
  OBVIOUS
<1>2. S \in SUBSET (1 .. n) BY <1>1 DEF EntriesOf
<1>3. CASE e.variable = v /\ e.row = r
  <2>1. T = S \cup {n + 1} BY <1>1, <1>3 DEF EntriesOf
  <2>2. Max(T) = n + 1 BY <1>1, <1>2, <2>1, MaxAdds
  <2>3. LastValue(more, T, 0) = e.value BY <1>1, <2>1, <2>2 DEF LastValue
  <2>4. Latest(f, N) = Numeric[f[i][k + 1]] BY <1>3, LatestAdds
  <2>5. T # {} /\ N # {} BY <1>3, <2>1
  <2> QED BY <2>3, <2>4, <2>5 DEF Agree
<1>4. CASE ~(e.variable = v /\ e.row = r)
  <2>1. T = S BY <1>1, <1>4 DEF EntriesOf
  <2>2. S # {} => Max(S) \in S BY <1>1, <1>2, MaxFacts
  <2>3. LastValue(more, T, 0) = LastValue(es, S, 0)
    BY <1>1, <1>2, <2>1, <2>2 DEF LastValue
  <2> QED BY <1>4, <2>1, <2>3 DEF Agree
<1> QED BY <1>3, <1>4

\* What line i adds to the mentions M of a row.
FirstOf(f, i, r, M) ==
    IF IsNumber(f[i], 3) /\ Word(f[i], 2) = r THEN M \cup {<<i, 2>>} ELSE M
SecondOf(f, i, r, M) ==
    IF IsNumber(f[i], 5) /\ Word(f[i], 4) = r THEN M \cup {<<i, 4>>} ELSE M

LEMMA MentionsAdded ==
    ASSUME NEW f, NEW C, NEW i, NEW r
    PROVE  Mentions(f, C \cup {i}, r) = SecondOf(f, i, r, FirstOf(f, i, r, Mentions(f, C, r)))
<1> DEFINE M == IF IsNumber(f[i], 3) /\ Word(f[i], 2) = r
                THEN Mentions(f, C, r) \cup {<<i, 2>>} ELSE Mentions(f, C, r)
           N == IF IsNumber(f[i], 5) /\ Word(f[i], 4) = r THEN M \cup {<<i, 4>>} ELSE M
<1> DEFINE P(at) == IsNumber(f[at[1]], at[2] + 1) /\ Word(f[at[1]], at[2]) = r
<1>1. \A S : Mentions(f, S, r) = {at \in S \X {2, 4} : P(at)} BY DEF Mentions
<1>2. P(<<i, 2>>) <=> IsNumber(f[i], 3) /\ Word(f[i], 2) = r OBVIOUS
<1>3. P(<<i, 4>>) <=> IsNumber(f[i], 5) /\ Word(f[i], 4) = r OBVIOUS
<1> HIDE DEF P
<1>4. (C \cup {i}) \X {2, 4} = (C \X {2, 4}) \cup {<<i, 2>>, <<i, 4>>} OBVIOUS
<1>5. Mentions(f, C \cup {i}, r)
        = Mentions(f, C, r) \cup {at \in {<<i, 2>>, <<i, 4>>} : P(at)}
  BY <1>1, <1>4
<1>6. M = Mentions(f, C, r) \cup {at \in {<<i, 2>>} : P(at)} BY <1>2
<1> HIDE DEF M
<1>7. N = M \cup {at \in {<<i, 4>>} : P(at)} BY <1>3
<1> HIDE DEF N
<1>8. Mentions(f, C \cup {i}, r) = N BY <1>5, <1>6, <1>7
<1>9. N = SecondOf(f, i, r, FirstOf(f, i, r, Mentions(f, C, r))) BY DEF M, N, FirstOf, SecondOf
<1> HIDE DEF N
<1> QED BY <1>8, <1>9, Zenon

\* The words of a sequence and one more.
LEMMA WordAdded ==
    ASSUME NEW names \in Seq(STRING), NEW w
    PROVE  ToSet(Append(names, w)) = ToSet(names) \cup {w}
<1>1. DOMAIN Append(names, w) = DOMAIN names \cup {Len(names) + 1} OBVIOUS
<1>2. Append(names, w)[Len(names) + 1] = w OBVIOUS
<1>3. \A j \in DOMAIN names : Append(names, w)[j] = names[j] OBVIOUS
<1> QED BY <1>1, <1>2, <1>3 DEF ToSet

\* The mentions of earlier lines are below those of line i.
LEMMA MentionsBelow ==
    ASSUME NEW f, NEW n \in Nat, NEW C \in SUBSET (1 .. n), NEW r
    PROVE  /\ Mentions(f, C, r) \in SUBSET (Nat \X {2, 4})
           /\ \A m \in Mentions(f, C, r) : \A k \in {2, 4} : 10 * m[1] + m[2] < 10 * (n + 1) + k
           /\ \A m \in Mentions(f, C, r) \cup {<<n + 1, 2>>} :
                 10 * m[1] + m[2] < 10 * (n + 1) + 4
<1>1. Mentions(f, C, r) \subseteq C \X {2, 4} BY DEF Mentions
<1>2. \A m \in C \X {2, 4} : m[1] \in 1 .. n /\ m[2] \in {2, 4} OBVIOUS
<1>3. \A m \in C \X {2, 4} : \A k \in {2, 4} : 10 * m[1] + m[2] < 10 * (n + 1) + k
  <2> TAKE m \in C \X {2, 4}
  <2> TAKE k \in {2, 4}
  <2>1. m[1] \in 1 .. n /\ m[2] \in {2, 4} BY <1>2
  <2>2. 10 * m[1] <= 10 * n BY <2>1
  <2> QED BY <2>1, <2>2
<1>4. C \X {2, 4} \subseteq Nat \X {2, 4}
  <2>1. C \subseteq Nat OBVIOUS
  <2> QED BY <2>1
<1>5. <<n + 1, 2>>[1] = n + 1 /\ <<n + 1, 2>>[2] = 2 /\ 10 * (n + 1) + 2 < 10 * (n + 1) + 4
  OBVIOUS
<1>6. 4 \in {2, 4} OBVIOUS
<1> QED BY <1>1, <1>3, <1>4, <1>5, <1>6

-----------------------------------------------------------------------------
(* What the members hold after the first n lines of f.                     *)
HeadersRead(seen, f, n) == \A i \in 1 .. n : i \in Headers(f) => f[i][1] \in seen \cup {"BOUNDS"}
RowsRead(rs, objective, f, n) ==
    /\ \A k \in DOMAIN rs : \E i \in Till(f, n, "ROWS") :
          f[i][1] # "N" /\ rs[k] = [name |-> f[i][2], type |-> f[i][1]]
    /\ \A i \in Till(f, n, "ROWS") : f[i][1] # "N" =>
          \E k \in DOMAIN rs : rs[k] = [name |-> f[i][2], type |-> f[i][1]]
    /\ \/ objective = NoWord /\ \A i \in Till(f, n, "ROWS") : f[i][1] # "N"
       \/ \E i \in Till(f, n, "ROWS") : f[i][1] = "N" /\ f[i][2] = objective
ColumnsOf(f, n, v) == {i \in Till(f, n, "COLUMNS") : f[i][1] = v}
ColumnsRead(names, es, f, n) ==
    /\ ToSet(names) = {f[i][1] : i \in Till(f, n, "COLUMNS")}
    /\ \A r, v : Agree(es, r, v, f, Mentions(f, ColumnsOf(f, n, v), r))
RhsRead(values, f, n) ==
    \A r : LET M == Mentions(f, Till(f, n, "RHS"), r)
           IN  /\ r \in DOMAIN values <=> M # {}
               /\ M # {} => values[r] = Latest(f, M)
BoundCardsOf(f, n, v, K) == {i \in Till(f, n, "BOUNDS") : f[i][3] = v /\ f[i][1] \in K}
BoundsIn(s, bs, v, K) == {k \in s : bs[k].variable = v /\ bs[k].type \in K}
SameBound(b, card) ==
    /\ b.type = card[1]
    /\ card[1] \in {"LO", "UP", "FX"} => b.value = Numeric[card[4]]
BoundsRead(bs, f, n) ==
    \A v, K : LET S == BoundsIn(DOMAIN bs, bs, v, K)
                  C == BoundCardsOf(f, n, v, K)
              IN  /\ S = {} <=> C = {}
                  /\ S # {} => SameBound(bs[Max(S)], f[Max(C)])

ReadSoFar(n) ==
    /\ HeadersRead(saw, file, n)
    /\ RowsRead(rows, objective_row, file, n)
    /\ ColumnsRead(variable_names, column_entries, file, n)
    /\ RhsRead(rhs_values, file, n) /\ BoundsRead(bound_entries, file, n)

LEMMA AppendFacts ==
    ASSUME NEW S, NEW p \in Seq(S), NEW b \in S
    PROVE  /\ Append(p, b) \in Seq(S) /\ Len(Append(p, b)) = Len(p) + 1
           /\ Append(p, b)[Len(p) + 1] = b
           /\ \A i \in 1 .. Len(p) : Append(p, b)[i] = p[i]
OBVIOUS

LEMMA PairFacts ==
    ASSUME NEW S, NEW a \in S, NEW b \in S
    PROVE  /\ <<a>> \in Seq(S) /\ Len(<<a>>) = 1 /\ <<a>>[1] = a
           /\ <<a, b>> \in Seq(S) /\ Len(<<a, b>>) = 2 /\ <<a, b>>[1] = a /\ <<a, b>>[2] = b
OBVIOUS

LEMMA PairAppended ==
    ASSUME NEW S, NEW s \in Seq(S), NEW a \in S, NEW b \in S
    PROVE  s \o <<a, b>> = Append(Append(s, a), b) /\ s \o <<a>> = Append(s, a)
<1> DEFINE u == s \o <<a, b>>
           w == Append(Append(s, a), b)
<1>1. s \o <<a>> = Append(s, a) OBVIOUS
<1>2. /\ u \in Seq(S) /\ Len(u) = Len(s) + 2
      /\ \A i \in 1 .. Len(s) + 2 : u[i] = IF i <= Len(s) THEN s[i] ELSE <<a, b>>[i - Len(s)]
  <2>1. <<a, b>> \in Seq(S) /\ Len(<<a, b>>) = 2 BY PairFacts
  <2> DEFINE t == <<a, b>>
  <2> HIDE DEF t
  <2>2. /\ s \o t \in Seq(S) /\ Len(s \o t) = Len(s) + Len(t)
        /\ \A i \in 1 .. Len(s) + Len(t) : (s \o t)[i] = IF i <= Len(s) THEN s[i] ELSE t[i - Len(s)]
    BY <2>1, ConcatProperties DEF t
  <2> QED BY <2>1, <2>2 DEF t
<1>3. Append(s, a) \in Seq(S) /\ Len(Append(s, a)) = Len(s) + 1
  BY AppendFacts
<1>4. w \in Seq(S) /\ Len(w) = Len(s) + 2 /\ w[Len(s) + 2] = b
      /\ w[Len(s) + 1] = a /\ \A i \in 1 .. Len(s) : w[i] = s[i]
  <2> DEFINE v == Append(s, a)
  <2>1. v[Len(s) + 1] = a /\ \A i \in 1 .. Len(s) : v[i] = s[i] BY AppendFacts
  <2>2. v \in Seq(S) /\ Len(v) = Len(s) + 1 /\ Len(s) \in Nat BY <1>3
  <2> HIDE DEF v
  <2>3. /\ Append(v, b) \in Seq(S) /\ Len(Append(v, b)) = Len(v) + 1
        /\ Append(v, b)[Len(v) + 1] = b
        /\ \A i \in 1 .. Len(v) : Append(v, b)[i] = v[i]
    BY <2>2, AppendFacts
  <2>4. w = Append(v, b) BY DEF v
  <2> HIDE DEF w
  <2>5. Len(v) + 1 = Len(s) + 2 /\ Len(s) + 1 \in 1 .. Len(v)
        /\ \A i \in 1 .. Len(s) : i \in 1 .. Len(v)
    BY <2>2
  <2> QED BY <2>1, <2>3, <2>4, <2>5
<1>5. Len(s) \in Nat /\ <<a, b>>[1] = a /\ <<a, b>>[2] = b BY PairFacts
<1> HIDE DEF u, w
<1>6. ASSUME NEW i \in 1 .. Len(s) + 2 PROVE u[i] = w[i]
  <2>1. CASE i \in 1 .. Len(s) BY <1>2, <1>4, <2>1
  <2>2. CASE i = Len(s) + 1
    <3>1. ~(i <= Len(s)) /\ i - Len(s) = 1 BY <1>5, <2>2
    <3> QED BY <1>2, <1>4, <1>5, <2>2, <3>1
  <2>3. CASE i = Len(s) + 2
    <3>1. ~(i <= Len(s)) /\ i - Len(s) = 2 BY <1>5, <2>3
    <3> QED BY <1>2, <1>4, <1>5, <2>3, <3>1
  <2> QED BY <1>5, <2>1, <2>2, <2>3
<1>7. u = w BY <1>2, <1>4, <1>6, SeqEqual
<1> QED BY <1>1, <1>7 DEF u, w

LEMMA EntriesAppended ==
    \A s \in Seq(Entries) : \A a, b \in Entries : s \o <<a, b>> = Append(Append(s, a), b)
BY PairAppended

LEMMA ColumnsWithin ==
    ASSUME NEW f, NEW n \in Nat, NEW v
    PROVE  ColumnsOf(f, n, v) \in SUBSET (1 .. n) /\ ColumnsOf(f, n, v) \in SUBSET Nat
<1>1. 1 .. n \subseteq Nat OBVIOUS
<1>2. ColumnsOf(f, n, v) \subseteq 1 .. n BY DEF ColumnsOf, Till
<1> QED BY <1>1, <1>2

\* A column card gives its variable one entry or two.
LEMMA ColumnAdded ==
    ASSUME NEW f \in Seq(Seq(STRING)), NEW n \in Nat, n + 1 \in 1 .. Len(f),
           Till(f, n + 1, "COLUMNS") = Till(f, n, "COLUMNS") \cup {n + 1},
           NEW names \in Seq(STRING), NEW es \in Seq(Entries), ColumnsRead(names, es, f, n),
           NEW one, one = [variable |-> f[n + 1][1], row |-> f[n + 1][2],
                           value |-> Numeric[f[n + 1][3]]], one \in Entries,
           NEW two, two = [variable |-> f[n + 1][1], row |-> f[n + 1][4],
                           value |-> Numeric[f[n + 1][5]]],
           IsNumber(f[n + 1], 3), Word(f[n + 1], 2) = f[n + 1][2],
           IsNumber(f[n + 1], 5) => two \in Entries /\ Word(f[n + 1], 4) = f[n + 1][4]
    PROVE  ColumnsRead(Append(names, f[n + 1][1]),
                       es \o IF IsNumber(f[n + 1], 5) THEN <<one, two>> ELSE <<one>>, f, n + 1)
<1> DEFINE i == n + 1
           w == f[n + 1][1]
           more == es \o IF IsNumber(f[n + 1], 5) THEN <<one, two>> ELSE <<one>>
<1>1. ToSet(Append(names, w)) = {f[j][1] : j \in Till(f, n + 1, "COLUMNS")}
  <2>1. ToSet(Append(names, w)) = ToSet(names) \cup {w} BY WordAdded
  <2>2. ToSet(names) = {f[j][1] : j \in Till(f, n, "COLUMNS")} BY DEF ColumnsRead
  <2> QED BY <2>1, <2>2
<1>2. ASSUME NEW r, NEW v
      PROVE  Agree(more, r, v, f, Mentions(f, ColumnsOf(f, n + 1, v), r))
  <2> DEFINE C == ColumnsOf(f, n, v)
             M == Mentions(f, C, r)
             O == IF one.variable = v /\ one.row = r THEN M \cup {<<n + 1, 2>>} ELSE M
             T == IF IsNumber(f[n + 1], 5) /\ two.variable = v /\ two.row = r
                  THEN O \cup {<<n + 1, 4>>} ELSE O
  <2>1. C \in SUBSET (1 .. n) /\ C \in SUBSET Nat BY ColumnsWithin
  <2>2. /\ M \in SUBSET (Nat \X {2, 4})
        /\ \A m \in M : 10 * m[1] + m[2] < 10 * (n + 1) + 2
        /\ \A m \in M \cup {<<n + 1, 2>>} : 10 * m[1] + m[2] < 10 * (n + 1) + 4
    BY <2>1, MentionsBelow
  <2>3. O \in SUBSET (Nat \X {2, 4}) /\ \A m \in O : 10 * m[1] + m[2] < 10 * (n + 1) + 4
    <3>1. <<n + 1, 2>> \in Nat \X {2, 4} OBVIOUS
    <3> QED BY <2>2, <3>1
  <2>4. Agree(es, r, v, f, M) BY DEF ColumnsRead
  <2>5. Mentions(f, ColumnsOf(f, n + 1, v), r) = T
    <3>1. one.variable = w /\ one.row = f[n + 1][2] /\ two.variable = w /\ two.row = f[n + 1][4]
      OBVIOUS
    <3>2. CASE w = v
      <4>1. ColumnsOf(f, n + 1, v) = C \cup {n + 1} BY <3>2 DEF ColumnsOf
      <4>2. O = IF IsNumber(f[n + 1], 3) /\ Word(f[n + 1], 2) = r
                THEN M \cup {<<n + 1, 2>>} ELSE M
        BY <3>1, <3>2
      <4>3. T = IF IsNumber(f[n + 1], 5) /\ Word(f[n + 1], 4) = r
                THEN O \cup {<<n + 1, 4>>} ELSE O
        BY <3>1, <3>2
      <4> HIDE DEF C, O, T
      <4>4. n + 1 \in Nat OBVIOUS
      <4>5. M = Mentions(f, C, r) OBVIOUS
      <4> HIDE DEF M
      <4>6. Mentions(f, C \cup {n + 1}, r) = T
        <5> DEFINE P == IF IsNumber(f[n + 1], 3) /\ Word(f[n + 1], 2) = r
                        THEN Mentions(f, C, r) \cup {<<n + 1, 2>>} ELSE Mentions(f, C, r)
        <5>1. Mentions(f, C \cup {n + 1}, r) = IF IsNumber(f[n + 1], 5) /\ Word(f[n + 1], 4) = r
                                                THEN P \cup {<<n + 1, 4>>} ELSE P
          <6>1. Mentions(f, C \cup {n + 1}, r)
                  = SecondOf(f, n + 1, r, FirstOf(f, n + 1, r, Mentions(f, C, r)))
            BY MentionsAdded
          <6>2. FirstOf(f, n + 1, r, Mentions(f, C, r)) = P BY DEF FirstOf
          <6> HIDE DEF P
          <6> QED BY <6>1, <6>2 DEF SecondOf
        <5>2. P = O BY <4>2, <4>5
        <5> HIDE DEF P
        <5> QED BY <4>3, <5>1, <5>2
      <4> QED BY <4>1, <4>6
    <3>3. CASE w # v
      <4>1. ColumnsOf(f, n + 1, v) = C BY <3>3 DEF ColumnsOf
      <4> QED BY <3>1, <3>3, <4>1
    <3> QED BY <3>2, <3>3
  <2>6. n + 1 \in Nat /\ 2 \in {2, 4} /\ 4 \in {2, 4} /\ 2 + 1 = 3 /\ 4 + 1 = 5 OBVIOUS
  <2>7. one.value = Numeric[f[n + 1][3]] /\ two.value = Numeric[f[n + 1][5]] OBVIOUS
  <2>8. Agree(Append(es, one), r, v, f, O)
    <3> HIDE DEF M
    <3>1. O = IF one.variable = v /\ one.row = r THEN M \cup {<<n + 1, 2>>} ELSE M OBVIOUS
    <3> HIDE DEF O
    <3> QED BY <2>2, <2>4, <2>6, <2>7, <3>1, EntryAdded
  <2>9. CASE IsNumber(f[n + 1], 5)
    <3>1. more = Append(Append(es, one), two)
      <4>1. more = es \o <<one, two>> BY <2>9
      <4>2. es \in Seq(Entries) /\ one \in Entries /\ two \in Entries BY <2>9
      <4>3. es \o <<one, two>> = Append(Append(es, one), two)
        BY <4>2, EntriesAppended, Zenon
      <4> QED BY <4>1, <4>3
    <3>2. Append(es, one) \in Seq(Entries) /\ two \in Entries BY <2>9
    <3>3. T = IF two.variable = v /\ two.row = r THEN O \cup {<<n + 1, 4>>} ELSE O
      BY <2>9
    <3> HIDE DEF T, O, M
    <3>4. Agree(Append(Append(es, one), two), r, v, f, T)
      BY <2>3, <2>6, <2>7, <2>8, <3>2, <3>3, EntryAdded
    <3> HIDE DEF more
    <3> QED BY <2>5, <3>1, <3>4
  <2>10. CASE ~IsNumber(f[n + 1], 5)
    <3>1. more = Append(es, one) /\ T = O BY <2>10
    <3> QED BY <2>5, <2>8, <3>1
  <2> QED BY <2>9, <2>10
<1> QED BY <1>1, <1>2 DEF ColumnsRead

-----------------------------------------------------------------------------
(* The other cards.                                                        *)
LEMMA RowAdded ==
    ASSUME NEW f, NEW n \in Nat, NEW o, NEW S, NEW rs \in Seq(S),
           Till(f, n + 1, "ROWS") = Till(f, n, "ROWS") \cup {n + 1},
           f[n + 1][1] # "N", RowsRead(rs, o, f, n),
           [name |-> f[n + 1][2], type |-> f[n + 1][1]] \in S
    PROVE  RowsRead(Append(rs, [name |-> f[n + 1][2], type |-> f[n + 1][1]]), o, f, n + 1)
<1> DEFINE new == [name |-> f[n + 1][2], type |-> f[n + 1][1]]
           more == Append(rs, new)
           row(i) == [name |-> f[i][2], type |-> f[i][1]]
<1>1. /\ Len(rs) \in Nat /\ DOMAIN rs = 1 .. Len(rs) /\ DOMAIN more = DOMAIN rs \cup {Len(rs) + 1}
      /\ more[Len(rs) + 1] = new /\ \A k \in DOMAIN rs : more[k] = rs[k]
  OBVIOUS
<1>2. row(n + 1) = new /\ n + 1 \in Till(f, n + 1, "ROWS") OBVIOUS
<1>3. /\ \A k \in DOMAIN rs : \E i \in Till(f, n, "ROWS") : f[i][1] # "N" /\ rs[k] = row(i)
      /\ \A i \in Till(f, n, "ROWS") : f[i][1] # "N" => \E k \in DOMAIN rs : rs[k] = row(i)
      /\ \/ o = NoWord /\ \A i \in Till(f, n, "ROWS") : f[i][1] # "N"
         \/ \E i \in Till(f, n, "ROWS") : f[i][1] = "N" /\ f[i][2] = o
  BY DEF RowsRead
<1> HIDE DEF row, new, more
<1>4. \A k \in DOMAIN more : \E i \in Till(f, n + 1, "ROWS") : f[i][1] # "N" /\ more[k] = row(i)
  BY <1>1, <1>2, <1>3
<1>5. \A i \in Till(f, n + 1, "ROWS") : f[i][1] # "N" => \E k \in DOMAIN more : more[k] = row(i)
  BY <1>1, <1>2, <1>3
<1>6. \/ o = NoWord /\ \A i \in Till(f, n + 1, "ROWS") : f[i][1] # "N"
      \/ \E i \in Till(f, n + 1, "ROWS") : f[i][1] = "N" /\ f[i][2] = o
  BY <1>3
<1> QED BY <1>4, <1>5, <1>6 DEF RowsRead, row, more, new

LEMMA ObjectiveAdded ==
    ASSUME NEW f, NEW n \in Nat, NEW o, NEW rs,
           Till(f, n + 1, "ROWS") = Till(f, n, "ROWS") \cup {n + 1},
           f[n + 1][1] = "N", RowsRead(rs, o, f, n)
    PROVE  RowsRead(rs, f[n + 1][2], f, n + 1)
BY DEF RowsRead

RhsSays(values, f, r, M) ==
    /\ r \in DOMAIN values <=> M # {}
    /\ M # {} => values[r] = Latest(f, M)

LEMMA RhsEntry ==
    ASSUME NEW values, NEW f, NEW r, NEW M \in SUBSET (Nat \X {2, 4}), RhsSays(values, f, r, M),
           NEW i \in Nat, NEW k \in {2, 4}, \A m \in M : 10 * m[1] + m[2] < 10 * i + k,
           NEW w
    PROVE  RhsSays(WithRhs(values, w, Numeric[f[i][k + 1]]), f, r,
                   IF w = r THEN M \cup {<<i, k>>} ELSE M)
<1>1. CASE w = r
  <2>1. Latest(f, M \cup {<<i, k>>}) = Numeric[f[i][k + 1]] BY LatestAdds
  <2> QED BY <1>1, <2>1 DEF RhsSays, WithRhs
<1>2. CASE w # r BY <1>2 DEF RhsSays, WithRhs
<1> QED BY <1>1, <1>2

LEMMA RhsAdded ==
    ASSUME NEW f, NEW n \in Nat, NEW values,
           Till(f, n + 1, "RHS") = Till(f, n, "RHS") \cup {n + 1}, RhsRead(values, f, n),
           IsNumber(f[n + 1], 3), Word(f[n + 1], 2) = f[n + 1][2],
           IsNumber(f[n + 1], 5) => Word(f[n + 1], 4) = f[n + 1][4]
    PROVE  LET one == WithRhs(values, f[n + 1][2], Numeric[f[n + 1][3]])
           IN  RhsRead(IF IsNumber(f[n + 1], 5)
                       THEN WithRhs(one, f[n + 1][4], Numeric[f[n + 1][5]]) ELSE one, f, n + 1)
<1> DEFINE one == WithRhs(values, f[n + 1][2], Numeric[f[n + 1][3]])
           both == WithRhs(one, f[n + 1][4], Numeric[f[n + 1][5]])
           more == IF IsNumber(f[n + 1], 5) THEN both ELSE one
           C == Till(f, n, "RHS")
<1>1. C \in SUBSET (1 .. n) /\ C \in SUBSET Nat BY DEF Till
<1>2. ASSUME NEW r PROVE RhsSays(more, f, r, Mentions(f, C \cup {n + 1}, r))
  <2> DEFINE M == Mentions(f, C, r)
             O == IF f[n + 1][2] = r THEN M \cup {<<n + 1, 2>>} ELSE M
             T == IF f[n + 1][4] = r THEN O \cup {<<n + 1, 4>>} ELSE O
  <2>1. /\ M \in SUBSET (Nat \X {2, 4})
        /\ \A m \in M : 10 * m[1] + m[2] < 10 * (n + 1) + 2
        /\ \A m \in M \cup {<<n + 1, 2>>} : 10 * m[1] + m[2] < 10 * (n + 1) + 4
    BY <1>1, MentionsBelow
  <2>2. O \in SUBSET (Nat \X {2, 4}) /\ \A m \in O : 10 * m[1] + m[2] < 10 * (n + 1) + 4
    <3>1. <<n + 1, 2>> \in Nat \X {2, 4} OBVIOUS
    <3> QED BY <2>1, <3>1
  <2>3. RhsSays(values, f, r, M) BY DEF RhsRead, RhsSays
  <2>4. n + 1 \in Nat /\ 2 \in {2, 4} /\ 4 \in {2, 4} /\ 2 + 1 = 3 /\ 4 + 1 = 5 OBVIOUS
  <2>5. Mentions(f, C \cup {n + 1}, r) = IF IsNumber(f[n + 1], 5) THEN T ELSE O
    <3> DEFINE P == IF IsNumber(f[n + 1], 3) /\ Word(f[n + 1], 2) = r
                    THEN M \cup {<<n + 1, 2>>} ELSE M
    <3>1. Mentions(f, C \cup {n + 1}, r) = IF IsNumber(f[n + 1], 5) /\ Word(f[n + 1], 4) = r
                                            THEN P \cup {<<n + 1, 4>>} ELSE P
      <4>1. FirstOf(f, n + 1, r, M) = P BY DEF FirstOf
      <4> HIDE DEF C, P
      <4>2. Mentions(f, C \cup {n + 1}, r)
              = SecondOf(f, n + 1, r, FirstOf(f, n + 1, r, Mentions(f, C, r)))
        BY MentionsAdded
      <4> QED BY <4>1, <4>2 DEF SecondOf
    <3>2. P = O OBVIOUS
    <3> HIDE DEF P, O
    <3> QED BY <3>1, <3>2
  <2>6. RhsSays(one, f, r, O)
    <3> HIDE DEF M
    <3>1. RhsSays(WithRhs(values, f[n + 1][2], Numeric[f[n + 1][2 + 1]]), f, r,
                  IF f[n + 1][2] = r THEN M \cup {<<n + 1, 2>>} ELSE M)
      BY <2>1, <2>3, <2>4, RhsEntry
    <3> QED BY <2>4, <3>1
  <2>7. RhsSays(both, f, r, T)
    <3> HIDE DEF O, one
    <3>1. RhsSays(WithRhs(one, f[n + 1][4], Numeric[f[n + 1][4 + 1]]), f, r,
                  IF f[n + 1][4] = r THEN O \cup {<<n + 1, 4>>} ELSE O)
      BY <2>2, <2>4, <2>6, RhsEntry
    <3> QED BY <2>4, <3>1
  <2> HIDE DEF one, both, M, O, T
  <2> QED BY <2>5, <2>6, <2>7
<1>3. Till(f, n + 1, "RHS") = C \cup {n + 1} OBVIOUS
<1> HIDE DEF more, C
<1>4. RhsRead(more, f, n + 1) BY <1>2, <1>3 DEF RhsRead, RhsSays
<1> QED BY <1>4 DEF more

LEMMA BoundAdded ==
    ASSUME NEW f, NEW n \in Nat, NEW bs \in Seq(BoundEntries), NEW b \in BoundEntries,
           Till(f, n + 1, "BOUNDS") = Till(f, n, "BOUNDS") \cup {n + 1}, BoundsRead(bs, f, n),
           b.variable = f[n + 1][3], SameBound(b, f[n + 1])
    PROVE  BoundsRead(Append(bs, b), f, n + 1)
<1> SUFFICES ASSUME NEW v, NEW K
             PROVE  LET S == BoundsIn(DOMAIN Append(bs, b), Append(bs, b), v, K)
                        C == BoundCardsOf(f, n + 1, v, K)
                    IN  /\ S = {} <=> C = {}
                        /\ S # {} => SameBound(Append(bs, b)[Max(S)], f[Max(C)])
  BY DEF BoundsRead
<1> DEFINE more == Append(bs, b)
           m == Len(bs)
           S == BoundsIn(DOMAIN bs, bs, v, K)
           C == BoundCardsOf(f, n, v, K)
           S1 == BoundsIn(DOMAIN more, more, v, K)
           C1 == BoundCardsOf(f, n + 1, v, K)
<1>1. /\ m \in Nat /\ DOMAIN bs = 1 .. m /\ DOMAIN more = (1 .. m) \cup {m + 1}
      /\ more[m + 1] = b /\ \A k \in 1 .. m : more[k] = bs[k]
  OBVIOUS
<1>2. S \in SUBSET (1 .. m) /\ C \in SUBSET (1 .. n)
  BY <1>1 DEF BoundsIn, BoundCardsOf, Till
<1>3. b.type = f[n + 1][1] BY DEF SameBound
<1>4. (S = {} <=> C = {}) /\ (S # {} => SameBound(bs[Max(S)], f[Max(C)])) BY DEF BoundsRead
<1>5. CASE b.variable = v /\ b.type \in K
  <2>1. S1 = S \cup {m + 1} BY <1>1, <1>5 DEF BoundsIn
  <2>2. C1 = C \cup {n + 1} BY <1>3, <1>5 DEF BoundCardsOf
  <2>3. Max(S1) = m + 1 BY <1>1, <1>2, <2>1, MaxAdds
  <2>4. Max(C1) = n + 1 BY <1>2, <2>2, MaxAdds
  <2> HIDE DEF S1, C1, S, C, more, m
  <2> QED BY <1>1, <2>1, <2>2, <2>3, <2>4 DEF S1, C1, more
<1>6. CASE ~(b.variable = v /\ b.type \in K)
  <2>1. S1 = S BY <1>1, <1>6 DEF BoundsIn
  <2>2. C1 = C BY <1>3, <1>6 DEF BoundCardsOf
  <2>3. S # {} => Max(S) \in S BY <1>1, <1>2, MaxFacts
  <2>4. S # {} => more[Max(S)] = bs[Max(S)] BY <1>1, <1>2, <2>3
  <2> HIDE DEF S, C, more, S1, C1
  <2> QED BY <1>4, <2>1, <2>2, <2>4 DEF S1, C1, more
<1> QED BY <1>5, <1>6

-----------------------------------------------------------------------------
(***************************************************************************)
(* Reading.  As long as there is no error, what has been collected says    *)
(* what the lines read so far say.                                         *)
(***************************************************************************)
Later == {"check", "columns", "bounds", "validate", "done"}
CollectedAll == \E n \in Nat : Body(file) = 1 .. n /\ ReadSoFar(n)

ReadInv ==
    /\ pc = "lines" => "ENDATA" \notin saw
    /\ pc = "lines" /\ errors = <<>> => ReadSoFar(position)
    /\ pc \in Later /\ errors = <<>> /\ "ENDATA" \in saw => CollectedAll
    /\ pc \in {"columns", "bounds", "validate"} => "ENDATA" \in saw
    /\ pc = "done" /\ errors = <<>> => "ENDATA" \in saw

\* What one line more leaves alone.
LEMMA NothingAdded ==
    ASSUME NEW f, NEW n, NEW m
    PROVE  /\ \A rs, o : Till(f, m, "ROWS") = Till(f, n, "ROWS") /\ RowsRead(rs, o, f, n) =>
                 RowsRead(rs, o, f, m)
           /\ \A names, es : Till(f, m, "COLUMNS") = Till(f, n, "COLUMNS")
                             /\ ColumnsRead(names, es, f, n) => ColumnsRead(names, es, f, m)
           /\ \A values : Till(f, m, "RHS") = Till(f, n, "RHS") /\ RhsRead(values, f, n) =>
                 RhsRead(values, f, m)
           /\ \A bs : Till(f, m, "BOUNDS") = Till(f, n, "BOUNDS") /\ BoundsRead(bs, f, n) =>
                 BoundsRead(bs, f, m)
<1>1. \A rs, o : Till(f, m, "ROWS") = Till(f, n, "ROWS") /\ RowsRead(rs, o, f, n) =>
                 RowsRead(rs, o, f, m)
  BY DEF RowsRead
<1>2. \A names, es : Till(f, m, "COLUMNS") = Till(f, n, "COLUMNS")
                     /\ ColumnsRead(names, es, f, n) => ColumnsRead(names, es, f, m)
  BY DEF ColumnsRead, ColumnsOf
<1>3. \A values : Till(f, m, "RHS") = Till(f, n, "RHS") /\ RhsRead(values, f, n) =>
                 RhsRead(values, f, m)
  BY DEF RhsRead
<1>4. \A bs : Till(f, m, "BOUNDS") = Till(f, n, "BOUNDS") /\ BoundsRead(bs, f, n) =>
                 BoundsRead(bs, f, m)
  BY DEF BoundsRead, BoundCardsOf
<1> QED BY <1>1, <1>2, <1>3, <1>4

Carded == {"ROWS", "COLUMNS", "RHS", "BOUNDS"}

\* Before the first line.
LEMMA NothingRead ==
    ASSUME NEW f
    PROVE  /\ HeadersRead({}, f, 0) /\ RowsRead(<<>>, NoWord, f, 0)
           /\ ColumnsRead(<<>>, <<>>, f, 0) /\ RhsRead(EmptyFunction, f, 0)
           /\ BoundsRead(<<>>, f, 0)
<1>1. \A name : Till(f, 0, name) = {} BY DEF Till
<1>2. HeadersRead({}, f, 0) BY DEF HeadersRead
<1>3. DOMAIN <<>> = {} OBVIOUS
<1>4. RowsRead(<<>>, NoWord, f, 0) BY <1>1, <1>3 DEF RowsRead
<1>5. \A r : Mentions(f, {}, r) = {} BY DEF Mentions
<1>6. ColumnsRead(<<>>, <<>>, f, 0)
  <2>1. ToSet(<<>>) = {} BY <1>3 DEF ToSet
  <2>2. \A v : ColumnsOf(f, 0, v) = {} BY <1>1 DEF ColumnsOf
  <2>3. \A r, v : EntriesOf(<<>>, r, v) = {} BY <1>3 DEF EntriesOf
  <2>4. \A r, v : Agree(<<>>, r, v, f, {}) BY <2>3 DEF Agree, LastValue, Latest
  <2>5. {f[i][1] : i \in {}} = {} OBVIOUS
  <2> QED BY <1>1, <1>5, <2>1, <2>2, <2>4, <2>5 DEF ColumnsRead
<1>7. RhsRead(EmptyFunction, f, 0)
  <2>1. DOMAIN EmptyFunction = {} BY DEF EmptyFunction
  <2> QED BY <1>1, <1>5, <2>1 DEF RhsRead
<1>8. BoundsRead(<<>>, f, 0)
  <2>1. \A v, K : BoundsIn(DOMAIN <<>>, <<>>, v, K) = {} BY <1>3 DEF BoundsIn
  <2>2. \A v, K : BoundCardsOf(f, 0, v, K) = {} BY <1>1 DEF BoundCardsOf
  <2> QED BY <2>1, <2>2 DEF BoundsRead
<1> QED BY <1>2, <1>4, <1>6, <1>7, <1>8

\* The line in hand is a card of the open section, or of none.
LEMMA CardOf ==
    ASSUME MpsTypeOK, Located, NextLine, line = <<>> \/ first \notin Keywords
    PROVE  /\ position + 1 \notin Headers(file) /\ ~IsHeader(file[position + 1])
           /\ \A name \in Carded :
                 /\ line # <<>> /\ section = name =>
                      Till(file, position + 1, name) = Till(file, position, name) \cup {position + 1}
                 /\ line = <<>> \/ section # name =>
                      Till(file, position + 1, name) = Till(file, position, name)
<1>1. /\ file \in Seq(Seq(STRING)) /\ position \in Nat /\ position + 1 \in 1 .. Len(file)
      /\ line \in Seq(STRING) /\ position + 1 \in DOMAIN file
  BY LineFacts DEF NextLine
<1>2. ~IsHeader(line)
  <2>1. line # <<>> => first = line[1] BY <1>1 DEF first, Word
  <2> QED BY <2>1 DEF IsHeader
<1>3. section = SectionOf(HeaderOf(file, position + 1)) BY DEF Located, NextLine
<1>4. ASSUME NEW name \in Carded
      PROVE  section = name <=> HeaderOf(file, position + 1) = name
  BY <1>3 DEF Carded, SectionOf
<1>5. ~IsHeader(file[position + 1]) /\ file[position + 1] = line BY <1>2 DEF line
<1>6. position + 1 \notin Headers(file) BY <1>5 DEF Headers
<1>7. ASSUME NEW name \in Carded
      PROVE  /\ line # <<>> /\ section = name =>
                  Till(file, position + 1, name) = Till(file, position, name) \cup {position + 1}
             /\ line = <<>> \/ section # name =>
                  Till(file, position + 1, name) = Till(file, position, name)
  <2>1. section = name <=> HeaderOf(file, position + 1) = name BY <1>4
  <2> HIDE DEF line
  <2>2. /\ ~IsHeader(file[position + 1]) /\ file[position + 1] # <<>>
             /\ HeaderOf(file, position + 1) = name /\ position + 1 \in 1 .. Len(file) =>
             Till(file, position + 1, name) = Till(file, position, name) \cup {position + 1}
        /\ position + 1 \in 1 .. Len(file)
             /\ (\/ IsHeader(file[position + 1]) \/ file[position + 1] = <<>>
                 \/ HeaderOf(file, position + 1) # name) =>
             Till(file, position + 1, name) = Till(file, position, name)
    BY <1>1, TillStep
  <2> QED BY <1>1, <1>5, <2>1, <2>2, Zenon
<1> QED BY <1>5, <1>6, <1>7

LEMMA HeadersMore ==
    ASSUME NEW seen, NEW f, NEW n \in Nat, HeadersRead(seen, f, n), NEW more,
           seen \subseteq more, n + 1 \in Headers(f) => f[n + 1][1] \in more \cup {"BOUNDS"}
    PROVE  HeadersRead(more, f, n + 1)
<1>1. 1 .. n + 1 = (1 .. n) \cup {n + 1} OBVIOUS
<1> QED BY <1>1 DEF HeadersRead

\* What is read with one line more: what the line adds, the rest unchanged.
ReadMore ==
    /\ HeadersRead(saw', file, position + 1)
    /\ RowsRead(rows', objective_row', file, position + 1)
    /\ ColumnsRead(variable_names', column_entries', file, position + 1)
    /\ RhsRead(rhs_values', file, position + 1)
    /\ BoundsRead(bound_entries', file, position + 1)

LEMMA OtherSections ==
    ASSUME MpsTypeOK, Located, NextLine, line = <<>> \/ first \notin Keywords,
           ReadSoFar(position), saw' = saw
    PROVE  /\ HeadersRead(saw', file, position + 1)
           /\ line = <<>> \/ section # "ROWS" =>
                RowsRead(rows, objective_row, file, position + 1)
           /\ line = <<>> \/ section # "COLUMNS" =>
                ColumnsRead(variable_names, column_entries, file, position + 1)
           /\ line = <<>> \/ section # "RHS" => RhsRead(rhs_values, file, position + 1)
           /\ line = <<>> \/ section # "BOUNDS" => BoundsRead(bound_entries, file, position + 1)
<1>1. position + 1 \notin Headers(file) BY CardOf
<1>2. position \in Nat BY LineFacts DEF NextLine
<1>3. HeadersRead(saw', file, position + 1)
  <2>1. HeadersRead(saw, file, position) BY DEF ReadSoFar
  <2> QED BY <1>1, <1>2, <2>1, HeadersMore
<1>4. \A name \in Carded : line = <<>> \/ section # name =>
         Till(file, position + 1, name) = Till(file, position, name)
  BY CardOf
<1>5. "ROWS" \in Carded /\ "COLUMNS" \in Carded /\ "RHS" \in Carded /\ "BOUNDS" \in Carded
  BY DEF Carded
<1>6. /\ RowsRead(rows, objective_row, file, position)
      /\ ColumnsRead(variable_names, column_entries, file, position)
      /\ RhsRead(rhs_values, file, position) /\ BoundsRead(bound_entries, file, position)
  BY DEF ReadSoFar
<1>7. line = <<>> \/ section # "ROWS" => RowsRead(rows, objective_row, file, position + 1)
  BY <1>4, <1>5, <1>6, NothingAdded
<1>8. line = <<>> \/ section # "COLUMNS" =>
        ColumnsRead(variable_names, column_entries, file, position + 1)
  BY <1>4, <1>5, <1>6, NothingAdded
<1>9. line = <<>> \/ section # "RHS" => RhsRead(rhs_values, file, position + 1)
  BY <1>4, <1>5, <1>6, NothingAdded
<1>10. line = <<>> \/ section # "BOUNDS" => BoundsRead(bound_entries, file, position + 1)
  BY <1>4, <1>5, <1>6, NothingAdded
<1> QED BY <1>3, <1>7, <1>8, <1>9, <1>10

LEMMA CardLine ==
    ASSUME MpsTypeOK, Located, NEW name \in Carded, Card(name)
    PROVE  /\ NextLine /\ line # <<>> /\ first \notin Keywords /\ section = name
           /\ pc' = pc /\ saw' = saw /\ section' = section
           /\ line \in Seq(STRING) /\ file[position + 1] = line /\ first = line[1]
           /\ file \in Seq(Seq(STRING)) /\ position \in Nat /\ position + 1 \in 1 .. Len(file)
           /\ errors \in Seq(0 .. Len(file))
           /\ Till(file, position + 1, name) = Till(file, position, name) \cup {position + 1}
<1>1. /\ NextLine /\ line # <<>> /\ first \notin Keywords /\ section = name
      /\ pc' = pc /\ saw' = saw /\ section' = section
  BY DEF Card
<1>2. /\ line \in Seq(STRING) /\ file[position + 1] = line /\ file \in Seq(Seq(STRING))
      /\ position \in Nat /\ position + 1 \in DOMAIN file
  BY <1>1, LineFacts DEF NextLine, line
<1>3. position + 1 \in 1 .. Len(file) BY <1>2
<1>4. first = line[1] BY <1>1, <1>2 DEF first, Word
<1>5. Till(file, position + 1, name) = Till(file, position, name) \cup {position + 1}
  BY <1>1, CardOf
<1>6. errors \in Seq(0 .. Len(file)) BY DEF MpsTypeOK
<1> QED BY <1>1, <1>2, <1>3, <1>4, <1>5, <1>6

LEMMA NoRejection ==
    ASSUME MpsTypeOK, NEW n, n \in 0 .. Len(file), errors' = <<>>
    PROVE  ~Reject(n)
<1>1. errors \in Seq(0 .. Len(file)) BY DEF MpsTypeOK
<1>2. Append(errors, n) # <<>> BY <1>1
<1> QED BY <1>2 DEF Reject

LEMMA RowRead ==
    ASSUME MpsTypeOK, Located, RowCard, errors' = <<>>, ReadSoFar(position)
    PROVE  ReadMore
<1>0. "ROWS" \in Carded BY DEF Carded
<1>1. Card("ROWS") BY DEF RowCard
<1>2. /\ NextLine /\ line # <<>> /\ first \notin Keywords /\ section = "ROWS" /\ saw' = saw
      /\ line \in Seq(STRING) /\ file[position + 1] = line /\ first = line[1]
      /\ position \in Nat /\ position + 1 \in 1 .. Len(file)
      /\ Till(file, position + 1, "ROWS") = Till(file, position, "ROWS") \cup {position + 1}
  BY <1>0, <1>1, CardLine
<1>3. /\ HeadersRead(saw', file, position + 1)
      /\ ColumnsRead(variable_names, column_entries, file, position + 1)
      /\ RhsRead(rhs_values, file, position + 1)
      /\ BoundsRead(bound_entries, file, position + 1)
  BY <1>2, OtherSections
<1>4. position' = position + 1 BY <1>2 DEF NextLine
<1>5. ~Reject(position')
  <2>1. position + 1 \in 0 .. Len(file) BY <1>2
  <2> QED BY <1>4, <2>1, NoRejection
<1>6. RowsRead(rows, objective_row, file, position) BY DEF ReadSoFar
<1>7. CASE /\ first = "N" /\ objective_row' = line[2]
           /\ UNCHANGED <<variable_names, rows, column_entries, rhs_values, bound_entries>>
  <2>1. RowsRead(rows, file[position + 1][2], file, position + 1)
    BY <1>2, <1>6, <1>7, ObjectiveAdded
  <2> QED BY <1>2, <1>3, <1>7, <2>1 DEF ReadMore
<1>8. CASE /\ first \in {"L", "G", "E"} /\ Word(line, 2) # NoWord
           /\ rows' = Append(rows, [name |-> line[2], type |-> first])
           /\ UNCHANGED <<variable_names, objective_row, column_entries, rhs_values,
                          bound_entries>>
  <2> DEFINE T == [name : STRING, type : {"L", "G", "E"}]
  <2>1. line[2] \in STRING BY <1>2, <1>8, WordFacts
  <2>2. [name |-> line[2], type |-> first] \in T BY <1>8, <2>1
  <2>3. rows \in Seq(T) BY DEF MpsTypeOK
  <2>4. file[position + 1][1] # "N" BY <1>2, <1>8
  <2>5. rows' = Append(rows, [name |-> file[position + 1][2], type |-> file[position + 1][1]])
    BY <1>2, <1>8
  <2>6. [name |-> file[position + 1][2], type |-> file[position + 1][1]] \in T
    BY <1>2, <2>2
  <2> HIDE DEF T
  <2>7. RowsRead(rows', objective_row, file, position + 1)
    BY <1>2, <1>6, <2>3, <2>4, <2>5, <2>6, RowAdded
  <2> QED BY <1>3, <1>8, <2>7 DEF ReadMore
<1> QED BY <1>5, <1>7, <1>8 DEF RowCard

\* The words of a COLUMNS or RHS card that is taken.
LEMMA PairWords ==
    ASSUME MpsTypeOK, NEW ln \in Seq(STRING), ln # <<>>, ln[1] = Word(ln, 1),
           Word(ln, 1) # NoWord, Word(ln, 2) # NoWord, IsNumber(ln, 3),
           \A k \in DOMAIN ln : ln[k] # NoWord
    PROVE  /\ ln[1] \in STRING /\ ln[2] \in STRING /\ Word(ln, 2) = ln[2]
           /\ Numeric[ln[3]] \in Int
           /\ IsNumber(ln, 5) =>
                ln[4] \in STRING /\ Word(ln, 4) = ln[4] /\ Numeric[ln[5]] \in Int
<1>1. 1 \in DOMAIN ln /\ 2 \in DOMAIN ln /\ Word(ln, 2) = ln[2] BY WordFacts
<1>2. Numeric[ln[3]] \in Int BY WordFacts
<1>3. ASSUME IsNumber(ln, 5)
      PROVE  ln[4] \in STRING /\ Word(ln, 4) = ln[4] /\ Numeric[ln[5]] \in Int
  <2>1. 5 \in DOMAIN ln /\ Numeric[ln[5]] \in Int BY <1>3, WordFacts
  <2>2. 4 \in DOMAIN ln BY <2>1
  <2> QED BY <2>1, <2>2 DEF Word
<1>4. ln[1] \in STRING /\ ln[2] \in STRING BY <1>1
<1> QED BY <1>1, <1>2, <1>3, <1>4

\* A line with two words has no empty one.
LEMMA FullWords ==
    ASSUME MpsTypeOK, NextLine, Word(line, 2) # NoWord
    PROVE  \A k \in DOMAIN line : line[k] # NoWord
<1>1. line \in Seq(STRING) /\ (line = <<NoWord>> \/ \A k \in DOMAIN line : line[k] # NoWord)
  BY LineFacts DEF NextLine
<1>2. 2 \in DOMAIN line BY <1>1, WordFacts
<1>3. line # <<NoWord>>
  <2>1. 2 \notin DOMAIN <<NoWord>> OBVIOUS
  <2> QED BY <1>2, <2>1
<1> QED BY <1>1, <1>3

LEMMA ColumnRead ==
    ASSUME MpsTypeOK, Located, ColumnCard, errors' = <<>>, ReadSoFar(position)
    PROVE  ReadMore
<1>0. "COLUMNS" \in Carded BY DEF Carded
<1>1. Card("COLUMNS") BY DEF ColumnCard
<1>2. /\ NextLine /\ line # <<>> /\ first \notin Keywords /\ section = "COLUMNS" /\ saw' = saw
      /\ line \in Seq(STRING) /\ file[position + 1] = line /\ first = line[1]
      /\ position \in Nat /\ position + 1 \in 1 .. Len(file) /\ file \in Seq(Seq(STRING))
      /\ Till(file, position + 1, "COLUMNS") = Till(file, position, "COLUMNS") \cup {position + 1}
  BY <1>0, <1>1, CardLine
<1>3. /\ HeadersRead(saw', file, position + 1)
      /\ RowsRead(rows, objective_row, file, position + 1)
      /\ RhsRead(rhs_values, file, position + 1)
      /\ BoundsRead(bound_entries, file, position + 1)
  BY <1>2, OtherSections
<1>4. position' = position + 1 BY <1>2 DEF NextLine
<1>5. ~Reject(position')
  <2>1. position + 1 \in 0 .. Len(file) BY <1>2
  <2> QED BY <1>4, <2>1, NoRejection
<1>6. /\ ~Malformed /\ variable_names' = Append(variable_names, first)
      /\ column_entries' = column_entries \o
                 IF IsNumber(line, 5) THEN <<Entry(2), Entry(4)>> ELSE <<Entry(2)>>
      /\ UNCHANGED <<rows, objective_row, rhs_values, bound_entries>>
  BY <1>5 DEF ColumnCard
<1> DEFINE one == [variable |-> line[1], row |-> line[2], value |-> Numeric[line[3]]]
           two == [variable |-> line[1], row |-> line[4], value |-> Numeric[line[5]]]
<1>7. /\ line[1] \in STRING /\ line[2] \in STRING /\ Word(line, 2) = line[2]
      /\ IsNumber(line, 3) /\ Numeric[line[3]] \in Int
      /\ IsNumber(line, 5) =>
           line[4] \in STRING /\ Word(line, 4) = line[4] /\ Numeric[line[5]] \in Int
  <2>1. first = Word(line, 1) /\ first # NoWord /\ Word(line, 2) # NoWord /\ IsNumber(line, 3)
    BY <1>6 DEF Malformed, first
  <2>2. \A k \in DOMAIN line : line[k] # NoWord BY <1>2, <2>1, FullWords
  <2> QED BY <1>2, <2>1, <2>2, PairWords
<1>8. Entry(2) = one /\ Entry(4) = two BY <1>2 DEF Entry
<1>9. one \in Entries /\ (IsNumber(line, 5) => two \in Entries) BY <1>7 DEF Entries
<1>10. variable_names \in Seq(STRING) /\ column_entries \in Seq(Entries) BY DEF MpsTypeOK
<1>11. ColumnsRead(variable_names, column_entries, file, position) BY DEF ReadSoFar
<1>12. ColumnsRead(Append(variable_names, file[position + 1][1]),
           column_entries \o IF IsNumber(file[position + 1], 5) THEN <<one, two>> ELSE <<one>>,
           file, position + 1)
  <2>1. one = [variable |-> file[position + 1][1], row |-> file[position + 1][2],
               value |-> Numeric[file[position + 1][3]]]
    BY <1>2
  <2>2. two = [variable |-> file[position + 1][1], row |-> file[position + 1][4],
               value |-> Numeric[file[position + 1][5]]]
    BY <1>2
  <2>3. IsNumber(file[position + 1], 3) /\ Word(file[position + 1], 2) = file[position + 1][2]
        /\ (IsNumber(file[position + 1], 5) =>
               two \in Entries /\ Word(file[position + 1], 4) = file[position + 1][4])
    BY <1>2, <1>7, <1>9
  <2> HIDE DEF one, two
  <2> QED BY <1>2, <1>9, <1>10, <1>11, <2>1, <2>2, <2>3, ColumnAdded
<1> HIDE DEF one, two
<1>13. ColumnsRead(variable_names', column_entries', file, position + 1)
  BY <1>2, <1>6, <1>8, <1>12
<1> QED BY <1>3, <1>6, <1>13 DEF ReadMore

LEMMA RhsCardRead ==
    ASSUME MpsTypeOK, Located, RhsCard, errors' = <<>>, ReadSoFar(position)
    PROVE  ReadMore
<1>0. "RHS" \in Carded BY DEF Carded
<1>1. Card("RHS") BY DEF RhsCard
<1>2. /\ NextLine /\ line # <<>> /\ first \notin Keywords /\ section = "RHS" /\ saw' = saw
      /\ line \in Seq(STRING) /\ file[position + 1] = line /\ first = line[1]
      /\ position \in Nat /\ position + 1 \in 1 .. Len(file)
      /\ Till(file, position + 1, "RHS") = Till(file, position, "RHS") \cup {position + 1}
  BY <1>0, <1>1, CardLine
<1>3. /\ HeadersRead(saw', file, position + 1)
      /\ RowsRead(rows, objective_row, file, position + 1)
      /\ ColumnsRead(variable_names, column_entries, file, position + 1)
      /\ BoundsRead(bound_entries, file, position + 1)
  BY <1>2, OtherSections
<1>4. position' = position + 1 BY <1>2 DEF NextLine
<1>5. ~Reject(position')
  <2>1. position + 1 \in 0 .. Len(file) BY <1>2
  <2> QED BY <1>4, <2>1, NoRejection
<1> DEFINE one == WithRhs(rhs_values, line[2], Numeric[line[3]])
           more == IF IsNumber(line, 5)
                   THEN WithRhs(one, line[4], Numeric[line[5]]) ELSE one
<1>6. /\ ~Malformed /\ rhs_values' = more
      /\ UNCHANGED <<variable_names, rows, objective_row, column_entries, bound_entries>>
  BY <1>5 DEF RhsCard, members
<1>7. /\ Word(line, 2) = line[2] /\ IsNumber(line, 3)
      /\ IsNumber(line, 5) => Word(line, 4) = line[4]
  <2>1. first = Word(line, 1) /\ first # NoWord /\ Word(line, 2) # NoWord /\ IsNumber(line, 3)
    BY <1>6 DEF Malformed, first
  <2>2. \A k \in DOMAIN line : line[k] # NoWord BY <1>2, <2>1, FullWords
  <2> QED BY <1>2, <2>1, <2>2, PairWords
<1>8. RhsRead(rhs_values, file, position) BY DEF ReadSoFar
<1>9. RhsRead(more, file, position + 1)
  <2> HIDE DEF line
  <2>1. LET o == WithRhs(rhs_values, file[position + 1][2], Numeric[file[position + 1][3]])
        IN  RhsRead(IF IsNumber(file[position + 1], 5)
                    THEN WithRhs(o, file[position + 1][4], Numeric[file[position + 1][5]])
                    ELSE o, file, position + 1)
    BY <1>2, <1>7, <1>8, RhsAdded
  <2> QED BY <1>2, <2>1
<1> HIDE DEF more
<1> QED BY <1>3, <1>6, <1>9 DEF ReadMore

LEMMA BoundCardRead ==
    ASSUME MpsTypeOK, Located, BoundCard, errors' = <<>>, ReadSoFar(position)
    PROVE  ReadMore
<1>0. "BOUNDS" \in Carded BY DEF Carded
<1>1. Card("BOUNDS") BY DEF BoundCard
<1>2. /\ NextLine /\ line # <<>> /\ first \notin Keywords /\ section = "BOUNDS" /\ saw' = saw
      /\ line \in Seq(STRING) /\ file[position + 1] = line /\ first = line[1]
      /\ position \in Nat /\ position + 1 \in 1 .. Len(file)
      /\ Till(file, position + 1, "BOUNDS") = Till(file, position, "BOUNDS") \cup {position + 1}
  BY <1>0, <1>1, CardLine
<1>3. /\ HeadersRead(saw', file, position + 1)
      /\ RowsRead(rows, objective_row, file, position + 1)
      /\ ColumnsRead(variable_names, column_entries, file, position + 1)
      /\ RhsRead(rhs_values, file, position + 1)
  BY <1>2, OtherSections
<1>4. position' = position + 1 BY <1>2 DEF NextLine
<1>5. ~Reject(position')
  <2>1. position + 1 \in 0 .. Len(file) BY <1>2
  <2> QED BY <1>4, <2>1, NoRejection
<1> DEFINE valued == first \in {"LO", "UP", "FX"} /\ IsNumber(line, 4)
           b == [type |-> first, variable |-> line[3],
                 value |-> IF valued THEN Numeric[line[4]]
                           ELSE IF first = "BV" THEN 1 ELSE 0]
<1>6. /\ Word(line, 2) # NoWord /\ Word(line, 3) # NoWord
      /\ valued \/ first \in {"BV", "FR"}
      /\ bound_entries' = Append(bound_entries, b)
      /\ UNCHANGED <<variable_names, rows, objective_row, column_entries, rhs_values>>
  BY <1>5 DEF BoundCard, members
<1>7. line[3] \in STRING BY <1>2, <1>6, WordFacts
<1>8. valued => Numeric[line[4]] \in Int BY <1>2, WordFacts
<1>9. b \in BoundEntries BY <1>6, <1>7, <1>8 DEF BoundEntries
<1>10. b.variable = file[position + 1][3] /\ SameBound(b, file[position + 1])
  <2>1. b.type = first /\ b.variable = line[3] /\ (valued => b.value = Numeric[line[4]])
    OBVIOUS
  <2>2. first \in {"LO", "UP", "FX"} => valued BY <1>6
  <2> HIDE DEF b, valued
  <2> QED BY <1>2, <2>1, <2>2 DEF SameBound
<1>11. bound_entries \in Seq(BoundEntries) BY DEF MpsTypeOK
<1>12. BoundsRead(bound_entries, file, position) BY DEF ReadSoFar
<1> HIDE DEF b
<1>13. BoundsRead(Append(bound_entries, b), file, position + 1)
  BY <1>2, <1>9, <1>10, <1>11, <1>12, BoundAdded
<1> QED BY <1>3, <1>6, <1>13 DEF ReadMore

LEMMA MoreIsRead ==
    ASSUME MpsTypeOK, NextLine, ReadMore
    PROVE  ReadSoFar(position)'
<1>1. file' = file /\ position' = position + 1 BY DEF NextLine
<1> QED BY <1>1 DEF ReadMore, ReadSoFar

\* No line was rejected before one that leaves no error.
LEMMA NoErrorBefore ==
    ASSUME MpsTypeOK, errors' = <<>>, \E n \in 0 .. Len(file) : errors' = errors \/ Reject(n)
    PROVE  errors' = errors
BY NoRejection

LEMMA EmptyParts ==
    ASSUME NEW p \in Seq(Int), NEW q \in Seq(Int), NEW r \in Seq(Int), p \o q \o r = <<>>
    PROVE  p = <<>> /\ q = <<>> /\ r = <<>>
<1>1. Len(p \o q \o r) = Len(p) + Len(q) + Len(r) OBVIOUS
<1>2. Len(p) + Len(q) + Len(r) = 0 BY <1>1
<1>3. Len(p) = 0 /\ Len(q) = 0 /\ Len(r) = 0 BY <1>2
<1> QED BY <1>3

\* A check of the sections that leaves no error found none.
LEMMA CheckedSections ==
    ASSUME MpsTypeOK, CheckSections, errors' = <<>>
    PROVE  errors = <<>> /\ Required \subseteq saw /\ "ENDATA" \in saw
<1> DEFINE zeros == ErrorsAtZero(Required \ saw)
           end == IF "ENDATA" \in saw THEN <<>> ELSE <<position>>
<1>1. Len(file) \in Nat /\ position \in 0 .. Len(file) /\ errors \in Seq(0 .. Len(file))
  BY FilesAssumption DEF MpsTypeOK
<1>2. errors' = errors \o zeros \o end BY DEF CheckSections
<1>3. zeros \in Seq({0}) /\ (zeros = <<>> <=> Required \ saw = {})
  BY FiniteErrors, ZeroFacts
<1>4. zeros \in Seq(Int)
  <2> HIDE DEF zeros
  <2> QED BY <1>3
<1>5. end \in Seq(Int)
  <2>1. <<>> \in Seq(Int) OBVIOUS
  <2>2. <<position>> \in Seq(Int) BY <1>1
  <2> QED BY <2>1, <2>2
<1>6. "ENDATA" \notin saw => end # <<>>
  <2>1. <<position>> # <<>> OBVIOUS
  <2> QED BY <2>1
<1>7. errors \in Seq(Int) BY <1>1
<1> HIDE DEF zeros, end
<1>8. errors = <<>> /\ zeros = <<>> /\ end = <<>> BY <1>2, <1>4, <1>5, <1>7, EmptyParts
<1> QED BY <1>3, <1>6, <1>8

LEMMA ReadNext ==
    HeadersPlain /\ MpsTypeOK /\ Located /\ Stages /\ ReadInv /\ [Next]_vars => ReadInv'
<1> SUFFICES ASSUME HeadersPlain, MpsTypeOK, Located, Stages, ReadInv, [Next]_vars
             PROVE  ReadInv'
  OBVIOUS
<1>a. CASE Open
  <2>1. CASE file' = <<>> /\ errors' = <<0>> /\ pc' = "done"
    <3>1. <<0>> # <<>> OBVIOUS
    <3> QED BY <2>1, <3>1 DEF ReadInv
  <2>2. CASE errors' = <<>> /\ pc' = "lines"
    <3>1. /\ position' = 0 /\ saw' = {} /\ rows' = <<>> /\ objective_row' = NoWord
          /\ variable_names' = <<>> /\ column_entries' = <<>>
          /\ rhs_values' = EmptyFunction /\ bound_entries' = <<>>
      BY <1>a DEF Open, ClearMembers
    <3>2. ReadSoFar(position)'
      <4>1. /\ HeadersRead({}, file', 0) /\ RowsRead(<<>>, NoWord, file', 0)
            /\ ColumnsRead(<<>>, <<>>, file', 0) /\ RhsRead(EmptyFunction, file', 0)
            /\ BoundsRead(<<>>, file', 0)
        BY NothingRead
      <4> QED BY <3>1, <4>1 DEF ReadSoFar
    <3> QED BY <2>2, <3>1, <3>2 DEF ReadInv, Later
  <2> QED BY <1>a, <2>1, <2>2 DEF Open
<1>b. CASE SkipLine \/ RowCard \/ ColumnCard \/ RhsCard \/ BoundCard
  <2>1. NextLine /\ (line = <<>> \/ first \notin Keywords) /\ pc' = pc /\ saw' = saw
    BY <1>b DEF SkipLine, RowCard, ColumnCard, RhsCard, BoundCard, Card
  <2>2. pc = "lines" /\ "ENDATA" \notin saw BY <2>1 DEF NextLine, ReadInv
  <2>3. position \in Nat /\ position + 1 \in 0 .. Len(file) /\ position' = position + 1
    <3>1. position \in Nat /\ position + 1 \in DOMAIN file /\ file \in Seq(Seq(STRING))
      BY <2>1, LineFacts DEF NextLine
    <3> QED BY <2>1, <3>1 DEF NextLine
  <2>4. errors' = errors \/ Reject(position')
    BY <1>b DEF SkipLine, RowCard, ColumnCard, RhsCard, BoundCard
  <2>5. ASSUME errors' = <<>> PROVE ReadSoFar(position)'
    <3>1. ReadSoFar(position)
      <4>1. errors' = errors BY <2>3, <2>4, <2>5, NoErrorBefore
      <4> QED BY <2>2, <2>5, <4>1 DEF ReadInv
    <3>2. CASE SkipLine
      <4>1. line = <<>> \/ section = "none" BY <3>2 DEF SkipLine
      <4>2. UNCHANGED <<variable_names, rows, objective_row, column_entries, rhs_values,
                        bound_entries>>
        BY <3>2 DEF SkipLine, collected, members
      <4>3. ReadMore BY <2>1, <3>1, <4>1, <4>2, OtherSections DEF ReadMore
      <4> QED BY <2>1, <4>3, MoreIsRead
    <3>3. CASE RowCard BY <2>1, <2>5, <3>1, <3>3, RowRead, MoreIsRead
    <3>4. CASE ColumnCard BY <2>1, <2>5, <3>1, <3>4, ColumnRead, MoreIsRead
    <3>5. CASE RhsCard BY <2>1, <2>5, <3>1, <3>5, RhsCardRead, MoreIsRead
    <3>6. CASE BoundCard BY <2>1, <2>5, <3>1, <3>6, BoundCardRead, MoreIsRead
    <3> QED BY <1>b, <3>2, <3>3, <3>4, <3>5, <3>6
  <2> QED BY <2>1, <2>2, <2>5 DEF ReadInv, Later
<1>c. CASE Header
  <2>1. /\ NextLine /\ first \in Keywords /\ errors' = errors /\ file' = file
        /\ position' = position + 1 /\ pc = "lines"
        /\ saw' = IF first = "BOUNDS" THEN saw ELSE saw \cup {first}
        /\ UNCHANGED <<variable_names, rows, objective_row, column_entries, rhs_values,
                       bound_entries>>
    BY <1>c DEF Header, NextLine, collected, members
  <2>2. /\ file \in Files /\ file \in Seq(Seq(STRING)) /\ position \in Nat
        /\ position + 1 \in 1 .. Len(file) /\ position + 1 \in DOMAIN file
        /\ line \in Seq(STRING)
    BY <2>1, LineFacts DEF NextLine
  <2>3. line # <<>> /\ first = line[1]
    <3>1. first # NoWord BY <2>1, NoWordIsNoKeyword
    <3>2. 1 \in DOMAIN line BY <2>2, <3>1, WordFacts DEF first
    <3> QED BY <2>2, <3>1, <3>2, WordFacts DEF first
  <2>4. IsHeader(line) /\ file[position + 1] = line
    BY <2>1, <2>2, <2>3 DEF HeadersPlain, line
  <2>5. "ENDATA" \notin saw /\ (errors = <<>> => ReadSoFar(position))
    BY <2>1 DEF ReadInv
  <2>6. CASE first = "ENDATA"
    <3>1. pc' = "check" /\ saw' = saw \cup {"ENDATA"} BY <1>c, <2>1, <2>6 DEF Header
    <3>2. ASSUME errors' = <<>> PROVE CollectedAll'
      <4>1. ReadSoFar(position) BY <2>1, <2>5, <3>2
      <4>2. HeadersRead(saw', file, position) BY <3>1, <4>1 DEF ReadSoFar, HeadersRead
      <4>3. /\ RowsRead(rows', objective_row', file', position)
            /\ ColumnsRead(variable_names', column_entries', file', position)
            /\ RhsRead(rhs_values', file', position)
            /\ BoundsRead(bound_entries', file', position)
            /\ HeadersRead(saw', file', position)
        BY <2>1, <4>1, <4>2 DEF ReadSoFar
      <4>4. Body(file') = 1 .. position
        <5>1. NoEnd(file, position) BY <2>1 DEF Located
        <5>2. line = <<"ENDATA">>
          <6>1. Len(line) = 1 /\ line[1] = "ENDATA" /\ line \in Seq(STRING)
            <7>1. "ENDATA" # "NAME" OBVIOUS
            <7> QED BY <2>2, <2>3, <2>4, <2>6, <7>1 DEF IsHeader
          <6>2. \A s \in Seq(STRING) : Len(s) = 1 => s = <<s[1]>> OBVIOUS
          <6> QED BY <6>1, <6>2
        <5>3. file[position + 1] = <<"ENDATA">> BY <2>4, <5>2
        <5>4. \A i \in DOMAIN file : i \in Body(file) <=> i \in 1 .. position
          <6> TAKE i \in DOMAIN file
          <6>1. i \in Nat BY <2>2
          <6>2. CASE i <= position
            <7>1. \A j \in 1 .. i : j \in 1 .. position BY <2>2, <6>1, <6>2
            <7> QED BY <2>2, <5>1, <6>1, <6>2, <7>1 DEF Body, NoEnd
          <6>3. CASE ~(i <= position)
            <7>1. position + 1 \in 1 .. i BY <2>2, <6>1, <6>3
            <7>2. i \notin Body(file) BY <5>3, <7>1 DEF Body
            <7>3. i \notin 1 .. position BY <6>1, <6>3
            <7> QED BY <7>2, <7>3
          <6> QED BY <6>2, <6>3
        <5>5. 1 .. position \subseteq DOMAIN file BY <2>2
        <5>6. Body(file) \subseteq DOMAIN file BY DEF Body
        <5> QED BY <2>1, <5>4, <5>5, <5>6
      <4> QED BY <2>2, <4>3, <4>4 DEF CollectedAll, ReadSoFar
    <3> QED BY <3>1, <3>2 DEF ReadInv
  <2>7. CASE first # "ENDATA"
    <3>1. pc' = "lines" BY <1>c, <2>1, <2>7 DEF Header
    <3>2. "ENDATA" \notin saw' BY <2>1, <2>5, <2>7
    <3>3. ASSUME errors' = <<>> PROVE ReadSoFar(position)'
      <4>1. ReadSoFar(position) BY <2>1, <2>5, <3>3
      <4>2. ASSUME NEW name
            PROVE  Till(file, position + 1, name) = Till(file, position, name)
        <5>1. IsHeader(file[position + 1]) BY <2>4
        <5> QED BY <2>2, <5>1, TillStep
      <4>3. HeadersRead(saw', file, position + 1)
        <5>1. saw \subseteq saw' /\ first \in saw' \cup {"BOUNDS"} BY <2>1
        <5>2. file[position + 1][1] \in saw' \cup {"BOUNDS"} BY <2>3, <2>4, <5>1
        <5>3. HeadersRead(saw, file, position) BY <4>1 DEF ReadSoFar
        <5> QED BY <2>2, <5>1, <5>2, <5>3, HeadersMore
      <4>4. /\ RowsRead(rows, objective_row, file, position + 1)
            /\ ColumnsRead(variable_names, column_entries, file, position + 1)
            /\ RhsRead(rhs_values, file, position + 1)
            /\ BoundsRead(bound_entries, file, position + 1)
        BY <4>1, <4>2, NothingAdded DEF ReadSoFar
      <4>5. ReadMore BY <2>1, <4>3, <4>4 DEF ReadMore
      <4> QED BY <2>1, <4>5, MoreIsRead
    <3> QED BY <3>1, <3>2, <3>3 DEF ReadInv, Later
  <2> QED BY <2>6, <2>7
<1>d. CASE EndOfFile
  <2>1. pc' = "check" /\ "ENDATA" \notin saw' BY <1>d DEF EndOfFile, ReadInv
  <2> QED BY <2>1 DEF ReadInv
<1>e. CASE CheckSections \/ BuildColumns \/ BuildBounds \/ Validate
  <2>1. /\ UNCHANGED <<file, saw, variable_names, rows, objective_row, column_entries,
                       rhs_values, bound_entries>>
    BY <1>e DEF CheckSections, BuildColumns, BuildBounds, Validate, Kept, collected, members
  <2>2. pc \in Later /\ pc' \in Later \ {"check"} /\ (pc' # "done" => errors' = <<>>)
    BY <1>e DEF CheckSections, BuildColumns, BuildBounds, Validate, Go, Later
  <2>3. ASSUME errors' = <<>> PROVE errors = <<>> /\ "ENDATA" \in saw
    <3>1. CASE CheckSections BY <2>3, <3>1, CheckedSections
    <3>2. CASE BuildColumns \/ BuildBounds \/ Validate
      <4>1. pc \in {"columns", "bounds", "validate"}
        BY <3>2 DEF BuildColumns, BuildBounds, Validate
      <4> QED BY <4>1 DEF Stages, ReadInv
    <3> QED BY <1>e, <3>1, <3>2
  <2>4. CollectedAll => CollectedAll' BY <2>1 DEF CollectedAll, ReadSoFar
  <2> QED BY <2>1, <2>2, <2>3, <2>4 DEF ReadInv, Later
<1>f. CASE UNCHANGED vars
  BY <1>f DEF vars, collected, members, ReadInv, CollectedAll, ReadSoFar
<1> QED
  BY <1>a, <1>b, <1>c, <1>d, <1>e, <1>f DEF Next, Returned

-----------------------------------------------------------------------------
(***************************************************************************)
(* The bounds of the model: after the entries at some places, each side of *)
(* a variable has what the last one of them that sets it says.             *)
(***************************************************************************)
LowerKinds == {"LO", "FX", "FR", "BV"}
UpperKinds == {"UP", "FX", "FR", "BV"}
LowerBy(b) == CASE b.type \in {"LO", "FX"} -> b.value
                [] b.type = "FR" -> -Infinity
                [] OTHER -> 0
UpperBy(b) == CASE b.type \in {"UP", "FX"} -> b.value
                [] b.type = "FR" -> Infinity
                [] OTHER -> 1
LowerAt(m, bs, s, v) ==
    LET S == BoundsIn(s, bs, v, LowerKinds)
    IN  IF S = {} THEN m.lower[v] ELSE LowerBy(bs[Max(S)])
UpperAt(m, bs, s, v) ==
    LET S == BoundsIn(s, bs, v, UpperKinds)
    IN  IF S = {} THEN m.upper[v] ELSE UpperBy(bs[Max(S)])
TypeAt(m, bs, s, v) == IF BoundsIn(s, bs, v, {"BV"}) = {} THEN m.types[v] ELSE "binary"
After(m, V, bs, s) ==
    [m EXCEPT !.lower = [v \in V |-> LowerAt(m, bs, s, v)],
              !.upper = [v \in V |-> UpperAt(m, bs, s, v)],
              !.types = [v \in V |-> TypeAt(m, bs, s, v)]]

\* A model whose variables are V.
Over(V, m) ==
    /\ m = [objective |-> m.objective, lower |-> m.lower, upper |-> m.upper,
            types |-> m.types, row_lower |-> m.row_lower, row_upper |-> m.row_upper,
            matrix |-> m.matrix]
    /\ m.lower = [v \in V |-> m.lower[v]] /\ m.upper = [v \in V |-> m.upper[v]]
    /\ m.types = [v \in V |-> m.types[v]]

LEMMA LastBound ==
    ASSUME NEW n \in Nat, NEW s \in SUBSET (1 .. n), s # {}, NEW bs, NEW v, NEW K
    PROVE  LET x == Max(s)
               before == BoundsIn(s \ {x}, bs, v, K)
               S == BoundsIn(s, bs, v, K)
           IN  /\ x \in s
               /\ bs[x].variable = v /\ bs[x].type \in K => S # {} /\ Max(S) = x
               /\ ~(bs[x].variable = v /\ bs[x].type \in K) => S = before
<1> DEFINE x == Max(s)
           S == BoundsIn(s, bs, v, K)
<1>1. x \in s /\ \A y \in s : y <= x BY MaxFacts
<1> HIDE DEF x
<1>2. ASSUME bs[x].variable = v, bs[x].type \in K PROVE S # {} /\ Max(S) = x
  <2>1. x \in S BY <1>1, <1>2 DEF BoundsIn
  <2>2. S \in SUBSET (1 .. n) /\ S \subseteq s BY DEF BoundsIn
  <2> HIDE DEF S
  <2>3. Max(S) \in S /\ \A y \in S : y <= Max(S) BY <2>1, <2>2, MaxFacts
  <2>4. Max(S) \in s /\ x <= Max(S) /\ Max(S) <= x /\ x \in Nat /\ Max(S) \in Nat
    <3>1. \A y \in s : y \in Nat OBVIOUS
    <3>2. Max(S) \in s /\ x <= Max(S) BY <2>1, <2>2, <2>3
    <3> HIDE DEF S
    <3> QED BY <1>1, <3>1, <3>2
  <2> QED BY <2>1, <2>4
<1>3. ~(bs[x].variable = v /\ bs[x].type \in K) => S = BoundsIn(s \ {x}, bs, v, K)
  BY DEF BoundsIn
<1> QED BY <1>1, <1>2, <1>3 DEF x

LEMMA BoundStep ==
    ASSUME NEW V, NEW m, Over(V, m), NEW bs \in Seq(BoundEntries),
           NEW s \in SUBSET DOMAIN bs, s # {}
    PROVE  Bounded(After(m, V, bs, s \ {Max(s)}), bs[Max(s)]) = After(m, V, bs, s)
<1> DEFINE x == Max(s)
           A == After(m, V, bs, s \ {x})
           b == bs[x]
<1>1. s \in SUBSET (1 .. Len(bs)) /\ Len(bs) \in Nat OBVIOUS
<1>2. \A v, K : /\ x \in s
                /\ bs[x].variable = v /\ bs[x].type \in K =>
                      BoundsIn(s, bs, v, K) # {} /\ Max(BoundsIn(s, bs, v, K)) = x
                /\ ~(bs[x].variable = v /\ bs[x].type \in K) =>
                      BoundsIn(s, bs, v, K) = BoundsIn(s \ {x}, bs, v, K)
  BY <1>1, LastBound
<1>3. b \in BoundEntries /\ b.type \in {"LO", "UP", "FX", "BV", "FR"}
  <2>1. x \in DOMAIN bs BY <1>2
  <2>2. b \in BoundEntries
    <3> HIDE DEF x
    <3> QED BY <2>1
  <2> HIDE DEF b
  <2> QED BY <2>2 DEF BoundEntries
<1> HIDE DEF x
<1>4. /\ A.lower = [v \in V |-> LowerAt(m, bs, s \ {x}, v)]
      /\ A.upper = [v \in V |-> UpperAt(m, bs, s \ {x}, v)]
      /\ A.types = [v \in V |-> TypeAt(m, bs, s \ {x}, v)]
  BY DEF After, Over
<1>5. ASSUME NEW v
      PROVE  /\ LowerAt(m, bs, s, v) = IF b.variable = v /\ b.type \in LowerKinds
                                       THEN LowerBy(b) ELSE LowerAt(m, bs, s \ {x}, v)
             /\ UpperAt(m, bs, s, v) = IF b.variable = v /\ b.type \in UpperKinds
                                       THEN UpperBy(b) ELSE UpperAt(m, bs, s \ {x}, v)
             /\ TypeAt(m, bs, s, v) = IF b.variable = v /\ b.type = "BV"
                                      THEN "binary" ELSE TypeAt(m, bs, s \ {x}, v)
  <2>1. LowerAt(m, bs, s, v) = IF b.variable = v /\ b.type \in LowerKinds
                               THEN LowerBy(b) ELSE LowerAt(m, bs, s \ {x}, v)
    BY <1>2 DEF LowerAt
  <2>2. UpperAt(m, bs, s, v) = IF b.variable = v /\ b.type \in UpperKinds
                               THEN UpperBy(b) ELSE UpperAt(m, bs, s \ {x}, v)
    BY <1>2 DEF UpperAt
  <2>3. TypeAt(m, bs, s, v) = IF b.variable = v /\ b.type = "BV"
                              THEN "binary" ELSE TypeAt(m, bs, s \ {x}, v)
    BY <1>2 DEF TypeAt
  <2> QED BY <2>1, <2>2, <2>3
<1> HIDE DEF b
<1> DEFINE w == b.variable
<1>6. CASE w \notin V
  <2>1. A = After(m, V, bs, s)
    <3>0. \A v \in V : /\ LowerAt(m, bs, s, v) = LowerAt(m, bs, s \ {x}, v)
                       /\ UpperAt(m, bs, s, v) = UpperAt(m, bs, s \ {x}, v)
                       /\ TypeAt(m, bs, s, v) = TypeAt(m, bs, s \ {x}, v)
      BY <1>5, <1>6
    <3>1. [v \in V |-> LowerAt(m, bs, s, v)] = [v \in V |-> LowerAt(m, bs, s \ {x}, v)]
      BY <3>0
    <3>2. [v \in V |-> UpperAt(m, bs, s, v)] = [v \in V |-> UpperAt(m, bs, s \ {x}, v)]
      BY <3>0
    <3>3. [v \in V |-> TypeAt(m, bs, s, v)] = [v \in V |-> TypeAt(m, bs, s \ {x}, v)]
      BY <3>0
    <3> QED BY <3>1, <3>2, <3>3 DEF After
  <2>2. w \notin DOMAIN A.lower BY <1>4, <1>6
  <2> HIDE DEF A
  <2>3. Bounded(A, b) = A BY <2>2 DEF Bounded
  <2> QED BY <2>1, <2>3 DEF A, b, x
<1>7. CASE w \in V
  <2> DEFINE low == CASE b.type \in {"LO", "FX"} -> b.value
                      [] b.type = "FR" -> -Infinity
                      [] b.type = "BV" -> 0
                      [] OTHER -> A.lower[w]
             up == CASE b.type \in {"UP", "FX"} -> b.value
                     [] b.type = "FR" -> Infinity
                     [] b.type = "BV" -> 1
                     [] OTHER -> A.upper[w]
             type == IF b.type = "BV" THEN "binary" ELSE A.types[w]
  <2>1. low = LowerAt(m, bs, s, w) BY <1>3, <1>4, <1>5, <1>7 DEF LowerKinds, LowerBy
  <2>2. up = UpperAt(m, bs, s, w) BY <1>3, <1>4, <1>5, <1>7 DEF UpperKinds, UpperBy
  <2>3. type = TypeAt(m, bs, s, w) BY <1>4, <1>5, <1>7
  <2>4. [A.lower EXCEPT ![w] = low] = [v \in V |-> LowerAt(m, bs, s, v)]
    <3> HIDE DEF low
    <3> QED BY <1>4, <1>5, <2>1
  <2>5. [A.upper EXCEPT ![w] = up] = [v \in V |-> UpperAt(m, bs, s, v)]
    <3> HIDE DEF up
    <3> QED BY <1>4, <1>5, <2>2
  <2>6. [A.types EXCEPT ![w] = type] = [v \in V |-> TypeAt(m, bs, s, v)]
    <3> HIDE DEF type
    <3> QED BY <1>4, <1>5, <2>3
  <2>7. w \in DOMAIN A.lower BY <1>4, <1>7
  <2>8. Bounded(A, b) = [A EXCEPT !.lower = [A.lower EXCEPT ![w] = low],
                                  !.upper = [A.upper EXCEPT ![w] = up],
                                  !.types = [A.types EXCEPT ![w] = type]]
    <3> HIDE DEF A
    <3> QED BY <2>7 DEF Bounded
  <2> HIDE DEF low, up, type
  <2>9. Bounded(A, b) = After(m, V, bs, s) BY <2>4, <2>5, <2>6, <2>8 DEF After
  <2> QED BY <2>9 DEF A, b, x
<1> QED BY <1>6, <1>7

LEMMA FiniteThere == \A S : Theory!IsFiniteSet(S) <=> IsFiniteSet(S)
BY DEF IsFiniteSet, Theory!IsFiniteSet

LEMMA BoundsFolded ==
    ASSUME NEW V, NEW m, Over(V, m), NEW bs \in Seq(BoundEntries)
    PROVE  FoldLeft(Bounded, m, bs) = After(m, V, bs, DOMAIN bs)
<1> DEFINE S == DOMAIN bs
           Is(g) == g = [s \in SUBSET S |-> IF s = {} THEN m
                                            ELSE Bounded(g[s \ {Max(s)}], bs[Max(s)])]
           A == [s \in SUBSET S |-> After(m, V, bs, s)]
<1>1. After(m, V, bs, {}) = m
  <2>1. \A v, K : BoundsIn({}, bs, v, K) = {} BY DEF BoundsIn
  <2>2. \A v : /\ LowerAt(m, bs, {}, v) = m.lower[v] /\ UpperAt(m, bs, {}, v) = m.upper[v]
               /\ TypeAt(m, bs, {}, v) = m.types[v]
    BY <2>1 DEF LowerAt, UpperAt, TypeAt
  <2>3. /\ [v \in V |-> LowerAt(m, bs, {}, v)] = m.lower
        /\ [v \in V |-> UpperAt(m, bs, {}, v)] = m.upper
        /\ [v \in V |-> TypeAt(m, bs, {}, v)] = m.types
    BY <2>2, Zenon DEF Over
  <2>4. [m EXCEPT !.lower = m.lower, !.upper = m.upper, !.types = m.types] = m
    BY DEF Over
  <2> HIDE DEF A, Is
  <2> QED BY <2>3, <2>4, Zenon DEF After
<1>2. \A s \in SUBSET S : s # {} => Max(s) \in s
  <2>1. S = 1 .. Len(bs) /\ Len(bs) \in Nat OBVIOUS
  <2> QED BY <2>1, MaxFacts
<1>3. Is(A)
  <2>1. ASSUME NEW s \in SUBSET S
        PROVE  A[s] = IF s = {} THEN m ELSE Bounded(A[s \ {Max(s)}], bs[Max(s)])
    <3>1. CASE s = {} BY <1>1, <3>1
    <3>2. CASE s # {}
      <4>1. A[s \ {Max(s)}] = After(m, V, bs, s \ {Max(s)}) OBVIOUS
      <4> QED BY <3>2, <4>1, BoundStep
    <3> QED BY <3>1, <3>2
  <2> QED BY <2>1
<1>4. ASSUME NEW g, Is(g) PROVE g = A
  <2> DEFINE Good == {s \in SUBSET S : g[s] = A[s]}
  <2>1. IsFiniteSet(S)
    <3>1. S = 1 .. Len(bs) /\ Len(bs) \in Nat OBVIOUS
    <3> QED BY <3>1, FS_Interval
  <2>2. ASSUME NEW U \in SUBSET S, \A W \in SUBSET U : W # U => W \in Good
        PROVE  U \in Good
    <3>1. CASE U = {} BY <1>3, <1>4, <3>1
    <3>2. CASE U # {}
      <4>1. U \ {Max(U)} \in Good BY <1>2, <2>2, <3>2
      <4>2. g[U \ {Max(U)}] = A[U \ {Max(U)}] BY <4>1
      <4>3. g[U] = Bounded(g[U \ {Max(U)}], bs[Max(U)]) BY <1>4, <3>2
      <4>4. A[U] = Bounded(A[U \ {Max(U)}], bs[Max(U)]) BY <1>3, <3>2
      <4> HIDE DEF A
      <4> QED BY <4>2, <4>3, <4>4
    <3> QED BY <3>1, <3>2
  <2>3. \A U \in SUBSET S : U \in Good
    <3> HIDE DEF Good, S, A, Is
    <3> QED BY <2>1, <2>2, FiniteThere, Theory!SetInduction
  <2>4. g = [s \in SUBSET S |-> g[s]] BY <1>4
  <2> QED BY <2>3, <2>4
<1>5. FoldLeft(Bounded, m, bs) = (CHOOSE g : Is(g))[S]
  BY DEF FoldLeft, MapThenFoldSet
<1>6. (CHOOSE g : Is(g)) = A
  <2> HIDE DEF Is, A
  <2> QED BY <1>3, <1>4
<1> QED BY <1>5, <1>6

-----------------------------------------------------------------------------
(***************************************************************************)
(* The stages of the model's construction.                                 *)
(***************************************************************************)
Costs ==
    [v \in Variables |->
         LastValue(column_entries,
                   {i \in DOMAIN column_entries :
                       /\ column_entries[i].variable = v
                       /\ column_entries[i].row = objective_row}, 0)]
RowLower == [i \in DOMAIN rows |-> IF rows[i].type = "L" THEN -Infinity ELSE Rhs(rows[i])]
RowUpper == [i \in DOMAIN rows |-> IF rows[i].type = "G" THEN Infinity ELSE Rhs(rows[i])]
Columned ==
    [objective |-> Costs,
     lower |-> [v \in Variables |-> 0],
     upper |-> [v \in Variables |-> Infinity],
     types |-> [v \in Variables |-> "continuous"],
     row_lower |-> [i \in DOMAIN rows |-> -Infinity],
     row_upper |-> [i \in DOMAIN rows |-> Infinity],
     matrix |-> EmptyFunction]
Rowed ==
    [Columned EXCEPT !.row_lower = RowLower, !.row_upper = RowUpper]
Built == FoldLeft(Bounded, Rowed, bound_entries)

ModelInv ==
    /\ pc = "bounds" => model = Columned
    /\ pc = "validate" => model = Built
    /\ pc = "done" /\ errors = <<>> => model = [Built EXCEPT !.matrix = MatrixEntries]

LEMMA ModelNext == MpsTypeOK /\ Stages /\ ModelInv /\ [Next]_vars => ModelInv'
<1> SUFFICES ASSUME MpsTypeOK, Stages, ModelInv, [Next]_vars PROVE ModelInv' OBVIOUS
<1>a. CASE Open
  <2>1. <<0>> # <<>> OBVIOUS
  <2> QED BY <1>a, <2>1 DEF Open, ModelInv
<1>b. CASE NextLine /\ pc' \in {"lines", "check"}
  BY <1>b DEF NextLine, ModelInv
<1>c. CASE EndOfFile BY <1>c DEF EndOfFile, ModelInv
<1>d. CASE CheckSections
  <2>1. pc' = "columns" \/ (pc' = "done" /\ errors' # <<>>)
    BY <1>d DEF CheckSections, Go
  <2> QED BY <2>1 DEF ModelInv
<1>e. CASE BuildColumns
  <2>1. pc' = "bounds" \/ (pc' = "done" /\ errors' # <<>>)
    BY <1>e DEF BuildColumns, Go
  <2>2. UNCHANGED <<variable_names, rows, objective_row, column_entries>>
    BY <1>e DEF BuildColumns, Kept, collected, members
  <2>3. Columned' = Columned BY <2>2 DEF Columned, Costs, Variables
  <2>4. model' = Columned BY <1>e DEF BuildColumns, Columned, Costs
  <2> QED BY <2>1, <2>3, <2>4 DEF ModelInv
<1>f. CASE BuildBounds
  <2>1. pc' = "validate" \/ (pc' = "done" /\ errors' # <<>>)
    BY <1>f DEF BuildBounds, Go
  <2>2. /\ UNCHANGED <<variable_names, rows, objective_row, column_entries>>
        /\ UNCHANGED <<rhs_values, bound_entries>>
    BY <1>f DEF BuildBounds, Kept, collected, members
  <2>3. Columned' = Columned BY <2>2 DEF Columned, Costs, Variables
  <2>4. Rowed' = Rowed
    <3>1. \A row : Rhs(row)' = Rhs(row) BY <2>2 DEF Rhs
    <3> QED BY <2>2, <2>3, <3>1 DEF Rowed, Rhs, RowLower, RowUpper
  <2>5. Built' = Built BY <2>2, <2>4 DEF Built
  <2>6. model' = Built
    <3>1. model = Columned BY <1>f DEF BuildBounds, ModelInv
    <3> QED BY <1>f, <3>1 DEF BuildBounds, Built, Rowed, RowLower, RowUpper
  <2> QED BY <2>1, <2>5, <2>6 DEF ModelInv
<1>g. CASE Validate
  <2>1. pc' = "done" /\ model = Built /\ model' = [model EXCEPT !.matrix = MatrixEntries]
    BY <1>g DEF Validate, ModelInv
  <2>2. /\ UNCHANGED <<variable_names, rows, objective_row, column_entries>>
        /\ UNCHANGED <<rhs_values, bound_entries>>
    BY <1>g DEF Validate, Kept, collected, members
  <2>3. Columned' = Columned BY <2>2 DEF Columned, Costs, Variables
  <2>4. Rowed' = Rowed BY <2>2, <2>3 DEF Rowed, Rhs, RowLower, RowUpper
  <2>5. Built' = Built BY <2>2, <2>4 DEF Built
  <2>6. MatrixEntries' = MatrixEntries BY <2>2 DEF MatrixEntries, InRow, RowIndex, SelectLastInSeq
  <2> QED BY <2>1, <2>5, <2>6 DEF ModelInv
<1>h. CASE UNCHANGED vars
  <2>1. /\ UNCHANGED <<variable_names, rows, objective_row, column_entries>>
        /\ UNCHANGED <<rhs_values, bound_entries, pc, errors, model>>
    BY <1>h DEF vars, collected, members
  <2>3. Columned' = Columned BY <2>1 DEF Columned, Costs, Variables
  <2>4. Rowed' = Rowed BY <2>1, <2>3 DEF Rowed, Rhs, RowLower, RowUpper
  <2>5. Built' = Built BY <2>1, <2>4 DEF Built
  <2>6. MatrixEntries' = MatrixEntries BY <2>1 DEF MatrixEntries, InRow, RowIndex, SelectLastInSeq
  <2> QED BY <2>1, <2>3, <2>5, <2>6 DEF ModelInv
<1> QED
  BY <1>a, <1>b, <1>c, <1>d, <1>e, <1>f, <1>g, <1>h
  DEF Next, Returned, SkipLine, Header, RowCard, ColumnCard, RhsCard, BoundCard, Card,
      NextLine

LEMMA RowedFields ==
    Rowed = [objective |-> Costs, lower |-> [v \in Variables |-> 0],
             upper |-> [v \in Variables |-> Infinity],
             types |-> [v \in Variables |-> "continuous"],
             row_lower |-> RowLower, row_upper |-> RowUpper, matrix |-> EmptyFunction]
<1> DEFINE low == [v \in Variables |-> 0]
           up == [v \in Variables |-> Infinity]
           types == [v \in Variables |-> "continuous"]
           from == [i \in DOMAIN rows |-> -Infinity]
           to == [i \in DOMAIN rows |-> Infinity]
<1>1. Columned = [objective |-> Costs, lower |-> low, upper |-> up, types |-> types,
                  row_lower |-> from, row_upper |-> to, matrix |-> EmptyFunction]
  BY Zenon DEF Columned
<1> HIDE DEF low, up, types, from, to
<1>2. Rowed = [objective |-> Costs, lower |-> low, upper |-> up, types |-> types,
               row_lower |-> RowLower, row_upper |-> RowUpper, matrix |-> EmptyFunction]
  <2> DEFINE C == [objective |-> Costs, lower |-> low, upper |-> up, types |-> types,
                   row_lower |-> from, row_upper |-> to, matrix |-> EmptyFunction]
  <2>1. Rowed = [C EXCEPT !.row_lower = RowLower, !.row_upper = RowUpper]
    BY <1>1, Zenon DEF Rowed
  <2> QED BY <2>1
<1> QED BY <1>2 DEF low, up, types

LEMMA RowedIsOver == Over(Variables, Rowed)
BY RowedFields DEF Over

\* What was built, field by field.
LEMMA BuiltFields ==
    ASSUME MpsTypeOK
    PROVE  Built = [objective |-> Costs,
                    lower |-> [v \in Variables |->
                      LowerAt(Rowed, bound_entries, DOMAIN bound_entries, v)],
                    upper |-> [v \in Variables |->
                      UpperAt(Rowed, bound_entries, DOMAIN bound_entries, v)],
                    types |-> [v \in Variables |->
                      TypeAt(Rowed, bound_entries, DOMAIN bound_entries, v)],
                    row_lower |-> RowLower, row_upper |-> RowUpper, matrix |-> EmptyFunction]
<1>1. bound_entries \in Seq(BoundEntries) BY DEF MpsTypeOK
<1>2. Built = After(Rowed, Variables, bound_entries, DOMAIN bound_entries)
  BY <1>1, RowedIsOver, BoundsFolded DEF Built
<1> DEFINE low == [v \in Variables |->
                     LowerAt(Rowed, bound_entries, DOMAIN bound_entries, v)]
           up == [v \in Variables |->
                    UpperAt(Rowed, bound_entries, DOMAIN bound_entries, v)]
           types == [v \in Variables |->
                       TypeAt(Rowed, bound_entries, DOMAIN bound_entries, v)]
<1>3. Built = [Rowed EXCEPT !.lower = low, !.upper = up, !.types = types]
  BY <1>2 DEF After
<1> HIDE DEF low, up, types
<1>4. Built = [objective |-> Costs, lower |-> low, upper |-> up, types |-> types,
               row_lower |-> RowLower, row_upper |-> RowUpper, matrix |-> EmptyFunction]
  BY <1>3, RowedFields
<1> QED BY <1>4 DEF low, up, types

-----------------------------------------------------------------------------
(***************************************************************************)
(* What has been collected, against the meaning of the file.               *)
(***************************************************************************)
LEMMA RowIndexFacts ==
    ASSUME MpsTypeOK, NEW r
    PROVE  LET I == {k \in DOMAIN rows : rows[k].name = r}
           IN  (RowIndex(r) = 0 <=> I = {}) /\ (I # {} => RowIndex(r) \in I)
<1> DEFINE I == {k \in DOMAIN rows : rows[k].name = r}
<1>1. DOMAIN rows = 1 .. Len(rows) /\ Len(rows) \in Nat BY DEF MpsTypeOK
<1>2. RowIndex(r) = IF I # {} THEN Max(I) ELSE 0
  <2>1. I = {k \in 1 .. Len(rows) : rows[k].name = r} BY <1>1
  <2> QED BY <2>1, Zenon DEF RowIndex, SelectLastInSeq
<1>3. I \in SUBSET (1 .. Len(rows)) BY <1>1
<1> HIDE DEF I
<1>4. I # {} => Max(I) \in I BY <1>1, <1>3, MaxFacts
<1>5. 0 \notin I BY <1>1, <1>3
<1> QED BY <1>2, <1>4, <1>5 DEF I

LEMMA OneRowEach ==
    ASSUME NEW f, IsFiniteSet(RowCards(f)),
           Cardinality(RowNames(f)) = Cardinality(RowCards(f)),
           NEW i \in RowCards(f), NEW j \in RowCards(f), f[i][2] = f[j][2]
    PROVE  i = j
<1> DEFINE S == RowCards(f)
           T == RowNames(f)
           h == [k \in S |-> f[k][2]]
<1>1. h \in Surjection(S, T) BY DEF Surjection, RowNames
<1> HIDE DEF S, T, h
<1>2. h \in Injection(S, T) BY <1>1, FS_Surjection DEF S, T
<1>3. h[i] = h[j] /\ i \in S /\ j \in S BY DEF h, S
<1> QED BY <1>2, <1>3 DEF Injection, IsInjective

LEMMA AtMostOne ==
    ASSUME NEW S, IsFiniteSet(S), Cardinality(S) <= 1, NEW x \in S, NEW y \in S
    PROVE  x = y
<1>1. Cardinality(S) \in Nat /\ (Cardinality(S) = 0 <=> S = {})
  BY FS_CardinalityType, FS_EmptySet
<1>2. Cardinality(S) = 1 BY <1>1
<1>3. PICK z : S = {z} BY <1>2, FS_Singleton
<1> QED BY <1>3

\* No card mentions the word that is not there.
LEMMA NoMention ==
    ASSUME NEW f \in Files \cup {<<>>}, NEW C \in SUBSET DOMAIN f
    PROVE  Mentions(f, C, NoWord) = {}
<1> SUFFICES ASSUME NEW i \in C, NEW k \in {2, 4}, IsNumber(f[i], k + 1),
                    Word(f[i], k) = NoWord
             PROVE  FALSE
  BY DEF Mentions
<1>0. f \in Files
  <2>1. DOMAIN <<>> = {} OBVIOUS
  <2> QED BY <2>1
<1>1. f \in Seq(Seq(STRING)) /\ f[i] \in Seq(STRING) BY <1>0, FilesAssumption
<1>2. k + 1 \in DOMAIN f[i] /\ k \in DOMAIN f[i]
  <2>1. k + 1 \in Nat \ {0} OBVIOUS
  <2>2. k + 1 \in DOMAIN f[i] BY <1>1, <2>1, WordFacts
  <2> QED BY <1>1, <2>2
<1>3. f[i] # <<NoWord>>
  <2>1. DOMAIN <<NoWord>> = 1 .. 1 OBVIOUS
  <2>2. k + 1 \notin 1 .. 1 OBVIOUS
  <2> QED BY <1>2, <2>1, <2>2
<1>4. f[i][k] # NoWord BY <1>0, <1>2, <1>3, FilesAssumption
<1>5. Word(f[i], k) = f[i][k] BY <1>1, <1>2 DEF Word
<1> QED BY <1>4, <1>5

\* The file read, its cards and its names.
Read(n) == MpsTypeOK /\ n \in Nat /\ Body(file) = 1 .. n /\ ReadSoFar(n)

LEMMA ReadFacts ==
    ASSUME NEW n, Read(n)
    PROVE  /\ \A name : Cards(file, name) = Till(file, n, name)
           /\ \A name : Cards(file, name) \in SUBSET (1 .. n) /\ IsFiniteSet(Cards(file, name))
           /\ 1 .. n \subseteq DOMAIN file
           /\ VariablesOf(file) = Variables
           /\ \A r, v : Coefficient(file, r, v) = Mentions(file, ColumnsOf(file, n, v), r)
           /\ \A v : EntriesOf(column_entries, NoWord, v) = {}
<1>1. n \in Nat /\ Body(file) = 1 .. n /\ ReadSoFar(n) /\ file \in Files \cup {<<>>}
  BY DEF Read, MpsTypeOK
<1>2. \A name : Cards(file, name) = Till(file, n, name) BY <1>1, BodyTill
<1>3. \A name : Cards(file, name) \in SUBSET (1 .. n) BY <1>2 DEF Till
<1>4. \A name : IsFiniteSet(Cards(file, name))
  <2>1. IsFiniteSet(1 .. n) BY <1>1, FS_Interval
  <2> QED BY <1>3, <2>1, FS_Subset
<1>5. ColumnsRead(variable_names, column_entries, file, n) BY <1>1 DEF ReadSoFar
<1>6. VariablesOf(file) = Variables
  BY <1>2, <1>5 DEF ColumnsRead, VariablesOf, Variables
<1>7. \A r, v : Coefficient(file, r, v) = Mentions(file, ColumnsOf(file, n, v), r)
  BY <1>2 DEF Coefficient, ColumnsOf
<1>8. 1 .. n \subseteq DOMAIN file BY <1>1 DEF Body
<1>9. ASSUME NEW v PROVE EntriesOf(column_entries, NoWord, v) = {}
  <2>1. ColumnsOf(file, n, v) \in SUBSET DOMAIN file BY <1>8 DEF ColumnsOf, Till
  <2>2. Mentions(file, ColumnsOf(file, n, v), NoWord) = {} BY <1>1, <2>1, NoMention
  <2> QED BY <1>5, <2>2 DEF ColumnsRead, Agree
<1> QED BY <1>2, <1>3, <1>4, <1>6, <1>7, <1>8, <1>9

LEMMA RowFacts ==
    ASSUME NEW n, Read(n)
    PROVE  /\ \A r : RowIndex(r) # 0 <=> r \in RowNames(file)
           /\ \A r \in RowNames(file) :
                 RowIndex(r) \in DOMAIN rows /\ rows[RowIndex(r)].name = r
           /\ \A k \in DOMAIN rows : rows[k].name \in RowNames(file)
           /\ DistinctRows(file) => \A r \in RowNames(file) :
                 rows[RowIndex(r)].type = RowType(file, r)
<1>1. \A name : Cards(file, name) = Till(file, n, name) /\ IsFiniteSet(Cards(file, name))
  BY ReadFacts
<1>2. RowsRead(rows, objective_row, file, n) BY DEF Read, ReadSoFar
<1>3. \A k \in DOMAIN rows : \E i \in RowCards(file) :
         rows[k].name = file[i][2] /\ rows[k].type = file[i][1]
  BY <1>1, <1>2 DEF RowsRead, RowCards
<1>4. \A i \in RowCards(file) : \E k \in DOMAIN rows : rows[k].name = file[i][2]
  BY <1>1, <1>2 DEF RowsRead, RowCards
<1>5. \A r : (\E k \in DOMAIN rows : rows[k].name = r) <=> r \in RowNames(file)
  BY <1>3, <1>4 DEF RowNames
<1>6. ASSUME NEW r
      PROVE  /\ RowIndex(r) # 0 <=> r \in RowNames(file)
             /\ r \in RowNames(file) =>
                   RowIndex(r) \in DOMAIN rows /\ rows[RowIndex(r)].name = r
  <2> DEFINE I == {k \in DOMAIN rows : rows[k].name = r}
  <2>1. (RowIndex(r) = 0 <=> I = {}) /\ (I # {} => RowIndex(r) \in I)
    BY RowIndexFacts DEF Read
  <2>2. I # {} <=> r \in RowNames(file) BY <1>5
  <2> QED BY <2>1, <2>2
<1>7. ASSUME DistinctRows(file), NEW r \in RowNames(file)
      PROVE  rows[RowIndex(r)].type = RowType(file, r)
  <2>1. IsFiniteSet(RowCards(file))
    <3>1. RowCards(file) \subseteq Cards(file, "ROWS") BY DEF RowCards
    <3> QED BY <1>1, <3>1, FS_Subset
  <2>2. PICK i \in RowCards(file) :
           rows[RowIndex(r)].name = file[i][2] /\ rows[RowIndex(r)].type = file[i][1]
    BY <1>3, <1>6
  <2>3. file[i][2] = r BY <1>6, <2>2
  <2>4. \A j \in RowCards(file) : file[j][2] = r => j = i
    BY <1>7, <2>1, <2>3, OneRowEach DEF DistinctRows
  <2>5. (CHOOSE j \in RowCards(file) : file[j][2] = r) = i BY <2>3, <2>4
  <2> QED BY <2>2, <2>5 DEF RowType
<1> QED BY <1>3, <1>5, <1>6, <1>7

\* The objective of the file is the objective row, if it has one.
LEMMA ObjectiveFacts ==
    ASSUME NEW n, Read(n), DistinctRows(file)
    PROVE  \/ ObjectiveNames(file) = {} /\ objective_row = NoWord
           \/ ObjectiveNames(file) = {objective_row} /\ objective_row \notin RowNames(file)
<1> DEFINE N == Cards(file, "ROWS") \ RowCards(file)
<1>1. Cards(file, "ROWS") = Till(file, n, "ROWS") /\ IsFiniteSet(Cards(file, "ROWS"))
  BY ReadFacts
<1>2. RowsRead(rows, objective_row, file, n) BY DEF Read, ReadSoFar
<1>3. N = {i \in Till(file, n, "ROWS") : file[i][1] = "N"} BY <1>1 DEF RowCards
<1>4. ObjectiveNames(file) = {file[i][2] : i \in N} BY DEF ObjectiveNames
<1>5. CASE objective_row = NoWord /\ \A i \in Till(file, n, "ROWS") : file[i][1] # "N"
  BY <1>3, <1>4, <1>5
<1>6. CASE \E i \in Till(file, n, "ROWS") : file[i][1] = "N" /\ file[i][2] = objective_row
  <2>1. PICK i \in N : file[i][2] = objective_row BY <1>3, <1>6
  <2>2. IsFiniteSet(N) /\ Cardinality(N) <= 1 BY <1>1, FS_Subset DEF DistinctRows
  <2> HIDE DEF N
  <2>3. \A j \in N : j = i BY <2>2, AtMostOne
  <2>4. ObjectiveNames(file) = {objective_row} BY <1>4, <2>1, <2>3
  <2>5. objective_row \notin RowNames(file) BY <2>4 DEF DistinctRows
  <2> QED BY <2>4, <2>5
<1> QED BY <1>2, <1>5, <1>6 DEF RowsRead

LEMMA SidesRead ==
    ASSUME NEW n, Read(n), NEW v \in Variables
    PROVE  /\ LowerAt(Rowed, bound_entries, DOMAIN bound_entries, v) = LowerOf(file, v)
           /\ UpperAt(Rowed, bound_entries, DOMAIN bound_entries, v) = UpperOf(file, v)
           /\ TypeAt(Rowed, bound_entries, DOMAIN bound_entries, v)
                = IF \E i \in Cards(file, "BOUNDS") : file[i][1] = "BV" /\ file[i][3] = v
                  THEN "binary" ELSE "continuous"
<1> DEFINE S(K) == BoundsIn(DOMAIN bound_entries, bound_entries, v, K)
           C(K) == BoundCardsOf(file, n, v, K)
<1>1. \A K : /\ S(K) = {} <=> C(K) = {}
             /\ S(K) # {} => SameBound(bound_entries[Max(S(K))], file[Max(C(K))])
  BY DEF Read, ReadSoFar, BoundsRead
<1>2. /\ Rowed.lower[v] = 0 /\ Rowed.upper[v] = Infinity /\ Rowed.types[v] = "continuous"
  BY RowedFields
<1>3. \A K : C(K) = {i \in Cards(file, "BOUNDS") : file[i][3] = v /\ file[i][1] \in K}
  BY ReadFacts DEF BoundCardsOf
<1>4. \A K : C(K) # {} => file[Max(C(K))][1] \in K
  <2> SUFFICES ASSUME NEW K, C(K) # {} PROVE file[Max(C(K))][1] \in K OBVIOUS
  <2>1. C(K) \in SUBSET (1 .. n) /\ n \in Nat BY DEF BoundCardsOf, Till, Read
  <2>2. Max(C(K)) \in C(K)
    <3> HIDE DEF C
    <3> QED BY <2>1, MaxFacts
  <2> HIDE DEF S
  <2> QED BY <2>2 DEF BoundCardsOf
<1> HIDE DEF S, C
<1>5. LowerAt(Rowed, bound_entries, DOMAIN bound_entries, v) = LowerOf(file, v)
  <2> DEFINE D == C(LowerKinds)
             b == bound_entries[Max(S(LowerKinds))]
             card == file[Max(D)]
             values == [LO |-> 0, FX |-> 0, FR |-> -Infinity, BV |-> 0]
  <2>1. D = {i \in Cards(file, "BOUNDS") : file[i][3] = v /\ file[i][1] \in DOMAIN values}
    <3>1. DOMAIN values = LowerKinds BY DEF LowerKinds
    <3> QED BY <1>3, <3>1
  <2>2. LowerOf(file, v) = IF D = {} THEN 0
                           ELSE IF card[1] \in {"LO", "UP", "FX"} THEN Numeric[card[4]]
                           ELSE values[card[1]]
    BY <2>1 DEF LowerOf, BoundOf
  <2>3. D # {} => card[1] \in LowerKinds /\ SameBound(b, card) BY <1>1, <1>4
  <2>4. LowerAt(Rowed, bound_entries, DOMAIN bound_entries, v)
          = IF D = {} THEN 0 ELSE LowerBy(b)
    BY <1>1, <1>2 DEF LowerAt, S
  <2> HIDE DEF D, b, card
  <2>5. D # {} => LowerBy(b) = IF card[1] \in {"LO", "UP", "FX"} THEN Numeric[card[4]]
                               ELSE values[card[1]]
    BY <2>3 DEF LowerBy, SameBound, LowerKinds
  <2> QED BY <2>2, <2>4, <2>5
<1>6. UpperAt(Rowed, bound_entries, DOMAIN bound_entries, v) = UpperOf(file, v)
  <2> DEFINE D == C(UpperKinds)
             b == bound_entries[Max(S(UpperKinds))]
             card == file[Max(D)]
             values == [UP |-> 0, FX |-> 0, FR |-> Infinity, BV |-> 1]
  <2>1. D = {i \in Cards(file, "BOUNDS") : file[i][3] = v /\ file[i][1] \in DOMAIN values}
    <3>1. DOMAIN values = UpperKinds BY DEF UpperKinds
    <3> QED BY <1>3, <3>1
  <2>2. UpperOf(file, v) = IF D = {} THEN Infinity
                           ELSE IF card[1] \in {"LO", "UP", "FX"} THEN Numeric[card[4]]
                           ELSE values[card[1]]
    BY <2>1 DEF UpperOf, BoundOf
  <2>3. D # {} => card[1] \in UpperKinds /\ SameBound(b, card) BY <1>1, <1>4
  <2>4. UpperAt(Rowed, bound_entries, DOMAIN bound_entries, v)
          = IF D = {} THEN Infinity ELSE UpperBy(b)
    BY <1>1, <1>2 DEF UpperAt, S
  <2> HIDE DEF D, b, card
  <2>5. D # {} => UpperBy(b) = IF card[1] \in {"LO", "UP", "FX"} THEN Numeric[card[4]]
                               ELSE values[card[1]]
    BY <2>3 DEF UpperBy, SameBound, UpperKinds
  <2> QED BY <2>2, <2>4, <2>5
<1>7. TypeAt(Rowed, bound_entries, DOMAIN bound_entries, v)
        = IF \E i \in Cards(file, "BOUNDS") : file[i][1] = "BV" /\ file[i][3] = v
          THEN "binary" ELSE "continuous"
  <2>1. C({"BV"}) = {} <=> ~(\E i \in Cards(file, "BOUNDS") : file[i][1] = "BV" /\ file[i][3] = v)
    BY <1>3
  <2> QED BY <1>1, <1>2, <2>1 DEF TypeAt, S
<1> QED BY <1>5, <1>6, <1>7

LEMMA CostsRead ==
    ASSUME NEW n, Read(n), DistinctRows(file)
    PROVE  Costs = [v \in Variables |->
                      Latest(file, UNION {Coefficient(file, r, v) : r \in ObjectiveNames(file)})]
<1> SUFFICES ASSUME NEW v \in Variables
             PROVE  LastValue(column_entries, EntriesOf(column_entries, objective_row, v), 0)
                      = Latest(file, UNION {Coefficient(file, r, v) : r \in ObjectiveNames(file)})
  BY DEF Costs, EntriesOf
<1>1. \A r : Agree(column_entries, r, v, file, Coefficient(file, r, v))
  BY ReadFacts DEF Read, ReadSoFar, ColumnsRead
<1>2. CASE ObjectiveNames(file) = {} /\ objective_row = NoWord
  <2>1. UNION {Coefficient(file, r, v) : r \in ObjectiveNames(file)} = {} BY <1>2
  <2>2. EntriesOf(column_entries, objective_row, v) = {} BY <1>2, ReadFacts
  <2> QED BY <2>1, <2>2 DEF LastValue, Latest
<1>3. CASE ObjectiveNames(file) = {objective_row}
  <2>1. UNION {Coefficient(file, r, v) : r \in ObjectiveNames(file)}
          = Coefficient(file, objective_row, v)
    BY <1>3
  <2> QED BY <1>1, <2>1 DEF Agree
<1> QED BY <1>2, <1>3, ObjectiveFacts

LEMMA RowSidesRead ==
    ASSUME NEW n, Read(n), DistinctRows(file)
    PROVE  /\ ByName(file, RowLower) = [r \in RowNames(file) |->
                IF RowType(file, r) = "L" THEN -Infinity ELSE RhsOf(file, r)]
           /\ ByName(file, RowUpper) = [r \in RowNames(file) |->
                IF RowType(file, r) = "G" THEN Infinity ELSE RhsOf(file, r)]
<1>1. ASSUME NEW r \in RowNames(file)
      PROVE  /\ RowLower[RowIndex(r)] = IF RowType(file, r) = "L" THEN -Infinity
                                        ELSE RhsOf(file, r)
             /\ RowUpper[RowIndex(r)] = IF RowType(file, r) = "G" THEN Infinity
                                        ELSE RhsOf(file, r)
  <2> DEFINE row == rows[RowIndex(r)]
             M == Mentions(file, Cards(file, "RHS"), r)
  <2>1. RowIndex(r) \in DOMAIN rows /\ row.name = r /\ row.type = RowType(file, r)
    BY RowFacts
  <2>2. (r \in DOMAIN rhs_values <=> M # {}) /\ (M # {} => rhs_values[r] = Latest(file, M))
    BY ReadFacts DEF Read, ReadSoFar, RhsRead
  <2>3. Rhs(row) = RhsOf(file, r)
    <3> HIDE DEF row
    <3> QED BY <2>1, <2>2 DEF Rhs, RhsOf, Latest
  <2> QED BY <2>1, <2>3 DEF RowLower, RowUpper
<1>2. ByName(file, RowLower) = [r \in RowNames(file) |->
                IF RowType(file, r) = "L" THEN -Infinity ELSE RhsOf(file, r)]
  BY <1>1 DEF ByName
<1>3. ByName(file, RowUpper) = [r \in RowNames(file) |->
                IF RowType(file, r) = "G" THEN Infinity ELSE RhsOf(file, r)]
  BY <1>1 DEF ByName
<1> QED BY <1>2, <1>3

MatrixByName ==
    [at \in {<<rows[p[1]].name, p[2]>> : p \in DOMAIN MatrixEntries} |->
        MatrixEntries[<<RowIndex(at[1]), at[2]>>]]

LEMMA MatrixRead ==
    ASSUME NEW n, Read(n), DistinctRows(file)
    PROVE  MatrixByName
             = [at \in {p \in RowNames(file) \X VariablesOf(file) :
                           Coefficient(file, p[1], p[2]) # {}} |->
                   Latest(file, Coefficient(file, at[1], at[2]))]
<1> DEFINE es == column_entries
           inRows == {i \in DOMAIN es : InRow(es[i])}
           place(i) == <<RowIndex(es[i].row), es[i].variable>>
           D == {<<rows[p[1]].name, p[2]>> : p \in DOMAIN MatrixEntries}
           E == {p \in RowNames(file) \X VariablesOf(file) :
                    Coefficient(file, p[1], p[2]) # {}}
<1>1. \A r, v : Agree(es, r, v, file, Coefficient(file, r, v))
  BY ReadFacts DEF Read, ReadSoFar, ColumnsRead
<1>2. \A i \in inRows : es[i].row \in RowNames(file) BY RowFacts DEF InRow
<1>3. \A i \in DOMAIN es : es[i].row \in RowNames(file) => i \in inRows
  <2> SUFFICES ASSUME NEW i \in DOMAIN es, es[i].row \in RowNames(file)
               PROVE  es[i].row # objective_row
    BY RowFacts DEF InRow
  <2>1. es[i].row # NoWord BY ReadFacts DEF EntriesOf
  <2> QED BY <2>1, ObjectiveFacts
<1>4. \A r \in RowNames(file) : RowIndex(r) \in DOMAIN rows /\ rows[RowIndex(r)].name = r
  BY RowFacts
<1>5. MatrixEntries = [at \in {place(i) : i \in inRows} |->
                          LastValue(es, {i \in inRows : place(i) = at}, 0)]
  BY Zenon DEF MatrixEntries
<1>6. \A r \in RowNames(file) : \A v :
         {i \in inRows : place(i) = <<RowIndex(r), v>>} = EntriesOf(es, r, v)
  <2> TAKE r \in RowNames(file)
  <2> TAKE v
  <2>1. \A i \in inRows : place(i) = <<RowIndex(r), v>> <=> es[i].row = r /\ es[i].variable = v
    <3> TAKE i \in inRows
    <3>1. RowIndex(es[i].row) = RowIndex(r) => es[i].row = r BY <1>2, <1>4
    <3> QED BY <3>1
  <2>2. \A i \in EntriesOf(es, r, v) : i \in inRows BY <1>3 DEF EntriesOf
  <2>3. inRows \subseteq DOMAIN es OBVIOUS
  <2> HIDE DEF inRows, place
  <2> QED BY <2>1, <2>2, <2>3 DEF EntriesOf
<1>7. \A i \in inRows : es[i].variable \in VariablesOf(file)
  <2> TAKE i \in inRows
  <2>1. i \in EntriesOf(es, es[i].row, es[i].variable) BY DEF EntriesOf
  <2>2. Coefficient(file, es[i].row, es[i].variable) # {} BY <1>1, <2>1 DEF Agree
  <2> QED BY <2>2 DEF Coefficient, Mentions, VariablesOf
<1>8. D = {<<es[i].row, es[i].variable>> : i \in inRows}
  <2>1. DOMAIN MatrixEntries = {place(i) : i \in inRows} BY <1>5
  <2>2. \A i \in inRows : /\ rows[place(i)[1]].name = es[i].row
                          /\ place(i)[2] = es[i].variable
    BY <1>2, <1>4
  <2> HIDE DEF inRows, place
  <2> QED BY <2>1, <2>2
<1>9. D = E
  <2>1. ASSUME NEW i \in inRows PROVE <<es[i].row, es[i].variable>> \in E
    <3>1. i \in EntriesOf(es, es[i].row, es[i].variable) BY DEF EntriesOf
    <3>2. Coefficient(file, es[i].row, es[i].variable) # {} BY <1>1, <3>1 DEF Agree
    <3> QED BY <1>2, <1>7, <3>2
  <2>2. ASSUME NEW r \in RowNames(file), NEW v, Coefficient(file, r, v) # {}
        PROVE  \E i \in inRows : es[i].row = r /\ es[i].variable = v
    <3>1. EntriesOf(es, r, v) # {} BY <1>1, <2>2 DEF Agree
    <3> QED BY <1>3, <3>1 DEF EntriesOf
  <2>3. \A p \in E : \E r \in RowNames(file), v \in VariablesOf(file) :
           p = <<r, v>> /\ Coefficient(file, r, v) # {}
    OBVIOUS
  <2> HIDE DEF D, E, inRows
  <2> QED BY <1>8, <2>1, <2>2, <2>3
<1>10. ASSUME NEW at \in E
       PROVE  MatrixEntries[<<RowIndex(at[1]), at[2]>>] = Latest(file, Coefficient(file, at[1], at[2]))
  <2> DEFINE r == at[1]
             v == at[2]
  <2>1. r \in RowNames(file) /\ Coefficient(file, r, v) # {} OBVIOUS
  <2> HIDE DEF r, v, E
  <2>2. {i \in inRows : place(i) = <<RowIndex(r), v>>} = EntriesOf(es, r, v)
    BY <1>6, <2>1
  <2>3. EntriesOf(es, r, v) # {} BY <1>1, <2>1 DEF Agree
  <2>4. <<RowIndex(r), v>> \in {place(i) : i \in inRows} BY <2>2, <2>3
  <2>5. MatrixEntries[<<RowIndex(r), v>>]
          = LastValue(es, {i \in inRows : place(i) = <<RowIndex(r), v>>}, 0)
    <3> HIDE DEF inRows, place
    <3> QED BY <1>5, <2>4
  <2>6. MatrixEntries[<<RowIndex(r), v>>] = LastValue(es, EntriesOf(es, r, v), 0)
    BY <2>2, <2>5
  <2>7. LastValue(es, EntriesOf(es, r, v), 0) = Latest(file, Coefficient(file, r, v))
    BY <1>1 DEF Agree
  <2> QED BY <2>6, <2>7 DEF r, v
<1> HIDE DEF D, E
<1>11. MatrixByName = [at \in D |-> MatrixEntries[<<RowIndex(at[1]), at[2]>>]]
  BY DEF MatrixByName, D
<1>12. MatrixByName = [at \in E |-> Latest(file, Coefficient(file, at[1], at[2]))]
  BY <1>9, <1>10, <1>11
<1> QED BY <1>12 DEF E

\* The model that the stages build from what was collected is the meaning.
LEMMA BuiltIsMeant ==
    ASSUME NEW n, Read(n), DistinctRows(file), model = [Built EXCEPT !.matrix = MatrixEntries]
    PROVE  ReadModel = Meaning(file)
<1> DEFINE low == [v \in Variables |->
                     LowerAt(Rowed, bound_entries, DOMAIN bound_entries, v)]
           up == [v \in Variables |->
                    UpperAt(Rowed, bound_entries, DOMAIN bound_entries, v)]
           types == [v \in Variables |->
                       TypeAt(Rowed, bound_entries, DOMAIN bound_entries, v)]
           M == Meaning(file)
<1>1. VariablesOf(file) = Variables BY ReadFacts
<1>2. low = M.lower /\ up = M.upper /\ types = M.types
  <2>1. M.lower = [v \in Variables |-> LowerOf(file, v)] BY <1>1 DEF Meaning
  <2>2. M.upper = [v \in Variables |-> UpperOf(file, v)] BY <1>1 DEF Meaning
  <2>3. M.types = [v \in Variables |->
           IF \E i \in Cards(file, "BOUNDS") : file[i][1] = "BV" /\ file[i][3] = v
           THEN "binary" ELSE "continuous"]
    BY <1>1 DEF Meaning
  <2> HIDE DEF M
  <2> QED BY <2>1, <2>2, <2>3, SidesRead
<1>3. Costs = M.objective BY <1>1, CostsRead DEF Meaning
<1>4. ByName(file, RowLower) = M.row_lower /\ ByName(file, RowUpper) = M.row_upper
  BY RowSidesRead DEF Meaning
<1>5. MatrixByName = M.matrix BY MatrixRead DEF Meaning
<1>6. M = [objective |-> M.objective, lower |-> M.lower, upper |-> M.upper,
           types |-> M.types, row_lower |-> M.row_lower, row_upper |-> M.row_upper,
           matrix |-> M.matrix]
  BY DEF Meaning
<1> HIDE DEF low, up, types, M
<1>7. Built = [objective |-> Costs, lower |-> low, upper |-> up, types |-> types,
               row_lower |-> RowLower, row_upper |-> RowUpper, matrix |-> EmptyFunction]
  BY BuiltFields DEF Read, low, up, types
<1>8. model = [objective |-> Costs, lower |-> low, upper |-> up, types |-> types,
               row_lower |-> RowLower, row_upper |-> RowUpper, matrix |-> MatrixEntries]
  BY <1>7
<1>9. model.matrix = MatrixEntries /\ model.row_lower = RowLower /\ model.row_upper = RowUpper
  BY <1>8
<1>10. ReadModel = [model EXCEPT !.row_lower = ByName(file, RowLower),
                                 !.row_upper = ByName(file, RowUpper),
                                 !.matrix = MatrixByName]
  BY <1>9, Zenon DEF ReadModel, MatrixByName
<1>11. ReadModel = [objective |-> Costs, lower |-> low, upper |-> up, types |-> types,
                    row_lower |-> ByName(file, RowLower),
                    row_upper |-> ByName(file, RowUpper), matrix |-> MatrixByName]
  <2> DEFINE R == [objective |-> Costs, lower |-> low, upper |-> up, types |-> types,
                   row_lower |-> RowLower, row_upper |-> RowUpper, matrix |-> MatrixEntries]
             from == ByName(file, RowLower)
             to == ByName(file, RowUpper)
  <2>1. ReadModel = [R EXCEPT !.row_lower = from, !.row_upper = to, !.matrix = MatrixByName]
    BY <1>8, <1>10, Zenon
  <2> HIDE DEF from, to
  <2>2. ReadModel = [objective |-> Costs, lower |-> low, upper |-> up, types |-> types,
                     row_lower |-> from, row_upper |-> to, matrix |-> MatrixByName]
    BY <2>1
  <2> QED BY <2>2 DEF from, to
<1> QED BY <1>2, <1>3, <1>4, <1>5, <1>6, <1>11 DEF M

-----------------------------------------------------------------------------
(***************************************************************************)
(* No stage refuses a well-formed file.                                    *)
(***************************************************************************)
GoodInv ==
    WellFormed(file) =>
        /\ errors = <<>>
        /\ pc \in Later => "ENDATA" \in saw
        /\ pc = "done" => accepted

LEMMA EmptyIsNoGood == ~WellFormed(<<>>)
<1>1. Headers(<<>>) = {} BY DEF Headers
<1>2. SectionsOf(<<>>) = {} BY <1>1 DEF SectionsOf
<1>3. "NAME" \in Required BY DEF Required
<1> QED BY <1>2, <1>3 DEF WellFormed, Complete

\* The file in hand is one that was opened, or none.
LEMMA FileAtHand ==
    ASSUME MpsTypeOK, WellFormed(file)
    PROVE  file \in Files /\ file \in Seq(Seq(STRING)) /\ DOMAIN file = 1 .. Len(file)
           /\ Len(file) \in Nat
<1>1. file \in Files BY EmptyIsNoGood DEF MpsTypeOK
<1>2. file \in Seq(Seq(STRING)) BY <1>1, FilesAssumption
<1> QED BY <1>1, <1>2

LEMMA ReadIsAll ==
    ASSUME MpsTypeOK, ReadInv, WellFormed(file), pc \in Later, errors = <<>>, "ENDATA" \in saw
    PROVE  \E n : Read(n)
BY FileAtHand DEF ReadInv, CollectedAll, Read

\* The sections of a complete file have all been seen.
LEMMA SectionsSeen ==
    ASSUME NEW n, Read(n), Complete(file)
    PROVE  Required \subseteq saw
<1>1. HeadersRead(saw, file, n) /\ Body(file) = 1 .. n BY DEF Read, ReadSoFar
<1>2. \A w \in SectionsOf(file) : w \in saw \cup {"BOUNDS"}
  BY <1>1 DEF SectionsOf, HeadersRead
<1>3. "BOUNDS" \notin Required BY DEF Required
<1> QED BY <1>2, <1>3 DEF Complete

\* No entry of a well-formed file names an unknown row.
LEMMA RowsKnown ==
    ASSUME NEW n, Read(n), WellFormed(file)
    PROVE  {i \in DOMAIN column_entries : Unknown(column_entries[i])} = {}
<1> SUFFICES ASSUME NEW i \in DOMAIN column_entries, Unknown(column_entries[i]) PROVE FALSE
  OBVIOUS
<1> DEFINE r == column_entries[i].row
           v == column_entries[i].variable
<1>1. i \in EntriesOf(column_entries, r, v) BY DEF EntriesOf
<1>2. Coefficient(file, r, v) # {}
  <2>1. Agree(column_entries, r, v, file, Coefficient(file, r, v))
    BY ReadFacts DEF Read, ReadSoFar, ColumnsRead
  <2> QED BY <1>1, <2>1 DEF Agree
<1> HIDE DEF r, v
<1>3. PICK j \in Cards(file, "COLUMNS"), k \in {2, 4} :
         IsNumber(file[j], k + 1) /\ Word(file[j], k) = r
  BY <1>2 DEF Coefficient, Mentions
<1>4. file \in Seq(Seq(STRING)) BY FileAtHand DEF Read
<1>5. j \in DOMAIN file BY ReadFacts
<1>6. file[j] \in Seq(STRING) BY <1>4, <1>5
<1>7. file[j][k] = r
  <2>1. k + 1 \in DOMAIN file[j]
    <3>1. k + 1 \in Nat \ {0} OBVIOUS
    <3> QED BY <1>3, <1>6, <3>1, WordFacts
  <2>2. k <= Len(file[j]) BY <1>6, <2>1
  <2> QED BY <1>3, <2>2 DEF Word
<1>8. r \in RowNames(file) \cup ObjectiveNames(file) BY <1>3, <1>7 DEF WellFormed
<1>9. r # objective_row /\ r \notin RowNames(file)
  <2>1. Unknown(column_entries[i]) OBVIOUS
  <2> QED BY <2>1, RowFacts DEF Unknown, r
<1>10. DistinctRows(file) BY DEF WellFormed
<1> QED BY <1>8, <1>9, <1>10, ObjectiveFacts

\* No bound of a well-formed file names an unknown variable.
LEMMA VariablesKnown ==
    ASSUME NEW n, Read(n), WellFormed(file)
    PROVE  {i \in DOMAIN bound_entries : bound_entries[i].variable \notin Variables} = {}
<1> SUFFICES ASSUME NEW i \in DOMAIN bound_entries PROVE bound_entries[i].variable \in Variables
  OBVIOUS
<1> DEFINE v == bound_entries[i].variable
           K == {bound_entries[i].type}
<1>1. i \in BoundsIn(DOMAIN bound_entries, bound_entries, v, K) BY DEF BoundsIn
<1> HIDE DEF v, K
<1>2. BoundCardsOf(file, n, v, K) # {} BY <1>1 DEF Read, ReadSoFar, BoundsRead
<1>3. PICK j \in Cards(file, "BOUNDS") : file[j][3] = v BY <1>2, ReadFacts DEF BoundCardsOf
<1>4. v \in VariablesOf(file) BY <1>3 DEF WellFormed
<1> QED BY <1>4, ReadFacts DEF v

LEMMA MeantIsValid ==
    ASSUME NEW n, Read(n), WellFormed(file)
    PROVE  Valid([Built EXCEPT !.matrix = MatrixEntries])
<1> DEFINE low == [v \in Variables |->
                     LowerAt(Rowed, bound_entries, DOMAIN bound_entries, v)]
           up == [v \in Variables |->
                    UpperAt(Rowed, bound_entries, DOMAIN bound_entries, v)]
           types == [v \in Variables |->
                       TypeAt(Rowed, bound_entries, DOMAIN bound_entries, v)]
           m == [Built EXCEPT !.matrix = MatrixEntries]
<1>1. \A v \in Variables : low[v] <= up[v]
  <2> TAKE v \in Variables
  <2>1. v \in VariablesOf(file) BY ReadFacts
  <2>2. LowerOf(file, v) <= UpperOf(file, v) BY <2>1 DEF WellFormed
  <2>3. low[v] = LowerOf(file, v) /\ up[v] = UpperOf(file, v) BY SidesRead
  <2> QED BY <2>2, <2>3
<1>2. DOMAIN low = Variables OBVIOUS
<1> HIDE DEF low, up, types
<1>3. Built = [objective |-> Costs, lower |-> low, upper |-> up, types |-> types,
               row_lower |-> RowLower, row_upper |-> RowUpper, matrix |-> EmptyFunction]
  BY BuiltFields DEF Read, low, up, types
<1>4. m.lower = low /\ m.upper = up BY <1>3
<1> HIDE DEF m
<1>5. Valid(m) BY <1>1, <1>2, <1>4 DEF Valid
<1> QED BY <1>5 DEF m

LEMMA NoZeros ==
    ASSUME NEW n \in Nat, NEW p \in Seq(0 .. n)
    PROVE  p \o ErrorsAtZero({}) = p
<1>1. ErrorsAtZero({}) = <<>>
  <2>1. IsFiniteSet({}) BY FS_EmptySet
  <2> QED BY <2>1, ZeroFacts
<1> QED BY <1>1

LEMMA GoodNext ==
    HeadersPlain /\ MpsTypeOK /\ Located /\ Stages /\ ReadInv /\ ModelInv /\ GoodInv
      /\ [Next]_vars => GoodInv'
<1> SUFFICES ASSUME HeadersPlain, MpsTypeOK, Located, Stages, ReadInv, ModelInv, GoodInv,
                    [Next]_vars, WellFormed(file')
             PROVE  /\ errors' = <<>> /\ (pc' \in Later => "ENDATA" \in saw')
                    /\ pc' = "done" => accepted'
  BY DEF GoodInv
<1>a. CASE Open
  <2>1. file' # <<>> BY EmptyIsNoGood
  <2> QED BY <1>a, <2>1 DEF Open, Later
<1>b. CASE SkipLine \/ Header \/ RowCard \/ ColumnCard \/ RhsCard \/ BoundCard
  <2>. NextLine
    BY <1>b DEF SkipLine, Header, RowCard, ColumnCard, RhsCard, BoundCard, Card
  <2>0. file' = file /\ pc = "lines" /\ WellFormed(file) /\ errors = <<>>
    BY DEF NextLine, GoodInv
  <2>1. CASE Header
    <3>1. errors' = errors /\ (pc' = "check" => "ENDATA" \in saw') /\ pc' \in {"lines", "check"}
      BY <2>0, <2>1 DEF Header
    <3> QED BY <2>0, <3>1 DEF Later
  <2>2. CASE SkipLine
    <3>1. errors' = errors /\ pc' = pc BY <2>2 DEF SkipLine
    <3> QED BY <2>0, <3>1 DEF Later
  <2>3. CASE RowCard \/ ColumnCard \/ RhsCard \/ BoundCard
    <3>1. line # <<>> /\ first \notin Keywords /\ pc' = pc
      BY <2>3 DEF RowCard, ColumnCard, RhsCard, BoundCard, Card
    <3>2. position + 1 \in Body(file) \ Headers(file) BY <3>1, NoHeaderStep
    <3>3. GoodCard(file, position + 1)
      <4>1. file[position + 1] # <<>> BY <3>1 DEF line
      <4> QED BY <2>0, <3>2, <4>1 DEF WellFormed
    <3>4. errors' = errors
      <4>1. CASE RowCard
        <5>1. section = "ROWS" BY <4>1 DEF RowCard, Card
        <5>2. ~(Word(line, 2) = NoWord \/ first \notin {"N", "L", "G", "E"})
          BY <3>1, <3>3, <5>1, RejectedCards
        <5> QED BY <4>1, <5>2 DEF RowCard
      <4>2. CASE ColumnCard \/ RhsCard
        <5>1. section \in {"COLUMNS", "RHS"} BY <4>2 DEF ColumnCard, RhsCard, Card
        <5>2. ~Malformed BY <3>1, <3>3, <5>1, RejectedCards
        <5> QED BY <4>2, <5>2 DEF ColumnCard, RhsCard
      <4>3. CASE BoundCard
        <5>1. section = "BOUNDS" BY <4>3 DEF BoundCard, Card
        <5>2. /\ Word(line, 2) # NoWord /\ Word(line, 3) # NoWord
              /\ \/ first \in {"LO", "UP", "FX"} /\ IsNumber(line, 4)
                 \/ first \in {"BV", "FR"}
          BY <3>1, <3>3, <5>1, RejectedCards
        <5> QED BY <4>3, <5>2 DEF BoundCard
      <4> QED BY <2>3, <4>1, <4>2, <4>3
    <3> QED BY <2>0, <3>1, <3>4 DEF Later
  <2> QED BY <1>b, <2>1, <2>2, <2>3
<1>c. CASE EndOfFile
  <2>1. file' = file /\ position = Len(file) /\ NoEnd(file, position)
    BY <1>c DEF EndOfFile, Located
  <2>2. DOMAIN file = 1 .. Len(file) BY <2>1, FileAtHand
  <2>3. ~Complete(file) BY <2>1, <2>2 DEF Complete, NoEnd
  <2> QED BY <2>1, <2>3 DEF WellFormed
<1>d. CASE CheckSections \/ BuildColumns \/ BuildBounds \/ Validate
  <2>1. file' = file /\ saw' = saw /\ pc \in Later
    BY <1>d DEF CheckSections, BuildColumns, BuildBounds, Validate, Kept, Later
  <2>2. WellFormed(file) /\ errors = <<>> /\ "ENDATA" \in saw BY <2>1 DEF GoodInv
  <2>3. PICK n : Read(n) BY <2>1, <2>2, ReadIsAll
  <2>4. <<>> \in Seq(0 .. 0) OBVIOUS
  <2>5. errors \o ErrorsAtZero({}) = <<>> BY <2>2, <2>4, NoZeros
  <2>6. CASE CheckSections
    <3>1. Required \ saw = {} BY <2>2, <2>3, SectionsSeen DEF WellFormed
    <3>2. errors' = errors \o ErrorsAtZero({}) \o <<>>
      BY <2>2, <2>6, <3>1 DEF CheckSections
    <3>3. errors' = <<>> BY <2>5, <3>2
    <3> QED BY <2>1, <2>2, <2>6, <3>3 DEF CheckSections, Go
  <2>7. CASE BuildColumns
    <3>1. errors' = errors \o ErrorsAtZero({}) BY <2>2, <2>3, <2>7, RowsKnown DEF BuildColumns
    <3> QED BY <2>1, <2>2, <2>5, <2>7, <3>1 DEF BuildColumns, Go
  <2>8. CASE BuildBounds
    <3>1. errors' = errors \o ErrorsAtZero({})
      BY <2>2, <2>3, <2>8, VariablesKnown DEF BuildBounds
    <3> QED BY <2>1, <2>2, <2>5, <2>8, <3>1 DEF BuildBounds, Go
  <2>9. CASE Validate
    <3>1. model' = [Built EXCEPT !.matrix = MatrixEntries] BY <2>9 DEF Validate, ModelInv
    <3>2. accepted' BY <2>2, <2>3, <2>9, <3>1, MeantIsValid DEF Validate
    <3> QED BY <2>1, <2>2, <2>9, <3>2 DEF Validate
  <2> QED BY <1>d, <2>6, <2>7, <2>8, <2>9
<1>e. CASE UNCHANGED vars BY <1>e DEF vars, GoodInv
<1> QED
  BY <1>a, <1>b, <1>c, <1>d, <1>e DEF Next, Returned

\* What has been collected after every line says what the lines so far say,
\* and each stage builds its part of the meaning from that.
ReaderInv == MpsTypeOK /\ Located /\ Stages /\ ReadInv /\ ModelInv /\ GoodInv

LEMMA ReaderInvariant == HeadersPlain => (Spec => []ReaderInv)
<1> SUFFICES ASSUME HeadersPlain PROVE Spec => []ReaderInv OBVIOUS
<1>1. Init => ReaderInv
  <2> SUFFICES ASSUME Init PROVE ReaderInv OBVIOUS
  <2>1. MpsTypeOK BY MpsTypesInit
  <2>2. Located BY DEF Init, Located
  <2>3. Stages BY DEF Init, Stages
  <2>4. ReadInv BY DEF Init, ReadInv, Later
  <2>5. ModelInv BY DEF Init, ModelInv
  <2>6. GoodInv BY EmptyIsNoGood DEF Init, GoodInv
  <2> QED BY <2>1, <2>2, <2>3, <2>4, <2>5, <2>6 DEF ReaderInv
<1>2. ReaderInv /\ [Next]_vars => ReaderInv'
  BY MpsTypesNext, LocatedNext, StagesNext, ReadNext, ModelNext, GoodNext DEF ReaderInv
<1> QED BY <1>1, <1>2, PTL DEF Spec

\* An accepted file is read as the model it means, however many sections it
\* has and in whatever order, if no line that starts with a keyword is a
\* card.
THEOREM FilesMeanTheirModels == HeadersPlain => (Spec => []MeansTheFile)
<1>1. ReaderInv => MeansTheFile
  <2> SUFFICES ASSUME ReaderInv, pc = "done", accepted, DistinctRows(file)
               PROVE  ReadModel = Meaning(file)
    BY DEF MeansTheFile
  <2>1. errors = <<>> BY DEF ReaderInv, Stages
  <2>2. CollectedAll /\ "ENDATA" \in saw BY <2>1 DEF ReaderInv, ReadInv, Later
  <2>3. MpsTypeOK /\ model = [Built EXCEPT !.matrix = MatrixEntries]
    BY <2>1 DEF ReaderInv, ModelInv
  <2>4. PICK n : Read(n) BY <2>2, <2>3 DEF CollectedAll, Read
  <2> QED BY <2>3, <2>4, BuiltIsMeant
<1> QED BY <1>1, ReaderInvariant, PTL

\* A well-formed file is never refused, whatever was read before it, if no
\* line that starts with a keyword is a card.
THEOREM WellFormedIsRead == HeadersPlain => (Spec => []GoodFilesAreRead)
<1>1. ReaderInv => GoodFilesAreRead BY DEF ReaderInv, GoodInv, GoodFilesAreRead
<1> QED BY <1>1, ReaderInvariant, PTL
=============================================================================
