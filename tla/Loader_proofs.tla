---------------------------- MODULE Loader_proofs ----------------------------
(***************************************************************************)
(* Theorems about Loader: whatever the export and the cap, the result of   *)
(* load_logs() is that of the whole file, the errors kept are those of the *)
(* first skipped rows, and one event reads alike in the three formats.     *)
(***************************************************************************)
EXTENDS Loader, FiniteSetTheorems, SequenceTheorems, TLAPS

(* The rows read so far, the skipped ones among them and their numbers.    *)
Read(S) == {i \in S : i < line}

Bad == Rows \ Entries

BadNumbers == {Number(i) : i \in Read(Bad)}

(* The inductive invariant: at every row the state is what the result says *)
(* of a whole file, for the rows read so far.                              *)
FileInv == file \in Files /\ file.rows \in Seq(RowType)

ReadInv == Lists(logs, Read(Entries))

EndInv == phase = "loaded" => line = Len(file.rows) + 1

Counting == api = "load" /\ phase # "failed"

TotalInv ==
    Counting => /\ total = Cardinality(Read(Rows))
                /\ total = Len(logs) + skipped

OpenInv == (phase \in {"reading", "loaded"} => Opens) /\ (Opens \/ logs = <<>>)

StoredInv ==
    Counting => /\ IsInjective(errors)
                /\ Len(errors) <= MaxErrorsStored
                /\ ToSet(errors) \subseteq BadNumbers
                /\ \A n \in BadNumbers \ ToSet(errors) :
                      /\ Len(errors) = MaxErrorsStored
                      /\ \A m \in ToSet(errors) : m < n

LoaderInv ==
    FileInv /\ LoaderTypeOK /\ ReadInv /\ EndInv /\ OpenInv /\ TotalInv /\ StoredInv
-----------------------------------------------------------------------------
(* Lemmas about sequences, and about counting the rows of a file.          *)

(* Appending adds one member to a sequence, at its end.                    *)
LEMMA AppendLemma ==
    ASSUME NEW S, NEW s \in Seq(S), NEW e \in S
    PROVE  /\ Append(s, e) \in Seq(S)
           /\ Len(Append(s, e)) = Len(s) + 1
           /\ DOMAIN Append(s, e) = DOMAIN s \cup {Len(s) + 1}
           /\ \A n \in DOMAIN s : Append(s, e)[n] = s[n]
           /\ Append(s, e)[Len(s) + 1] = e
           /\ ToSet(Append(s, e)) = ToSet(s) \cup {e}
<1>1. /\ Append(s, e) \in Seq(S)
      /\ Len(Append(s, e)) = Len(s) + 1
      /\ DOMAIN Append(s, e) = DOMAIN s \cup {Len(s) + 1}
      /\ \A n \in DOMAIN s : Append(s, e)[n] = s[n]
      /\ Append(s, e)[Len(s) + 1] = e
  OBVIOUS
<1>2. ToSet(Append(s, e)) = ToSet(s) \cup {e}
  BY <1>1 DEF ToSet
<1> QED  BY <1>1, <1>2

(* A list in order stays one when a larger number is appended.             *)
LEMMA ListsLemma ==
    ASSUME NEW S, NEW s \in Seq(Nat), NEW e \in Nat, Lists(s, S), \A i \in S : i < e
    PROVE  Lists(Append(s, e), S \cup {e})
<1>1. /\ DOMAIN Append(s, e) = DOMAIN s \cup {Len(s) + 1}
      /\ \A n \in DOMAIN s : Append(s, e)[n] = s[n]
      /\ Append(s, e)[Len(s) + 1] = e
      /\ ToSet(Append(s, e)) = S \cup {e}
  BY AppendLemma DEF Lists
<1>2. ASSUME NEW m \in DOMAIN Append(s, e), NEW n \in DOMAIN Append(s, e), m < n
      PROVE  Append(s, e)[m] < Append(s, e)[n]
  <2>1. DOMAIN s = 1..Len(s) /\ Len(s) \in Nat
    OBVIOUS
  <2>2. m \in DOMAIN s
    BY <1>1, <1>2, <2>1
  <2>3. CASE n \in DOMAIN s
    BY <1>1, <1>2, <2>2, <2>3 DEF Lists
  <2>4. CASE n = Len(s) + 1
    <3>1. s[m] \in S
      BY <2>2 DEF Lists, ToSet
    <3> QED  BY <1>1, <2>2, <2>4, <3>1
  <2> QED  BY <1>1, <2>3, <2>4
<1> QED  BY <1>1, <1>2 DEF Lists

(* The rows are lines of the file, finitely many, and so are any of them;  *)
(* the entries are rows.                                                   *)
LEMMA RowsLemma ==
    ASSUME FileInv
    PROVE  /\ DOMAIN file.rows = 1..Len(file.rows)
           /\ Len(file.rows) \in Nat
           /\ Rows \subseteq 1..Len(file.rows)
           /\ Entries \subseteq Rows
           /\ \A S \in SUBSET Rows : IsFiniteSet(S) /\ Cardinality(S) \in Nat
<1>1. DOMAIN file.rows = 1..Len(file.rows) /\ Len(file.rows) \in Nat
  BY DEF FileInv
<1>2. Rows \subseteq 1..Len(file.rows)
  BY <1>1 DEF Rows, Content
<1>3. Entries \subseteq Rows
  BY DEF Entries, IsEntry, Rows, Content
<1>4. IsFiniteSet(Rows)
  <2>1. IsFiniteSet(1..Len(file.rows))
    BY <1>1, FS_Interval
  <2> QED  BY <1>2, <2>1, FS_Subset
<1>5. ASSUME NEW S \in SUBSET Rows
      PROVE  IsFiniteSet(S) /\ Cardinality(S) \in Nat
  BY <1>4, FS_Subset, FS_CardinalityType
<1> QED  BY <1>1, <1>2, <1>3, <1>5

(* The numbers of a set before n, up to n and before n + 1.                *)
LEMMA BeforeLemma ==
    ASSUME NEW S \in SUBSET Nat, NEW n \in Nat
    PROVE  /\ {i \in S : i < n + 1} = {i \in S : i < n} \cup (S \cap {n})
           /\ {i \in S : i <= n} = {i \in S : i < n} \cup (S \cap {n})
           /\ n \notin {i \in S : i < n}
           /\ \A m \in S : m < n => {i \in S : i <= m} \subseteq {i \in S : i < n}
           /\ (\A i \in S : n <= i) => {i \in S : i < n} = {}
<1>1. {i \in S : i < n + 1} = {i \in S : i < n} \cup (S \cap {n})
  <2>1. \A i \in S : i < n + 1 <=> i < n \/ i = n
    OBVIOUS
  <2>2. \A i \in S \cap {n} : i < n + 1
    OBVIOUS
  <2> QED  BY <2>1, <2>2
<1>2. {i \in S : i <= n} = {i \in S : i < n} \cup (S \cap {n})
  <2>1. \A i \in S : i <= n <=> i < n \/ i = n
    OBVIOUS
  <2>2. \A i \in S \cap {n} : i <= n
    OBVIOUS
  <2> QED  BY <2>1, <2>2
<1>3. n \notin {i \in S : i < n}
  OBVIOUS
<1>4. ASSUME NEW m \in S, m < n
      PROVE  {i \in S : i <= m} \subseteq {i \in S : i < n}
  <2>1. \A i \in S : i <= m => i < n
    BY <1>4
  <2> QED  BY <2>1
<1>5. ASSUME \A i \in S : n <= i
      PROVE  {i \in S : i < n} = {}
  <2>1. \A i \in S : ~(i < n)
    BY <1>5
  <2> QED  BY <2>1
<1> QED  BY <1>1, <1>2, <1>3, <1>4, <1>5

(* The number of a row is one more than the rows read before it, and no    *)
(* row before it has that number.                                          *)
LEMMA NumberLemma ==
    ASSUME FileInv, line \in Rows
    PROVE  /\ Cardinality({i \in Rows : i < line + 1})
                = Cardinality(Read(Rows)) + 1
           /\ Number(line) = Cardinality(Read(Rows)) + 1
           /\ \A i \in Read(Rows) :
                 Number(i) \in Nat /\ Number(i) <= Cardinality(Read(Rows))
<1> DEFINE R == Read(Rows)
<1>1. /\ Rows \subseteq Nat
      /\ IsFiniteSet(R) /\ Cardinality(R) \in Nat
      /\ line \notin R /\ line \in Nat
  BY RowsLemma DEF Read
<1>2. /\ {i \in Rows : i < line + 1} = R \cup {line}
      /\ {k \in Rows : k <= line} = R \cup {line}
  <2>1. Rows \cap {line} = {line}
    OBVIOUS
  <2>2. Rows \in SUBSET Nat /\ line \in Nat
    BY <1>1
  <2>3. /\ {i \in Rows : i < line + 1} = {i \in Rows : i < line} \cup (Rows \cap {line})
        /\ {i \in Rows : i <= line} = {i \in Rows : i < line} \cup (Rows \cap {line})
    BY <2>2, BeforeLemma, Zenon
  <2>4. R = {i \in Rows : i < line}
    BY DEF Read
  <2> HIDE DEF R
  <2> QED  BY <2>1, <2>3, <2>4, Zenon
<1>3. Cardinality(R \cup {line}) = Cardinality(R) + 1
  BY <1>1, FS_AddElement
<1>4. ASSUME NEW i \in R
      PROVE  Number(i) \in Nat /\ Number(i) <= Cardinality(R)
  <2>1. {k \in Rows : k <= i} \subseteq R
    <3>1. i \in Rows /\ i < line
      BY DEF Read
    <3> QED  BY <1>1, <3>1, BeforeLemma, Zenon DEF Read
  <2>2. Cardinality({k \in Rows : k <= i}) \in Nat
    BY RowsLemma
  <2> QED  BY <1>1, <2>1, <2>2, FS_Subset DEF Number
<1> QED  BY <1>2, <1>3, <1>4 DEF Number

-----------------------------------------------------------------------------
(* Nothing has been read at first.                                         *)
LEMMA InitLemma ==
    LoaderInit => LoaderInv
<1> SUFFICES ASSUME LoaderInit PROVE LoaderInv
  OBVIOUS
<1> USE DEF LoaderInit
<1>1. FileInv
  BY LoaderAssumption DEF FileInv
<1>2. /\ Rows \subseteq 1..Len(file.rows) /\ Entries \subseteq Rows
      /\ Len(file.rows) \in Nat
  BY <1>1, RowsLemma
<1>3. Read(Rows) = {} /\ Read(Entries) = {} /\ Read(Bad) = {}
  <2>1. ASSUME NEW S \in SUBSET Rows
        PROVE  Read(S) = {}
    <3>1. S \in SUBSET Nat /\ \A i \in S : line <= i
      BY <1>2
    <3>2. line \in Nat
      OBVIOUS
    <3> QED  BY <3>1, <3>2, BeforeLemma, Zenon DEF Read
  <2> QED  BY <1>2, <2>1 DEF Bad
<1>4. LoaderTypeOK
  BY <1>2 DEF LoaderTypeOK
<1>5. ReadInv
  BY <1>3 DEF ReadInv, Lists, ToSet
<1>6. TotalInv
  BY <1>3, FS_EmptySet DEF TotalInv, Counting
<1>7. StoredInv
  <2>1. BadNumbers = {} /\ ToSet(errors) = {} /\ Len(errors) = 0 /\ IsInjective(errors)
    BY <1>3 DEF BadNumbers, ToSet, IsInjective
  <2> QED  BY <2>1, LoaderAssumption DEF StoredInv, Counting
<1>8. OpenInv
  BY DEF OpenInv
<1> QED  BY <1>1, <1>4, <1>5, <1>6, <1>7, <1>8 DEF LoaderInv, EndInv

(* What the file says does not change while it is read.                    *)
LEMMA SameFormat ==
    ASSUME UNCHANGED file
    PROVE  Format' = Format
BY DEF Format, Sniffed, Content

LEMMA SameFile ==
    ASSUME UNCHANGED file
    PROVE  /\ Rows' = Rows /\ Entries' = Entries /\ Bad' = Bad /\ Opens' = Opens
           /\ \A i : Number(i)' = Number(i)
           /\ FileInv => FileInv'
<1>1. Format' = Format
  BY SameFormat
<1>2. Rows' = Rows
  BY <1>1 DEF Rows, Content
<1>3. Entries' = Entries
  BY <1>1 DEF Entries, IsEntry, Cells
<1>4. Opens' = Opens
  BY <1>1 DEF Opens
<1> QED  BY <1>2, <1>3, <1>4 DEF Bad, Number, FileInv

(* A step that reads no row keeps what was read.                           *)
LEMMA NoRowLemma ==
    ASSUME LoaderInv, UNCHANGED <<file, api, skipInvalid, line, logs, skipped, errors>>,
           phase' \in {"opening", "reading", "loaded", "failed"},
           phase' \in {"reading", "loaded"} => Opens,
           phase' = "loaded" => line = Len(file.rows) + 1,
           total' = total \/ (phase' = "failed" /\ total' = total + 1),
           phase = "failed" => phase' = "failed"
    PROVE  LoaderInv'
<1>1. /\ Rows' = Rows /\ Entries' = Entries /\ Bad' = Bad /\ Opens' = Opens
      /\ \A i : Number(i)' = Number(i)
      /\ FileInv'
  BY SameFile DEF LoaderInv
<1>2. /\ Read(Rows)' = Read(Rows) /\ Read(Entries)' = Read(Entries)
      /\ Read(Bad)' = Read(Bad) /\ BadNumbers' = BadNumbers
  BY <1>1 DEF Read, BadNumbers
<1>3. LoaderTypeOK'
  BY DEF LoaderInv, LoaderTypeOK
<1>4. ReadInv'
  BY <1>2 DEF LoaderInv, ReadInv, Lists
<1>5. EndInv'
  BY DEF EndInv
<1>6. TotalInv'
  BY <1>2 DEF LoaderInv, TotalInv, Counting
<1>7. StoredInv'
  BY <1>2 DEF LoaderInv, StoredInv, Counting
<1>8. OpenInv'
  BY <1>1 DEF LoaderInv, OpenInv
<1> QED  BY <1>1, <1>3, <1>4, <1>5, <1>6, <1>7, <1>8 DEF LoaderInv

(* Reading a row adds it to what was read of each kind it is of.           *)
LEMMA RowLemma ==
    ASSUME LoaderInv, UNCHANGED file, phase = "reading", line <= Len(file.rows),
           line' = line + 1, phase' = phase
    PROVE  /\ FileInv' /\ Rows' = Rows /\ Entries' = Entries /\ OpenInv'
           /\ line \in 1..Len(file.rows) /\ line' \in 1..(Len(file.rows) + 1)
           /\ Read(Entries)' = Read(Entries) \cup (Entries \cap {line})
           /\ Cardinality(Read(Rows))' =
                 Cardinality(Read(Rows)) + (IF line \in Rows THEN 1 ELSE 0)
           /\ BadNumbers' = BadNumbers \cup (IF line \in Bad THEN {Number(line)} ELSE {})
<1>1. /\ Rows' = Rows /\ Entries' = Entries /\ Bad' = Bad /\ Opens' = Opens
      /\ \A i : Number(i)' = Number(i)
      /\ FileInv /\ FileInv'
  BY SameFile DEF LoaderInv
<1>2. /\ Len(file.rows) \in Nat /\ line \in 1..Len(file.rows)
      /\ Rows \subseteq Nat /\ Entries \subseteq Nat /\ Bad \subseteq Nat
  BY <1>1, RowsLemma DEF LoaderInv, LoaderTypeOK, Bad
<1>3. /\ Read(Entries)' = Read(Entries) \cup (Entries \cap {line})
      /\ Read(Bad)' = Read(Bad) \cup (Bad \cap {line})
      /\ Read(Rows)' = {i \in Rows : i < line + 1}
  <2>1. ASSUME NEW S \in SUBSET Nat
        PROVE  {i \in S : i < line + 1} = {i \in S : i < line} \cup (S \cap {line})
    <3>1. line \in Nat
      BY <1>2
    <3> QED  BY <3>1, BeforeLemma, Zenon
  <2>2. /\ Read(Entries)' = {i \in Entries : i < line + 1}
        /\ Read(Bad)' = {i \in Bad : i < line + 1}
        /\ Read(Rows)' = {i \in Rows : i < line + 1}
    BY <1>1 DEF Read
  <2> QED  BY <1>2, <2>1, <2>2 DEF Read
<1>4. Cardinality(Read(Rows))' =
         Cardinality(Read(Rows)) + (IF line \in Rows THEN 1 ELSE 0)
  <2>1. CASE line \in Rows
    BY <1>1, <1>3, <2>1, NumberLemma
  <2>2. CASE line \notin Rows
    <3>1. {i \in Rows : i < line + 1} = Read(Rows)
      <4>1. line \in Nat /\ Rows \cap {line} = {}
        BY <1>2, <2>2
      <4>2. {i \in Rows : i < line + 1} = {i \in Rows : i < line} \cup (Rows \cap {line})
        BY <1>2, <4>1, BeforeLemma, Zenon
      <4> QED  BY <4>1, <4>2 DEF Read
    <3>2. Cardinality(Read(Rows)) \in Nat
      BY <1>1, RowsLemma DEF Read
    <3>3. Cardinality(Read(Rows))' = Cardinality(Read(Rows))
      BY <1>3, <3>1
    <3> QED  BY <2>2, <3>2, <3>3
  <2> QED  BY <2>1, <2>2
<1>5. BadNumbers' = BadNumbers \cup (IF line \in Bad THEN {Number(line)} ELSE {})
  BY <1>1, <1>3 DEF BadNumbers
<1>6. OpenInv'
  BY <1>1 DEF LoaderInv, OpenInv
<1> QED  BY <1>1, <1>2, <1>3, <1>4, <1>5, <1>6

-----------------------------------------------------------------------------
(* Every step keeps the invariant.                                         *)

LEMMA SkipBlankLemma ==
    LoaderInv /\ SkipBlank => LoaderInv'
<1> SUFFICES ASSUME LoaderInv, SkipBlank PROVE LoaderInv'
  OBVIOUS
<1>1. /\ phase = "reading" /\ line <= Len(file.rows) /\ line' = line + 1
      /\ UNCHANGED <<file, phase>>
      /\ line \notin Rows /\ line \notin Entries /\ line \notin Bad
  BY RowsLemma DEF SkipBlank, Reading, LoaderInv, Bad
<1>2. /\ FileInv' /\ OpenInv' /\ line' \in 1..(Len(file.rows) + 1) /\ UNCHANGED file
      /\ Read(Entries)' = Read(Entries)
      /\ Cardinality(Read(Rows))' = Cardinality(Read(Rows)) + 0
      /\ BadNumbers' = BadNumbers
  BY <1>1, RowLemma
<1>3. Cardinality(Read(Rows)) \in Nat
  BY RowsLemma DEF LoaderInv, Read
<1>4. LoaderTypeOK'
  BY <1>2 DEF LoaderInv, LoaderTypeOK, SkipBlank
<1>5. ReadInv'
  BY <1>2 DEF LoaderInv, ReadInv, Lists, SkipBlank
<1>6. EndInv'
  BY <1>1 DEF EndInv, SkipBlank
<1>7. TotalInv'
  BY <1>2, <1>3 DEF LoaderInv, TotalInv, Counting, SkipBlank
<1>8. StoredInv'
  BY <1>2 DEF LoaderInv, StoredInv, Counting, SkipBlank
<1> QED  BY <1>2, <1>4, <1>5, <1>6, <1>7, <1>8 DEF LoaderInv

LEMMA AcceptRowLemma ==
    LoaderInv /\ AcceptRow => LoaderInv'
<1> SUFFICES ASSUME LoaderInv, AcceptRow PROVE LoaderInv'
  OBVIOUS
<1>1. /\ phase = "reading" /\ line <= Len(file.rows) /\ line' = line + 1
      /\ UNCHANGED <<file, phase>>
  BY RowsLemma DEF AcceptRow, Reading, LoaderInv
<1>2. line \in 1..Len(file.rows) /\ DOMAIN file.rows = 1..Len(file.rows) /\ Len(file.rows) \in Nat
  BY <1>1, RowsLemma DEF LoaderInv, LoaderTypeOK
<1>3. line \in Rows /\ line \in Entries /\ line \notin Bad
  BY RowsLemma DEF AcceptRow, Reading, LoaderInv, Bad
<1>4. /\ FileInv' /\ OpenInv' /\ line' \in 1..(Len(file.rows) + 1) /\ UNCHANGED file
      /\ Read(Entries)' = Read(Entries) \cup {line}
      /\ Cardinality(Read(Rows))' = Cardinality(Read(Rows)) + 1
      /\ BadNumbers' = BadNumbers
  BY <1>1, <1>3, RowLemma
<1>5. Cardinality(Read(Rows)) \in Nat
  BY RowsLemma DEF LoaderInv, Read
<1>6. logs \in Seq(DOMAIN file.rows) /\ logs' = Append(logs, line)
  BY DEF LoaderInv, LoaderTypeOK, AcceptRow
<1>7. logs' \in Seq(DOMAIN file.rows) /\ Len(logs') = Len(logs) + 1 /\ Len(logs) \in Nat
  BY <1>2, <1>6, AppendLemma
<1>8. LoaderTypeOK'
  BY <1>4, <1>7 DEF LoaderInv, LoaderTypeOK, AcceptRow, Count
<1>9. ReadInv'
  <2>1. Lists(logs, Read(Entries)) /\ \A i \in Read(Entries) : i < line
    BY DEF LoaderInv, ReadInv, Read
  <2>2. logs \in Seq(Nat)
    BY <1>2, <1>6, SeqMonotonic
  <2>3. Lists(Append(logs, line), Read(Entries) \cup {line})
    BY <1>2, <2>1, <2>2, ListsLemma
  <2> QED  BY <1>4, <1>6, <2>3 DEF ReadInv, Lists
<1>10. EndInv'
  BY <1>1 DEF EndInv, AcceptRow
<1>11. TotalInv'
  <2> SUFFICES ASSUME Counting'
               PROVE  /\ total' = Cardinality(Read(Rows))'
                      /\ total' = Len(logs') + skipped'
    BY DEF TotalInv
  <2>1. api = "load" /\ Counting /\ total' = total + 1 /\ skipped' = skipped
    BY <1>1 DEF Counting, AcceptRow, Count
  <2>2. /\ total = Cardinality(Read(Rows)) /\ total = Len(logs) + skipped
        /\ skipped \in Nat
    BY <2>1 DEF LoaderInv, TotalInv, LoaderTypeOK
  <2> QED  BY <1>4, <1>5, <1>7, <2>1, <2>2
<1>12. StoredInv'
  BY <1>4 DEF LoaderInv, StoredInv, Counting, AcceptRow
<1> QED  BY <1>4, <1>8, <1>9, <1>10, <1>11, <1>12 DEF LoaderInv

(* A skipped row has a larger number than any before it, so what KeepError *)
(* stores are still the first ones.                                        *)
LEMMA SkipRowLemma ==
    LoaderInv /\ SkipRow => LoaderInv'
<1> SUFFICES ASSUME LoaderInv, SkipRow PROVE LoaderInv'
  OBVIOUS
<1>1. /\ phase = "reading" /\ line <= Len(file.rows) /\ line' = line + 1
      /\ UNCHANGED <<file, phase>>
  BY RowsLemma DEF SkipRow, Reading, LoaderInv
<1>2. line \in 1..Len(file.rows) /\ DOMAIN file.rows = 1..Len(file.rows) /\ Len(file.rows) \in Nat
  BY <1>1, RowsLemma DEF LoaderInv, LoaderTypeOK
<1>3. line \in Rows /\ line \notin Entries /\ line \in Bad
  BY DEF SkipRow, Reading, Bad
<1>4. /\ FileInv' /\ OpenInv' /\ line' \in 1..(Len(file.rows) + 1) /\ UNCHANGED file
      /\ Read(Entries)' = Read(Entries)
      /\ Cardinality(Read(Rows))' = Cardinality(Read(Rows)) + 1
      /\ BadNumbers' = BadNumbers \cup {Number(line)}
  BY <1>1, <1>3, RowLemma
<1>5. Cardinality(Read(Rows)) \in Nat
  BY RowsLemma DEF LoaderInv, Read
<1>6. /\ total \in Nat /\ skipped \in Nat /\ errors \in Seq(Nat) /\ Len(errors) \in Nat
      /\ errors' = IF api = "load" THEN KeepError ELSE errors
  BY DEF LoaderInv, LoaderTypeOK, SkipRow
<1>7. /\ Append(errors, total + 1) \in Seq(Nat)
      /\ Len(Append(errors, total + 1)) = Len(errors) + 1
      /\ DOMAIN Append(errors, total + 1) = DOMAIN errors \cup {Len(errors) + 1}
      /\ \A n \in DOMAIN errors : Append(errors, total + 1)[n] = errors[n]
      /\ Append(errors, total + 1)[Len(errors) + 1] = total + 1
      /\ ToSet(Append(errors, total + 1)) = ToSet(errors) \cup {total + 1}
  <2>1. total + 1 \in Nat
    BY <1>6
  <2> QED  BY <1>6, <2>1, AppendLemma
<1>8. LoaderTypeOK'
  <2>1. errors' \in Seq(Nat)
    BY <1>6, <1>7 DEF KeepError
  <2> QED  BY <1>4, <2>1 DEF LoaderInv, LoaderTypeOK, SkipRow, Count
<1>9. ReadInv'
  BY <1>4 DEF LoaderInv, ReadInv, Lists, SkipRow
<1>10. EndInv'
  BY <1>1 DEF EndInv, SkipRow
<1>11. TotalInv'
  <2> SUFFICES ASSUME Counting'
               PROVE  /\ total' = Cardinality(Read(Rows))'
                      /\ total' = Len(logs') + skipped'
    BY DEF TotalInv
  <2>1. Counting /\ total' = total + 1 /\ skipped' = skipped + 1 /\ logs' = logs
    BY <1>1 DEF Counting, SkipRow, Count
  <2>2. total = Cardinality(Read(Rows)) /\ total = Len(logs) + skipped
    BY <2>1 DEF LoaderInv, TotalInv
  <2>3. Len(logs) \in Nat
    BY DEF LoaderInv, LoaderTypeOK
  <2> QED  BY <1>4, <1>6, <2>1, <2>2, <2>3
<1>12. StoredInv'
  <2> SUFFICES ASSUME Counting'
               PROVE  /\ IsInjective(errors')
                      /\ Len(errors') <= MaxErrorsStored
                      /\ ToSet(errors') \subseteq BadNumbers'
                      /\ \A n \in BadNumbers' \ ToSet(errors') :
                            /\ Len(errors') = MaxErrorsStored
                            /\ \A m \in ToSet(errors') : m < n
    BY DEF StoredInv
  <2>1. Counting /\ errors' = KeepError
    BY <1>1, <1>6 DEF Counting, SkipRow
  <2>2. /\ IsInjective(errors) /\ Len(errors) <= MaxErrorsStored
        /\ ToSet(errors) \subseteq BadNumbers
        /\ \A n \in BadNumbers \ ToSet(errors) :
              Len(errors) = MaxErrorsStored /\ \A m \in ToSet(errors) : m < n
        /\ total = Cardinality(Read(Rows))
    BY <2>1 DEF LoaderInv, StoredInv, TotalInv
  <2>3. Number(line) = total + 1 /\ \A n \in BadNumbers : n \in Nat /\ n <= total
    <3>1. Read(Bad) \subseteq Read(Rows)
      BY DEF Read, Bad
    <3> QED  BY <1>3, <2>2, <3>1, NumberLemma DEF LoaderInv, BadNumbers
  <2>4. BadNumbers' = BadNumbers \cup {total + 1}
    BY <1>4, <2>3
  <2>5. MaxErrorsStored \in Nat
    BY LoaderAssumption
  <2>6. \A m \in ToSet(errors) : m \in Nat /\ m < total + 1
    BY <1>6, <2>2, <2>3
  <2>7. CASE Len(errors) < MaxErrorsStored
    <3>1. errors' = Append(errors, total + 1)
      BY <2>1, <2>7 DEF KeepError
    <3>2. \A n \in BadNumbers : n \in ToSet(errors)
      BY <1>6, <2>2, <2>5, <2>7
    <3>3. IsInjective(errors')
      <4>1. \A n \in DOMAIN errors : errors[n] \in ToSet(errors) /\ errors[n] # total + 1
        <5>1. \A n \in DOMAIN errors : errors[n] \in ToSet(errors)
          BY DEF ToSet
        <5> QED  BY <1>6, <2>6, <5>1
      <4>2. \A a, b \in DOMAIN errors : errors[a] = errors[b] => a = b
        BY <2>2 DEF IsInjective
      <4> QED  BY <1>7, <3>1, <4>1, <4>2 DEF IsInjective
    <3>4. Len(errors') <= MaxErrorsStored
      BY <1>6, <1>7, <2>5, <2>7, <3>1
    <3>5. ToSet(errors') = ToSet(errors) \cup {total + 1}
      BY <1>7, <3>1
    <3> QED  BY <2>2, <2>4, <3>2, <3>3, <3>4, <3>5
  <2>8. CASE ~(Len(errors) < MaxErrorsStored)
    <3>1. errors' = errors /\ Len(errors) = MaxErrorsStored
      BY <1>6, <2>1, <2>2, <2>5, <2>8 DEF KeepError
    <3> QED  BY <2>2, <2>4, <2>6, <3>1
  <2> QED  BY <2>7, <2>8
<1> QED  BY <1>4, <1>8, <1>9, <1>10, <1>11, <1>12 DEF LoaderInv

LEMMA LoaderStepLemma ==
    LoaderInv /\ [LoaderStep \/ LoaderOver]_loaderVars => LoaderInv'
<1> SUFFICES ASSUME LoaderInv, [LoaderStep \/ LoaderOver]_loaderVars PROVE LoaderInv'
  OBVIOUS
<1> USE DEF loaderVars
<1>D. phase = "reading" => Opens
  BY DEF LoaderInv, OpenInv
<1>1. CASE DetectFormat
  BY <1>1, NoRowLemma DEF DetectFormat
<1>9. CASE OpenFile
  BY <1>9, NoRowLemma DEF OpenFile
<1>2. CASE SkipBlank
  BY <1>2, SkipBlankLemma
<1>3. CASE RejectGarbage
  BY <1>3, NoRowLemma DEF RejectGarbage, Reading
<1>4. CASE AcceptRow
  BY <1>4, AcceptRowLemma
<1>5. CASE SkipRow
  BY <1>5, SkipRowLemma
<1>6. CASE RaiseInvalid
  BY <1>6, NoRowLemma DEF RaiseInvalid, Reading, Count
<1>7. CASE ReturnResult
  <2>1. Len(file.rows) \in Nat
    BY RowsLemma DEF LoaderInv
  <2>2. line \in 1..(Len(file.rows) + 1) /\ line > Len(file.rows)
    BY <1>7 DEF LoaderInv, LoaderTypeOK, ReturnResult
  <2>3. line = Len(file.rows) + 1
    BY <2>1, <2>2
  <2> QED  BY <1>7, <1>D, <2>3, NoRowLemma DEF ReturnResult
<1>8. CASE UNCHANGED loaderVars
  <2>1. /\ Read(Rows)' = Read(Rows) /\ Read(Entries)' = Read(Entries)
        /\ BadNumbers' = BadNumbers /\ FileInv' /\ Opens' = Opens
    BY <1>8, SameFile DEF LoaderInv, Read, BadNumbers
  <2> QED  BY <1>8, <2>1 DEF LoaderInv, LoaderTypeOK, ReadInv, Lists, EndInv, OpenInv, TotalInv,
                             StoredInv, Counting
<1> QED  BY <1>1, <1>2, <1>3, <1>4, <1>5, <1>6, <1>7, <1>8, <1>9 DEF LoaderStep, LoaderOver

-----------------------------------------------------------------------------
(* The theorems.                                                           *)

LEMMA LoaderInvariant ==
    LoaderSpec => []LoaderInv
BY InitLemma, LoaderStepLemma, PTL DEF LoaderSpec

(* Every variable of load_logs() has its type.                             *)
THEOREM LoaderTypeCorrect ==
    LoaderSpec => []LoaderTypeOK
<1>1. LoaderInv => LoaderTypeOK
  BY DEF LoaderInv
<1> QED  BY <1>1, LoaderInvariant, PTL

(* At the end of the file every row has been read.                         *)
LEMMA AllRead ==
    ASSUME LoaderInv, phase = "loaded"
    PROVE  /\ Read(Rows) = Rows /\ Read(Entries) = Entries
           /\ Read(Bad) = Bad
<1>1. /\ Rows \subseteq 1..Len(file.rows) /\ Entries \subseteq Rows
      /\ Len(file.rows) \in Nat
  BY RowsLemma DEF LoaderInv
<1>2. line = Len(file.rows) + 1
  BY DEF LoaderInv, EndInv
<1>3. \A i \in Rows : i < line
  BY <1>1, <1>2
<1> QED  BY <1>1, <1>3 DEF Read, Bad

(* load_logs() returns the whole file and only the file, and iter_logs()   *)
(* has yielded what precedes the row that stopped it.                      *)
THEOREM ResultsWhole ==
    LoaderSpec => []ResultIsFile
<1>1. LoaderInv => ResultIsFile
  <2> SUFFICES ASSUME LoaderInv PROVE ResultIsFile
    OBVIOUS
  <2>1. phase = "loaded" => /\ Lists(logs, Entries)
                            /\ api = "load" => /\ total = Cardinality(Rows)
                                               /\ total = Len(logs) + skipped
    BY AllRead DEF LoaderInv, ReadInv, TotalInv, Counting
  <2>2. phase = "failed" => Lists(logs, {i \in Entries : i < line})
    BY DEF LoaderInv, ReadInv, Read
  <2>3. Format = "json" /\ (\E i \in DOMAIN file.rows : file.rows[i].kind = "broken") => logs = <<>>
    BY DEF LoaderInv, OpenInv, Opens
  <2> QED  BY <2>1, <2>2, <2>3 DEF ResultIsFile
<1> QED  BY <1>1, LoaderInvariant, PTL

(* The cap of stored errors keeps those of the first rows that were        *)
(* skipped, under their numbers.                                           *)
THEOREM FirstErrorsKept ==
    LoaderSpec => []ErrorsNameSkipped
<1>1. LoaderInv => ErrorsNameSkipped
  <2> SUFFICES ASSUME LoaderInv, phase = "loaded", api = "load"
               PROVE  ErrorsNameSkipped
    BY DEF ErrorsNameSkipped
  <2>1. BadNumbers = {Number(i) : i \in Rows \ Entries}
    BY AllRead DEF BadNumbers, Bad
  <2> QED  BY <2>1 DEF LoaderInv, StoredInv, Counting, ErrorsNameSkipped
<1> QED  BY <1>1, LoaderInvariant, PTL

(* A cell that is accepted in JSON is accepted in a CSV and vice versa,    *)
(* unless it is one of the exceptions.                                     *)
LEMMA CellLemma ==
    ASSUME NEW cells \in [Fields -> Cell], NEW f \in Fields, <<f, cells[f]>> \notin FormatDependent
    PROVE  CleanCsvRow(cells)[f] \in Accepted(f) <=> cells[f] \in Accepted(f)
<1> DEFINE c == cells[f]
<1>1. c \in Cell
  OBVIOUS
<1>2. CleanCsvRow(cells)[f] = CASE c \in {"null", "empty"}                     -> "missing"
                                [] f = "nested" /\ c \in {"object", "objtext"} -> "object"
                                [] OTHER                                       -> AsText(c)
  BY DEF CleanCsvRow
<1>3. <<f, c>> \notin FormatDependent
  OBVIOUS
<1>c. cells[f] = c
  OBVIOUS
<1> HIDE DEF c
<1> USE <1>1, <1>2, <1>c DEF Cell, Accepted, Texts, AsText
<1>4. CASE f = "id"
  <2>1. c \notin {"empty", "int", "float", "infinite", "bool", "object"}
    BY <1>3, <1>4 DEF FormatDependent
  <2> QED  BY <1>4, <2>1
<1>5. CASE f = "description"
  <2>1. c \notin {"int", "float", "infinite", "bool", "object"}
    BY <1>3, <1>5 DEF FormatDependent
  <2> QED  BY <1>5, <2>1
<1>6. CASE f = "user"
  <2>1. c \notin {"int", "float", "infinite", "bool", "object"}
    BY <1>3, <1>6 DEF FormatDependent
  <2> QED  BY <1>6, <2>1
<1>7. CASE f = "timestamp"
  BY <1>7
<1>8. CASE f = "event_type"
  BY <1>8
<1>9. CASE f = "severity"
  <2>1. c \notin {"empty"}
    BY <1>3, <1>9 DEF FormatDependent
  <2> QED  BY <1>9, <2>1
<1>10. CASE f = "ip"
  <2>1. c \notin {"int", "bool"}
    BY <1>3, <1>10 DEF FormatDependent
  <2> QED  BY <1>10, <2>1
<1>11. CASE f = "port"
  <2>1. c \notin {"float", "infinite", "bool"}
    BY <1>3, <1>11 DEF FormatDependent
  <2> QED  BY <1>11, <2>1
<1>12. CASE f = "nested"
  <2>1. c \notin {"empty", "null", "objtext"}
    BY <1>3, <1>12 DEF FormatDependent
  <2> QED  BY <1>12, <2>1
<1> QED  BY <1>4, <1>5, <1>6, <1>7, <1>8, <1>9, <1>10, <1>11, <1>12 DEF Fields

(* One event is an entry of the result or skipped whichever format its     *)
(* export has, for every event without the cells that are listed.          *)
THEOREM FormatsReadAlike ==
    LoaderSpec => []FormatsAgree
<1>1. LoaderInv => FormatsAgree
  <2> SUFFICES ASSUME LoaderInv, phase = "loaded", Format = file.layout,
                      NEW i \in DOMAIN file.rows,
                      file.rows[i].kind = "object",
                      \A f \in Fields : <<f, file.rows[i].cells[f]>> \notin FormatDependent
               PROVE  i \in ToSet(logs) <=> Validates(file.rows[i].cells)
    BY DEF FormatsAgree
  <2>1. i \in ToSet(logs) <=> Validates(Cells(i))
    <3>1. ToSet(logs) = Entries
      BY AllRead DEF LoaderInv, ReadInv, Lists
    <3> QED  BY <3>1 DEF Entries, IsEntry
  <2> DEFINE cells == file.rows[i].cells
  <2>2. cells \in [Fields -> Cell]
    <3>1. file.rows[i] \in RowType
      BY DEF LoaderInv, FileInv
    <3> QED  BY <3>1 DEF RowType
  <2>3. \A f \in Fields : CleanCsvRow(cells)[f] \in Accepted(f) <=> cells[f] \in Accepted(f)
    <3>1. \A f \in Fields : <<f, cells[f]>> \notin FormatDependent
      OBVIOUS
    <3> HIDE DEF cells
    <3> QED  BY <2>2, <3>1, CellLemma
  <2>4. Validates(CleanCsvRow(cells)) <=> Validates(cells)
    BY <2>3 DEF Validates
  <2> QED  BY <2>1, <2>4 DEF Cells
<1> QED  BY <1>1, LoaderInvariant, PTL
=============================================================================
