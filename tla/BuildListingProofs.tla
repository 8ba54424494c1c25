-------------------------- MODULE BuildListingProofs --------------------------
(***************************************************************************)
(* Theorems about BuildListing: what a list may say and leave out while    *)
(* the agent writes, for any directories of the two homes, any lines and   *)
(* any summaries, however often they are written.                          *)
(***************************************************************************)
EXTENDS BuildListing, FiniteSetTheorems, TLAPS

(* What was answered is remembered, and only finitely much is.             *)
Remembered == acked \subseteq created /\ IsFiniteSet(created)

(* A summary is whole only after it was written.                           *)
Written == \A p \in Dirs : file[p] = "whole" => summary[p] \in Summaries

(* A row knows its directory: the summary is still the one that was read   *)
(* unless it was begun anew, and a human turn that was seen stays.         *)
Current(r) == r.place # 0 /\ version[r.place] = r.version
Believed(r) ==
  r.place # 0 =>
    /\ file[r.place] # "none"
    /\ r.version <= version[r.place]
    /\ Current(r) => /\ file[r.place] = "whole" /\ r.id = RowId(r.place)
                     /\ r.human => HasHuman(r.place) /\ ~ Stamped(r.place)

(* No two rows have one id, and each comes from the home of the walk.      *)
Apart(rows) == \A i, j \in DOMAIN rows : rows[i].id = rows[j].id => i = j
Of(home, r) == IF r.place = 0 THEN ~ r.human ELSE r.place \in Below(home)
ListOK(l) == Apart(l.rows) /\ \A r \in Range(l.rows) : Believed(r) /\ Of(l.home, r)

(* What a walk has read of a directory when it is between two files. *)
Between(r) ==
  /\ r \in ARow /\ r.place = list.at /\ r.place \in Below(list.home)
  /\ Believed(r) /\ ~ r.human
  /\ Current(r) => ~ Stamped(r.place)
RowOK == step # "summary" => Between(row)

(* The walk has listed the chats that are due and behind it, and when it   *)
(* is between two files of one, the person is in a file it has yet to read.*)
Due(p) ==
  /\ list.at # 0 /\ p \in Below(list.home)
  /\ file[p] = "whole" /\ ~ Stamped(p) /\ HasHuman(p)
  /\ p < list.at => RowId(p) \in RowIds(list.rows)
  /\ p = list.at /\ step # "summary"
      => row.version = version[p] /\ (step = "updates" => HumanIn(lines[p]["updates"]))
DueOK == \A p \in due : Due(p)

(* The rows that must stay are due when the same home is walked again. *)
Stays(r) == r.human /\ Current(r)
StaysDue ==
  list.at # 0 /\ list.home = shown.home =>
    \A r \in Range(shown.rows) : Stays(r) => r.place \in due

IInv ==
  /\ TypeOK /\ Remembered /\ Written
  /\ ListOK(list) /\ ListOK(shown)
  /\ RowOK /\ DueOK /\ StaysDue
(***************************************************************************)
(* About the operators.                                                    *)
(***************************************************************************)
LEMMA SeqFacts ==
  ASSUME NEW S, NEW s \in Seq(S)
  PROVE  /\ Len(s) \in Nat /\ DOMAIN s = 1..Len(s)
         /\ \A i \in DOMAIN s : s[i] \in S
OBVIOUS

LEMMA PlaceFacts ==
  /\ Len(Places) \in Nat /\ Dirs = 1..Len(Places)
  /\ \A p \in Dirs : Name(p) \in Ids /\ Places[p].home \in {"own", "inferred"}
<1>1. Places \in Seq([home : {"own", "inferred"}, name : Ids])
  BY ConstantsAssumption
<1>2. Len(Places) \in Nat /\ Dirs = 1..Len(Places)
  BY <1>1, SeqFacts DEF Dirs
<1>3. \A p \in Dirs : Places[p] \in [home : {"own", "inferred"}, name : Ids]
  BY <1>1, SeqFacts DEF Dirs
<1> QED
  BY <1>2, <1>3 DEF Name

LEMMA HomeType == Home \in {"own", "inferred"}
BY DEF Home

(* A set of directories that is not empty has a first one. *)
LEMMA FirstPlace ==
  ASSUME NEW S \in SUBSET Nat, S # {}
  PROVE  Min(S) \in S
<1> DEFINE Below1 == {1..n : n \in S}
<1>1. \A n \in S : 1..n \in FiniteSubsetsOf(Nat)
  BY FS_Interval DEF FiniteSubsetsOf
<1>2. PICK x \in Below1 : \A y \in Below1 : ~ (<<y, x>> \in StrictSubsetOrdering(Nat))
  <2>1. Below1 \subseteq FiniteSubsetsOf(Nat) /\ Below1 # {}
    BY <1>1
  <2> HIDE DEF Below1
  <2> QED
    BY <2>1, FS_StrictSubsetOrderingWellFounded, WFMin
<1>3. PICK m \in S : x = 1..m
  BY <1>2
<1>4. ASSUME NEW n \in S, n < m
      PROVE  FALSE
  <2>1. 1..n \subseteq 1..m /\ 1..n # 1..m
    <3>1. m \in 1..m /\ m \notin 1..n
      BY <1>4
    <3> QED
      BY <1>4, <3>1
  <2>2. <<1..n, 1..m>> \in StrictSubsetOrdering(Nat)
    BY <2>1 DEF StrictSubsetOrdering
  <2> QED
    BY <2>2, <1>2, <1>3
<1>5. \A n \in S : m <= n
  BY <1>4
<1> QED
  BY <1>3, <1>5 DEF Min

LEMMA AppendFacts ==
  ASSUME NEW S, NEW s \in Seq(S), NEW x \in S
  PROVE  /\ Append(s, x) \in Seq(S)
         /\ Len(Append(s, x)) = Len(s) + 1
         /\ DOMAIN s = 1..Len(s) /\ DOMAIN Append(s, x) = 1..(Len(s) + 1)
         /\ Append(s, x)[Len(s) + 1] = x
         /\ \A i \in 1..Len(s) : Append(s, x)[i] = s[i]
OBVIOUS

LEMMA ConcatFacts ==
  ASSUME NEW S, NEW s \in Seq(S), NEW t \in Seq(S)
  PROVE  /\ s \o t \in Seq(S)
         /\ DOMAIN s = 1..Len(s) /\ DOMAIN t = 1..Len(t)
         /\ DOMAIN (s \o t) = 1..(Len(s) + Len(t))
         /\ \A i \in 1..Len(s) : (s \o t)[i] = s[i]
         /\ \A i \in 1..Len(t) : (s \o t)[Len(s) + i] = t[i]
         /\ \A i \in Len(s) + 1..Len(s) + Len(t) : i - Len(s) \in 1..Len(t) /\ (s \o t)[i] = t[i - Len(s)]
OBVIOUS

(* A finite set is listed by SetToSeq, each of its members once. *)
LEMMA SetToSeqFacts ==
  ASSUME NEW S, IsFiniteSet(S)
  PROVE  /\ Cardinality(S) \in Nat
         /\ SetToSeq(S) \in [1..Cardinality(S) -> S]
         /\ \A i, j \in 1..Cardinality(S) : SetToSeq(S)[i] = SetToSeq(S)[j] => i = j
         /\ \A x \in S : \E i \in 1..Cardinality(S) : SetToSeq(S)[i] = x
<1> DEFINE D == 1..Cardinality(S)
           f == SetToSeq(S)
<1>1. Cardinality(S) \in Nat /\ ExistsBijection(D, S)
  BY FS_CardinalityType
<1>2. f \in [D -> S] /\ IsInjective(f)
  <2>1. \E g \in [D -> S] : IsInjective(g)
    BY <1>1 DEF ExistsBijection, Bijection, Injection
  <2> QED
    BY <2>1 DEF SetToSeq
<1>3. IsFiniteSet(D) /\ Cardinality(D) = Cardinality(S)
  BY <1>1, FS_Interval
<1>4. f \in Injection(D, S)
  BY <1>2 DEF Injection
<1>5. f \in Surjection(D, S)
  BY <1>3, <1>4, FS_Injection
<1> QED
  BY <1>1, <1>2, <1>5 DEF IsInjective, Surjection
(***************************************************************************)
(* Rows and their types.                                                   *)
(***************************************************************************)
LEMMA RowsFacts ==
  ASSUME TypeOK
  PROVE  /\ Rows = Seq(ARow)
         /\ list.rows \in Seq(ARow) /\ shown.rows \in Seq(ARow)
         /\ \A i \in DOMAIN list.rows : list.rows[i] \in ARow
         /\ \A i \in DOMAIN shown.rows : shown.rows[i] \in ARow
<1>1. Rows = Seq(ARow)
  BY DEF Rows
<1>2. list.rows \in Seq(ARow) /\ shown.rows \in Seq(ARow)
  BY <1>1 DEF TypeOK, Lists
<1> QED
  BY <1>1, <1>2, SeqFacts

LEMMA RowIdType ==
  ASSUME TypeOK, Written, NEW p \in Dirs, file[p] = "whole"
  PROVE  RowId(p) \in Ids /\ version[p] \in Nat
<1>1. summary[p].id \in Ids \cup {None}
  BY ConstantsAssumption DEF Written
<1> QED
  BY <1>1, PlaceFacts DEF RowId, TypeOK

(* The rows for what was created: one for each session that has no row.   *)
LEMMA CreatedRowsFacts ==
  ASSUME TypeOK, Remembered
  PROVE  /\ CreatedRows \in Seq(ARow)
         /\ Apart(CreatedRows)
         /\ RowIds(CreatedRows) = created \ RowIds(list.rows)
         /\ \A i \in DOMAIN CreatedRows : CreatedRows[i].place = 0 /\ ~ CreatedRows[i].human
<1> DEFINE S == created \ RowIds(list.rows)
           n == Cardinality(S)
           q == SetToSeq(S)
<1>1. IsFiniteSet(S) /\ S \subseteq Ids
  BY FS_Difference DEF Remembered, TypeOK
<1>2. /\ n \in Nat /\ q \in [1..n -> S]
      /\ \A i, j \in 1..n : q[i] = q[j] => i = j
      /\ \A x \in S : \E i \in 1..n : q[i] = x
  BY <1>1, SetToSeqFacts
<1>3. CreatedRows = [i \in 1..n |-> [id |-> q[i], place |-> 0, version |-> 0,
                                     human |-> FALSE, grokOnly |-> FALSE]]
  BY DEF CreatedRows
<1> HIDE DEF S, n, q
<1>4. DOMAIN CreatedRows = 1..n
  BY <1>3
<1>5. \A i \in 1..n : /\ CreatedRows[i] \in ARow /\ CreatedRows[i].id = q[i]
                      /\ CreatedRows[i].place = 0 /\ ~ CreatedRows[i].human
  BY <1>1, <1>2, <1>3 DEF ARow
<1>6. CreatedRows \in Seq(ARow)
  <2>1. CreatedRows \in [1..n -> ARow]
    BY <1>3, <1>5
  <2> QED
    BY <2>1, <1>2
<1>7. RowIds(CreatedRows) = S
  BY <1>2, <1>4, <1>5 DEF RowIds
<1> QED
  BY <1>2, <1>4, <1>5, <1>6, <1>7 DEF Apart, S

LEMMA RangeFacts ==
  ASSUME NEW S, NEW s \in Seq(S)
  PROVE  /\ Range(s) \subseteq S
         /\ \A r \in Range(s) : \E i \in DOMAIN s : s[i] = r
         /\ \A x \in S : Range(Append(s, x)) = Range(s) \cup {x}
         /\ \A t \in Seq(S) : Range(s \o t) = Range(s) \cup Range(t)
<1>1. Range(s) \subseteq S /\ \A r \in Range(s) : \E i \in DOMAIN s : s[i] = r
  BY DEF Range
<1>2. ASSUME NEW x \in S
      PROVE  Range(Append(s, x)) = Range(s) \cup {x}
  BY AppendFacts DEF Range
<1>3. ASSUME NEW t \in Seq(S)
      PROVE  Range(s \o t) = Range(s) \cup Range(t)
  <2>1. ASSUME NEW r \in Range(s \o t)
        PROVE  r \in Range(s) \cup Range(t)
    <3>1. PICK i \in 1..(Len(s) + Len(t)) : (s \o t)[i] = r
      BY <2>1, ConcatFacts DEF Range
    <3>2. CASE i \in 1..Len(s)
      BY <3>1, <3>2, ConcatFacts DEF Range
    <3>3. CASE i \in Len(s) + 1..Len(s) + Len(t)
      BY <3>1, <3>3, ConcatFacts DEF Range
    <3> QED
      BY <3>2, <3>3
  <2>2. ASSUME NEW r \in Range(s)
        PROVE  r \in Range(s \o t)
    <3>1. PICK i \in 1..Len(s) : s[i] = r
      BY <2>2 DEF Range
    <3>2. i \in DOMAIN (s \o t) /\ (s \o t)[i] = r
      BY <3>1, ConcatFacts
    <3> QED
      BY <3>2 DEF Range
  <2>3. ASSUME NEW r \in Range(t)
        PROVE  r \in Range(s \o t)
    <3>1. PICK i \in 1..Len(t) : t[i] = r
      BY <2>3 DEF Range
    <3>2. Len(s) + i \in DOMAIN (s \o t) /\ (s \o t)[Len(s) + i] = r
      BY <3>1, ConcatFacts
    <3> QED
      BY <3>2 DEF Range
  <2> QED
    BY <2>1, <2>2, <2>3
<1> QED
  BY <1>1, <1>2, <1>3

(* The ids of the rows, and rows of new ids put behind them. *)
LEMMA IdsFacts ==
  ASSUME NEW s \in Seq(ARow)
  PROVE  /\ \A r \in Range(s) : r.id \in RowIds(s)
         /\ \A t \in Seq(ARow) : RowIds(s \o t) = RowIds(s) \cup RowIds(t)
         /\ \A x \in ARow : RowIds(Append(s, x)) = RowIds(s) \cup {x.id}
<1>1. \A t \in Seq(ARow) : RowIds(t) = {r.id : r \in Range(t)}
  BY DEF RowIds, Range
<1>2. RowIds(s) = {r.id : r \in Range(s)}
  BY <1>1
<1>3. ASSUME NEW x \in ARow
      PROVE  RowIds(Append(s, x)) = RowIds(s) \cup {x.id}
  <2>1. Append(s, x) \in Seq(ARow) /\ Range(Append(s, x)) = Range(s) \cup {x}
    BY AppendFacts, RangeFacts
  <2> QED
    BY <1>1, <1>2, <2>1
<1>4. ASSUME NEW t \in Seq(ARow)
      PROVE  RowIds(s \o t) = RowIds(s) \cup RowIds(t)
  <2>1. s \o t \in Seq(ARow) /\ Range(s \o t) = Range(s) \cup Range(t)
    BY ConcatFacts, RangeFacts
  <2> QED
    BY <1>1, <1>2, <2>1
<1> QED
  BY <1>2, <1>3, <1>4

LEMMA ApartFacts ==
  ASSUME NEW s \in Seq(ARow), Apart(s)
  PROVE  /\ \A x \in ARow : x.id \notin RowIds(s) => Apart(Append(s, x))
         /\ \A t \in Seq(ARow) : Apart(t) /\ RowIds(s) \cap RowIds(t) = {} => Apart(s \o t)
<1>1. ASSUME NEW x \in ARow, x.id \notin RowIds(s)
      PROVE  Apart(Append(s, x))
  BY <1>1, AppendFacts DEF Apart, RowIds
<1>2. ASSUME NEW t \in Seq(ARow), Apart(t), RowIds(s) \cap RowIds(t) = {}
      PROVE  Apart(s \o t)
  <2>1. \A i \in 1..Len(s) : (s \o t)[i].id \in RowIds(s)
    BY ConcatFacts DEF RowIds
  <2>2. \A i \in Len(s) + 1..Len(s) + Len(t) : (s \o t)[i].id \in RowIds(t)
    BY ConcatFacts DEF RowIds
  <2> SUFFICES ASSUME NEW i \in DOMAIN (s \o t), NEW j \in DOMAIN (s \o t),
                      (s \o t)[i].id = (s \o t)[j].id
               PROVE  i = j
    BY DEF Apart
  <2>3. i \in 1..(Len(s) + Len(t)) /\ j \in 1..(Len(s) + Len(t)) /\ Len(s) \in Nat /\ Len(t) \in Nat
    BY ConcatFacts
  <2>4. CASE i <= Len(s) /\ j <= Len(s)
    BY <2>3, <2>4, ConcatFacts DEF Apart
  <2>5. CASE i > Len(s) /\ j > Len(s)
    BY <2>3, <2>5, <1>2, ConcatFacts DEF Apart
  <2>6. CASE ~ (i <= Len(s) <=> j <= Len(s))
    BY <2>1, <2>2, <2>3, <2>6, <1>2
  <2> QED
    BY <2>3, <2>4, <2>5, <2>6
<1> QED
  BY <1>1, <1>2

(* The row of a directory takes its place behind the others.               *)
LEMMA FinishFacts ==
  ASSUME TypeOK, list.at \in Dirs, NEW r \in ARow, Finish(r)
  PROVE  /\ list' \in Lists /\ list'.at = list.at + 1 /\ list'.home = list.home
         /\ step' = "summary" /\ row' = NoRow
         /\ RowIds(list.rows) \subseteq RowIds(list'.rows)
         /\ ~ r.grokOnly => r.id \in RowIds(list'.rows)
         /\ Apart(list.rows) => Apart(list'.rows)
         /\ Range(list'.rows) \subseteq Range(list.rows) \cup {r}
<1> DEFINE new == (r.grokOnly => list.all) /\ r.id \notin RowIds(list.rows)
<1>1. /\ list \in Lists /\ Rows = Seq(ARow) /\ list.rows \in Seq(ARow)
      /\ Len(Places) \in Nat /\ Dirs = 1..Len(Places)
  BY RowsFacts, PlaceFacts DEF TypeOK
<1>2. /\ step' = "summary" /\ row' = NoRow
      /\ list' = [at |-> list.at + 1, home |-> list.home, all |-> list.all,
                  rows |-> IF new THEN Append(list.rows, r) ELSE list.rows]
  BY <1>1 DEF Finish, Lists
<1>3. list'.rows \in Seq(ARow)
  BY <1>1, <1>2
<1>4. list' \in Lists
  BY <1>1, <1>2, <1>3 DEF Lists
<1>5. CASE new
  <2>1. list'.rows = Append(list.rows, r)
    BY <1>2, <1>5
  <2> QED
    BY <1>1, <1>2, <1>4, <1>5, <2>1, IdsFacts, ApartFacts, RangeFacts
<1>6. CASE ~ new
  <2>1. list'.rows = list.rows
    BY <1>2, <1>6
  <2>2. ~ r.grokOnly => r.id \in RowIds(list.rows)
    BY <1>6
  <2> QED
    BY <1>2, <1>4, <2>1, <2>2
<1> QED
  BY <1>5, <1>6

(* What reading one file does: the directory is passed by, or its next     *)
(* file is read, or its row is complete.                                   *)
Skips(p) ==
  /\ p \notin Below(list.home) \/ file[p] # "whole"
  /\ list' = [list EXCEPT !.at = @ + 1] /\ step = "summary"
  /\ UNCHANGED <<step, row>>
GoesOn(p) ==
  /\ UNCHANGED list /\ step' \in Files /\ Between(row')
  /\ p \in due => /\ row'.version = version[p]
                  /\ step' = "updates" => HumanIn(lines[p]["updates"])
Finishes(p) ==
  \E r \in ARow :
    /\ Finish(r) /\ r.place = p /\ p \in Below(list.home) /\ Believed(r)
    /\ p \in due => ~ r.grokOnly /\ r.id = RowId(p)

LEMMA ActivityType == \A s : ActivityIn(s) \in BOOLEAN
BY DEF ActivityIn

LEMMA SummaryCases ==
  ASSUME IInv, NEW p \in Dirs, ReadSummary(p)
  PROVE  Skips(p) \/ GoesOn(p) \/ Finishes(p)
<1> DEFINE read == [id |-> RowId(p), place |-> p, version |-> version[p], human |-> FALSE,
                   grokOnly |-> FALSE]
<1>1. p = list.at /\ step = "summary" /\ p # 0
  BY PlaceFacts DEF ReadSummary
<1>2. CASE ~ (p \in Below(list.home) /\ file[p] = "whole")
  BY <1>1, <1>2 DEF ReadSummary, Skips
<1>3. CASE p \in Below(list.home) /\ file[p] = "whole"
  <2>1. RowId(p) \in Ids /\ version[p] \in Nat
    BY <1>3, RowIdType DEF IInv
  <2>2. read \in ARow
    BY <2>1 DEF ARow
  <2>3. CASE Stamped(p)
    <3> DEFINE r == [read EXCEPT !.grokOnly = TRUE]
    <3>1. Finish(r)
      BY <1>3, <2>3 DEF ReadSummary
    <3>2. /\ r \in ARow /\ r.place = p /\ r.id = RowId(p) /\ r.version = version[p]
          /\ ~ r.human
      BY <2>2 DEF ARow
    <3>3. Believed(r)
      BY <1>1, <1>3, <2>1, <3>2 DEF Believed, Current
    <3>4. p \notin due
      BY <2>3 DEF IInv, DueOK, Due
    <3> QED
      BY <1>3, <3>1, <3>2, <3>3, <3>4 DEF Finishes
  <2>4. CASE ~ Stamped(p)
    <3>1. list' = list /\ step' = "chat" /\ row' = read
      BY <1>3, <2>4 DEF ReadSummary
    <3>2. Between(read)
      BY <1>1, <1>3, <2>1, <2>2, <2>4 DEF Between, Believed, Current
    <3> QED
      BY <2>2, <3>1, <3>2 DEF GoesOn, Files
  <2> QED
    BY <2>3, <2>4
<1> QED
  BY <1>2, <1>3

LEMMA LinesCases ==
  ASSUME IInv, NEW p \in Dirs, ReadLines(p)
  PROVE  GoesOn(p) \/ Finishes(p)
<1> DEFINE s == lines[p][step]
           active == row.grokOnly \/ ActivityIn(s)
<1>1. p = list.at /\ step # "summary" /\ step \in Files /\ p # 0
  BY PlaceFacts DEF ReadLines, IInv, TypeOK
<1>2. /\ row \in ARow /\ row.place = p /\ p \in Below(list.home) /\ Believed(row)
      /\ ~ row.human /\ (Current(row) => ~ Stamped(p))
  BY <1>1 DEF IInv, RowOK, Between
<1>3. p \in due => /\ row.version = version[p] /\ row.id = RowId(p) /\ HasHuman(p)
                   /\ step = "updates" => HumanIn(s)
  BY <1>1, <1>2 DEF IInv, DueOK, Due, Believed, Current
<1>4. active \in BOOLEAN
  BY <1>2, ActivityType DEF ARow
<1>5. CASE HumanIn(s)
  <2> DEFINE r == [row EXCEPT !.human = TRUE, !.grokOnly = FALSE]
  <2>1. Finish(r)
    BY <1>5 DEF ReadLines
  <2>2. r \in ARow /\ r.place = p /\ r.id = row.id /\ r.version = row.version /\ ~ r.grokOnly
    BY <1>2 DEF ARow
  <2>3. HasHuman(p)
    BY <1>1, <1>5 DEF HasHuman
  <2>4. Believed(r)
    BY <1>2, <2>2, <2>3 DEF Believed, Current
  <2> QED
    BY <1>2, <1>3, <2>1, <2>2, <2>4 DEF Finishes
<1>6. CASE ~ HumanIn(s) /\ step = "updates"
  <2> DEFINE r == [row EXCEPT !.grokOnly = active]
  <2>1. Finish(r)
    BY <1>6 DEF ReadLines
  <2> HIDE DEF active
  <2>2. r \in ARow /\ r.place = p /\ r.id = row.id /\ r.version = row.version /\ r.human = row.human
    BY <1>2, <1>4 DEF ARow
  <2>3. Believed(r)
    BY <1>2, <2>2 DEF Believed, Current
  <2> QED
    BY <1>2, <1>3, <1>6, <2>1, <2>2, <2>3 DEF Finishes
<1>7. CASE ~ HumanIn(s) /\ step = "chat"
  <2> DEFINE r == [row EXCEPT !.grokOnly = active]
  <2>1. list' = list /\ step' = "updates" /\ row' = r
    BY <1>7 DEF ReadLines
  <2> HIDE DEF active
  <2>2. r \in ARow /\ r.place = p /\ r.id = row.id /\ r.version = row.version /\ r.human = row.human
    BY <1>2, <1>4 DEF ARow
  <2>3. Between(r)
    BY <1>1, <1>2, <2>2 DEF Between, Believed, Current
  <2>4. p \in due => HumanIn(lines[p]["updates"])
    BY <1>3, <1>7 DEF HasHuman, Files
  <2> QED
    BY <1>3, <2>1, <2>2, <2>3, <2>4 DEF GoesOn, Files
<1> QED
  BY <1>1, <1>5, <1>6, <1>7 DEF Files

LEMMA ReadCases ==
  ASSUME IInv, NEW p \in Dirs, ReadSummary(p) \/ ReadLines(p)
  PROVE  /\ p = list.at
         /\ UNCHANGED <<file, summary, version, lines, created, create, shown, acked, due>>
         /\ Skips(p) \/ GoesOn(p) \/ Finishes(p)
BY SummaryCases, LinesCases DEF ReadSummary, ReadLines, disk

(***************************************************************************)
(* The shape of the state, and what it says of itself.                     *)
(***************************************************************************)
Basis == TypeOK /\ Remembered /\ Written

LEMMA NoListType == NoList \in Lists
BY PlaceFacts DEF NoList, Lists, Rows

LEMMA InitBasis == Init => Basis
<1> SUFFICES ASSUME Init
             PROVE  Basis
  OBVIOUS
<1>1. TypeOK
  BY NoListType DEF Init, TypeOK
<1>2. Remembered /\ Written
  BY FS_EmptySet DEF Init, Remembered, Written
<1> QED
  BY <1>1, <1>2 DEF Basis

LEMMA MergeType ==
  ASSUME Basis, ListMerge
  PROVE  /\ shown' = [at |-> list.at, home |-> list.home, all |-> list.all,
                      rows |-> list.rows \o CreatedRows]
         /\ shown' \in Lists
<1>1. list \in Lists
  BY DEF Basis, TypeOK
<1>2. shown' = [at |-> list.at, home |-> list.home, all |-> list.all,
                rows |-> list.rows \o CreatedRows]
  BY <1>1 DEF ListMerge, Lists
<1>3. list.rows \o CreatedRows \in Seq(ARow)
  BY RowsFacts, CreatedRowsFacts, ConcatFacts DEF Basis
<1> QED
  BY <1>1, <1>2, <1>3, RowsFacts DEF Lists, Basis

LEMMA BeginType ==
  ASSUME TypeOK, ListBegin
  PROVE  list' \in Lists /\ list'.at = 1 /\ list'.home = Home /\ list'.rows = <<>>
<1>1. PICK all \in BOOLEAN : list' = [at |-> 1, home |-> Home, all |-> all, rows |-> <<>>]
  BY DEF ListBegin
<1>2. <<>> \in Rows /\ 1 \in 0..(Len(Places) + 1)
  BY PlaceFacts DEF Rows
<1> QED
  BY <1>1, <1>2, HomeType DEF Lists

LEMMA ReadType ==
  ASSUME IInv, NEW p \in Dirs, ReadSummary(p) \/ ReadLines(p)
  PROVE  /\ list' \in Lists /\ step' \in {"summary"} \cup Files
         /\ IF step' = "summary" THEN row' = NoRow ELSE list'.at \in Dirs /\ row' \in ARow
<1>1. /\ list \in Lists /\ step \in {"summary"} \cup Files /\ p = list.at
      /\ Len(Places) \in Nat /\ Dirs = 1..Len(Places)
      /\ step = "summary" => row = NoRow
  BY ReadCases, PlaceFacts DEF IInv, TypeOK
<1>2. CASE Skips(p)
  <2>1. list' = [at |-> p + 1, home |-> list.home, all |-> list.all, rows |-> list.rows]
    BY <1>1, <1>2 DEF Skips, Lists
  <2> QED
    BY <1>1, <1>2, <2>1 DEF Skips, Lists
<1>3. CASE GoesOn(p)
  BY <1>1, <1>3 DEF GoesOn, Between, Files
<1>4. CASE Finishes(p)
  BY <1>1, <1>4, FinishFacts DEF Finishes, IInv
<1> QED
  BY <1>2, <1>3, <1>4, ReadCases

LEMMA NextBasis == IInv /\ [Next]_vars => Basis'
<1> SUFFICES ASSUME IInv, [Next]_vars
             PROVE  Basis'
  OBVIOUS
<1>0. TypeOK /\ Remembered /\ Written
  BY DEF IInv
<1> USE <1>0 DEF Basis, TypeOK, Remembered, Written
<1>1. CASE ListBegin
  <2>1. list' \in Lists /\ step = "summary" /\ row = NoRow
    BY <1>1, BeginType, PlaceFacts DEF ListBegin
  <2>2. due' \subseteq Dirs
    BY <1>1 DEF ListBegin, Below
  <2> QED
    BY <1>1, <2>1, <2>2 DEF ListBegin, disk
<1>2. ASSUME NEW p \in Dirs, ReadSummary(p) \/ ReadLines(p)
      PROVE  Basis'
  BY <1>2, ReadCases, ReadType
<1>3. CASE ListMerge
  <2>1. shown' \in Lists /\ list' \in Lists /\ step = "summary" /\ row = NoRow
    BY <1>3, MergeType, NoListType, PlaceFacts DEF ListMerge
  <2> QED
    BY <1>3, <2>1 DEF ListMerge, disk
<1>4. ASSUME NEW id \in Ids, CreateAsk(id)
      PROVE  Basis'
  BY <1>4 DEF CreateAsk, disk, walk
<1>5. CASE Remember
  BY <1>5, FS_AddElement DEF Remember, disk, walk
<1>6. CASE Restart
  BY <1>6, NoListType, FS_EmptySet DEF Restart, disk
<1>7. ASSUME NEW p \in Dirs, BeginSummary(p)
      PROVE  Basis'
  <2>1. version' \in [Dirs -> Nat]
    BY <1>7 DEF BeginSummary
  <2> QED
    BY <1>7, <2>1 DEF BeginSummary
<1>8. ASSUME NEW p \in Dirs, EndSummary(p)
      PROVE  Basis'
  BY <1>8 DEF EndSummary, walk
<1>9. ASSUME NEW p \in Dirs, NEW f \in Files, AppendLine(p, f)
      PROVE  Basis'
  <2>1. lines' \in [Dirs -> [Files -> Seq(Lines)]]
    <3>1. PICK l \in Lines : lines' = [lines EXCEPT ![p][f] = Append(@, l)]
      BY <1>9 DEF AppendLine
    <3>2. Append(lines[p][f], l) \in Seq(Lines)
      BY AppendFacts
    <3> QED
      BY <3>1, <3>2
  <2> QED
    BY <1>9, <2>1 DEF AppendLine, walk
<1>10. CASE UNCHANGED vars
  BY <1>10 DEF vars, disk, walk
<1> QED
  BY <1>1, <1>2, <1>3, <1>4, <1>5, <1>6, <1>7, <1>8, <1>9, <1>10 DEF Next
(***************************************************************************)
(* What the agent's writing leaves of a row that was read.                 *)
(***************************************************************************)
LEMMA AppendKeepsHuman ==
  ASSUME TypeOK, NEW p \in Dirs, NEW f \in Files, AppendLine(p, f), NEW q \in Dirs
  PROVE  /\ \A g \in Files : HumanIn(lines[q][g]) => HumanIn(lines'[q][g])
         /\ HasHuman(q) => HasHuman(q)'
<1>1. ASSUME NEW g \in Files, HumanIn(lines[q][g])
      PROVE  HumanIn(lines'[q][g])
  <2>1. PICK l \in Lines : lines' = [lines EXCEPT ![p][f] = Append(@, l)]
    BY DEF AppendLine
  <2>2. PICK i \in DOMAIN lines[q][g] : IsRead(lines[q][g][i]) /\ IsHuman(lines[q][g][i])
    BY <1>1 DEF HumanIn
  <2>3. lines[q][g] \in Seq(Lines)
    BY DEF TypeOK
  <2>4. lines'[q][g] = lines[q][g] \/ lines'[q][g] = Append(lines[q][g], l)
    BY <2>1 DEF TypeOK
  <2>5. i \in DOMAIN lines'[q][g] /\ lines'[q][g][i] = lines[q][g][i]
    BY <2>2, <2>3, <2>4, AppendFacts
  <2> QED
    BY <2>2, <2>5 DEF HumanIn
<1>2. HasHuman(q)' <=> \E g \in Files : HumanIn(lines'[q][g])
  BY DEF HasHuman
<1> QED
  BY <1>1, <1>2 DEF HasHuman

(* No step makes a row less true. *)
LEMMA NextBelieves ==
  ASSUME Basis, [Next]_vars, NEW r \in ARow, Believed(r)
  PROVE  /\ Believed(r)'
         /\ Current(r)' => Current(r) /\ (Stamped(r.place)' <=> Stamped(r.place))
<1>1. CASE UNCHANGED disk
  <2>1. /\ file' = file /\ version' = version /\ summary' = summary /\ lines' = lines
    BY <1>1 DEF disk
  <2> QED
    BY <2>1 DEF Believed, Current, RowId, HasHuman, Stamped, Name
<1>2. CASE r.place = 0
  BY <1>2 DEF Believed, Current
<1> USE DEF Basis, TypeOK, ARow
<1>3. ASSUME r.place # 0, NEW p \in Dirs, BeginSummary(p)
      PROVE  /\ Believed(r)'
             /\ Current(r)' => Current(r) /\ (Stamped(r.place)' <=> Stamped(r.place))
  <2>1. r.place \in Dirs /\ r.version \in Nat /\ version[r.place] \in Nat
    BY <1>3
  <2>2. CASE r.place = p
    <3>1. version'[r.place] = version[r.place] + 1 /\ file'[r.place] = "torn"
      BY <1>3, <2>1, <2>2 DEF BeginSummary
    <3> QED
      BY <2>1, <3>1 DEF Believed, Current
  <2>3. CASE r.place # p
    <3>1. /\ version'[r.place] = version[r.place] /\ file'[r.place] = file[r.place]
          /\ summary' = summary /\ lines' = lines
      BY <1>3, <2>1, <2>3 DEF BeginSummary
    <3> QED
      BY <3>1 DEF Believed, Current, RowId, HasHuman, Stamped, Name
  <2> QED
    BY <2>2, <2>3
<1>4. ASSUME r.place # 0, NEW p \in Dirs, EndSummary(p)
      PROVE  /\ Believed(r)'
             /\ Current(r)' => Current(r) /\ (Stamped(r.place)' <=> Stamped(r.place))
  <2>1. r.place \in Dirs /\ version' = version /\ lines' = lines
    BY <1>4 DEF EndSummary
  <2>2. CASE r.place = p
    <3>1. file[r.place] = "torn" /\ file'[r.place] = "whole"
      BY <1>4, <2>1, <2>2 DEF EndSummary
    <3>2. ~ Current(r)
      BY <3>1, <1>4 DEF Believed
    <3> QED
      BY <1>4, <2>1, <3>1, <3>2 DEF Believed, Current
  <2>3. CASE r.place # p
    <3>1. file'[r.place] = file[r.place] /\ summary'[r.place] = summary[r.place]
      BY <1>4, <2>1, <2>3 DEF EndSummary
    <3> QED
      BY <2>1, <3>1 DEF Believed, Current, RowId, HasHuman, Stamped, Name
  <2> QED
    BY <2>2, <2>3
<1>5. ASSUME r.place # 0, NEW p \in Dirs, NEW f \in Files, AppendLine(p, f)
      PROVE  /\ Believed(r)'
             /\ Current(r)' => Current(r) /\ (Stamped(r.place)' <=> Stamped(r.place))
  <2>1. r.place \in Dirs /\ version' = version /\ file' = file /\ summary' = summary
    BY <1>5 DEF AppendLine
  <2>2. HasHuman(r.place) => HasHuman(r.place)'
    BY <1>5, <2>1, AppendKeepsHuman
  <2>3. RowId(r.place)' = RowId(r.place) /\ (Stamped(r.place)' <=> Stamped(r.place))
    BY <2>1 DEF RowId, Stamped, Name
  <2> QED
    BY <1>5, <2>1, <2>2, <2>3 DEF Believed, Current
<1> QED
  BY <1>1, <1>2, <1>3, <1>4, <1>5 DEF Next, vars, disk, ListBegin, ReadSummary, ReadLines, ListMerge,
     CreateAsk, Remember, Restart

(***************************************************************************)
(* The lists that are made and shown.                                      *)
(***************************************************************************)
LEMMA EmptyList == ListOK(NoList)
BY DEF ListOK, Apart, Range, NoList

LEMMA NextListOK == IInv /\ [Next]_vars => ListOK(list)'
<1> SUFFICES ASSUME IInv, [Next]_vars
             PROVE  ListOK(list)'
  OBVIOUS
<1>1. Basis /\ ListOK(list)
  BY DEF IInv, Basis
<1>2. \A r \in Range(list.rows) : r \in ARow /\ Believed(r)'
  <2>1. Range(list.rows) \subseteq ARow
    BY <1>1, RowsFacts, RangeFacts DEF Basis
  <2> QED
    BY <1>1, <2>1, NextBelieves DEF ListOK
<1>3. CASE list' = list
  BY <1>1, <1>2, <1>3 DEF ListOK
<1>4. CASE list'.rows = <<>>
  BY <1>4 DEF ListOK, Apart, Range
<1>5. ASSUME NEW p \in Dirs, ReadSummary(p) \/ ReadLines(p)
      PROVE  ListOK(list)'
  <2>1. p = list.at /\ list \in Lists
    BY <1>1, <1>5, ReadCases DEF Basis, TypeOK
  <2>2. CASE Skips(p)
    <3>1. list'.home = list.home /\ list'.rows = list.rows
      BY <2>1, <2>2 DEF Skips, Lists
    <3> QED
      BY <1>1, <1>2, <3>1 DEF ListOK
  <2>3. CASE GoesOn(p)
    BY <1>3, <2>3 DEF GoesOn
  <2>4. CASE Finishes(p)
    <3>1. PICK r \in ARow : Finish(r) /\ r.place = p /\ p \in Below(list.home) /\ Believed(r)
      BY <2>4 DEF Finishes
    <3>2. /\ list'.home = list.home
          /\ Apart(list.rows) => Apart(list'.rows)
          /\ Range(list'.rows) \subseteq Range(list.rows) \cup {r}
      BY <1>1, <2>1, <3>1, FinishFacts DEF Basis
    <3>3. Believed(r)' /\ Of(list.home, r)
      BY <1>1, <3>1, NextBelieves, PlaceFacts DEF Of
    <3> QED
      BY <1>1, <1>2, <3>2, <3>3 DEF ListOK
  <2> QED
    BY <1>5, <2>2, <2>3, <2>4, ReadCases
<1> QED
  BY <1>3, <1>4, <1>5 DEF Next, vars, disk, walk, ListBegin, ListMerge, CreateAsk, Remember, Restart,
     BeginSummary, EndSummary, AppendLine, NoList

LEMMA NextShownOK == IInv /\ [Next]_vars => ListOK(shown)'
<1> SUFFICES ASSUME IInv, [Next]_vars
             PROVE  ListOK(shown)'
  OBVIOUS
<1>1. Basis /\ ListOK(list) /\ ListOK(shown)
  BY DEF IInv, Basis
<1>2. CASE shown' = shown
  <2>1. Range(shown.rows) \subseteq ARow
    BY <1>1, RowsFacts, RangeFacts DEF Basis
  <2>2. \A r \in Range(shown.rows) : Believed(r)'
    BY <1>1, <2>1, NextBelieves DEF ListOK
  <2> QED
    BY <1>1, <1>2, <2>2 DEF ListOK
<1>3. CASE shown'.rows = <<>>
  BY <1>3 DEF ListOK, Apart, Range
<1>4. CASE ListMerge
  <2>1. shown'.home = list.home /\ shown'.rows = list.rows \o CreatedRows
    BY <1>1, <1>4, MergeType
  <2>2. list.rows \in Seq(ARow) /\ CreatedRows \in Seq(ARow)
    BY <1>1, RowsFacts, CreatedRowsFacts DEF Basis
  <2>3. Apart(shown'.rows)
    BY <1>1, <2>1, <2>2, CreatedRowsFacts, ApartFacts DEF ListOK, Basis
  <2>4. Range(shown'.rows) = Range(list.rows) \cup Range(CreatedRows)
    BY <2>1, <2>2, RangeFacts
  <2>5. ASSUME NEW r \in Range(list.rows)
        PROVE  Believed(r)' /\ Of(shown'.home, r)
    <3>1. r \in ARow
      BY <2>2, RangeFacts
    <3> QED
      BY <1>1, <2>1, <2>5, <3>1, NextBelieves DEF ListOK
  <2>6. ASSUME NEW r \in Range(CreatedRows)
        PROVE  Believed(r)' /\ Of(shown'.home, r)
    <3>1. r.place = 0 /\ ~ r.human
      BY <1>1, <2>2, <2>6, CreatedRowsFacts, RangeFacts DEF Basis
    <3> QED
      BY <3>1 DEF Believed, Of
  <2> QED
    BY <2>3, <2>4, <2>5, <2>6 DEF ListOK
<1> QED
  BY <1>2, <1>3, <1>4, ReadCases DEF Next, vars, disk, walk, ListBegin, CreateAsk, Remember,
     Restart, BeginSummary, EndSummary, AppendLine, NoList

LEMMA SameDisk ==
  ASSUME UNCHANGED <<file, summary, version, lines>>, NEW p
  PROVE  RowId(p)' = RowId(p) /\ (Stamped(p)' <=> Stamped(p)) /\ (HasHuman(p)' <=> HasHuman(p))
BY DEF RowId, Name, Stamped, HasHuman

LEMMA NextRowOK == IInv /\ [Next]_vars => RowOK'
<1> SUFFICES ASSUME IInv, [Next]_vars, step' # "summary"
             PROVE  Between(row)'
  BY DEF RowOK
<1>1. Basis
  BY DEF IInv, Basis
<1>2. ASSUME NEW r, Between(r), row' = r, list' = list
      PROVE  Between(row)'
  <2>1. r \in ARow /\ Believed(r) /\ ~ r.human /\ r.place = list.at /\ r.place \in Below(list.home)
    BY <1>2 DEF Between
  <2>2. Believed(r)' /\ (Current(r)' => ~ Stamped(r.place)')
    BY <1>1, <1>2, <2>1, NextBelieves DEF Between
  <2>3. Believed(row)' /\ (Current(row)' => ~ Stamped(row.place)')
    BY <1>2, <2>2 DEF Believed, Current, RowId, Name, HasHuman, Stamped
  <2> QED
    BY <1>2, <2>1, <2>3 DEF Between, Below
<1>3. CASE list' = list /\ row' = row /\ step' = step
  BY <1>2, <1>3 DEF IInv, RowOK
<1>4. CASE ListBegin \/ ListMerge
  <2>1. step = "summary" /\ step' = step
    BY <1>4, PlaceFacts DEF IInv, TypeOK, ListBegin, ListMerge
  <2> QED
    BY <2>1
<1>5. ASSUME NEW p \in Dirs, ReadSummary(p) \/ ReadLines(p)
      PROVE  Between(row)'
  <2>1. CASE Skips(p)
    BY <2>1 DEF Skips
  <2>2. CASE GoesOn(p)
    BY <1>2, <2>2 DEF GoesOn
  <2>3. CASE Finishes(p)
    BY <2>3 DEF Finishes, Finish
  <2> QED
    BY <1>5, <2>1, <2>2, <2>3, ReadCases
<1>6. CASE Restart
  BY <1>6 DEF Restart
<1> QED
  BY <1>3, <1>4, <1>5, <1>6 DEF Next, vars, disk, walk, CreateAsk, Remember, BeginSummary,
     EndSummary, AppendLine

LEMMA NextDueOK == IInv /\ [Next]_vars => DueOK'
<1> SUFFICES ASSUME IInv, [Next]_vars, NEW p \in due'
             PROVE  Due(p)'
  BY DEF DueOK
<1>1. TypeOK /\ Len(Places) \in Nat /\ Dirs = 1..Len(Places)
  BY PlaceFacts DEF IInv
<1>2. p \in due => Due(p) /\ p \in Dirs /\ p \in Nat
  BY <1>1 DEF IInv, DueOK, TypeOK
<1>3. CASE ListBegin
  <2>1. list'.at = 1 /\ list'.home = Home /\ step' = "summary"
    BY <1>1, <1>3, BeginType DEF TypeOK, ListBegin
  <2>2. /\ p \in Below(Home) /\ file[p] = "whole" /\ ~ Stamped(p) /\ HasHuman(p)
        /\ UNCHANGED <<file, summary, version, lines>>
    BY <1>3 DEF ListBegin, disk
  <2>3. ~ (p < 1)
    BY <1>1, <2>2 DEF Below
  <2> QED
    BY <2>1, <2>2, <2>3, SameDisk DEF Due, Below
<1>4. CASE ListMerge \/ Restart
  BY <1>4 DEF ListMerge, Restart
<1>5. ASSUME NEW q \in Dirs, ReadSummary(q) \/ ReadLines(q)
      PROVE  Due(p)'
  <2>1. /\ q = list.at /\ q \in Nat /\ due' = due /\ list \in Lists
        /\ UNCHANGED <<file, summary, version, lines>>
    BY <1>1, <1>5, ReadCases DEF TypeOK
  <2>2. /\ p \in due /\ p \in Below(list.home) /\ p \in Nat /\ file[p] = "whole"
        /\ p < q => RowId(p) \in RowIds(list.rows)
        /\ ~ Stamped(p)' /\ HasHuman(p)' /\ RowId(p)' = RowId(p)
    BY <1>2, <2>1, SameDisk DEF Due
  <2>3. CASE Skips(q)
    <3>1. /\ list'.at = q + 1 /\ list'.home = list.home /\ list'.rows = list.rows
          /\ step' = "summary" /\ p # q
      BY <2>1, <2>2, <2>3 DEF Skips, Lists
    <3> QED
      BY <2>1, <2>2, <3>1 DEF Due, Below, RowIds
  <2>4. CASE GoesOn(q)
    <3>1. /\ list' = list
          /\ p = q => /\ row'.version = version'[p]
                      /\ step' = "updates" => HumanIn(lines'[p]["updates"])
      BY <2>1, <2>2, <2>4 DEF GoesOn
    <3>2. list'.at # 0
      BY <1>1, <2>1, <3>1
    <3> QED
      BY <2>1, <2>2, <3>1, <3>2 DEF Due, Below, RowIds
  <2>5. CASE Finishes(q)
    <3>1. PICK r \in ARow : /\ Finish(r) /\ r.place = q
                            /\ q \in due => ~ r.grokOnly /\ r.id = RowId(q)
      BY <2>5 DEF Finishes
    <3>2. /\ list'.at = q + 1 /\ list'.home = list.home /\ step' = "summary"
          /\ RowIds(list.rows) \subseteq RowIds(list'.rows)
          /\ ~ r.grokOnly => r.id \in RowIds(list'.rows)
      BY <1>1, <2>1, <3>1, FinishFacts
    <3>3. p < q + 1 => RowId(p) \in RowIds(list'.rows)
      BY <2>1, <2>2, <3>1, <3>2
    <3>4. Below(list'.home) = Below(list.home) /\ q + 1 # 0
      BY <2>1, <3>2
    <3>5. p < list'.at => RowId(p)' \in RowIds(list'.rows)
      BY <2>2, <3>2, <3>3
    <3> QED
      BY <2>1, <2>2, <3>2, <3>4, <3>5 DEF Due, Below, RowIds
  <2> QED
    BY <1>5, <2>3, <2>4, <2>5, ReadCases
<1>6. CASE /\ p \in due /\ UNCHANGED <<list, step, row, lines>>
           /\ file'[p] = file[p] /\ summary'[p] = summary[p] /\ version'[p] = version[p]
  <2>1. RowId(p)' = RowId(p) /\ (Stamped(p)' <=> Stamped(p)) /\ (HasHuman(p)' <=> HasHuman(p))
    BY <1>6 DEF RowId, Name, Stamped, HasHuman
  <2> QED
    BY <1>2, <1>6, <2>1 DEF Due, Below, RowIds
<1>7. ASSUME NEW q \in Dirs, BeginSummary(q)
      PROVE  Due(p)'
  BY <1>1, <1>2, <1>6, <1>7 DEF BeginSummary, TypeOK
<1>8. ASSUME NEW q \in Dirs, EndSummary(q)
      PROVE  Due(p)'
  <2>1. p \in due /\ UNCHANGED <<list, step, row, version, lines>>
    BY <1>8 DEF EndSummary, walk
  <2>2. p # q
    BY <1>2, <1>8, <2>1 DEF EndSummary, Due
  <2> QED
    BY <1>1, <1>2, <1>6, <1>8, <2>1, <2>2 DEF EndSummary, TypeOK
<1>9. ASSUME NEW q \in Dirs, NEW f \in Files, AppendLine(q, f)
      PROVE  Due(p)'
  <2>1. UNCHANGED <<due, list, step, row, file, summary, version>>
    BY <1>9 DEF AppendLine, walk
  <2>2. /\ HasHuman(p) => HasHuman(p)'
        /\ HumanIn(lines[p]["updates"]) => HumanIn(lines'[p]["updates"])
    BY <1>1, <1>2, <1>9, <2>1, AppendKeepsHuman DEF Files
  <2>3. RowId(p)' = RowId(p) /\ (Stamped(p)' <=> Stamped(p))
    BY <2>1 DEF RowId, Name, Stamped
  <2> QED
    BY <1>2, <2>1, <2>2, <2>3 DEF Due, Below, RowIds
<1>10. CASE UNCHANGED <<disk, walk>>
  BY <1>6, <1>10 DEF disk, walk
<1> QED
  BY <1>3, <1>4, <1>5, <1>7, <1>8, <1>9, <1>10 DEF Next, vars, CreateAsk, Remember

LEMMA NextStaysDue == IInv /\ [Next]_vars => StaysDue'
<1> SUFFICES ASSUME IInv, [Next]_vars, list'.at # 0, list'.home = shown'.home,
                    NEW r \in Range(shown'.rows), Stays(r)'
             PROVE  r.place \in due'
  BY DEF StaysDue
<1>1. Basis /\ Basis'
  BY NextBasis DEF IInv, Basis
<1>2. r \in ARow
  <2>1. shown'.rows \in Seq(ARow)
    BY <1>1 DEF Basis, TypeOK, Lists, Rows
  <2> QED
    BY <2>1, RangeFacts
<1>3. shown' = shown
  BY ReadCases DEF Next, vars, disk, walk, ListBegin, ListMerge, CreateAsk, Remember, Restart,
     BeginSummary, EndSummary, AppendLine, NoList
<1>4. r \in Range(shown.rows) /\ Believed(r) /\ Of(shown.home, r)
  BY <1>3 DEF IInv, ListOK
<1>5. Stays(r) /\ r.place \in Below(shown.home) /\ r.place \in Dirs
  BY <1>1, <1>2, <1>4, NextBelieves DEF Stays, Of, Current, Below
<1>6. list.at # 0 /\ list.home = shown.home => r.place \in due
  BY <1>4, <1>5 DEF IInv, StaysDue
<1>7. CASE ListBegin
  <2>1. list'.home = Home
    BY <1>1, <1>7, BeginType DEF Basis
  <2>2. file[r.place] = "whole" /\ HasHuman(r.place) /\ ~ Stamped(r.place)
    BY <1>4, <1>5 DEF Stays, Believed, Current
  <2> QED
    BY <1>3, <1>5, <1>7, <2>1, <2>2 DEF ListBegin
<1>8. ASSUME NEW p \in Dirs, ReadSummary(p) \/ ReadLines(p)
      PROVE  r.place \in due'
  <2>1. p = list.at /\ due' = due /\ p # 0 /\ list \in Lists
    BY <1>1, <1>8, ReadCases, PlaceFacts DEF Basis, TypeOK
  <2>2. list'.home = list.home
    <3>1. CASE Skips(p)
      BY <2>1, <3>1 DEF Skips, Lists
    <3>2. CASE GoesOn(p)
      BY <3>2 DEF GoesOn
    <3>3. CASE Finishes(p)
      BY <1>1, <2>1, <3>3, FinishFacts, <1>8 DEF Finishes, Basis
    <3> QED
      BY <1>8, <3>1, <3>2, <3>3, ReadCases
  <2> QED
    BY <1>3, <1>6, <2>1, <2>2
<1>9. ASSUME NEW p \in Dirs, BeginSummary(p)
      PROVE  r.place \in due'
  <2>1. r.place # p
    <3>1. SUFFICES ASSUME r.place = p
                   PROVE  FALSE
      OBVIOUS
    <3>2. version'[p] = version[p] + 1 /\ version[p] \in Nat /\ r.version \in Nat
      BY <1>1, <1>2, <1>9 DEF BeginSummary, Basis, TypeOK, ARow
    <3>3. r.version = version[p] /\ r.version = version'[p]
      BY <1>5, <3>1 DEF Stays, Current
    <3> QED
      BY <3>2, <3>3
  <2> QED
    BY <1>3, <1>6, <1>9, <2>1 DEF BeginSummary
<1>10. CASE UNCHANGED <<list, due>>
  BY <1>3, <1>6, <1>10
<1> QED
  BY <1>7, <1>8, <1>9, <1>10 DEF Next, vars, disk, walk, ListMerge, CreateAsk, Remember, Restart,
     EndSummary, AppendLine, NoList

LEMMA InitIInv == Init => IInv
<1> SUFFICES ASSUME Init
             PROVE  IInv
  OBVIOUS
<1>1. Basis
  BY InitBasis
<1>2. ListOK(list) /\ ListOK(shown)
  BY EmptyList DEF Init
<1>3. RowOK /\ DueOK /\ StaysDue
  BY DEF Init, RowOK, DueOK, StaysDue, NoList
<1> QED
  BY <1>1, <1>2, <1>3 DEF IInv, Basis

LEMMA NextIInv == IInv /\ [Next]_vars => IInv'
<1> SUFFICES ASSUME IInv, [Next]_vars
             PROVE  IInv'
  OBVIOUS
<1>1. Basis'
  BY NextBasis
<1>2. ListOK(list)' /\ ListOK(shown)' /\ RowOK' /\ DueOK' /\ StaysDue'
  BY NextListOK, NextShownOK, NextRowOK, NextDueOK, NextStaysDue
<1> QED
  BY <1>1, <1>2 DEF IInv, Basis

LEMMA Invariant == Spec => []IInv
BY InitIInv, NextIInv, PTL DEF Spec

(***************************************************************************)
(* The theorems.                                                           *)
(***************************************************************************)
(* getBuildSession finds a directory of the id whose summary is whole: the *)
(* one of the row, or one before it in the walk.                           *)
LEMMA FoundOpens ==
  ASSUME TypeOK, NEW id, NEW p \in Below(Home), Name(p) = id, file[p] # "none",
         \A q \in Dirs : Name(q) = id => file[q] # "torn"
  PROVE  Opens(id)
<1>1. Found(id) \subseteq Dirs /\ p \in Found(id)
  BY DEF Found, Below
<1>2. Found(id) \in SUBSET Nat /\ Found(id) # {}
  BY <1>1, PlaceFacts
<1>3. Min(Found(id)) \in Found(id)
  BY <1>2, FirstPlace
<1>4. file[Min(Found(id))] = "whole"
  BY <1>1, <1>3 DEF Found, TypeOK
<1> QED
  BY <1>2, <1>4 DEF Opens, Get

(* A list never has a session twice, and a row leads to its session unless *)
(* the summary names another directory or is just being written            *)
(* (listSessions, findSessionDir, listMergedSessions).                     *)
THEOREM RowsAreSound == Spec => []RowsSound
<1>1. IInv => RowsSound
  <2> SUFFICES ASSUME IInv
               PROVE  RowsSound
    OBVIOUS
  <2>1. shown.rows \in Seq(ARow) /\ \A i \in DOMAIN shown.rows : shown.rows[i] \in ARow
    BY RowsFacts DEF IInv
  <2>2. NoDuplicates
    BY DEF IInv, ListOK, Apart, NoDuplicates, IsInjective
  <2>3. ASSUME NEW i \in DOMAIN shown.rows, shown.home = Home, shown.rows[i].place # 0,
               shown.rows[i].id = Name(shown.rows[i].place),
               \A p \in Dirs : Name(p) = shown.rows[i].id => file[p] # "torn"
        PROVE  Opens(shown.rows[i].id)
    <3>1. shown.rows[i] \in Range(shown.rows)
      BY DEF Range
    <3>2. file[shown.rows[i].place] # "none" /\ shown.rows[i].place \in Below(Home)
      BY <2>3, <3>1 DEF IInv, ListOK, Believed, Of
    <3> QED
      BY <2>3, <3>2, FoundOpens DEF IInv
  <2>4. RowsOpen
    BY <2>3 DEF RowsOpen
  <2> QED
    BY <2>2, <2>4 DEF RowsSound, IInv
<1> QED
  BY <1>1, Invariant, PTL

(* A list that is answered has every session whose creation this process   *)
(* has answered, and every chat with a person that was on disk when the    *)
(* walk began and was not rewritten under it (createBuildSession,          *)
(* listMergedSessions, listSessions, sessionHasHumanTurn).                 *)
THEOREM ListsComplete == Spec => ListComplete
<1> DEFINE Complete ==
      list.at # 0 /\ list'.at = 0 /\ shown'.at # 0
       => acked \cup {RowId(p) : p \in due} \subseteq RowIds(shown'.rows)
<1>1. IInv /\ [Next]_vars => Complete
  <2> SUFFICES ASSUME IInv, [Next]_vars, list.at # 0, list'.at = 0, shown'.at # 0
               PROVE  acked \cup {RowId(p) : p \in due} \subseteq RowIds(shown'.rows)
    OBVIOUS
  <2>1. ListMerge
    <3>1. ~ \E p \in Dirs : ReadSummary(p) \/ ReadLines(p)
      <4> SUFFICES ASSUME NEW p \in Dirs, ReadSummary(p) \/ ReadLines(p)
                   PROVE  FALSE
        OBVIOUS
      <4>1. p = list.at /\ p + 1 # 0 /\ list \in Lists
        BY ReadCases, PlaceFacts DEF IInv, TypeOK
      <4>2. list'.at = p + 1 \/ list' = list
        <5>1. CASE Skips(p)
          BY <4>1, <5>1 DEF Skips, Lists
        <5>2. CASE GoesOn(p)
          BY <5>2 DEF GoesOn
        <5>3. CASE Finishes(p)
          BY <4>1, <5>3, FinishFacts DEF Finishes, IInv
        <5> QED
          BY <5>1, <5>2, <5>3, ReadCases
      <4> QED
        BY <4>1, <4>2
    <3> QED
      BY <3>1 DEF Next, vars, disk, walk, ListBegin, CreateAsk, Remember, Restart, NoList,
                  BeginSummary, EndSummary, AppendLine
  <2>2. list.at = Len(Places) + 1 /\ shown'.rows = list.rows \o CreatedRows
    BY <2>1, MergeType DEF IInv, Basis, ListMerge
  <2>3. list.rows \in Seq(ARow) /\ CreatedRows \in Seq(ARow)
    BY RowsFacts, CreatedRowsFacts DEF IInv
  <2>4. RowIds(shown'.rows) = RowIds(list.rows) \cup created
    BY <2>2, <2>3, IdsFacts, CreatedRowsFacts DEF IInv
  <2>5. ASSUME NEW p \in due
        PROVE  RowId(p) \in RowIds(list.rows)
    <3>1. p \in Dirs /\ p < list.at
      BY <2>2, PlaceFacts DEF IInv, TypeOK
    <3> QED
      BY <3>1 DEF IInv, DueOK, Due
  <2> QED
    BY <2>4, <2>5 DEF IInv, Remembered
<1>2. IInv /\ [Next]_vars => [Complete]_vars
  BY <1>1
<1> QED
  BY <1>2, Invariant, PTL DEF Spec, ListComplete

(* A chat that opens with a person's bubble is found to have a person      *)
(* when sessions are listed (readChatHistory against jsonlHasHumanTurn).   *)
THEOREM BubblesAreListed == Spec => []BubbleListed
<1>1. BubbleListed
  <2> SUFFICES ASSUME NEW p \in Dirs, NEW i \in Messages(p), lines[p]["chat"][i].role = "user"
               PROVE  HumanIn(lines[p]["chat"])
    BY DEF BubbleListed
  <2>1. i \in DOMAIN lines[p]["chat"] /\ IsMessage(lines[p]["chat"][i])
    BY DEF Messages
  <2>2. IsRead(lines[p]["chat"][i]) /\ IsHuman(lines[p]["chat"][i])
    BY <2>1 DEF IsMessage, IsRead, IsHuman, IsNoise
  <2> QED
    BY <2>1, <2>2 DEF HumanIn
<1> QED
  BY <1>1, PTL

(* The row of a chat with a person leaves the lists of a home only if its  *)
(* summary was written anew (grokonly.go: what is said later hides nothing).*)
THEOREM RowsAlwaysStay == Spec => RowsStay
<1> DEFINE Kept ==
      shown' # shown /\ shown'.at # 0 /\ shown'.home = shown.home
       => \A i \in DOMAIN shown.rows :
            LET r == shown.rows[i] IN
              r.human /\ version[r.place] = r.version => r.id \in RowIds(shown'.rows)
<1>1. IInv /\ [Next]_vars => Kept
  <2> SUFFICES ASSUME IInv, [Next]_vars, shown' # shown, shown'.at # 0, shown'.home = shown.home,
                      NEW i \in DOMAIN shown.rows, shown.rows[i].human,
                      version[shown.rows[i].place] = shown.rows[i].version
               PROVE  shown.rows[i].id \in RowIds(shown'.rows)
    OBVIOUS
  <2>1. ListMerge
    BY ReadCases DEF Next, vars, disk, walk, ListBegin, CreateAsk, Remember, Restart, NoList,
       BeginSummary, EndSummary, AppendLine
  <2>2. shown'.home = list.home /\ shown'.rows = list.rows \o CreatedRows
    BY <2>1, MergeType DEF IInv, Basis
  <2>3. /\ list.rows \in Seq(ARow) /\ CreatedRows \in Seq(ARow)
        /\ shown.rows[i] \in ARow /\ shown.rows[i] \in Range(shown.rows)
    BY RowsFacts, CreatedRowsFacts DEF IInv, Range
  <2>4. shown.rows[i].place # 0
    BY <2>3 DEF IInv, ListOK, Of
  <2>5. shown.rows[i].place \in due /\ shown.rows[i].id = RowId(shown.rows[i].place)
    <3>1. list.at # 0
      BY <2>1, PlaceFacts DEF ListMerge
    <3> QED
      BY <2>2, <2>3, <2>4, <3>1 DEF IInv, StaysDue, Stays, Current, ListOK, Believed
  <2>6. shown.rows[i].place < list.at
    BY <2>1, <2>5, PlaceFacts DEF ListMerge, IInv, TypeOK
  <2>7. shown.rows[i].id \in RowIds(list.rows)
    BY <2>5, <2>6 DEF IInv, DueOK, Due
  <2> QED
    BY <2>2, <2>3, <2>7, IdsFacts
<1>2. IInv /\ [Next]_vars => [Kept]_vars
  BY <1>1
<1> QED
  BY <1>2, Invariant, PTL DEF Spec, RowsStay
==============================================================================
