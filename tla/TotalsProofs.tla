---------------------------- MODULE TotalsProofs ----------------------------
(***************************************************************************)
(* What TLAPS proves of the services that add up rows: the ledger and its  *)
(* corrections, the totals of a claim, the report behind a certificate.    *)
(***************************************************************************)
EXTENDS ServicesProofs, Sequences, Sums

-----------------------------------------------------------------------------
(* The ledger: adding up rows *)

\* The rows of the ledger.
Account == {"compensation", "travel", "unallowable"}
EntryRow == [account : Account, amount : Int, superseded_by : Nat,
             note : {"entry", "reversal", "reclass"}]

\* Rows refer to earlier rows.
LedgerRows(rows) ==
    /\ rows \in Seq(EntryRow)
    /\ \A j \in DOMAIN rows : rows[j].superseded_by < j

\* Their amounts, by number.
Amounts(rows) == [i \in DOMAIN rows |-> rows[i].amount]

\* The ledger's instance of the community module adds up the same way.
LEMMA LedgerSums ==
    ASSUME NEW rows, NEW set PROVE Ledger!AddUp(rows, set) = SumFunctionOnSet(Amounts(rows), set)
BY DEF Ledger!AddUp, Ledger!SumFunctionOnSet, Ledger!FoldFunctionOnSet, Ledger!MapThenFoldSet,
       SumFunctionOnSet, FoldFunctionOnSet, MapThenFoldSet, Amounts

\* Row numbers are finitely many.
LEMMA RowsFinite ==
    ASSUME NEW rows \in Seq(EntryRow), NEW set \in SUBSET DOMAIN rows
    PROVE  IsFiniteSet(set) /\ \A i \in set : Amounts(rows)[i] \in Int
<1>1. DOMAIN rows = 1..Len(rows) /\ Len(rows) \in Nat
  OBVIOUS
<1>2. IsFiniteSet(set)
  <2>1. IsFiniteSet(DOMAIN rows)
    BY <1>1, FS_Interval
  <2> QED
    BY <2>1, FS_Subset
<1>3. ASSUME NEW i \in set PROVE Amounts(rows)[i] \in Int
  <2>1. rows[i] \in EntryRow
    BY <1>1
  <2> QED
    BY <2>1 DEF Amounts, EntryRow
<1> QED
  BY <1>2, <1>3

\* Amounts add up to integers.
LEMMA AddUpType ==
    ASSUME NEW rows \in Seq(EntryRow), NEW set \in SUBSET DOMAIN rows
    PROVE  Ledger!AddUp(rows, set) \in Int
BY RowsFinite, SumType, LedgerSums

\* A row that is appended adds its amount where it belongs.
LEMMA AddUpAppend ==
    ASSUME NEW rows \in Seq(EntryRow), NEW row \in EntryRow, NEW set \in SUBSET DOMAIN rows
    PROVE  /\ Ledger!AddUp(Append(rows, row), set) = Ledger!AddUp(rows, set)
           /\ Ledger!AddUp(Append(rows, row), set \union {Len(rows) + 1}) =
                 Ledger!AddUp(rows, set) + row.amount
<1>1. PICK new : new = Append(rows, row)
  OBVIOUS
<1>2. /\ new \in Seq(EntryRow) /\ DOMAIN new = 1..(Len(rows) + 1) /\ DOMAIN rows = 1..Len(rows)
      /\ Len(rows) \in Nat /\ \A i \in DOMAIN rows : new[i] = rows[i]
      /\ new[Len(rows) + 1] = row
  BY <1>1
<1>3. IsFiniteSet(set) /\ \A i \in set : Amounts(rows)[i] \in Int
  BY RowsFinite
<1>4. \A i \in set : Amounts(rows)[i] = Amounts(new)[i]
  BY <1>2 DEF Amounts
<1>5. SumFunctionOnSet(Amounts(rows), set) = SumFunctionOnSet(Amounts(new), set)
  BY <1>3, <1>4, SumAgrees
<1>6. Amounts(new)[Len(rows) + 1] = row.amount /\ row.amount \in Int /\ Len(rows) + 1 \notin set
  BY <1>2 DEF Amounts, EntryRow
<1>7. \A i \in set : Amounts(new)[i] \in Int
  BY <1>3, <1>4
<1>8. SumFunctionOnSet(Amounts(new), set \union {Len(rows) + 1}) =
        Amounts(new)[Len(rows) + 1] + SumFunctionOnSet(Amounts(new), set)
  BY <1>3, <1>6, <1>7, SumAdd
<1>9. SumFunctionOnSet(Amounts(rows), set) \in Int
  BY <1>3, SumType
<1> QED
  BY <1>1, <1>5, <1>6, <1>8, <1>9, LedgerSums

\* A row that is taken out takes its amount with it.
LEMMA AddUpWithout ==
    ASSUME NEW rows \in Seq(EntryRow), NEW set \in SUBSET DOMAIN rows, NEW i \in set
    PROVE  Ledger!AddUp(rows, set \ {i}) = Ledger!AddUp(rows, set) - rows[i].amount
<1>1. SumFunctionOnSet(Amounts(rows), set) = Amounts(rows)[i] + SumFunctionOnSet(Amounts(rows), set \ {i})
  <2>1. IsFiniteSet(set) /\ \A j \in set : Amounts(rows)[j] \in Int
    BY RowsFinite
  <2> QED
    BY <2>1, SumRemove
<1>2. Amounts(rows)[i] = rows[i].amount /\ rows[i].amount \in Int
  BY RowsFinite DEF Amounts
<1>3. SumFunctionOnSet(Amounts(rows), set \ {i}) \in Int
  <2>1. IsFiniteSet(set \ {i}) /\ \A j \in set \ {i} : Amounts(rows)[j] \in Int
    BY RowsFinite
  <2> QED
    BY <2>1, SumType
<1> QED
  BY <1>1, <1>2, <1>3, LedgerSums

\* The two ways of adding up an account.
Balanced(rows) ==
    \A a \in Account :
        Ledger!AddUp(rows, Ledger!OnAccount(rows, a)) =
            Ledger!AddUp(rows, Ledger!OnAccount(rows, a) \intersect Ledger!Standing(rows))

\* A row that replaces nothing, or a row already taken back.
Places(rows, row) ==
    /\ row.note # "reversal"
    /\ row.superseded_by # 0 => Ledger!Adjusted(rows, row.superseded_by)

\* A row that takes back a standing one.
TakesBack(rows, row) ==
    /\ row.note = "reversal"
    /\ row.superseded_by \in Ledger!Standing(rows)
    /\ row.account = rows[row.superseded_by].account
    /\ row.amount = -rows[row.superseded_by].amount

\* What an appended row changes about who stands on which account.
LEMMA Appended ==
    ASSUME NEW rows, LedgerRows(rows), NEW row \in EntryRow, row.superseded_by <= Len(rows)
    PROVE  /\ LedgerRows(Append(rows, row))
           /\ \A i : Ledger!Adjusted(Append(rows, row), i) <=>
                        Ledger!Adjusted(rows, i) \/ row.superseded_by = i
           /\ Ledger!Standing(Append(rows, row)) =
                 {i \in Ledger!Standing(rows) : row.superseded_by # i}
                 \union (IF row.note = "reversal" THEN {} ELSE {Len(rows) + 1})
           /\ \A a : Ledger!OnAccount(Append(rows, row), a) =
                        Ledger!OnAccount(rows, a)
                        \union (IF row.account = a THEN {Len(rows) + 1} ELSE {})
<1>1. PICK new : new = Append(rows, row)
  OBVIOUS
<1>2. /\ new \in Seq(EntryRow) /\ DOMAIN new = DOMAIN rows \union {Len(rows) + 1}
      /\ DOMAIN rows = 1..Len(rows) /\ Len(rows) \in Nat
      /\ \A i \in DOMAIN rows : new[i] = rows[i]
      /\ new[Len(rows) + 1] = row
  BY <1>1 DEF LedgerRows
<1>3. row.superseded_by \in Nat /\ \A j \in DOMAIN rows : rows[j].superseded_by < j
  BY DEF LedgerRows, EntryRow
<1>4. LedgerRows(new)
  BY <1>2, <1>3 DEF LedgerRows
<1>5. \A i : Ledger!Adjusted(new, i) <=> Ledger!Adjusted(rows, i) \/ row.superseded_by = i
  BY <1>2 DEF Ledger!Adjusted
<1>6. ~Ledger!Adjusted(new, Len(rows) + 1)
  <2>1. ~Ledger!Adjusted(rows, Len(rows) + 1)
    <3>1. ASSUME NEW j \in DOMAIN rows, rows[j].superseded_by = Len(rows) + 1 PROVE FALSE
      BY <1>2, <1>3, <3>1
    <3> QED
      BY <3>1 DEF Ledger!Adjusted
  <2> QED
    BY <2>1, <1>2, <1>3, <1>5
<1>7. Ledger!Standing(new) =
         {i \in Ledger!Standing(rows) : row.superseded_by # i}
         \union (IF row.note = "reversal" THEN {} ELSE {Len(rows) + 1})
  BY <1>2, <1>5, <1>6 DEF Ledger!Standing
<1>8. ASSUME NEW a
      PROVE  Ledger!OnAccount(new, a) =
                Ledger!OnAccount(rows, a) \union (IF row.account = a THEN {Len(rows) + 1} ELSE {})
  BY <1>2 DEF Ledger!OnAccount
<1> QED
  BY <1>1, <1>4, <1>5, <1>7, <1>8

\* Accounts stay balanced.
LEMMA BalancedAppend ==
    ASSUME NEW rows, LedgerRows(rows), NEW row \in EntryRow, row.superseded_by <= Len(rows),
           Balanced(rows), Places(rows, row) \/ TakesBack(rows, row)
    PROVE  Balanced(Append(rows, row))
<1> SUFFICES ASSUME NEW a \in Account
             PROVE  Ledger!AddUp(Append(rows, row), Ledger!OnAccount(Append(rows, row), a)) =
                    Ledger!AddUp(Append(rows, row), Ledger!OnAccount(Append(rows, row), a)
                                                    \intersect Ledger!Standing(Append(rows, row)))
  BY DEF Balanced
<1>1. PICK new : new = Append(rows, row)
  OBVIOUS
<1>2. PICK all : all = Ledger!OnAccount(rows, a)
  OBVIOUS
<1>3. PICK standing : standing = all \intersect Ledger!Standing(rows)
  OBVIOUS
<1>4. rows \in Seq(EntryRow) /\ all \in SUBSET DOMAIN rows /\ standing \in SUBSET all
  BY <1>2, <1>3 DEF LedgerRows, Ledger!OnAccount
<1>5. Ledger!AddUp(rows, all) = Ledger!AddUp(rows, standing) /\ Ledger!AddUp(rows, all) \in Int
  BY <1>2, <1>3, <1>4, AddUpType DEF Balanced
<1>6. Len(rows) + 1 \notin DOMAIN rows
  BY <1>4
<1>7. /\ Ledger!OnAccount(new, a) = all \union (IF row.account = a THEN {Len(rows) + 1} ELSE {})
      /\ Ledger!Standing(new) = {i \in Ledger!Standing(rows) : row.superseded_by # i}
                                \union (IF row.note = "reversal" THEN {} ELSE {Len(rows) + 1})
  BY <1>1, <1>2, Appended
<1>8. CASE Places(rows, row)
  <2>1. {i \in Ledger!Standing(rows) : row.superseded_by # i} = Ledger!Standing(rows)
    <3>1. 0 \notin DOMAIN rows
      BY <1>4
    <3> QED
      BY <1>8, <3>1 DEF Places, Ledger!Standing
  <2>2. CASE row.account = a
    <3>1. /\ Ledger!OnAccount(new, a) = all \union {Len(rows) + 1}
          /\ Ledger!OnAccount(new, a) \intersect Ledger!Standing(new) = standing \union {Len(rows) + 1}
      BY <1>3, <1>7, <1>8, <2>1, <2>2 DEF Places
    <3> QED
      BY <1>1, <1>4, <1>5, <3>1, AddUpAppend
  <2>3. CASE row.account # a
    <3>1. /\ Ledger!OnAccount(new, a) = all
          /\ Ledger!OnAccount(new, a) \intersect Ledger!Standing(new) = standing
      BY <1>3, <1>4, <1>6, <1>7, <1>8, <2>1, <2>3 DEF Places
    <3> QED
      BY <1>1, <1>4, <1>5, <3>1, AddUpAppend
  <2> QED
    BY <2>2, <2>3
<1>9. CASE TakesBack(rows, row)
  <2>1. PICK i : i = row.superseded_by
    OBVIOUS
  <2>2. i \in Ledger!Standing(rows) /\ row.account = rows[i].account /\ row.amount = -rows[i].amount
    BY <1>9, <2>1 DEF TakesBack
  <2>3. Ledger!OnAccount(new, a) \intersect Ledger!Standing(new) = standing \ {i}
    BY <1>3, <1>4, <1>6, <1>7, <1>9, <2>1 DEF TakesBack, Ledger!Standing
  <2>4. i \in DOMAIN rows /\ rows[i].amount \in Int
    <3>1. i \in DOMAIN rows
      BY <2>2 DEF Ledger!Standing
    <3>2. rows[i] \in EntryRow
      BY <1>4, <3>1
    <3> QED
      BY <3>1, <3>2 DEF EntryRow
  <2>5. CASE row.account = a
    <3>1. Ledger!OnAccount(new, a) = all \union {Len(rows) + 1} /\ i \in standing
      BY <1>2, <1>3, <1>7, <2>2, <2>4, <2>5 DEF Ledger!OnAccount
    <3>2. Ledger!AddUp(new, all \union {Len(rows) + 1}) = Ledger!AddUp(rows, all) + row.amount
      BY <1>1, <1>4, AddUpAppend
    <3>3. Ledger!AddUp(new, standing \ {i}) = Ledger!AddUp(rows, standing \ {i})
      BY <1>1, <1>4, AddUpAppend
    <3>4. Ledger!AddUp(rows, standing \ {i}) = Ledger!AddUp(rows, standing) - rows[i].amount
      BY <1>4, <3>1, AddUpWithout
    <3> QED
      BY <1>1, <1>5, <2>2, <2>3, <2>4, <3>1, <3>2, <3>3, <3>4
  <2>6. CASE row.account # a
    <3>1. Ledger!OnAccount(new, a) = all /\ i \notin standing
      BY <1>2, <1>3, <1>7, <2>2, <2>6 DEF Ledger!OnAccount
    <3>2. standing \ {i} = standing
      BY <3>1
    <3>3. standing \in SUBSET DOMAIN rows
      BY <1>4
    <3>4. Ledger!AddUp(new, all) = Ledger!AddUp(rows, all)
      BY <1>1, <1>4, AddUpAppend
    <3>5. Ledger!AddUp(new, standing) = Ledger!AddUp(rows, standing)
      BY <1>1, <1>4, <3>3, AddUpAppend
    <3> QED
      BY <1>1, <1>5, <2>3, <3>1, <3>2, <3>4, <3>5
  <2> QED
    BY <2>5, <2>6
<1> QED
  BY <1>8, <1>9

-----------------------------------------------------------------------------
(* The ledger: what is over the cap *)

\* Pay, what reclassifications took off the account, and where they put it.
PaidRows(rows) == {i \in Ledger!OnAccount(rows, "compensation") : rows[i].note # "reclass"}
TakenRows(rows) == {i \in Ledger!OnAccount(rows, "compensation") : rows[i].note = "reclass"}
MovedRows(rows) == {i \in Ledger!OnAccount(rows, "unallowable") : rows[i].note = "reclass"}

\* half of a reclassification is posted, and rest is still to come under the cap.
Under(rows, half, rest) ==
    /\ Ledger!Already(rows) >= 0
    /\ Ledger!AddUp(rows, TakenRows(rows)) + Ledger!Already(rows) + half = 0
    /\ Ledger!Already(rows) + rest <= Ledger!Over(rows)

\* The totals the service computes are sums over these rows.
LEMMA RowSets ==
    ASSUME NEW rows \in Seq(EntryRow)
    PROVE  /\ PaidRows(rows) \in SUBSET DOMAIN rows
           /\ TakenRows(rows) \in SUBSET DOMAIN rows
           /\ MovedRows(rows) \in SUBSET DOMAIN rows
           /\ Ledger!PaidOut(rows) = Ledger!AddUp(rows, PaidRows(rows))
           /\ Ledger!Already(rows) = Ledger!AddUp(rows, MovedRows(rows))
           /\ Ledger!PaidOut(rows) \in Int /\ Ledger!Already(rows) \in Int
           /\ Ledger!AddUp(rows, TakenRows(rows)) \in Int
<1>1. /\ PaidRows(rows) \in SUBSET DOMAIN rows /\ TakenRows(rows) \in SUBSET DOMAIN rows
      /\ MovedRows(rows) \in SUBSET DOMAIN rows
  BY DEF PaidRows, TakenRows, MovedRows, Ledger!OnAccount
<1>2. /\ Ledger!PaidOut(rows) = Ledger!AddUp(rows, PaidRows(rows))
      /\ Ledger!Already(rows) = Ledger!AddUp(rows, MovedRows(rows))
  BY DEF Ledger!PaidOut, Ledger!Already, PaidRows, MovedRows
<1> QED
  BY <1>1, <1>2, AddUpType

\* Each of them gains an appended row or stays as it is.
LEMMA RowSetsAppend ==
    ASSUME NEW rows, LedgerRows(rows), NEW row \in EntryRow, row.superseded_by <= Len(rows),
           NEW new, new = Append(rows, row)
    PROVE  /\ PaidRows(new) = PaidRows(rows) \union
                 (IF row.account = "compensation" /\ row.note # "reclass" THEN {Len(rows) + 1} ELSE {})
           /\ TakenRows(new) = TakenRows(rows) \union
                 (IF row.account = "compensation" /\ row.note = "reclass" THEN {Len(rows) + 1} ELSE {})
           /\ MovedRows(new) = MovedRows(rows) \union
                 (IF row.account = "unallowable" /\ row.note = "reclass" THEN {Len(rows) + 1} ELSE {})
<1>1. /\ \A i \in DOMAIN rows : new[i] = rows[i]
      /\ new[Len(rows) + 1] = row /\ Len(rows) + 1 \notin DOMAIN rows
  BY DEF LedgerRows
<1>2. \A a : Ledger!OnAccount(new, a) =
             Ledger!OnAccount(rows, a) \union (IF row.account = a THEN {Len(rows) + 1} ELSE {})
  BY Appended
<1>3. \A a : Ledger!OnAccount(rows, a) \subseteq DOMAIN rows
  BY DEF Ledger!OnAccount
<1> QED
  BY <1>1, <1>2, <1>3 DEF PaidRows, TakenRows, MovedRows

\* The three sums of a ledger with a row more.
LEMMA SumsAppend ==
    ASSUME NEW rows, LedgerRows(rows), NEW row \in EntryRow, row.superseded_by <= Len(rows),
           NEW new, new = Append(rows, row)
    PROVE  /\ Ledger!PaidOut(new) = Ledger!PaidOut(rows) +
                 (IF row.account = "compensation" /\ row.note # "reclass" THEN row.amount ELSE 0)
           /\ Ledger!AddUp(new, TakenRows(new)) = Ledger!AddUp(rows, TakenRows(rows)) +
                 (IF row.account = "compensation" /\ row.note = "reclass" THEN row.amount ELSE 0)
           /\ Ledger!Already(new) = Ledger!Already(rows) +
                 (IF row.account = "unallowable" /\ row.note = "reclass" THEN row.amount ELSE 0)
<1>1. rows \in Seq(EntryRow) /\ new \in Seq(EntryRow)
  BY DEF LedgerRows
<1>2. /\ Ledger!PaidOut(new) = Ledger!AddUp(new, PaidRows(new))
      /\ Ledger!Already(new) = Ledger!AddUp(new, MovedRows(new))
  BY <1>1, RowSets
<1>3. /\ Ledger!PaidOut(rows) = Ledger!AddUp(rows, PaidRows(rows))
      /\ Ledger!Already(rows) = Ledger!AddUp(rows, MovedRows(rows))
      /\ Ledger!AddUp(rows, PaidRows(rows)) \in Int /\ Ledger!AddUp(rows, MovedRows(rows)) \in Int
      /\ Ledger!AddUp(rows, TakenRows(rows)) \in Int
  BY <1>1, RowSets
<1>4. ASSUME NEW set \in SUBSET DOMAIN rows
      PROVE  /\ Ledger!AddUp(new, set) = Ledger!AddUp(rows, set)
             /\ Ledger!AddUp(new, set \union {Len(rows) + 1}) = Ledger!AddUp(rows, set) + row.amount
  BY <1>1, AddUpAppend
<1>5. Ledger!AddUp(new, PaidRows(new)) = Ledger!AddUp(rows, PaidRows(rows)) +
         (IF row.account = "compensation" /\ row.note # "reclass" THEN row.amount ELSE 0)
  <2>1. PaidRows(new) = PaidRows(rows) \union (IF row.account = "compensation" /\ row.note # "reclass" THEN {Len(rows) + 1} ELSE {})
    BY RowSetsAppend
  <2>2. PaidRows(rows) \in SUBSET DOMAIN rows
    BY <1>1, RowSets
  <2>3. CASE row.account = "compensation" /\ row.note # "reclass"
    <3>1. PaidRows(new) = PaidRows(rows) \union {Len(rows) + 1}
      BY <2>1, <2>3
    <3> QED
      BY <1>4, <2>2, <2>3, <3>1
  <2>4. CASE ~(row.account = "compensation" /\ row.note # "reclass")
    <3>1. PaidRows(new) = PaidRows(rows)
      BY <2>1, <2>4
    <3>2. Ledger!AddUp(new, PaidRows(new)) = Ledger!AddUp(rows, PaidRows(rows))
      BY <1>4, <2>2, <3>1
    <3>3. Ledger!AddUp(rows, PaidRows(rows)) = Ledger!AddUp(rows, PaidRows(rows)) + 0
      BY <1>3
    <3> QED
      BY <2>4, <3>2, <3>3
  <2> QED
    BY <2>3, <2>4
<1>6. Ledger!AddUp(new, TakenRows(new)) = Ledger!AddUp(rows, TakenRows(rows)) +
         (IF row.account = "compensation" /\ row.note = "reclass" THEN row.amount ELSE 0)
  <2>1. TakenRows(new) = TakenRows(rows) \union (IF row.account = "compensation" /\ row.note = "reclass" THEN {Len(rows) + 1} ELSE {})
    BY RowSetsAppend
  <2>2. TakenRows(rows) \in SUBSET DOMAIN rows
    BY <1>1, RowSets
  <2>3. CASE row.account = "compensation" /\ row.note = "reclass"
    <3>1. TakenRows(new) = TakenRows(rows) \union {Len(rows) + 1}
      BY <2>1, <2>3
    <3> QED
      BY <1>4, <2>2, <2>3, <3>1
  <2>4. CASE ~(row.account = "compensation" /\ row.note = "reclass")
    <3>1. TakenRows(new) = TakenRows(rows)
      BY <2>1, <2>4
    <3>2. Ledger!AddUp(new, TakenRows(new)) = Ledger!AddUp(rows, TakenRows(rows))
      BY <1>4, <2>2, <3>1
    <3>3. Ledger!AddUp(rows, TakenRows(rows)) = Ledger!AddUp(rows, TakenRows(rows)) + 0
      BY <1>3
    <3> QED
      BY <2>4, <3>2, <3>3
  <2> QED
    BY <2>3, <2>4
<1>7. Ledger!AddUp(new, MovedRows(new)) = Ledger!AddUp(rows, MovedRows(rows)) +
         (IF row.account = "unallowable" /\ row.note = "reclass" THEN row.amount ELSE 0)
  <2>1. MovedRows(new) = MovedRows(rows) \union (IF row.account = "unallowable" /\ row.note = "reclass" THEN {Len(rows) + 1} ELSE {})
    BY RowSetsAppend
  <2>2. MovedRows(rows) \in SUBSET DOMAIN rows
    BY <1>1, RowSets
  <2>3. CASE row.account = "unallowable" /\ row.note = "reclass"
    <3>1. MovedRows(new) = MovedRows(rows) \union {Len(rows) + 1}
      BY <2>1, <2>3
    <3> QED
      BY <1>4, <2>2, <2>3, <3>1
  <2>4. CASE ~(row.account = "unallowable" /\ row.note = "reclass")
    <3>1. MovedRows(new) = MovedRows(rows)
      BY <2>1, <2>4
    <3>2. Ledger!AddUp(new, MovedRows(new)) = Ledger!AddUp(rows, MovedRows(rows))
      BY <1>4, <2>2, <3>1
    <3>3. Ledger!AddUp(rows, MovedRows(rows)) = Ledger!AddUp(rows, MovedRows(rows)) + 0
      BY <1>3
    <3> QED
      BY <2>4, <3>2, <3>3
  <2> QED
    BY <2>3, <2>4
<1> QED
  BY <1>2, <1>3, <1>5, <1>6, <1>7

\* What is posted on the account is pay and what was taken off it.
LEMMA CompensationSplit ==
    ASSUME NEW rows \in Seq(EntryRow)
    PROVE  Ledger!AddUp(rows, Ledger!OnAccount(rows, "compensation")) =
              Ledger!PaidOut(rows) + Ledger!AddUp(rows, TakenRows(rows))
<1>1. PICK all : all = Ledger!OnAccount(rows, "compensation")
  OBVIOUS
<1>2. /\ all = PaidRows(rows) \union TakenRows(rows)
      /\ PaidRows(rows) \intersect TakenRows(rows) = {}
  BY <1>1 DEF PaidRows, TakenRows
<1>3. SumFunctionOnSet(Amounts(rows), all) =
         SumFunctionOnSet(Amounts(rows), PaidRows(rows)) + SumFunctionOnSet(Amounts(rows), TakenRows(rows))
  BY <1>2, RowSets, RowsFinite, SumUnion
<1> QED
  BY <1>1, <1>3, RowSets, LedgerSums

\* Other rows leave the excess where it is or add to it.
LEMMA UnderAppend ==
    ASSUME NEW rows, LedgerRows(rows), NEW row \in EntryRow, row.superseded_by <= Len(rows),
           row.note # "reclass", row.account = "compensation" => row.amount >= 0,
           NEW half \in Int, NEW rest \in Int, Under(rows, half, rest)
    PROVE  Under(Append(rows, row), half, rest)
<1>1. PICK new : new = Append(rows, row)
  OBVIOUS
<1>2. rows \in Seq(EntryRow)
  BY DEF LedgerRows
<1>3. /\ Ledger!PaidOut(rows) \in Int /\ Ledger!Already(rows) \in Int
      /\ Ledger!AddUp(rows, TakenRows(rows)) \in Int
  BY <1>2, RowSets
<1>6. /\ Ledger!PaidOut(new) = Ledger!PaidOut(rows) +
                 (IF row.account = "compensation" /\ row.note # "reclass" THEN row.amount ELSE 0)
      /\ Ledger!AddUp(new, TakenRows(new)) = Ledger!AddUp(rows, TakenRows(rows)) +
                 (IF row.account = "compensation" /\ row.note = "reclass" THEN row.amount ELSE 0)
      /\ Ledger!Already(new) = Ledger!Already(rows) +
                 (IF row.account = "unallowable" /\ row.note = "reclass" THEN row.amount ELSE 0)
  BY <1>1, SumsAppend
<1>7. row.amount \in Int
  BY DEF EntryRow
<1>4. /\ Ledger!PaidOut(new) >= Ledger!PaidOut(rows) /\ Ledger!PaidOut(new) \in Int
      /\ Ledger!AddUp(new, TakenRows(new)) = Ledger!AddUp(rows, TakenRows(rows))
      /\ Ledger!Already(new) = Ledger!Already(rows)
  BY <1>3, <1>6, <1>7
<1>5. Ledger!Over(new) >= Ledger!Over(rows) /\ Ledger!Over(new) \in Int /\ Ledger!Over(rows) \in Int
  BY <1>3, <1>4, LedgerAssumption DEF Ledger!Over
<1> QED
  BY <1>1, <1>3, <1>4, <1>5 DEF Under

\* The excess is taken off the compensation account, ...
LEMMA UnderTaken ==
    ASSUME NEW rows, LedgerRows(rows), NEW row \in EntryRow, row.superseded_by <= Len(rows),
           row.note = "reclass", row.account = "compensation",
           NEW rest \in Int, row.amount = -rest, Under(rows, 0, rest)
    PROVE  Under(Append(rows, row), rest, rest)
<1>1. PICK new : new = Append(rows, row)
  OBVIOUS
<1>2. rows \in Seq(EntryRow)
  BY DEF LedgerRows
<1>3. /\ Ledger!PaidOut(rows) \in Int /\ Ledger!Already(rows) \in Int
      /\ Ledger!AddUp(rows, TakenRows(rows)) \in Int /\ row.amount \in Int
  BY <1>2, RowSets DEF EntryRow
<1>6. /\ Ledger!PaidOut(new) = Ledger!PaidOut(rows) +
                 (IF row.account = "compensation" /\ row.note # "reclass" THEN row.amount ELSE 0)
      /\ Ledger!AddUp(new, TakenRows(new)) = Ledger!AddUp(rows, TakenRows(rows)) +
                 (IF row.account = "compensation" /\ row.note = "reclass" THEN row.amount ELSE 0)
      /\ Ledger!Already(new) = Ledger!Already(rows) +
                 (IF row.account = "unallowable" /\ row.note = "reclass" THEN row.amount ELSE 0)
  BY <1>1, SumsAppend
<1>7. row.amount \in Int
  BY DEF EntryRow
<1>4. /\ Ledger!PaidOut(new) = Ledger!PaidOut(rows)
      /\ Ledger!AddUp(new, TakenRows(new)) = Ledger!AddUp(rows, TakenRows(rows)) + row.amount
      /\ Ledger!Already(new) = Ledger!Already(rows)
  BY <1>3, <1>6, <1>7
<1>5. Ledger!Over(new) = Ledger!Over(rows) /\ Ledger!Over(rows) \in Int
  BY <1>3, <1>4, LedgerAssumption DEF Ledger!Over
<1>8. /\ Ledger!Already(rows) >= 0
      /\ Ledger!AddUp(rows, TakenRows(rows)) + Ledger!Already(rows) + 0 = 0
      /\ Ledger!Already(rows) + rest <= Ledger!Over(rows)
  BY DEF Under
<1>9. Ledger!AddUp(new, TakenRows(new)) + Ledger!Already(new) + rest = 0
  BY <1>3, <1>4, <1>8
<1> QED
  BY <1>1, <1>4, <1>5, <1>8, <1>9 DEF Under

\* ... and put on the unallowable one.
LEMMA UnderMoved ==
    ASSUME NEW rows, LedgerRows(rows), NEW row \in EntryRow, row.superseded_by <= Len(rows),
           row.note = "reclass", row.account = "unallowable", row.amount >= 0,
           Under(rows, row.amount, row.amount)
    PROVE  Under(Append(rows, row), 0, 0)
<1>1. PICK new : new = Append(rows, row)
  OBVIOUS
<1>2. rows \in Seq(EntryRow)
  BY DEF LedgerRows
<1>3. /\ Ledger!PaidOut(rows) \in Int /\ Ledger!Already(rows) \in Int
      /\ Ledger!AddUp(rows, TakenRows(rows)) \in Int /\ row.amount \in Int
  BY <1>2, RowSets DEF EntryRow
<1>6. /\ Ledger!PaidOut(new) = Ledger!PaidOut(rows) +
                 (IF row.account = "compensation" /\ row.note # "reclass" THEN row.amount ELSE 0)
      /\ Ledger!AddUp(new, TakenRows(new)) = Ledger!AddUp(rows, TakenRows(rows)) +
                 (IF row.account = "compensation" /\ row.note = "reclass" THEN row.amount ELSE 0)
      /\ Ledger!Already(new) = Ledger!Already(rows) +
                 (IF row.account = "unallowable" /\ row.note = "reclass" THEN row.amount ELSE 0)
  BY <1>1, SumsAppend
<1>7. row.amount \in Int
  BY DEF EntryRow
<1>4. /\ Ledger!PaidOut(new) = Ledger!PaidOut(rows)
      /\ Ledger!AddUp(new, TakenRows(new)) = Ledger!AddUp(rows, TakenRows(rows))
      /\ Ledger!Already(new) = Ledger!Already(rows) + row.amount
  BY <1>3, <1>6, <1>7
<1>5. Ledger!Over(new) = Ledger!Over(rows) /\ Ledger!Over(rows) \in Int
  BY <1>3, <1>4, LedgerAssumption DEF Ledger!Over
<1> QED
  BY <1>1, <1>3, <1>4, <1>5 DEF Under

\* What reclassify_excess computes is under the cap.
LEMMA UnderStart ==
    ASSUME NEW rows, LedgerRows(rows), Under(rows, 0, 0),
           NEW remaining, remaining = Ledger!Excess(rows) - Ledger!Already(rows), ~(remaining <= 0)
    PROVE  remaining \in Int /\ remaining > 0 /\ Under(rows, 0, remaining)
<1>1. rows \in Seq(EntryRow)
  BY DEF LedgerRows
<1>2. /\ Ledger!PaidOut(rows) \in Int /\ Ledger!Already(rows) \in Int
      /\ Ledger!AddUp(rows, TakenRows(rows)) \in Int
  BY <1>1, RowSets
<1>3. Ledger!Excess(rows) = IF (Ledger!PaidOut(rows) + Ledger!AddUp(rows, TakenRows(rows))) - Cap > 0
                            THEN (Ledger!PaidOut(rows) + Ledger!AddUp(rows, TakenRows(rows))) - Cap
                            ELSE 0
  <2>1. PICK all : all = Ledger!AddUp(rows, Ledger!OnAccount(rows, "compensation"))
    OBVIOUS
  <2>2. Ledger!Excess(rows) = IF all - Cap > 0 THEN all - Cap ELSE 0
    BY <2>1 DEF Ledger!Excess
  <2>3. all = Ledger!PaidOut(rows) + Ledger!AddUp(rows, TakenRows(rows))
    BY <1>1, <2>1, CompensationSplit
  <2>4. all - Cap = (Ledger!PaidOut(rows) + Ledger!AddUp(rows, TakenRows(rows))) - Cap
    BY <2>3
  <2> QED
    BY <2>2, <2>4, Zenon
<1>4. PICK P \in Int, T \in Int, A \in Int :
         P = Ledger!PaidOut(rows) /\ T = Ledger!AddUp(rows, TakenRows(rows)) /\ A = Ledger!Already(rows)
  BY <1>2
<1>5. A >= 0 /\ T + A = 0
  BY <1>4 DEF Under
<1>6. remaining = (IF (P + T) - Cap > 0 THEN (P + T) - Cap ELSE 0) - A /\ Cap \in Int
  BY <1>3, <1>4, LedgerAssumption
<1>7. (P + T) - Cap > 0 /\ remaining = ((P + T) - Cap) - A /\ remaining > 0
  BY <1>5, <1>6
<1>8. Ledger!Over(rows) = P - Cap
  BY <1>4, <1>5, <1>6, <1>7 DEF Ledger!Over
<1>9. remaining \in Int /\ A + remaining <= P - Cap /\ T + A + 0 = 0
  <2>1. PICK C \in Int : C = Cap
    BY LedgerAssumption
  <2>2. remaining = ((P + T) - C) - A
    BY <1>7, <2>1
  <2>3. remaining \in Int
    BY <1>4, <2>1, <2>2
  <2>4. A + remaining = (P + T) - C
    BY <1>4, <2>1, <2>2, <2>3
  <2>5. T <= 0
    BY <1>4, <1>5
  <2>6. (P + T) - C <= P - C
    BY <1>4, <2>1, <2>5
  <2> QED
    BY <1>5, <1>4, <2>1, <2>3, <2>4, <2>6
<1> QED
  BY <1>4, <1>5, <1>7, <1>8, <1>9 DEF Under

-----------------------------------------------------------------------------
(* The ledger: the inductive invariant *)

\* A session is posting rows; it is adjusting the row the first of them names.
Posts(s) == call[s].op = "post"
Original(s) == call[s].rows[1].superseded_by
Adjusts(s) == Posts(s) /\ Original(s) # 0

\* What is committed is the beginning of what is written, and what is about to
\* be posted refers to rows that are there.
LedgerTypes ==
    /\ DOMAIN db = {"ledger"} /\ DOMAIN work = {"ledger"}
    /\ LedgerRows(db["ledger"]) /\ LedgerRows(work["ledger"])
    /\ Len(db["ledger"]) <= Len(work["ledger"])
    /\ \A j \in DOMAIN db["ledger"] : work["ledger"][j] = db["ledger"][j]
    /\ writer \in Session \union {NoSession}
    /\ writer = NoSession => work = db
    /\ DOMAIN call = Session
    /\ \A s \in Session :
          \/ call[s] = [op |-> "idle"]
          \/ /\ call[s] \in [op : {"post"}, rows : Seq(EntryRow)]
             /\ call[s].rows # <<>>
             /\ \A j \in DOMAIN call[s].rows : call[s].rows[j].superseded_by <= Len(Ledger!Ledger(s))
    /\ history \in [raced : BOOLEAN, twice : BOOLEAN, reduced : BOOLEAN]

\* The rows a session is about to post, as adjustments: the reversal comes first
\* and takes back a row that nobody has adjusted yet; the others replace it.
Adjustment(s) ==
    /\ \A j \in DOMAIN call[s].rows :
          /\ call[s].rows[j].superseded_by = Original(s)
          /\ j > 1 => call[s].rows[j].note # "reversal"
    /\ call[s].rows[1].note = "reversal" =>
          TakesBack(Ledger!Ledger(s), call[s].rows[1]) /\ ~Ledger!Adjusted(work["ledger"], Original(s))
    /\ call[s].rows[1].note # "reversal" /\ Original(s) # 0 =>
          writer = s /\ Ledger!Adjusted(work["ledger"], Original(s))

\* As long as no row is adjusted twice, both ways of adding up agree, and no two
\* sessions are adjusting the same row.
TwiceInv ==
    ~history.twice =>
        /\ Balanced(db["ledger"]) /\ Balanced(work["ledger"])
        /\ \A s, t \in Session : Adjusts(s) /\ Adjusts(t) /\ Original(s) = Original(t) => s = t
        /\ \A s \in Session : Posts(s) => Adjustment(s)

\* A reclassification is about to be posted, or its second row is.
Taken(rest) == Ledger!Entry("compensation", -rest, 0, "reclass")
Moved(rest) == Ledger!Entry("unallowable", rest, 0, "reclass")
Moves(s) == Posts(s) /\ call[s].rows[1].note = "reclass"
Halfway(s) == Moves(s) /\ call[s].rows[1].account = "unallowable"

\* As long as runs do not overlap and pay is not reduced, what was moved is within
\* the excess, counting what a run is about to move.
ExcessInv ==
    ~history.raced /\ ~history.reduced =>
        /\ Under(db["ledger"], 0, 0)
        /\ (\A s \in Session : ~Halfway(s)) => Under(work["ledger"], 0, 0)
        /\ \A s, t \in Session : Moves(s) /\ Moves(t) => s = t
        /\ \A s \in Session : Posts(s) /\ ~Moves(s) =>
              \A j \in DOMAIN call[s].rows :
                 /\ call[s].rows[j].note # "reclass"
                 /\ call[s].rows[j].account = "compensation" => call[s].rows[j].amount >= 0
        /\ \A s \in Session : Moves(s) /\ ~Halfway(s) =>
              \E rest \in Int :
                 /\ rest > 0 /\ call[s].rows = <<Taken(rest), Moved(rest)>>
                 /\ Under(work["ledger"], 0, rest)
                 /\ writer # s => Under(db["ledger"], 0, rest)
        /\ \A s \in Session : Halfway(s) =>
              /\ writer = s
              /\ \E rest \in Int : /\ rest > 0 /\ call[s].rows = <<Moved(rest)>>
                                   /\ Under(work["ledger"], rest, rest)

\* What is known of the ledger.
LedgerInv == LedgerTypes /\ TwiceInv /\ ExcessInv

\* An empty ledger.
LEMMA LedgerInit == Ledger!Init => LedgerInv
<1> SUFFICES ASSUME Ledger!Init PROVE LedgerInv
  OBVIOUS
<1>1. /\ db = [x \in {"ledger"} |-> <<>>] /\ work = db /\ writer = NoSession
      /\ call = [s \in Session |-> [op |-> "idle"]]
      /\ history = [raced |-> FALSE, twice |-> FALSE, reduced |-> FALSE]
  BY DEF Ledger!Init, Ledger!Start, Ledger!Only, Ledger!Idle
<1>2. PICK none : none = <<>>
  OBVIOUS
<1>3. /\ DOMAIN db = {"ledger"} /\ db["ledger"] = none /\ work["ledger"] = none
      /\ \A s \in Session : ~Posts(s)
  BY <1>1, <1>2 DEF Posts
<1>4. none \in Seq(EntryRow) /\ DOMAIN none = {} /\ Len(none) = 0 /\ LedgerRows(none)
  BY <1>2 DEF LedgerRows
<1>5. LedgerTypes
  BY <1>1, <1>3, <1>4 DEF LedgerTypes
<1>6. \A set : set \subseteq DOMAIN none => Ledger!AddUp(none, set) = 0
  BY <1>4, LedgerSums, SumEmpty
<1>7. Balanced(none)
  BY <1>4, <1>6 DEF Balanced, Ledger!OnAccount
<1>8. Under(none, 0, 0)
  <2>1. /\ Ledger!PaidOut(none) = 0 /\ Ledger!Already(none) = 0
        /\ Ledger!AddUp(none, TakenRows(none)) = 0
    BY <1>4, <1>6, RowSets
  <2>2. Ledger!Over(none) >= 0
    BY <2>1, LedgerAssumption DEF Ledger!Over
  <2> QED
    BY <2>1, <2>2 DEF Under
<1>9. TwiceInv
  BY <1>3, <1>7 DEF TwiceInv, Adjusts
<1>10. ExcessInv
  BY <1>3, <1>8 DEF ExcessInv, Moves, Halfway
<1> QED
  BY <1>5, <1>9, <1>10 DEF LedgerInv

\* What post_transaction does: the session that may write sees what is written.
LEMMA LedgerPosts ==
    ASSUME LedgerTypes, NEW s \in Session, Ledger!PostTransaction(s), NEW row, row = call[s].rows[1]
    PROVE  /\ Posts(s) /\ row \in EntryRow /\ row.superseded_by <= Len(work["ledger"])
           /\ Ledger!Ledger(s) = work["ledger"]
           /\ DOMAIN work' = {"ledger"} /\ work'["ledger"] = Append(work["ledger"], row)
           /\ db' = db /\ writer' = s /\ writer \in {NoSession, s} /\ history' = history
           /\ DOMAIN call' = Session
           /\ \A t \in Session : t # s => call'[t] = call[t]
           /\ call[s].rows \in Seq(EntryRow) /\ call[s].rows # <<>>
           /\ Len(call[s].rows) = 1 => call'[s] = [op |-> "idle"]
           /\ Len(call[s].rows) # 1 => /\ call'[s] = [op |-> "post", rows |-> Tail(call[s].rows)]
                                       /\ Tail(call[s].rows) \in Seq(EntryRow)
                                       /\ Tail(call[s].rows) # <<>>
                                       /\ \A j \in DOMAIN Tail(call[s].rows) :
                                             /\ j + 1 \in DOMAIN call[s].rows
                                             /\ Tail(call[s].rows)[j] = call[s].rows[j + 1]
<1>1. PICK rows : rows = call[s].rows
  OBVIOUS
<1>2. /\ call[s] \in [op : {"post"}, rows : Seq(EntryRow)] /\ rows # <<>>
      /\ \A j \in DOMAIN rows : rows[j].superseded_by <= Len(Ledger!Ledger(s))
  BY <1>1 DEF LedgerTypes, Ledger!PostTransaction
<1>3. rows \in Seq(EntryRow) /\ 1 \in DOMAIN rows /\ Head(rows) = rows[1] /\ Len(rows) \in Nat
  BY <1>1, <1>2
<1>4. /\ writer \in {NoSession, s} /\ writer' = s /\ db' = db /\ history' = history
      /\ work' = Ledger!Replaced(Ledger!Sees(s), Ledger!Only("ledger", Append(Ledger!Ledger(s), Head(rows))))
  BY <1>1 DEF Ledger!PostTransaction, Ledger!Write
<1>5. Ledger!Ledger(s) = work["ledger"] /\ DOMAIN Ledger!Sees(s) = {"ledger"}
  BY <1>4, SessionAssumption DEF LedgerTypes, Ledger!Ledger, Ledger!Sees
<1>6. DOMAIN work' = {"ledger"} /\ work'["ledger"] = Append(work["ledger"], row)
  BY <1>1, <1>3, <1>4, <1>5 DEF Ledger!Replaced, Ledger!Only
<1>7. row \in EntryRow /\ row.superseded_by <= Len(work["ledger"])
  BY <1>1, <1>2, <1>3, <1>5
<1>8. DOMAIN call = Session
  BY DEF LedgerTypes
<1>9. DOMAIN call' = Session /\ \A t \in Session : t # s => call'[t] = call[t]
  BY <1>8 DEF Ledger!PostTransaction
<1>10. Len(rows) = 1 => call'[s] = [op |-> "idle"]
  BY <1>1, <1>8 DEF Ledger!PostTransaction, Ledger!Idle
<1>11. ASSUME Len(rows) # 1
       PROVE  /\ call'[s] = [op |-> "post", rows |-> Tail(rows)]
              /\ Tail(rows) \in Seq(EntryRow) /\ Tail(rows) # <<>>
              /\ \A j \in DOMAIN Tail(rows) : j + 1 \in DOMAIN rows /\ Tail(rows)[j] = rows[j + 1]
  <2>2. call'[s] = [op |-> "post", rows |-> Tail(rows)]
    BY <1>1, <1>8, <1>11 DEF Ledger!PostTransaction
  <2>3. Tail(rows) \in Seq(EntryRow) /\ Len(Tail(rows)) = Len(rows) - 1 /\ DOMAIN Tail(rows) = 1..(Len(rows) - 1)
    BY <1>2, <1>3
  <2>4. DOMAIN rows = 1..Len(rows) /\ Len(rows) > 1
    <3>1. DOMAIN rows = 1..Len(rows) /\ Len(rows) >= 1
      BY <1>3
    <3> QED
      BY <1>3, <1>11, <3>1
  <2>5. \A j \in DOMAIN Tail(rows) : j + 1 \in DOMAIN rows /\ Tail(rows)[j] = rows[j + 1]
    BY <1>2, <1>3, <2>3, <2>4
  <2>6. Tail(rows) # <<>>
    <3>1. PICK rest : rest = Tail(rows)
      OBVIOUS
    <3>2. PICK n \in Nat : n = Len(rows)
      BY <1>3
    <3>3. Len(rest) = n - 1 /\ n > 1
      BY <2>3, <2>4, <3>1, <3>2
    <3>4. Len(rest) # 0
      BY <3>2, <3>3
    <3> QED
      BY <3>1, <3>4
  <2> QED
    BY <2>2, <2>3, <2>5, <2>6
<1>12. Posts(s)
  BY <1>2 DEF Posts
<1> QED
  BY <1>1, <1>2, <1>3, <1>4, <1>5, <1>6, <1>7, <1>9, <1>10, <1>11, <1>12

\* Rows are only added.
LEMMA PostTypes ==
    ASSUME LedgerTypes, NEW s \in Session, Ledger!PostTransaction(s) PROVE LedgerTypes'
<1>1. PICK row : row = call[s].rows[1]
  OBVIOUS
<1>2. /\ row \in EntryRow /\ row.superseded_by <= Len(work["ledger"])
      /\ Ledger!Ledger(s) = work["ledger"]
      /\ DOMAIN work' = {"ledger"} /\ work'["ledger"] = Append(work["ledger"], row)
      /\ db' = db /\ writer' = s /\ writer \in {NoSession, s} /\ history' = history
      /\ DOMAIN call' = Session
      /\ \A t \in Session : t # s => call'[t] = call[t]
  BY <1>1, LedgerPosts
<1>3. LedgerRows(work'["ledger"])
  BY <1>2, Appended DEF LedgerTypes
<1>4. /\ Len(db["ledger"]) <= Len(work'["ledger"])
      /\ \A j \in DOMAIN db["ledger"] : work'["ledger"][j] = db["ledger"][j]
      /\ Len(work["ledger"]) <= Len(work'["ledger"])
  BY <1>2 DEF LedgerTypes, LedgerRows
<1>5. ASSUME NEW t \in Session
      PROVE  \/ call'[t] = [op |-> "idle"]
             \/ /\ call'[t] \in [op : {"post"}, rows : Seq(EntryRow)]
                /\ call'[t].rows # <<>>
                /\ \A j \in DOMAIN call'[t].rows : call'[t].rows[j].superseded_by <= Len(Ledger!Ledger(t)')
  <2>1. CASE t = s
    <3>1. Ledger!Ledger(s)' = work'["ledger"]
      BY <1>2 DEF Ledger!Ledger, Ledger!Sees
    <3>2. CASE Len(call[s].rows) # 1
      <4>1. PICK rows : rows = Tail(call[s].rows)
        OBVIOUS
      <4>2. /\ call'[s] = [op |-> "post", rows |-> rows]
            /\ rows \in Seq(EntryRow) /\ rows # <<>>
            /\ \A j \in DOMAIN rows : j + 1 \in DOMAIN call[s].rows /\ rows[j] = call[s].rows[j + 1]
        BY <1>1, <3>2, <4>1, LedgerPosts
      <4>3. \A j \in DOMAIN call[s].rows : call[s].rows[j].superseded_by <= Len(work["ledger"])
        BY <1>2 DEF LedgerTypes, Ledger!PostTransaction
      <4>4. ASSUME NEW j \in DOMAIN rows PROVE rows[j].superseded_by <= Len(work'["ledger"])
        <5>1. rows[j].superseded_by <= Len(work["ledger"]) /\ rows[j] \in EntryRow
          BY <4>2, <4>3
        <5>2. Len(work["ledger"]) \in Nat /\ Len(work'["ledger"]) \in Nat /\ rows[j].superseded_by \in Nat
          BY <1>3, <5>1 DEF LedgerTypes, LedgerRows, EntryRow
        <5> QED
          BY <1>4, <5>1, <5>2
      <4> QED
        BY <2>1, <3>1, <4>2, <4>4
    <3> QED
      BY <1>1, <2>1, <3>2, LedgerPosts
  <2>2. CASE t # s
    <3>1. Ledger!Ledger(t)' = Ledger!Ledger(t)
      BY <1>2, <2>2, SessionAssumption DEF Ledger!Ledger, Ledger!Sees
    <3> QED
      BY <1>2, <2>2, <3>1 DEF LedgerTypes
  <2> QED
    BY <2>1, <2>2
<1>6. writer' # NoSession
  BY <1>2, SessionAssumption
<1> QED
  BY <1>2, <1>3, <1>4, <1>5, <1>6 DEF LedgerTypes

\* A reversal takes back what stands, a replacement comes after it.
LEMMA PostTwice ==
    ASSUME LedgerTypes, TwiceInv, NEW s \in Session, Ledger!PostTransaction(s) PROVE TwiceInv'
<1> SUFFICES ASSUME ~history'.twice PROVE TwiceInv'
  BY DEF TwiceInv
<1>1. PICK row : row = call[s].rows[1]
  OBVIOUS
<1>2. /\ Posts(s) /\ row \in EntryRow /\ row.superseded_by <= Len(work["ledger"])
      /\ Ledger!Ledger(s) = work["ledger"]
      /\ DOMAIN work' = {"ledger"} /\ work'["ledger"] = Append(work["ledger"], row)
      /\ db' = db /\ writer' = s /\ writer \in {NoSession, s} /\ history' = history
      /\ DOMAIN call' = Session
      /\ \A t \in Session : t # s => call'[t] = call[t]
  BY <1>1, LedgerPosts
<1>3. /\ Balanced(db["ledger"]) /\ Balanced(work["ledger"])
      /\ \A t, u \in Session : Adjusts(t) /\ Adjusts(u) /\ Original(t) = Original(u) => t = u
      /\ \A t \in Session : Posts(t) => Adjustment(t)
  BY <1>2 DEF TwiceInv
<1>4. LedgerRows(work["ledger"])
  BY DEF LedgerTypes
<1>5. row.superseded_by = Original(s)
  BY <1>1 DEF Original
<1>6. Places(work["ledger"], row) \/ TakesBack(work["ledger"], row)
  BY <1>1, <1>2, <1>3, <1>5 DEF Adjustment, Places
<1>7. Balanced(work'["ledger"]) /\ Balanced(db'["ledger"])
  BY <1>2, <1>3, <1>4, <1>6, BalancedAppend
<1>8. \A i : Ledger!Adjusted(work'["ledger"], i) <=> Ledger!Adjusted(work["ledger"], i) \/ i = Original(s)
  BY <1>2, <1>4, <1>5, Appended
<1>9. ASSUME NEW t \in Session, t # s
      PROVE  /\ Posts(t)' <=> Posts(t)
             /\ Adjusts(t)' <=> Adjusts(t)
             /\ Original(t)' = Original(t)
             /\ Ledger!Ledger(t)' = Ledger!Ledger(t)
  BY <1>2, <1>9, SessionAssumption DEF Posts, Adjusts, Original, Ledger!Ledger, Ledger!Sees
<1>10. ASSUME NEW t \in Session, t # s, Posts(t)' PROVE Adjustment(t)'
  <2>1. Adjustment(t) /\ call'[t] = call[t] /\ writer # t
    BY <1>2, <1>3, <1>9, <1>10, SessionAssumption
  <2>2. ASSUME call[t].rows[1].note = "reversal"
        PROVE  TakesBack(Ledger!Ledger(t)', call[t].rows[1]) /\ ~Ledger!Adjusted(work'["ledger"], Original(t))
    <3>1. TakesBack(Ledger!Ledger(t), call[t].rows[1]) /\ ~Ledger!Adjusted(work["ledger"], Original(t))
      BY <2>1, <2>2 DEF Adjustment
    <3>2. Original(t) \in DOMAIN Ledger!Ledger(t) /\ Ledger!Ledger(t) \in Seq(EntryRow)
      BY <3>1 DEF TakesBack, Original, Ledger!Standing, LedgerTypes, LedgerRows, Ledger!Ledger, Ledger!Sees
    <3>3. Original(t) # 0
      BY <3>2
    <3>4. Original(t) # Original(s)
      BY <1>2, <1>3, <1>9, <1>10, <3>3 DEF Adjusts
    <3> QED
      BY <1>8, <1>9, <1>10, <3>1, <3>4
  <2>3. /\ \A j \in DOMAIN call[t].rows : /\ call[t].rows[j].superseded_by = Original(t)
                                          /\ j > 1 => call[t].rows[j].note # "reversal"
        /\ ~(call[t].rows[1].note # "reversal" /\ Original(t) # 0)
    BY <2>1 DEF Adjustment
  <2> QED
    BY <1>9, <1>10, <2>1, <2>2, <2>3 DEF Adjustment
<1>11. ASSUME Posts(s)'
       PROVE  Adjustment(s)' /\ Original(s)' = Original(s)
  <2>1. Len(call[s].rows) # 1
    <3>1. Len(call[s].rows) = 1 => call'[s] = [op |-> "idle"]
      BY <1>1, LedgerPosts
    <3> QED
      BY <1>11, <3>1 DEF Posts
  <2>2. PICK rows : rows = Tail(call[s].rows)
    OBVIOUS
  <2>3. /\ call'[s] = [op |-> "post", rows |-> rows]
        /\ rows \in Seq(EntryRow) /\ rows # <<>>
        /\ \A j \in DOMAIN rows : j + 1 \in DOMAIN call[s].rows /\ rows[j] = call[s].rows[j + 1]
    BY <1>1, <2>1, <2>2, LedgerPosts
  <2>4. \A j \in DOMAIN call[s].rows : /\ call[s].rows[j].superseded_by = Original(s)
                                       /\ j > 1 => call[s].rows[j].note # "reversal"
    BY <1>2, <1>3 DEF Adjustment
  <2>5. \A j \in DOMAIN rows : rows[j].superseded_by = Original(s) /\ rows[j].note # "reversal"
    <3> SUFFICES ASSUME NEW j \in DOMAIN rows
                 PROVE  rows[j].superseded_by = Original(s) /\ rows[j].note # "reversal"
      OBVIOUS
    <3>1. j \in Nat /\ j >= 1
      BY <2>3
    <3>2. j + 1 > 1
      BY <3>1
    <3> QED
      BY <2>3, <2>4, <3>2
  <2>6. 1 \in DOMAIN rows
    BY <2>3
  <2>7. Original(s)' = Original(s) /\ call'[s].rows = rows
    BY <2>3, <2>5, <2>6 DEF Original
  <2>8. Ledger!Adjusted(work'["ledger"], Original(s))
    BY <1>8
  <2> QED
    BY <1>2, <2>5, <2>6, <2>7, <2>8 DEF Adjustment
<1>12. ASSUME NEW t \in Session, NEW u \in Session, Adjusts(t)', Adjusts(u)', Original(t)' = Original(u)'
       PROVE  t = u
  <2>1. ASSUME NEW v \in Session, Adjusts(v)' PROVE Adjusts(v) /\ Original(v)' = Original(v)
    BY <1>2, <1>9, <1>11, <2>1 DEF Adjusts
  <2> QED
    BY <1>3, <1>12, <2>1
<1> QED
  BY <1>7, <1>10, <1>11, <1>12 DEF TwiceInv

\* Both rows of a reclassification are posted before anything else is.
LEMMA PostExcess ==
    ASSUME LedgerTypes, ExcessInv, NEW s \in Session, Ledger!PostTransaction(s) PROVE ExcessInv'
<1> SUFFICES ASSUME ~history'.raced, ~history'.reduced PROVE ExcessInv'
  BY DEF ExcessInv
<1>1. PICK row : row = call[s].rows[1]
  OBVIOUS
<1>2. /\ Posts(s) /\ row \in EntryRow /\ row.superseded_by <= Len(work["ledger"])
      /\ DOMAIN work' = {"ledger"} /\ work'["ledger"] = Append(work["ledger"], row)
      /\ db' = db /\ writer' = s /\ writer \in {NoSession, s} /\ history' = history
      /\ DOMAIN call' = Session
      /\ \A t \in Session : t # s => call'[t] = call[t]
      /\ call[s].rows \in Seq(EntryRow) /\ call[s].rows # <<>>
  BY <1>1, LedgerPosts
<1>3. /\ Under(db["ledger"], 0, 0)
      /\ (\A t \in Session : ~Halfway(t)) => Under(work["ledger"], 0, 0)
      /\ \A t, u \in Session : Moves(t) /\ Moves(u) => t = u
      /\ \A t \in Session : Posts(t) /\ ~Moves(t) =>
            \A j \in DOMAIN call[t].rows :
               /\ call[t].rows[j].note # "reclass"
               /\ call[t].rows[j].account = "compensation" => call[t].rows[j].amount >= 0
      /\ \A t \in Session : Moves(t) /\ ~Halfway(t) =>
            \E rest \in Int :
               /\ rest > 0 /\ call[t].rows = <<Taken(rest), Moved(rest)>>
               /\ Under(work["ledger"], 0, rest)
               /\ writer # t => Under(db["ledger"], 0, rest)
      /\ \A t \in Session : Halfway(t) =>
            /\ writer = t
            /\ \E rest \in Int : /\ rest > 0 /\ call[t].rows = <<Moved(rest)>>
                                 /\ Under(work["ledger"], rest, rest)
  BY <1>2 DEF ExcessInv
<1>4. LedgerRows(work["ledger"]) /\ 1 \in DOMAIN call[s].rows
  BY <1>2 DEF LedgerTypes
<1>5. ASSUME NEW t \in Session, t # s
      PROVE  /\ Posts(t)' <=> Posts(t)
             /\ Moves(t)' <=> Moves(t)
             /\ Halfway(t)' <=> Halfway(t)
             /\ call'[t] = call[t] /\ ~Halfway(t) /\ writer # t /\ writer' # t
  BY <1>2, <1>3, <1>5, SessionAssumption DEF Posts, Moves, Halfway
<1>6. Under(db'["ledger"], 0, 0)
  BY <1>2, <1>3
<1>7. CASE ~Moves(s)
  <2>1. /\ \A j \in DOMAIN call[s].rows :
              /\ call[s].rows[j].note # "reclass"
              /\ call[s].rows[j].account = "compensation" => call[s].rows[j].amount >= 0
    BY <1>2, <1>3, <1>7
  <2>2. row.note # "reclass" /\ (row.account = "compensation" => row.amount >= 0)
    BY <1>1, <1>4, <2>1
  <2>3. \A half, rest \in Int : Under(work["ledger"], half, rest) => Under(work'["ledger"], half, rest)
    BY <1>2, <1>4, <2>2, UnderAppend
  <2>4. Under(work'["ledger"], 0, 0)
    <3>1. \A t \in Session : ~Halfway(t)
      BY <1>5, <1>7 DEF Halfway
    <3> QED
      BY <1>3, <2>3, <3>1
  <2>5. /\ ~Moves(s)' /\ ~Halfway(s)'
        /\ Posts(s)' => \A j \in DOMAIN call'[s].rows :
                           /\ call'[s].rows[j].note # "reclass"
                           /\ call'[s].rows[j].account = "compensation" => call'[s].rows[j].amount >= 0
    <3>1. CASE Len(call[s].rows) = 1
      <4>1. call'[s] = [op |-> "idle"]
        BY <1>1, <3>1, LedgerPosts
      <4> QED
        BY <4>1 DEF Posts, Moves, Halfway
    <3>2. CASE Len(call[s].rows) # 1
      <4>1. PICK rows : rows = Tail(call[s].rows)
        OBVIOUS
      <4>2. /\ call'[s] = [op |-> "post", rows |-> rows]
            /\ rows \in Seq(EntryRow) /\ rows # <<>>
            /\ \A j \in DOMAIN rows : j + 1 \in DOMAIN call[s].rows /\ rows[j] = call[s].rows[j + 1]
        BY <1>1, <3>2, <4>1, LedgerPosts
      <4>3. /\ call'[s].rows = rows /\ 1 \in DOMAIN rows
            /\ \A j \in DOMAIN rows : /\ rows[j].note # "reclass"
                                      /\ rows[j].account = "compensation" => rows[j].amount >= 0
        BY <2>1, <4>2
      <4> QED
        BY <4>3 DEF Moves, Halfway
    <3> QED
      BY <3>1, <3>2
  <2>6. ASSUME NEW t \in Session, NEW u \in Session, Moves(t)', Moves(u)' PROVE t = u
    BY <1>3, <1>5, <2>5, <2>6
  <2>7. ASSUME NEW t \in Session, Posts(t)', ~Moves(t)'
        PROVE  \A j \in DOMAIN call'[t].rows :
                  /\ call'[t].rows[j].note # "reclass"
                  /\ call'[t].rows[j].account = "compensation" => call'[t].rows[j].amount >= 0
    BY <1>3, <1>5, <2>5, <2>7
  <2>8. ASSUME NEW t \in Session, Moves(t)', ~Halfway(t)'
        PROVE  \E rest \in Int :
                  /\ rest > 0 /\ call'[t].rows = <<Taken(rest), Moved(rest)>>
                  /\ Under(work'["ledger"], 0, rest)
                  /\ writer' # t => Under(db'["ledger"], 0, rest)
    <3>1. t # s
      BY <2>5, <2>8
    <3>2. PICK rest \in Int : /\ rest > 0 /\ call[t].rows = <<Taken(rest), Moved(rest)>>
                              /\ Under(work["ledger"], 0, rest)
                              /\ writer # t => Under(db["ledger"], 0, rest)
      BY <1>3, <1>5, <2>8, <3>1
    <3>3. Under(work'["ledger"], 0, rest) /\ Under(db'["ledger"], 0, rest)
      BY <1>2, <1>5, <2>3, <3>1, <3>2
    <3> QED
      BY <1>5, <3>1, <3>2, <3>3
  <2>9. \A t \in Session : ~Halfway(t)'
    BY <1>5, <2>5
  <2> QED
    BY <1>6, <2>4, <2>6, <2>7, <2>8, <2>9 DEF ExcessInv
<1>8. CASE Moves(s)
  <2>1. ASSUME NEW t \in Session, t # s PROVE ~Moves(t)' /\ ~Halfway(t)' /\ (Posts(t)' => Posts(t) /\ ~Moves(t))
    BY <1>3, <1>5, <1>8, <2>1 DEF Halfway
  <2>2. ASSUME NEW t \in Session, t # s, Posts(t)'
        PROVE  \A j \in DOMAIN call'[t].rows :
                  /\ call'[t].rows[j].note # "reclass"
                  /\ call'[t].rows[j].account = "compensation" => call'[t].rows[j].amount >= 0
    BY <1>3, <1>5, <2>1, <2>2
  <2>3. CASE Halfway(s)
    <3>1. PICK rest \in Int : /\ rest > 0 /\ call[s].rows = <<Moved(rest)>>
                              /\ Under(work["ledger"], rest, rest)
      BY <1>3, <2>3
    <3>2. row = Moved(rest) /\ Len(call[s].rows) = 1
      BY <1>1, <3>1
    <3>3. Under(work'["ledger"], 0, 0)
      BY <1>2, <1>4, <3>1, <3>2, UnderMoved DEF Moved, Ledger!Entry
    <3>4. call'[s] = [op |-> "idle"]
      BY <1>1, <3>2, LedgerPosts
    <3>5. ~Posts(s)' /\ ~Moves(s)' /\ ~Halfway(s)'
      BY <3>4 DEF Posts, Moves, Halfway
    <3> QED
      BY <1>6, <2>1, <2>2, <3>3, <3>5 DEF ExcessInv
  <2>4. CASE ~Halfway(s)
    <3>1. PICK rest \in Int : /\ rest > 0 /\ call[s].rows = <<Taken(rest), Moved(rest)>>
                              /\ Under(work["ledger"], 0, rest)
      BY <1>3, <1>8, <2>4
    <3>2. row = Taken(rest) /\ Len(call[s].rows) # 1 /\ Tail(call[s].rows) = <<Moved(rest)>>
      BY <1>1, <3>1
    <3>3. Under(work'["ledger"], rest, rest)
      BY <1>2, <1>4, <3>1, <3>2, UnderTaken DEF Taken, Ledger!Entry
    <3>4. call'[s].op = "post" /\ call'[s].rows = <<Moved(rest)>>
      <4>1. call'[s] = [op |-> "post", rows |-> Tail(call[s].rows)]
        BY <1>1, <3>2, LedgerPosts
      <4> QED
        BY <3>2, <4>1
    <3>5. Posts(s)' /\ Moves(s)' /\ Halfway(s)'
      BY <3>4 DEF Posts, Moves, Halfway, Moved, Ledger!Entry
    <3>6. \A t \in Session : t # s => ~Moves(t)' /\ ~Halfway(t)'
      BY <2>1
    <3> QED
      BY <1>2, <1>6, <2>2, <3>1, <3>3, <3>4, <3>5, <3>6 DEF ExcessInv
  <2> QED
    BY <2>3, <2>4
<1> QED
  BY <1>7, <1>8

\* A call begins; what is about to be posted fits, and perhaps makes a note.
LEMMA LedgerBegins ==
    ASSUME LedgerInv, NEW s \in Session, call[s] = [op |-> "idle"], UNCHANGED <<db, work, writer>>,
           NEW rows \in Seq(EntryRow), rows # <<>>,
           call' = [call EXCEPT ![s] = [op |-> "post", rows |-> rows]],
           \A j \in DOMAIN rows : rows[j].superseded_by <= Len(Ledger!Ledger(s)),
           history' \in [raced : BOOLEAN, twice : BOOLEAN, reduced : BOOLEAN],
           history.raced => history'.raced, history.twice => history'.twice,
           history.reduced => history'.reduced,
           \* as an adjustment
           ~history'.twice =>
               /\ Adjustment(s)'
               /\ \A t \in Session : Adjusts(t) => Original(t) # rows[1].superseded_by,
           \* as a reclassification
           ~history'.raced /\ ~history'.reduced =>
               \/ \A j \in DOMAIN rows : /\ rows[j].note # "reclass"
                                         /\ rows[j].account = "compensation" => rows[j].amount >= 0
               \/ /\ \A t \in Session : ~Posts(t)
                  /\ \E rest \in Int : /\ rest > 0 /\ rows = <<Taken(rest), Moved(rest)>>
                                       /\ Under(work["ledger"], 0, rest)
                                       /\ writer # s => Under(db["ledger"], 0, rest)
    PROVE  LedgerInv'
<1>1. LedgerTypes /\ TwiceInv /\ ExcessInv
  BY DEF LedgerInv
<1>2. /\ DOMAIN call' = Session /\ call'[s] = [op |-> "post", rows |-> rows]
      /\ \A t \in Session : t # s => call'[t] = call[t]
      /\ call'[s].op = "post" /\ call'[s].rows = rows /\ 1 \in DOMAIN rows
  BY <1>1 DEF LedgerTypes
<1>3. ~Posts(s)
  BY DEF Posts
<1>4. \A t \in Session : Ledger!Ledger(t)' = Ledger!Ledger(t)
  BY DEF Ledger!Ledger, Ledger!Sees
<1>5. LedgerTypes'
  <2>1. ASSUME NEW t \in Session
        PROVE  \/ call'[t] = [op |-> "idle"]
               \/ /\ call'[t] \in [op : {"post"}, rows : Seq(EntryRow)]
                  /\ call'[t].rows # <<>>
                  /\ \A j \in DOMAIN call'[t].rows : call'[t].rows[j].superseded_by <= Len(Ledger!Ledger(t)')
    BY <1>1, <1>2, <1>4 DEF LedgerTypes
  <2> QED
    BY <1>1, <1>2, <2>1 DEF LedgerTypes
<1>6. ASSUME NEW t \in Session, t # s
      PROVE  /\ Posts(t)' <=> Posts(t)
             /\ Adjusts(t)' <=> Adjusts(t)
             /\ Original(t)' = Original(t)
             /\ Adjustment(t)' <=> Adjustment(t)
             /\ Moves(t)' <=> Moves(t)
             /\ Halfway(t)' <=> Halfway(t)
             /\ call'[t] = call[t]
  <2>1. call'[t] = call[t]
    BY <1>2, <1>6
  <2>2. Posts(t)' <=> Posts(t)
    BY <2>1 DEF Posts
  <2>3. Original(t)' = Original(t)
    BY <2>1 DEF Original
  <2>4. Adjustment(t)' <=> Adjustment(t)
    BY <1>4, <2>1, <2>3 DEF Adjustment
  <2> QED
    BY <2>1, <2>2, <2>3, <2>4 DEF Adjusts, Moves, Halfway
<1>7. TwiceInv'
  <2> SUFFICES ASSUME ~history'.twice PROVE TwiceInv'
    BY DEF TwiceInv
  <2>1. /\ Balanced(db["ledger"]) /\ Balanced(work["ledger"])
        /\ \A t, u \in Session : Adjusts(t) /\ Adjusts(u) /\ Original(t) = Original(u) => t = u
        /\ \A t \in Session : Posts(t) => Adjustment(t)
    BY <1>1 DEF TwiceInv
  <2>2. Original(s)' = rows[1].superseded_by
    BY <1>2 DEF Original
  <2>3. ASSUME NEW t \in Session, NEW u \in Session, Adjusts(t)', Adjusts(u)', Original(t)' = Original(u)'
        PROVE  t = u
    <3>1. \A v \in Session : v # s /\ Adjusts(v)' => Adjusts(v) /\ Original(v)' # Original(s)'
      BY <1>6, <2>2
    <3> QED
      BY <1>6, <2>1, <2>3, <3>1
  <2>4. \A t \in Session : Posts(t)' => Adjustment(t)'
    BY <1>6, <2>1
  <2> QED
    BY <2>1, <2>3, <2>4 DEF TwiceInv
<1>8. ExcessInv'
  <2> SUFFICES ASSUME ~history'.raced, ~history'.reduced PROVE ExcessInv'
    BY DEF ExcessInv
  <2>1. ~history.raced /\ ~history.reduced
    OBVIOUS
  <2>2. /\ Under(db["ledger"], 0, 0)
        /\ (\A t \in Session : ~Halfway(t)) => Under(work["ledger"], 0, 0)
        /\ \A t, u \in Session : Moves(t) /\ Moves(u) => t = u
        /\ \A t \in Session : Posts(t) /\ ~Moves(t) =>
              \A j \in DOMAIN call[t].rows :
                 /\ call[t].rows[j].note # "reclass"
                 /\ call[t].rows[j].account = "compensation" => call[t].rows[j].amount >= 0
        /\ \A t \in Session : Moves(t) /\ ~Halfway(t) =>
              \E rest \in Int :
                 /\ rest > 0 /\ call[t].rows = <<Taken(rest), Moved(rest)>>
                 /\ Under(work["ledger"], 0, rest)
                 /\ writer # t => Under(db["ledger"], 0, rest)
        /\ \A t \in Session : Halfway(t) =>
              /\ writer = t
              /\ \E rest \in Int : /\ rest > 0 /\ call[t].rows = <<Moved(rest)>>
                                   /\ Under(work["ledger"], rest, rest)
    BY <1>1, <2>1 DEF ExcessInv
  <2>3. ~Halfway(s)
    BY <1>3 DEF Halfway, Moves
  <2>4. CASE \A j \in DOMAIN rows : /\ rows[j].note # "reclass"
                                    /\ rows[j].account = "compensation" => rows[j].amount >= 0
    <3>1. ~Moves(s)' /\ ~Halfway(s)'
      BY <1>2, <2>4 DEF Moves, Halfway
    <3>2. ASSUME NEW t \in Session, Posts(t)', ~Moves(t)'
          PROVE  \A j \in DOMAIN call'[t].rows :
                    /\ call'[t].rows[j].note # "reclass"
                    /\ call'[t].rows[j].account = "compensation" => call'[t].rows[j].amount >= 0
      BY <1>2, <1>6, <2>2, <2>4, <3>2
    <3>3. (\A t \in Session : ~Halfway(t)') => Under(work["ledger"], 0, 0)
      BY <1>6, <2>2, <2>3
    <3>4. \A t, u \in Session : Moves(t)' /\ Moves(u)' => t = u
      BY <1>6, <2>2, <3>1
    <3>5. ASSUME NEW t \in Session, Moves(t)', ~Halfway(t)'
          PROVE  \E rest \in Int :
                 /\ rest > 0 /\ call'[t].rows = <<Taken(rest), Moved(rest)>>
                 /\ Under(work["ledger"], 0, rest)
                 /\ writer # t => Under(db["ledger"], 0, rest)
      BY <1>6, <2>2, <3>1, <3>5
    <3>6. ASSUME NEW t \in Session, Halfway(t)'
          PROVE  /\ writer = t
                 /\ \E rest \in Int : /\ rest > 0 /\ call'[t].rows = <<Moved(rest)>>
                                      /\ Under(work["ledger"], rest, rest)
      BY <1>6, <2>2, <3>1, <3>6
    <3> QED
      BY <2>2, <3>2, <3>3, <3>4, <3>5, <3>6 DEF ExcessInv
  <2>5. CASE /\ \A t \in Session : ~Posts(t)
             /\ \E rest \in Int : /\ rest > 0 /\ rows = <<Taken(rest), Moved(rest)>>
                                  /\ Under(work["ledger"], 0, rest)
                                  /\ writer # s => Under(db["ledger"], 0, rest)
    <3>1. \A t \in Session : t # s => ~Posts(t)' /\ ~Moves(t)' /\ ~Halfway(t)'
      BY <1>6, <2>5 DEF Moves, Halfway
    <3>2. Moves(s)' /\ ~Halfway(s)'
      BY <1>2, <2>5 DEF Posts, Moves, Halfway, Taken, Ledger!Entry
    <3>3. Under(work["ledger"], 0, 0)
      BY <2>2, <2>5 DEF Moves, Halfway
    <3> QED
      BY <1>2, <2>2, <2>5, <3>1, <3>2, <3>3 DEF ExcessInv
  <2> QED
    BY <2>4, <2>5
<1> QED
  BY <1>5, <1>7, <1>8 DEF LedgerInv

\* Rows as they are entered.
LEMMA Entries ==
    \A account \in Account, amount \in Int, original \in Nat, note \in {"entry", "reversal", "reclass"} :
        /\ Ledger!Entry(account, amount, original, note) \in EntryRow
        /\ Ledger!Entry(account, amount, original, note).account = account
        /\ Ledger!Entry(account, amount, original, note).amount = amount
        /\ Ledger!Entry(account, amount, original, note).superseded_by = original
        /\ Ledger!Entry(account, amount, original, note).note = note
BY DEF Ledger!Entry, EntryRow

\* A payment or an expense replaces nothing.
LEMMA PostOne ==
    ASSUME LedgerInv, NEW s \in Session, call[s] = [op |-> "idle"], UNCHANGED <<db, work, writer>>,
           NEW account \in Account, NEW amount \in Int,
           Ledger!Post(s, <<Ledger!Entry(account, amount, 0, "entry")>>),
           history' \in [raced : BOOLEAN, twice : BOOLEAN, reduced : BOOLEAN],
           history.raced => history'.raced, history.twice => history'.twice,
           history.reduced => history'.reduced,
           ~history'.reduced /\ account = "compensation" => amount >= 0
    PROVE  LedgerInv'
<1>1. PICK row : row = Ledger!Entry(account, amount, 0, "entry")
  OBVIOUS
<1>2. row \in EntryRow /\ row.account = account /\ row.amount = amount /\ row.superseded_by = 0
      /\ row.note = "entry"
  BY <1>1, Entries
<1>3. PICK rows : rows = <<row>>
  OBVIOUS
<1>4. /\ rows \in Seq(EntryRow) /\ rows # <<>> /\ DOMAIN rows = {1} /\ rows[1] = row
  BY <1>2, <1>3
<1>5. call' = [call EXCEPT ![s] = [op |-> "post", rows |-> rows]]
  BY <1>1, <1>3 DEF Ledger!Post
<1>6. DOMAIN call = Session /\ \A t \in Session : Len(Ledger!Ledger(t)) \in Nat
  BY DEF LedgerInv, LedgerTypes, LedgerRows, Ledger!Ledger, Ledger!Sees
<1>7. call'[s].rows = rows
  BY <1>5, <1>6
<1>8. Adjustment(s)'
  BY <1>2, <1>4, <1>7 DEF Adjustment, Original
<1>9. \A t \in Session : Adjusts(t) => Original(t) # rows[1].superseded_by
  BY <1>2, <1>4 DEF Adjusts
<1>10. \A j \in DOMAIN rows : rows[j].superseded_by <= Len(Ledger!Ledger(s))
  BY <1>2, <1>4, <1>6
<1>11. ~history'.reduced =>
          \A j \in DOMAIN rows : /\ rows[j].note # "reclass"
                                 /\ rows[j].account = "compensation" => rows[j].amount >= 0
  BY <1>2, <1>4
<1> QED
  BY <1>4, <1>5, <1>8, <1>9, <1>10, <1>11, LedgerBegins

\* What a note says of the row adjusted, and of who else adjusts it.
LEMMA NoteSays ==
    ASSUME LedgerTypes, NEW s \in Session, NEW i, Ledger!NoteAdjustment(s, i)
    PROVE  /\ history' \in [raced : BOOLEAN, twice : BOOLEAN, reduced : BOOLEAN]
           /\ history.raced => history'.raced
           /\ history.twice => history'.twice
           /\ history.reduced => history'.reduced
           /\ ~history'.twice => /\ Ledger!Ledger(s)[i].note # "reversal"
                                 /\ ~Ledger!Adjusted(db["ledger"], i)
                                 /\ ~Ledger!Adjusted(work["ledger"], i)
                                 /\ \A t \in Session : Posts(t) => Original(t) # i
           /\ ~history'.reduced => Ledger!Ledger(s)[i].account # "compensation"
<1>1. PICK twice : twice = (\/ history.twice
                            \/ Ledger!Ledger(s)[i].note = "reversal"
                            \/ Ledger!Adjusted(db["ledger"], i) \/ Ledger!Adjusted(work["ledger"], i)
                            \/ \E t \in Session : call[t].op = "post" /\ call[t].rows[1].superseded_by = i)
  OBVIOUS
<1>2. PICK reduced : reduced = (history.reduced \/ Ledger!Ledger(s)[i].account = "compensation")
  OBVIOUS
<1>3. history' = [history EXCEPT !.twice = twice, !.reduced = reduced]
  BY <1>1, <1>2, Zenon DEF Ledger!NoteAdjustment
<1>4. history \in [raced : BOOLEAN, twice : BOOLEAN, reduced : BOOLEAN]
  BY DEF LedgerTypes
<1>5. twice \in BOOLEAN /\ reduced \in BOOLEAN
  <2>1. history.twice \in BOOLEAN /\ history.reduced \in BOOLEAN
    BY <1>4
  <2> QED
    BY <1>1, <1>2, <2>1, Zenon
<1>6. /\ history' \in [raced : BOOLEAN, twice : BOOLEAN, reduced : BOOLEAN]
      /\ history'.raced = history.raced /\ history'.twice = twice /\ history'.reduced = reduced
  BY <1>3, <1>4, <1>5
<1> QED
  BY <1>1, <1>2, <1>6, Zenon DEF Posts, Original

\* The rows of an adjustment: the reversal of a row, and what replaces it.
LEMMA AdjustOne ==
    ASSUME LedgerInv, NEW s \in Session, call[s] = [op |-> "idle"], UNCHANGED <<db, work, writer>>,
           NEW i \in DOMAIN Ledger!Ledger(s), Ledger!NoteAdjustment(s, i),
           NEW rest \in Seq(EntryRow),
           \A j \in DOMAIN rest : /\ rest[j].superseded_by = i /\ rest[j].note = "entry"
                                  /\ rest[j].account = "compensation" =>
                                        Ledger!Ledger(s)[i].account = "compensation",
           NEW rows, rows = <<Ledger!Reversal(Ledger!Ledger(s)[i], i)>> \o rest,
           Ledger!Post(s, rows)
    PROVE  LedgerInv'
<1>1. PICK own : own = Ledger!Ledger(s)
  OBVIOUS
<1>2. LedgerTypes /\ LedgerRows(own) /\ i \in DOMAIN own
  BY <1>1 DEF LedgerInv, LedgerTypes, Ledger!Ledger, Ledger!Sees
<1>3. own[i] \in EntryRow /\ i \in Nat /\ i # 0 /\ i <= Len(own)
  BY <1>2 DEF LedgerRows
<1>4. PICK row : row = Ledger!Reversal(own[i], i)
  OBVIOUS
<1>5. row \in EntryRow /\ row.account = own[i].account /\ row.amount = -own[i].amount
      /\ row.superseded_by = i /\ row.note = "reversal"
  BY <1>3, <1>4 DEF Ledger!Reversal, Ledger!Entry, EntryRow
<1>6. rows = <<row>> \o rest
  BY <1>1, <1>4
<1>7. /\ rows \in Seq(EntryRow) /\ rows # <<>> /\ rows[1] = row
      /\ \A j \in DOMAIN rows : /\ j = 1 => rows[j] = row
                                /\ j # 1 => j - 1 \in DOMAIN rest /\ rows[j] = rest[j - 1]
  BY <1>5, <1>6
<1>8. call' = [call EXCEPT ![s] = [op |-> "post", rows |-> rows]] /\ call'[s].rows = rows
  BY <1>2 DEF LedgerTypes, Ledger!Post
<1>9. \A j \in DOMAIN rows : /\ rows[j].superseded_by = i
                             /\ j > 1 => rows[j].note # "reversal"
                             /\ rows[j].note # "reclass"
                             /\ rows[j].account = "compensation" => own[i].account = "compensation"
  BY <1>1, <1>5, <1>7
<1>10. /\ history' \in [raced : BOOLEAN, twice : BOOLEAN, reduced : BOOLEAN]
       /\ history.raced => history'.raced
       /\ history.twice => history'.twice
       /\ history.reduced => history'.reduced
       /\ ~history'.twice => /\ own[i].note # "reversal"
                             /\ ~Ledger!Adjusted(db["ledger"], i)
                             /\ ~Ledger!Adjusted(work["ledger"], i)
                             /\ \A t \in Session : Posts(t) => Original(t) # i
       /\ ~history'.reduced => own[i].account # "compensation"
  BY <1>1, <1>2, NoteSays
<1>11. Ledger!Ledger(s)' = own
  BY <1>1 DEF Ledger!Ledger, Ledger!Sees
<1>12. ASSUME ~history'.twice PROVE Adjustment(s)'
  <2>1. Original(s)' = i
    BY <1>5, <1>7, <1>8 DEF Original
  <2>2. ~Ledger!Adjusted(own, i) /\ own[i].note # "reversal" /\ ~Ledger!Adjusted(work["ledger"], i)
    BY <1>1, <1>10, <1>12 DEF Ledger!Ledger, Ledger!Sees
  <2>3. TakesBack(own, row)
    BY <1>2, <1>5, <2>2 DEF TakesBack, Ledger!Standing
  <2>4. \A j \in DOMAIN call'[s].rows :
           call'[s].rows[j].superseded_by = i /\ (j > 1 => call'[s].rows[j].note # "reversal")
    BY <1>7, <1>8, <1>9
  <2>5. call'[s].rows[1] = row /\ row.note = "reversal"
    BY <1>5, <1>7, <1>8
  <2> QED
    BY <1>11, <2>1, <2>2, <2>3, <2>4, <2>5 DEF Adjustment
<1>13. ~history'.twice => \A t \in Session : Adjusts(t) => Original(t) # rows[1].superseded_by
  BY <1>5, <1>7, <1>10 DEF Adjusts
<1>14. ~history'.reduced =>
          \A j \in DOMAIN rows : /\ rows[j].note # "reclass"
                                 /\ rows[j].account = "compensation" => rows[j].amount >= 0
  BY <1>9, <1>10
<1>15. \A j \in DOMAIN rows : rows[j].superseded_by <= Len(Ledger!Ledger(s))
  BY <1>1, <1>3, <1>9
<1> QED
  BY <1>7, <1>8, <1>10, <1>12, <1>13, <1>14, <1>15, LedgerBegins

\* post_correction and split_travel_expense.
LEMMA LedgerAdjusts ==
    ASSUME LedgerInv, NEW s \in Session, NEW i,
           Ledger!PostCorrection(s, i) \/ Ledger!SplitTravelExpense(s, i)
    PROVE  LedgerInv'
<1>1. PICK own : own = Ledger!Ledger(s)
  OBVIOUS
<1>2. /\ call[s] = [op |-> "idle"] /\ UNCHANGED <<db, work, writer>> /\ i \in DOMAIN own
      /\ Ledger!NoteAdjustment(s, i)
  BY <1>1 DEF Ledger!PostCorrection, Ledger!SplitTravelExpense, Ledger!Begin, Ledger!Idle
<1>3. own[i] \in EntryRow /\ i \in Nat
  BY <1>1, <1>2 DEF LedgerInv, LedgerTypes, LedgerRows, Ledger!Ledger, Ledger!Sees
<1>4. PICK row : row = Ledger!Reversal(own[i], i)
  OBVIOUS
<1>5. CASE Ledger!PostCorrection(s, i)
  <2>1. PICK amount \in Corrected : Ledger!Post(s, <<row, Ledger!Entry(own[i].account, amount, i, "entry")>>)
    BY <1>1, <1>4, <1>5 DEF Ledger!PostCorrection
  <2>2. PICK new : new = Ledger!Entry(own[i].account, amount, i, "entry")
    OBVIOUS
  <2>3. amount \in Int /\ own[i].account \in Account
    BY <1>3, LedgerAssumption DEF EntryRow
  <2>4. new \in EntryRow /\ new.account = own[i].account /\ new.superseded_by = i /\ new.note = "entry"
    BY <1>3, <2>2, <2>3, Entries
  <2>5. PICK rest : rest = <<new>>
    OBVIOUS
  <2>6. rest \in Seq(EntryRow) /\ DOMAIN rest = {1} /\ rest[1] = new
    BY <2>4, <2>5
  <2>7. <<row, new>> = <<row>> \o rest
    BY <2>5
  <2> QED
    BY <1>1, <1>2, <1>4, <2>1, <2>2, <2>4, <2>6, <2>7, AdjustOne
<1>6. CASE Ledger!SplitTravelExpense(s, i)
  <2>1. PICK within, over : /\ within = Ledger!Entry("travel", PerDiem, i, "entry")
                            /\ over = Ledger!Entry("unallowable", own[i].amount - PerDiem, i, "entry")
    OBVIOUS
  <2>2. Ledger!Post(s, <<row, within, over>>)
    BY <1>1, <1>4, <1>6, <2>1 DEF Ledger!SplitTravelExpense
  <2>3. PerDiem \in Int /\ own[i].amount - PerDiem \in Int
    BY <1>3, LedgerAssumption DEF EntryRow
  <2>4. /\ within \in EntryRow /\ within.account = "travel" /\ within.superseded_by = i /\ within.note = "entry"
        /\ over \in EntryRow /\ over.account = "unallowable" /\ over.superseded_by = i /\ over.note = "entry"
    BY <1>3, <2>1, <2>3, Entries DEF Account
  <2>5. PICK rest : rest = <<within, over>>
    OBVIOUS
  <2>6. rest \in Seq(EntryRow) /\ DOMAIN rest = {1, 2} /\ rest[1] = within /\ rest[2] = over
    BY <2>4, <2>5
  <2>7. <<row, within, over>> = <<row>> \o rest
    BY <2>5
  <2> QED
    BY <1>1, <1>2, <1>4, <2>2, <2>4, <2>6, <2>7, AdjustOne
<1> QED
  BY <1>5, <1>6

\* Payments and expenses.
LEMMA LedgerEntries ==
    ASSUME LedgerInv, NEW s \in Session, Ledger!PostPayment(s) \/ Ledger!PostExpense(s)
    PROVE  LedgerInv'
<1>1. call[s] = [op |-> "idle"] /\ UNCHANGED <<db, work, writer>>
  BY DEF Ledger!PostPayment, Ledger!PostExpense, Ledger!Begin, Ledger!Idle
<1>2. history \in [raced : BOOLEAN, twice : BOOLEAN, reduced : BOOLEAN]
  BY DEF LedgerInv, LedgerTypes
<1>3. CASE Ledger!PostPayment(s)
  <2>1. PICK amount \in Paid : /\ Ledger!Post(s, <<Ledger!Entry("compensation", amount, 0, "entry")>>)
                               /\ history' = [history EXCEPT !.reduced = history.reduced \/ amount < 0]
    BY <1>3 DEF Ledger!PostPayment, Ledger!NoOriginal
  <2>2. amount \in Int
    BY LedgerAssumption
  <2>3. CASE amount < 0
    <3>1. history' = [history EXCEPT !.reduced = TRUE]
      BY <2>1, <2>3
    <3>2. history' \in [raced : BOOLEAN, twice : BOOLEAN, reduced : BOOLEAN]
          /\ history'.raced = history.raced /\ history'.twice = history.twice /\ history'.reduced = TRUE
      BY <1>2, <3>1
    <3> QED
      BY <1>1, <2>1, <2>2, <3>2, PostOne DEF Account
  <2>4. CASE ~(amount < 0)
    <3>1. history.reduced \in BOOLEAN
      BY <1>2
    <3>2. (history.reduced \/ amount < 0) = history.reduced
      BY <2>4, <3>1
    <3>3. history' = [history EXCEPT !.reduced = history.reduced]
      BY <2>1, <3>2
    <3>4. history' = history
      BY <1>2, <3>3
    <3> QED
      BY <1>1, <1>2, <2>1, <2>2, <2>4, <3>4, PostOne DEF Account
  <2> QED
    BY <2>3, <2>4
<1>4. CASE Ledger!PostExpense(s)
  <2>1. PICK amount \in Spent : /\ Ledger!Post(s, <<Ledger!Entry("travel", amount, 0, "entry")>>)
                                /\ history' = history
    BY <1>4 DEF Ledger!PostExpense, Ledger!NoOriginal
  <2>2. amount \in Int
    BY LedgerAssumption
  <2> QED
    BY <1>1, <1>2, <2>1, <2>2, PostOne DEF Account
<1> QED
  BY <1>3, <1>4

\* reclassify_excess
LEMMA LedgerReclassifies ==
    ASSUME LedgerInv, NEW s \in Session, Ledger!ReclassifyExcess(s) PROVE LedgerInv'
<1>1. LedgerTypes /\ TwiceInv /\ ExcessInv /\ call[s] = [op |-> "idle"] /\ UNCHANGED <<db, work, writer>>
  BY DEF LedgerInv, Ledger!ReclassifyExcess, Ledger!Begin, Ledger!Idle
<1>2. PICK own : own = Ledger!Ledger(s)
  OBVIOUS
<1>3. PICK remaining : remaining = Ledger!Excess(own) - Ledger!Already(own)
  OBVIOUS
<1>4. PICK raced : raced = (history.raced \/ writer \notin {NoSession, s}
                            \/ \E t \in Session : call[t].op = "post")
  OBVIOUS
<1>5. history' = [history EXCEPT !.raced = raced]
  BY <1>4, Zenon DEF Ledger!ReclassifyExcess
<1>6. history \in [raced : BOOLEAN, twice : BOOLEAN, reduced : BOOLEAN] /\ history.raced \in BOOLEAN
  BY <1>1 DEF LedgerTypes
<1>7. raced \in BOOLEAN
  BY <1>4, <1>6, Zenon
<1>8. /\ history' \in [raced : BOOLEAN, twice : BOOLEAN, reduced : BOOLEAN]
      /\ history'.raced = raced /\ history'.twice = history.twice /\ history'.reduced = history.reduced
  BY <1>5, <1>6, <1>7
<1>9. ~history'.raced => /\ ~history.raced /\ writer \in {NoSession, s} /\ \A t \in Session : ~Posts(t)
  BY <1>4, <1>8, Zenon DEF Posts
<1>10. history.raced => history'.raced
  BY <1>4, <1>8, Zenon
<1>11. CASE remaining <= 0
  <2>1. call' = call
    BY <1>2, <1>3, <1>11 DEF Ledger!ReclassifyExcess
  <2>2. LedgerTypes'
    BY <1>1, <1>8, <2>1 DEF LedgerTypes, Ledger!Ledger, Ledger!Sees
  <2>3. TwiceInv'
    BY <1>1, <1>8, <2>1 DEF TwiceInv, Adjusts, Posts, Original, Adjustment, Ledger!Ledger, Ledger!Sees
  <2>4. ExcessInv'
    BY <1>1, <1>8, <1>10, <2>1 DEF ExcessInv, Posts, Moves, Halfway
  <2> QED
    BY <2>2, <2>3, <2>4 DEF LedgerInv
<1>12. CASE ~(remaining <= 0)
  <2>1. PICK rows : rows = <<Ledger!Entry("compensation", -remaining, 0, "reclass"),
                             Ledger!Entry("unallowable", remaining, 0, "reclass")>>
    OBVIOUS
  <2>2. Ledger!Post(s, rows)
    BY <1>2, <1>3, <1>12, <2>1 DEF Ledger!ReclassifyExcess, Ledger!NoOriginal
  <2>3. LedgerRows(own) /\ Len(own) \in Nat
    BY <1>1, <1>2 DEF LedgerTypes, LedgerRows, Ledger!Ledger, Ledger!Sees
  <2>4. remaining \in Int
    <3>1. own \in Seq(EntryRow)
      BY <2>3 DEF LedgerRows
    <3>2. Ledger!Already(own) \in Int /\ Ledger!AddUp(own, Ledger!OnAccount(own, "compensation")) \in Int
      BY <3>1, RowSets, AddUpType DEF Ledger!OnAccount
    <3>3. Ledger!Excess(own) \in Int
      BY <3>2, LedgerAssumption DEF Ledger!Excess
    <3> QED
      BY <1>3, <3>2, <3>3
  <2>5. PICK takes, puts : takes = Taken(remaining) /\ puts = Moved(remaining)
    OBVIOUS
  <2>6. /\ takes \in EntryRow /\ takes.superseded_by = 0 /\ takes.note = "reclass"
        /\ puts \in EntryRow /\ puts.superseded_by = 0 /\ puts.note = "reclass"
    <3>1. -remaining \in Int
      BY <2>4
    <3> QED
      BY <2>4, <2>5, <3>1, Entries DEF Taken, Moved, Account
  <2>7. rows = <<takes, puts>>
    BY <2>1, <2>5 DEF Taken, Moved
  <2>8. /\ rows \in Seq(EntryRow) /\ rows # <<>> /\ DOMAIN rows = {1, 2}
        /\ rows[1] = takes /\ rows[2] = puts
    BY <2>6, <2>7
  <2>9. call' = [call EXCEPT ![s] = [op |-> "post", rows |-> rows]] /\ call'[s].rows = rows
    BY <1>1, <2>2 DEF LedgerTypes, Ledger!Post
  <2>10. Adjustment(s)'
    BY <2>6, <2>8, <2>9 DEF Adjustment, Original
  <2>11. \A t \in Session : Adjusts(t) => Original(t) # rows[1].superseded_by
    BY <2>6, <2>8 DEF Adjusts
  <2>12. ASSUME ~history'.raced, ~history'.reduced
         PROVE  /\ \A t \in Session : ~Posts(t)
                /\ \E rest \in Int : /\ rest > 0 /\ rows = <<Taken(rest), Moved(rest)>>
                                     /\ Under(work["ledger"], 0, rest)
                                     /\ writer # s => Under(db["ledger"], 0, rest)
    <3>1. ~history.raced /\ ~history.reduced /\ writer \in {NoSession, s} /\ \A t \in Session : ~Posts(t)
      BY <1>8, <1>9, <2>12
    <3>2. Under(work["ledger"], 0, 0)
      BY <1>1, <3>1 DEF ExcessInv, Moves, Halfway
    <3>3. own = work["ledger"] /\ (writer # s => own = db["ledger"])
      BY <1>1, <1>2, <3>1, SessionAssumption DEF LedgerTypes, Ledger!Ledger, Ledger!Sees
    <3>4. remaining > 0 /\ Under(own, 0, remaining)
      BY <1>3, <1>12, <2>3, <3>2, <3>3, UnderStart
    <3> QED
      BY <2>4, <2>5, <2>7, <3>1, <3>3, <3>4
  <2>13. \A j \in DOMAIN rows : rows[j].superseded_by <= Len(Ledger!Ledger(s))
    BY <1>2, <2>3, <2>6, <2>8
  <2> QED
    BY <1>1, <1>8, <1>10, <2>8, <2>9, <2>10, <2>11, <2>12, <2>13, LedgerBegins
<1> QED
  BY <1>11, <1>12

\* Transactions end; an idle session does what touches no row.
LEMMA LedgerSession ==
    ASSUME LedgerInv, Ledger!SessionStep({}) PROVE LedgerInv'
<1>1. LedgerTypes /\ TwiceInv /\ ExcessInv
  BY DEF LedgerInv
<1>2. PICK s \in Session : Ledger!EndSession(s) \/ Ledger!Commit(s) \/ Ledger!Rollback(s)
  BY DEF Ledger!SessionStep
<1>3. CASE Ledger!EndSession(s)
  <2>1. UNCHANGED <<db, work, writer, call, history>>
    BY <1>3 DEF Ledger!EndSession
  <2>2. LedgerTypes'
    BY <1>1, <2>1 DEF LedgerTypes, Ledger!Ledger, Ledger!Sees
  <2>3. TwiceInv'
    BY <1>1, <2>1 DEF TwiceInv, Adjusts, Posts, Original, Adjustment, Ledger!Ledger, Ledger!Sees
  <2>4. ExcessInv'
    BY <1>1, <2>1 DEF ExcessInv, Posts, Moves, Halfway
  <2> QED
    BY <2>2, <2>3, <2>4 DEF LedgerInv
<1>4. CASE Ledger!Commit(s)
  <2>1. /\ writer = s /\ call[s] = [op |-> "idle"] /\ db' = work /\ work' = work /\ writer' = NoSession
        /\ call' = call /\ history' = history
    BY <1>4 DEF Ledger!Commit, Ledger!Idle
  <2>2. ~Posts(s)
    BY <2>1 DEF Posts
  <2>3. ASSUME NEW t \in Session, Posts(t)
        PROVE  /\ writer # t /\ Ledger!Ledger(t) = db["ledger"] /\ Ledger!Ledger(t)' = work["ledger"]
    <3>1. writer # t
      BY <2>1, <2>2, <2>3
    <3>2. Ledger!Ledger(t) = db["ledger"] /\ Ledger!Ledger(t)' = work["ledger"]
      BY <2>1, <3>1 DEF Ledger!Ledger, Ledger!Sees
    <3> QED
      BY <3>1, <3>2
  <2>4. LedgerTypes'
    <3>1. ASSUME NEW t \in Session
          PROVE  \/ call[t] = [op |-> "idle"]
                 \/ /\ call[t] \in [op : {"post"}, rows : Seq(EntryRow)]
                    /\ call[t].rows # <<>>
                    /\ \A j \in DOMAIN call[t].rows : call[t].rows[j].superseded_by <= Len(Ledger!Ledger(t)')
      <4>1. CASE call[t] = [op |-> "idle"]
        BY <4>1
      <4>2. CASE call[t] # [op |-> "idle"]
        <5>1. /\ call[t] \in [op : {"post"}, rows : Seq(EntryRow)] /\ call[t].rows # <<>>
              /\ \A j \in DOMAIN call[t].rows : call[t].rows[j].superseded_by <= Len(Ledger!Ledger(t))
          BY <1>1, <4>2 DEF LedgerTypes
        <5>2. Len(Ledger!Ledger(t)) <= Len(Ledger!Ledger(t)')
          BY <1>1, <2>3, <5>1 DEF LedgerTypes, Posts
        <5>3. Len(Ledger!Ledger(t)) \in Nat /\ Len(Ledger!Ledger(t)') \in Nat
          BY <1>1, <2>3, <5>1 DEF LedgerTypes, LedgerRows, Posts
        <5>4. \A j \in DOMAIN call[t].rows : call[t].rows[j].superseded_by \in Nat
          <6> SUFFICES ASSUME NEW j \in DOMAIN call[t].rows PROVE call[t].rows[j].superseded_by \in Nat
            OBVIOUS
          <6>1. call[t].rows[j] \in EntryRow
            BY <5>1
          <6> QED
            BY <6>1 DEF EntryRow
        <5> QED
          BY <5>1, <5>2, <5>3, <5>4
      <4> QED
        BY <4>1, <4>2
    <3>2. Len(work["ledger"]) <= Len(work["ledger"])
      BY <1>1 DEF LedgerTypes, LedgerRows
    <3> QED
      BY <1>1, <2>1, <3>1, <3>2 DEF LedgerTypes
  <2>5. TwiceInv'
    <3> SUFFICES ASSUME ~history.twice PROVE TwiceInv'
      BY <2>1 DEF TwiceInv
    <3>1. /\ Balanced(db["ledger"]) /\ Balanced(work["ledger"])
          /\ \A t, u \in Session : Adjusts(t) /\ Adjusts(u) /\ Original(t) = Original(u) => t = u
          /\ \A t \in Session : Posts(t) => Adjustment(t)
      BY <1>1 DEF TwiceInv
    <3>2. ASSUME NEW t \in Session, Posts(t) PROVE Adjustment(t)'
      <4>1. Adjustment(t) /\ Original(t)' = Original(t)
        BY <2>1, <3>1, <3>2 DEF Original
      <4>2. call[t].rows[1].note = "reversal" =>
               TakesBack(Ledger!Ledger(t)', call[t].rows[1]) /\ ~Ledger!Adjusted(work["ledger"], Original(t))
        <5> SUFFICES ASSUME call[t].rows[1].note = "reversal"
                     PROVE  TakesBack(work["ledger"], call[t].rows[1])
                            /\ ~Ledger!Adjusted(work["ledger"], Original(t))
          BY <2>3, <3>2
        <5>1. TakesBack(db["ledger"], call[t].rows[1]) /\ ~Ledger!Adjusted(work["ledger"], Original(t))
          BY <2>3, <3>2, <4>1 DEF Adjustment
        <5>2. DOMAIN db["ledger"] \subseteq DOMAIN work["ledger"]
              /\ \A j \in DOMAIN db["ledger"] : work["ledger"][j] = db["ledger"][j]
          BY <1>1 DEF LedgerTypes, LedgerRows
        <5> QED
          BY <5>1, <5>2 DEF TakesBack, Ledger!Standing, Original
      <4>3. ~(call[t].rows[1].note # "reversal" /\ Original(t) # 0)
        BY <2>3, <3>2, <4>1 DEF Adjustment
      <4> QED
        BY <2>1, <4>1, <4>2, <4>3 DEF Adjustment
    <3>3. \A t \in Session : /\ Adjusts(t)' <=> Adjusts(t) /\ Original(t)' = Original(t)
                             /\ Posts(t)' <=> Posts(t)
      BY <2>1 DEF Adjusts, Original, Posts
    <3> QED
      BY <2>1, <3>1, <3>2, <3>3 DEF TwiceInv
  <2>6. ExcessInv'
    <3> SUFFICES ASSUME ~history.raced, ~history.reduced PROVE ExcessInv'
      BY <2>1 DEF ExcessInv
    <3>1. \A t \in Session : ~Halfway(t)
      BY <1>1, <2>3 DEF ExcessInv, Halfway, Moves
    <3>2. \A t \in Session : /\ Posts(t)' <=> Posts(t)
                             /\ Moves(t)' <=> Moves(t)
                             /\ Halfway(t)' <=> Halfway(t)
      BY <2>1 DEF Posts, Moves, Halfway
    <3> QED
      BY <1>1, <2>1, <3>1, <3>2 DEF ExcessInv
  <2> QED
    BY <2>4, <2>5, <2>6 DEF LedgerInv
<1>5. CASE Ledger!Rollback(s)
  <2>1. /\ work' = (IF writer = s THEN db ELSE work) /\ writer' = (IF writer = s THEN NoSession ELSE writer)
        /\ db' = db /\ history' = history /\ DOMAIN call' = Session /\ call'[s] = [op |-> "idle"]
        /\ \A t \in Session : t # s => call'[t] = call[t]
    BY <1>1, <1>5 DEF Ledger!Rollback, Ledger!Idle, LedgerTypes
  <2>2. ~Posts(s)' /\ ~Adjusts(s)' /\ ~Moves(s)' /\ ~Halfway(s)'
    BY <2>1 DEF Posts, Adjusts, Moves, Halfway
  <2>3. ASSUME NEW t \in Session, t # s
        PROVE  /\ Posts(t)' <=> Posts(t)
               /\ Adjusts(t)' <=> Adjusts(t)
               /\ Original(t)' = Original(t)
               /\ Moves(t)' <=> Moves(t)
               /\ Halfway(t)' <=> Halfway(t)
               /\ Ledger!Ledger(t)' = Ledger!Ledger(t)
               /\ call'[t] = call[t]
               /\ writer' = t <=> writer = t
    <3>1. call'[t] = call[t]
      BY <2>1, <2>3
    <3>2. (writer' = t <=> writer = t) /\ Ledger!Ledger(t)' = Ledger!Ledger(t)
      BY <2>1, <2>3, SessionAssumption DEF Ledger!Ledger, Ledger!Sees
    <3> QED
      BY <3>1, <3>2 DEF Posts, Adjusts, Original, Moves, Halfway
  <2>4. LedgerTypes'
    <3>1. ASSUME NEW t \in Session
          PROVE  \/ call'[t] = [op |-> "idle"]
                 \/ /\ call'[t] \in [op : {"post"}, rows : Seq(EntryRow)]
                    /\ call'[t].rows # <<>>
                    /\ \A j \in DOMAIN call'[t].rows : call'[t].rows[j].superseded_by <= Len(Ledger!Ledger(t)')
      BY <1>1, <2>1, <2>3 DEF LedgerTypes
    <3>2. Len(db["ledger"]) <= Len(db["ledger"])
      BY <1>1 DEF LedgerTypes, LedgerRows
    <3> QED
      BY <1>1, <2>1, <3>1, <3>2 DEF LedgerTypes
  <2>5. TwiceInv'
    <3> SUFFICES ASSUME ~history.twice PROVE TwiceInv'
      BY <2>1 DEF TwiceInv
    <3>1. /\ Balanced(db["ledger"]) /\ Balanced(work["ledger"])
          /\ \A t, u \in Session : Adjusts(t) /\ Adjusts(u) /\ Original(t) = Original(u) => t = u
          /\ \A t \in Session : Posts(t) => Adjustment(t)
      BY <1>1 DEF TwiceInv
    <3>2. ASSUME NEW t \in Session, t # s, Posts(t) PROVE Adjustment(t)'
      <4>1. Adjustment(t)
        BY <3>1, <3>2
      <4>2. \A i : ~Ledger!Adjusted(work["ledger"], i) => ~Ledger!Adjusted(work'["ledger"], i)
        <5>1. DOMAIN db["ledger"] \subseteq DOMAIN work["ledger"]
              /\ \A j \in DOMAIN db["ledger"] : work["ledger"][j] = db["ledger"][j]
          BY <1>1 DEF LedgerTypes, LedgerRows
        <5> QED
          BY <2>1, <5>1 DEF Ledger!Adjusted
      <4>3. writer = t => work' = work /\ writer' = t
        BY <2>1, <3>2
      <4> QED
        BY <2>3, <3>2, <4>1, <4>2, <4>3 DEF Adjustment
    <3> QED
      BY <2>1, <2>2, <2>3, <3>1, <3>2 DEF TwiceInv
  <2>6. ExcessInv'
    <3> SUFFICES ASSUME ~history.raced, ~history.reduced PROVE ExcessInv'
      BY <2>1 DEF ExcessInv
    <3>1. /\ Under(db["ledger"], 0, 0)
          /\ (\A t \in Session : ~Halfway(t)) => Under(work["ledger"], 0, 0)
          /\ \A t, u \in Session : Moves(t) /\ Moves(u) => t = u
          /\ \A t \in Session : Posts(t) /\ ~Moves(t) =>
                \A j \in DOMAIN call[t].rows :
                   /\ call[t].rows[j].note # "reclass"
                   /\ call[t].rows[j].account = "compensation" => call[t].rows[j].amount >= 0
          /\ \A t \in Session : Moves(t) /\ ~Halfway(t) =>
                \E rest \in Int :
                   /\ rest > 0 /\ call[t].rows = <<Taken(rest), Moved(rest)>>
                   /\ Under(work["ledger"], 0, rest)
                   /\ writer # t => Under(db["ledger"], 0, rest)
          /\ \A t \in Session : Halfway(t) =>
                /\ writer = t
                /\ \E rest \in Int : /\ rest > 0 /\ call[t].rows = <<Moved(rest)>>
                                     /\ Under(work["ledger"], rest, rest)
      BY <1>1 DEF ExcessInv
    <3>2. CASE writer = s
      <4>1. work' = db /\ writer' = NoSession /\ \A t \in Session : ~Halfway(t)'
        BY <2>1, <2>2, <2>3, <3>1, <3>2
      <4>2. ASSUME NEW t \in Session, Moves(t)', ~Halfway(t)'
            PROVE  \E rest \in Int :
                      /\ rest > 0 /\ call'[t].rows = <<Taken(rest), Moved(rest)>>
                      /\ Under(work'["ledger"], 0, rest)
                      /\ writer' # t => Under(db'["ledger"], 0, rest)
        BY <2>1, <2>2, <2>3, <3>1, <3>2, <4>1, <4>2
      <4> QED
        BY <2>1, <2>2, <2>3, <3>1, <4>1, <4>2 DEF ExcessInv
    <3>3. CASE writer # s
      <4>1. work' = work /\ writer' = writer /\ ~Halfway(s)
        BY <2>1, <3>1, <3>3
      <4> QED
        BY <2>1, <2>2, <2>3, <3>1, <4>1 DEF ExcessInv
    <3> QED
      BY <3>2, <3>3
  <2> QED
    BY <2>4, <2>5, <2>6 DEF LedgerInv
<1> QED
  BY <1>2, <1>3, <1>4, <1>5

\* The ledger's invariant is inductive.
LEMMA LedgerNext == ASSUME LedgerInv, Ledger!Next PROVE LedgerInv'
<1>1. CASE Ledger!SessionStep({})
  BY <1>1, LedgerSession
<1>2. ASSUME NEW s \in Session, Ledger!PostTransaction(s) PROVE LedgerInv'
  BY <1>2, PostTypes, PostTwice, PostExcess DEF LedgerInv
<1>3. ASSUME NEW s \in Session, Ledger!PostPayment(s) \/ Ledger!PostExpense(s) PROVE LedgerInv'
  BY <1>3, LedgerEntries
<1>4. ASSUME NEW s \in Session, NEW i \in DOMAIN Ledger!Ledger(s),
             Ledger!PostCorrection(s, i) \/ Ledger!SplitTravelExpense(s, i)
      PROVE  LedgerInv'
  BY <1>4, LedgerAdjusts
<1>5. ASSUME NEW s \in Session, Ledger!ReclassifyExcess(s) PROVE LedgerInv'
  BY <1>5, LedgerReclassifies
<1> QED
  BY <1>1, <1>2, <1>3, <1>4, <1>5 DEF Ledger!Next

\* What the invariant is for.
LEMMA LedgerStands == LedgerInv => Ledger!LedgerAddsUp /\ Ledger!NeverMoreThanExcess
<1> SUFFICES ASSUME LedgerInv PROVE Ledger!LedgerAddsUp /\ Ledger!NeverMoreThanExcess
  OBVIOUS
<1>1. Ledger!LedgerAddsUp
  BY DEF LedgerInv, TwiceInv, Balanced, Account, Ledger!LedgerAddsUp
<1>2. ASSUME ~history.raced, ~history.reduced PROVE Ledger!Already(db["ledger"]) <= Ledger!Over(db["ledger"])
  <2>1. Under(db["ledger"], 0, 0)
    BY <1>2 DEF LedgerInv, ExcessInv
  <2>2. Ledger!Already(db["ledger"]) \in Int
    BY RowSets DEF LedgerInv, LedgerTypes, LedgerRows
  <2> QED
    BY <2>1, <2>2 DEF Under
<1>3. Ledger!NeverMoreThanExcess
  BY <1>2 DEF Ledger!NeverMoreThanExcess
<1> QED
  BY <1>1, <1>3

-----------------------------------------------------------------------------
(* A claim: totals, test and dates *)

\* The row of the action.
ActionRow == [type : {"rea", "cda_claim"}, increase : Int, decrease : Int,
              required : BOOLEAN \union {None}, status : {"pending", "not_required"},
              received : Receipt \union {None}, deadline : Int \union {None},
              interest : Receipt \union {None}]

\* What the totals should be.
Increase(items) == SumFunctionOnSet(items, Claim!Positive(items))
Decrease(items) == SumFunctionOnSet(items, Claim!Negative(items))

\* Items are only added, so what a copy holds is below what the table holds.
Below(action, increase, decrease) == action.increase <= increase /\ action.decrease >= decrease

\* The totals of an action fit its items.
TotalsFit(rows) ==
    /\ rows["action"].increase = Increase(rows["items"])
    /\ rows["action"].decrease = Decrease(rows["items"])

\* Test and dates fit them.
DatesFit(action, items) ==
    LET small == Increase(items) - Decrease(items) <= Threshold[Claim!Rule(action)]
    IN  /\ action.required # None => action.required = ~small
        /\ action.type = "cda_claim" /\ action.received # None =>
              /\ action.interest = action.received
              /\ action.deadline = IF small THEN action.received + 60 ELSE None

\* A session has added an item and not yet the totals.
Adding(s) == call[s].op = "totals"

\* The rows, who writes them, and who is adding an item.
ClaimTypes ==
    /\ \A rows \in {db, work} :
          /\ DOMAIN rows = {"action", "items"}
          /\ rows["action"] \in ActionRow /\ rows["items"] \in Seq(Int)
          /\ rows["action"].type = "rea" => rows["action"].deadline = None /\ rows["action"].interest = None
    /\ writer \in Session \union {NoSession}
    /\ writer = NoSession => work = db
    /\ DOMAIN call = Session
    /\ \A s \in Session : call[s] = [op |-> "idle"] \/ (call[s] = [op |-> "totals"] /\ writer = s)
    /\ history \in [stale : BOOLEAN, late : BOOLEAN]

\* A copy of the action in an identity map is one the table has had.
ClaimCopy(s) ==
    cache[s]["action"] # NotLoaded =>
        /\ cache[s]["action"] \in ActionRow
        /\ cache[s]["action"].type = db["action"].type
        /\ Below(cache[s]["action"], Claim!Sees(s)["action"].increase, Claim!Sees(s)["action"].decrease)

\* Every identity map is like that.
ClaimCopies ==
    /\ DOMAIN cache = Session
    /\ \A s \in Session : DOMAIN cache[s] = {"action", "items"} /\ ClaimCopy(s)

\* The totals fit, or a session is about to set them and they are behind the items.
ClaimTotals ==
    /\ TotalsFit(db)
    /\ work["action"].type = db["action"].type
    /\ Below(db["action"], work["action"].increase, work["action"].decrease)
    /\ Below(work["action"], Increase(work["items"]), Decrease(work["items"]))
    /\ (\A s \in Session : ~Adding(s)) => TotalsFit(work)

\* Test and dates fit, unless items came later or a call worked on a stale copy.
ClaimDates ==
    /\ ~history.late /\ ~history.stale => \A rows \in {db, work} : DatesFit(rows["action"], rows["items"])
    /\ ~history.late => \A s \in Session : Adding(s) =>
                           work["action"].required = None /\ work["action"].received = None

\* What is known of the claim.
ClaimInv == ClaimTypes /\ ClaimCopies /\ ClaimTotals /\ ClaimDates

\* The claim's instance of the community module adds up the same way.
LEMMA ClaimSums ==
    ASSUME NEW f, NEW S
    PROVE  /\ Claim!SumFunctionOnSet(f, S) = SumFunctionOnSet(f, S)
           /\ Claim!SumFunction(f) = SumFunctionOnSet(f, DOMAIN f)
BY DEF Claim!SumFunction, Claim!SumFunctionOnSet, Claim!FoldFunctionOnSet, Claim!MapThenFoldSet,
       SumFunctionOnSet, FoldFunctionOnSet, MapThenFoldSet

\* Line items are finitely many.
LEMMA ItemsFinite ==
    ASSUME NEW items \in Seq(Int), NEW set \in SUBSET DOMAIN items
    PROVE  IsFiniteSet(set) /\ \A i \in set : items[i] \in Int
<1>1. DOMAIN items = 1..Len(items) /\ Len(items) \in Nat /\ \A i \in DOMAIN items : items[i] \in Int
  OBVIOUS
<1>2. IsFiniteSet(DOMAIN items)
  BY <1>1, FS_Interval
<1> QED
  BY <1>1, <1>2, FS_Subset

\* Totals are integers.
LEMMA ItemsType ==
    ASSUME NEW items \in Seq(Int)
    PROVE  Increase(items) \in Int /\ Decrease(items) \in Int
BY ItemsFinite, SumType DEF Increase, Decrease, Claim!Positive, Claim!Negative

\* An item more never takes the increases down nor the decreases up.
LEMMA TotalsGrow ==
    ASSUME NEW items \in Seq(Int), NEW a \in Int
    PROVE  /\ Append(items, a) \in Seq(Int)
           /\ Increase(items) <= Increase(Append(items, a))
           /\ Decrease(items) >= Decrease(Append(items, a))
<1>1. PICK new : new = Append(items, a)
  OBVIOUS
<1>2. PICK n : n = Len(items) + 1
  OBVIOUS
<1>3. /\ new \in Seq(Int) /\ DOMAIN new = DOMAIN items \union {n} /\ n \notin DOMAIN items
      /\ new[n] = a /\ \A i \in DOMAIN items : new[i] = items[i]
  BY <1>1, <1>2
<1>4. ASSUME NEW set \in SUBSET DOMAIN items
      PROVE  /\ SumFunctionOnSet(new, set) = SumFunctionOnSet(items, set)
             /\ SumFunctionOnSet(new, set \union {n}) = a + SumFunctionOnSet(items, set)
             /\ SumFunctionOnSet(items, set) \in Int
  <2>1. IsFiniteSet(set) /\ \A i \in set : items[i] \in Int /\ items[i] = new[i]
    BY <1>3, <1>4, ItemsFinite
  <2>2. SumFunctionOnSet(items, set) = SumFunctionOnSet(new, set) /\ SumFunctionOnSet(items, set) \in Int
    BY <2>1, SumAgrees, SumType
  <2>3. n \notin set /\ new[n] \in Int /\ \A i \in set : new[i] \in Int
    BY <1>3, <1>4, <2>1
  <2>4. SumFunctionOnSet(new, set \union {n}) = new[n] + SumFunctionOnSet(new, set)
    BY <2>1, <2>3, SumAdd
  <2> QED
    BY <1>3, <2>2, <2>4
<1>5. Increase(items) <= Increase(new)
  <2>1. PICK set : set = Claim!Positive(items)
    OBVIOUS
  <2>2. set \in SUBSET DOMAIN items
    BY <2>1 DEF Claim!Positive
  <2>3. PICK sum \in Int : sum = SumFunctionOnSet(items, set)
    BY <1>4, <2>2
  <2>4. /\ SumFunctionOnSet(new, set) = sum /\ SumFunctionOnSet(new, set \union {n}) = a + sum
        /\ Increase(items) = sum
    BY <1>4, <2>1, <2>2, <2>3 DEF Increase
  <2>5. CASE a > 0
    <3>1. Claim!Positive(new) = set \union {n}
      BY <1>3, <2>1, <2>5 DEF Claim!Positive
    <3>2. Increase(new) = a + sum
      BY <2>4, <3>1 DEF Increase
    <3> QED
      BY <2>3, <2>4, <2>5, <3>2
  <2>6. CASE ~(a > 0)
    <3>1. Claim!Positive(new) = set
      BY <1>3, <2>1, <2>6 DEF Claim!Positive
    <3>2. Increase(new) = sum
      BY <2>4, <3>1 DEF Increase
    <3> QED
      BY <2>3, <2>4, <3>2
  <2> QED
    BY <2>5, <2>6
<1>6. Decrease(items) >= Decrease(new)
  <2>1. PICK set : set = Claim!Negative(items)
    OBVIOUS
  <2>2. set \in SUBSET DOMAIN items
    BY <2>1 DEF Claim!Negative
  <2>3. PICK sum \in Int : sum = SumFunctionOnSet(items, set)
    BY <1>4, <2>2
  <2>4. /\ SumFunctionOnSet(new, set) = sum /\ SumFunctionOnSet(new, set \union {n}) = a + sum
        /\ Decrease(items) = sum
    BY <1>4, <2>1, <2>2, <2>3 DEF Decrease
  <2>5. CASE a < 0
    <3>1. Claim!Negative(new) = set \union {n}
      BY <1>3, <2>1, <2>5 DEF Claim!Negative
    <3>2. Decrease(new) = a + sum
      BY <2>4, <3>1 DEF Decrease
    <3> QED
      BY <2>3, <2>4, <2>5, <3>2
  <2>6. CASE ~(a < 0)
    <3>1. Claim!Negative(new) = set
      BY <1>3, <2>1, <2>6 DEF Claim!Negative
    <3>2. Decrease(new) = sum
      BY <2>4, <3>1 DEF Decrease
    <3> QED
      BY <2>3, <2>4, <3>2
  <2> QED
    BY <2>5, <2>6
<1> QED
  BY <1>1, <1>3, <1>5, <1>6

\* Increases and decreases make up the net; their magnitudes make up the gross.
LEMMA ItemsTotals ==
    ASSUME NEW items \in Seq(Int)
    PROVE  /\ Claim!SumFunction(items) = Increase(items) + Decrease(items)
           /\ Claim!Gross(items) = Increase(items) - Decrease(items)
           /\ Increase(items) >= 0 /\ Decrease(items) <= 0
<1>1. PICK P, N, Z : /\ P = Claim!Positive(items) /\ N = Claim!Negative(items)
                     /\ Z = {i \in DOMAIN items : items[i] = 0}
  OBVIOUS
<1>2. /\ P \in SUBSET DOMAIN items /\ N \in SUBSET DOMAIN items /\ Z \in SUBSET DOMAIN items
      /\ \A i \in P : items[i] > 0
      /\ \A i \in N : items[i] < 0
      /\ \A i \in Z : items[i] = 0
  BY <1>1 DEF Claim!Positive, Claim!Negative
<1>3. /\ \A i \in DOMAIN items : items[i] \in Int
      /\ IsFiniteSet(P) /\ IsFiniteSet(N) /\ IsFiniteSet(Z)
  BY <1>2, ItemsFinite
<1>4. DOMAIN items = P \union N \union Z /\ P \intersect N = {} /\ (P \union N) \intersect Z = {}
  <2>1. ASSUME NEW i \in DOMAIN items
        PROVE  /\ i \in P \/ i \in N \/ i \in Z
               /\ ~(i \in P /\ i \in N) /\ ~(i \in P /\ i \in Z) /\ ~(i \in N /\ i \in Z)
    <3>1. PICK k \in Int : k = items[i]
      BY <1>3
    <3>2. (i \in P <=> k > 0) /\ (i \in N <=> k < 0) /\ (i \in Z <=> k = 0)
      BY <1>1, <3>1 DEF Claim!Positive, Claim!Negative
    <3> QED
      BY <3>1, <3>2
  <2> QED
    BY <1>2, <2>1
<1>5. ASSUME NEW f, \A i \in DOMAIN items : f[i] \in Int, \A i \in Z : f[i] = 0
      PROVE  SumFunctionOnSet(f, DOMAIN items) = SumFunctionOnSet(f, P) + SumFunctionOnSet(f, N)
  <2>1. IsFiniteSet(P \union N) /\ \A i \in P \union N : f[i] \in Int
    BY <1>2, <1>3, <1>5, FS_Union
  <2>2. SumFunctionOnSet(f, P \union N) = SumFunctionOnSet(f, P) + SumFunctionOnSet(f, N)
    BY <1>3, <1>4, <2>1, SumUnion
  <2>3. SumFunctionOnSet(f, (P \union N) \union Z) = SumFunctionOnSet(f, P \union N) + SumFunctionOnSet(f, Z)
    BY <1>2, <1>3, <1>4, <1>5, <2>1, SumUnion
  <2>4. SumFunctionOnSet(f, Z) = 0
    BY <1>3, <1>5, SumZero
  <2>5. SumFunctionOnSet(f, P \union N) \in Int
    BY <2>1, SumType
  <2> QED
    BY <1>4, <2>2, <2>3, <2>4, <2>5
<1>6. Claim!SumFunction(items) = Increase(items) + Decrease(items)
  BY <1>1, <1>2, <1>3, <1>5, ClaimSums DEF Increase, Decrease
<1>7. PICK g : g = [i \in DOMAIN items |-> Claim!Abs(items[i])]
  OBVIOUS
<1>8. /\ DOMAIN g = DOMAIN items /\ \A i \in DOMAIN items : g[i] \in Int
      /\ \A i \in Z : g[i] = 0
      /\ \A i \in P : items[i] = g[i]
      /\ \A i \in N : g[i] = -items[i]
  BY <1>2, <1>3, <1>7 DEF Claim!Abs
<1>9. SumFunctionOnSet(items, P) = SumFunctionOnSet(g, P)
  BY <1>2, <1>3, <1>8, SumAgrees
<1>10. SumFunctionOnSet(g, N) = -SumFunctionOnSet(items, N)
  BY <1>2, <1>3, <1>8, SumNegated
<1>11. Claim!Gross(items) = SumFunctionOnSet(g, P) + SumFunctionOnSet(g, N)
  BY <1>5, <1>7, <1>8, ClaimSums DEF Claim!Gross
<1>12. SumFunctionOnSet(items, P) \in Nat
  BY <1>2, <1>3, SumNat
<1>13. SumFunctionOnSet(g, N) \in Nat
  <2>1. \A i \in N : g[i] \in Nat
    BY <1>2, <1>3, <1>8
  <2> QED
    BY <1>3, <2>1, SumNat
<1>14. Increase(items) = SumFunctionOnSet(items, P) /\ Decrease(items) = SumFunctionOnSet(items, N)
  BY <1>1 DEF Increase, Decrease
<1>15. Decrease(items) \in Int
  BY ItemsType
<1> QED
  BY <1>6, <1>9, <1>10, <1>11, <1>12, <1>13, <1>14, <1>15

\* An action without items.
LEMMA ClaimInit == Claim!Init => ClaimInv
<1> SUFFICES ASSUME Claim!Init PROVE ClaimInv
  OBVIOUS
<1>1. PICK type \in {"rea", "cda_claim"} :
         /\ db = [k \in {"action", "items"} |->
                    IF k = "items" THEN <<>>
                    ELSE [type |-> type, increase |-> 0, decrease |-> 0,
                          required |-> None, status |-> "pending", received |-> None,
                          deadline |-> None, interest |-> None]]
         /\ work = db /\ writer = NoSession
         /\ call = [s \in Session |-> [op |-> "idle"]]
         /\ cache = [s \in Session |-> [k \in DOMAIN db |-> NotLoaded]]
         /\ history = [stale |-> FALSE, late |-> FALSE]
  BY DEF Claim!Init, Claim!Start, Claim!Keys, Claim!Idle
<1>2. PICK none : none = <<>>
  OBVIOUS
<1>3. /\ DOMAIN db = {"action", "items"} /\ db["items"] = none
      /\ db["action"] = [type |-> type, increase |-> 0, decrease |-> 0, required |-> None,
                         status |-> "pending", received |-> None, deadline |-> None, interest |-> None]
  BY <1>1, <1>2
<1>4. none \in Seq(Int) /\ Claim!Positive(none) = {} /\ Claim!Negative(none) = {}
  BY <1>2 DEF Claim!Positive, Claim!Negative
<1>5. Increase(none) = 0 /\ Decrease(none) = 0
  BY <1>4, SumEmpty DEF Increase, Decrease
<1>6. db["action"] \in ActionRow
  BY <1>3 DEF ActionRow
<1>7. ClaimTypes
  BY <1>1, <1>3, <1>4, <1>6 DEF ClaimTypes
<1>8. ClaimCopies
  BY <1>1, <1>3 DEF ClaimCopies, ClaimCopy
<1>9. ClaimTotals
  BY <1>1, <1>3, <1>5 DEF ClaimTotals, TotalsFit, Below
<1>10. ClaimDates
  BY <1>1, <1>3 DEF ClaimDates, DatesFit, Adding
<1> QED
  BY <1>7, <1>8, <1>9, <1>10 DEF ClaimInv

\* What a call works on: a row, and a copy of it that is not ahead of it.
LEMMA ClaimCopyOf ==
    ASSUME ClaimTypes, ClaimCopies, ClaimTotals, NEW s \in Session
    PROVE  /\ Claim!Copy(s, "action") \in ActionRow
           /\ Claim!Copy(s, "action").type = db["action"].type
           /\ Below(Claim!Copy(s, "action"), Claim!Sees(s)["action"].increase, Claim!Sees(s)["action"].decrease)
           /\ Claim!Sees(s)["action"] \in ActionRow
           /\ Claim!Sees(s)["action"].type = db["action"].type
           /\ Claim!Sees(s)["items"] \in Seq(Int)
<1>1. /\ Claim!Sees(s)["action"] \in ActionRow
      /\ Claim!Sees(s)["action"].type = db["action"].type
      /\ Claim!Sees(s)["items"] \in Seq(Int)
  BY DEF ClaimTypes, ClaimTotals, Claim!Sees
<1>2. CASE cache[s]["action"] = NotLoaded
  <2>1. Claim!Copy(s, "action") = Claim!Sees(s)["action"]
    BY <1>2 DEF Claim!Copy
  <2> QED
    BY <1>1, <2>1 DEF Below, ActionRow
<1>3. CASE cache[s]["action"] # NotLoaded
  <2>1. Claim!Copy(s, "action") = cache[s]["action"]
    BY <1>3 DEF Claim!Copy
  <2> QED
    BY <1>1, <1>3, <2>1 DEF ClaimCopies, ClaimCopy
<1> QED
  BY <1>2, <1>3

\* A column of the row the UPDATE does not set keeps its value.
LEMMA ClaimSet ==
    ASSUME NEW row \in ActionRow, NEW copy \in ActionRow, NEW new \in ActionRow
    PROVE  /\ Claim!Set(row, copy, new) \in ActionRow
           /\ Claim!Set(row, copy, new).type = IF new.type = copy.type THEN row.type ELSE new.type
           /\ Claim!Set(row, copy, new).increase
                = IF new.increase = copy.increase THEN row.increase ELSE new.increase
           /\ Claim!Set(row, copy, new).decrease
                = IF new.decrease = copy.decrease THEN row.decrease ELSE new.decrease
           /\ Claim!Set(row, copy, new).required
                = IF new.required = copy.required THEN row.required ELSE new.required
           /\ Claim!Set(row, copy, new).received
                = IF new.received = copy.received THEN row.received ELSE new.received
           /\ Claim!Set(row, copy, new).deadline
                = IF new.deadline = copy.deadline THEN row.deadline ELSE new.deadline
           /\ Claim!Set(row, copy, new).interest
                = IF new.interest = copy.interest THEN row.interest ELSE new.interest
           /\ copy = row => Claim!Set(row, copy, new) = new
<1>1. row # Absent
  BY NullAssumption DEF ActionRow
<1> QED
  BY <1>1 DEF Claim!Set, ActionRow

\* A flush of the action.
LEMMA ClaimFlush ==
    ASSUME ClaimTypes, ClaimCopies, ClaimTotals, NEW s \in Session, NEW new \in ActionRow,
           Claim!Flush(s, Claim!Only("action", new))
    PROVE  /\ db' = db
           /\ DOMAIN cache' = Session
           /\ \A t \in Session : DOMAIN cache'[t] = {"action", "items"}
           /\ \A t \in Session : cache'[t]["action"] = IF t = s THEN new ELSE cache[t]["action"]
           /\ \/ new = Claim!Copy(s, "action") /\ work' = work /\ writer' = writer
              \/ /\ writer \in {NoSession, s} /\ writer' = s /\ Claim!Sees(s) = work
                 /\ DOMAIN work' = {"action", "items"} /\ work'["items"] = work["items"]
                 /\ work'["action"] = Claim!Set(work["action"], Claim!Copy(s, "action"), new)
<1>1. PICK rows : rows = Claim!Only("action", new)
  OBVIOUS
<1>2. DOMAIN rows = {"action"} /\ rows["action"] = new
  BY <1>1 DEF Claim!Only
<1>3. /\ cache' = Claim!Keep(s, rows)
      /\ \/ rows["action"] = Claim!Copy(s, "action") /\ UNCHANGED <<db, work, writer>>
         \/ writer \in {NoSession, s} /\ writer' = s /\ work' = Claim!Flushed(s, rows) /\ db' = db
  BY <1>1, <1>2 DEF Claim!Flush
<1>4. /\ DOMAIN cache = Session /\ \A t \in Session : DOMAIN cache[t] = {"action", "items"}
      /\ DOMAIN db = {"action", "items"}
  BY DEF ClaimCopies, ClaimTypes
<1>5. PICK kept : kept = Claim!Replaced(cache[s], rows)
  OBVIOUS
<1>6. DOMAIN kept = {"action", "items"} /\ kept["action"] = new
  BY <1>2, <1>4, <1>5 DEF Claim!Replaced
<1>7. cache' = [cache EXCEPT ![s] = kept]
  BY <1>3, <1>5 DEF Claim!Keep
<1>8. ASSUME writer \in {NoSession, s}, work' = Claim!Flushed(s, rows)
      PROVE  /\ Claim!Sees(s) = work
             /\ DOMAIN work' = {"action", "items"} /\ work'["items"] = work["items"]
             /\ work'["action"] = Claim!Set(work["action"], Claim!Copy(s, "action"), new)
  <2>1. Claim!Sees(s) = work
    BY <1>8 DEF Claim!Sees, ClaimTypes
  <2> QED
    BY <1>2, <1>4, <1>8, <2>1 DEF Claim!Flushed
<1> QED
  BY <1>2, <1>3, <1>4, <1>6, <1>7, <1>8

\* While a session adds an item it is the writer, so the others only read.
LEMMA ClaimWriter ==
    ASSUME ClaimInv, NEW s \in Session, writer \in {NoSession, s}, ~Adding(s)
    PROVE  TotalsFit(work) /\ Claim!Sees(s) = work
<1>1. ASSUME NEW t \in Session, Adding(t) PROVE FALSE
  BY <1>1, SessionAssumption DEF ClaimInv, ClaimTypes, Adding
<1> QED
  BY <1>1 DEF ClaimInv, ClaimTypes, ClaimTotals, Claim!Sees

\* add_line_item: the table has an item more than the totals know of.
LEMMA ClaimAdds ==
    ASSUME ClaimInv, NEW s \in Session, Claim!AddLineItem(s) PROVE ClaimInv'
<1>1. ClaimTypes /\ ClaimCopies /\ ClaimTotals /\ ClaimDates
  BY DEF ClaimInv
<1>2. PICK amount \in ItemAmount : Claim!Write(s, Claim!Only("items", Append(Claim!Sees(s)["items"], amount)))
  BY DEF Claim!AddLineItem
<1>3. call[s] = [op |-> "idle"] /\ writer \in {NoSession, s}
  BY <1>2 DEF Claim!AddLineItem, Claim!Begin, Claim!Idle, Claim!Write
<1>4. ~Adding(s) /\ TotalsFit(work) /\ Claim!Sees(s) = work
  BY <1>3, ClaimWriter DEF Adding
<1>5. PICK items : items = Append(work["items"], amount)
  OBVIOUS
<1>6. /\ writer' = s /\ db' = db /\ cache' = cache
      /\ DOMAIN work' = {"action", "items"} /\ work'["items"] = items /\ work'["action"] = work["action"]
  BY <1>1, <1>2, <1>4, <1>5 DEF ClaimTypes, Claim!Write, Claim!Only, Claim!Replaced
<1>7. /\ DOMAIN call' = Session /\ call'[s] = [op |-> "totals"]
      /\ \A t \in Session : t # s => call'[t] = call[t]
      /\ history' = [history EXCEPT !.late = history.late \/ work["action"].required # None
                                                          \/ work["action"].received # None]
  BY <1>1, <1>4 DEF ClaimTypes, Claim!AddLineItem
<1>8. \A t \in Session : t # s => call[t] = [op |-> "idle"]
  BY <1>1, <1>3, SessionAssumption DEF ClaimTypes
<1>9. /\ items \in Seq(Int) /\ Increase(work["items"]) <= Increase(items)
      /\ Decrease(work["items"]) >= Decrease(items)
  BY <1>1, <1>5, ClaimAssumption, TotalsGrow DEF ClaimTypes
<1>10. /\ history' \in [stale : BOOLEAN, late : BOOLEAN] /\ history'.stale = history.stale
       /\ history.late => history'.late
       /\ ~history'.late => work["action"].required = None /\ work["action"].received = None
  <2>1. PICK b : b = (history.late \/ work["action"].required # None \/ work["action"].received # None)
    OBVIOUS
  <2>2. b \in BOOLEAN
    BY <2>1, Zenon
  <2>3. history' = [history EXCEPT !.late = b] /\ history \in [stale : BOOLEAN, late : BOOLEAN]
    BY <1>1, <1>7, <2>1 DEF ClaimTypes
  <2> QED
    BY <2>1, <2>2, <2>3
<1>11. ClaimTypes'
  BY <1>1, <1>6, <1>7, <1>8, <1>9, <1>10, SessionAssumption DEF ClaimTypes
<1>12. ClaimCopies'
  <2>1. \A t \in Session : Claim!Sees(t)'["action"] = Claim!Sees(t)["action"]
    BY <1>3, <1>4, <1>6, SessionAssumption, <1>1 DEF Claim!Sees, ClaimTypes
  <2> QED
    BY <1>1, <1>6, <2>1 DEF ClaimCopies, ClaimCopy
<1>13. ClaimTotals'
  <2>1. Below(work'["action"], Increase(items), Decrease(items))
    <3>1. Increase(work["items"]) \in Int /\ Decrease(work["items"]) \in Int
          /\ Increase(items) \in Int /\ Decrease(items) \in Int
      BY <1>1, <1>9, ItemsType DEF ClaimTypes
    <3> QED
      BY <1>4, <1>6, <1>9, <3>1 DEF Below, TotalsFit
  <2>2. Adding(s)'
    BY <1>7 DEF Adding
  <2> QED
    BY <1>1, <1>6, <2>1, <2>2 DEF ClaimTotals
<1>14. ClaimDates'
  <2>1. ASSUME ~history'.late PROVE \A t \in Session : Adding(t)' =>
                 work'["action"].required = None /\ work'["action"].received = None
    BY <1>6, <1>10, <2>1
  <2>2. ASSUME ~history'.late, ~history'.stale
        PROVE  \A rows \in {db', work'} : DatesFit(rows["action"], rows["items"])
    <3>1. DatesFit(db'["action"], db'["items"])
      BY <1>1, <1>6, <1>10, <2>2 DEF ClaimDates
    <3>2. DatesFit(work'["action"], work'["items"])
      BY <1>6, <1>10, <2>2 DEF DatesFit
    <3> QED
      BY <3>1, <3>2
  <2> QED
    BY <2>1, <2>2 DEF ClaimDates
<1> QED
  BY <1>11, <1>12, <1>13, <1>14 DEF ClaimInv

\* recompute_totals sets the totals a stale copy lacks, and leaves out only columns
\* that are right: the copy's are no further from the items than the table's.
LEMMA ClaimRecomputes ==
    ASSUME ClaimInv, NEW s \in Session, Claim!RecomputeTotals(s) PROVE ClaimInv'
<1>1. ClaimTypes /\ ClaimCopies /\ ClaimTotals /\ ClaimDates
  BY DEF ClaimInv
<1>2. PICK copy : copy = Claim!Copy(s, "action")
  OBVIOUS
<1>3. PICK new : new = Claim!Totals(copy, Claim!Sees(s)["items"])
  OBVIOUS
<1>4. /\ Adding(s) /\ Claim!Flush(s, Claim!Only("action", new))
      /\ call' = [call EXCEPT ![s] = [op |-> "idle"]] /\ history' = history
  BY <1>2, <1>3 DEF Claim!RecomputeTotals, Claim!Idle, Adding
<1>5. writer = s /\ Claim!Sees(s) = work
  BY <1>1, <1>4 DEF ClaimTypes, Adding, Claim!Sees
<1>6. PICK inc, dec : inc = Increase(work["items"]) /\ dec = Decrease(work["items"])
  OBVIOUS
<1>7. inc \in Int /\ dec \in Int
  BY <1>1, <1>6, ItemsType DEF ClaimTypes
<1>8. new = [copy EXCEPT !.increase = inc, !.decrease = dec]
  BY <1>3, <1>5, <1>6, ClaimSums DEF Claim!Totals, Increase, Decrease
<1>9. /\ copy \in ActionRow /\ copy.type = db["action"].type
      /\ Below(copy, work["action"].increase, work["action"].decrease)
      /\ work["action"] \in ActionRow /\ db["action"] \in ActionRow
  BY <1>1, <1>2, <1>5, ClaimCopyOf DEF ClaimTypes
<1>10. /\ new \in ActionRow /\ new.increase = inc /\ new.decrease = dec
       /\ new.type = copy.type /\ new.required = copy.required /\ new.received = copy.received
       /\ new.deadline = copy.deadline /\ new.interest = copy.interest
  BY <1>7, <1>8, <1>9 DEF ActionRow
<1>11. /\ db' = db
       /\ DOMAIN cache' = Session
       /\ \A t \in Session : DOMAIN cache'[t] = {"action", "items"}
       /\ \A t \in Session : cache'[t]["action"] = IF t = s THEN new ELSE cache[t]["action"]
       /\ \/ new = copy /\ work' = work /\ writer' = writer
          \/ /\ writer' = s /\ DOMAIN work' = {"action", "items"} /\ work'["items"] = work["items"]
             /\ work'["action"] = Claim!Set(work["action"], copy, new)
  BY <1>1, <1>2, <1>4, <1>10, ClaimFlush
<1>12. /\ copy.increase <= work["action"].increase /\ work["action"].increase <= inc
       /\ copy.decrease >= work["action"].decrease /\ work["action"].decrease >= dec
       /\ copy.increase \in Int /\ copy.decrease \in Int
       /\ work["action"].increase \in Int /\ work["action"].decrease \in Int
  BY <1>1, <1>6, <1>9 DEF ClaimTotals, Below, ActionRow
<1>13. /\ writer' = s /\ DOMAIN work' = {"action", "items"} /\ work'["items"] = work["items"]
       /\ work'["action"] \in ActionRow
       /\ work'["action"].type = work["action"].type
       /\ work'["action"].required = work["action"].required
       /\ work'["action"].received = work["action"].received
       /\ work'["action"].deadline = work["action"].deadline
       /\ work'["action"].interest = work["action"].interest
       /\ work'["action"].increase = inc /\ work'["action"].decrease = dec
  <2>1. CASE new = copy /\ work' = work /\ writer' = writer
    <3>1. work["action"].increase = inc /\ work["action"].decrease = dec
      BY <1>10, <1>12, <2>1, <1>7
    <3> QED
      BY <1>1, <1>5, <2>1, <3>1 DEF ClaimTypes
  <2>2. CASE /\ writer' = s /\ DOMAIN work' = {"action", "items"} /\ work'["items"] = work["items"]
             /\ work'["action"] = Claim!Set(work["action"], copy, new)
    <3>1. /\ inc = copy.increase => work["action"].increase = inc
          /\ dec = copy.decrease => work["action"].decrease = dec
      BY <1>7, <1>12
    <3> QED
      BY <1>9, <1>10, <2>2, <3>1, ClaimSet
  <2> QED
    BY <1>11, <2>1, <2>2
<1>14. /\ DOMAIN call' = Session /\ call'[s] = [op |-> "idle"]
       /\ \A t \in Session : t # s => call'[t] = [op |-> "idle"]
  BY <1>1, <1>4, <1>5 DEF ClaimTypes
<1>15. ClaimTypes'
  BY <1>1, <1>4, <1>11, <1>13, <1>14, SessionAssumption DEF ClaimTypes
<1>16. ClaimCopies'
  <2>1. ASSUME NEW t \in Session, t # s PROVE ClaimCopy(t)'
    <3>1. Claim!Sees(t)'["action"] = Claim!Sees(t)["action"] /\ cache'[t]["action"] = cache[t]["action"]
      BY <1>5, <1>11, <1>13, <2>1 DEF Claim!Sees
    <3> QED
      BY <1>1, <1>11, <2>1, <3>1 DEF ClaimCopies, ClaimCopy
  <2>2. ClaimCopy(s)'
    <3>1. Claim!Sees(s)' = work' /\ cache'[s]["action"] = new
      BY <1>11, <1>13 DEF Claim!Sees
    <3>2. new.type = db'["action"].type /\ Below(new, work'["action"].increase, work'["action"].decrease)
      BY <1>7, <1>9, <1>10, <1>11, <1>13 DEF Below
    <3> QED
      BY <1>10, <3>1, <3>2 DEF ClaimCopy
  <2> QED
    BY <1>11, <2>1, <2>2 DEF ClaimCopies
<1>17. ClaimTotals'
  <2>1. TotalsFit(work')
    BY <1>6, <1>13 DEF TotalsFit
  <2>2. Below(work'["action"], Increase(work'["items"]), Decrease(work'["items"]))
    BY <1>6, <1>7, <1>13 DEF Below
  <2>3. Below(db["action"], work'["action"].increase, work'["action"].decrease)
    <3>1. Below(db["action"], work["action"].increase, work["action"].decrease)
      BY <1>1 DEF ClaimTotals
    <3>2. db["action"].increase \in Int /\ db["action"].decrease \in Int
      BY <1>9 DEF ActionRow
    <3> QED
      BY <1>7, <1>12, <1>13, <3>1, <3>2 DEF Below
  <2> QED
    BY <1>1, <1>11, <1>13, <2>1, <2>2, <2>3 DEF ClaimTotals
<1>18. ClaimDates'
  <2>1. \A t \in Session : ~Adding(t)'
    BY <1>14 DEF Adding
  <2>2. ASSUME ~history.late, ~history.stale
        PROVE  \A rows \in {db', work'} : DatesFit(rows["action"], rows["items"])
    <3>1. DatesFit(db'["action"], db'["items"])
      BY <1>1, <1>11, <2>2 DEF ClaimDates
    <3>2. work'["action"].required = None /\ work'["action"].received = None
      BY <1>1, <1>4, <1>13, <2>2 DEF ClaimDates
    <3>3. DatesFit(work'["action"], work'["items"])
      BY <3>2 DEF DatesFit
    <3> QED
      BY <3>1, <3>3
  <2> QED
    BY <1>4, <2>1, <2>2 DEF ClaimDates
<1> QED
  BY <1>15, <1>16, <1>17, <1>18 DEF ClaimInv

\* A call that sets columns other than the totals, right for the items unless the
\* copy it worked on was stale.
LEMMA ClaimColumns ==
    ASSUME ClaimInv, NEW s \in Session, ~Adding(s), NEW copy, copy = Claim!Copy(s, "action"),
           NEW new \in ActionRow, Claim!Flush(s, Claim!Only("action", new)),
           new.type = copy.type, new.increase = copy.increase, new.decrease = copy.decrease,
           new.type = "rea" => new.deadline = copy.deadline /\ new.interest = copy.interest,
           UNCHANGED call,
           history' \in [stale : BOOLEAN, late : BOOLEAN], history'.late = history.late,
           history.stale => history'.stale,
           ~history.late /\ ~history'.stale =>
               copy = Claim!Sees(s)["action"] /\ DatesFit(new, Claim!Sees(s)["items"])
    PROVE  ClaimInv'
<1>1. ClaimTypes /\ ClaimCopies /\ ClaimTotals /\ ClaimDates
  BY DEF ClaimInv
<1>2. /\ copy \in ActionRow /\ copy.type = db["action"].type
      /\ Below(copy, Claim!Sees(s)["action"].increase, Claim!Sees(s)["action"].decrease)
      /\ work["action"] \in ActionRow /\ work["action"].type = db["action"].type
  BY <1>1, ClaimCopyOf DEF ClaimTypes, ClaimTotals
<1>3. /\ db' = db
      /\ DOMAIN cache' = Session
      /\ \A t \in Session : DOMAIN cache'[t] = {"action", "items"}
      /\ \A t \in Session : cache'[t]["action"] = IF t = s THEN new ELSE cache[t]["action"]
      /\ \/ new = copy /\ work' = work /\ writer' = writer
         \/ /\ writer \in {NoSession, s} /\ writer' = s /\ Claim!Sees(s) = work
            /\ DOMAIN work' = {"action", "items"} /\ work'["items"] = work["items"]
            /\ work'["action"] = Claim!Set(work["action"], copy, new)
  BY <1>1, ClaimFlush
<1>4. CASE new = copy /\ work' = work /\ writer' = writer
  <2>1. ClaimTypes'
    BY <1>1, <1>3, <1>4 DEF ClaimTypes
  <2>2. ClaimCopies'
    <3>1. \A t \in Session : Claim!Sees(t)' = Claim!Sees(t)
      BY <1>3, <1>4 DEF Claim!Sees
    <3>2. ASSUME NEW t \in Session PROVE ClaimCopy(t)'
      BY <1>1, <1>2, <1>3, <1>4, <3>1, <3>2 DEF ClaimCopies, ClaimCopy
    <3> QED
      BY <1>3, <3>2 DEF ClaimCopies
  <2>3. ClaimTotals'
    BY <1>1, <1>3, <1>4 DEF ClaimTotals, Adding
  <2>4. ClaimDates'
    BY <1>1, <1>3, <1>4 DEF ClaimDates, Adding
  <2> QED
    BY <2>1, <2>2, <2>3, <2>4 DEF ClaimInv
<1>5. CASE /\ writer \in {NoSession, s} /\ writer' = s /\ Claim!Sees(s) = work
           /\ DOMAIN work' = {"action", "items"} /\ work'["items"] = work["items"]
           /\ work'["action"] = Claim!Set(work["action"], copy, new)
  <2>1. TotalsFit(work) /\ \A t \in Session : ~Adding(t)
    <3>1. TotalsFit(work)
      BY <1>5, ClaimWriter
    <3>2. ASSUME NEW t \in Session, Adding(t) PROVE FALSE
      BY <1>1, <1>5, <3>2, SessionAssumption DEF ClaimTypes, Adding
    <3> QED
      BY <3>1, <3>2
  <2>2. /\ work'["action"] \in ActionRow
        /\ work'["action"].type = work["action"].type
        /\ work'["action"].increase = work["action"].increase
        /\ work'["action"].decrease = work["action"].decrease
        /\ work["action"].type = "rea" => /\ work'["action"].deadline = work["action"].deadline
                                          /\ work'["action"].interest = work["action"].interest
        /\ copy = work["action"] => work'["action"] = new
    BY <1>2, <1>5, ClaimSet
  <2>3. ClaimTypes'
    BY <1>1, <1>3, <1>5, <2>1, <2>2, SessionAssumption DEF ClaimTypes, Adding
  <2>4. ClaimCopies'
    <3>1. ASSUME NEW t \in Session, t # s PROVE ClaimCopy(t)'
      <4>1. Claim!Sees(t)'["action"] = Claim!Sees(t)["action"] /\ cache'[t]["action"] = cache[t]["action"]
        BY <1>1, <1>3, <1>5, <3>1, SessionAssumption DEF Claim!Sees, ClaimTypes
      <4> QED
        BY <1>1, <1>3, <3>1, <4>1 DEF ClaimCopies, ClaimCopy
    <3>2. ClaimCopy(s)'
      <4>1. Claim!Sees(s)' = work' /\ cache'[s]["action"] = new
        BY <1>3, <1>5 DEF Claim!Sees
      <4>2. new.type = db'["action"].type /\ Below(new, work'["action"].increase, work'["action"].decrease)
        BY <1>2, <1>3, <1>5, <2>2 DEF Below
      <4> QED
        BY <4>1, <4>2 DEF ClaimCopy
    <3> QED
      BY <1>3, <3>1, <3>2 DEF ClaimCopies
  <2>5. ClaimTotals'
    <3>1. TotalsFit(work')
      BY <1>5, <2>1, <2>2 DEF TotalsFit
    <3>2. Below(work'["action"], Increase(work'["items"]), Decrease(work'["items"]))
      BY <1>1, <1>5, <2>2 DEF ClaimTotals, Below
    <3>3. Below(db'["action"], work'["action"].increase, work'["action"].decrease)
      BY <1>1, <1>3, <2>2 DEF ClaimTotals, Below
    <3> QED
      BY <1>1, <1>3, <2>2, <3>1, <3>2, <3>3 DEF ClaimTotals
  <2>6. ClaimDates'
    <3>1. \A t \in Session : ~Adding(t)'
      BY <2>1 DEF Adding
    <3>2. ASSUME ~history'.late, ~history'.stale
          PROVE  \A rows \in {db', work'} : DatesFit(rows["action"], rows["items"])
      <4>1. DatesFit(db'["action"], db'["items"])
        BY <1>1, <1>3, <3>2 DEF ClaimDates
      <4>2. DatesFit(work'["action"], work'["items"])
        BY <1>5, <2>2, <3>2
      <4> QED
        BY <4>1, <4>2
    <3> QED
      BY <3>1, <3>2 DEF ClaimDates
  <2> QED
    BY <2>3, <2>4, <2>5, <2>6 DEF ClaimInv
<1> QED
  BY <1>3, <1>4, <1>5

\* What a call that is not adding an item sees: totals that fit, dates as good as
\* the history says, and the magnitude the threshold is compared with.
LEMMA ClaimSees ==
    ASSUME ClaimInv, NEW s \in Session, ~Adding(s)
    PROVE  LET action == Claim!Sees(s)["action"]
               items == Claim!Sees(s)["items"]
           IN  /\ action \in ActionRow /\ items \in Seq(Int)
               /\ Claim!Magnitude(action) = Increase(items) - Decrease(items)
               /\ Increase(items) - Decrease(items) \in Int
               /\ ~history.late /\ ~history.stale => DatesFit(action, items)
<1>1. PICK rows : rows = Claim!Sees(s)
  OBVIOUS
<1>2. rows \in {db, work} /\ TotalsFit(rows)
  <2>1. CASE writer = s
    BY <1>1, <2>1, ClaimWriter
  <2>2. CASE writer # s
    BY <1>1, <2>2 DEF Claim!Sees, ClaimInv, ClaimTotals
  <2> QED
    BY <2>1, <2>2
<1>3. rows["action"] \in ActionRow /\ rows["items"] \in Seq(Int)
  BY <1>2 DEF ClaimInv, ClaimTypes
<1>4. /\ Increase(rows["items"]) \in Int /\ Decrease(rows["items"]) \in Int
      /\ Increase(rows["items"]) >= 0 /\ Decrease(rows["items"]) <= 0
  BY <1>3, ItemsType, ItemsTotals
<1>5. Claim!Magnitude(rows["action"]) = Increase(rows["items"]) - Decrease(rows["items"])
  BY <1>2, <1>4 DEF TotalsFit, Claim!Magnitude, Claim!Abs
<1>6. ~history.late /\ ~history.stale => DatesFit(rows["action"], rows["items"])
  BY <1>2 DEF ClaimInv, ClaimDates
<1> QED
  BY <1>1, <1>3, <1>4, <1>5, <1>6

\* certification_test: what it leaves on the action fits the items it was for.
LEMMA ClaimTests ==
    ASSUME ClaimInv, NEW s \in Session, Claim!CertificationTest(s) PROVE ClaimInv'
<1>1. ClaimTypes /\ ClaimCopies /\ ClaimTotals
  BY DEF ClaimInv
<1>2. PICK copy : copy = Claim!Copy(s, "action")
  OBVIOUS
<1>3. PICK action, items : action = Claim!Sees(s)["action"] /\ items = Claim!Sees(s)["items"]
  OBVIOUS
<1>4. PICK new : new = Claim!Tested(copy)
  OBVIOUS
<1>5. /\ ~Adding(s) /\ Claim!Flush(s, Claim!Only("action", new)) /\ UNCHANGED call
      /\ history' = [history EXCEPT !.stale = history.stale \/ copy # action]
  BY <1>2, <1>3, <1>4 DEF Claim!CertificationTest, Claim!Begin, Claim!Idle, Claim!NoteStale, Claim!Stale, Adding
<1>6. copy \in ActionRow /\ action \in ActionRow
  BY <1>1, <1>2, <1>3, ClaimCopyOf
<1>7. /\ Claim!Magnitude(action) = Increase(items) - Decrease(items)
      /\ Increase(items) - Decrease(items) \in Int
      /\ ~history.late /\ ~history.stale => DatesFit(action, items)
  BY <1>3, <1>5, ClaimSees
<1>8. PICK b : b = (Claim!Magnitude(copy) > Threshold[Claim!Rule(copy)])
  OBVIOUS
<1>9. b \in BOOLEAN
  BY <1>8
<1>10. new = [copy EXCEPT !.required = b, !.status = IF b THEN copy.status ELSE "not_required"]
  BY <1>4, <1>8 DEF Claim!Tested
<1>11. /\ new \in ActionRow /\ new.required = b
       /\ new.type = copy.type /\ new.increase = copy.increase /\ new.decrease = copy.decrease
       /\ new.received = copy.received /\ new.deadline = copy.deadline /\ new.interest = copy.interest
  BY <1>6, <1>9, <1>10 DEF ActionRow
<1>12. /\ history' \in [stale : BOOLEAN, late : BOOLEAN] /\ history'.late = history.late
       /\ history.stale => history'.stale
       /\ ~history'.stale => copy = action
  <2>1. PICK stale : stale = (history.stale \/ copy # action)
    OBVIOUS
  <2>2. stale \in BOOLEAN
    BY <2>1, Zenon
  <2>3. history' = [history EXCEPT !.stale = stale] /\ history \in [stale : BOOLEAN, late : BOOLEAN]
    BY <1>1, <1>5, <2>1 DEF ClaimTypes
  <2> QED
    BY <2>1, <2>2, <2>3
<1>13. ASSUME ~history.late, ~history'.stale PROVE copy = action /\ DatesFit(new, items)
  <2>1. copy = action /\ DatesFit(copy, items)
    BY <1>7, <1>12, <1>13
  <2>2. Claim!Rule(new) = Claim!Rule(copy) /\ Threshold[Claim!Rule(copy)] \in Int
    BY <1>6, <1>11, ClaimAssumption DEF Claim!Rule
  <2>3. b = ~(Increase(items) - Decrease(items) <= Threshold[Claim!Rule(copy)])
    <3>1. PICK m \in Int, t \in Int : m = Increase(items) - Decrease(items) /\ t = Threshold[Claim!Rule(copy)]
      BY <1>7, <2>2
    <3>2. b = (m > t)
      BY <1>7, <1>8, <2>1, <3>1
    <3>3. (m > t) = ~(m <= t)
      BY <3>1
    <3> QED
      BY <3>1, <3>2, <3>3
  <2> QED
    BY <1>11, <2>1, <2>2, <2>3, ZenonT(60) DEF DatesFit
<1> QED
  BY <1>2, <1>3, <1>5, <1>11, <1>12, <1>13, ClaimColumns

\* record_co_receipt: an REA gets no deadline and no interest; a claim's fit its items.
LEMMA ClaimReceives ==
    ASSUME ClaimInv, NEW s \in Session, Claim!RecordCOReceipt(s) PROVE ClaimInv'
<1>1. ClaimTypes /\ ClaimCopies /\ ClaimTotals
  BY DEF ClaimInv
<1>2. PICK copy : copy = Claim!Copy(s, "action")
  OBVIOUS
<1>3. PICK action, items : action = Claim!Sees(s)["action"] /\ items = Claim!Sees(s)["items"]
  OBVIOUS
<1>4. PICK day \in Receipt : Claim!Flush(s, Claim!Only("action", Claim!Received(copy, day)))
  BY <1>2 DEF Claim!RecordCOReceipt
<1>5. PICK new : new = Claim!Received(copy, day)
  OBVIOUS
<1>6. /\ ~Adding(s) /\ Claim!Flush(s, Claim!Only("action", new)) /\ UNCHANGED call
      /\ history' = [history EXCEPT !.stale = history.stale \/ copy # action]
  BY <1>2, <1>3, <1>4, <1>5
     DEF Claim!RecordCOReceipt, Claim!Begin, Claim!Idle, Claim!NoteStale, Claim!Stale, Adding
<1>7. copy \in ActionRow /\ action \in ActionRow
  BY <1>1, <1>2, <1>3, ClaimCopyOf
<1>8. /\ Claim!Magnitude(action) = Increase(items) - Decrease(items)
      /\ Increase(items) - Decrease(items) \in Int
      /\ ~history.late /\ ~history.stale => DatesFit(action, items)
  BY <1>3, <1>6, ClaimSees
<1>9. PICK deadline : deadline = Claim!Deadline(copy, day)
  OBVIOUS
<1>10. day \in Int /\ deadline \in Int \union {None}
  BY <1>9, ClaimAssumption DEF Claim!Deadline, Claim!CDA_DECISION_WINDOW_DAYS
<1>11. new = IF copy.type = "rea" THEN [copy EXCEPT !.received = day]
             ELSE [copy EXCEPT !.received = day, !.interest = day, !.deadline = deadline]
  BY <1>5, <1>9 DEF Claim!Received
<1>12. /\ new \in ActionRow /\ new.received = day
       /\ new.type = copy.type /\ new.increase = copy.increase /\ new.decrease = copy.decrease
       /\ new.required = copy.required
       /\ copy.type = "rea" => new.deadline = copy.deadline /\ new.interest = copy.interest
       /\ copy.type # "rea" => new.deadline = deadline /\ new.interest = day
  <2>1. CASE copy.type = "rea"
    BY <1>4, <1>7, <1>11, <2>1 DEF ActionRow
  <2>2. CASE copy.type # "rea"
    BY <1>4, <1>7, <1>10, <1>11, <2>2 DEF ActionRow
  <2> QED
    BY <2>1, <2>2
<1>13. /\ history' \in [stale : BOOLEAN, late : BOOLEAN] /\ history'.late = history.late
       /\ history.stale => history'.stale
       /\ ~history'.stale => copy = action
  <2>1. PICK stale : stale = (history.stale \/ copy # action)
    OBVIOUS
  <2>2. stale \in BOOLEAN
    BY <2>1, Zenon
  <2>3. history' = [history EXCEPT !.stale = stale] /\ history \in [stale : BOOLEAN, late : BOOLEAN]
    BY <1>1, <1>6, <2>1 DEF ClaimTypes
  <2> QED
    BY <2>1, <2>2, <2>3
<1>14. ASSUME ~history.late, ~history'.stale PROVE copy = action /\ DatesFit(new, items)
  <2>1. copy = action /\ DatesFit(copy, items)
    BY <1>8, <1>13, <1>14
  <2>2. Claim!Rule(new) = Claim!Rule(copy)
    BY <1>12 DEF Claim!Rule
  <2>3. copy.type = "cda_claim" =>
          deadline = IF Increase(items) - Decrease(items) <= Threshold[Claim!Rule(copy)] THEN day + 60 ELSE None
    BY <1>8, <1>9, <2>1 DEF Claim!Deadline, Claim!Rule, Claim!CDA_DECISION_WINDOW_DAYS
  <2> QED
    BY <1>12, <2>1, <2>2, <2>3 DEF DatesFit
<1> QED
  BY <1>2, <1>3, <1>6, <1>12, <1>13, <1>14, ClaimColumns

\* What happens between calls keeps the invariant: copies are loaded from what a
\* session sees, and a rollback drops them with what it takes back.
LEMMA ClaimSession ==
    ASSUME ClaimInv, Claim!SessionStep({"action"}) PROVE ClaimInv'
<1>1. ClaimTypes /\ ClaimCopies /\ ClaimTotals /\ ClaimDates
  BY DEF ClaimInv
<1>2. PICK s \in Session :
         Claim!Load(s, "action") \/ Claim!EndSession(s) \/ Claim!Commit(s) \/ Claim!Rollback(s)
  BY DEF Claim!SessionStep
<1>3. PICK none : none = [k \in {"action", "items"} |-> NotLoaded]
  OBVIOUS
<1>4. ASSUME UNCHANGED <<db, work, writer, call, history>>, ClaimCopies' PROVE ClaimInv'
  BY <1>1, <1>4 DEF ClaimInv, ClaimTypes, ClaimTotals, ClaimDates, Adding
<1>5. CASE Claim!Load(s, "action")
  <2>1. /\ UNCHANGED <<db, work, writer, call, history>>
        /\ cache' = [cache EXCEPT ![s]["action"] = Claim!Sees(s)["action"]]
    BY <1>5 DEF Claim!Load
  <2>2. /\ DOMAIN cache' = Session /\ \A t \in Session : DOMAIN cache'[t] = {"action", "items"}
        /\ \A t \in Session : cache'[t]["action"] = IF t = s THEN Claim!Sees(s)["action"] ELSE cache[t]["action"]
    BY <1>1, <2>1 DEF ClaimCopies
  <2>3. \A t \in Session : Claim!Sees(t)' = Claim!Sees(t)
    BY <2>1 DEF Claim!Sees
  <2>4. /\ Claim!Sees(s)["action"] \in ActionRow /\ Claim!Sees(s)["action"].type = db["action"].type
        /\ Below(Claim!Sees(s)["action"], Claim!Sees(s)["action"].increase, Claim!Sees(s)["action"].decrease)
    BY <1>1, ClaimCopyOf DEF Below, ActionRow
  <2>5. ASSUME NEW t \in Session PROVE ClaimCopy(t)'
    BY <1>1, <2>1, <2>2, <2>3, <2>4 DEF ClaimCopies, ClaimCopy
  <2> QED
    BY <1>4, <2>1, <2>2, <2>5 DEF ClaimCopies
<1>6. CASE Claim!EndSession(s)
  <2>1. UNCHANGED <<db, work, writer, call, history>> /\ cache' = [cache EXCEPT ![s] = none]
    BY <1>1, <1>3, <1>6 DEF Claim!EndSession, ClaimTypes
  <2>2. \A t \in Session : Claim!Sees(t)' = Claim!Sees(t)
    BY <2>1 DEF Claim!Sees
  <2>3. /\ DOMAIN cache' = Session /\ \A t \in Session : DOMAIN cache'[t] = {"action", "items"}
        /\ \A t \in Session : cache'[t]["action"] = IF t = s THEN NotLoaded ELSE cache[t]["action"]
    BY <1>1, <1>3, <2>1 DEF ClaimCopies
  <2>4. ASSUME NEW t \in Session PROVE ClaimCopy(t)'
    BY <1>1, <2>1, <2>2, <2>3 DEF ClaimCopies, ClaimCopy
  <2> QED
    BY <1>4, <2>1, <2>3, <2>4 DEF ClaimCopies
<1>7. CASE Claim!Commit(s)
  <2>1. /\ writer = s /\ call[s] = [op |-> "idle"] /\ db' = work /\ work' = work /\ writer' = NoSession
        /\ UNCHANGED <<cache, call, history>>
    BY <1>7 DEF Claim!Commit, Claim!Idle
  <2>2. TotalsFit(work) /\ \A t \in Session : call[t] = [op |-> "idle"]
    BY <1>1, <2>1, ClaimWriter DEF ClaimTypes, Adding
  <2>3. ClaimTypes'
    BY <1>1, <2>1, <2>2 DEF ClaimTypes
  <2>4. ClaimCopies'
    <3>1. ASSUME NEW t \in Session PROVE ClaimCopy(t)'
      <4>1. Claim!Sees(t)' = work /\ work["action"].type = db["action"].type
        BY <1>1, <2>1 DEF Claim!Sees, ClaimTotals
      <4>2. CASE t = s
        <5>1. Claim!Sees(t) = work
          BY <2>1, <4>2 DEF Claim!Sees
        <5> QED
          BY <1>1, <2>1, <4>1, <5>1 DEF ClaimCopies, ClaimCopy
      <4>3. CASE t # s
        <5>1. Claim!Sees(t) = db
          BY <2>1, <4>3 DEF Claim!Sees
        <5>2. ASSUME cache[t]["action"] # NotLoaded
              PROVE  Below(cache[t]["action"], work["action"].increase, work["action"].decrease)
          <6>1. /\ Below(cache[t]["action"], db["action"].increase, db["action"].decrease)
                /\ cache[t]["action"] \in ActionRow
            BY <1>1, <5>1, <5>2 DEF ClaimCopies, ClaimCopy
          <6>2. db["action"] \in ActionRow /\ work["action"] \in ActionRow
            BY <1>1 DEF ClaimTypes
          <6>3. Below(db["action"], work["action"].increase, work["action"].decrease)
            BY <1>1 DEF ClaimTotals
          <6> QED
            BY <6>1, <6>2, <6>3 DEF Below, ActionRow
        <5> QED
          BY <1>1, <2>1, <4>1, <5>2 DEF ClaimCopies, ClaimCopy
      <4> QED
        BY <4>2, <4>3
    <3> QED
      BY <1>1, <2>1, <3>1 DEF ClaimCopies
  <2>5. ClaimTotals'
    <3>1. work["action"] \in ActionRow
      BY <1>1 DEF ClaimTypes
    <3>2. Below(work["action"], work["action"].increase, work["action"].decrease)
      BY <3>1 DEF Below, ActionRow
    <3> QED
      BY <1>1, <2>1, <2>2, <3>2 DEF ClaimTotals
  <2>6. ClaimDates'
    BY <1>1, <2>1 DEF ClaimDates, Adding
  <2> QED
    BY <2>3, <2>4, <2>5, <2>6 DEF ClaimInv
<1>8. CASE Claim!Rollback(s)
  <2>1. /\ work' = IF writer = s THEN db ELSE work
        /\ writer' = IF writer = s THEN NoSession ELSE writer
        /\ cache' = [cache EXCEPT ![s] = none]
        /\ call' = [call EXCEPT ![s] = [op |-> "idle"]] /\ UNCHANGED <<db, history>>
    BY <1>1, <1>3, <1>8 DEF Claim!Rollback, Claim!Idle, ClaimTypes
  <2>2. /\ DOMAIN call' = Session /\ call'[s] = [op |-> "idle"]
        /\ \A t \in Session : t # s => call'[t] = call[t]
    BY <1>1, <2>1 DEF ClaimTypes
  <2>3. /\ DOMAIN cache' = Session /\ \A t \in Session : DOMAIN cache'[t] = {"action", "items"}
        /\ \A t \in Session : cache'[t]["action"] = IF t = s THEN NotLoaded ELSE cache[t]["action"]
    BY <1>1, <1>3, <2>1 DEF ClaimCopies
  <2>4. \A t \in Session : t # s => Claim!Sees(t)' = Claim!Sees(t)
    BY <2>1, SessionAssumption DEF Claim!Sees
  <2>5. ClaimCopies'
    <3>1. ASSUME NEW t \in Session PROVE ClaimCopy(t)'
      BY <1>1, <2>1, <2>3, <2>4 DEF ClaimCopies, ClaimCopy
    <3> QED
      BY <2>3, <3>1 DEF ClaimCopies
  <2>6. CASE writer = s
    <3>1. /\ work' = db /\ db' = db /\ writer' = NoSession
          /\ \A t \in Session : call'[t] = [op |-> "idle"]
      BY <1>1, <2>1, <2>2, <2>6 DEF ClaimTypes
    <3>2. ClaimTypes'
      BY <1>1, <2>1, <2>2, <3>1 DEF ClaimTypes
    <3>3. ClaimTotals'
      <4>1. db["action"] \in ActionRow /\ TotalsFit(db)
        BY <1>1 DEF ClaimTypes, ClaimTotals
      <4>2. Below(db["action"], db["action"].increase, db["action"].decrease)
        BY <4>1 DEF Below, ActionRow
      <4> QED
        BY <3>1, <4>1, <4>2 DEF ClaimTotals, TotalsFit
    <3>4. ClaimDates'
      BY <1>1, <2>1, <3>1 DEF ClaimDates, Adding
    <3> QED
      BY <2>5, <3>2, <3>3, <3>4 DEF ClaimInv
  <2>7. CASE writer # s
    <3>1. work' = work /\ writer' = writer /\ call[s] = [op |-> "idle"]
      BY <1>1, <2>1, <2>7 DEF ClaimTypes
    <3>2. \A t \in Session : call'[t] = call[t]
      BY <2>2, <3>1
    <3>3. ClaimTypes'
      BY <1>1, <2>1, <2>2, <3>1, <3>2 DEF ClaimTypes
    <3>4. ClaimTotals'
      BY <1>1, <2>1, <3>1, <3>2 DEF ClaimTotals, Adding
    <3>5. ClaimDates'
      BY <1>1, <2>1, <3>1, <3>2 DEF ClaimDates, Adding
    <3> QED
      BY <2>5, <3>3, <3>4, <3>5 DEF ClaimInv
  <2> QED
    BY <2>6, <2>7
<1> QED
  BY <1>2, <1>5, <1>6, <1>7, <1>8

\* The claim's invariant is inductive.
LEMMA ClaimNext == ASSUME ClaimInv, Claim!Next PROVE ClaimInv'
BY ClaimSession, ClaimAdds, ClaimRecomputes, ClaimTests, ClaimReceives DEF Claim!Next

\* What the invariant is for.
LEMMA ClaimStands == ClaimInv => Claim!TotalsAreSums /\ Claim!TestAndDatesFitTheItems
<1> SUFFICES ASSUME ClaimInv PROVE Claim!TotalsAreSums /\ Claim!TestAndDatesFitTheItems
  OBVIOUS
<1>1. /\ db["items"] \in Seq(Int)
      /\ db["action"].increase = Increase(db["items"]) /\ db["action"].decrease = Decrease(db["items"])
      /\ db["action"].type = "rea" => db["action"].deadline = None /\ db["action"].interest = None
      /\ ~history.late /\ ~history.stale => DatesFit(db["action"], db["items"])
  BY DEF ClaimInv, ClaimTypes, ClaimTotals, TotalsFit, ClaimDates
<1>2. /\ Claim!SumFunction(db["items"]) = Increase(db["items"]) + Decrease(db["items"])
      /\ Claim!Gross(db["items"]) = Increase(db["items"]) - Decrease(db["items"])
  BY <1>1, ItemsTotals
<1>3. Claim!TotalsAreSums
  BY <1>1, <1>2, ClaimSums DEF Claim!TotalsAreSums, Increase
<1>4. Claim!TestAndDatesFitTheItems
  BY <1>1, <1>2 DEF Claim!TestAndDatesFitTheItems, DatesFit
<1> QED
  BY <1>3, <1>4

-----------------------------------------------------------------------------
(* The report behind a certificate *)

\* The sweep's instance of the community module adds up the same way.
LEMMA SweepSums == ASSUME NEW f PROVE Tina!SumFunction(f) = SumFunctionOnSet(f, DOMAIN f)
BY DEF Tina!SumFunction, Tina!SumFunctionOnSet, Tina!FoldFunctionOnSet, Tina!MapThenFoldSet,
       SumFunctionOnSet, FoldFunctionOnSet, MapThenFoldSet

\* Assumptions and postings that can be compared are finitely many.
LEMMA ExposedFinite ==
    ASSUME NEW rows
    PROVE  /\ IsFiniteSet(Tina!Exposed(rows))
           /\ \A p \in Tina!Exposed(rows) : BaselineValue[p[1]] - PostingAmount[p[2]] \in Int
<1>1. PICK entered : entered = [i \in DOMAIN Assumptions |-> Assumptions[i]]
  OBVIOUS
<1>2. entered \in Surjection(DOMAIN Assumptions, Tina!Assumption)
  BY <1>1 DEF Surjection, Tina!Assumption
<1>3. IsFiniteSet(Tina!Assumption)
  BY <1>2, SweepAssumption, FS_Surjection
<1>4. IsFiniteSet(Tina!Assumption \X Posting)
  BY <1>3, SweepAssumption, FS_Product
<1>5. Tina!Exposed(rows) \subseteq Tina!Assumption \X Posting
  BY DEF Tina!Exposed
<1>6. ASSUME NEW p \in Tina!Exposed(rows) PROVE BaselineValue[p[1]] - PostingAmount[p[2]] \in Int
  <2>1. p[1] \in Tina!Assumption /\ p[2] \in Posting
    BY <1>5
  <2>2. BaselineValue[p[1]] \in Int /\ PostingAmount[p[2]] \in Int
    BY <2>1, SweepAssumption DEF Tina!Assumption
  <2> QED
    BY <2>2
<1> QED
  BY <1>4, <1>5, <1>6, FS_Subset

\* The finding that flags a pair.
Exposure(a, t) ==
    [assumption |-> a, posting |-> t, variance |-> BaselineValue[a] - PostingAmount[t], flagged |-> TRUE]
Finding(p) == [sweep |-> 1, row |-> Exposure(p[1], p[2])]

\* A comparison is flagged if it is between an exposed pair.
LEMMA FlaggedRows ==
    ASSUME NEW rows, NEW r, NEW a \in Tina!Assumption, rows[a] # Absent
    PROVE  r \in Tina!Compare(rows, a) /\ r.flagged
             <=> \E t \in Posting : <<a, t>> \in Tina!Exposed(rows) /\ r = Exposure(a, t)
<1>1. ASSUME NEW t \in Posting
      PROVE  /\ Tina!Flagged(BaselineValue[a] - PostingAmount[t]) \in BOOLEAN
             /\ Tina!Flagged(BaselineValue[a] - PostingAmount[t])
                  <=> PostingAmount[t] + MaterialityThreshold < BaselineValue[a]
  <2>1. PICK b \in Int, c \in Int, m \in Int :
           b = BaselineValue[a] /\ c = PostingAmount[t] /\ m = MaterialityThreshold
    BY SweepAssumption DEF Tina!Assumption
  <2>2. (b - c > m) \in BOOLEAN /\ (b - c > m <=> c + m < b)
    BY <2>1
  <2> QED
    BY <2>1, <2>2 DEF Tina!Flagged
<1>2. ASSUME NEW t \in Posting
      PROVE  <<a, t>> \in Tina!Exposed(rows) <=>
               t \in Tina!Matching(rows, a) /\ PostingAmount[t] + MaterialityThreshold < BaselineValue[a]
  BY DEF Tina!Exposed, Tina!Matching
<1>3. ASSUME r \in Tina!Compare(rows, a), r.flagged
      PROVE  \E t \in Posting : <<a, t>> \in Tina!Exposed(rows) /\ r = Exposure(a, t)
  <2>1. CASE Tina!Matching(rows, a) = {}
    <3>1. r = [assumption |-> a, posting |-> NoMatch, variance |-> 0, flagged |-> FALSE]
      BY <1>3, <2>1 DEF Tina!Compare
    <3> QED
      BY <1>3, <3>1
  <2>2. CASE Tina!Matching(rows, a) # {}
    <3>1. PICK t \in Tina!Matching(rows, a) :
             r = [assumption |-> a, posting |-> t, variance |-> BaselineValue[a] - PostingAmount[t],
                  flagged |-> Tina!Flagged(BaselineValue[a] - PostingAmount[t])]
      BY <1>3, <2>2 DEF Tina!Compare
    <3>2. t \in Posting
      BY <3>1 DEF Tina!Matching
    <3>3. PICK f : f = Tina!Flagged(BaselineValue[a] - PostingAmount[t])
      OBVIOUS
    <3>4. r.flagged = f
      BY <3>1, <3>3
    <3>5. f = TRUE
      BY <1>1, <1>3, <3>2, <3>3, <3>4
    <3>6. r = Exposure(a, t)
      BY <3>1, <3>3, <3>5 DEF Exposure
    <3>7. PostingAmount[t] + MaterialityThreshold < BaselineValue[a]
      BY <1>1, <3>2, <3>3, <3>5
    <3> QED
      BY <1>2, <3>1, <3>2, <3>6, <3>7
  <2> QED
    BY <2>1, <2>2
<1>4. ASSUME NEW t \in Posting, <<a, t>> \in Tina!Exposed(rows), r = Exposure(a, t)
      PROVE  r \in Tina!Compare(rows, a) /\ r.flagged
  <2>1. t \in Tina!Matching(rows, a) /\ PostingAmount[t] + MaterialityThreshold < BaselineValue[a]
    BY <1>2, <1>4
  <2>2. PICK f : f = Tina!Flagged(BaselineValue[a] - PostingAmount[t])
    OBVIOUS
  <2>3. f = TRUE
    BY <1>1, <2>1, <2>2
  <2>4. r = [assumption |-> a, posting |-> t, variance |-> BaselineValue[a] - PostingAmount[t], flagged |-> f]
    BY <1>4, <2>3 DEF Exposure
  <2>5. r \in Tina!Compare(rows, a)
    BY <2>1, <2>2, <2>4 DEF Tina!Compare
  <2> QED
    BY <2>3, <2>4, <2>5
<1> QED
  BY <1>3, <1>4

\* The report on a sweep that compared what is entered counts each exposed pair once.
LEMMA ReportCounts ==
    ASSUME NEW rows, Reported(rows)
    PROVE  Tina!sweep_delta_report(rows) =
             [flagged_count |-> Tina!Cardinality(Tina!Exposed(rows)),
              total |-> Tina!SumFunction([p \in Tina!Exposed(rows) |->
                                             BaselineValue[p[1]] - PostingAmount[p[2]]])]
<1>1. PICK E, F : E = Tina!Exposed(rows) /\ F = {f \in rows["findings"] : f.row.flagged}
  OBVIOUS
<1>2. PICK b : b = [p \in E |-> Finding(p)]
  OBVIOUS
<1>3. IsFiniteSet(E) /\ \A p \in E : BaselineValue[p[1]] - PostingAmount[p[2]] \in Int
  BY <1>1, ExposedFinite
<1>4. ASSUME NEW p \in E
      PROVE  /\ p \in Tina!Assumption \X Posting /\ rows[p[1]] # Absent
             /\ b[p].row = Exposure(p[1], p[2])
             /\ b[p] \in F
  <2>1. p \in Tina!Assumption \X Posting /\ rows[p[1]] # Absent /\ p = <<p[1], p[2]>>
    BY <1>1 DEF Tina!Exposed
  <2>2. PICK r : r = Exposure(p[1], p[2])
    OBVIOUS
  <2>3. r \in Tina!Compare(rows, p[1]) /\ r.flagged
    BY <1>1, <2>1, <2>2, FlaggedRows
  <2>4. r \in Tina!Comparisons(rows)
    BY <2>1, <2>3 DEF Tina!Comparisons
  <2>5. PICK f : f = [sweep |-> 1, row |-> r]
    OBVIOUS
  <2>6. f \in rows["findings"] /\ f.row = r /\ b[p] = f
    BY <1>2, <2>2, <2>4, <2>5 DEF Reported, Finding
  <2> QED
    BY <1>1, <2>1, <2>2, <2>3, <2>6
<1>5. ASSUME NEW f \in F PROVE \E p \in E : b[p] = f
  <2>1. PICK r \in Tina!Comparisons(rows) : f = [sweep |-> 1, row |-> r] /\ r.flagged
    <3>1. PICK r \in Tina!Comparisons(rows) : f = [sweep |-> 1, row |-> r]
      BY <1>1 DEF Reported
    <3>2. f.row = r
      BY <3>1
    <3> QED
      BY <1>1, <3>1, <3>2
  <2>2. PICK a \in Tina!Assumption : rows[a] # Absent /\ r \in Tina!Compare(rows, a)
    BY <2>1 DEF Tina!Comparisons
  <2>3. PICK t \in Posting : <<a, t>> \in E /\ r = Exposure(a, t)
    BY <1>1, <2>1, <2>2, FlaggedRows
  <2>4. b[<<a, t>>] = f
    BY <1>2, <2>1, <2>3 DEF Finding
  <2> QED
    BY <2>3, <2>4
<1>6. ASSUME NEW p \in E, NEW q \in E, b[p] = b[q] PROVE p = q
  <2>1. Exposure(p[1], p[2]) = Exposure(q[1], q[2])
    BY <1>4, <1>6
  <2>2. p[1] = q[1] /\ p[2] = q[2]
    BY <2>1 DEF Exposure
  <2> QED
    BY <1>4, <2>2
<1>7. DOMAIN b = E /\ b \in Surjection(E, F) /\ b \in Injection(E, F)
  <2>1. DOMAIN b = E /\ b \in [E -> F]
    BY <1>2, <1>4
  <2>2. b \in Surjection(E, F)
    BY <1>5, <2>1 DEF Surjection
  <2>3. b \in Injection(E, F)
    BY <1>6, <2>1 DEF Injection, IsInjective
  <2> QED
    BY <2>1, <2>2, <2>3
<1>8. IsFiniteSet(F) /\ Cardinality(F) = Cardinality(E)
  BY <1>3, <1>7, FS_Surjection
<1>9. PICK v, w : /\ v = [p \in E |-> BaselineValue[p[1]] - PostingAmount[p[2]]]
                  /\ w = [f \in F |-> f.row.variance]
  OBVIOUS
<1>10. ASSUME NEW p \in E PROVE v[p] \in Int /\ b[p] \in F /\ v[p] = w[b[p]]
  <2>1. v[p] = BaselineValue[p[1]] - PostingAmount[p[2]]
    BY <1>9
  <2>2. b[p] \in F /\ b[p].row = Exposure(p[1], p[2])
    BY <1>4
  <2>3. w[b[p]] = b[p].row.variance
    BY <1>9, <2>2
  <2>4. Exposure(p[1], p[2]).variance = BaselineValue[p[1]] - PostingAmount[p[2]]
    BY DEF Exposure
  <2> QED
    BY <1>3, <2>1, <2>2, <2>3, <2>4
<1>11. SumFunctionOnSet(v, E) = SumFunctionOnSet(w, F)
  BY <1>3, <1>5, <1>6, <1>7, <1>10, SumBijection
<1>12. Tina!SumFunction(v) = SumFunctionOnSet(v, E) /\ Tina!SumFunction(w) = SumFunctionOnSet(w, F)
  BY <1>9, SweepSums
<1>13. Tina!Cardinality(F) = Tina!Cardinality(E)
  BY <1>8 DEF Tina!Cardinality, Cardinality
<1>14. Tina!sweep_delta_report(rows) = [flagged_count |-> Tina!Cardinality(F), total |-> Tina!SumFunction(w)]
  BY <1>1, <1>9 DEF Tina!sweep_delta_report
<1> QED
  BY <1>1, <1>9, <1>11, <1>12, <1>13, <1>14

-----------------------------------------------------------------------------
(* The services that add up *)

\* What is known of the service a behaviour is about.
TotalsInv ==
    /\ focus = "ledger" => LedgerInv
    /\ focus = "claim" => ClaimInv

\* The invariant of the service a behaviour is about holds throughout.
THEOREM TotalsInductive == Spec => []TotalsInv
<1>1. Init => TotalsInv
  BY LedgerInit, ClaimInit DEF Init, TotalsInv
<1>2. TotalsInv /\ [Next]_vars => TotalsInv'
  <2> SUFFICES ASSUME TotalsInv, [Next]_vars PROVE TotalsInv'
    OBVIOUS
  <2>1. CASE LedgerStep
    BY <2>1, LedgerNext DEF TotalsInv, LedgerStep
  <2>2. CASE ClaimStep
    BY <2>2, ClaimNext DEF TotalsInv, ClaimStep
  <2>3. CASE ResponseStep \/ WatchStep \/ TinaStep \/ VersionsStep
    BY <2>3 DEF TotalsInv, ResponseStep, WatchStep, TinaStep, VersionsStep
  <2>4. CASE UNCHANGED vars
    <3>1. ASSUME LedgerInv PROVE LedgerInv'
      <4>1. \A s \in Session : /\ Moves(s)' <=> Moves(s)
                               /\ Halfway(s)' <=> Halfway(s)
                               /\ Posts(s)' <=> Posts(s)
                               /\ Adjusts(s)' <=> Adjusts(s)
                               /\ Original(s)' = Original(s)
                               /\ Adjustment(s)' <=> Adjustment(s)
                               /\ Ledger!Ledger(s)' = Ledger!Ledger(s)
        BY <2>4 DEF vars, Moves, Halfway, Posts, Adjusts, Original, Adjustment, Ledger!Ledger, Ledger!Sees
      <4>2. LedgerTypes'
        BY <2>4, <3>1, <4>1 DEF vars, LedgerInv, LedgerTypes
      <4>3. TwiceInv'
        BY <2>4, <3>1, <4>1 DEF vars, LedgerInv, TwiceInv
      <4>4. ExcessInv'
        BY <2>4, <3>1, <4>1 DEF vars, LedgerInv, ExcessInv
      <4> QED
        BY <4>2, <4>3, <4>4 DEF LedgerInv
    <3>2. ASSUME ClaimInv PROVE ClaimInv'
      <4>1. ClaimCopies'
        BY <2>4, <3>2 DEF vars, ClaimInv, ClaimCopies, ClaimCopy, Claim!Sees
      <4> QED
        BY <2>4, <3>2, <4>1 DEF vars, ClaimInv, ClaimTypes, ClaimTotals, ClaimDates, Adding
    <3> QED
      BY <2>4, <3>1, <3>2 DEF TotalsInv, vars
  <2> QED
    BY <2>1, <2>2, <2>3, <2>4 DEF Next
<1> QED
  BY <1>1, <1>2, PTL DEF Spec

\* corrections, travel and compensation: every account adds up to the rows that
\* stand, as long as no row is adjusted twice, and reclassify_excess never moves
\* more than the excess over the cap, unless two runs overlap or pay was reduced
\* (AdjustmentsStand).
THEOREM AdjustmentsAlwaysStand == Spec => []AdjustmentsStand
<1>1. TotalsInv => AdjustmentsStand
  BY LedgerStands DEF TotalsInv, AdjustmentsStand
<1> QED
  BY <1>1, TotalsInductive, PTL

\* rea_cda: the totals are the sums of all line items, whichever session added
\* them, and what certification_test and record_co_receipt left on the action fits
\* its items, unless items came later or a call worked on a stale copy
\* (ClaimFitsItems).
THEOREM ClaimAlwaysFitsItems == Spec => []ClaimFitsItems
<1>1. TotalsInv => ClaimFitsItems
  BY ClaimStands DEF TotalsInv, ClaimFitsItems
<1> QED
  BY <1>1, TotalsInductive, PTL

\* generate_certification: behind a certificate stands a report that counts each
\* overstated assumption against each posting once, unless something was entered
\* after the sweep or sweeps raced (CertificateHoldsReport).
THEOREM CertificateAlwaysHoldsReport == Spec => []CertificateHoldsReport
<1>1. ServicesInv => CertificateHoldsReport
  <2> SUFFICES ASSUME TinaInv, db["baseline"].certified, history = [raced |-> FALSE, late |-> FALSE]
               PROVE  Tina!sweep_delta_report(db) =
                        [flagged_count |-> Tina!Cardinality(Tina!Exposed(db)),
                         total |-> Tina!SumFunction([p \in Tina!Exposed(db) |->
                                                        BaselineValue[p[1]] - PostingAmount[p[2]]])]
    BY DEF ServicesInv, CertificateHoldsReport, Tina!CertificateHoldsReport
  <2>1. Reported(db)
    BY DEF TinaInv, CertifiesSwept, SweepReports
  <2> QED
    BY <2>1, ReportCounts
<1> QED
  BY <1>1, ServicesInductive, PTL
=============================================================================
