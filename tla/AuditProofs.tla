----------------------------- MODULE AuditProofs -----------------------------
(***************************************************************************)
(* Proofs about AuditChain and AuditTamper, for any sets of sessions,      *)
(* records, columns and values, either backend and any number of audit     *)
(* rows.  First the type invariant, that verify_audit_chain always         *)
(* succeeds, and that the committed trail implements an append-only log;   *)
(* then that replaying the trail gives the data and that a deadlock needs  *)
(* a transaction that flushes twice; then that one edit of the table is    *)
(* found, and that the first bad row is reported for ever after, whatever  *)
(* transactions follow the edit.                                           *)
(***************************************************************************)
EXTENDS AuditTamper, WellFoundedInduction, TLAPS

-----------------------------------------------------------------------------
(* The inductive invariant *)

\* What a set of audit rows that verifies looks like: distinct numbers, a
\* last row, every row linked to the one before it and, on SQLite, no gaps.
HasLast(rows) == rows # {} => \E row \in rows : IsLast(row, rows)
Distinct(rows) == \A a, b \in rows : a.trail_id = b.trail_id => a = b
NoGap(rows, dialect) == dialect = "sqlite" =>
    \A row \in rows : \A id \in 1 .. row.trail_id : \E r \in rows : r.trail_id = id
Shape(rows) == (\A row \in rows : RowOK(row)) /\ HasLast(rows) /\ Distinct(rows)
Good(rows, dialect) ==
    /\ Shape(rows)
    /\ \A row \in rows : Links(row, rows)
    /\ NoGap(rows, dialect)

\* Whoever reads the last hash or has rows to commit holds the lock.
LockInv ==
    \A s \in Session :
        phase[s] \in {"read", "append"} \/ staged[s] # {} => chainLock = s

\* A transaction's rows are its own and come after every committed row.
OrderInv ==
    \A s \in Session : \A row \in staged[s] :
        /\ row.user_id = s
        /\ \A old \in trail : old.trail_id < row.trail_id

\* PostgreSQL's sequence is ahead of every number in use.
SequenceInv ==
    backend = "postgresql" =>
        \A s \in Session : \A row \in VisibleTrail(s) : row.trail_id < nextval

\* The listener's prev is the last hash its transaction sees.
ListenerInv ==
    \A s \in Session : phase[s] = "append" => last[s] = LastHash(VisibleTrail(s))

\* The sets of audit rows anybody sees, and that they can be numbered.
Views == {trail} \union {VisibleTrail(s) : s \in Session}
ShapeInv == \A rows \in Views : Shape(rows)

\* What a session needs to go on writing, whether the trail verifies or not.
BaseInv == /\ TypeOK
           /\ LockInv
           /\ OrderInv
           /\ SequenceInv
           /\ ListenerInv
           /\ ShapeInv

ChainInv == \A rows \in Views : Good(rows, backend)

IInv == BaseInv /\ ChainInv

-----------------------------------------------------------------------------
(* Sets of audit rows *)

\* The listener's query has one answer: the row with the highest number.
LEMMA LastRow ==
    ASSUME NEW rows, Shape(rows), NEW row \in rows, IsLast(row, rows)
    PROVE  TopId(rows) = row.trail_id /\ LastHash(rows) = row.entry_hash
<1>1. PICK chosen : chosen = CHOOSE r \in rows : IsLast(r, rows)
  OBVIOUS
<1>2. chosen \in rows /\ IsLast(chosen, rows)
  BY <1>1
<1>3. chosen.trail_id = row.trail_id
  BY <1>2 DEF IsLast, RowOK, Shape
<1>4. chosen = row
  BY <1>2, <1>3 DEF Distinct, Shape
<1> QED
  BY <1>1, <1>4 DEF TopId, LastHash

\* The number SQLite derives the next one from is a number.
LEMMA TopIdNat ==
    ASSUME NEW rows, Shape(rows)
    PROVE  TopId(rows) \in Nat /\ \A row \in rows : row.trail_id <= TopId(rows)
<1>1. CASE rows = {}
  BY <1>1 DEF TopId
<1>2. CASE rows # {}
  <2>1. PICK top \in rows : IsLast(top, rows)
    BY <1>2 DEF Shape, HasLast
  <2>2. TopId(rows) = top.trail_id
    BY <2>1, LastRow
  <2> QED
    BY <2>1, <2>2 DEF Shape, RowOK, IsLast
<1> QED
  BY <1>1, <1>2

\* A well-formed trail is one verify_audit_chain accepts.
LEMMA GoodVerifies ==
    ASSUME NEW rows, Good(rows, backend)
    PROVE  verify_audit_chain(rows) = <<TRUE, 0>>
<1>1. Broken(rows) = {}
  BY DEF Broken, TrailIds, Good
<1>2. Gaps(rows) = {}
  <2>1. CASE backend = "sqlite" /\ rows # {}
    <3>1. PICK top \in rows : IsLast(top, rows)
      BY <2>1 DEF Good, Shape, HasLast
    <3>2. TopId(rows) = top.trail_id
      BY <3>1, LastRow DEF Good
    <3>3. \A id \in 1 .. top.trail_id : \E r \in rows : r.trail_id = id
      BY <2>1, <3>1 DEF Good, NoGap
    <3> QED
      BY <3>2, <3>3 DEF Gaps, TrailIds
  <2>2. CASE rows = {}
    BY <2>2 DEF Gaps, TopId
  <2>3. CASE backend # "sqlite"
    BY <2>3 DEF Gaps
  <2> QED
    BY <2>1, <2>2, <2>3
<1> QED
  BY <1>1, <1>2 DEF verify_audit_chain

\* rows is old with the row the listener adds to it: a number behind all
\* others, and the last hash.
Follows(row, old) ==
    /\ row.trail_id \in Nat \ {0}
    /\ row.change \in Change
    /\ row.user_id \in Session
    /\ \A r \in old : r.trail_id < row.trail_id
    /\ backend = "sqlite" => row.trail_id = TopId(old) + 1
    /\ row = audit_row(row.trail_id, row.change, row.user_id, LastHash(old))
Appended(rows, old) == \E row : Follows(row, old) /\ rows = old \union {row}

\* The row added last is the one the next listener reads.
LEMMA AppendKeepsShape ==
    ASSUME NEW old, Shape(old), NEW row, Follows(row, old)
    PROVE  /\ Shape(old \union {row})
           /\ IsLast(row, old \union {row})
           /\ LastHash(old \union {row}) = row.entry_hash
           /\ TopId(old \union {row}) = row.trail_id
<1>1. \A r \in old \union {row} : RowOK(r)
  BY DEF Follows, RowOK, Shape, audit_row
<1>2. IsLast(row, old \union {row})
  BY <1>1 DEF IsLast, Follows, RowOK
<1>3. Distinct(old \union {row})
  BY <1>1 DEF Distinct, Shape, Follows, RowOK
<1>4. Shape(old \union {row})
  BY <1>1, <1>2, <1>3 DEF Shape, HasLast
<1> QED
  BY <1>2, <1>4, LastRow

\* The rows before an older row, and so its link, are not disturbed; the new
\* row comes after all of them.
LEMMA AppendKeepsLinks ==
    ASSUME NEW old, Shape(old), NEW row, Follows(row, old)
    PROVE  /\ \A r \in old : Before(r, old \union {row}) = Before(r, old)
           /\ \A r \in old : Links(r, old \union {row}) <=> Links(r, old)
           /\ Before(row, old \union {row}) = old
           /\ row.entry_hash = <<row.change, row.user_id, LastHash(old)>>
           /\ row.previous_entry_hash = LastHash(old)
           /\ Links(row, old \union {row})
<1>1. \A r \in old \union {row} : RowOK(r)
  BY DEF Follows, RowOK, Shape, audit_row
<1>2. \A r \in old : Before(r, old \union {row}) = Before(r, old)
  BY <1>1 DEF Before, Follows, RowOK
<1>3. Before(row, old \union {row}) = old
  BY <1>1 DEF Before, Follows, RowOK
<1>4. /\ row.previous_entry_hash = LastHash(old)
      /\ row.entry_hash = compute_entry_hash(row.change, row.user_id, LastHash(old))
  BY DEF Follows, audit_row
<1>5. Links(row, old \union {row})
  BY <1>3, <1>4 DEF Links
<1> QED
  BY <1>2, <1>3, <1>4, <1>5 DEF Links, compute_entry_hash

\* The heart of write_audit_rows: a row that carries the last hash and a
\* number of its own behind all others keeps the trail well formed.
LEMMA AppendKeepsGood ==
    ASSUME NEW old, Good(old, backend), NEW rows, Appended(rows, old)
    PROVE  Good(rows, backend)
<1>1. Shape(old)
  BY DEF Good
<1>2. PICK new : Follows(new, old) /\ rows = old \union {new}
  BY DEF Appended
<1>3. Shape(rows)
  BY <1>1, <1>2, AppendKeepsShape
<1>4. \A row \in rows : Links(row, rows)
  <2>1. \A r \in old : Links(r, old)
    BY DEF Good
  <2>2. /\ \A r \in old : Links(r, old \union {new}) <=> Links(r, old)
        /\ Links(new, old \union {new})
    BY <1>1, <1>2, AppendKeepsLinks
  <2> QED
    BY <1>2, <2>1, <2>2
<1>5. NoGap(rows, backend)
  <2> SUFFICES ASSUME backend = "sqlite",
                      NEW row \in rows, NEW n \in 1 .. row.trail_id
               PROVE  \E r \in rows : r.trail_id = n
    BY DEF NoGap
  <2>1. CASE n = new.trail_id
    BY <2>1, <1>2
  <2>2. CASE n # new.trail_id
    <3>1. n \in 1 .. TopId(old)
      BY <2>2, <1>1, <1>2, TopIdNat DEF RowOK, Shape, Follows
    <3>2. PICK top \in old : IsLast(top, old)
      BY <3>1 DEF TopId, Good, Shape, HasLast
    <3>3. TopId(old) = top.trail_id
      BY <3>2, <1>1, LastRow
    <3> QED
      BY <3>1, <3>2, <3>3, <1>2 DEF Good, NoGap
  <2> QED
    BY <2>1, <2>2
<1> QED
  BY <1>3, <1>4, <1>5 DEF Good

-----------------------------------------------------------------------------
(* Type correctness *)

\* All state starts with its type.
LEMMA TypeInit == Init => TypeOK
<1> SUFFICES ASSUME Init PROVE TypeOK
  OBVIOUS
<1>1. db \in [Record -> RowValue]
  BY SeedAssumption DEF Init, RowValue
<1> QED
  BY <1>1 DEF Init, TypeOK, Phase

\* The next trail_id is a positive number: on SQLite because the trail a
\* session sees has a last row.
LEMMA NextIdPositive ==
    ASSUME BaseInv, NEW s \in Session
    PROVE  /\ NextId(s) \in Nat \ {0}
           /\ \A row \in VisibleTrail(s) : row.trail_id < NextId(s)
<1>0. Shape(VisibleTrail(s))
  BY DEF BaseInv, ShapeInv, Views
<1>1. TopId(VisibleTrail(s)) \in Nat
      /\ \A row \in VisibleTrail(s) : row.trail_id <= TopId(VisibleTrail(s))
  BY <1>0, TopIdNat
<1>2. \A row \in VisibleTrail(s) : row.trail_id \in Nat
  BY <1>0 DEF Shape, RowOK
<1>3. CASE backend = "postgresql"
  BY <1>3, <1>2 DEF NextId, BaseInv, SequenceInv, TypeOK
<1>4. CASE backend # "postgresql"
  BY <1>4, <1>1, <1>2 DEF NextId
<1> QED
  BY <1>3, <1>4

\* Every step keeps the types.
LEMMA TypeStep == BaseInv /\ [Next]_vars => TypeOK'
<1> SUFFICES ASSUME BaseInv, [Next]_vars PROVE TypeOK'
  OBVIOUS
<1>0. TypeOK
  BY DEF BaseInv
<1> USE <1>0
<1>1. ASSUME NEW s \in Session, NEW r \in Record, Load(s, r) PROVE TypeOK'
  <2>1. VisibleRow(s, r) \in RowValue
    BY DEF TypeOK, VisibleRow
  <2> QED
    BY <1>1, <2>1 DEF Load, TypeOK, chain
<1>2. ASSUME NEW s \in Session, Close(s) PROVE TypeOK'
  BY <1>2 DEF Close, TypeOK, chain
<1>3. ASSUME NEW s \in Session, Flush(s) PROVE TypeOK'
  <2>1. PICK changes \in SUBSET {c \in Change : c.old = cache[s][c.rec] /\ Changed(c) # {}} :
          /\ todo' = [todo EXCEPT ![s] = changes]
          /\ cache' = [cache EXCEPT ![s] = [r \in Record |->
                          IF \E c \in changes : c.rec = r
                          THEN (CHOOSE c \in changes : c.rec = r).new
                          ELSE cache[s][r]]]
    BY <1>3 DEF Flush
  <2>2. todo' \in [Session -> SUBSET Change]
    BY <2>1 DEF TypeOK
  <2>3. cache' \in [Session -> [Record -> RowValue \union {NotLoaded}]]
    <3>1. ASSUME NEW r \in Record, \E c \in changes : c.rec = r
          PROVE  (CHOOSE c \in changes : c.rec = r).new \in RowValue
      <4>1. (CHOOSE c \in changes : c.rec = r) \in changes
        BY <3>1
      <4> QED
        BY <4>1 DEF Change
    <3> QED
      BY <2>1, <3>1 DEF TypeOK
  <2>4. phase' \in [Session -> Phase]
    BY <1>3 DEF Flush, TypeOK, Phase
  <2> QED
    BY <1>3, <2>2, <2>3, <2>4 DEF Flush, TypeOK, chain
<1>4. ASSUME NEW s \in Session, Statement(s) PROVE TypeOK'
  <2>1. PICK c \in todo[s] :
          /\ rowLock' = [rowLock EXCEPT ![c.rec] = s]
          /\ store' = [store EXCEPT ![c.rec] = [k \in Column |->
                          IF k \in Changed(c) THEN c.new[k] ELSE store[c.rec][k]]]
          /\ todo' = [todo EXCEPT ![s] = @ \ {c}]
          /\ unlogged' = [unlogged EXCEPT ![s] = @ \union {c}]
          /\ phase' = [phase EXCEPT ![s] =
                          IF todo[s] # {c} THEN "dml"
                          ELSE IF backend = "postgresql" THEN "lock" ELSE "read"]
    BY <1>4 DEF Statement
  <2>2. c \in Change /\ c.rec \in Record /\ c.new \in RowValue
    BY <2>1 DEF TypeOK, Change
  <2>3. rowLock' \in [Record -> Session \union {NoSession}]
    BY <2>1, <2>2 DEF TypeOK
  <2>4. store' \in [Record -> RowValue]
    <3>1. store[c.rec] \in RowValue
      BY <2>2 DEF TypeOK
    <3>2. [k \in Column |-> IF k \in Changed(c) THEN c.new[k] ELSE store[c.rec][k]] \in RowValue
      BY <2>2, <3>1 DEF RowValue
    <3> QED
      BY <2>1, <2>2, <3>2 DEF TypeOK
  <2>5. /\ todo' \in [Session -> SUBSET Change]
        /\ unlogged' \in [Session -> SUBSET Change]
    BY <2>1, <2>2 DEF TypeOK
  <2>6. phase' \in [Session -> Phase]
    BY <2>1 DEF TypeOK, Phase
  <2>7. chainLock' \in Session \union {NoSession}
    BY <1>4 DEF Statement, TypeOK
  <2> QED
    BY <1>4, <2>3, <2>4, <2>5, <2>6, <2>7 DEF Statement, TypeOK
<1>5. ASSUME NEW s \in Session, LockChain(s) PROVE TypeOK'
  BY <1>5 DEF LockChain, TypeOK, data, Phase
<1>6. ASSUME NEW s \in Session, ReadLast(s) PROVE TypeOK'
  BY <1>6 DEF ReadLast, TypeOK, data, chain, Phase
<1>7. ASSUME NEW s \in Session, AppendRow(s) PROVE TypeOK'
  <2>1. PICK c \in unlogged[s] :
          /\ staged' = [staged EXCEPT ![s] = @ \union {audit_row(NextId(s), c, s, last[s])}]
          /\ unlogged' = [unlogged EXCEPT ![s] = @ \ {c}]
          /\ phase' = [phase EXCEPT ![s] = IF unlogged[s] = {c} THEN "open" ELSE "append"]
    BY <1>7 DEF AppendRow
  <2>2. RowOK(audit_row(NextId(s), c, s, last[s]))
    BY <2>1, NextIdPositive DEF RowOK, audit_row, TypeOK
  <2>3. DOMAIN staged' = Session /\ \A t \in Session : \A row \in staged'[t] : RowOK(row)
    BY <2>1, <2>2 DEF TypeOK
  <2>4. DOMAIN last' = Session
    BY <1>7 DEF AppendRow, TypeOK
  <2>5. unlogged' \in [Session -> SUBSET Change] /\ phase' \in [Session -> Phase]
    BY <2>1 DEF TypeOK, Phase
  <2>6. nextval' \in Nat \ {0}
    BY <1>7 DEF AppendRow, TypeOK
  <2> QED
    BY <1>7, <2>3, <2>4, <2>5, <2>6 DEF AppendRow, TypeOK, RowOK, data
<1>8. ASSUME NEW s \in Session, Commit(s) PROVE TypeOK'
  <2>1. db' \in [Record -> RowValue]
    BY <1>8 DEF Commit, TypeOK
  <2>2. \A row \in trail' : RowOK(row)
    BY <1>8 DEF Commit, TypeOK
  <2>3. DOMAIN staged' = Session /\ \A t \in Session : \A row \in staged'[t] : RowOK(row)
    BY <1>8 DEF Commit, Release, TypeOK
  <2> QED
    BY <1>8, <2>1, <2>2, <2>3 DEF Commit, Release, TypeOK, Phase, RowOK
<1>9. ASSUME NEW s \in Session, Rollback(s) PROVE TypeOK'
  <2>1. store' \in [Record -> RowValue]
    BY <1>9 DEF Rollback, TypeOK
  <2>2. DOMAIN staged' = Session /\ \A t \in Session : \A row \in staged'[t] : RowOK(row)
    BY <1>9 DEF Rollback, Release, TypeOK
  <2>3. /\ todo' \in [Session -> SUBSET Change]
        /\ unlogged' \in [Session -> SUBSET Change]
        /\ DOMAIN last' = Session
    BY <1>9 DEF Rollback, TypeOK
  <2>4. cache' \in [Session -> [Record -> RowValue \union {NotLoaded}]]
    BY <1>9 DEF Rollback, TypeOK
  <2> QED
    BY <1>9, <2>1, <2>2, <2>3, <2>4 DEF Rollback, Release, TypeOK, Phase, RowOK
<1>10. CASE UNCHANGED vars
  BY <1>10 DEF vars, TypeOK, RowOK
<1> QED
  BY <1>1, <1>2, <1>3, <1>4, <1>5, <1>6, <1>7, <1>8, <1>9, <1>10 DEF Next

-----------------------------------------------------------------------------
(* What a session needs to go on writing *)

\* An empty trail is well formed and ends in the genesis hash.
LEMMA EmptyGood == Good({}, backend) /\ LastHash({}) = Genesis
  BY DEF Good, Shape, HasLast, Distinct, NoGap, LastHash

\* The invariant holds at the start.
LEMMA BaseInit == Init => BaseInv /\ ChainInv
<1> SUFFICES ASSUME Init PROVE BaseInv /\ ChainInv
  OBVIOUS
<1>1. trail = {} /\ \A s \in Session : staged[s] = {} /\ phase[s] = "idle"
  BY DEF Init
<1>2. \A rows \in Views : rows = {}
  BY <1>1 DEF Views, VisibleTrail
<1>3. LockInv /\ OrderInv /\ ListenerInv
  BY <1>1 DEF LockInv, OrderInv, ListenerInv
<1>4. SequenceInv
  BY <1>2 DEF SequenceInv, Views
<1>5. ShapeInv /\ ChainInv
  BY <1>2, EmptyGood DEF ShapeInv, ChainInv, Good
<1> QED
  BY <1>3, <1>4, <1>5, TypeInit DEF BaseInv

\* What a step does to the sets of rows that anybody sees: none, or one more
\* row of the session that holds the lock.
ViewsGrow == \A rows \in Views' : \E old \in Views : rows = old \/ Appended(rows, old)

\* A step that adds no rows leaves every view of the trail.
LEMMA SameViews ==
    ASSUME trail' = trail, staged' = staged
    PROVE  Views' = Views /\ \A s \in Session : VisibleTrail(s)' = VisibleTrail(s)
<1>1. \A s \in Session : VisibleTrail(s)' = VisibleTrail(s)
  BY DEF VisibleTrail
<1> QED
  BY <1>1 DEF Views

\* A step that writes no audit row and ends no transaction keeps what the
\* sessions need, if it keeps the lock where a session depends on it.
Writable == LockInv /\ OrderInv /\ SequenceInv /\ ListenerInv

\* A step that adds no rows keeps what the views are good for.
LEMMA Untouched ==
    ASSUME BaseInv, backend' = backend, trail' = trail, staged' = staged, nextval' = nextval,
           LockInv',
           \A s \in Session : phase'[s] = "append" => last'[s] = LastHash(VisibleTrail(s))
    PROVE  Writable' /\ ViewsGrow
<1>1. Views' = Views /\ \A s \in Session : VisibleTrail(s)' = VisibleTrail(s)
  BY SameViews
<1>2. OrderInv' /\ SequenceInv' /\ ListenerInv'
  BY <1>1 DEF BaseInv, OrderInv, SequenceInv, ListenerInv
<1> QED
  BY <1>1, <1>2 DEF Writable, ViewsGrow

\* Every step keeps trails writable, and views only grow.
LEMMA WritableStep == BaseInv /\ [Next]_vars => Writable' /\ ViewsGrow
<1> SUFFICES ASSUME BaseInv, [Next]_vars PROVE Writable' /\ ViewsGrow
  OBVIOUS
<1>0. TypeOK /\ LockInv /\ OrderInv /\ SequenceInv /\ ListenerInv /\ ShapeInv
  BY DEF BaseInv
<1>b. backend' = backend
  BY DEF Next, vars, Load, Close, Flush, Statement, LockChain, ReadLast, AppendRow, Commit, Rollback
<1> USE <1>0, <1>b
<1>1. ASSUME NEW s \in Session, NEW r \in Record, Load(s, r) PROVE Writable' /\ ViewsGrow
  BY <1>1, Untouched DEF Load, chain, LockInv, ListenerInv
<1>2. ASSUME NEW s \in Session, Close(s) PROVE Writable' /\ ViewsGrow
  BY <1>2, Untouched DEF Close, chain, LockInv, ListenerInv
<1>3. ASSUME NEW s \in Session, Flush(s) PROVE Writable' /\ ViewsGrow
  BY <1>3, Untouched DEF Flush, chain, LockInv, ListenerInv, TypeOK
<1>4. ASSUME NEW s \in Session, Statement(s) PROVE Writable' /\ ViewsGrow
  <2>1. \A t \in Session : t # s => phase'[t] = phase[t]
    BY <1>4 DEF Statement, TypeOK
  <2>2. phase'[s] \in {"dml", "lock", "read"} /\ (phase'[s] = "read" => chainLock' = s)
    BY <1>4 DEF Statement, TypeOK
  <2>3. chainLock' = chainLock \/ (chainLock \in {NoSession, s} /\ chainLock' = s)
    BY <1>4 DEF Statement, LockFree
  <2>4. LockInv'
    BY <1>4, <2>1, <2>2, <2>3, SessionAssumption DEF LockInv, Statement
  <2> QED
    BY <1>4, <2>1, <2>2, <2>4, Untouched DEF Statement, ListenerInv
<1>5. ASSUME NEW s \in Session, LockChain(s) PROVE Writable' /\ ViewsGrow
  <2>1. LockInv'
    BY <1>5, SessionAssumption DEF LockChain, LockFree, LockInv, TypeOK
  <2> QED
    BY <1>5, <2>1, Untouched DEF LockChain, ListenerInv, TypeOK
<1>6. ASSUME NEW s \in Session, ReadLast(s) PROVE Writable' /\ ViewsGrow
  <2>1. LockInv'
    BY <1>6 DEF ReadLast, LockInv, TypeOK, chain
  <2>2. \A t \in Session : phase'[t] = "append" => last'[t] = LastHash(VisibleTrail(t))
    BY <1>6 DEF ReadLast, ListenerInv, TypeOK
  <2> QED
    BY <1>6, <2>1, <2>2, Untouched DEF ReadLast, chain
<1>7. ASSUME NEW s \in Session, AppendRow(s) PROVE Writable' /\ ViewsGrow
  <2>0. PICK c \in unlogged[s] :
          /\ staged' = [staged EXCEPT ![s] = @ \union {audit_row(NextId(s), c, s, last[s])}]
          /\ last' = [last EXCEPT ![s] = IF unlogged[s] = {c} THEN Genesis
                               ELSE audit_row(NextId(s), c, s, last[s]).entry_hash]
          /\ phase' = [phase EXCEPT ![s] = IF unlogged[s] = {c} THEN "open" ELSE "append"]
    BY <1>7 DEF AppendRow
  <2>1. PICK new : new = audit_row(NextId(s), c, s, last[s])
    OBVIOUS
  <2>2. /\ phase[s] = "append" /\ chainLock' = chainLock /\ trail' = trail
        /\ nextval' = IF backend = "postgresql" THEN nextval + 1 ELSE nextval
        /\ c \in Change
    BY <1>7, <2>0 DEF AppendRow, TypeOK
  <2>3. /\ NextId(s) \in Nat \ {0}
        /\ \A r \in VisibleTrail(s) : r.trail_id < NextId(s)
        /\ backend = "sqlite" => NextId(s) = TopId(VisibleTrail(s)) + 1
        /\ backend = "postgresql" => NextId(s) = nextval
    BY NextIdPositive DEF NextId
  <2>4. last[s] = LastHash(VisibleTrail(s)) /\ chainLock = s
    BY <2>2 DEF ListenerInv, LockInv
  <2>5. new.trail_id = NextId(s) /\ new.user_id = s /\ new.change = c
    BY <2>1 DEF audit_row
  <2>6. Follows(new, VisibleTrail(s))
    BY <2>1, <2>2, <2>3, <2>4, <2>5 DEF Follows
  <2>7. /\ VisibleTrail(s)' = VisibleTrail(s) \union {new}
        /\ \A t \in Session : t # s => VisibleTrail(t)' = VisibleTrail(t)
    BY <2>0, <2>1, <2>2 DEF VisibleTrail, TypeOK
  <2>8. LastHash(VisibleTrail(s) \union {new}) = new.entry_hash
    BY <2>6, AppendKeepsShape DEF ShapeInv, Views
  <2>9. LockInv'
    BY <2>0, <2>2, <2>4 DEF LockInv, TypeOK
  <2>10. OrderInv'
    BY <2>0, <2>1, <2>2, <2>3, <2>5 DEF OrderInv, TypeOK, VisibleTrail
  <2>11. SequenceInv'
    <3> SUFFICES ASSUME backend = "postgresql", NEW t \in Session, NEW r \in VisibleTrail(t)'
                 PROVE  r.trail_id < nextval'
      BY DEF SequenceInv
    <3>1. nextval' = nextval + 1 /\ NextId(s) = nextval /\ nextval \in Nat
      BY <2>2, <2>3 DEF TypeOK
    <3>2. CASE r \in VisibleTrail(t)
      <4>1. r.trail_id \in Nat /\ r.trail_id < nextval
        BY <3>2 DEF SequenceInv, ShapeInv, Views, Shape, RowOK
      <4> QED
        BY <4>1, <3>1
    <3>3. CASE r = new
      BY <3>3, <3>1, <2>5
    <3> QED
      BY <2>7, <3>2, <3>3
  <2>12. ListenerInv'
    <3>1. ASSUME NEW t \in Session, phase'[t] = "append", t # s
          PROVE  last'[t] = LastHash(VisibleTrail(t)')
      <4>1. phase[t] = "append" /\ last'[t] = last[t]
        BY <3>1, <2>0 DEF TypeOK
      <4> QED
        BY <3>1, <4>1, <2>7 DEF ListenerInv
    <3>2. phase'[s] = "append" => last'[s] = LastHash(VisibleTrail(s)')
      BY <2>0, <2>1, <2>7, <2>8 DEF TypeOK
    <3> QED
      BY <3>1, <3>2 DEF ListenerInv
  <2>13. ViewsGrow
    <3> SUFFICES ASSUME NEW rows \in Views'
                 PROVE  \E old \in Views : rows = old \/ Appended(rows, old)
      BY DEF ViewsGrow
    <3>1. rows = trail \/ \E t \in Session : rows = VisibleTrail(t)'
      BY <2>2 DEF Views
    <3>2. ASSUME rows = VisibleTrail(s)'
          PROVE  Appended(rows, VisibleTrail(s))
      BY <2>6, <2>7, <3>2 DEF Appended
    <3> QED
      BY <2>7, <3>1, <3>2 DEF Views
  <2> QED
    BY <2>9, <2>10, <2>11, <2>12, <2>13 DEF Writable
<1>8. ASSUME NEW s \in Session, Commit(s) PROVE Writable' /\ ViewsGrow
  <2>1. /\ trail' = VisibleTrail(s)
        /\ staged' = [staged EXCEPT ![s] = {}]
        /\ phase' = [phase EXCEPT ![s] = "idle"]
        /\ chainLock' = IF chainLock = s THEN NoSession ELSE chainLock
        /\ last' = last /\ nextval' = nextval
    BY <1>8 DEF Commit, Release, VisibleTrail
  <2>2. ASSUME NEW t \in Session, t # s, staged[s] # {}
        PROVE  staged[t] = {} /\ phase[t] # "append"
    BY <2>2 DEF LockInv
  <2>3. staged[s] = {} => trail' = trail
    BY <2>1 DEF VisibleTrail
  <2>4. \A t \in Session : VisibleTrail(t)' \in {VisibleTrail(s), VisibleTrail(t)}
    BY <2>1, <2>2 DEF VisibleTrail, TypeOK
  <2>5. LockInv'
    BY <2>1, SessionAssumption DEF LockInv, TypeOK
  <2>6. OrderInv'
    BY <2>1, <2>2, <2>3 DEF OrderInv, TypeOK
  <2>7. SequenceInv'
    BY <2>1, <2>4 DEF SequenceInv
  <2>8. ListenerInv'
    <3>1. ASSUME NEW t \in Session, phase'[t] = "append" PROVE last'[t] = LastHash(VisibleTrail(t)')
      <4>1. t # s /\ phase[t] = "append" /\ staged'[t] = staged[t]
        BY <3>1, <2>1 DEF TypeOK
      <4>2. VisibleTrail(t)' = VisibleTrail(t)
        BY <4>1, <2>2, <2>3 DEF VisibleTrail
      <4> QED
        BY <4>1, <4>2, <2>1 DEF ListenerInv
    <3> QED
      BY <3>1 DEF ListenerInv
  <2>9. ViewsGrow
    BY <2>1, <2>4 DEF ViewsGrow, Views
  <2> QED
    BY <2>5, <2>6, <2>7, <2>8, <2>9 DEF Writable
<1>9. ASSUME NEW s \in Session, Rollback(s) PROVE Writable' /\ ViewsGrow
  <2>1. /\ trail' = trail
        /\ staged' = [staged EXCEPT ![s] = {}]
        /\ phase' = [phase EXCEPT ![s] = "idle"]
        /\ chainLock' = IF chainLock = s THEN NoSession ELSE chainLock
        /\ last' = [last EXCEPT ![s] = Genesis] /\ nextval' = nextval
    BY <1>9 DEF Rollback, Release
  <2>2. /\ VisibleTrail(s)' = trail
        /\ \A t \in Session : t # s => VisibleTrail(t)' = VisibleTrail(t)
    BY <2>1 DEF VisibleTrail, TypeOK
  <2>3. LockInv'
    BY <2>1, SessionAssumption DEF LockInv, TypeOK
  <2>4. OrderInv'
    BY <2>1 DEF OrderInv, TypeOK
  <2>5. SequenceInv'
    BY <2>1, <2>2 DEF SequenceInv, VisibleTrail
  <2>6. ListenerInv'
    BY <2>1, <2>2 DEF ListenerInv, TypeOK
  <2>7. ViewsGrow
    BY <2>1, <2>2 DEF ViewsGrow, Views
  <2> QED
    BY <2>3, <2>4, <2>5, <2>6, <2>7 DEF Writable
<1>10. CASE UNCHANGED vars
  BY <1>10, Untouched DEF vars, LockInv, ListenerInv
<1> QED
  BY <1>1, <1>2, <1>3, <1>4, <1>5, <1>6, <1>7, <1>8, <1>9, <1>10 DEF Next

\* Every step keeps the base of the invariant, and views only grow.
LEMMA BaseStep == BaseInv /\ [Next]_vars => BaseInv' /\ ViewsGrow
<1> SUFFICES ASSUME BaseInv, [Next]_vars PROVE BaseInv' /\ ViewsGrow
  OBVIOUS
<1>1. TypeOK' /\ Writable' /\ ViewsGrow
  BY TypeStep, WritableStep
<1>2. ASSUME NEW rows \in Views' PROVE Shape(rows)
  <2>1. PICK old \in Views : rows = old \/ Appended(rows, old)
    BY <1>1 DEF ViewsGrow
  <2>2. Shape(old)
    BY DEF BaseInv, ShapeInv
  <2> QED
    BY <2>1, <2>2, AppendKeepsShape DEF Appended
<1>3. ShapeInv'
  BY <1>2 DEF ShapeInv, Shape, HasLast, Distinct, IsLast, RowOK
<1> QED
  BY <1>1, <1>3 DEF BaseInv, Writable

\* The chain itself.
LEMMA ChainStep == IInv /\ [Next]_vars => ChainInv'
<1> SUFFICES ASSUME IInv, [Next]_vars, NEW rows \in Views' PROVE Good(rows, backend)'
  BY DEF ChainInv
<1>1. ViewsGrow
  BY BaseStep DEF IInv
<1>2. PICK old \in Views : rows = old \/ Appended(rows, old)
  BY <1>1 DEF ViewsGrow
<1>3. Good(old, backend)
  BY DEF IInv, ChainInv
<1>4. Good(rows, backend)
  BY <1>2, <1>3, AppendKeepsGood
<1>5. backend' = backend
  BY DEF Next, vars, Load, Close, Flush, Statement, LockChain, ReadLast, AppendRow, Commit, Rollback
<1> QED
  BY <1>4, <1>5

-----------------------------------------------------------------------------
(* The theorems *)

\* The invariant everything rests on: the lock, the numbering, the listener's
\* local variable and the shape of every visible trail.
THEOREM InductiveInvariant == Spec => []IInv
<1>1. Init => IInv
  BY BaseInit DEF IInv
<1>2. IInv /\ [Next]_vars => IInv'
  BY BaseStep, ChainStep DEF IInv
<1> QED
  BY <1>1, <1>2, PTL DEF Spec

\* write_audit_rows' bookkeeping, the identity maps, the locks and the trail
\* keep their types: TopId needs a last row, so this rests on IInv.
THEOREM TypeCorrect == Spec => []TypeOK
<1>1. IInv => TypeOK
  BY DEF IInv, BaseInv
<1> QED
  BY <1>1, InductiveInvariant, PTL

\* verify_audit_chain succeeds whenever any session calls it, however many
\* sessions write concurrently on either backend.
THEOREM ChainAlwaysVerifies == Spec => []ChainVerifies
<1>1. IInv => ChainVerifies
  BY GoodVerifies DEF IInv, ChainInv, Views, ChainVerifies
<1> QED
  BY <1>1, InductiveInvariant, PTL

\* The trail implements the append-only log: rows are neither changed nor
\* removed, and a commit adds one session's rows behind all the others.
THEOREM TrailAppendsOnly == Spec => AppendsOnly
<1>1. Init => Log!Init
  BY DEF Init, Log!Init
<1>2. IInv /\ [Next]_vars => [Log!AppendBatch]_trail
  <2> SUFFICES ASSUME IInv, [Next]_vars, trail' # trail PROVE Log!AppendBatch
    OBVIOUS
  <2>1. PICK s \in Session : Commit(s)
    BY DEF Next, vars, Load, Close, Flush, Statement, LockChain, ReadLast, AppendRow,
           Rollback, chain
  <2>2. trail' = trail \union staged[s]
    BY <2>1 DEF Commit
  <2>3. Distinct(VisibleTrail(s))
    BY DEF IInv, BaseInv, ShapeInv, Views, Shape
  <2> QED
    BY <2>2, <2>3 DEF Log!AppendBatch, IInv, BaseInv, OrderInv, Distinct, VisibleTrail
<1> QED
  BY <1>1, <1>2, InductiveInvariant, PTL DEF Spec, AppendsOnly, Log!Spec

-----------------------------------------------------------------------------
(* Replay and waiting: the inductive invariants *)

\* A flush has UPDATEs to run only in its first phase, and between flushes
\* nothing is left to log.
RestingInv ==
    \A s \in Session : /\ phase[s] # "dml" => todo[s] = {}
                       /\ phase[s] \in {"idle", "open"} => unlogged[s] = {}

\* _collect_changes finds one change per record and flush, and an UPDATE runs once.
OnePerRecord ==
    \A s \in Session : /\ \A c, d \in todo[s] \union unlogged[s] : c.rec = d.rec => c = d
                       /\ todo[s] \intersect unlogged[s] = {}

\* What a transaction has changed, logged or not, it keeps locked.
OwnLocks ==
    \A s \in Session : /\ \A c \in unlogged[s] : rowLock[c.rec] = s
                       /\ \A row \in staged[s] : rowLock[row.change.rec] = s

\* A row nobody locks has no uncommitted update.
UnlockedStore == \A r \in Record : rowLock[r] = NoSession => store[r] = db[r]

\* Updates of this column that the running flush has executed but not logged.
Pending(s, r, k) == {c \in unlogged[s] : c.rec = r /\ k \in Changed(c)}

\* The committed trail replays to the committed data, and what a session sees
\* is what its trail replays to, with the updates not yet logged on top.
CommittedReplay ==
    \A r \in Record, k \in Column : db[r][k] = Replay(trail, r, k)
SessionReplay ==
    \A s \in Session, r \in Record, k \in Column :
        /\ \A c \in Pending(s, r, k) : VisibleRow(s, r)[k] = c.new[k]
        /\ Pending(s, r, k) = {} => VisibleRow(s, r)[k] = Replay(VisibleTrail(s), r, k)

ReplayInv == /\ RestingInv
             /\ OnePerRecord
             /\ OwnLocks
             /\ UnlockedStore
             /\ CommittedReplay
             /\ SessionReplay

\* Outside of a transaction a session holds no lock.
IdleInv ==
    \A s \in Session : phase[s] = "idle" =>
        chainLock # s /\ \A r \in Record : rowLock[r] # s

\* An open transaction has written audit rows.
OpenInv == \A s \in Session : phase[s] = "open" => staged[s] # {}

\* On PostgreSQL the chain's lock is held by a listener or by a transaction
\* that has audit rows; on SQLite it comes before every row lock.
HolderInv ==
    \A s \in Session :
        /\ backend = "postgresql" /\ chainLock = s =>
              phase[s] \in {"read", "append"} \/ staged[s] # {}
        /\ backend = "sqlite" =>
              phase[s] # "lock" /\ \A r \in Record : rowLock[r] = s => chainLock = s

\* The first flush of a transaction locks records in the order of their keys.
KeyOrder ==
    \A s \in Session : staged[s] = {} =>
        \A r \in Record : \A c \in todo[s] : rowLock[r] = s => r < c.rec

WaitInv == IdleInv /\ OpenInv /\ HolderInv /\ KeyOrder

-----------------------------------------------------------------------------
(* What an audit row does to the replay *)

\* Only the rows that write a column decide what replays to it.
LEMMA SameWrites ==
    ASSUME NEW a, NEW b, NEW r, NEW k, Writes(a, r, k) = Writes(b, r, k)
    PROVE  Replay(a, r, k) = Replay(b, r, k)
  BY DEF Replay

\* The row with the highest number decides the columns it changes ...
LEMMA ReplayNewest ==
    ASSUME NEW rows, \A row \in rows : RowOK(row),
           NEW new, RowOK(new), \A row \in rows : row.trail_id < new.trail_id,
           NEW k \in Changed(new.change)
    PROVE  Replay(rows \union {new}, new.change.rec, k) = new.change.new[k]
<1> DEFINE writes == Writes(rows \union {new}, new.change.rec, k)
<1>1. new \in writes
  BY DEF Writes
<1>2. \A row \in writes : row # new => row \in rows
  BY DEF Writes
<1>3. IsLast(new, writes)
  BY <1>1, <1>2 DEF IsLast, RowOK
<1>4. ASSUME NEW row, IsLast(row, writes) PROVE row = new
  BY <1>1, <1>2, <1>4 DEF IsLast, RowOK
<1>5. (CHOOSE row \in writes : IsLast(row, writes)) = new
  <2> HIDE DEF writes
  <2>1. (CHOOSE row \in writes : IsLast(row, writes)) \in writes
        /\ IsLast(CHOOSE row \in writes : IsLast(row, writes), writes)
    BY <1>1, <1>3
  <2> QED
    BY <1>4, <2>1
<1> QED
  BY <1>1, <1>5 DEF Replay

\* ... and no other column.
LEMMA ReplayOther ==
    ASSUME NEW rows, NEW new, NEW r, NEW k,
           new.change.rec # r \/ k \notin Changed(new.change)
    PROVE  Replay(rows \union {new}, r, k) = Replay(rows, r, k)
<1>1. Writes(rows \union {new}, r, k) = Writes(rows, r, k)
  BY DEF Writes
<1> QED
  BY <1>1, SameWrites

-----------------------------------------------------------------------------
(* The replay invariant *)

\* Nothing has been written at the start.
LEMMA ReplayInit == Init => ReplayInv
<1> SUFFICES ASSUME Init PROVE ReplayInv
  OBVIOUS
<1>1. \A s \in Session : /\ todo[s] = {} /\ unlogged[s] = {} /\ staged[s] = {}
                         /\ VisibleTrail(s) = {}
  BY DEF Init, VisibleTrail
<1>2. \A r \in Record, k \in Column : Replay({}, r, k) = Seed
  BY DEF Replay, Writes
<1>3. RestingInv /\ OnePerRecord /\ OwnLocks
  BY <1>1 DEF RestingInv, OnePerRecord, OwnLocks
<1>4. UnlockedStore /\ CommittedReplay
  BY <1>2 DEF Init, UnlockedStore, CommittedReplay
<1>5. SessionReplay
  BY <1>1, <1>2 DEF Init, SessionReplay, Pending, VisibleRow
<1> QED
  BY <1>3, <1>4, <1>5 DEF ReplayInv

\* A step that neither writes a row nor logs a change, nor ends a transaction.
LEMMA QuietReplay ==
    ASSUME ReplayInv, UNCHANGED <<db, store, rowLock, unlogged, trail, staged>>,
           RestingInv', OnePerRecord'
    PROVE  ReplayInv'
<1>1. OwnLocks' /\ UnlockedStore' /\ CommittedReplay'
  BY DEF ReplayInv, OwnLocks, UnlockedStore, CommittedReplay
<1>2. SessionReplay'
  <2>1. \A s \in Session, r \in Record, k \in Column :
          /\ Pending(s, r, k)' = Pending(s, r, k)
          /\ VisibleRow(s, r)' = VisibleRow(s, r)
          /\ VisibleTrail(s)' = VisibleTrail(s)
    BY DEF Pending, VisibleRow, VisibleTrail
  <2> QED
    BY <2>1 DEF ReplayInv, SessionReplay
<1> QED
  BY <1>1, <1>2 DEF ReplayInv

\* One UPDATE: it lands on the row the session saw, and is pending until its
\* audit row is written.
LEMMA StatementReplay ==
    ASSUME IInv, ReplayInv, NEW s \in Session, Statement(s)
    PROVE  ReplayInv'
<1>0. /\ TypeOK /\ RestingInv /\ OnePerRecord /\ OwnLocks /\ UnlockedStore
      /\ CommittedReplay /\ SessionReplay
  BY DEF IInv, BaseInv, ReplayInv
<1>1. PICK c \in todo[s] :
        /\ rowLock[c.rec] \in {NoSession, s}
        /\ rowLock' = [rowLock EXCEPT ![c.rec] = s]
        /\ store' = [store EXCEPT ![c.rec] = [k \in Column |->
                        IF k \in Changed(c) THEN c.new[k] ELSE store[c.rec][k]]]
        /\ todo' = [todo EXCEPT ![s] = @ \ {c}]
        /\ unlogged' = [unlogged EXCEPT ![s] = @ \union {c}]
        /\ phase' = [phase EXCEPT ![s] =
                        IF todo[s] # {c} THEN "dml"
                        ELSE IF backend = "postgresql" THEN "lock" ELSE "read"]
  BY DEF Statement
<1>2. /\ phase[s] = "dml" /\ db' = db /\ trail' = trail /\ staged' = staged
      /\ c \in Change /\ c.rec \in Record
  BY <1>0, <1>1 DEF Statement, TypeOK, Change
<1>3. /\ unlogged'[s] = unlogged[s] \union {c} /\ todo'[s] = todo[s] \ {c}
      /\ phase'[s] = IF todo[s] # {c} THEN "dml"
                     ELSE IF backend = "postgresql" THEN "lock" ELSE "read"
      /\ \A t \in Session \ {s} : /\ unlogged'[t] = unlogged[t] /\ todo'[t] = todo[t]
                                  /\ phase'[t] = phase[t]
  BY <1>0, <1>1 DEF TypeOK
<1>4. /\ rowLock'[c.rec] = s
      /\ \A r \in Record \ {c.rec} : rowLock'[r] = rowLock[r] /\ store'[r] = store[r]
      /\ \A k \in Column : store'[c.rec][k] =
                              IF k \in Changed(c) THEN c.new[k] ELSE store[c.rec][k]
  BY <1>0, <1>1, <1>2 DEF TypeOK
<1>5. \A d \in unlogged[s] : d.rec # c.rec
  <2>1. ASSUME NEW d \in unlogged[s], d.rec = c.rec PROVE FALSE
    <3>1. d = c
      BY <1>0, <1>1, <2>1 DEF OnePerRecord
    <3> QED
      BY <1>0, <1>1, <3>1, <2>1 DEF OnePerRecord
  <2> QED
    BY <2>1
<1>6. RestingInv'
  BY <1>0, <1>2, <1>3 DEF RestingInv
<1>7. OnePerRecord'
  BY <1>0, <1>1, <1>3 DEF OnePerRecord
<1>8. OwnLocks'
  <2>1. ASSUME NEW t \in Session, NEW d \in unlogged'[t] PROVE rowLock'[d.rec] = t
    BY <2>1, <1>0, <1>1, <1>2, <1>3, <1>4, SessionAssumption DEF OwnLocks, TypeOK, Change
  <2>2. ASSUME NEW t \in Session, NEW row \in staged'[t] PROVE rowLock'[row.change.rec] = t
    <3>1. row.change.rec \in Record
      BY <2>2, <1>0, <1>2 DEF TypeOK, RowOK, Change
    <3> QED
      BY <2>2, <3>1, <1>0, <1>1, <1>2, <1>4, SessionAssumption DEF OwnLocks
  <2> QED
    BY <2>1, <2>2 DEF OwnLocks
<1>9. UnlockedStore'
  BY <1>0, <1>2, <1>4, SessionAssumption DEF UnlockedStore
<1>10. CommittedReplay'
  BY <1>0, <1>2 DEF CommittedReplay
<1>11. SessionReplay'
  <2> SUFFICES ASSUME NEW t \in Session, NEW r \in Record, NEW k \in Column
               PROVE  /\ \A d \in Pending(t, r, k)' : VisibleRow(t, r)'[k] = d.new[k]
                      /\ Pending(t, r, k)' = {} =>
                            VisibleRow(t, r)'[k] = Replay(VisibleTrail(t), r, k)'
    BY DEF SessionReplay
  <2>1. Replay(VisibleTrail(t), r, k)' = Replay(VisibleTrail(t), r, k)
    BY <1>2 DEF VisibleTrail, Replay, Writes
  <2>2. CASE r # c.rec
    <3>1. VisibleRow(t, r)' = VisibleRow(t, r)
      BY <2>2, <1>2, <1>4 DEF VisibleRow
    <3>2. Pending(t, r, k)' = Pending(t, r, k)
      BY <2>2, <1>3 DEF Pending
    <3> QED
      BY <2>1, <3>1, <3>2, <1>0 DEF SessionReplay
  <2>3. CASE r = c.rec /\ t # s
    <3>1. VisibleRow(t, r)' = VisibleRow(t, r)
      BY <2>3, <1>1, <1>2, <1>4, SessionAssumption DEF VisibleRow
    <3>2. Pending(t, r, k)' = Pending(t, r, k)
      BY <2>3, <1>3 DEF Pending
    <3> QED
      BY <2>1, <3>1, <3>2, <1>0 DEF SessionReplay
  <2>4. CASE r = c.rec /\ t = s
    <3>1. VisibleRow(s, r) = store[r]
      BY <2>4, <1>0, <1>1 DEF VisibleRow, UnlockedStore
    <3>2. VisibleRow(s, r)'[k] = IF k \in Changed(c) THEN c.new[k] ELSE VisibleRow(s, r)[k]
      BY <2>4, <3>1, <1>4 DEF VisibleRow
    <3>3. Pending(s, r, k) = {}
      BY <2>4, <1>5 DEF Pending
    <3>4. Pending(s, r, k)' = IF k \in Changed(c) THEN {c} ELSE {}
      BY <2>4, <1>3, <1>5 DEF Pending
    <3> QED
      BY <2>1, <2>4, <3>2, <3>3, <3>4, <1>0 DEF SessionReplay
  <2> QED
    BY <2>2, <2>3, <2>4
<1> QED
  BY <1>6, <1>7, <1>8, <1>9, <1>10, <1>11 DEF ReplayInv

\* One audit row: it takes over from the pending change it logs.
LEMMA AppendReplay ==
    ASSUME IInv, ReplayInv, NEW s \in Session, AppendRow(s)
    PROVE  ReplayInv'
<1>0. /\ TypeOK /\ RestingInv /\ OnePerRecord /\ OwnLocks /\ UnlockedStore
      /\ CommittedReplay /\ SessionReplay
  BY DEF IInv, BaseInv, ReplayInv
<1>1. PICK c \in unlogged[s] :
        /\ staged' = [staged EXCEPT ![s] = @ \union {audit_row(NextId(s), c, s, last[s])}]
        /\ unlogged' = [unlogged EXCEPT ![s] = @ \ {c}]
        /\ phase' = [phase EXCEPT ![s] = IF unlogged[s] = {c} THEN "open" ELSE "append"]
  BY DEF AppendRow
<1>2. PICK new : new = audit_row(NextId(s), c, s, last[s])
  OBVIOUS
<1>3. /\ phase[s] = "append" /\ db' = db /\ store' = store /\ rowLock' = rowLock
      /\ trail' = trail /\ todo' = todo /\ c \in Change /\ c.rec \in Record
      /\ rowLock[c.rec] = s
  BY <1>0, <1>1 DEF AppendRow, data, TypeOK, Change, OwnLocks
<1>4. /\ unlogged'[s] = unlogged[s] \ {c}
      /\ phase'[s] = IF unlogged[s] = {c} THEN "open" ELSE "append"
      /\ staged'[s] = staged[s] \union {new}
      /\ \A t \in Session \ {s} : /\ unlogged'[t] = unlogged[t] /\ staged'[t] = staged[t]
                                  /\ phase'[t] = phase[t]
  BY <1>0, <1>1, <1>2 DEF TypeOK
<1>5. /\ new.change = c /\ RowOK(new)
      /\ \A row \in VisibleTrail(s) : RowOK(row) /\ row.trail_id < new.trail_id
  <2>1. BaseInv
    BY DEF IInv
  <2>2. /\ NextId(s) \in Nat \ {0}
        /\ \A row \in VisibleTrail(s) : row.trail_id < NextId(s)
    BY <2>1, NextIdPositive
  <2> QED
    BY <1>0, <1>2, <1>3, <2>2 DEF audit_row, RowOK, VisibleTrail, TypeOK
<1>6. RestingInv'
  BY <1>0, <1>3, <1>4 DEF RestingInv
<1>7. OnePerRecord'
  BY <1>0, <1>3, <1>4 DEF OnePerRecord
<1>8. OwnLocks'
  BY <1>0, <1>3, <1>4, <1>5 DEF OwnLocks
<1>9. UnlockedStore' /\ CommittedReplay'
  BY <1>0, <1>3 DEF UnlockedStore, CommittedReplay
<1>10. SessionReplay'
  <2> SUFFICES ASSUME NEW t \in Session, NEW r \in Record, NEW k \in Column
               PROVE  /\ \A d \in Pending(t, r, k)' : VisibleRow(t, r)'[k] = d.new[k]
                      /\ Pending(t, r, k)' = {} =>
                            VisibleRow(t, r)'[k] = Replay(VisibleTrail(t), r, k)'
    BY DEF SessionReplay
  <2>1. VisibleRow(t, r)' = VisibleRow(t, r)
    BY <1>3 DEF VisibleRow
  <2>2. Replay(VisibleTrail(t), r, k)' = Replay(VisibleTrail(t)', r, k)
    BY DEF Replay, Writes, IsLast
  <2>3. CASE t # s
    <3>1. Pending(t, r, k)' = Pending(t, r, k) /\ VisibleTrail(t)' = VisibleTrail(t)
      BY <2>3, <1>3, <1>4 DEF Pending, VisibleTrail
    <3> QED
      BY <2>1, <2>2, <3>1, <1>0 DEF SessionReplay
  <2>4. CASE t = s /\ c \in Pending(s, r, k)
    <3>1. Pending(s, r, k)' = {}
      BY <2>4, <1>0, <1>1, <1>4 DEF Pending, OnePerRecord
    <3>2. VisibleTrail(s)' = VisibleTrail(s) \union {new}
      BY <1>3, <1>4 DEF VisibleTrail
    <3>3. new.change.rec = r /\ k \in Changed(new.change)
      BY <2>4, <1>5 DEF Pending
    <3>4. Replay(VisibleTrail(s) \union {new}, new.change.rec, k) = new.change.new[k]
      BY ZenonT(60), <3>3, <1>5, ReplayNewest
    <3>5. VisibleRow(s, r)[k] = c.new[k]
      BY <2>4, <1>0 DEF SessionReplay
    <3> QED
      BY <2>1, <2>2, <2>4, <3>1, <3>2, <3>3, <3>4, <3>5, <1>5
  <2>5. CASE t = s /\ c \notin Pending(s, r, k)
    <3>1. Pending(s, r, k)' = Pending(s, r, k)
      BY <2>5, <1>1, <1>4 DEF Pending
    <3>2. VisibleTrail(s)' = VisibleTrail(s) \union {new}
      BY <1>3, <1>4 DEF VisibleTrail
    <3>3. new.change.rec # r \/ k \notin Changed(new.change)
      BY <2>5, <1>1, <1>5 DEF Pending
    <3>4. Replay(VisibleTrail(s) \union {new}, r, k) = Replay(VisibleTrail(s), r, k)
      BY <3>3, ReplayOther
    <3> QED
      BY <2>1, <2>2, <2>5, <3>1, <3>2, <3>4, <1>0 DEF SessionReplay
  <2> QED
    BY <2>3, <2>4, <2>5
<1> QED
  BY <1>6, <1>7, <1>8, <1>9, <1>10 DEF ReplayInv

\* A commit: the rows and the audit rows of the transaction appear together,
\* and what other transactions have changed is about other records.
LEMMA CommitReplay ==
    ASSUME IInv, ReplayInv, NEW s \in Session, Commit(s)
    PROVE  ReplayInv'
<1>0. /\ TypeOK /\ RestingInv /\ OnePerRecord /\ OwnLocks /\ UnlockedStore
      /\ CommittedReplay /\ SessionReplay
  BY DEF IInv, BaseInv, ReplayInv
<1>1. /\ phase[s] = "open" /\ store' = store /\ todo' = todo /\ unlogged' = unlogged
      /\ trail' = VisibleTrail(s)
      /\ \A r \in Record : /\ db'[r] = VisibleRow(s, r)
                           /\ rowLock'[r] = IF rowLock[r] = s THEN NoSession ELSE rowLock[r]
  BY DEF Commit, Release, VisibleTrail, VisibleRow
<1>2. /\ phase'[s] = "idle" /\ staged'[s] = {} /\ unlogged[s] = {}
      /\ \A t \in Session \ {s} : phase'[t] = phase[t] /\ staged'[t] = staged[t]
  BY <1>0, <1>1 DEF Commit, Release, TypeOK, RestingInv
<1>3. RestingInv'
  BY <1>0, <1>1, <1>2 DEF RestingInv
<1>4. OnePerRecord'
  BY <1>0, <1>1 DEF OnePerRecord
<1>5. OwnLocks'
  <2>1. ASSUME NEW t \in Session, NEW d \in unlogged'[t] PROVE rowLock'[d.rec] = t
    <3>1. d.rec \in Record /\ t # s
      BY <2>1, <1>0, <1>1, <1>2 DEF TypeOK, Change
    <3> QED
      BY <2>1, <3>1, <1>0, <1>1 DEF OwnLocks
  <2>2. ASSUME NEW t \in Session, NEW row \in staged'[t] PROVE rowLock'[row.change.rec] = t
    <3>1. t # s /\ row \in staged[t]
      BY <2>2, <1>2
    <3>2. row.change.rec \in Record
      BY <3>1, <1>0 DEF TypeOK, RowOK, Change
    <3> QED
      BY <3>1, <3>2, <1>0, <1>1 DEF OwnLocks
  <2> QED
    BY <2>1, <2>2 DEF OwnLocks
<1>6. UnlockedStore'
  BY <1>0, <1>1 DEF UnlockedStore, VisibleRow
<1>7. \A r \in Record, k \in Column : db'[r][k] = Replay(VisibleTrail(s), r, k)
  BY <1>0, <1>1, <1>2 DEF SessionReplay, Pending
<1>8. CommittedReplay'
  <2>1. \A r \in Record, k \in Column : Replay(trail, r, k)' = Replay(trail', r, k)
    BY DEF Replay, Writes, IsLast
  <2> QED
    BY <1>1, <1>7, <2>1 DEF CommittedReplay
<1>9. SessionReplay'
  <2> SUFFICES ASSUME NEW t \in Session, NEW r \in Record, NEW k \in Column
               PROVE  /\ \A d \in Pending(t, r, k)' : VisibleRow(t, r)'[k] = d.new[k]
                      /\ Pending(t, r, k)' = {} =>
                            VisibleRow(t, r)'[k] = Replay(VisibleTrail(t), r, k)'
    BY DEF SessionReplay
  <2>1. Replay(VisibleTrail(t), r, k)' = Replay(VisibleTrail(t)', r, k)
    BY DEF Replay, Writes, IsLast
  <2>2. Pending(t, r, k)' = Pending(t, r, k)
    BY <1>1 DEF Pending
  <2>3. CASE t # s /\ rowLock[r] = t
    <3>1. VisibleRow(t, r)' = VisibleRow(t, r)
      BY <2>3, <1>1 DEF VisibleRow
    <3>2. Writes(VisibleTrail(t)', r, k) = Writes(VisibleTrail(t), r, k)
      <4>1. VisibleTrail(t)' = VisibleTrail(t) \union staged[s]
        BY <2>3, <1>1, <1>2 DEF VisibleTrail
      <4>2. \A row \in staged[s] : row.change.rec # r
        BY <2>3, <1>0 DEF OwnLocks
      <4> QED
        BY <4>1, <4>2 DEF Writes
    <3> QED
      BY <2>1, <2>2, <3>1, <3>2, <1>0, SameWrites DEF SessionReplay
  <2>4. CASE t = s \/ rowLock[r] # t
    <3>1. VisibleRow(t, r)' = db'[r]
      BY <2>4, <1>1, SessionAssumption DEF VisibleRow
    <3>2. Pending(t, r, k) = {}
      BY <2>4, <1>0, <1>2 DEF Pending, OwnLocks
    <3>3. Writes(VisibleTrail(t)', r, k) = Writes(VisibleTrail(s), r, k)
      <4>1. VisibleTrail(t)' = VisibleTrail(s) \union staged'[t]
        BY <1>1 DEF VisibleTrail
      <4>2. \A row \in staged'[t] : row.change.rec # r
        BY <2>4, <1>0, <1>2 DEF OwnLocks
      <4> QED
        BY <4>1, <4>2 DEF Writes
    <3> QED
      BY <2>1, <2>2, <3>1, <3>2, <3>3, <1>7, SameWrites
  <2> QED
    BY <2>3, <2>4
<1> QED
  BY <1>3, <1>4, <1>5, <1>6, <1>8, <1>9 DEF ReplayInv

\* A rollback takes back the updates together with their audit rows.
LEMMA RollbackReplay ==
    ASSUME IInv, ReplayInv, NEW s \in Session, Rollback(s)
    PROVE  ReplayInv'
<1>0. /\ TypeOK /\ RestingInv /\ OnePerRecord /\ OwnLocks /\ UnlockedStore
      /\ CommittedReplay /\ SessionReplay
  BY DEF IInv, BaseInv, ReplayInv
<1>1. /\ db' = db /\ trail' = trail
      /\ \A r \in Record : /\ store'[r] = IF rowLock[r] = s THEN db[r] ELSE store[r]
                           /\ rowLock'[r] = IF rowLock[r] = s THEN NoSession ELSE rowLock[r]
  BY DEF Rollback, Release
<1>2. /\ phase'[s] = "idle" /\ staged'[s] = {} /\ todo'[s] = {} /\ unlogged'[s] = {}
      /\ \A t \in Session \ {s} : /\ phase'[t] = phase[t] /\ staged'[t] = staged[t]
                                  /\ todo'[t] = todo[t] /\ unlogged'[t] = unlogged[t]
  BY <1>0 DEF Rollback, Release, TypeOK
<1>3. RestingInv'
  BY <1>0, <1>2 DEF RestingInv
<1>4. OnePerRecord'
  BY <1>0, <1>2 DEF OnePerRecord
<1>5. OwnLocks'
  <2>1. ASSUME NEW t \in Session, NEW d \in unlogged'[t] PROVE rowLock'[d.rec] = t
    <3>1. d.rec \in Record /\ t # s /\ d \in unlogged[t]
      BY <2>1, <1>0, <1>2 DEF TypeOK, Change
    <3> QED
      BY <2>1, <3>1, <1>0, <1>1 DEF OwnLocks
  <2>2. ASSUME NEW t \in Session, NEW row \in staged'[t] PROVE rowLock'[row.change.rec] = t
    <3>1. t # s /\ row \in staged[t]
      BY <2>2, <1>2
    <3>2. row.change.rec \in Record
      BY <3>1, <1>0 DEF TypeOK, RowOK, Change
    <3> QED
      BY <3>1, <3>2, <1>0, <1>1 DEF OwnLocks
  <2> QED
    BY <2>1, <2>2 DEF OwnLocks
<1>6. UnlockedStore' /\ CommittedReplay'
  BY <1>0, <1>1 DEF UnlockedStore, CommittedReplay
<1>7. SessionReplay'
  <2> SUFFICES ASSUME NEW t \in Session, NEW r \in Record, NEW k \in Column
               PROVE  /\ \A d \in Pending(t, r, k)' : VisibleRow(t, r)'[k] = d.new[k]
                      /\ Pending(t, r, k)' = {} =>
                            VisibleRow(t, r)'[k] = Replay(VisibleTrail(t), r, k)'
    BY DEF SessionReplay
  <2>1. Replay(VisibleTrail(t), r, k)' = Replay(VisibleTrail(t)', r, k)
    BY DEF Replay, Writes, IsLast
  <2>2. CASE t # s
    <3>1. /\ VisibleRow(t, r)' = VisibleRow(t, r)
          /\ Pending(t, r, k)' = Pending(t, r, k)
          /\ VisibleTrail(t)' = VisibleTrail(t)
      BY <2>2, <1>1, <1>2, SessionAssumption DEF VisibleRow, Pending, VisibleTrail
    <3> QED
      BY <2>1, <3>1, <1>0 DEF SessionReplay
  <2>3. CASE t = s
    <3>1. VisibleRow(s, r)' = db[r] /\ Pending(s, r, k)' = {} /\ VisibleTrail(s)' = trail
      BY <1>1, <1>2, SessionAssumption DEF VisibleRow, Pending, VisibleTrail
    <3> QED
      BY <2>1, <2>3, <3>1, <1>0 DEF CommittedReplay
  <2> QED
    BY <2>2, <2>3
<1> QED
  BY <1>3, <1>4, <1>5, <1>6, <1>7 DEF ReplayInv

\* Every step keeps the replay of every view equal to its rows.
LEMMA ReplayStep == IInv /\ ReplayInv /\ [Next]_vars => ReplayInv'
<1> SUFFICES ASSUME IInv, ReplayInv, [Next]_vars PROVE ReplayInv'
  OBVIOUS
<1>0. TypeOK /\ RestingInv /\ OnePerRecord
  BY DEF IInv, BaseInv, ReplayInv
<1>1. ASSUME NEW s \in Session, NEW r \in Record, Load(s, r) PROVE ReplayInv'
  BY <1>0, <1>1, QuietReplay DEF Load, chain, RestingInv, OnePerRecord
<1>2. ASSUME NEW s \in Session, Close(s) PROVE ReplayInv'
  BY <1>0, <1>2, QuietReplay DEF Close, chain, RestingInv, OnePerRecord
<1>3. ASSUME NEW s \in Session, Flush(s) PROVE ReplayInv'
  <2>1. PICK changes : /\ \A c, d \in changes : c.rec = d.rec => c = d
                       /\ todo' = [todo EXCEPT ![s] = changes]
    BY <1>3 DEF Flush
  <2>2. /\ phase[s] \in {"idle", "open"} /\ unlogged' = unlogged
        /\ phase'[s] = "dml" /\ todo'[s] = changes /\ unlogged[s] = {}
        /\ \A t \in Session \ {s} : phase'[t] = phase[t] /\ todo'[t] = todo[t]
    BY <1>0, <1>3, <2>1 DEF Flush, TypeOK, RestingInv
  <2>3. RestingInv'
    BY <1>0, <2>2 DEF RestingInv
  <2>4. OnePerRecord'
    BY <1>0, <2>1, <2>2 DEF OnePerRecord
  <2> QED
    BY <1>3, <2>3, <2>4, QuietReplay DEF Flush, chain
<1>4. ASSUME NEW s \in Session, Statement(s) PROVE ReplayInv'
  BY <1>4, StatementReplay
<1>5. ASSUME NEW s \in Session, LockChain(s) PROVE ReplayInv'
  BY <1>0, <1>5, QuietReplay DEF LockChain, data, RestingInv, OnePerRecord, TypeOK
<1>6. ASSUME NEW s \in Session, ReadLast(s) PROVE ReplayInv'
  BY <1>0, <1>6, QuietReplay DEF ReadLast, data, chain, RestingInv, OnePerRecord, TypeOK
<1>7. ASSUME NEW s \in Session, AppendRow(s) PROVE ReplayInv'
  BY <1>7, AppendReplay
<1>8. ASSUME NEW s \in Session, Commit(s) PROVE ReplayInv'
  BY <1>8, CommitReplay
<1>9. ASSUME NEW s \in Session, Rollback(s) PROVE ReplayInv'
  BY <1>9, RollbackReplay
<1>10. CASE UNCHANGED vars
  BY <1>0, <1>10, QuietReplay DEF vars, RestingInv, OnePerRecord
<1> QED
  BY <1>1, <1>2, <1>3, <1>4, <1>5, <1>6, <1>7, <1>8, <1>9, <1>10 DEF Next

-----------------------------------------------------------------------------
(* Who waits for whom *)

\* Nobody waits at the start.
LEMMA WaitInit == Init => WaitInv
  BY SessionAssumption DEF Init, WaitInv, IdleInv, OpenInv, HolderInv, KeyOrder

\* The end of a transaction, either way: its locks go, the others' stay.
LEMMA EndWait ==
    ASSUME IInv, WaitInv, NEW s \in Session,
           Release(s), backend' = backend, todo'[s] = {},
           \A t \in Session \ {s} : todo'[t] = todo[t]
    PROVE  WaitInv'
<1>0. TypeOK /\ IdleInv /\ OpenInv /\ HolderInv /\ KeyOrder
  BY DEF IInv, BaseInv, WaitInv
<1>1. /\ \A r \in Record : rowLock'[r] = IF rowLock[r] = s THEN NoSession ELSE rowLock[r]
      /\ chainLock' = IF chainLock = s THEN NoSession ELSE chainLock
      /\ phase'[s] = "idle" /\ staged'[s] = {}
      /\ \A t \in Session \ {s} : phase'[t] = phase[t] /\ staged'[t] = staged[t]
  BY <1>0 DEF Release, TypeOK
<1>2. IdleInv' /\ OpenInv'
  BY <1>0, <1>1, SessionAssumption DEF IdleInv, OpenInv
<1>3. HolderInv'
  BY <1>0, <1>1, SessionAssumption DEF HolderInv
<1>4. KeyOrder'
  BY <1>0, <1>1, SessionAssumption DEF KeyOrder
<1> QED
  BY <1>2, <1>3, <1>4 DEF WaitInv

\* An UPDATE takes the next record in key order.
LEMMA StatementWait ==
    ASSUME IInv, ReplayInv, WaitInv, NEW s \in Session, Statement(s)
    PROVE  WaitInv'
<1>0. TypeOK /\ LockInv /\ OnePerRecord /\ IdleInv /\ OpenInv /\ HolderInv /\ KeyOrder
  BY DEF IInv, BaseInv, ReplayInv, WaitInv
<1>1. PICK c \in todo[s] :
        /\ First(c, todo[s])
        /\ rowLock[c.rec] \in {NoSession, s}
        /\ rowLock' = [rowLock EXCEPT ![c.rec] = s]
        /\ todo' = [todo EXCEPT ![s] = @ \ {c}]
        /\ phase' = [phase EXCEPT ![s] =
                        IF todo[s] # {c} THEN "dml"
                        ELSE IF backend = "postgresql" THEN "lock" ELSE "read"]
  BY DEF Statement
<1>2. /\ phase[s] = "dml" /\ staged' = staged /\ backend' = backend
      /\ backend \in {"sqlite", "postgresql"} /\ c \in Change /\ c.rec \in Record
      /\ IF backend = "sqlite" THEN chainLock \in {NoSession, s} /\ chainLock' = s
                               ELSE chainLock' = chainLock
  BY <1>0, <1>1 DEF Statement, TypeOK, Change, LockFree
<1>3. /\ todo'[s] = todo[s] \ {c}
      /\ phase'[s] = IF todo[s] # {c} THEN "dml"
                     ELSE IF backend = "postgresql" THEN "lock" ELSE "read"
      /\ \A t \in Session \ {s} : todo'[t] = todo[t] /\ phase'[t] = phase[t]
      /\ rowLock'[c.rec] = s
      /\ \A r \in Record \ {c.rec} : rowLock'[r] = rowLock[r]
  BY <1>0, <1>1, <1>2 DEF TypeOK
<1>4. IdleInv' /\ OpenInv'
  BY <1>0, <1>2, <1>3 DEF IdleInv, OpenInv
<1>5. HolderInv'
  BY <1>0, <1>1, <1>2, <1>3, SessionAssumption DEF HolderInv
<1>6. KeyOrder'
  <2> SUFFICES ASSUME NEW t \in Session, staged[t] = {},
                      NEW r \in Record, NEW d \in todo'[t], rowLock'[r] = t
               PROVE  r < d.rec
    BY <1>2 DEF KeyOrder
  <2>1. CASE r # c.rec
    BY <2>1, <1>0, <1>1, <1>3 DEF KeyOrder
  <2>2. CASE r = c.rec
    <3>1. t = s /\ d \in todo[s] /\ d # c
      BY <2>2, <1>3
    <3>2. d.rec # c.rec
      BY <3>1, <1>0, <1>1 DEF OnePerRecord
    <3>3. d \in Change
      BY <3>1, <1>0 DEF TypeOK
    <3>4. d.rec \in Nat /\ c.rec \in Nat
      BY <1>2, <3>3, RecordAssumption DEF Change
    <3> QED
      BY <2>2, <3>1, <3>2, <3>4, <1>1 DEF First
  <2> QED
    BY <2>1, <2>2
<1> QED
  BY <1>4, <1>5, <1>6 DEF WaitInv

\* Every step keeps the order in which sessions wait.
LEMMA WaitStep == IInv /\ ReplayInv /\ WaitInv /\ [Next]_vars => WaitInv'
<1> SUFFICES ASSUME IInv, ReplayInv, WaitInv, [Next]_vars PROVE WaitInv'
  OBVIOUS
<1>0. /\ TypeOK /\ LockInv /\ RestingInv /\ IdleInv /\ OpenInv /\ HolderInv /\ KeyOrder
  BY DEF IInv, BaseInv, ReplayInv, WaitInv
<1> USE DEF WaitInv
<1>1. ASSUME NEW s \in Session, NEW r \in Record, Load(s, r) PROVE WaitInv'
  BY <1>0, <1>1 DEF Load, chain, IdleInv, OpenInv, HolderInv, KeyOrder
<1>2. ASSUME NEW s \in Session, Close(s) PROVE WaitInv'
  BY <1>0, <1>2 DEF Close, chain, IdleInv, OpenInv, HolderInv, KeyOrder
<1>3. ASSUME NEW s \in Session, Flush(s) PROVE WaitInv'
  <2>1. /\ phase[s] \in {"idle", "open"} /\ phase'[s] = "dml"
        /\ UNCHANGED <<backend, rowLock, chainLock, staged>>
        /\ \A t \in Session \ {s} : phase'[t] = phase[t] /\ todo'[t] = todo[t]
    BY <1>0, <1>3 DEF Flush, TypeOK, chain
  <2>2. IdleInv' /\ OpenInv'
    BY <1>0, <2>1 DEF IdleInv, OpenInv
  <2>3. HolderInv'
    BY <1>0, <2>1 DEF HolderInv
  <2>4. KeyOrder'
    BY <1>0, <2>1 DEF KeyOrder, OpenInv, IdleInv
  <2> QED
    BY <2>2, <2>3, <2>4
<1>4. ASSUME NEW s \in Session, Statement(s) PROVE WaitInv'
  BY <1>4, StatementWait
<1>5. ASSUME NEW s \in Session, LockChain(s) PROVE WaitInv'
  <2>1. /\ phase[s] = "lock" /\ phase'[s] = "read" /\ chainLock \in {NoSession, s}
        /\ chainLock' = s /\ UNCHANGED <<backend, rowLock, todo, staged>>
        /\ \A t \in Session \ {s} : phase'[t] = phase[t]
    BY <1>0, <1>5 DEF LockChain, LockFree, TypeOK, data
  <2> QED
    BY <1>0, <2>1, SessionAssumption DEF IdleInv, OpenInv, HolderInv, KeyOrder
<1>6. ASSUME NEW s \in Session, ReadLast(s) PROVE WaitInv'
  <2>1. /\ phase[s] = "read" /\ phase'[s] = "append"
        /\ UNCHANGED <<backend, rowLock, chainLock, todo, staged>>
        /\ \A t \in Session \ {s} : phase'[t] = phase[t]
    BY <1>0, <1>6 DEF ReadLast, TypeOK, data, chain
  <2> QED
    BY <1>0, <2>1 DEF IdleInv, OpenInv, HolderInv, KeyOrder
<1>7. ASSUME NEW s \in Session, AppendRow(s) PROVE WaitInv'
  <2>1. /\ phase[s] = "append" /\ phase'[s] \in {"open", "append"} /\ staged'[s] # {}
        /\ UNCHANGED <<backend, rowLock, chainLock, todo>>
        /\ \A t \in Session \ {s} : phase'[t] = phase[t] /\ staged'[t] = staged[t]
    BY <1>0, <1>7 DEF AppendRow, TypeOK, data
  <2> QED
    BY <1>0, <2>1 DEF IdleInv, OpenInv, HolderInv, KeyOrder
<1>8. ASSUME NEW s \in Session, Commit(s) PROVE WaitInv'
  BY <1>0, <1>8, EndWait DEF Commit, RestingInv
<1>9. ASSUME NEW s \in Session, Rollback(s) PROVE WaitInv'
  BY <1>0, <1>9, EndWait DEF Rollback, TypeOK
<1>10. CASE UNCHANGED vars
  BY <1>0, <1>10 DEF vars, IdleInv, OpenInv, HolderInv, KeyOrder
<1> QED
  BY <1>1, <1>2, <1>3, <1>4, <1>5, <1>6, <1>7, <1>8, <1>9, <1>10 DEF Next

-----------------------------------------------------------------------------
(* Cycles of waiting transactions *)

\* A set of numbers has a least one.
LEMMA LeastNat ==
    ASSUME NEW T \in SUBSET Nat, T # {}
    PROVE  \E m \in T : \A n \in T : m <= n
<1>1. PICK m \in T : \A n \in T : ~(<<n, m>> \in OpToRel(<, Nat))
  BY NatLessThanWellFounded, WFMin
<1>2. \A n \in T : ~(n < m)
  BY <1>1 DEF OpToRel
<1> QED
  BY <1>2

\* On SQLite every waiting transaction waits for the one that holds the
\* database, and that one waits for nobody.
LEMMA NoCycleOnSQLite ==
    ASSUME IInv, WaitInv, backend = "sqlite", NEW s \in Session, Deadlocked(s)
    PROVE  FALSE
<1>0. TypeOK /\ HolderInv
  BY DEF IInv, BaseInv, WaitInv
<1>1. ASSUME NEW t \in Session, NEW u \in Session, WaitsFor(t, u) PROVE chainLock = u /\ t # u
  <2>1. t # u /\ phase[t] # "lock"
    BY <1>0, <1>1 DEF WaitsFor, HolderInv
  <2>2. ASSUME NEW c \in todo[t], rowLock[c.rec] = u PROVE chainLock = u
    BY <2>2, <1>0 DEF HolderInv, TypeOK, Change
  <2> QED
    BY <1>1, <2>1, <2>2 DEF WaitsFor
<1>2. PICK cycle \in SUBSET Session :
        s \in cycle /\ \A t \in cycle : \E u \in cycle : WaitsFor(t, u)
  BY DEF Deadlocked
<1>3. PICK u \in cycle : WaitsFor(s, u)
  BY <1>2
<1>4. PICK v \in cycle : WaitsFor(u, v)
  BY <1>2
<1> QED
  BY <1>1, <1>2, <1>3, <1>4

\* Transactions in their first flush wait in key order: the one that waits
\* for the least key is itself waited for under a smaller one.
LEMMA FirstFlushesDoNotCycle ==
    ASSUME IInv, WaitInv, backend = "postgresql",
           NEW cycle \in SUBSET Session, cycle # {},
           \A t \in cycle : phase[t] = "dml" /\ staged[t] = {},
           \A t \in cycle : /\ \E u \in cycle : WaitsFor(t, u)
                            /\ \E u \in cycle : WaitsFor(u, t)
    PROVE  FALSE
<1>0. TypeOK /\ KeyOrder
  BY DEF IInv, BaseInv, WaitInv
<1> DEFINE Wanted == {r \in Record : \E t \in cycle : \E c \in todo[t] :
                                         First(c, todo[t]) /\ c.rec = r}
<1>1. ASSUME NEW t \in cycle, NEW u \in cycle, WaitsFor(t, u)
      PROVE  \E c \in todo[t] : First(c, todo[t]) /\ c.rec \in Wanted /\ rowLock[c.rec] = u
  <2>1. PICK c \in todo[t] : First(c, todo[t]) /\ rowLock[c.rec] = u
    BY <1>1 DEF WaitsFor
  <2>2. c \in Change
    BY <1>0, <2>1 DEF TypeOK
  <2>3. c.rec \in Wanted
    BY <2>1, <2>2 DEF Change
  <2> QED
    BY <2>1, <2>3
<1>2. Wanted # {} /\ Wanted \in SUBSET Nat /\ Wanted \subseteq Record
  BY <1>1, RecordAssumption
<1>3. PICK least \in Wanted : \A r \in Wanted : least <= r
  BY <1>2, LeastNat
<1>4. PICK t \in cycle : \E c \in todo[t] : First(c, todo[t]) /\ c.rec = least
  OBVIOUS
<1>4a. PICK c \in todo[t] : First(c, todo[t]) /\ c.rec = least
  BY <1>4
<1>5. PICK u \in cycle : WaitsFor(u, t)
  OBVIOUS
<1> HIDE DEF Wanted
<1>6. PICK d \in todo[u] : d.rec \in Wanted /\ rowLock[d.rec] = t
  BY <1>1, <1>5
<1>7. d.rec < least
  <2>1. t \in Session /\ staged[t] = {} /\ d.rec \in Record
    BY <1>2, <1>6
  <2> QED
    BY <1>0, <1>4a, <1>6, <2>1 DEF KeyOrder
<1>8. least <= d.rec /\ least \in Nat /\ d.rec \in Nat
  BY <1>2, <1>3, <1>6
<1> QED
  BY <1>7, <1>8

\* Following the locks sessions wait for leads upwards, unless one of them has flushed before.
LEMMA CyclesNeedSecondFlush ==
    ASSUME IInv, WaitInv
    PROVE  DeadlockNeedsSecondFlush
<1> SUFFICES ASSUME NEW s \in Session, Deadlocked(s)
             PROVE  /\ backend = "postgresql"
                    /\ \E t \in Session : /\ Deadlocked(t)
                                          /\ chainLock = t /\ staged[t] # {} /\ phase[t] = "dml"
  BY DEF DeadlockNeedsSecondFlush
<1>0. TypeOK /\ LockInv /\ HolderInv
  BY DEF IInv, BaseInv, WaitInv
<1>1. backend = "postgresql"
  BY <1>0, NoCycleOnSQLite DEF TypeOK
<1>2. PICK cycle \in SUBSET Session :
        /\ s \in cycle
        /\ \A t \in cycle : /\ \E u \in cycle : WaitsFor(t, u)
                            /\ \E u \in cycle : WaitsFor(u, t)
  BY DEF Deadlocked
<1>3. \A t \in cycle : Deadlocked(t)
  BY <1>2 DEF Deadlocked
<1>4. \A t \in cycle : phase[t] \in {"dml", "lock"}
  BY <1>2 DEF WaitsFor
<1>5. CASE \E t \in cycle : phase[t] = "lock"
  <2>1. PICK t \in cycle : phase[t] = "lock"
    BY <1>5
  <2>2. PICK u \in cycle : WaitsFor(t, u)
    BY <1>2
  <2>3. chainLock = u
    BY <2>1, <2>2 DEF WaitsFor
  <2>4. PICK v \in cycle : WaitsFor(u, v)
    BY <1>2
  <2>5. phase[u] = "dml"
    BY <2>3, <2>4 DEF WaitsFor
  <2>6. staged[u] # {}
    BY <1>0, <1>1, <2>3, <2>5 DEF HolderInv
  <2> QED
    BY <1>1, <1>3, <2>3, <2>5, <2>6
<1>6. CASE \E t \in cycle : phase[t] = "dml" /\ staged[t] # {}
  BY <1>0, <1>1, <1>3, <1>6 DEF LockInv
<1>7. CASE \A t \in cycle : phase[t] = "dml" /\ staged[t] = {}
  BY <1>1, <1>2, <1>7, FirstFlushesDoNotCycle
<1> QED
  BY <1>4, <1>5, <1>6, <1>7

-----------------------------------------------------------------------------
(* The theorems *)

\* Locks, pending updates and the replay of the trail move together.
THEOREM ReplayInductive == Spec => [](IInv /\ ReplayInv /\ WaitInv)
<1>1. Init => ReplayInv /\ WaitInv
  BY ReplayInit, WaitInit
<1>2. IInv /\ ReplayInv /\ WaitInv /\ [Next]_vars => ReplayInv' /\ WaitInv'
  BY ReplayStep, WaitStep
<1> QED
  BY <1>1, <1>2, InductiveInvariant, PTL DEF Spec

\* Every write is audited exactly once and in the order it took effect:
\* between flushes, the trail a session sees replays to the rows it sees.
THEOREM TrailAlwaysReplays == Spec => []TrailReplaysData
<1>1. ReplayInv => TrailReplaysData
  <2> SUFFICES ASSUME ReplayInv, NEW s \in Session, phase[s] \in {"idle", "open"},
                      NEW r \in Record, NEW k \in Column
               PROVE  VisibleRow(s, r)[k] = Replay(VisibleTrail(s), r, k)
    BY DEF TrailReplaysData
  <2>1. Pending(s, r, k) = {}
    BY DEF ReplayInv, RestingInv, Pending
  <2> QED
    BY <2>1 DEF ReplayInv, SessionReplay
<1> QED
  BY <1>1, ReplayInductive, PTL

\* A deadlock of flushing transactions needs PostgreSQL and a transaction that
\* keeps the chain's lock from an earlier flush while it waits for a row.
THEOREM DeadlocksNeedSecondFlush == Spec => []DeadlockNeedsSecondFlush
<1>1. IInv /\ WaitInv => DeadlockNeedsSecondFlush
  BY CyclesNeedSecondFlush
<1> QED
  BY <1>1, ReplayInductive, PTL

-----------------------------------------------------------------------------
(* Tampering: the inductive invariant *)

\* No two rows have the same digest, and none has the one the chain starts with.
Fresh(rows) ==
    /\ \A r \in rows : r.entry_hash # Genesis
    /\ \A a, b \in rows : a.entry_hash = b.entry_hash => a = b

\* Before the edit.
Clean(rows, dialect) == Good(rows, dialect) /\ Fresh(rows)

\* After it: on SQLite id is the one number missing, or id is the number of a
\* row that does not recompute while all rows before it do.
Missing(rows, dialect, id) ==
    /\ dialect = "sqlite"
    /\ \A r \in rows : r.trail_id # id
    /\ \E r \in rows : r.trail_id > id
    /\ \A r \in rows : \A n \in 1 .. r.trail_id :
          n # id => \E q \in rows : q.trail_id = n
FirstBroken(rows, dialect, id) ==
    /\ NoGap(rows, dialect)
    /\ \E r \in rows : r.trail_id = id /\ ~Links(r, rows)
    /\ \A r \in rows : r.trail_id < id => Links(r, rows)
Located(rows, dialect, id) ==
    /\ id \in Nat \ {0}
    /\ Missing(rows, dialect, id) \/ FirstBroken(rows, dialect, id)

EditInv ==
    \A rows \in Views : IF culprit = Intact THEN Clean(rows, backend)
                                            ELSE Located(rows, backend, culprit)

TamperInv == BaseInv /\ EditInv

-----------------------------------------------------------------------------
(* Sets of audit rows *)

\* Every row but the first has one right before it, which its link names.
LEMMA BeforeShape ==
    ASSUME NEW rows, Shape(rows), NEW row \in rows
    PROVE  Shape(Before(row, rows))
<1>1. \A r \in Before(row, rows) : r \in rows /\ r.trail_id \in Nat /\ r.trail_id < row.trail_id
  BY DEF Shape, Before, RowOK
<1>2. ASSUME Before(row, rows) # {} PROVE \E r \in Before(row, rows) : IsLast(r, Before(row, rows))
  <2>1. PICK S : S = {n \in Nat : \A r \in Before(row, rows) : r.trail_id <= n}
    OBVIOUS
  <2>2. S \subseteq Nat /\ row.trail_id \in S
    BY <1>1, <2>1 DEF Shape, RowOK
  <2>3. PICK n \in S : \A m \in S : n <= m
    BY <2>2, LeastNat
  <2>4. ASSUME \A r \in Before(row, rows) : r.trail_id # n PROVE FALSE
    <3>1. PICK r \in Before(row, rows) : TRUE
      BY <1>2
    <3>2. n \in Nat /\ r.trail_id \in Nat /\ r.trail_id <= n /\ r.trail_id # n
      BY <1>1, <2>1, <2>3, <2>4
    <3>3. n - 1 \in Nat
      BY <3>2
    <3>4. \A q \in Before(row, rows) : q.trail_id <= n - 1
      BY <1>1, <2>1, <2>3, <2>4
    <3>5. n - 1 \in S
      BY <2>1, <3>3, <3>4
    <3> QED
      BY <2>3, <3>2, <3>5
  <2> QED
    BY <2>1, <2>3, <2>4 DEF IsLast
<1> QED
  BY <1>1, <1>2 DEF Shape, HasLast, Distinct

\* The row a recomputed or removed one is found by: the next in the trail.
LEMMA NextRow ==
    ASSUME NEW row \in trail, Shape(trail), Later(row, trail) # {}
    PROVE  \E next \in trail :
              /\ next.trail_id > row.trail_id
              /\ \A r \in trail : r.trail_id > row.trail_id => next.trail_id <= r.trail_id
              /\ Successor(row) = next.trail_id
<1>1. PICK S : S = TrailIds(Later(row, trail))
  OBVIOUS
<1>2. S \subseteq Nat /\ S # {}
  BY <1>1 DEF TrailIds, Later, Shape, RowOK
<1>3. \E n \in S : \A m \in S : n <= m
  BY <1>2, LeastNat
<1>4. Least(S) \in S /\ \A m \in S : Least(S) <= m
  BY <1>3 DEF Least
<1>5. PICK next \in Later(row, trail) : next.trail_id = Least(S)
  BY <1>1, <1>4 DEF TrailIds
<1> QED
  BY <1>1, <1>4, <1>5 DEF Later, TrailIds, Successor

\* verify_audit_chain reports the number of a located edit.
LEMMA LocatedReported ==
    ASSUME NEW rows, Shape(rows), NEW id, Located(rows, backend, id)
    PROVE  verify_audit_chain(rows) = <<FALSE, id>>
<1>1. id \in Nat \ {0} /\ \A r \in rows : r.trail_id \in Nat
  BY DEF Located, Shape, RowOK
<1>2. CASE Missing(rows, backend, id)
  <2>1. PICK top \in rows : IsLast(top, rows)
    BY <1>2 DEF Missing, Shape, HasLast
  <2>2. TopId(rows) = top.trail_id
    BY <2>1, LastRow
  <2>3. id \in 1 .. top.trail_id
    BY <1>1, <1>2, <2>1 DEF Missing, IsLast
  <2>4. Gaps(rows) = {id}
    BY <1>2, <2>1, <2>2, <2>3 DEF Gaps, TrailIds, Missing
  <2>5. Least({id}) = id
    BY <1>1 DEF Least
  <2> QED
    BY <2>4, <2>5 DEF verify_audit_chain
<1>3. CASE FirstBroken(rows, backend, id)
  <2>1. Gaps(rows) = {}
    <3>1. CASE backend = "sqlite"
      <4>1. PICK top \in rows : IsLast(top, rows)
        BY <1>3 DEF FirstBroken, Shape, HasLast
      <4>2. TopId(rows) = top.trail_id
        BY <4>1, LastRow
      <4>3. \A n \in 1 .. top.trail_id : \E r \in rows : r.trail_id = n
        BY <1>3, <3>1, <4>1 DEF FirstBroken, NoGap
      <4> QED
        BY <4>2, <4>3 DEF Gaps, TrailIds
    <3>2. CASE backend # "sqlite"
      BY <3>2 DEF Gaps
    <3> QED
      BY <3>1, <3>2
  <2>2. id \in Broken(rows) /\ \A n \in Broken(rows) : n \in Nat /\ id <= n
    BY <1>1, <1>3 DEF Broken, TrailIds, FirstBroken
  <2>3. Least(Broken(rows)) = id
    <3>1. PICK n : n = Least(Broken(rows))
      OBVIOUS
    <3>2. n \in Broken(rows) /\ n <= id
      BY <2>2, <3>1 DEF Least
    <3>3. n \in Nat /\ id <= n
      BY <2>2, <3>2
    <3> QED
      BY <1>1, <3>1, <3>2, <3>3
  <2> QED
    BY <2>1, <2>2, <2>3 DEF verify_audit_chain
<1> QED
  BY <1>2, <1>3 DEF Located

-----------------------------------------------------------------------------
(* The steps of the sessions *)

\* A new row's digest is new: a row with the same one would carry the last
\* hash, which is the digest of a row that comes before nothing.
LEMMA AppendKeepsClean ==
    ASSUME NEW old, Clean(old, backend), NEW rows, Appended(rows, old)
    PROVE  Clean(rows, backend)
<1>0. Good(old, backend) /\ Shape(old) /\ Fresh(old) /\ Good(rows, backend)
  BY AppendKeepsGood DEF Clean, Good
<1>1. PICK new : Follows(new, old) /\ rows = old \union {new}
  BY DEF Appended
<1>2. new.entry_hash = <<new.change, new.user_id, LastHash(old)>>
  BY <1>0, <1>1, AppendKeepsLinks
<1>3. new.entry_hash # Genesis
  BY <1>2 DEF Genesis
<1>4. ASSUME NEW b \in old, b.entry_hash = new.entry_hash PROVE FALSE
  <2>1. b.entry_hash = <<b.change, b.user_id, LastHash(Before(b, old))>>
    BY <1>0 DEF Good, Links, compute_entry_hash
  <2>2. LastHash(Before(b, old)) = LastHash(old)
    BY <1>2, <1>4, <2>1
  <2>3. PICK top \in old : IsLast(top, old)
    BY <1>0 DEF Shape, HasLast
  <2>4. LastHash(old) = top.entry_hash /\ top.entry_hash # Genesis
    BY <1>0, <2>3, LastRow DEF Fresh
  <2>5. Before(b, old) # {}
    BY <2>2, <2>4 DEF LastHash
  <2>6. Shape(Before(b, old))
    BY <1>0, BeforeShape
  <2>7. PICK r \in Before(b, old) : IsLast(r, Before(b, old))
    BY <2>5, <2>6 DEF Shape, HasLast
  <2>8. LastHash(Before(b, old)) = r.entry_hash
    BY <2>6, <2>7, LastRow
  <2>9. r = top
    BY <1>0, <2>2, <2>4, <2>7, <2>8 DEF Fresh, Before
  <2> QED
    BY <1>0, <2>3, <2>7, <2>9 DEF Before, IsLast, Shape, RowOK
<1> QED
  BY <1>0, <1>1, <1>3, <1>4 DEF Clean, Fresh

\* Whatever is appended behind an edit, it is still the first thing wrong.
LEMMA AppendKeepsLocated ==
    ASSUME NEW old, Shape(old), NEW id, Located(old, backend, id),
           NEW rows, Appended(rows, old)
    PROVE  Located(rows, backend, id)
<1>0. PICK new : Follows(new, old) /\ rows = old \union {new}
  BY DEF Appended
<1>1. id \in Nat \ {0} /\ new.trail_id \in Nat /\ \A r \in old : r.trail_id \in Nat
  BY <1>0 DEF Located, Shape, RowOK, Follows
<1>2. \A r \in old : r.trail_id < new.trail_id
  BY <1>0 DEF Follows
<1>3. \A r \in old : Links(r, rows) <=> Links(r, old)
  BY <1>0, AppendKeepsLinks
<1>4. Links(new, rows)
  BY <1>0, AppendKeepsLinks
<1>5. ASSUME backend = "sqlite", old # {}
      PROVE  \E top \in old : new.trail_id = top.trail_id + 1
  <2>1. PICK top \in old : IsLast(top, old)
    BY <1>5 DEF Shape, HasLast
  <2>2. TopId(old) = top.trail_id
    BY <2>1, LastRow
  <2> QED
    BY <1>0, <1>5, <2>1, <2>2 DEF Follows
<1>6. CASE Missing(old, backend, id)
  <2>1. PICK top \in old : new.trail_id = top.trail_id + 1
    BY <1>5, <1>6 DEF Missing
  <2>2. \A n \in 1 .. new.trail_id : n # id => \E q \in rows : q.trail_id = n
    <3> SUFFICES ASSUME NEW n \in 1 .. new.trail_id, n # id
                 PROVE  \E q \in rows : q.trail_id = n
      OBVIOUS
    <3>1. CASE n = new.trail_id
      BY <1>0, <3>1
    <3>2. CASE n # new.trail_id
      <4>1. n \in 1 .. top.trail_id
        BY <1>1, <2>1, <3>2
      <4> QED
        BY <1>0, <1>6, <4>1 DEF Missing
    <3> QED
      BY <3>1, <3>2
  <2>3. Missing(rows, backend, id)
    BY <1>0, <1>1, <1>2, <1>6, <2>2 DEF Missing
  <2> QED
    BY <1>1, <2>3 DEF Located
<1>7. CASE FirstBroken(old, backend, id)
  <2>1. NoGap(rows, backend)
    <3> SUFFICES ASSUME backend = "sqlite", NEW row \in rows, NEW n \in 1 .. row.trail_id
                 PROVE  \E r \in rows : r.trail_id = n
      BY DEF NoGap
    <3>1. CASE row \in old
      BY <1>0, <1>7, <3>1 DEF FirstBroken, NoGap
    <3>2. CASE n = new.trail_id
      BY <1>0, <3>2
    <3>3. CASE row = new /\ n # new.trail_id
      <4>1. PICK top \in old : new.trail_id = top.trail_id + 1
        BY <1>5, <1>7 DEF FirstBroken
      <4>2. n \in 1 .. top.trail_id
        BY <1>1, <3>3, <4>1
      <4> QED
        BY <1>0, <1>7, <4>1, <4>2 DEF FirstBroken, NoGap
    <3> QED
      BY <1>0, <3>1, <3>2, <3>3
  <2>2. \E r \in rows : r.trail_id = id /\ ~Links(r, rows)
    BY <1>0, <1>3, <1>7 DEF FirstBroken
  <2>3. \A r \in rows : r.trail_id < id => Links(r, rows)
    BY <1>0, <1>3, <1>4, <1>7 DEF FirstBroken
  <2> QED
    BY <1>1, <2>1, <2>2, <2>3 DEF Located, FirstBroken
<1> QED
  BY <1>6, <1>7 DEF Located

\* What sessions do keeps the edit the first thing wrong with every trail.
LEMMA SessionStep ==
    ASSUME TamperInv, [Next]_vars, culprit' = culprit
    PROVE  TamperInv'
<1>1. BaseInv' /\ ViewsGrow
  BY BaseStep DEF TamperInv
<1>2. backend' = backend
  BY DEF Next, vars, Load, Close, Flush, Statement, LockChain, ReadLast, AppendRow, Commit, Rollback
<1>3. ASSUME NEW rows \in Views'
      PROVE  IF culprit = Intact THEN Clean(rows, backend) ELSE Located(rows, backend, culprit)
  <2>1. PICK old \in Views : rows = old \/ Appended(rows, old)
    BY <1>1 DEF ViewsGrow
  <2>2. Shape(old)
    BY DEF TamperInv, BaseInv, ShapeInv
  <2>3. IF culprit = Intact THEN Clean(old, backend) ELSE Located(old, backend, culprit)
    BY DEF TamperInv, EditInv
  <2>4. CASE culprit = Intact
    BY <2>1, <2>3, <2>4, AppendKeepsClean
  <2>5. CASE culprit # Intact
    BY <2>1, <2>2, <2>3, <2>5, AppendKeepsLocated
  <2> QED
    BY <2>4, <2>5
<1>4. EditInv'
  <2> SUFFICES ASSUME NEW rows \in Views'
               PROVE  (IF culprit = Intact THEN Clean(rows, backend)
                                           ELSE Located(rows, backend, culprit))'
    BY DEF EditInv
  <2> QED
    BY <1>2, <1>3
<1> QED
  BY <1>1, <1>4 DEF TamperInv

-----------------------------------------------------------------------------
(* The edit *)

\* What an edit of a committed row does to the sets of rows anybody sees.
\* Rows of a running transaction are not among those edited and come last.
LEMMA EditedViews ==
    ASSUME BaseInv, NEW row \in trail, NEW put,
           trail' = (trail \ {row}) \union put, staged' = staged
    PROVE  /\ \A s \in Session : VisibleTrail(s)' = (VisibleTrail(s) \ {row}) \union put
           /\ \A rows \in Views' : \E old \in Views : rows = (old \ {row}) \union put
           /\ \A old \in Views : /\ trail \subseteq old
                                 /\ \A r \in old : \/ r \in trail
                                                   \/ \A q \in trail : q.trail_id < r.trail_id
<1>1. ASSUME NEW s \in Session, row \in staged[s] PROVE FALSE
  BY <1>1 DEF BaseInv, TypeOK, RowOK, OrderInv
<1>2. \A s \in Session : VisibleTrail(s)' = (VisibleTrail(s) \ {row}) \union put
  BY <1>1 DEF VisibleTrail
<1>3. ASSUME NEW rows \in Views'
      PROVE  \E old \in Views : rows = (old \ {row}) \union put
  BY <1>2 DEF Views
<1>4. ASSUME NEW old \in Views
      PROVE  /\ trail \subseteq old
             /\ \A r \in old : r \in trail \/ \A q \in trail : q.trail_id < r.trail_id
  BY DEF Views, BaseInv, OrderInv, VisibleTrail
<1> QED
  BY <1>2, <1>3, <1>4

\* A row rewritten under its own number keeps the order of the rows, and the
\* last hash unless it is the last row's.
LEMMA RewriteKeepsShape ==
    ASSUME NEW old, Shape(old), NEW row \in old, NEW new, RowOK(new),
           new.trail_id = row.trail_id,
           \/ new.entry_hash = row.entry_hash
           \/ \E r \in old : r.trail_id > row.trail_id
    PROVE  LET rows == (old \ {row}) \union {new}
           IN  Shape(rows) /\ LastHash(rows) = LastHash(old)
<1> DEFINE rows == (old \ {row}) \union {new}
<1>1. \A r \in rows : RowOK(r)
  BY DEF Shape
<1>2. Distinct(rows)
  BY DEF Shape, Distinct
<1>3. PICK top \in old : IsLast(top, old)
  BY DEF Shape, HasLast
<1>4. LastHash(old) = top.entry_hash
  BY <1>3, LastRow
<1>5. CASE top = row
  <2>1. IsLast(new, rows)
    BY <1>1, <1>3, <1>5 DEF IsLast, RowOK
  <2>2. Shape(rows)
    BY <1>1, <1>2, <2>1 DEF Shape, HasLast
  <2>3. LastHash(rows) = new.entry_hash
    BY <2>1, <2>2, LastRow
  <2>4. new.entry_hash = row.entry_hash
    BY <1>3, <1>5 DEF IsLast, Shape, RowOK
  <2> QED
    BY <1>4, <1>5, <2>2, <2>3, <2>4
<1>6. CASE top # row
  <2>0. top \in rows /\ \A r \in old : r.trail_id <= top.trail_id
    BY <1>3, <1>6 DEF IsLast
  <2>1. IsLast(top, rows)
    <3>1. \A r \in rows : r.trail_id <= top.trail_id
      BY <2>0
    <3> QED
      BY <2>0, <3>1 DEF IsLast
  <2>2. Shape(rows)
    BY <1>1, <1>2, <2>0, <2>1 DEF Shape, HasLast
  <2>3. LastHash(rows) = top.entry_hash
    BY <2>0, <2>1, <2>2, LastRow
  <2> QED
    BY <1>4, <2>2, <2>3
<1> QED
  BY <1>5, <1>6

\* Without a row that is not the last, the trail ends as before.
LEMMA RemovalKeepsShape ==
    ASSUME NEW old, Shape(old), NEW row \in old, \E r \in old : r.trail_id > row.trail_id
    PROVE  Shape(old \ {row}) /\ LastHash(old \ {row}) = LastHash(old)
<1>1. PICK top \in old : IsLast(top, old)
  BY DEF Shape, HasLast
<1>2. top \in old \ {row} /\ IsLast(top, old \ {row})
  <2>1. PICK r \in old : r.trail_id > row.trail_id
    OBVIOUS
  <2>2. r.trail_id \in Nat /\ row.trail_id \in Nat /\ top.trail_id \in Nat
    BY <1>1, <2>1 DEF Shape, RowOK
  <2>3. top # row
    BY <1>1, <2>1, <2>2 DEF IsLast
  <2> QED
    BY <1>1, <2>3 DEF IsLast
<1>3. Shape(old \ {row})
  BY <1>2 DEF Shape, HasLast, Distinct
<1> QED
  BY <1>1, <1>2, <1>3, LastRow

\* Sessions can go on writing after an edit that keeps the rows' order.
LEMMA EditKeepsBase ==
    ASSUME BaseInv, NEW row \in trail, NEW put,
           trail' = (trail \ {row}) \union put, UNCHANGED Elsewhere,
           \A new \in put : RowOK(new) /\ new.trail_id = row.trail_id,
           \A old \in Views : LET rows == (old \ {row}) \union put
                              IN  Shape(rows) /\ LastHash(rows) = LastHash(old)
    PROVE  BaseInv'
<1>0. /\ TypeOK /\ LockInv /\ OrderInv /\ SequenceInv /\ ListenerInv
      /\ staged' = staged /\ backend' = backend /\ nextval' = nextval
      /\ phase' = phase /\ last' = last /\ chainLock' = chainLock
  BY DEF BaseInv, Elsewhere
<1>1. /\ \A s \in Session : VisibleTrail(s)' = (VisibleTrail(s) \ {row}) \union put
      /\ \A rows \in Views' : \E old \in Views : rows = (old \ {row}) \union put
  BY <1>0, EditedViews
<1>2. TypeOK'
  BY <1>0 DEF TypeOK, Elsewhere, data, RowOK
<1>3. LockInv'
  BY <1>0 DEF LockInv
<1>4. OrderInv'
  BY <1>0 DEF OrderInv
<1>5. SequenceInv'
  BY <1>0, <1>1 DEF SequenceInv, VisibleTrail
<1>6. ListenerInv'
  <2>1. \A s \in Session : LastHash(VisibleTrail(s)') = LastHash(VisibleTrail(s))
    BY <1>1 DEF Views
  <2> QED
    BY <1>0, <2>1 DEF ListenerInv
<1>7. ShapeInv'
  <2>1. \A rows \in Views' : Shape(rows)
    BY <1>1
  <2> QED
    BY <2>1 DEF ShapeInv, Shape, HasLast, Distinct, IsLast, RowOK
<1> QED
  BY <1>2, <1>3, <1>4, <1>5, <1>6, <1>7 DEF BaseInv

\* A rewritten change no longer has the row's digest.
LEMMA EditedIsBroken ==
    ASSUME NEW old, Good(old, backend), NEW row \in old, NEW new, RowOK(new),
           new.trail_id = row.trail_id, new.entry_hash = row.entry_hash,
           new.change # row.change
    PROVE  Located((old \ {row}) \union {new}, backend, row.trail_id)
<1> DEFINE rows == (old \ {row}) \union {new}
<1>1. \A r \in rows \union old : RowOK(r)
  BY DEF Good, Shape
<1>2. ~Links(new, rows)
  <2>1. row.entry_hash = <<row.change, row.user_id, row.previous_entry_hash>>
    BY DEF Good, Links, compute_entry_hash
  <2> QED
    BY <2>1 DEF Links, compute_entry_hash
<1>3. ASSUME NEW r \in rows, r.trail_id < row.trail_id PROVE Links(r, rows)
  <2>1. r \in old
    BY <1>1, <1>3 DEF RowOK
  <2>2. Before(r, rows) = Before(r, old)
    BY <1>1, <1>3 DEF Before, RowOK
  <2> QED
    BY <2>1, <2>2 DEF Good, Links
<1>4. NoGap(rows, backend)
  <2> SUFFICES ASSUME backend = "sqlite", NEW r \in rows, NEW n \in 1 .. r.trail_id
               PROVE  \E q \in rows : q.trail_id = n
    BY DEF NoGap
  <2>1. PICK q \in old : q.trail_id = n
    BY DEF Good, NoGap
  <2> QED
    BY <2>1
<1>5. row.trail_id \in Nat \ {0}
  BY <1>1 DEF RowOK
<1> QED
  BY <1>2, <1>3, <1>4, <1>5 DEF Located, FirstBroken

\* The row after a forged one names a digest that is no longer there.
LEMMA ForgedIsBroken ==
    ASSUME NEW old, Good(old, backend), NEW row \in old, NEW new, RowOK(new),
           new.trail_id = row.trail_id,
           new.entry_hash = <<new.change, new.user_id, new.previous_entry_hash>>,
           new.previous_entry_hash = row.previous_entry_hash,
           new.change # row.change,
           NEW next \in old, next.trail_id > row.trail_id,
           \A r \in old : r.trail_id > row.trail_id => next.trail_id <= r.trail_id
    PROVE  Located((old \ {row}) \union {new}, backend, next.trail_id)
<1> DEFINE rows == (old \ {row}) \union {new}
<1>0. Shape(old) /\ \A r \in old : Links(r, old)
  BY DEF Good
<1>1. \A r \in rows \union old : RowOK(r)
  BY <1>0 DEF Shape
<1>2. \A r \in old : r.trail_id = row.trail_id => r = row
  BY <1>0 DEF Shape, Distinct
<1>3. next \in rows
  BY <1>1 DEF RowOK
<1>4. Before(new, rows) = Before(row, old) /\ Links(new, rows)
  <2>1. Before(new, rows) = Before(row, old)
    BY <1>1 DEF Before, RowOK
  <2> QED
    BY <1>0, <2>1 DEF Links, compute_entry_hash
<1>5. LastHash(Before(next, old)) = row.entry_hash
  <2>1. IsLast(row, Before(next, old))
    BY <1>1 DEF IsLast, Before, RowOK
  <2>2. Shape(Before(next, old))
    BY <1>0, BeforeShape
  <2> QED
    BY <2>1, <2>2, LastRow DEF IsLast
<1>6. LastHash(Before(next, rows)) = new.entry_hash
  <2>1. IsLast(new, Before(next, rows))
    <3>1. new \in rows /\ next.trail_id \in Nat /\ \A r \in rows : r.trail_id \in Nat
      BY <1>1, <1>3 DEF RowOK
    <3>2. \A r \in rows : r.trail_id < next.trail_id => r.trail_id <= new.trail_id
      BY <1>1, <3>1 DEF RowOK
    <3>3. new \in Before(next, rows)
      BY <3>1 DEF Before
    <3>4. \A r \in Before(next, rows) : r.trail_id <= new.trail_id
      BY <3>2 DEF Before
    <3> QED
      BY <3>3, <3>4 DEF IsLast
  <2>2. Distinct(Before(next, rows))
    <3>1. \A a, b \in rows : a.trail_id = b.trail_id => a = b
      BY <1>0, <1>2 DEF Distinct, Shape
    <3> QED
      BY <3>1 DEF Distinct, Before
  <2>3. Shape(Before(next, rows))
    BY <1>1, <2>1, <2>2 DEF Shape, HasLast, Before
  <2> QED
    BY <2>1, <2>3, LastRow DEF IsLast
<1>7. ~Links(next, rows)
  <2>1. row.entry_hash = <<row.change, row.user_id, row.previous_entry_hash>>
    BY <1>0 DEF Links, compute_entry_hash
  <2>2. next.previous_entry_hash = row.entry_hash
    BY <1>0, <1>5 DEF Links
  <2> QED
    BY <1>6, <2>1, <2>2 DEF Links
<1>8. ASSUME NEW r \in rows, r.trail_id < next.trail_id PROVE Links(r, rows)
  <2>1. CASE r = new
    BY <1>4, <2>1
  <2>2. CASE r # new
    <3>1. r \in old /\ r.trail_id < row.trail_id
      BY <1>1, <1>2, <1>8, <2>2 DEF RowOK
    <3>2. Before(r, rows) = Before(r, old)
      BY <1>1, <3>1 DEF Before, RowOK
    <3> QED
      BY <1>0, <3>1, <3>2 DEF Links
  <2> QED
    BY <2>1, <2>2
<1>9. NoGap(rows, backend)
  <2> SUFFICES ASSUME backend = "sqlite", NEW r \in rows, NEW n \in 1 .. r.trail_id
               PROVE  \E q \in rows : q.trail_id = n
    BY DEF NoGap
  <2>1. PICK q \in old : q.trail_id = n
    BY DEF Good, NoGap
  <2> QED
    BY <2>1
<1>10. next.trail_id \in Nat \ {0}
  BY <1>1 DEF RowOK
<1> QED
  BY <1>3, <1>7, <1>8, <1>9, <1>10 DEF Located, FirstBroken

\* A removed row leaves a gap on SQLite; on PostgreSQL the next row names its
\* digest, which no row has any more.
LEMMA RemovedIsBroken ==
    ASSUME NEW old, Clean(old, backend), NEW row \in old,
           NEW next \in old, next.trail_id > row.trail_id,
           \A r \in old : r.trail_id > row.trail_id => next.trail_id <= r.trail_id
    PROVE  Located(old \ {row}, backend,
                   IF backend = "sqlite" THEN row.trail_id ELSE next.trail_id)
<1> DEFINE rows == old \ {row}
<1>0. /\ Shape(old) /\ Fresh(old) /\ Distinct(old) /\ NoGap(old, backend)
      /\ \A r \in old : Links(r, old) /\ RowOK(r)
  BY DEF Clean, Good, Shape
<1>1. \A r \in old : r.trail_id \in Nat \ {0} /\ (r.trail_id = row.trail_id => r = row)
  BY <1>0 DEF RowOK, Distinct
<1>2. next \in rows
  BY <1>1
<1>3. CASE backend = "sqlite"
  <2>1. ASSUME NEW r \in rows, NEW n \in 1 .. r.trail_id, n # row.trail_id
        PROVE  \E q \in rows : q.trail_id = n
    <3>1. PICK q \in old : q.trail_id = n
      BY <1>0, <1>3 DEF NoGap
    <3> QED
      BY <2>1, <3>1
  <2>2. Missing(rows, backend, row.trail_id)
    BY <1>1, <1>2, <1>3, <2>1 DEF Missing
  <2> QED
    BY <1>1, <1>3, <2>2 DEF Located
<1>4. CASE backend # "sqlite"
  <2>1. LastHash(Before(next, old)) = row.entry_hash
    <3>1. row \in Before(next, old) /\ \A r \in Before(next, old) : r.trail_id <= row.trail_id
      BY <1>1 DEF Before
    <3>2. Shape(Before(next, old))
      BY <1>0, BeforeShape
    <3> QED
      BY <3>1, <3>2, LastRow DEF IsLast
  <2>2. Before(next, rows) = Before(row, old)
    <3>1. \A r \in rows : r.trail_id < next.trail_id <=> r.trail_id < row.trail_id
      BY <1>1
    <3>2. row \notin Before(row, old)
      BY <1>1 DEF Before
    <3> QED
      BY <3>1, <3>2 DEF Before
  <2>3. LastHash(Before(row, old)) # row.entry_hash
    <3>1. CASE Before(row, old) = {}
      BY <1>0, <3>1 DEF LastHash, Fresh
    <3>2. CASE Before(row, old) # {}
      <4>1. Shape(Before(row, old))
        BY <1>0, BeforeShape
      <4>2. PICK r \in Before(row, old) : IsLast(r, Before(row, old))
        BY <3>2, <4>1 DEF Shape, HasLast
      <4>3. LastHash(Before(row, old)) = r.entry_hash
        BY <4>1, <4>2, LastRow
      <4>4. r \in old /\ r # row
        BY <1>1 DEF Before
      <4> QED
        BY <1>0, <4>3, <4>4 DEF Fresh
    <3> QED
      BY <3>1, <3>2
  <2>4. ~Links(next, rows)
    BY <1>0, <2>1, <2>2, <2>3 DEF Links
  <2>5. ASSUME NEW r \in rows, r.trail_id < next.trail_id PROVE Links(r, rows)
    <3>1. r.trail_id < row.trail_id
      BY <1>1, <2>5
    <3>2. Before(r, rows) = Before(r, old)
      BY <1>1, <3>1 DEF Before
    <3> QED
      BY <1>0, <3>2 DEF Links
  <2>6. FirstBroken(rows, backend, next.trail_id)
    BY <1>2, <1>4, <2>4, <2>5 DEF FirstBroken, NoGap
  <2> QED
    BY <1>1, <1>4, <2>6 DEF Located
<1> QED
  BY <1>3, <1>4

\* Every view holds the edited row and the next one, with nothing in between.
LEMMA NextInViews ==
    ASSUME BaseInv, NEW row \in trail, NEW next \in trail,
           \A r \in trail : r.trail_id > row.trail_id => next.trail_id <= r.trail_id,
           NEW old \in Views
    PROVE  /\ row \in old /\ next \in old
           /\ \A r \in old : r.trail_id > row.trail_id => next.trail_id <= r.trail_id
<1>1. /\ trail \subseteq old
      /\ \A r \in old : r \in trail \/ \A q \in trail : q.trail_id < r.trail_id
  BY DEF Views, BaseInv, OrderInv, VisibleTrail
<1>2. \A r \in old : r.trail_id \in Nat
  BY DEF BaseInv, ShapeInv, Shape, RowOK
<1> QED
  BY <1>1, <1>2

\* Rows that can be edited are numbered and in every view.
LEMMA NumbersOnly ==
    ASSUME TamperInv, NEW row \in trail
    PROVE  /\ Shape(trail) /\ RowOK(row) /\ row.trail_id \in Nat \ {0}
           /\ row.change \in Change /\ row.change.new \in RowValue
           /\ \A old \in Views : Shape(old) /\ row \in old
<1>1. Shape(trail) /\ \A old \in Views : Shape(old) /\ trail \subseteq old
  BY DEF TamperInv, BaseInv, ShapeInv, Views, VisibleTrail
<1> QED
  BY <1>1 DEF Shape, RowOK, Change

\* A changed value makes another change of the right type.
LEMMA Rewritten ==
    ASSUME NEW change \in Change, NEW value \in RowValue, value # change.new
    PROVE  [change EXCEPT !.new = value] \in Change /\ [change EXCEPT !.new = value] # change
<1>1. change = [rec |-> change.rec, old |-> change.old, new |-> change.new]
  BY DEF Change
<1>2. [change EXCEPT !.new = value] = [rec |-> change.rec, old |-> change.old, new |-> value]
  BY <1>1
<1> QED
  BY <1>2 DEF Change

\* Once every view locates the edit, the invariant holds.
LEMMA LocatedInv ==
    ASSUME BaseInv', backend' = backend, NEW id \in Nat, culprit' = id,
           \A rows \in Views' : Located(rows, backend, id)
    PROVE  TamperInv'
<1>1. culprit' # Intact
  BY IntactAssumption
<1>2. EditInv'
  <2> SUFFICES ASSUME NEW rows \in Views'
               PROVE  (IF culprit = Intact THEN Clean(rows, backend)
                                           ELSE Located(rows, backend, culprit))'
    BY DEF EditInv
  <2> QED
    BY <1>1
<1> QED
  BY <1>2 DEF TamperInv

\* An edited row is the first one whose hash is wrong.
LEMMA EditStep ==
    ASSUME TamperInv, culprit = Intact, EditRow, UNCHANGED Elsewhere
    PROVE  TamperInv'
<1>1. PICK row \in trail, value \in RowValue :
        /\ value # row.change.new
        /\ trail' = (trail \ {row}) \union {[row EXCEPT !.change.new = value]}
        /\ culprit' = row.trail_id
  BY DEF EditRow
<1>2. PICK new : new = [row EXCEPT !.change.new = value]
  OBVIOUS
<1>3. /\ Shape(trail) /\ RowOK(row) /\ row.trail_id \in Nat \ {0}
      /\ row.change \in Change
      /\ \A old \in Views : Shape(old) /\ row \in old
  BY NumbersOnly
<1>4. [row.change EXCEPT !.new = value] \in Change /\ [row.change EXCEPT !.new = value] # row.change
  BY <1>1, <1>3, Rewritten
<1>5. /\ DOMAIN new = DOMAIN row
      /\ new.trail_id = row.trail_id /\ new.user_id = row.user_id
      /\ new.entry_hash = row.entry_hash
      /\ new.change = [row.change EXCEPT !.new = value]
  BY <1>2, <1>3 DEF RowOK
<1>6. RowOK(new)
  BY <1>3, <1>4, <1>5 DEF RowOK
<1>7. \A old \in Views : Good(old, backend)
  BY DEF TamperInv, EditInv, Clean
<1>8. ASSUME NEW old \in Views
      PROVE  /\ Shape((old \ {row}) \union {new})
             /\ LastHash((old \ {row}) \union {new}) = LastHash(old)
             /\ Located((old \ {row}) \union {new}, backend, row.trail_id)
  <2>1. row \in old /\ Shape(old) /\ Good(old, backend) /\ new.change # row.change
    BY <1>3, <1>4, <1>5, <1>7
  <2>2. Located((old \ {row}) \union {new}, backend, row.trail_id)
    BY <1>5, <1>6, <2>1, EditedIsBroken
  <2>3. /\ Shape((old \ {row}) \union {new})
        /\ LastHash((old \ {row}) \union {new}) = LastHash(old)
    BY <1>5, <1>6, <2>1, RewriteKeepsShape
  <2> QED
    BY <2>2, <2>3
<1>9. PICK put : put = {new}
  OBVIOUS
<1>10. /\ trail' = (trail \ {row}) \union put
       /\ \A r \in put : RowOK(r) /\ r.trail_id = row.trail_id
       /\ \A old \in Views : LET rows == (old \ {row}) \union put
                             IN  Shape(rows) /\ LastHash(rows) = LastHash(old)
       /\ BaseInv /\ staged' = staged /\ backend' = backend
  BY <1>1, <1>2, <1>5, <1>6, <1>8, <1>9 DEF TamperInv, Elsewhere
<1>11. BaseInv'
  BY <1>10, EditKeepsBase
<1>12. \A rows \in Views' : \E old \in Views : rows = (old \ {row}) \union put
  BY <1>10, EditedViews
<1>13. \A rows \in Views' : Located(rows, backend, row.trail_id)
  BY <1>8, <1>9, <1>12
<1> QED
  BY <1>1, <1>3, <1>10, <1>11, <1>13, LocatedInv

\* After a forged row the next one does not link to it.
LEMMA ForgeStep ==
    ASSUME TamperInv, culprit = Intact, ForgeRow, UNCHANGED Elsewhere
    PROVE  TamperInv'
<1>1. PICK row \in trail, value \in RowValue :
        /\ value # row.change.new
        /\ Later(row, trail) # {}
        /\ trail' = (trail \ {row}) \union
               {audit_row(row.trail_id, [row.change EXCEPT !.new = value],
                          row.user_id, row.previous_entry_hash)}
        /\ culprit' = Successor(row)
  BY DEF ForgeRow
<1>2. PICK new : new = audit_row(row.trail_id, [row.change EXCEPT !.new = value],
                                 row.user_id, row.previous_entry_hash)
  OBVIOUS
<1>3. /\ Shape(trail) /\ RowOK(row) /\ row.trail_id \in Nat \ {0}
      /\ row.change \in Change
      /\ \A old \in Views : Shape(old) /\ row \in old
  BY NumbersOnly
<1>4. [row.change EXCEPT !.new = value] \in Change /\ [row.change EXCEPT !.new = value] # row.change
  BY <1>1, <1>3, Rewritten
<1>5. /\ new.trail_id = row.trail_id
      /\ new.entry_hash = <<new.change, new.user_id, new.previous_entry_hash>>
      /\ new.previous_entry_hash = row.previous_entry_hash
      /\ new.change # row.change /\ RowOK(new)
  BY <1>2, <1>3, <1>4 DEF audit_row, compute_entry_hash, RowOK
<1>6. PICK next \in trail :
        /\ next.trail_id > row.trail_id
        /\ \A r \in trail : r.trail_id > row.trail_id => next.trail_id <= r.trail_id
        /\ Successor(row) = next.trail_id
  BY <1>1, <1>3, NextRow
<1>7. BaseInv /\ \A old \in Views : Good(old, backend)
  BY DEF TamperInv, EditInv, Clean
<1>8. ASSUME NEW old \in Views
      PROVE  /\ Shape((old \ {row}) \union {new})
             /\ LastHash((old \ {row}) \union {new}) = LastHash(old)
             /\ Located((old \ {row}) \union {new}, backend, next.trail_id)
  <2>1. /\ row \in old /\ next \in old /\ Shape(old) /\ Good(old, backend)
        /\ \A r \in old : r.trail_id > row.trail_id => next.trail_id <= r.trail_id
    BY <1>3, <1>6, <1>7, NextInViews
  <2>2. Located((old \ {row}) \union {new}, backend, next.trail_id)
    BY <1>5, <1>6, <2>1, ForgedIsBroken
  <2>3. /\ Shape((old \ {row}) \union {new})
        /\ LastHash((old \ {row}) \union {new}) = LastHash(old)
    BY <1>5, <1>6, <2>1, RewriteKeepsShape
  <2> QED
    BY <2>2, <2>3
<1>9. PICK put : put = {new}
  OBVIOUS
<1>10. /\ trail' = (trail \ {row}) \union put
       /\ \A r \in put : RowOK(r) /\ r.trail_id = row.trail_id
       /\ \A old \in Views : LET rows == (old \ {row}) \union put
                             IN  Shape(rows) /\ LastHash(rows) = LastHash(old)
       /\ staged' = staged /\ backend' = backend
  BY <1>1, <1>2, <1>5, <1>8, <1>9 DEF Elsewhere
<1>11. BaseInv'
  BY <1>7, <1>10, EditKeepsBase
<1>12. \A rows \in Views' : \E old \in Views : rows = (old \ {row}) \union put
  BY <1>7, <1>10, EditedViews
<1>13. \A rows \in Views' : Located(rows, backend, next.trail_id)
  BY <1>8, <1>9, <1>12
<1>14. next.trail_id \in Nat /\ culprit' = next.trail_id
  BY <1>1, <1>3, <1>6 DEF Shape, RowOK
<1> QED
  BY <1>10, <1>11, <1>13, <1>14, LocatedInv

\* After a removed row the next one does not link to what is before it.
LEMMA DeleteStep ==
    ASSUME TamperInv, culprit = Intact, DeleteRow, UNCHANGED Elsewhere
    PROVE  TamperInv'
<1>1. PICK row \in trail :
        /\ Later(row, trail) # {}
        /\ trail' = trail \ {row}
        /\ culprit' = IF backend = "sqlite" THEN row.trail_id ELSE Successor(row)
  BY DEF DeleteRow
<1>3. /\ Shape(trail) /\ row.trail_id \in Nat \ {0}
      /\ \A old \in Views : Shape(old) /\ row \in old
  BY NumbersOnly
<1>6. PICK next \in trail :
        /\ next.trail_id > row.trail_id
        /\ \A r \in trail : r.trail_id > row.trail_id => next.trail_id <= r.trail_id
        /\ Successor(row) = next.trail_id
  BY <1>1, <1>3, NextRow
<1>7. BaseInv /\ \A old \in Views : Clean(old, backend)
  BY DEF TamperInv, EditInv
<1>8. PICK id : id = IF backend = "sqlite" THEN row.trail_id ELSE next.trail_id
  OBVIOUS
<1>9. ASSUME NEW old \in Views
      PROVE  /\ Shape(old \ {row}) /\ LastHash(old \ {row}) = LastHash(old)
             /\ Located(old \ {row}, backend, id)
  <2>1. /\ row \in old /\ next \in old /\ Shape(old) /\ Clean(old, backend)
        /\ \A r \in old : r.trail_id > row.trail_id => next.trail_id <= r.trail_id
    BY <1>3, <1>6, <1>7, NextInViews
  <2>2. Located(old \ {row}, backend, id)
    BY <1>6, <1>8, <2>1, RemovedIsBroken
  <2>3. Shape(old \ {row}) /\ LastHash(old \ {row}) = LastHash(old)
    BY <1>6, <2>1, RemovalKeepsShape
  <2> QED
    BY <2>2, <2>3
<1>10. PICK put : put = {}
  OBVIOUS
<1>11. \A old \in Views : (old \ {row}) \union put = old \ {row}
  BY <1>10
<1>12. /\ trail' = (trail \ {row}) \union put
       /\ \A r \in put : RowOK(r) /\ r.trail_id = row.trail_id
       /\ \A old \in Views : LET rows == (old \ {row}) \union put
                             IN  Shape(rows) /\ LastHash(rows) = LastHash(old)
       /\ staged' = staged /\ backend' = backend
  BY <1>1, <1>9, <1>10, <1>11 DEF Elsewhere
<1>13. BaseInv'
  BY <1>7, <1>12, EditKeepsBase
<1>14. \A rows \in Views' : \E old \in Views : rows = (old \ {row}) \union put
  BY <1>7, <1>12, EditedViews
<1>15. ASSUME NEW rows \in Views' PROVE Located(rows, backend, id)
  <2>1. PICK old \in Views : rows = (old \ {row}) \union put
    BY <1>14
  <2>2. rows = old \ {row}
    BY <1>11, <2>1
  <2> QED
    BY <1>9, <2>2
<1>16. id \in Nat /\ culprit' = id
  BY <1>1, <1>3, <1>6, <1>8 DEF Shape, RowOK
<1> QED
  BY <1>12, <1>13, <1>15, <1>16, LocatedInv

-----------------------------------------------------------------------------
(* The theorems *)

\* The invariant of the trail that is edited once: sessions can always go on
\* writing, every trail verifies and its digests are distinct until the edit,
\* and from then on the edit is the first thing wrong with every trail.
THEOREM TamperInductive == TamperSpec => []TamperInv
<1>1. TamperInit => TamperInv
  <2> SUFFICES ASSUME TamperInit PROVE TamperInv
    OBVIOUS
  <2>1. BaseInv /\ ChainInv /\ culprit = Intact
    BY BaseInit DEF TamperInit
  <2>2. \A rows \in Views : rows = {}
    BY DEF TamperInit, Init, Views, VisibleTrail
  <2>3. EditInv
    BY <2>1, <2>2 DEF EditInv, Clean, Fresh, ChainInv
  <2> QED
    BY <2>1, <2>3 DEF TamperInv
<1>2. TamperInv /\ [TamperNext]_<<vars, culprit>> => TamperInv'
  <2> SUFFICES ASSUME TamperInv, [TamperNext]_<<vars, culprit>> PROVE TamperInv'
    OBVIOUS
  <2>1. CASE Next /\ UNCHANGED culprit
    BY <2>1, SessionStep
  <2>2. CASE culprit = Intact /\ (EditRow \/ ForgeRow \/ DeleteRow) /\ UNCHANGED Elsewhere
    BY <2>2, EditStep, ForgeStep, DeleteStep
  <2>3. CASE UNCHANGED <<vars, culprit>>
    BY <2>3, SessionStep
  <2> QED
    BY <2>1, <2>2, <2>3 DEF TamperNext
<1> QED
  BY <1>1, <1>2, PTL DEF TamperSpec

\* verify_audit_chain detects any single edit of the table, reports the first
\* row that no longer recomputes and goes on reporting that one whatever
\* transactions run afterwards; without an edit it reports nothing.
THEOREM EditsAreLocated == TamperSpec => []EditLocated
<1>1. TamperInv => EditLocated
  <2> SUFFICES ASSUME TamperInv, NEW s \in Session
               PROVE  verify_audit_chain(VisibleTrail(s)) =
                         IF culprit = Intact THEN <<TRUE, 0>> ELSE <<FALSE, culprit>>
    BY DEF EditLocated
  <2>1. VisibleTrail(s) \in Views
    BY DEF Views
  <2>2. Shape(VisibleTrail(s))
    BY <2>1 DEF TamperInv, BaseInv, ShapeInv
  <2>3. CASE culprit = Intact
    BY <2>1, <2>3, GoodVerifies DEF TamperInv, EditInv, Clean
  <2>4. CASE culprit # Intact
    BY <2>1, <2>2, <2>4, LocatedReported DEF TamperInv, EditInv
  <2> QED
    BY <2>3, <2>4
<1> QED
  BY <1>1, TamperInductive, PTL

===============================================================================
